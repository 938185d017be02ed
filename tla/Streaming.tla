----------------------------- MODULE Streaming -----------------------------
(***************************************************************************)
(* One streamed answer (internal/relay/streaming.go, sse_reader.go): the   *)
(* producer goroutine reads lines from the upstream, converts them twice   *)
(* (module StreamFormats), and hands the events over a channel of one      *)
(* place to fasthttp, which reads them, writes them to the client, and     *)
(* closes the reader when the stream is over or the client is gone.        *)
(*                                                                         *)
(* fasthttp and the upstream are external: fasthttp calls Read and Close   *)
(* from one goroutine, and closes after the end of the stream or after a   *)
(* write that failed.                                                      *)
(***************************************************************************)
EXTENDS StreamFormats

CONSTANTS
  Upstreams,     \* the kinds of the channels, "openai", "anthropic", "gemini"
  Clients,       \* the formats of the clients, by the same names
  Scripts        \* for every upstream, the streams it may answer with

VARIABLES
  upstream,      \* GetChannelType of the adaptor
  client,        \* clientFormat
  script,        \* what the upstream answers, line by line
  at,            \* how many lines the producer has read
  input,         \* inputTokens of the Anthropic conversion
  roleSent,      \* roleSent of the Gemini conversion
  reverse,       \* started and blockIdx of the reverse conversion
  pc,            \* where the producer is
  outbox,        \* the events it is sending
  outcome,       \* "running", then the result of streamAndForward
  channel,       \* eventCh
  ended,         \* whether eventCh is closed
  reader,        \* where fasthttp is
  current,       \* what Read has not copied yet
  copied,        \* what Read has copied and is not written yet
  tracked,       \* the tokens in the streamTracker
  produced,      \* history: the events the producer has sent or is sending
  delivered      \* history: the events the client has got

convVars == <<input, roleSent, reverse>>
fixed    == <<upstream, client, script>>
pipeVars == <<channel, ended>>
readVars == <<reader, current, copied, delivered>>
vars == <<fixed, at, convVars, pc, outbox, outcome, pipeVars, readVars, tracked, produced>>

Blank == [format |-> "blank", type |-> "blank"]
Done  == [format |-> "done", type |-> "done"]

Init ==
  /\ upstream \in Upstreams /\ client \in Clients
  /\ script \in Scripts[upstream]
  /\ at = 0
  /\ input = 0 /\ roleSent = FALSE
  /\ reverse = [started |-> FALSE, index |-> 0]
  /\ pc = "scan" /\ outbox = <<>> /\ outcome = "running"
  /\ channel = <<>> /\ ended = FALSE
  /\ reader = "reading" /\ current = <<>> /\ copied = <<>> /\ delivered = <<>>
  /\ tracked = <<0, 0>>
  /\ produced = <<>>

----------------------------------------------------------------------------
(* The producer: streamAndForward and the goroutine around it. *)

(* Stage 1, for every upstream but an OpenAI one. *)
ToOpenAI(line) ==
  CASE upstream = "anthropic" -> FromAnthropic(input, line)
    [] upstream = "gemini" /\ line.type = "chunk" -> FromGemini(roleSent, line)
    [] upstream = "gemini" /\ line.type # "chunk" -> <<>>
    [] OTHER -> <<line>>

(* Stage 2, the reverse conversion of the upstream's adaptor, whatever     *)
(* other format the client has.  It parses its input as one chunk and      *)
(* drops what is several.                                                  *)
Reverses == client # "openai" /\ upstream # "openai"

Reversed(chunks) ==
  IF Len(chunks) # 1 \/ (upstream = "anthropic" /\ ~chunks[1].choices)
    THEN [index |-> reverse.index, events |-> <<>>] ELSE
  IF upstream = "anthropic"
    THEN ToAnthropic(reverse.started, reverse.index, chunks[1])
    ELSE [index |-> 0, events |-> ToGemini(chunks[1])]

(* Slip: of the events of one line, only the first is forwarded. *)
ForwardFirst(line) ==
  LET events == IF line.format = "blank" THEN <<line>> ELSE
                IF Reverses THEN Reversed(ToOpenAI(line)).events ELSE ToOpenAI(line)
  IN IF events = <<>> THEN <<>> ELSE <<events[1]>>

(* What a line becomes for the client; <<>> is skipped. *)
Forward(line) ==
  IF line.format = "blank" THEN <<line>> ELSE
  IF Reverses THEN Reversed(ToOpenAI(line)).events ELSE ToOpenAI(line)

ScanLine ==
  /\ pc = "scan" /\ at < Len(script)
  /\ LET line   == script[at + 1]
         events == Forward(line)
     IN /\ at' = at + 1
        /\ outbox' = events
        /\ produced' = produced \o events
        /\ pc' = IF events = <<>> THEN "scan" ELSE "checking"
        /\ input' = IF upstream = "anthropic" /\ line.type = "message_start"
                      THEN line.tokens ELSE input
        /\ roleSent' = (roleSent \/ (upstream = "gemini" /\ line.type = "chunk"
                                       /\ line.candidates))
        /\ reverse' = IF line.format # "blank" /\ Reverses /\ events # <<>>
                        THEN [started |-> TRUE, index |-> Reversed(ToOpenAI(line)).index]
                        ELSE reverse
  /\ UNCHANGED <<fixed, outcome, pipeVars, readVars, tracked>>

(* The upstream ends the stream: SendDone, of which the result is ignored. *)
EndScan ==
  /\ pc = "scan" /\ at = Len(script)
  /\ outcome' = "ok"
  /\ outbox' = <<Done>>
  /\ produced' = Append(produced, Done)
  /\ pc' = "checking"
  /\ UNCHANGED <<fixed, at, convVars, pipeVars, readVars, tracked>>

(* The connection breaks: scanner.Err. *)
BreakScan ==
  /\ pc = "scan"
  /\ outcome' = "error"
  /\ pc' = "ending"
  /\ UNCHANGED <<fixed, at, convVars, outbox, pipeVars, readVars, tracked, produced>>

(* Send, its first half: the flag under the mutex. *)
SendFailed == IF outcome = "running" THEN "error" ELSE outcome

CheckClosed ==
  /\ pc = "checking"
  /\ IF reader \in {"flagged", "closed"}
       THEN pc' = "ending" /\ outcome' = SendFailed
       ELSE pc' = "sending" /\ UNCHANGED outcome
  /\ UNCHANGED <<fixed, at, convVars, outbox, pipeVars, readVars, tracked, produced>>

(* Slip: the first usage counts. *)
TrackFirst(t, event) == IF t = <<0, 0>> THEN UsageOf(upstream, event) ELSE t

(* TrackChunk on every event of the line: the last usage counts. *)
Track(t, event) ==
  IF UsageOf(upstream, event) # <<0, 0>> THEN UsageOf(upstream, event) ELSE t

(* Slip: the channel takes any number of events. *)
PushAnyway ==
  /\ pc = "sending"
  /\ channel' = Append(channel, outbox)
  /\ tracked' = FoldLeft(Track, tracked, outbox)
  /\ outbox' = <<>>
  /\ pc' = IF outcome = "running" THEN "scan" ELSE "ending"
  /\ UNCHANGED <<fixed, at, convVars, outcome, ended, readVars, produced>>

(* Send, its second half: the channel takes the event, and the producer    *)
(* reads its usage.                                                        *)
Push ==
  /\ pc = "sending"
  /\ channel = <<>>
  /\ channel' = <<outbox>>
  /\ tracked' = FoldLeft(Track, tracked, outbox)
  /\ outbox' = <<>>
  /\ pc' = IF outcome = "running" THEN "scan" ELSE "ending"
  /\ UNCHANGED <<fixed, at, convVars, outcome, ended, readVars, produced>>

(* Slip: the closed reader wakes the producer, which waits again. *)
WaitAgain == pc = "sending" /\ reader = "closed" /\ UNCHANGED vars

(* Or the reader is closed while it waits. *)
Abandon ==
  /\ pc = "sending"
  /\ reader = "closed"
  /\ outcome' = SendFailed
  /\ pc' = "ending"
  /\ UNCHANGED <<fixed, at, convVars, outbox, pipeVars, readVars, tracked, produced>>

(* The deferred Done; then the goroutine settles what was tracked.         *)
EndEvents ==
  /\ pc = "ending"
  /\ ended' = TRUE
  /\ pc' = "finished"
  /\ UNCHANGED <<fixed, at, convVars, outbox, outcome, channel, readVars, tracked, produced>>

----------------------------------------------------------------------------
(* fasthttp: Read, write, Close. *)

(* Slip: what does not fit into the buffer is forgotten. *)
ReadOnce ==
  /\ reader = "reading" /\ channel # <<>>
  /\ \E n \in 1..Len(channel[1]) : copied' = SubSeq(channel[1], 1, n)
  /\ channel' = <<>>
  /\ reader' = "writing"
  /\ UNCHANGED <<fixed, at, convVars, pc, outbox, outcome, ended, current, delivered,
                 tracked, produced>>

(* Read copies what fits of the event at hand, or of the next one. *)
Read ==
  /\ reader = "reading"
  /\ \/ current # <<>> /\ UNCHANGED channel
     \/ current = <<>> /\ channel # <<>> /\ channel' = <<>>
  /\ LET event == IF current # <<>> THEN current ELSE channel[1]
     IN \E n \in 1..Len(event) : /\ copied' = SubSeq(event, 1, n)
                                 /\ current' = SubSeq(event, n + 1, Len(event))
  /\ reader' = "writing"
  /\ UNCHANGED <<fixed, at, convVars, pc, outbox, outcome, ended, delivered,
                 tracked, produced>>

(* The channel is closed and empty: io.EOF, after which fasthttp closes.   *)
ReadEOF ==
  /\ reader = "reading" /\ current = <<>> /\ channel = <<>> /\ ended
  /\ reader' = "closing"
  /\ UNCHANGED <<fixed, at, convVars, pc, outbox, outcome, pipeVars, current, copied,
                 delivered, tracked, produced>>

Write ==
  /\ reader = "writing"
  /\ \/ reader' = "reading" /\ delivered' = delivered \o copied
     \/ reader' = "closing" /\ UNCHANGED delivered
  /\ copied' = <<>>
  /\ UNCHANGED <<fixed, at, convVars, pc, outbox, outcome, pipeVars, current,
                 tracked, produced>>

(* Close: the flag under the mutex, then closeCh. *)
Close ==
  /\ \/ reader = "closing" /\ reader' = "flagged"
     \/ reader = "flagged" /\ reader' = "closed"
  /\ UNCHANGED <<fixed, at, convVars, pc, outbox, outcome, pipeVars, current, copied,
                 delivered, tracked, produced>>

Over == pc = "finished" /\ reader = "closed" /\ UNCHANGED vars

Next ==
  \/ ScanLine \/ EndScan \/ BreakScan
  \/ CheckClosed \/ Push \/ Abandon \/ EndEvents
  \/ Read \/ ReadEOF \/ Write \/ Close
  \/ Over

(* The goroutines of the gateway are scheduled.  Neither the upstream nor  *)
(* the client is obliged to anything: no client of the server and no       *)
(* stream of streamingClient has a timeout.                                *)
Fairness ==
  /\ WF_vars(CheckClosed) /\ WF_vars(Push \/ Abandon) /\ WF_vars(EndEvents)
  /\ WF_vars(Read) /\ WF_vars(ReadEOF) /\ WF_vars(Close)

Spec == Init /\ [][Next]_vars /\ Fairness

----------------------------------------------------------------------------
(* Properties. *)

(* Type invariant. *)
TypeOK ==
  /\ at \in 0..Len(script)
  /\ input \in Nat /\ roleSent \in BOOLEAN
  /\ reverse \in [started : BOOLEAN, index : 0..1]
  /\ pc \in {"scan", "checking", "sending", "ending", "finished"}
  /\ outcome \in {"running", "ok", "error"}
  /\ Len(channel) <= 1 /\ ended \in BOOLEAN
  /\ reader \in {"reading", "writing", "closing", "flagged", "closed"}
  /\ tracked \in Nat \X Nat

(* Until one of them gives up, everything the producer has sent is in the  *)
(* hands of the client or on the way to it, once and in order, however     *)
(* little fits into a Read; and what the client got is never anything else *)
(* (sse_reader.go:26-64, streaming.go:77-112).                             *)
InFlight == copied \o current \o FlattenSeq(channel) \o outbox

InOrder ==
  /\ reader \in {"reading", "writing"} => delivered \o InFlight = produced
  /\ IsPrefix(delivered, produced)

(* What the upstream has said so far. *)
Said == SubSeq(script, 1, at)

PiecesSaid(lines) ==
  FlattenSeq([i \in 1..Len(lines) |->
    CASE lines[i].type = "content_block_delta" -> lines[i].pieces
      [] lines[i].type = "chunk" -> PiecesIn(lines[i])
      [] OTHER -> <<>>])

(* Neither conversion loses, repeats or reorders a piece of a text or of   *)
(* the arguments of a call (streaming.go:90-107).  It holds wherever the   *)
(* second stage is given one chunk at a time: see TextKept.                *)
PiecesKept ==
  ~Reverses \/ upstream # "gemini" => PiecesOf(produced) = PiecesSaid(Said)

(* The lines that report tokens, and what they report.  The adaptors take  *)
(* no report without tokens of the prompt, but OpenAI's (adaptor.go, all   *)
(* ParseStreamUsage), and a Gemini line that goes on reports nothing.      *)
Reports(line) ==
  \/ upstream = "anthropic" /\ line.type = "message_delta" /\ input # 0
  \/ upstream = "gemini" /\ line.type = "chunk" /\ line.usage \notin {<<>>} \cup {0} \X Nat
       /\ (line.candidates => line.calls # <<>> \/ line.reason # "")
  \/ upstream = "openai" /\ line.type = "chunk" /\ line.usage \notin {<<>>, <<0, 0>>}

Reported(line) == IF upstream = "anthropic" THEN <<input, line.tokens>> ELSE line.usage

UsageSaid(lines) ==
  LET reports == {i \in 1..Len(lines) : Reports(lines[i])}
  IN IF reports = {} THEN <<0, 0>> ELSE Reported(lines[Max(reports)])

(* A stream that was forwarded to its end settles the tokens that the      *)
(* upstream reported last, as Reports has it, over the first conversion's  *)
(* ways of splitting events, where the client is sent OpenAI chunks: at    *)
(* OpenAI upstreams and for OpenAI clients (streaming.go:39-57, 114-126;   *)
(* handler.go:332-338).  What is reversed for another client is not read   *)
(* whole; nothing is, and nothing settled, of an Anthropic stream.         *)
UsageTracked ==
  ~Reverses /\ pc = "finished" /\ outcome = "ok" => tracked = UsageSaid(script)

(* The blocks of an Anthropic stream that are open after the first n       *)
(* events: started, and not stopped since.                                 *)
Starts(event) == event.format = "anthropic" /\ event.type = "content_block_start"
Stops(event)  == event.format = "anthropic" /\ event.type = "content_block_stop"

OpenAfter(n) ==
  {produced[i].index : i \in {j \in 1..n :
     /\ Starts(produced[j])
     /\ \A k \in j + 1..n : Stops(produced[k]) => produced[k].index # produced[j].index}}

(* An Anthropic client sees every delta inside an open block, and the end  *)
(* of the message only when every block is closed, for any mixture of      *)
(* texts and calls (anthropic/streaming.go:258-325).                       *)
Bracketed ==
  \A i \in 1..Len(produced) :
    produced[i].format = "anthropic" =>
      /\ produced[i].type \in {"content_block_delta", "content_block_stop"} =>
           produced[i].index \in OpenAfter(i - 1)
      /\ produced[i].type \in {"message_delta", "message_stop"} => OpenAfter(i) = {}

(* The parts of calls in the n-th line: of which call, its name, if it is  *)
(* told, and arguments.  A Gemini line has whole calls.                    *)
PartsIn(n, line) ==
  CASE line.type = "content_block_start" /\ line.block = "tool_use" ->
         <<[call |-> line.index, name |-> <<line.name>>, args |-> <<>>]>>
    [] line.type = "content_block_delta" /\ line.delta = "input_json_delta" ->
         <<[call |-> line.index, name |-> <<>>, args |-> line.pieces]>>
    [] line.format = "openai" ->
         [i \in 1..Len(line.tools) |-> [call |-> line.tools[i].index,
                                        name |-> line.tools[i].name,
                                        args |-> line.tools[i].args]]
    [] line.format = "gemini" ->
         [i \in 1..Len(line.calls) |-> [call |-> <<n, i>>, name |-> <<line.calls[i].name>>,
                                        args |-> line.calls[i].args]]
    [] OTHER -> <<>>

PartsSaid == FlattenSeq([n \in 1..Len(script) |-> PartsIn(n, script[n])])

(* The calls of the script in the order in which they start, each with all *)
(* of its arguments.                                                       *)
CallsSaid ==
  LET parts  == PartsSaid
      starts == SelectSeq([i \in 1..Len(parts) |-> i],
                          LAMBDA i : \A j \in 1..(i - 1) : parts[j].call # parts[i].call)
      ArgsOf(call) == FlattenSeq([i \in 1..Len(parts) |->
                                   IF parts[i].call = call THEN parts[i].args ELSE <<>>])
  IN [n \in 1..Len(starts) |-> [name |-> parts[starts[n]].name,
                                args |-> ArgsOf(parts[starts[n]].call)]]

(* Streams whose calls StreamToNonStream mixes up: one that names a call   *)
(* again, and Gemini's calls on several lines, which are numbered from 0   *)
(* on every line (gemini/streaming.go:107, stream_converter.go:96-103).    *)
Confuses ==
  LET parts == PartsSaid
  IN \E j \in 1..Len(parts) : \E i \in 1..(j - 1) :
       IF upstream = "gemini" THEN parts[i].call[1] # parts[j].call[1]
       ELSE parts[i].call = parts[j].call /\ parts[j].name # <<>>

(* The stream made into one answer keeps the text when nothing is called,  *)
(* every call with its name and its own arguments in their order, however  *)
(* the parts of several calls follow each other, and the usage of the      *)
(* stream (stream_converter.go:10-159; handler.go:385-394).  Calls without *)
(* a name, at the indices of Anthropic's texts, are among them, and a text *)
(* beside calls is not kept.                                               *)
AnswerAgrees ==
  ~Reverses /\ at = Len(script) =>
    LET answer == StreamToNonStream(SelectSeq(produced, LAMBDA e : e.format = "openai"))
    IN /\ answer.calls = <<>> => answer.text = PiecesSaid(script)
       /\ Confuses \/ SelectSeq(answer.calls, LAMBDA c : c.name # <<>>) = CallsSaid
       /\ UsageSaid(script) # <<0, 0>> => answer.usage = UsageSaid(script)

(* A client that is gone does not keep the producer: it comes back to the  *)
(* upstream, or ends and settles (sse_reader.go:50-64).                    *)
ProducerFreed == (reader = "closing") ~> (pc \in {"scan", "finished"})

(* "Stage 2: OpenAI SSE -> client format SSE" (streaming.go:99): the       *)
(* client of any format gets everything the upstream said.  The code does  *)
(* not keep this for Gemini channels: their first and last lines become    *)
(* several chunks (streaming.go:115 knows it), the second stage parses     *)
(* "a single OpenAI SSE data line" (gemini/streaming.go:228) and drops     *)
(* them, with the text in them.                                            *)
TextKept == PiecesOf(produced) = PiecesSaid(Said)

=============================================================================

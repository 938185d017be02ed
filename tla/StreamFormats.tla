--------------------------- MODULE StreamFormats ---------------------------
(***************************************************************************)
(* The conversions of a stream, line by line: what an upstream of each     *)
(* kind says, turned into chunks of the OpenAI format, and those turned    *)
(* into the events of an Anthropic or a Gemini client.  A text is a        *)
(* sequence of pieces, of which only the identity and the order matter;    *)
(* identifiers, model names and JSON encoding are left out.  An answer     *)
(* <<>> is a line that is dropped (nil in the code); an absent usage is    *)
(* <<>>, a present one <<prompt tokens, completion tokens>>.               *)
(***************************************************************************)
EXTENDS Naturals, Sequences, SequencesExt

(* A chunk of the OpenAI format that says nothing (the role of the         *)
(* assistant, for instance).                                               *)
Plain == [format |-> "openai", type |-> "chunk", choices |-> TRUE, text |-> <<>>,
          tools |-> <<>>, finish |-> "", usage |-> <<>>]

(* The part of a tool call that a chunk carries: a name, <<>> when there   *)
(* is none, starts the call.                                               *)
ToolPart(index, name, args) == [index |-> index, name |-> name, args |-> args]

----------------------------------------------------------------------------
(* What an upstream of each kind answers.                                  *)

Usages == {<<>>} \cup (Nat \X Nat)

IsSequence(s) == s \in Seq(ToSet(s))

(* The other deltas (of its thinking, for instance) are no pieces.         *)
AnthropicLine(line) ==
  /\ line.format = "upstream"
  /\ line.type \in {"event", "message_start", "content_block_start", "content_block_delta",
                    "content_block_stop", "message_delta", "message_stop"}
  /\ line.type \in {"message_start", "message_delta"} => line.tokens \in Nat
  /\ line.type = "content_block_delta" =>
       /\ IsSequence(line.pieces)
       /\ line.delta \notin {"text_delta", "input_json_delta"} => line.pieces = <<>>

(* A text, tool calls (whose parts are parts of an OpenAI chunk's calls or *)
(* whole calls of a Gemini line's), and a usage.                           *)
Says(line, calls) ==
  /\ IsSequence(line.text)
  /\ IsSequence(calls) /\ \A call \in ToSet(calls) : IsSequence(call.args)
  /\ line.usage \in Usages

OpenAILine(line) == line.format = "openai" /\ line.type = "chunk" /\ Says(line, line.tools)

GeminiLine(line) ==
  /\ line.format = "gemini" /\ line.type = "chunk" /\ Says(line, line.calls)
  /\ ~line.candidates => line.text = <<>> /\ line.calls = <<>>

LineOf(kind, line) ==
  \/ line.format = "blank" /\ line.type = "blank"
  \/ kind = "openai" /\ OpenAILine(line)
  \/ kind = "anthropic" /\ AnthropicLine(line)
  \/ kind = "gemini" /\ GeminiLine(line)

(* An Anthropic upstream is done with its blocks when it tells the reason  *)
(* for its end, and tells it once.                                         *)
ScriptOf(kind, script) ==
  /\ IsSequence(script)
  /\ \A i \in 1..Len(script) : LineOf(kind, script[i])
  /\ \A i, j \in 1..Len(script) :
       i < j /\ script[i].type = "message_delta" =>
         script[j].type \notin {"message_start", "content_block_start", "content_block_delta",
                               "message_delta"}

----------------------------------------------------------------------------
(* Upstream lines to OpenAI chunks.  "blank" lines end every event and are *)
(* not converted; "event" lines name the event that the next line carries. *)

FinishOfAnthropic(reason) ==
  CASE reason = "tool_use"   -> "tool_calls"
    [] reason = "max_tokens" -> "length"
    [] OTHER                 -> "stop"

(* anthropicStreamState.convertLine, where input is the prompt's tokens    *)
(* that message_start told.                                                *)
FromAnthropic(input, line) ==
  CASE line.type = "message_start" -> <<Plain>>
    [] line.type = "content_block_start" /\ line.block = "tool_use" ->
         <<[Plain EXCEPT !.tools = <<ToolPart(line.index, <<line.name>>, <<>>)>>]>>
    [] line.type = "content_block_delta" /\ line.delta = "text_delta" ->
         <<[Plain EXCEPT !.text = line.pieces]>>
    [] line.type = "content_block_delta" /\ line.delta = "input_json_delta" ->
         <<[Plain EXCEPT !.tools = <<ToolPart(line.index, <<>>, line.pieces)>>]>>
    [] line.type = "message_delta" ->
         <<[Plain EXCEPT !.finish = FinishOfAnthropic(line.reason),
                         !.usage = <<input, line.tokens>>]>>
    [] OTHER -> <<>>

FinishOfGemini(reason) ==
  CASE reason = "MAX_TOKENS"               -> "length"
    [] reason \in {"SAFETY", "RECITATION"} -> "content_filter"
    [] OTHER                               -> "stop"

(* geminiStreamState.convertChunk, where roleSent says that the role was   *)
(* sent before.  A first or a final line becomes several chunks.           *)
FromGemini(roleSent, line) ==
  LET finish == IF line.calls # <<>> THEN "tool_calls" ELSE
                IF line.reason = "" THEN "" ELSE FinishOfGemini(line.reason)
      tools  == [i \in 1..Len(line.calls) |->
                   ToolPart(i - 1, <<line.calls[i].name>>, line.calls[i].args)]
      role   == IF roleSent THEN <<>> ELSE <<Plain>>
      said   == [Plain EXCEPT !.text = line.text, !.tools = tools, !.finish = finish]
      ending == IF finish = "" \/ line.usage = <<>> THEN <<>> ELSE
                  <<[Plain EXCEPT !.finish = finish, !.usage = line.usage]>>
  IN IF line.candidates THEN role \o <<said>> \o ending ELSE
     IF line.usage # <<>> THEN <<[Plain EXCEPT !.usage = line.usage]>> ELSE <<>>

----------------------------------------------------------------------------
(* OpenAI chunks to the client's events. *)

ReasonToAnthropic(finish) ==
  CASE finish = "tool_calls" -> "tool_use"
    [] finish = "length"     -> "max_tokens"
    [] OTHER                 -> "end_turn"

MessageStart == [format |-> "anthropic", type |-> "message_start"]
MessageStop  == [format |-> "anthropic", type |-> "message_stop"]

BlockStart(index, block) ==
  [format |-> "anthropic", type |-> "content_block_start", index |-> index, block |-> block]

BlockStop(index) ==
  [format |-> "anthropic", type |-> "content_block_stop", index |-> index]

Delta(index, pieces) ==
  [format |-> "anthropic", type |-> "content_block_delta", index |-> index, pieces |-> pieces]

MessageDelta(finish, usage) ==
  [format |-> "anthropic", type |-> "message_delta", reason |-> ReasonToAnthropic(finish),
   tokens |-> IF usage = <<>> THEN 0 ELSE usage[2]]

(* To the reverse conversions, an empty name is none. *)
Named(part) == part.name \notin {<<>>, <<"">>}

(* Slip: the text block stays open when a tool call starts. *)
ToolEventsOpen(done, part) ==
  LET index == IF Named(part) /\ done.index = 0 THEN 1 ELSE done.index
  IN [index  |-> index,
      events |-> done.events
        \o (IF Named(part) THEN <<BlockStart(index, "tool_use")>> ELSE <<>>)
        \o (IF part.args # <<>> THEN <<Delta(index, part.args)>> ELSE <<>>)]

(* One part of a tool call: a call that starts closes the text block, and  *)
(* the first one only moves to the next block.                             *)
ToolEvents(done, part) ==
  LET first == Named(part) /\ done.index = 0
      index == IF first THEN 1 ELSE done.index
  IN [index  |-> index,
      events |-> done.events
        \o (IF first THEN <<BlockStop(0)>> ELSE <<>>)
        \o (IF Named(part) THEN <<BlockStart(index, "tool_use")>> ELSE <<>>)
        \o (IF part.args # <<>> THEN <<Delta(index, part.args)>> ELSE <<>>)]

(* anthropicReverseState.convertReverseLine for one chunk with choices;    *)
(* block is 0 and started FALSE at first.                                  *)
ToAnthropic(started, block, chunk) ==
  LET opening == IF started THEN <<>> ELSE
                   <<MessageStart, BlockStart(0, "text")>>
      tools   == FoldLeft(ToolEvents, [index |-> block, events |-> <<>>], chunk.tools)
      body    == IF chunk.tools # <<>> THEN tools.events ELSE
                 IF chunk.text # <<>> THEN <<Delta(block, chunk.text)>> ELSE <<>>
      ending  == IF chunk.finish = "" THEN <<>> ELSE
                   <<BlockStop(tools.index), MessageDelta(chunk.finish, chunk.usage),
                     MessageStop>>
  IN [index |-> tools.index, events |-> opening \o body \o ending]

ReasonToGemini(finish) ==
  CASE finish = "length"         -> "MAX_TOKENS"
    [] finish = "content_filter" -> "SAFETY"
    [] finish = ""               -> ""
    [] OTHER                     -> "STOP"

(* geminiReverseState.convertReverseLine for one chunk.                    *)
ToGemini(chunk) ==
  LET event == [format |-> "gemini", type |-> "chunk", candidates |-> chunk.choices,
                text |-> chunk.text,
                calls |-> [i \in 1..Len(chunk.tools) |->
                             [name |-> IF chunk.tools[i].name = <<>> THEN "" ELSE chunk.tools[i].name[1],
                              args |-> chunk.tools[i].args]],
                reason |-> ReasonToGemini(chunk.finish), usage |-> chunk.usage]
      empty == /\ chunk.text = <<>> /\ chunk.tools = <<>>
               /\ chunk.finish = "" /\ chunk.usage = <<>>
  IN IF empty THEN <<>> ELSE <<event>>

----------------------------------------------------------------------------
(* What the gateway and the clients read from the events. *)

(* ParseStreamUsage of the upstream's adaptor on one event of the client's *)
(* stream; only lines that start with "data: " reach it, which Anthropic   *)
(* events do not.  Two of the adaptors take usage of OpenAI chunks only    *)
(* when it has prompt tokens.                                              *)
UsageOf(upstream, event) ==
  IF event.format \notin {"openai", "gemini"} \/ event.usage = <<>> THEN <<0, 0>> ELSE
  IF event.format = "openai" /\ upstream # "openai" /\ event.usage[1] = 0 THEN <<0, 0>>
  ELSE event.usage

(* The pieces in an event, of a text or of the arguments of tool calls.    *)
PiecesIn(event) ==
  CASE event.format = "openai" ->
         event.text \o FlattenSeq([i \in 1..Len(event.tools) |-> event.tools[i].args])
    [] event.format = "gemini" ->
         event.text \o FlattenSeq([i \in 1..Len(event.calls) |-> event.calls[i].args])
    [] event.format = "anthropic" ->
         IF event.type = "content_block_delta" THEN event.pieces ELSE <<>>
    [] OTHER -> <<>>

PiecesOf(events) == FlattenSeq([i \in 1..Len(events) |-> PiecesIn(events[i])])

----------------------------------------------------------------------------
(* The answer to a client that did not ask for a stream. *)

(* Slip: the arguments of every call go to the first. *)
AddPartFirst(calls, part) ==
  LET grown == [i \in 1..(IF Len(calls) > part.index THEN Len(calls) ELSE part.index + 1) |->
                  IF i <= Len(calls) THEN calls[i] ELSE [name |-> <<>>, args |-> <<>>]]
  IN [grown EXCEPT ![part.index + 1].name = IF part.name # <<>> THEN part.name ELSE @,
                   ![1].args = @ \o part.args]

(* One part of a tool call: the list of calls grows to its index, leaving  *)
(* gaps without a name; a name, even an empty one, replaces the call's.    *)
AddPart(calls, part) ==
  LET grown == [i \in 1..(IF Len(calls) > part.index THEN Len(calls) ELSE part.index + 1) |->
                  IF i <= Len(calls) THEN calls[i] ELSE [name |-> <<>>, args |-> <<>>]]
  IN [grown EXCEPT ![part.index + 1] =
        [name |-> IF part.name # <<>> THEN part.name ELSE @.name,
         args |-> @.args \o part.args]]

AddChunk(answer, chunk) ==
  [text   |-> answer.text \o chunk.text,
   calls  |-> FoldLeft(AddPart, answer.calls, chunk.tools),
   finish |-> IF chunk.finish # "" THEN chunk.finish ELSE answer.finish,
   usage  |-> IF chunk.usage # <<>> THEN chunk.usage ELSE answer.usage]

(* StreamToNonStream: with a call there is no text, and no other reason; a *)
(* call that was never named has no arguments.                             *)
StreamToNonStream(chunks) ==
  LET all == FoldLeft(AddChunk, [text |-> <<>>, calls |-> <<>>, finish |-> "stop",
                                 usage |-> <<>>], chunks)
      Finalized(call) == IF call.name = <<>> THEN [call EXCEPT !.args = <<>>] ELSE call
  IN IF all.calls = <<>> THEN all
     ELSE [all EXCEPT !.text = <<>>, !.finish = "tool_calls",
                      !.calls = [i \in 1..Len(@) |-> Finalized(@[i])]]

=============================================================================

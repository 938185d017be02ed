------------------------------ MODULE Exchange ------------------------------
(***************************************************************************)
(* A client and the gateway, whole answers and streams together: the turns *)
(* of module Conversation, and, for a turn that is streamed                *)
(* (handleStreaming), the goroutines of module Streaming, which work with  *)
(* the kind of the channel and of the client (handler.go:306-316).  The    *)
(* stream ends the conversation, which is forgotten.                       *)
(***************************************************************************)
EXTENDS Conversation

CONSTANT Scripts   \* for every kind of upstream, the streams it may answer with

VARIABLES
  script, at, input, roleSent, reverse, pc, outbox, outcome,
  channel, ended, reader, current, copied, tracked, produced, delivered
                   \* the variables of Streaming

(* GetChannelType; the formats of OpenAI are one kind. *)
Kind(format) == IF format \in OpenAIFormats THEN "openai" ELSE format

Stream == INSTANCE Streaming WITH
  Upstreams <- {Kind(f) : f \in Upstreams}, Clients <- {Kind(f) : f \in Clients},
  upstream <- Kind(upstream), client <- Kind(client)

ASSUME ScriptsAssumption ==
  \A f \in Upstreams : \A s \in Scripts[Kind(f)] : Stream!ScriptOf(Kind(f), s)

streamVars == Stream!vars
all == <<vars, streamVars>>

ExchangeInit ==
  /\ Init
  /\ script = <<>> /\ at = 0 /\ input = 0 /\ roleSent = FALSE
  /\ reverse = [started |-> FALSE, index |-> 0]
  /\ pc = "scan" /\ outbox = <<>> /\ outcome = "running"
  /\ channel = <<>> /\ ended = FALSE
  /\ reader = "reading" /\ current = <<>> /\ copied = <<>> /\ delivered = <<>>
  /\ tracked = <<0, 0>> /\ produced = <<>>

(* The upstream was asked for a stream and begins it. *)
BeginStream ==
  /\ phase = "sent" /\ mode = "stream" /\ request.stream
  /\ script' \in Scripts[Kind(upstream)]
  /\ phase' = "streaming"
  /\ history' = <<>> /\ turn' = 0 /\ request' = <<>> /\ said' = <<>>
  /\ opening' = CHOOSE o \in Openings(client) : TRUE
  /\ UNCHANGED <<client, upstream, mode, answer, given, at, input, roleSent, reverse, pc,
                 outbox, outcome, channel, ended, reader, current, copied, tracked, produced,
                 delivered>>

ExchangeNext ==
  \/ Next /\ UNCHANGED <<script, at, input, roleSent, reverse, pc, outbox, outcome, channel,
                         ended, reader, current, copied, tracked, produced, delivered>>
  \/ BeginStream
  \/ phase = "streaming" /\ UNCHANGED vars /\ Stream!Next

(* Of the client and the upstream nothing is assumed; the goroutines of a  *)
(* stream are scheduled.                                                   *)
ExchangeSpec == ExchangeInit /\ [][ExchangeNext]_all /\ Stream!Fairness

(* Type invariant, of both parts. *)
TypesOK == TypeOK /\ Stream!TypeOK

(* What the producer sends reaches the client once and in order, or is on  *)
(* its way (sse_reader.go:26-64).                                          *)
InOrder == Stream!InOrder

(* The conversions of a stream keep every piece, where they get one chunk  *)
(* at a time (streaming.go:90-107).                                        *)
PiecesKept == Stream!PiecesKept

(* A stream that is sent as OpenAI chunks to its end settles the tokens    *)
(* that were reported last (streaming.go:39-57, 114-126).                  *)
UsageTracked == Stream!UsageTracked

(* An Anthropic client's blocks are opened and closed around their deltas  *)
(* (anthropic/streaming.go:258-325).                                       *)
Bracketed == Stream!Bracketed

(* A stream made into one answer keeps the text or the calls, each with    *)
(* its name and arguments, and the usage (stream_converter.go:10-159).     *)
AnswerAgrees == Stream!AnswerAgrees

(* A client that is gone does not keep the producer (sse_reader.go:50-64). *)
ProducerFreed == Stream!ProducerFreed

=============================================================================

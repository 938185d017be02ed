---------------------------- MODULE Conversation ----------------------------
(***************************************************************************)
(* A conversation of one client with the models behind the gateway: every  *)
(* turn sends the whole of it, in the client's format, to whatever channel *)
(* the gateway chooses for that turn (internal/relay/handler.go), and what *)
(* was answered becomes a part of the next turn.  The requests and answers *)
(* are converted by module Conversions.                                    *)
(*                                                                         *)
(* The client and the upstreams are external.  A turn that is streamed     *)
(* ends the conversation here: its answer is module Streaming.             *)
(***************************************************************************)
EXTENDS Conversions

CONSTANTS
  Clients,       \* the formats of the clients
  Upstreams,     \* the formats of the channels
  Turns          \* bound: the client's turns, of which the last is not answered

ASSUME ConversationAssumption ==
  /\ Clients \subseteq Formats /\ Upstreams \subseteq Formats
  /\ Turns \in Nat \ {0}

VARIABLES
  client,        \* clientFormat
  opening,       \* what every request starts with: the system's texts and the options
  history,       \* the messages that the client sends, in its format
  turn,          \* the number of the turn
  phase,         \* where the turn is
  upstream,      \* upstreamFormat
  mode,          \* "plain", "stream", or "forced": a stream that the client did not want
  request,       \* what the upstream has got
  answer,        \* what it has answered, as the gateway has it: a format and an answer
  given,         \* what the client has got, likewise
  said           \* history: who said what, as the speaker said it

turnVars == <<upstream, mode, request, answer, given>>
vars == <<client, opening, history, turn, phase, turnVars, said>>

(* What was said: by whom, in which of the messages that open the          *)
(* conversation (0 for the others), after how many other texts of the same *)
(* message, and whether that message also held a result.                   *)
Sayings(by, message, pieces) ==
  [i \in 1..Len(pieces) |->
     [by |-> by, message |-> message, piece |-> pieces[i],
      after |-> Len(Only({"text"}, SubSeq(pieces, 1, i - 1))),
      beside |-> Only({"result"}, pieces) # <<>>]]

----------------------------------------------------------------------------
(* What clients open a conversation with.  In Chat the system's texts are  *)
(* messages.                                                               *)

Opening(system, messages, choice, stop, max) ==
  [system |-> system, messages |-> messages, choice |-> choice, stop |-> stop, max |-> max]

SystemTexts == <<<<<<0, 1>>>>, <<<<0, 2>>>>>>

Openings(format) ==
  LET One(role)  == Message(role, Each(Text, SystemTexts))
      Two        == Each(LAMBDA t : Message("system", <<Text(t)>>), SystemTexts)
      tool       == <<0, 3>>
  IN CASE format = "openai_chat" ->
            {Opening(<<>>, Two, <<"required", <<>>>>, <<"word">>, 0),
             Opening(<<>>, <<One("system")>>, <<"none", <<>>>>, <<"word">>, 9),
             Opening(<<>>, <<One("developer")>>, <<"function", tool>>, <<>>, 9)}
       [] format = "openai_responses" ->
            {Opening(<<FlattenSeq(SystemTexts)>>, <<>>, <<"required", <<>>>>, <<>>, 9)}
       [] format = "anthropic" ->
            {Opening(SystemTexts, <<>>, <<"any", <<>>>>, <<"word">>, 9),
             Opening(<<>>, <<>>, <<"tool", tool>>, <<>>, 9)}
       [] format = "gemini" ->
            {Opening(SystemTexts, <<>>, <<"ANY", <<>>>>, <<"word">>, 0),
             Opening(SystemTexts, <<>>, <<"NONE", <<>>>>, <<>>, 9),
             Opening(<<>>, <<>>, <<"ANY", tool>>, <<>>, 9)}

SaidFirst(start) ==
  Sayings("system", 0, Each(Text, start.system))
  \o FlattenSeq([i \in 1..Len(start.messages) |->
       Sayings(start.messages[i].role, i, start.messages[i].pieces)])

Init ==
  /\ client \in Clients
  /\ opening \in Openings(client)
  /\ history = <<>> /\ turn = 0
  /\ phase = "asking"
  /\ upstream = "none" /\ mode = "none" /\ request = <<>>
  /\ answer = <<>> /\ given = <<>>
  /\ said = SaidFirst(opening)

----------------------------------------------------------------------------
(* The client. *)

(* The calls it was answered with and has not given results to.            *)
Pending ==
  IF history = <<>> \/ Last(history).role \notin {"assistant", "model"} THEN <<>>
  ELSE Only({"call"}, Last(history).pieces)

(* The text of the result of a call, by the name of the call. *)
ResultText(name) == <<name \o <<0>>>>

(* The messages that hold the results of the calls, and a text beside them *)
(* where a format can hold both.  A client of Gemini names the function.   *)
Answering(results, beside) ==
  IF client \in OpenAIFormats
    THEN Each(LAMBDA r : Message("tool", <<r>>), results)
         \o (IF beside = <<>> THEN <<>> ELSE <<Message("user", beside)>>)
    ELSE <<Message("user", results \o beside)>>

(* It sends messages of its own. *)
Sends(messages) ==
  /\ history' = history \o messages
  /\ said' = said \o FlattenSeq(Each(LAMBDA m :
       Sayings(IF m.role = "tool" THEN "tool" ELSE "user", 0, m.pieces), messages))

(* The images it may send. *)
Pictures ==
  {Image(<<<<0, 9>>>>)} \cup (IF client = "anthropic" THEN {Inline(<<<<0, 9>>>>)} ELSE {})

(* It says something new, in the first turn with an image, or answers the  *)
(* calls, and may say something besides.                                   *)
Ask ==
  /\ phase = "asking" /\ turn < Turns
  /\ LET words == <<Text(<<<<turn + 1, 1>>>>), Text(<<<<turn + 1, 2>>>>)>>
     IN \/ turn > 0 /\ Sends(<<Message("user", <<words[1]>>)>>)
        \/ /\ turn = 0
           /\ \E picture \in Pictures :
                Sends(<<Message("user", <<words[1], picture, words[2]>>)>>)
        \/ /\ Pending # <<>>
           /\ \E listed \in BOOLEAN, beside \in {<<>>, <<words[1]>>} :
                /\ listed => client = "openai_chat"
                /\ Sends(Answering(
                     Each(LAMBDA c : Result(c.id, IF client = "gemini" THEN c.name ELSE <<>>,
                                            ResultText(c.name), listed), Pending), beside))
  /\ turn' = turn + 1
  /\ phase' = "asked"
  /\ upstream' = "none" /\ mode' = "none" /\ request' = <<>>
  /\ answer' = <<>> /\ given' = <<>>
  /\ UNCHANGED <<client, opening>>

----------------------------------------------------------------------------
(* The gateway: HandleRelay from the choice of the channel to the upstream *)
(* request.  A Gemini upstream is asked for a stream by the address that   *)
(* SetupRequestHeader makes, as SetRequestParams told it.                  *)

Document(wanted) ==
  Request(opening.system, opening.messages \o history, wanted, opening.choice, opening.stop,
          opening.max)

(* A conversion that fails is refused with 400; the client may try again.  *)
Relay ==
  /\ phase \in {"asked", "refused"}
  /\ upstream' \in Upstreams /\ mode' \in {"plain", "stream", "forced"}
  /\ LET converted == ConvertRequest(client, upstream', Document(mode' # "plain"), <<turn>>)
     IN IF converted = <<>>
          THEN phase' = "refused" /\ request' = <<>>
          ELSE /\ phase' = "sent"
               /\ request' = IF upstream' # "gemini" THEN converted[1]
                             ELSE [converted[1] EXCEPT !.stream = mode' = "stream"]
  /\ UNCHANGED <<client, opening, history, turn, answer, given, said>>

----------------------------------------------------------------------------
(* The upstreams. *)

(* What an end is called. *)
EndOf(format, end) ==
  CASE format \in OpenAIFormats -> [done |-> "stop", called |-> "tool_calls", cut |-> "length",
                                    filtered |-> "content_filter"][end]
    [] format = "anthropic"     -> [done |-> "end_turn", called |-> "tool_use",
                                    cut |-> "max_tokens", filtered |-> "refusal"][end]
    [] format = "gemini"        -> [done |-> "STOP", called |-> "STOP", cut |-> "MAX_TOKENS",
                                    filtered |-> "SAFETY"][end]

Usage == <<3, 5>>

(* One text, cut or not; nothing, filtered; calls, with and without texts  *)
(* between them; no choice at all.  An OpenAI upstream may write arguments *)
(* that are no JSON; Gemini identifies no call.                            *)
Answers(format) ==
  LET T(i) == Text(<<<<turn, 4 + i>>>>)
      C(i, args) == Call(IF format = "gemini" THEN <<>> ELSE <<turn, i>>, <<turn, i>>, args)
      Talk(args) == LET pieces == <<T(1), C(1, "given"), T(2), C(2, args)>>
                    IN IF format \in OpenAIFormats THEN TextsThenCalls(pieces) ELSE pieces
      One(pieces, end) == <<Choice(IF format = "gemini" THEN "model" ELSE "assistant",
                                   pieces, EndOf(format, end))>>
  IN {[choices |-> choices, usage |-> Usage] :
        choices \in {One(<<T(1)>>, "done"), One(<<T(1)>>, "cut"), One(<<>>, "filtered"),
                     One(<<C(1, "{}")>>, "called"), One(Talk("given"), "called")}
          \cup (IF format \in OpenAIFormats THEN {One(Talk("broken"), "called")} ELSE {})
          \cup (IF format # "anthropic" THEN {<<>>} ELSE {})}

(* handleForceStream makes the stream into an answer of Chat: its texts    *)
(* are joined, and dropped when there are calls (StreamToNonStream).       *)
Assembled(format, reply) ==
  LET all    == IF reply.choices = <<>> THEN <<>> ELSE reply.choices[1].pieces
      calls  == Only({"call"}, all)
      named  == [i \in 1..Len(calls) |->
                   IF format = "gemini" THEN [calls[i] EXCEPT !.id = <<turn, 1, i>>] ELSE calls[i]]
      text   == Text(FlattenSeq(Each(LAMBDA p : p.text, Only({"text"}, all))))
      finish == IF reply.choices = <<>> THEN "stop" ELSE FinishRead(format, reply.choices[1].finish)
  IN [choices |-> <<Choice("assistant", IF calls = <<>> THEN <<text>> ELSE named,
                           IF calls = <<>> THEN finish ELSE "tool_calls")>>,
      usage   |-> reply.usage]

(* What it makes of a body that is no stream it can read. *)
Unread == [choices |-> <<Choice("assistant", <<Text(<<>>)>>, "stop")>>, usage |-> <<0, 0>>]

(* A stream of Responses is not read; the answer of Gemini, which was not  *)
(* asked for a stream, is read if it is on one line.                       *)
Heard(reply) ==
  IF mode = "plain" THEN {[format |-> upstream, answer |-> reply]} ELSE
  {[format |-> "openai_chat", answer |-> a] :
     a \in (IF upstream = "openai_responses" THEN {} ELSE {Assembled(upstream, reply)})
           \cup (IF upstream \in {"openai_responses", "gemini"} THEN {Unread} ELSE {})}

(* The messages that the client makes of the choices it is given, and what *)
(* the upstream said in its choices.                                       *)
Caller(format) == IF format = "gemini" THEN "model" ELSE "assistant"

Remembered(choices) == Each(LAMBDA c : Message(Caller(client), c.pieces), choices)

Utter(choices) == IF choices = <<>> THEN <<>> ELSE Sayings("assistant", 0, choices[1].pieces)

(* handleBuffered and handleForceStream, from the answer on: what cannot   *)
(* be converted is passed on as it is, and a client that cannot read it    *)
(* gives up.                                                               *)
Answer ==
  /\ phase = "sent" /\ mode # "stream" /\ turn < Turns
  /\ \E reply \in Answers(upstream) : answer' \in Heard(reply)
  /\ LET converted == ConvertResponse(answer'.format, client, answer'.answer, <<turn, 0>>)
     IN /\ given' = IF converted = <<>> THEN answer'
                    ELSE [format |-> client, answer |-> converted[1]]
        /\ IF given'.format # client
             THEN phase' = "over" /\ UNCHANGED <<history, said>>
             ELSE /\ phase' = "asking"
                  /\ history' = history \o Remembered(given'.answer.choices)
                  /\ said' = said \o Utter(answer'.answer.choices)
  /\ UNCHANGED <<client, opening, turn, upstream, mode, request>>

(* The conversation is over: by its bound, by a streamed turn, or because  *)
(* the client cannot go on.                                                *)
Over ==
  \/ phase = "sent" /\ (mode = "stream" \/ turn = Turns) /\ UNCHANGED vars
  \/ phase = "over" /\ UNCHANGED vars

Next == Ask \/ Relay \/ Answer \/ Over

Spec == Init /\ [][Next]_vars

----------------------------------------------------------------------------
(* Properties. *)

(* Type invariant. *)
TypeOK ==
  /\ client \in Clients /\ opening \in Openings(client)
  /\ turn \in 0..Turns
  /\ phase \in {"asking", "asked", "refused", "sent", "over", "streaming"}
  /\ upstream \in Upstreams \cup {"none"}
  /\ mode \in {"plain", "stream", "forced", "none"}
  /\ phase = "sent" => /\ upstream # "none"
                       /\ request.stream \in BOOLEAN /\ request.max \in Nat
  /\ given # <<>> => given.format \in Formats /\ answer.format \in Formats

(* Whether the gateway reads the messages of the client, and writes them   *)
(* anew: it does not look at a request of the upstream's own format.       *)
Rewritten == upstream # client /\ client # "openai_responses"
Untouched == upstream = client

(* The words and images of a request, each with the role it is given. *)
Words(by, texts) ==
  FlattenSeq(Each(LAMBDA t : [i \in 1..Len(t) |-> <<by, t[i]>>], texts))

TextsOf(pieces) == Each(LAMBDA p : p.text, Only({"text", "image", "inline"}, pieces))

(* A role, as the OpenAI formats name it. *)
Voice(role) == IF role = "model" THEN "assistant" ELSE role

WordsIn(doc) ==
  Words("system", doc.system)
  \o FlattenSeq(Each(LAMBDA m : Words(Voice(m.role), TextsOf(m.pieces)), doc.messages))

(* What is not carried: an image of a client of Gemini, whose form is not  *)
(* read, or one that an Anthropic client's message holds itself; a text    *)
(* beside a result, but for a client of Anthropic at Gemini;               *)
(* the texts of an answer but the first, at Anthropic; the system messages *)
(* but the last, at Gemini; the texts of the system's or the developer's   *)
(* message but the first, at Responses.                                    *)
Carried(saying) ==
  \/ Untouched
  \/ /\ saying.piece.kind = "image" => client # "gemini"
     /\ saying.piece.kind # "inline"
     /\ saying.beside => client = "anthropic" /\ upstream = "gemini"
     /\ upstream = "anthropic" /\ saying.by = "assistant" => saying.after = 0
     /\ upstream = "gemini" /\ saying.by = "system" =>
          \A i \in 1..Len(said) : said[i].by = "system" => said[i].message <= saying.message
     /\ upstream = "openai_responses" /\ saying.by \in {"system", "developer"} =>
          saying.after = 0

(* Developers speak as users at Anthropic and Gemini, as the system at     *)
(* Responses.                                                              *)
VoiceOf(by) ==
  IF by # "developer" \/ upstream \in {client, "openai_chat"} THEN by ELSE
  IF upstream = "openai_responses" THEN "system" ELSE "user"

(* In every turn the upstream is told every word of the conversation, once *)
(* and in order, by the one who said it, whichever upstreams answered the  *)
(* turns before and through whatever formats it has gone; all but what     *)
(* Carried leaves out (handler.go:228; the six request converters).        *)
SaidKept ==
  phase = "sent" /\ (Rewritten \/ Untouched) =>
    WordsIn(request) =
      FlattenSeq(Each(LAMBDA s : Words(VoiceOf(s.by), TextsOf(<<s.piece>>)),
                      Where(Carried, said)))

(* Arguments that are no JSON become none at all in Gemini's format. *)
ArgsAt(args) ==
  IF args = "broken" /\ "gemini" \in {client, upstream} THEN "{}" ELSE args

CallsIn(doc) ==
  FlattenSeq(Each(LAMBDA m : Each(LAMBDA c : <<Voice(m.role), c.name, c.args>>,
                                  Only({"call"}, m.pieces)),
                  doc.messages))

(* In every turn the upstream is told every call that any model made, in   *)
(* order, as an assistant's, with its function and its arguments, across   *)
(* changes of the upstream (anthropic/from_internal.go:132-142,            *)
(* gemini/from_internal.go:112-123, openai/to_internal.go:259-274).        *)
CallsKept ==
  phase = "sent" /\ (Rewritten \/ Untouched) =>
    CallsIn(request) =
      Each(LAMBDA s : <<"assistant", s.piece.name, ArgsAt(s.piece.args)>>,
           Where(LAMBDA s : s.piece.kind = "call", said))

ResultsSaid == Where(LAMBDA s : s.piece.kind = "result", said)

(* The results in a request: the role, the text, and the function of the   *)
(* call before it that it belongs to, by its identifier (by its name, in   *)
(* Gemini's format).                                                       *)
Owner(doc, n, r) ==
  LET calls == UNION {ToSet(Only({"call"}, doc.messages[i].pieces)) : i \in 1..(n - 1)}
  IN {c.name : c \in {c \in calls : IF upstream = "gemini" THEN c.name = r.name ELSE c.id = r.id}}

ResultsIn(doc) ==
  FlattenSeq([n \in 1..Len(doc.messages) |->
    Each(LAMBDA r : [role |-> doc.messages[n].role, text |-> r.text, owner |-> Owner(doc, n, r)],
         Only({"result"}, doc.messages[n].pieces))])

RoleOfResults(format) == IF format \in OpenAIFormats THEN "tool" ELSE "user"

(* The results of tools that a client of Chat gives arrive, all and in     *)
(* order, each with its text (unless it is listed in parts) and after the  *)
(* one call it belongs to, whichever upstream made the call and whichever  *)
(* is told (openai/to_internal.go:126-134, 276-280;                        *)
(* anthropic/from_internal.go:89-108).  Gemini is told no name to match.   *)
ResultsAnswered ==
  phase = "sent" /\ client = "openai_chat" =>
    LET results == ResultsIn(request)
    IN /\ Len(results) = Len(ResultsSaid)
       /\ \A i \in 1..Len(results) :
            LET piece == ResultsSaid[i].piece
            IN /\ results[i].role = RoleOfResults(upstream)
               /\ results[i].text = IF piece.listed /\ ~Untouched THEN <<>> ELSE piece.text
               /\ upstream # "gemini" =>
                    \E name \in results[i].owner :
                      results[i].owner = {name} /\ piece.text = ResultText(name)

(* Names for one choice of tools; the last goes with a function's name. *)
Synonyms == {{"auto", "AUTO"}, {"none", "NONE"}, {"required", "any", "ANY"},
             {"function", "tool", "ANY"}}

SameChoice(a, b) ==
  IF a = <<>> \/ b = <<>> THEN a = b ELSE
  /\ a[2] = b[2]
  /\ \E names \in Synonyms :
       {a[1], b[1]} \subseteq names /\ ("tool" \in names <=> a[2] # <<>>)

(* The limit an upstream is told: Responses clients name theirs otherwise, *)
(* which the gateway does not read, and Anthropic has to be told one.      *)
LimitTold ==
  LET read == IF client = "openai_responses" THEN 0 ELSE opening.max
  IN IF Untouched THEN opening.max ELSE
     IF read = 0 /\ upstream = "anthropic" THEN 4096 ELSE read

(* The upstream is asked for a stream when one is going to be read and     *)
(* only then, but for a Gemini client's stream from another upstream and   *)
(* for a Gemini channel that is forced to one; for the same choice of      *)
(* tools and the same stop words, but a Responses upstream, which is told  *)
(* neither a chosen function nor the words; and for the same limit, but    *)
(* for a Responses client's at another upstream (handler.go:206-240; the   *)
(* ends of the converters).                                                *)
AskedAsMeant ==
  phase = "sent" =>
    /\ request.stream <=> /\ mode # "plain"
                          /\ ~(client = "gemini" /\ ~Untouched)
                          /\ ~(mode = "forced" /\ upstream = "gemini")
    /\ Untouched \/ upstream # "openai_responses" =>
         /\ SameChoice(opening.choice, request.choice)
         /\ request.stop = opening.stop
    /\ request.max = LimitTold

(* What an end means. *)
Meaning ==
  [stop |-> "done", end_turn |-> "done", STOP |-> "done", tool_calls |-> "called",
   tool_use |-> "called", length |-> "cut", max_tokens |-> "cut", MAX_TOKENS |-> "cut",
   content_filter |-> "filtered", refusal |-> "filtered", SAFETY |-> "filtered"]

(* Anthropic has no name for a filtered answer that the gateway knows,     *)
(* Gemini none for one that calls.                                         *)
SameEnd(from, a, to, b) ==
  \/ Meaning[a] = Meaning[b]
  \/ "anthropic" \in {from, to} /\ Meaning[a] = "filtered" /\ Meaning[b] = "done"
  \/ to = "gemini" /\ Meaning[a] = "called" /\ Meaning[b] = "done"

(* What can be converted: nothing to or from Responses, and, to Anthropic, *)
(* no answer without a choice or with arguments that are no JSON.          *)
Convertible ==
  /\ "openai_responses" \notin {answer.format, client}
  /\ client = "anthropic" =>
       /\ answer.answer.choices # <<>>
       /\ \A p \in ToSet(Only({"call"}, answer.answer.choices[1].pieces)) : p.args # "broken"

(* A client of another format is given what the gateway has got as the     *)
(* answer (of a forced stream, what StreamToNonStream made of it, without  *)
(* the text beside calls) in its own format: the texts, then the calls     *)
(* with their functions and arguments, the usage, and why the answer       *)
(* ended; no choice becomes an empty text for Gemini.  What cannot be      *)
(* converted it is given as it is (handler.go:401-407, 551-557; the six    *)
(* converters of answers).                                                 *)
AnswerKept ==
  given # <<>> /\ answer.format # client =>
  IF ~Convertible THEN given = answer ELSE
    /\ given.format = client
    /\ given.answer.usage = answer.answer.usage
    /\ IF answer.answer.choices = <<>>
         THEN given.answer.choices = <<>> \/ client = "gemini"
         ELSE LET a == answer.answer.choices[1]
                  b == given.answer.choices[1]
              IN /\ FlattenSeq(TextsOf(a.pieces)) = FlattenSeq(TextsOf(b.pieces))
                 /\ Each(LAMBDA c : <<c.name, IF client = "gemini" /\ c.args = "broken" THEN "{}"
                                              ELSE c.args>>, Only({"call"}, a.pieces))
                    = Each(LAMBDA c : <<c.name, c.args>>, Only({"call"}, b.pieces))
                 /\ SameEnd(answer.format, a.finish, client, b.finish)

(* "Tool result -> functionResponse part" (gemini/from_internal.go:26), of *)
(* requests in any of four formats "converted into each other"             *)
(* (platform-design.md:17): the results of a client of any format arrive   *)
(* as such.  The code does not keep this: the results of an Anthropic      *)
(* client stay a user's, of which Gemini gets the texts and the others the *)
(* last one, as the content of a user.                                     *)
ResultsDelivered ==
  phase = "sent" /\ Rewritten =>
    LET results == ResultsIn(request)
    IN /\ Len(results) = Len(ResultsSaid)
       /\ \A i \in 1..Len(results) : results[i].role = RoleOfResults(upstream)

=============================================================================

---------------------------- MODULE Conversions ----------------------------
(***************************************************************************)
(* The conversions of whole requests and answers between the formats of    *)
(* clients and upstreams (internal/relay/provider): a document of one      *)
(* format is read into an internal one, which is written in the other.     *)
(*                                                                         *)
(* A document of any format is a record of its system texts, its messages, *)
(* and its options; a message has a role and pieces, in the order in which *)
(* the format holds them.  A text is a sequence of tokens, <<>> the empty  *)
(* one: joining texts concatenates them.  An identifier or a name is a     *)
(* tuple, <<>> when it is absent.  Arguments of a call are "given", "{}",  *)
(* or "broken": a text that is no JSON, which only the OpenAI formats can  *)
(* hold.  A tool's own declaration, the model's name, the temperature and  *)
(* the encoding as JSON are left out.                                      *)
(***************************************************************************)
EXTENDS Naturals, SequencesExt

OpenAIFormats == {"openai_chat", "openai_responses"}
Formats == OpenAIFormats \cup {"anthropic", "gemini"}

Text(text)  == [kind |-> "text", text |-> text]
(* An image by its url, <<>> when it has none; and, in the requests of     *)
(* Anthropic clients, one that is given in the message itself.             *)
Image(url)   == [kind |-> "image", text |-> url]
Inline(data) == [kind |-> "inline", text |-> data]
Call(id, name, args) == [kind |-> "call", id |-> id, name |-> name, args |-> args]
(* In the OpenAI formats the content of a result may be listed in parts.   *)
Result(id, name, text, listed) ==
  [kind |-> "result", id |-> id, name |-> name, text |-> text, listed |-> listed]
Message(role, pieces) == [role |-> role, pieces |-> pieces]

Each(Op(_), s)      == [i \in 1..Len(s) |-> Op(s[i])]
Where(Test(_), s)   == FlattenSeq(Each(LAMBDA e : IF Test(e) THEN <<e>> ELSE <<>>, s))
Only(kinds, pieces) == Where(LAMBDA p : p.kind \in kinds, pieces)
LastOf(s)           == IF s = <<>> THEN <<>> ELSE <<Last(s)>>

----------------------------------------------------------------------------
(* Requests, read: an internal message has a role, content (texts and      *)
(* images), calls, and at most one result.                                 *)

Internal(role, content, calls, result) ==
  [role |-> role, content |-> content, calls |-> calls, result |-> result]

(* parseOpenAIMessage.  An empty text is no content; the result of a tool  *)
(* is its content, if that is a text.                                      *)
FromOpenAIMessage(m) ==
  LET content == Only({"text", "image"}, m.pieces)
      results == Only({"result"}, m.pieces)
  IN Internal(m.role,
              IF content = <<Text(<<>>)>> THEN <<>> ELSE content,
              Only({"call"}, m.pieces),
              IF m.role # "tool" THEN <<>> ELSE
                Each(LAMBDA r : IF r.listed THEN [r EXCEPT !.text = <<>>] ELSE r, results))

(* parseAnthropicMessage: of an image only the url is read, and of several *)
(* results, the last is left.                                              *)
FromAnthropicMessage(m) ==
  Internal(m.role,
           Each(LAMBDA p : IF p.kind = "inline" THEN Image(<<>>) ELSE p,
                Only({"text", "image", "inline"}, m.pieces)),
           Only({"call"}, m.pieces), LastOf(Only({"result"}, m.pieces)))

(* parseGeminiContent: images are not read, calls get new identifiers, and *)
(* a message with a result becomes the result of a tool.                   *)
FromGeminiContent(m, fresh) ==
  LET calls   == Only({"call"}, m.pieces)
      results == Only({"result"}, m.pieces)
  IN Internal(IF results # <<>> THEN "tool" ELSE
                IF m.role = "model" THEN "assistant" ELSE m.role,
              Only({"text"}, m.pieces),
              [i \in 1..Len(calls) |-> [calls[i] EXCEPT !.id = fresh \o <<i, 0>>]],
              LastOf(results))

(* A choice of tools is a type and a tool's name; <<>> is no choice.       *)

(* parseAnthropicToolChoice. *)
AnthropicChoiceRead(choice) ==
  IF choice = <<>> THEN <<>> ELSE
  CASE choice[1] = "tool" -> <<"function", choice[2]>>
    [] choice[1] = "any"  -> <<"required", <<>>>>
    [] choice[1] = "none" -> <<"none", <<>>>>
    [] OTHER              -> <<"auto", <<>>>>

(* Slip: "ANY" without a name is taken for one with a name. *)
GeminiChoiceReadHasty(choice) ==
  IF choice = <<>> THEN <<>> ELSE
  CASE choice[1] = "ANY"  -> <<"function", choice[2]>>
    [] choice[1] = "NONE" -> <<"none", <<>>>>
    [] OTHER              -> <<"auto", <<>>>>

(* parseGeminiToolConfig. *)
GeminiChoiceRead(choice) ==
  IF choice = <<>> THEN <<>> ELSE
  CASE choice[1] = "ANY" /\ choice[2] # <<>> -> <<"function", choice[2]>>
    [] choice[1] = "ANY" /\ choice[2] = <<>> -> <<"required", <<>>>>
    [] choice[1] = "NONE" -> <<"none", <<>>>>
    [] OTHER              -> <<"auto", <<>>>>

(* openaiChatToInternal.  Responses is read as if it were Chat, but its    *)
(* messages are in "input" and its limit has another name.                 *)
OpenAIToInternal(format, doc) ==
  [messages |-> IF format = "openai_chat" THEN Each(FromOpenAIMessage, doc.messages) ELSE <<>>,
   stream |-> doc.stream, choice |-> doc.choice, stop |-> doc.stop,
   max |-> IF format = "openai_chat" THEN doc.max ELSE 0]

SystemRead(texts) ==
  IF texts = <<>> THEN <<>> ELSE <<Internal("system", Each(Text, texts), <<>>, <<>>)>>

AnthropicToInternal(doc) ==
  [messages |-> SystemRead(doc.system) \o Each(FromAnthropicMessage, doc.messages),
   stream |-> doc.stream, choice |-> AnthropicChoiceRead(doc.choice), stop |-> doc.stop,
   max |-> doc.max]

(* Whether a stream is wanted is not in a document of Gemini. *)
GeminiToInternal(doc, fresh) ==
  [messages |-> SystemRead(doc.system) \o
                [i \in 1..Len(doc.messages) |->
                   FromGeminiContent(doc.messages[i], Append(fresh, i))],
   stream |-> FALSE, choice |-> GeminiChoiceRead(doc.choice), stop |-> doc.stop,
   max |-> doc.max]

(* The readers by format.  fresh is a prefix for identifiers that are drawn.*)
ToInternal(format, doc, fresh) ==
  CASE format = "anthropic" -> AnthropicToInternal(doc)
    [] format = "gemini"    -> GeminiToInternal(doc, fresh)
    [] OTHER                -> OpenAIToInternal(format, doc)

----------------------------------------------------------------------------
(* Requests, written. *)

(* What the writers for Anthropic and Gemini leave out (OpenAI's do not).  *)
WithUrls(content) == Where(LAMBDA p : p # Image(<<>>), content)

(* contentToText: the first text. *)
FirstText(content) ==
  LET texts == Only({"text"}, content) IN IF texts = <<>> THEN <<>> ELSE Head(texts).text

(* Slip: an assistant that calls says nothing. *)
AnthropicAssistantMute(im) ==
  Message("assistant", IF im.calls = <<>> THEN <<Text(FirstText(im.content))>> ELSE im.calls)

(* buildAnthropicAssistantMessage. *)
AnthropicAssistant(im) ==
  LET text == FirstText(im.content)
  IN Message("assistant", (IF text = <<>> THEN <<>> ELSE <<Text(text)>>) \o im.calls)

(* Slip: the results of tools are left to the default. *)
ToAnthropicMessageForgetful(im) ==
  IF im.role = "assistant" THEN AnthropicAssistant(im) ELSE Message("user", im.content)

(* One message for Anthropic: a result is a block of a user's message.     *)
(* Only assistants call and only tools give results.                       *)
ToAnthropicMessage(im) ==
  CASE im.role = "tool"      -> Message("user", im.result)
    [] im.role = "assistant" -> AnthropicAssistant(im)
    [] OTHER                 -> Message("user", WithUrls(im.content))

OrEmptyText(pieces) == IF pieces = <<>> THEN <<Text(<<>>)>> ELSE pieces

(* contentToGeminiParts. *)
GeminiParts(content) == OrEmptyText(WithUrls(content))

(* Slip: an assistant that says something calls nothing. *)
GeminiAssistantTalking(im) ==
  IF im.content # <<>> THEN Message("model", GeminiParts(im.content)) ELSE
  Message("model", Each(LAMBDA c : Call(<<>>, c.name, c.args), im.calls))

(* buildGeminiAssistantMessage. *)
GeminiAssistant(im) ==
  IF im.calls = <<>> THEN Message("model", GeminiParts(im.content)) ELSE
  Message("model",
    Where(LAMBDA p : p.kind = "text" /\ p.text # <<>>, im.content)
      \o Each(LAMBDA c : Call(<<>>, c.name, IF c.args = "broken" THEN "{}" ELSE c.args),
              im.calls))

ToGeminiContent(im) ==
  CASE im.role = "tool"      -> Message("user", im.result)
    [] im.role = "assistant" -> GeminiAssistant(im)
    [] OTHER                 -> Message("user", GeminiParts(im.content))

(* buildOpenAIMessage: a result takes the place of the content, and has no *)
(* name.                                                                   *)
ToOpenAIMessage(im) ==
  Message(im.role,
    IF im.result = <<>> THEN im.content \o im.calls
    ELSE im.calls \o Each(LAMBDA r : Result(r.id, <<>>, r.text, FALSE), im.result))

(* The end of internalToOpenAIChat. *)
OpenAIChoice(choice) ==
  IF choice = <<>> \/ choice[1] \in {"auto", "none", "required"} THEN choice
  ELSE <<"function", choice[2]>>

(* buildAnthropicToolChoice. *)
AnthropicChoice(choice) ==
  IF choice = <<>> THEN <<>> ELSE
  CASE choice[1] = "function" -> <<"tool", choice[2]>>
    [] choice[1] = "required" -> <<"any", <<>>>>
    [] choice[1] = "none"     -> <<"none", <<>>>>
    [] OTHER                  -> <<"auto", <<>>>>

(* buildGeminiToolConfig. *)
GeminiChoice(choice) ==
  IF choice = <<>> THEN <<>> ELSE
  CASE choice[1] = "function" -> <<"ANY", choice[2]>>
    [] choice[1] = "required" -> <<"ANY", <<>>>>
    [] choice[1] = "none"     -> <<"NONE", <<>>>>
    [] OTHER                  -> <<"AUTO", <<>>>>

Spoken(roles, messages) == Where(LAMBDA im : im.role \in roles, messages)
Silent(roles, messages) == Where(LAMBDA im : im.role \notin roles, messages)
TextsIn(content)        == Each(LAMBDA p : p.text, Only({"text"}, content))

Request(system, messages, stream, choice, stop, max) ==
  [system |-> system, messages |-> messages, stream |-> stream, choice |-> choice,
   stop |-> stop, max |-> max]

(* internalToOpenAIChat. *)
InternalToOpenAIChat(ir) ==
  Request(<<>>, Each(ToOpenAIMessage, ir.messages), ir.stream, OpenAIChoice(ir.choice),
          ir.stop, ir.max)

(* The text that a content starts with. *)
HeadText(content) ==
  IF content # <<>> /\ Head(content).kind = "text" THEN Head(content).text ELSE <<>>

(* internalToResponses: the system's are the texts that its and the        *)
(* developer's messages start with, joined; a tool cannot be chosen, and   *)
(* no word stops.                                                          *)
InternalToResponses(ir) ==
  LET roles == {"system", "developer"}
      first == FlattenSeq(Each(LAMBDA im : HeadText(im.content), Spoken(roles, ir.messages)))
  IN Request(IF first = <<>> THEN <<>> ELSE <<first>>,
             Each(ToOpenAIMessage, Silent(roles, ir.messages)), ir.stream,
             IF ir.choice = <<>> THEN <<>> ELSE <<ir.choice[1], <<>>>>, <<>>, ir.max)

(* internalToAnthropic: all texts of the system, and always a limit. *)
InternalToAnthropic(ir) ==
  Request(FlattenSeq(Each(LAMBDA im : TextsIn(im.content), Spoken({"system"}, ir.messages))),
          Each(ToAnthropicMessage, Silent({"system"}, ir.messages)), ir.stream,
          AnthropicChoice(ir.choice), ir.stop, IF ir.max = 0 THEN 4096 ELSE ir.max)

(* internalToGemini: the texts of the system's last message. *)
InternalToGemini(ir) ==
  LET all == Spoken({"system"}, ir.messages)
  IN Request(IF all = <<>> THEN <<>> ELSE TextsIn(GeminiParts(Last(all).content)),
             Each(ToGeminiContent, Silent({"system"}, ir.messages)), ir.stream,
             GeminiChoice(ir.choice), ir.stop, ir.max)

(* The writers by format. *)
FromInternal(format, ir) ==
  CASE format = "openai_chat"      -> InternalToOpenAIChat(ir)
    [] format = "openai_responses" -> InternalToResponses(ir)
    [] format = "anthropic"        -> InternalToAnthropic(ir)
    [] format = "gemini"           -> InternalToGemini(ir)

(* Broken arguments, written as they are, make the encoding fail. *)
Unwritable(format, calls) ==
  format = "anthropic" /\ \E i \in 1..Len(calls) : calls[i].args = "broken"

(* ConvertRequest: <<>> is an error. *)
ConvertRequest(from, to, doc, fresh) ==
  IF from = to THEN <<doc>> ELSE
  LET ir == ToInternal(from, doc, fresh)
  IN IF \E i \in 1..Len(ir.messages) :
          ir.messages[i].role = "assistant" /\ Unwritable(to, ir.messages[i].calls)
       THEN <<>> ELSE <<FromInternal(to, ir)>>

----------------------------------------------------------------------------
(* Answers: choices (the candidates of Gemini), each with the pieces of    *)
(* the assistant's message and the reason for its end, and the usage.      *)

Choice(role, pieces, finish) == [role |-> role, pieces |-> pieces, finish |-> finish]

(* Slip: an answer that was cut is taken for a whole one. *)
FinishReadWhole(format, reason) ==
  IF format \in OpenAIFormats THEN reason ELSE
  CASE reason = "tool_use"                  -> "tool_calls"
    [] reason \in {"SAFETY", "RECITATION"}  -> "content_filter"
    [] OTHER                                -> "stop"

(* mapFinishReasonToInternal and mapGeminiFinishReason. *)
FinishRead(format, reason) ==
  IF format \in OpenAIFormats THEN reason ELSE
  CASE reason \in {"max_tokens", "MAX_TOKENS"} -> "length"
    [] reason = "tool_use"                     -> "tool_calls"
    [] reason \in {"SAFETY", "RECITATION"}     -> "content_filter"
    [] OTHER                                   -> "stop"

(* mapFinishReasonFromInternal. *)
FinishToAnthropic(reason) ==
  CASE reason = "tool_calls" -> "tool_use"
    [] reason = "length"     -> "max_tokens"
    [] OTHER                 -> "end_turn"

(* mapInternalFinishReason. *)
FinishToGemini(reason) ==
  CASE reason = "length"         -> "MAX_TOKENS"
    [] reason = "content_filter" -> "SAFETY"
    [] OTHER                     -> "STOP"

(* Texts go before calls, whatever their order was. *)
TextsThenCalls(pieces) == Only({"text"}, pieces) \o Only({"call"}, pieces)

OpenAIResponseToInternal(answer) ==
  [answer EXCEPT !.choices =
     Each(LAMBDA c : [c EXCEPT !.pieces = TextsThenCalls(@)], @)]

(* The role is left out. *)
AnthropicResponseToInternal(answer) ==
  [answer EXCEPT !.choices =
     Each(LAMBDA c : Choice("", TextsThenCalls(c.pieces), FinishRead("anthropic", c.finish)), @)]

(* One candidate is read, and its calls get identifiers. *)
GeminiResponseToInternal(answer, fresh) ==
  LET Named(pieces) == [i \in 1..Len(pieces) |->
                          IF pieces[i].kind = "call" THEN [pieces[i] EXCEPT !.id = fresh \o <<i>>]
                          ELSE pieces[i]]
      Read(c) == Choice("", TextsThenCalls(Named(c.pieces)), FinishRead("gemini", c.finish))
  IN [answer EXCEPT !.choices = IF @ = <<>> THEN <<>> ELSE <<Read(@[1])>>]

ResponseToInternal(format, answer, fresh) ==
  CASE format = "anthropic" -> AnthropicResponseToInternal(answer)
    [] format = "gemini"    -> GeminiResponseToInternal(answer, fresh)
    [] OTHER                -> OpenAIResponseToInternal(answer)

(* internalToAnthropicResponse: the first choice, of the assistant. *)
InternalToAnthropicResponse(ir) ==
  LET c == ir.choices[1]
  IN [ir EXCEPT !.choices = <<Choice("assistant", c.pieces, FinishToAnthropic(c.finish))>>]

(* internalToGeminiResponse: the first choice; there is always a text or a *)
(* call, even with no choice.                                              *)
InternalToGeminiResponse(ir) ==
  LET Write(p) == IF p.kind = "text" THEN p
                  ELSE Call(<<>>, p.name, IF p.args = "broken" THEN "{}" ELSE p.args)
      c == ir.choices[1]
  IN [ir EXCEPT !.choices =
        IF @ = <<>> THEN <<Choice("model", OrEmptyText(<<>>), "")>>
        ELSE <<Choice("model", OrEmptyText(Each(Write, c.pieces)), FinishToGemini(c.finish))>>]

(* internalToOpenAIResponse writes every choice as it is. *)
ResponseFromInternal(format, ir) ==
  CASE format = "anthropic" -> InternalToAnthropicResponse(ir)
    [] format = "gemini"    -> InternalToGeminiResponse(ir)
    [] OTHER                -> ir

(* ConvertResponse: <<>> is an error.  Responses has no converters of      *)
(* answers.                                                                *)
ConvertResponse(from, to, answer, fresh) ==
  IF from = to THEN <<answer>> ELSE
  IF "openai_responses" \in {from, to} THEN <<>> ELSE
  LET ir == ResponseToInternal(from, answer, fresh)
  IN IF to = "anthropic" /\ (ir.choices = <<>> \/
                             Unwritable(to, Only({"call"}, ir.choices[1].pieces)))
       THEN <<>> ELSE <<ResponseFromInternal(to, ir)>>

=============================================================================

--------------------------- MODULE Exchange_proofs ---------------------------
(***************************************************************************)
(* Theorems of Exchange: what a stream does, for any scripts, and what a   *)
(* turn keeps, with any formats of clients and upstreams.                  *)
(***************************************************************************)
EXTENDS Exchange, Data_proofs

----------------------------------------------------------------------------
(* The order of the events: what is where between the producer and the     *)
(* client.                                                                 *)

LEMMA OfStream ==
  /\ \A s : Stream!FlattenSeq(s) = FlattenSeq(s)
  /\ \A s, t : Stream!IsPrefix(s, t) <=> IsPrefix(s, t)
BY DEF Stream!FlattenSeq, FlattenSeq, Stream!IsPrefix, IsPrefix

Sequences ==
  /\ IsSeq(outbox) /\ IsSeq(current) /\ IsSeq(copied)
  /\ IsSeq(delivered) /\ IsSeq(produced)
  /\ channel # <<>> => /\ channel = <<channel[1]>>
                       /\ IsSeq(channel[1])

(* Where nothing is. *)
Places ==
  /\ pc = "scan" => outbox = <<>>
  /\ reader = "reading" => copied = <<>>

Flow ==
  /\ Sequences
  /\ Places
  /\ InOrder

LEMMA FlowInit == ExchangeInit => Flow
<1> SUFFICES ASSUME ExchangeInit PROVE Flow
  OBVIOUS
<1>1. Sequences /\ Places
  BY EmptyIsSeq DEF ExchangeInit, Sequences, Places
<1>2. /\ FlattenSeq(channel) = <<>> /\ delivered = <<>> /\ produced = <<>>
      /\ copied = <<>> /\ current = <<>> /\ outbox = <<>>
  BY FlattenNone DEF ExchangeInit
<1>3. <<>> \o <<>> = <<>>
  BY EmptyIsSeq, Concat
<1>4. IsPrefix(<<>>, <<>>)
  BY EmptyIsSeq, PrefixOfConcat, <1>3
<1>5. InOrder
  BY <1>2, <1>3, <1>4, OfStream DEF InOrder, Stream!InOrder, Stream!InFlight
<1>6. QED
  BY <1>1, <1>5 DEF Flow

(* What the channel holds is a sequence as well. *)
LEMMA ChannelIsSeq ==
  ASSUME Sequences
  PROVE  IsSeq(FlattenSeq(channel))
<1>1. CASE channel = <<>>
  BY <1>1, FlattenNone, EmptyIsSeq
<1>2. CASE channel # <<>>
  BY <1>2, FlattenOne DEF Sequences
<1>3. QED
  BY <1>1, <1>2

(* The parts of a tool call in a chunk of an Anthropic upstream: none or   *)
(* one.                                                                    *)
LEMMA ToolsNone ==
  ASSUME NEW base
  PROVE  Stream!FoldLeft(Stream!ToolEvents, base, <<>>) = base
<1> DEFINE Domain == DOMAIN <<>>
           Body(f) == [s \in SUBSET Domain |->
                         IF s = {} THEN base
                         ELSE Stream!ToolEvents(f[s \ {Stream!Max(s)}], <<>>[Stream!Max(s)])]
<1>1. Domain = {}
  OBVIOUS
<1>2. Body([s \in SUBSET Domain |-> base]) = [s \in SUBSET Domain |-> base]
  BY <1>1
<1> DEFINE iter == CHOOSE iter : iter = Body(iter)
<1>3. iter = Body(iter)
  BY <1>2
<1>4. iter[Domain] = base
  BY <1>1, <1>3
<1>5. QED
  BY <1>4 DEF Stream!FoldLeft, Stream!MapThenFoldSet

LEMMA ToolsOne ==
  ASSUME NEW base, NEW part
  PROVE  Stream!FoldLeft(Stream!ToolEvents, base, <<part>>) = Stream!ToolEvents(base, part)
<1> DEFINE Domain == DOMAIN <<part>>
           Body(f) == [s \in SUBSET Domain |->
                         IF s = {} THEN base
                         ELSE Stream!ToolEvents(f[s \ {Stream!Max(s)}], <<part>>[Stream!Max(s)])]
           fold == [s \in SUBSET Domain |-> IF s = {} THEN base ELSE Stream!ToolEvents(base, part)]
<1>1. Domain = {1}
  OBVIOUS
<1>2. Stream!Max({1}) = 1
  BY DEF Stream!Max
<1>3. \A s \in SUBSET Domain : s # {} => s = {1}
  BY <1>1
<1>4. Body(fold) = fold
  BY <1>1, <1>2, <1>3
<1> DEFINE iter == CHOOSE iter : iter = Body(iter)
<1>5. iter = Body(iter)
  BY <1>4
<1>6. /\ iter[{}] = base
      /\ iter[Domain] = Stream!ToolEvents(iter[{1} \ {1}], <<part>>[1])
  BY <1>1, <1>2, <1>5
<1>7. {1} \ {1} = {} /\ <<part>>[1] = part
  OBVIOUS
<1>8. iter[Domain] = Stream!ToolEvents(base, part)
  BY <1>6, <1>7
<1>9. QED
  BY <1>8 DEF Stream!FoldLeft, Stream!MapThenFoldSet

(* The events of a chunk: what opens the message, what the chunk says, and *)
(* what closes the message.                                                *)
First(started) ==
  IF started THEN <<>> ELSE <<Stream!MessageStart, Stream!BlockStart(0, "text")>>

Body(block, chunk) ==
  IF chunk.tools = <<>>
    THEN [index  |-> block,
          events |-> IF chunk.text = <<>> THEN <<>> ELSE <<Stream!Delta(block, chunk.text)>>]
    ELSE Stream!ToolEvents([index |-> block, events |-> <<>>], chunk.tools[1])

Ending(block, chunk) ==
  IF chunk.finish = "" THEN <<>> ELSE
    <<Stream!BlockStop(block), Stream!MessageDelta(chunk.finish, chunk.usage), Stream!MessageStop>>

OneCall(chunk) == chunk.tools = <<>> \/ \E part : chunk.tools = <<part>>

(* A line of an Anthropic upstream becomes a chunk with a call or none.    *)
LEMMA OneChunk ==
  ASSUME NEW line
  PROVE  \/ Stream!FromAnthropic(input, line) = <<>>
         \/ \E chunk : Stream!FromAnthropic(input, line) = <<chunk>> /\ OneCall(chunk)
<1>1. OneCall(Stream!Plain)
  BY DEF Stream!Plain, OneCall
<1>2. \A part : OneCall([Stream!Plain EXCEPT !.tools = <<part>>])
  BY DEF Stream!Plain, OneCall
<1>3. \A text : OneCall([Stream!Plain EXCEPT !.text = text])
  BY DEF Stream!Plain, OneCall
<1>4. \A finish, usage : OneCall([Stream!Plain EXCEPT !.finish = finish, !.usage = usage])
  BY DEF Stream!Plain, OneCall
<1>5. QED
  BY <1>1, <1>2, <1>3, <1>4 DEF Stream!FromAnthropic

LEMMA ToAnthropicIs ==
  ASSUME NEW started, NEW block, NEW chunk, OneCall(chunk)
  PROVE  /\ Stream!ToAnthropic(started, block, chunk).index = Body(block, chunk).index
         /\ Stream!ToAnthropic(started, block, chunk).events
              = (First(started) \o Body(block, chunk).events)
                  \o Ending(Body(block, chunk).index, chunk)
<1> DEFINE base  == [index |-> block, events |-> <<>>]
           tools == Stream!FoldLeft(Stream!ToolEvents, base, chunk.tools)
           middle  == IF chunk.tools # <<>> THEN tools.events ELSE
                    IF chunk.text # <<>> THEN <<Stream!Delta(block, chunk.text)>> ELSE <<>>
<1>1. Stream!ToAnthropic(started, block, chunk)
        = [index  |-> tools.index,
           events |-> (First(started) \o middle) \o Ending(tools.index, chunk)]
  BY DEF Stream!ToAnthropic, First, Ending
<1>2. tools.index = Body(block, chunk).index /\ middle = Body(block, chunk).events
  <2>1. CASE chunk.tools = <<>>
    <3>1. tools = base
      BY <2>1, ToolsNone
    <3>2. base.index = block
      OBVIOUS
    <3> HIDE DEF tools, base
    <3>3. QED
      BY <2>1, <3>1, <3>2 DEF Body
  <2>2. CASE \E part : chunk.tools = <<part>>
    <3>1. PICK part : chunk.tools = <<part>>
      BY <2>2
    <3>2. Stream!FoldLeft(Stream!ToolEvents, base, <<part>>) = Stream!ToolEvents(base, part)
      BY ToolsOne
    <3>3. <<part>> # <<>> /\ <<part>>[1] = part
      BY SingleIsSeq
    <3>4. Body(block, chunk) = Stream!ToolEvents(base, part)
      BY <3>1, <3>3 DEF Body
    <3>5. tools = Stream!ToolEvents(base, part) /\ chunk.tools # <<>>
      <4> HIDE DEF base
      <4> QED
        BY <3>1, <3>2, <3>3
    <3> HIDE DEF tools, base
    <3>6. QED
      BY <3>4, <3>5
  <2>3. QED
    BY <2>1, <2>2 DEF OneCall
<1> HIDE DEF tools, middle
<1>3. /\ Stream!ToAnthropic(started, block, chunk).index = tools.index
      /\ Stream!ToAnthropic(started, block, chunk).events
           = (First(started) \o middle) \o Ending(tools.index, chunk)
  BY <1>1
<1>4. QED
  BY <1>2, <1>3

LEMMA ToAnthropicIndex ==
  ASSUME NEW started, NEW block, NEW chunk, OneCall(chunk)
  PROVE  Stream!ToAnthropic(started, block, chunk).index = Body(block, chunk).index
BY ToAnthropicIs

(* They are events of Anthropic's format. *)
AreAnthropic(s) == IsSeq(s) /\ \A e \in ToSet(s) : e.format = "anthropic"

LEMMA AnthropicConcat ==
  ASSUME NEW s, AreAnthropic(s), NEW t, AreAnthropic(t)
  PROVE  AreAnthropic(s \o t)
BY Concat, MembersOfConcat DEF AreAnthropic

LEMMA AnthropicParts ==
  /\ AreAnthropic(<<>>)
  /\ \A index, kind : AreAnthropic(<<Stream!BlockStart(index, kind)>>)
  /\ \A index : AreAnthropic(<<Stream!BlockStop(index)>>)
  /\ \A index, pieces : AreAnthropic(<<Stream!Delta(index, pieces)>>)
<1>1. ASSUME NEW e, e.format = "anthropic" PROVE AreAnthropic(<<e>>)
  BY <1>1, SingleIsSeq, Members DEF AreAnthropic
<1>2. AreAnthropic(<<>>)
  BY EmptyIsSeq, Members DEF AreAnthropic
<1>3. \A index, kind : Stream!BlockStart(index, kind).format = "anthropic"
  BY DEF Stream!BlockStart
<1>4. \A index : Stream!BlockStop(index).format = "anthropic"
  BY DEF Stream!BlockStop
<1>5. \A index, pieces : Stream!Delta(index, pieces).format = "anthropic"
  BY DEF Stream!Delta
<1>6. QED
  BY <1>1, <1>2, <1>3, <1>4, <1>5

LEMMA BodyIsAnthropic ==
  ASSUME NEW block, NEW chunk, OneCall(chunk)
  PROVE  AreAnthropic(Body(block, chunk).events)
<1>1. CASE chunk.tools = <<>>
  BY <1>1, AnthropicParts DEF Body
<1>2. CASE chunk.tools # <<>>
  <2> DEFINE part  == chunk.tools[1]
             first == Stream!Named(part) /\ block = 0
             index == IF first THEN 1 ELSE block
             stop  == IF first THEN <<Stream!BlockStop(0)>> ELSE <<>>
             start == IF Stream!Named(part) THEN <<Stream!BlockStart(index, "tool_use")>> ELSE <<>>
             delta == IF part.args # <<>> THEN <<Stream!Delta(index, part.args)>> ELSE <<>>
  <2>1. Body(block, chunk).events = ((<<>> \o stop) \o start) \o delta
    BY <1>2 DEF Body, Stream!ToolEvents
  <2>2. AreAnthropic(stop) /\ AreAnthropic(start) /\ AreAnthropic(delta) /\ AreAnthropic(<<>>)
    BY AnthropicParts
  <2> HIDE DEF stop, start, delta
  <2>3. QED
    BY <2>1, <2>2, AnthropicConcat
<1>3. QED
  BY <1>1, <1>2

LEMMA FirstIsAnthropic ==
  ASSUME NEW started
  PROVE  AreAnthropic(First(started))
<1>1. CASE started
  BY <1>1, AnthropicParts DEF First
<1>2. CASE ~started
  <2> DEFINE e == Stream!MessageStart
             f == Stream!BlockStart(0, "text")
  <2>1. e.format = "anthropic" /\ f.format = "anthropic"
    BY DEF Stream!MessageStart, Stream!BlockStart
  <2>2. First(started) = <<e, f>>
    BY <1>2 DEF First
  <2> HIDE DEF e, f
  <2>3. <<e, f>> \in Seq({e, f})
    OBVIOUS
  <2>4. IsSeq(First(started))
    BY <2>2, <2>3, SeqIsSeq
  <2>5. ToSet(First(started)) = {e, f}
    BY <2>2, Members
  <2>6. QED
    BY <2>1, <2>4, <2>5 DEF AreAnthropic
<1>3. QED
  BY <1>1, <1>2

LEMMA EndingIsAnthropic ==
  ASSUME NEW block, NEW chunk
  PROVE  AreAnthropic(Ending(block, chunk))
<1>1. CASE chunk.finish = ""
  BY <1>1, AnthropicParts DEF Ending
<1>2. CASE chunk.finish # ""
  <2> DEFINE e == Stream!BlockStop(block)
             f == Stream!MessageDelta(chunk.finish, chunk.usage)
             g == Stream!MessageStop
  <2>1. e.format = "anthropic" /\ f.format = "anthropic" /\ g.format = "anthropic"
    BY DEF Stream!BlockStop, Stream!MessageDelta, Stream!MessageStop
  <2>2. Ending(block, chunk) = <<e, f, g>>
    BY <1>2 DEF Ending
  <2> HIDE DEF e, f, g
  <2>3. <<e, f, g>> \in Seq({e, f, g})
    OBVIOUS
  <2>4. IsSeq(Ending(block, chunk))
    BY <2>2, <2>3, SeqIsSeq
  <2>5. ToSet(Ending(block, chunk)) = {e, f, g}
    BY <2>2, Members
  <2>6. QED
    BY <2>1, <2>4, <2>5 DEF AreAnthropic
<1>3. QED
  BY <1>1, <1>2

LEMMA ToAnthropicEvents ==
  ASSUME NEW started, NEW block, NEW chunk, OneCall(chunk)
  PROVE  AreAnthropic(Stream!ToAnthropic(started, block, chunk).events)
<1> DEFINE body == Body(block, chunk)
<1>1. Stream!ToAnthropic(started, block, chunk).events
        = (First(started) \o body.events) \o Ending(body.index, chunk)
  BY ToAnthropicIs
<1>2. AreAnthropic(First(started)) /\ AreAnthropic(body.events)
      /\ AreAnthropic(Ending(body.index, chunk))
  BY FirstIsAnthropic, BodyIsAnthropic, EndingIsAnthropic
<1> HIDE DEF body
<1>3. QED
  BY <1>1, <1>2, AnthropicConcat

(* A line of a Gemini upstream with candidates becomes up to three chunks. *)
GeminiFinish(line) ==
  IF line.calls # <<>> THEN "tool_calls" ELSE
  IF line.reason = "" THEN "" ELSE Stream!FinishOfGemini(line.reason)

GeminiTools(line) ==
  [i \in 1..Len(line.calls) |->
     Stream!ToolPart(i - 1, <<line.calls[i].name>>, line.calls[i].args)]

GeminiRole == IF roleSent THEN <<>> ELSE <<Stream!Plain>>

GeminiSays(line) ==
  [Stream!Plain EXCEPT !.text = line.text, !.tools = GeminiTools(line),
                       !.finish = GeminiFinish(line)]

GeminiEnds(line) ==
  IF GeminiFinish(line) = "" \/ line.usage = <<>> THEN <<>>
  ELSE <<[Stream!Plain EXCEPT !.finish = GeminiFinish(line), !.usage = line.usage]>>

GeminiUses(line) ==
  IF line.usage # <<>> THEN <<[Stream!Plain EXCEPT !.usage = line.usage]>> ELSE <<>>

LEMMA FromGeminiIs ==
  ASSUME NEW line
  PROVE  Stream!FromGemini(roleSent, line)
           = IF line.candidates THEN (GeminiRole \o <<GeminiSays(line)>>) \o GeminiEnds(line)
             ELSE GeminiUses(line)
BY DEF Stream!FromGemini, GeminiFinish, GeminiTools, GeminiRole, GeminiSays, GeminiEnds, GeminiUses

(* The chunks are a sequence. *)
LEMMA ChunksAreSeq ==
  ASSUME NEW line
  PROVE  IsSeq(Stream!ToOpenAI(line))
<1>1. IsSeq(Stream!FromAnthropic(input, line))
  <2>1. CASE Stream!FromAnthropic(input, line) = <<>>
    BY <2>1, EmptyIsSeq
  <2>2. CASE \E chunk : Stream!FromAnthropic(input, line) = <<chunk>>
    BY <2>2, SingleIsSeq
  <2>3. QED
    BY <2>1, <2>2, OneChunk
<1>2. IsSeq(Stream!FromGemini(roleSent, line))
  <2>1. IsSeq(GeminiRole) /\ IsSeq(<<GeminiSays(line)>>) /\ IsSeq(GeminiEnds(line))
        /\ IsSeq(GeminiUses(line))
    BY SingleIsSeq, EmptyIsSeq DEF GeminiRole, GeminiEnds, GeminiUses
  <2>2. IsSeq((GeminiRole \o <<GeminiSays(line)>>) \o GeminiEnds(line))
    <3>1. IsSeq(GeminiRole \o <<GeminiSays(line)>>)
      BY <2>1, Concat
    <3>2. QED
      BY <2>1, <3>1, Concat
  <2>3. QED
    BY <2>1, <2>2, FromGeminiIs
<1>3. IsSeq(<<line>>) /\ IsSeq(<<>>)
  BY SingleIsSeq, EmptyIsSeq
<1>4. QED
  BY <1>1, <1>2, <1>3 DEF Stream!ToOpenAI

(* Every line becomes a sequence of events. *)
LEMMA ForwardIsSeq ==
  ASSUME NEW line
  PROVE  IsSeq(Stream!Forward(line))
<1>1. ASSUME NEW e PROVE IsSeq(<<e>>)
  BY SingleIsSeq
<1>2. IsSeq(Stream!ToOpenAI(line))
  BY ChunksAreSeq
<1>3. IsSeq(Stream!Reversed(Stream!ToOpenAI(line)).events)
  <2> DEFINE chunks == Stream!ToOpenAI(line)
             chunk == chunks[1]
  <2>1. CASE Len(chunks) # 1 \/ (Kind(upstream) = "anthropic" /\ ~chunk.choices)
    BY <2>1, EmptyIsSeq DEF Stream!Reversed
  <2>2. CASE ~(Len(chunks) # 1 \/ (Kind(upstream) = "anthropic" /\ ~chunk.choices))
    <3>1. CASE Kind(upstream) = "anthropic"
      <4>1. chunks = Stream!FromAnthropic(input, line)
        BY <3>1 DEF Stream!ToOpenAI
      <4>2. chunks # <<>>
        BY <2>2, EmptyIsSeq
      <4>3. OneCall(chunk)
        BY <4>1, <4>2, OneChunk
      <4>4. IsSeq(Stream!ToAnthropic(reverse.started, reverse.index, chunk).events)
        BY <4>3, ToAnthropicEvents DEF AreAnthropic
      <4>5. QED
        BY <2>2, <3>1, <4>4 DEF Stream!Reversed
    <3>2. CASE Kind(upstream) # "anthropic"
      <4>1. IsSeq(Stream!ToGemini(chunk))
        BY <1>1, EmptyIsSeq DEF Stream!ToGemini
      <4>2. QED
        BY <2>2, <3>2, <4>1 DEF Stream!Reversed
    <3>3. QED
      BY <3>1, <3>2
  <2>3. QED
    BY <2>1, <2>2
<1>4. QED
  BY <1>1, <1>2, <1>3 DEF Stream!Forward

(* What has left the producer. *)
Underway == (copied \o current) \o FlattenSeq(channel)

LEMMA UnderwayIsSeq ==
  ASSUME Sequences
  PROVE  IsSeq(copied \o current) /\ IsSeq(Underway)
BY Concat, ChannelIsSeq DEF Sequences, Underway

LEMMA InOrderIs ==
  InOrder <=> /\ reader \in {"reading", "writing"} => delivered \o (Underway \o outbox) = produced
              /\ IsPrefix(delivered, produced)
BY OfStream DEF InOrder, Stream!InOrder, Stream!InFlight, Underway

(* A step that leaves the events where they are, or forgets some of those  *)
(* that the client will not get.                                           *)
LEMMA FlowFrame ==
  ASSUME Flow,
         UNCHANGED <<outbox, channel, current, copied, delivered, produced>>,
         pc' = pc \/ pc' # "scan",
         reader' = reader \/ reader' \notin {"reading", "writing"}
  PROVE  Flow'
<1>1. Sequences'
  BY DEF Flow, Sequences
<1>2. Places'
  BY DEF Flow, Places
<1>3. InOrder'
  BY InOrderIs, OfStream DEF Flow, Underway, InOrder, Stream!InOrder, Stream!InFlight
<1>4. QED
  BY <1>1, <1>2, <1>3 DEF Flow

(* The producer sends more. *)
LEMMA FlowProduces ==
  ASSUME Flow, pc = "scan", NEW events, IsSeq(events),
         outbox' = events, produced' = produced \o events,
         pc' = "scan" => events = <<>>,
         UNCHANGED <<channel, reader, current, copied, delivered>>
  PROVE  Flow'
<1>1. outbox = <<>> /\ Sequences
  BY DEF Flow, Places
<1>2. Sequences'
  BY <1>1, Concat DEF Sequences
<1>3. Places'
  BY DEF Flow, Places
<1>4. Underway' = Underway
  BY DEF Underway
<1>5. IsSeq(Underway) /\ IsSeq(delivered) /\ IsSeq(produced)
  BY <1>1, UnderwayIsSeq DEF Sequences
<1>6. Underway \o outbox = Underway
  BY <1>1, <1>5, Concat
<1>7. (delivered \o Underway) \o events = delivered \o (Underway \o events)
  BY <1>5, Associative
<1>8. ASSUME reader \in {"reading", "writing"}
      PROVE  delivered \o (Underway \o events) = produced \o events
  <2>1. delivered \o Underway = produced
    BY <1>6, <1>8, InOrderIs DEF Flow
  <2>2. QED
    BY <1>7, <2>1
<1>9. IsPrefix(delivered, produced \o events)
  BY <1>5, PrefixOfConcat, InOrderIs DEF Flow
<1>10. InOrder'
  BY <1>4, <1>8, <1>9, OfStream DEF InOrder, Stream!InOrder, Stream!InFlight, Underway
<1>11. QED
  BY <1>2, <1>3, <1>10 DEF Flow

LEMMA FlowPush ==
  ASSUME Flow, Stream!Push
  PROVE  Flow'
<1> USE DEF Stream!Push
<1>1. Sequences
  BY DEF Flow
<1>2. /\ channel = <<>> /\ channel' = <<outbox>> /\ outbox' = <<>>
      /\ UNCHANGED <<reader, current, copied, delivered, produced>>
  BY DEF Stream!readVars
<1>3. Sequences'
  BY <1>1, <1>2, EmptyIsSeq DEF Sequences
<1>4. Places'
  BY <1>2 DEF Flow, Places
<1>5. Underway = copied \o current /\ IsSeq(copied \o current)
  BY <1>1, <1>2, UnderwayIsSeq, FlattenNone, Concat DEF Underway
<1>6. Underway' = (copied \o current) \o outbox
  BY <1>2, FlattenOne DEF Underway
<1>7. Underway' \o outbox' = Underway \o outbox
  <2>1. IsSeq(Underway')
    BY <1>1, <1>5, <1>6, Concat DEF Sequences
  <2>2. Underway' \o <<>> = Underway'
    BY <2>1, Concat
  <2>3. QED
    BY <1>2, <1>5, <1>6, <2>2
<1>8. InOrder'
  BY <1>2, <1>7, InOrderIs, OfStream DEF Flow, Underway, InOrder, Stream!InOrder, Stream!InFlight
<1>9. QED
  BY <1>3, <1>4, <1>8 DEF Flow

LEMMA FlowRead ==
  ASSUME Flow, Stream!Read
  PROVE  Flow'
<1> DEFINE event == IF current # <<>> THEN current ELSE channel[1]
<1>1. PICK n \in 1..Len(event) : /\ copied' = SubSeq(event, 1, n)
                                 /\ current' = SubSeq(event, n + 1, Len(event))
  BY DEF Stream!Read
<1>2. /\ reader = "reading" /\ reader' = "writing"
      /\ UNCHANGED <<pc, outbox, delivered, produced>>
      /\ \/ current # <<>> /\ channel' = channel
         \/ current = <<>> /\ channel # <<>> /\ channel' = <<>>
  BY DEF Stream!Read
<1>3. Sequences /\ copied = <<>>
  BY <1>2 DEF Flow, Places
<1>4. IsSeq(event)
  BY <1>2, <1>3 DEF Sequences
<1>5. IsSeq(copied') /\ IsSeq(current') /\ copied' \o current' = event
  BY <1>1, <1>4, Halves
<1>6. Sequences'
  BY <1>2, <1>3, <1>5 DEF Sequences
<1>7. Places'
  BY <1>2 DEF Flow, Places
<1>8. Underway' = Underway
  <2>1. CASE current # <<>>
    <3>1. copied \o current = current
      BY <1>3, Concat DEF Sequences
    <3>2. QED
      BY <1>2, <1>5, <2>1, <3>1 DEF Underway
  <2>2. CASE current = <<>>
    <3>1. channel = <<event>> /\ channel' = <<>>
      BY <1>2, <1>3, <2>2 DEF Sequences
    <3>2. Underway' = event \o <<>>
      BY <1>5, <3>1, FlattenNone DEF Underway
    <3>3. Underway = (<<>> \o <<>>) \o event
      BY <1>3, <2>2, <3>1, FlattenOne DEF Underway
    <3>4. QED
      BY <1>4, <3>2, <3>3, Concat, EmptyIsSeq
  <2>3. QED
    BY <2>1, <2>2
<1>9. InOrder'
  BY <1>2, <1>8, InOrderIs, OfStream DEF Flow, Underway, InOrder, Stream!InOrder, Stream!InFlight
<1>10. QED
  BY <1>6, <1>7, <1>9 DEF Flow

LEMMA FlowWrite ==
  ASSUME Flow, Stream!Write
  PROVE  Flow'
<1>1. /\ reader = "writing" /\ copied' = <<>>
      /\ UNCHANGED <<pc, outbox, channel, current, produced>>
      /\ \/ reader' = "reading" /\ delivered' = delivered \o copied
         \/ reader' = "closing" /\ delivered' = delivered
  BY DEF Stream!Write, Stream!pipeVars
<1>2. Sequences
  BY DEF Flow
<1>3. Sequences'
  <2>1. IsSeq(delivered \o copied) /\ IsSeq(<<>>)
    BY <1>2, EmptyIsSeq, Concat DEF Sequences
  <2>2. QED
    BY <1>1, <1>2, <2>1 DEF Sequences
<1>4. Places'
  BY <1>1 DEF Flow, Places
<1>5. delivered \o (Underway \o outbox) = produced /\ IsPrefix(delivered, produced)
  BY <1>1, InOrderIs DEF Flow
<1>6. CASE reader' = "reading" /\ delivered' = delivered \o copied
  <2> DEFINE after == current \o FlattenSeq(channel)
  <2>1. /\ IsSeq(copied) /\ IsSeq(current) /\ IsSeq(FlattenSeq(channel)) /\ IsSeq(outbox)
        /\ IsSeq(delivered) /\ IsSeq(after) /\ IsSeq(after \o outbox)
    BY <1>2, ChannelIsSeq, Concat DEF Sequences
  <2>2. Underway = copied \o after
    <3> DEFINE waiting == FlattenSeq(channel)
    <3>1. IsSeq(copied) /\ IsSeq(current) /\ IsSeq(waiting)
      BY <2>1
    <3>2. Underway = (copied \o current) \o waiting /\ after = current \o waiting
      BY DEF Underway
    <3> HIDE DEF waiting, after
    <3>3. (copied \o current) \o waiting = copied \o (current \o waiting)
      BY <3>1, Associative
    <3>4. QED
      BY <3>2, <3>3
  <2>3. Underway' = after
    <3>1. <<>> \o current = current
      BY <2>1, Concat
    <3>2. QED
      BY <1>1, <3>1 DEF Underway
  <2> HIDE DEF after
  <2>4. Underway \o outbox = copied \o (after \o outbox)
    <3>1. IsSeq(copied) /\ IsSeq(after) /\ IsSeq(outbox)
      BY <2>1
    <3>2. (copied \o after) \o outbox = copied \o (after \o outbox)
      BY <3>1, Associative
    <3>3. QED
      BY <2>2, <3>2
  <2>5. delivered \o (copied \o (after \o outbox)) = (delivered \o copied) \o (after \o outbox)
    <3> DEFINE later == after \o outbox
    <3>1. IsSeq(later)
      BY <2>1
    <3> HIDE DEF later
    <3>2. IsSeq(delivered) /\ IsSeq(copied)
      BY <2>1
    <3>3. (delivered \o copied) \o later = delivered \o (copied \o later)
      BY <3>1, <3>2, Associative
    <3>4. QED
      BY <3>3 DEF later
  <2>6. (delivered \o copied) \o (after \o outbox) = produced
    BY <1>5, <2>4, <2>5
  <2>7. IsPrefix(delivered \o copied, produced)
    <3>1. IsSeq(delivered \o copied)
      BY <2>1, Concat
    <3>2. QED
      BY <2>1, <2>6, <3>1, PrefixOfConcat
  <2>8. InOrder'
    BY <1>1, <1>6, <2>3, <2>6, <2>7, OfStream DEF InOrder, Stream!InOrder, Stream!InFlight, Underway
  <2>9. QED
    BY <1>3, <1>4, <2>8 DEF Flow
<1>7. CASE reader' = "closing" /\ delivered' = delivered
  <2>1. InOrder'
    BY <1>1, <1>5, <1>7, OfStream DEF InOrder, Stream!InOrder, Stream!InFlight, Underway
  <2>2. QED
    BY <1>3, <1>4, <2>1 DEF Flow
<1>8. QED
  BY <1>1, <1>6, <1>7

LEMMA FlowStep ==
  ASSUME Flow, [ExchangeNext]_all
  PROVE  Flow'
<1>1. CASE UNCHANGED <<pc, reader, outbox, channel, current, copied, delivered, produced>>
  BY <1>1, FlowFrame
<1>2. CASE Stream!ScanLine
  <2> DEFINE events == Stream!Forward(script[at + 1])
  <2>1. /\ pc = "scan" /\ outbox' = events /\ produced' = produced \o events
        /\ pc' = IF events = <<>> THEN "scan" ELSE "checking"
        /\ UNCHANGED <<channel, reader, current, copied, delivered>>
    BY <1>2 DEF Stream!ScanLine, Stream!pipeVars, Stream!readVars
  <2>2. IsSeq(events)
    BY ForwardIsSeq
  <2> HIDE DEF events
  <2>3. QED
    BY <2>1, <2>2, FlowProduces
<1>3. CASE Stream!EndScan
  <2>1. /\ pc = "scan" /\ outbox' = <<Stream!Done>> /\ produced' = Append(produced, Stream!Done)
        /\ pc' = "checking"
        /\ UNCHANGED <<channel, reader, current, copied, delivered>>
    BY <1>3 DEF Stream!EndScan, Stream!pipeVars, Stream!readVars
  <2>2. Append(produced, Stream!Done) = produced \o <<Stream!Done>>
    <3> DEFINE S == ToSet(produced) \cup {Stream!Done}
    <3>1. produced \in Seq(S)
      BY IsSeqIn DEF Flow, Sequences
    <3>2. Stream!Done \in S
      OBVIOUS
    <3> HIDE DEF S
    <3>3. QED
      BY <3>1, <3>2, AppendIsConcat
  <2>3. QED
    BY <2>1, <2>2, SingleIsSeq, FlowProduces
<1>4. CASE Stream!BreakScan \/ Stream!CheckClosed \/ Stream!Abandon \/ Stream!EndEvents
  BY <1>4, FlowFrame DEF Stream!BreakScan, Stream!CheckClosed, Stream!Abandon, Stream!EndEvents,
     Stream!pipeVars, Stream!readVars
<1>5. CASE Stream!ReadEOF \/ Stream!Close
  BY <1>5, FlowFrame DEF Stream!ReadEOF, Stream!Close, Stream!pipeVars
<1>6. CASE Stream!Push
  BY <1>6, FlowPush
<1>7. CASE Stream!Read
  BY <1>7, FlowRead
<1>8. CASE Stream!Write
  BY <1>8, FlowWrite
<1>9. CASE ExchangeNext
  <2>1. CASE Next /\ UNCHANGED <<script, at, input, roleSent, reverse, pc, outbox, outcome, channel,
                         ended, reader, current, copied, tracked, produced, delivered>>
    BY <1>1, <2>1
  <2>2. CASE BeginStream
    BY <1>1, <2>2 DEF BeginStream
  <2>3. CASE Stream!Next
    <3>1. CASE Stream!Over
      BY <1>1, <3>1 DEF Stream!Over, Stream!vars, Stream!pipeVars, Stream!readVars
    <3>2. QED
      BY <1>2, <1>3, <1>4, <1>5, <1>6, <1>7, <1>8, <2>3, <3>1 DEF Stream!Next
  <2>4. QED
    BY <1>9, <2>1, <2>2, <2>3 DEF ExchangeNext
<1>10. CASE UNCHANGED all
  BY <1>1, <1>10 DEF all, streamVars, Stream!vars, Stream!pipeVars, Stream!readVars
<1>11. QED
  BY <1>9, <1>10

(* Until one of them gives up, every event the producer has sent is with   *)
(* the client or on the way to it, once and in order, and what the client  *)
(* got is always a beginning of it: for any streams, any formats, and      *)
(* however little fits into a Read (sse_reader.go:26-64;                   *)
(* streaming.go:77-112).                                                   *)
THEOREM ExchangeInOrder == ExchangeSpec => []InOrder
<1>1. Flow /\ [ExchangeNext]_all => Flow'
  BY FlowStep
<1>2. Flow => InOrder
  BY DEF Flow
<1>3. QED
  BY <1>1, <1>2, FlowInit, PTL DEF ExchangeSpec

----------------------------------------------------------------------------
(* The types of a turn: what the client asks for, and what the gateway     *)
(* makes of it.                                                            *)

(* What clients open with has a limit of tokens.                           *)
LEMMA OpeningsTyped ==
  ASSUME NEW format \in Formats
  PROVE  Openings(format) # {} /\ \A o \in Openings(format) : o.max \in Nat
<1>1. ASSUME NEW system, NEW messages, NEW choice, NEW stop, NEW max
      PROVE  Opening(system, messages, choice, stop, max).max = max
  BY DEF Opening
<1>2. CASE format = "openai_chat"
  <2>1. Openings(format) # {}
    BY <1>2 DEF Openings
  <2>2. \A o \in Openings(format) : o.max \in Nat
    BY <1>1, <1>2, SMTT(30) DEF Openings
  <2>3. QED
    BY <2>1, <2>2
<1>3. CASE format = "openai_responses"
  BY <1>1, <1>3 DEF Openings
<1>4. CASE format = "anthropic"
  BY <1>1, <1>4 DEF Openings
<1>5. CASE format = "gemini"
  BY <1>1, <1>5 DEF Openings
<1>6. QED
  BY <1>2, <1>3, <1>4, <1>5 DEF Formats, OpenAIFormats

(* What is read of a request keeps whether a stream is wanted, and the     *)
(* limit, if it is read.                                                   *)
LEMMA ReadTyped ==
  ASSUME NEW format, NEW doc, doc.stream \in BOOLEAN, doc.max \in Nat, NEW fresh
  PROVE  /\ ToInternal(format, doc, fresh).stream \in BOOLEAN
         /\ ToInternal(format, doc, fresh).max \in Nat
<1>1. /\ AnthropicToInternal(doc).stream \in BOOLEAN
      /\ AnthropicToInternal(doc).max \in Nat
  BY DEF AnthropicToInternal
<1>2. /\ GeminiToInternal(doc, fresh).stream \in BOOLEAN
      /\ GeminiToInternal(doc, fresh).max \in Nat
  BY DEF GeminiToInternal
<1>3. /\ OpenAIToInternal(format, doc).stream \in BOOLEAN
      /\ OpenAIToInternal(format, doc).max \in Nat
  BY DEF OpenAIToInternal
<1>4. QED
  BY <1>1, <1>2, <1>3 DEF ToInternal

IsRequest(r) == 
  \E stream \in BOOLEAN : \E max \in Nat : \E system, messages, choice, stop :
     r = Request(system, messages, stream, choice, stop, max)

LEMMA RequestTyped ==
  ASSUME NEW r, IsRequest(r), NEW wanted \in BOOLEAN
  PROVE  /\ r.stream \in BOOLEAN /\ r.max \in Nat
         /\ [r EXCEPT !.stream = wanted].stream \in BOOLEAN
         /\ [r EXCEPT !.stream = wanted].max \in Nat
BY DEF IsRequest, Request

LEMMA WrittenTyped ==
  ASSUME NEW format \in Formats, NEW ir, ir.stream \in BOOLEAN, ir.max \in Nat
  PROVE  IsRequest(FromInternal(format, ir))
<1>1. IsRequest(InternalToOpenAIChat(ir))
  BY DEF IsRequest, InternalToOpenAIChat
<1>2. IsRequest(InternalToResponses(ir))
  BY DEF IsRequest, InternalToResponses
<1>3. IsRequest(InternalToAnthropic(ir))
  <2> DEFINE max == IF ir.max = 0 THEN 4096 ELSE ir.max
  <2>1. max \in Nat
    OBVIOUS
  <2> HIDE DEF max
  <2>2. \A system, messages, choice, stop :
          IsRequest(Request(system, messages, ir.stream, choice, stop, max))
    BY <2>1 DEF IsRequest
  <2>3. QED
    BY <2>2 DEF InternalToAnthropic, max
<1>4. IsRequest(InternalToGemini(ir))
  BY DEF IsRequest, InternalToGemini
<1>5. QED
  BY <1>1, <1>2, <1>3, <1>4 DEF FromInternal, Formats, OpenAIFormats

LEMMA ConvertedTyped ==
  ASSUME NEW from \in Formats, NEW to \in Formats, NEW doc, IsRequest(doc), NEW fresh,
         ConvertRequest(from, to, doc, fresh) # <<>>
  PROVE  IsRequest(ConvertRequest(from, to, doc, fresh)[1])
<1>1. doc.stream \in BOOLEAN /\ doc.max \in Nat
  BY RequestTyped
<1>2. IsRequest(FromInternal(to, ToInternal(from, doc, fresh)))
  BY <1>1, ReadTyped, WrittenTyped
<1>3. ConvertRequest(from, to, doc, fresh) \in {<<doc>>, <<FromInternal(to, ToInternal(from, doc, fresh))>>}
  BY DEF ConvertRequest
<1>4. QED
  BY <1>2, <1>3

LEMMA TurnTyped ==
  ASSUME TypeOK, Next
  PROVE  TypeOK'
<1> USE DEF TypeOK
<1>1. client \in Formats
  BY ConversationAssumption
<1>2. CASE Ask
  <2>1. turn \in Nat /\ turn < Turns /\ Turns \in Nat
    BY <1>2, ConversationAssumption DEF Ask
  <2>2. /\ turn' = turn + 1 /\ phase' = "asked" /\ upstream' = "none" /\ mode' = "none"
        /\ given' = <<>> /\ client' = client /\ opening' = opening
    BY <1>2 DEF Ask
  <2>3. QED
    BY <2>1, <2>2
<1>3. CASE Relay
  <2> DEFINE converted == ConvertRequest(client, upstream', Document(mode' # "plain"), <<turn>>)
  <2>1. /\ upstream' \in Upstreams /\ mode' \in {"plain", "stream", "forced"}
        /\ UNCHANGED <<client, opening, turn, answer, given>>
        /\ phase' \in {"refused", "sent"}
        /\ phase' = "sent" => /\ converted # <<>>
                              /\ request' = IF upstream' # "gemini" THEN converted[1]
                                            ELSE [converted[1] EXCEPT !.stream = mode' = "stream"]
    BY <1>3 DEF Relay
  <2>2. upstream' \in Formats
    BY <2>1, ConversationAssumption
  <2>3. ASSUME NEW wanted \in BOOLEAN
        PROVE  IsRequest(Document(wanted))
    <3>1. opening.max \in Nat
      BY <1>1, OpeningsTyped
    <3>2. QED
      BY <3>1 DEF IsRequest, Document
  <2>4. IsRequest(Document(mode' # "plain"))
    BY <2>3
  <2>5. converted # <<>> => IsRequest(converted[1])
    BY <1>1, <2>2, <2>4, ConvertedTyped
  <2> HIDE DEF converted
  <2>6. ASSUME NEW r, IsRequest(r)
        PROVE  [r EXCEPT !.stream = mode' = "stream"].stream \in BOOLEAN
               /\ [r EXCEPT !.stream = mode' = "stream"].max \in Nat
    BY <2>6, RequestTyped
  <2>7. phase' = "sent" => request'.stream \in BOOLEAN /\ request'.max \in Nat
    BY <2>1, <2>5, <2>6, RequestTyped
  <2>8. upstream' # "none"
    BY <2>2 DEF Formats, OpenAIFormats
  <2>9. QED
    BY <2>1, <2>7, <2>8
<1>4. CASE Answer
  <2>1. /\ phase = "sent" /\ UNCHANGED <<client, opening, turn, upstream, mode, request>>
        /\ phase' \in {"over", "asking"}
        /\ \E c : given' = answer' \/ given' = [format |-> client, answer |-> c]
    BY <1>4 DEF Answer
  <2>2. upstream \in Formats
    BY <2>1, ConversationAssumption
  <2>3. PICK reply : answer' \in Heard(reply)
    BY <1>4 DEF Answer
  <2>4. \A heard \in Heard(reply) : heard.format \in {upstream, "openai_chat"}
    BY DEF Heard
  <2>5. answer'.format \in Formats
    BY <2>2, <2>3, <2>4 DEF Formats, OpenAIFormats
  <2>6. given'.format \in Formats
    BY <1>1, <2>1, <2>5
  <2>7. QED
    BY <2>1, <2>5, <2>6
<1>5. CASE Over
  BY <1>5 DEF Over, vars, turnVars
<1>6. QED
  BY <1>2, <1>3, <1>4, <1>5 DEF Next

----------------------------------------------------------------------------
(* The types of a stream: what an upstream of each kind may say, and what  *)
(* the conversions make of it.                                             *)

(* The usage of an event is absent or two numbers. *)
EventOK(e) == e.format \in {"openai", "gemini"} => e.usage \in Stream!Usages

LEMMA UsageIsTyped ==
  ASSUME NEW e, EventOK(e), NEW kind
  PROVE  Stream!UsageOf(kind, e) \in Nat \X Nat
BY DEF EventOK, Stream!UsageOf, Stream!Usages

(* What the first stage makes are chunks. *)
ChunkOK(c) == c.format = "openai" /\ c.usage \in Stream!Usages

LEMMA ChunksTyped ==
  ASSUME input \in Nat, NEW line, Stream!LineOf(Kind(upstream), line), line.format # "blank",
         NEW chunk \in ToSet(Stream!ToOpenAI(line))
  PROVE  ChunkOK(chunk)
<1>1. CASE Kind(upstream) = "anthropic"
  <2>1. line.type \in {"message_start", "message_delta"} => line.tokens \in Nat
    BY <1>1 DEF Stream!LineOf, Stream!AnthropicLine
  <2>2. /\ ChunkOK(Stream!Plain)
        /\ \A part : ChunkOK([Stream!Plain EXCEPT !.tools = <<part>>])
        /\ \A text : ChunkOK([Stream!Plain EXCEPT !.text = text])
        /\ \A finish : \A tokens \in Nat :
             ChunkOK([Stream!Plain EXCEPT !.finish = finish, !.usage = <<input, tokens>>])
    BY DEF ChunkOK, Stream!Plain, Stream!Usages
  <2>3. \/ Stream!FromAnthropic(input, line) = <<>>
        \/ \E c : Stream!FromAnthropic(input, line) = <<c>> /\ ChunkOK(c)
    BY <2>1, <2>2 DEF Stream!FromAnthropic
  <2>4. Stream!ToOpenAI(line) = Stream!FromAnthropic(input, line)
    BY <1>1 DEF Stream!ToOpenAI
  <2>5. QED
    BY <2>3, <2>4, Members
<1>2. CASE Kind(upstream) = "gemini"
  <2>1. line.usage \in Stream!Usages /\ line.type = "chunk"
    BY <1>2 DEF Stream!LineOf, Stream!GeminiLine, Stream!Says
  <2>2. /\ \A c \in ToSet(GeminiRole) : ChunkOK(c)
        /\ \A c \in ToSet(GeminiUses(line)) : ChunkOK(c)
        /\ \A c \in ToSet(GeminiEnds(line)) : ChunkOK(c)
        /\ \A c \in ToSet(<<GeminiSays(line)>>) : ChunkOK(c)
    <3>1. /\ ChunkOK(Stream!Plain)
          /\ ChunkOK(GeminiSays(line))
          /\ ChunkOK([Stream!Plain EXCEPT !.usage = line.usage])
          /\ ChunkOK([Stream!Plain EXCEPT !.finish = GeminiFinish(line), !.usage = line.usage])
      BY <2>1 DEF ChunkOK, Stream!Plain, GeminiSays, Stream!Usages
    <3>2. \A c, d : c \in ToSet(<<d>>) => c = d
      BY Members
    <3>3. \A c : c \notin ToSet(<<>>)
      BY Members
    <3>4. \A c \in ToSet(GeminiRole) : ChunkOK(c)
      BY <3>1, <3>2, <3>3 DEF GeminiRole
    <3>5. \A c \in ToSet(GeminiUses(line)) : ChunkOK(c)
      BY <3>1, <3>2, <3>3 DEF GeminiUses
    <3>6. \A c \in ToSet(GeminiEnds(line)) : ChunkOK(c)
      BY <3>1, <3>2, <3>3 DEF GeminiEnds
    <3>7. QED
      BY <3>1, <3>2, <3>4, <3>5, <3>6
  <2>3. /\ IsSeq(GeminiRole) /\ IsSeq(<<GeminiSays(line)>>) /\ IsSeq(GeminiEnds(line))
        /\ IsSeq(GeminiRole \o <<GeminiSays(line)>>)
    <3>1. IsSeq(GeminiRole) /\ IsSeq(<<GeminiSays(line)>>) /\ IsSeq(GeminiEnds(line))
      BY SingleIsSeq, EmptyIsSeq DEF GeminiRole, GeminiEnds
    <3>2. QED
      BY <3>1, Concat
  <2>4. \A c \in ToSet((GeminiRole \o <<GeminiSays(line)>>) \o GeminiEnds(line)) :
          ChunkOK(c)
    BY <2>2, <2>3, MembersOfConcat
  <2>5. Stream!ToOpenAI(line) = Stream!FromGemini(roleSent, line)
    BY <1>2, <2>1 DEF Stream!ToOpenAI
  <2>6. QED
    BY <2>2, <2>4, <2>5, FromGeminiIs
<1>3. CASE Kind(upstream) \notin {"anthropic", "gemini"}
  <2>1. ChunkOK(line)
    BY <1>3 DEF ChunkOK, Stream!LineOf, Stream!OpenAILine, Stream!Says
  <2>2. Stream!ToOpenAI(line) = <<line>>
    BY <1>3 DEF Stream!ToOpenAI
  <2>3. QED
    BY <2>1, <2>2, Members
<1>4. QED
  BY <1>1, <1>2, <1>3

(* The block that the reverse conversion writes to is the first or the     *)
(* second.                                                                 *)
LEMMA BodyIndex ==
  ASSUME NEW block \in 0..1, NEW chunk
  PROVE  Body(block, chunk).index \in 0..1
<1>1. CASE chunk.tools = <<>>
  <2>1. Body(block, chunk).index = block
    BY <1>1 DEF Body
  <2>2. QED
    BY <2>1
<1>2. CASE chunk.tools # <<>>
  <2>1. Body(block, chunk).index
          = IF Stream!Named(chunk.tools[1]) /\ block = 0 THEN 1 ELSE block
    BY <1>2 DEF Body, Stream!ToolEvents
  <2>2. CASE Stream!Named(chunk.tools[1]) /\ block = 0
    <3>1. Body(block, chunk).index = 1
      BY <2>1, <2>2, Zenon
    <3>2. QED
      BY <3>1
  <2>3. CASE ~(Stream!Named(chunk.tools[1]) /\ block = 0)
    <3>1. Body(block, chunk).index = block
      BY <2>1, <2>3, Zenon
    <3>2. QED
      BY <3>1
  <2>4. QED
    BY <2>2, <2>3
<1>3. QED
  BY <1>1, <1>2

LEMMA ReversedTyped ==
  ASSUME input \in Nat, reverse \in [started : BOOLEAN, index : 0..1],
         NEW line, Stream!LineOf(Kind(upstream), line), line.format # "blank"
  PROVE  LET done == Stream!Reversed(Stream!ToOpenAI(line))
         IN  /\ done.index \in 0..1
             /\ \A e \in ToSet(done.events) : EventOK(e)
<1> DEFINE chunks == Stream!ToOpenAI(line)
           chunk == chunks[1]
           dropped == Len(chunks) # 1 \/ (Kind(upstream) = "anthropic" /\ ~chunk.choices)
<1>1. CASE dropped
  <2>1. Stream!Reversed(chunks) = [index |-> reverse.index, events |-> <<>>]
    BY <1>1 DEF Stream!Reversed
  <2>2. reverse.index \in 0..1
    OBVIOUS
  <2>3. Stream!Reversed(chunks).index = reverse.index /\ Stream!Reversed(chunks).events = <<>>
    <3> HIDE DEF chunks
    <3> QED
      BY <2>1
  <2> HIDE DEF chunks
  <2>4. \A e : e \notin ToSet(Stream!Reversed(chunks).events)
    BY <2>3, Members
  <2>5. QED
    BY <2>2, <2>3, <2>4 DEF chunks
<1>2. CASE ~dropped /\ Kind(upstream) = "anthropic"
  <2>1. chunks = Stream!FromAnthropic(input, line) /\ chunks # <<>>
    BY <1>2, EmptyIsSeq DEF Stream!ToOpenAI
  <2>2. OneCall(chunk)
    BY <2>1, OneChunk
  <2>3. Stream!Reversed(chunks) = Stream!ToAnthropic(reverse.started, reverse.index, chunk)
    BY <1>2 DEF Stream!Reversed
  <2> HIDE DEF chunks, chunk
  <2>4. Stream!Reversed(chunks).index \in 0..1
    <3>1. reverse.index \in 0..1
      OBVIOUS
    <3>2. Body(reverse.index, chunk).index \in 0..1
      BY <3>1, BodyIndex
    <3>3. ASSUME NEW started, NEW block
          PROVE  Stream!ToAnthropic(started, block, chunk).index = Body(block, chunk).index
      BY <2>2, ToAnthropicIndex
    <3>4. QED
      BY <2>3, <3>2, <3>3
  <2>5. \A e \in ToSet(Stream!Reversed(chunks).events) : EventOK(e)
    BY <2>2, <2>3, ToAnthropicEvents DEF AreAnthropic, EventOK
  <2>6. QED
    BY <2>4, <2>5 DEF chunks
<1>3. CASE ~dropped /\ Kind(upstream) # "anthropic"
  <2>1. Stream!Reversed(chunks) = [index |-> 0, events |-> Stream!ToGemini(chunk)]
    BY <1>3 DEF Stream!Reversed
  <2>2. chunk \in ToSet(chunks)
    <3>1. IsSeq(chunks) /\ Len(chunks) = 1
      BY <1>3, ChunksAreSeq
    <3> HIDE DEF chunks
    <3>2. DOMAIN chunks = 1..1
      BY <3>1, LenProperties DEF IsSeq
    <3>3. QED
      BY <3>2 DEF ToSet
  <2>3. chunk.usage \in Stream!Usages
    BY <2>2, ChunksTyped DEF ChunkOK
  <2> HIDE DEF chunks, chunk
  <2>4. \A e \in ToSet(Stream!ToGemini(chunk)) : EventOK(e)
    <3>1. Stream!ToGemini(chunk) = <<>> \/ \E e : Stream!ToGemini(chunk) = <<e>> /\ e.usage = chunk.usage
      <4> DEFINE event == [format |-> "gemini", type |-> "chunk", candidates |-> chunk.choices,
                           text |-> chunk.text,
                           calls |-> [i \in 1..Len(chunk.tools) |->
                                        [name |-> IF chunk.tools[i].name = <<>> THEN ""
                                                  ELSE chunk.tools[i].name[1],
                                         args |-> chunk.tools[i].args]],
                           reason |-> Stream!ReasonToGemini(chunk.finish), usage |-> chunk.usage]
      <4>1. event.usage = chunk.usage
        OBVIOUS
      <4>2. Stream!ToGemini(chunk) \in {<<>>, <<event>>}
        BY DEF Stream!ToGemini
      <4> HIDE DEF event
      <4>3. QED
        BY <4>1, <4>2
    <3>2. \A e : e \notin ToSet(<<>>)
      BY Members
    <3>3. \A e, f : e \in ToSet(<<f>>) => e = f
      BY Members
    <3>4. QED
      BY <2>3, <3>1, <3>2, <3>3 DEF EventOK
  <2>5. QED
    BY <2>1, <2>4 DEF chunks
<1>4. QED
  BY <1>1, <1>2, <1>3

LEMMA ForwardTyped ==
  ASSUME input \in Nat, reverse \in [started : BOOLEAN, index : 0..1],
         NEW line, Stream!LineOf(Kind(upstream), line),
         NEW e \in ToSet(Stream!Forward(line))
  PROVE  EventOK(e)
<1>1. CASE line.format = "blank"
  <2>1. e = line
    BY <1>1, Members DEF Stream!Forward
  <2>2. QED
    BY <1>1, <2>1 DEF EventOK
<1>2. CASE line.format # "blank"
  <2>1. CASE Stream!Reverses
    BY <1>2, <2>1, ReversedTyped DEF Stream!Forward
  <2>2. CASE ~Stream!Reverses
    BY <1>2, <2>2, ChunksTyped DEF Stream!Forward, EventOK, ChunkOK
  <2>3. QED
    BY <2>1, <2>2
<1>3. QED
  BY <1>1, <1>2

LEMMA GreatestOfStream == \A s : Stream!Max(s) = Max(s)
BY DEF Stream!Max, Max

(* The usage tracked over events is that of one after the other. *)
Tracked(t, events) == Stream!FoldLeft(Stream!Track, t, events)

TrackedAlong(t, events, h) ==
  /\ h \in [0..Len(events) -> Nat \X Nat]
  /\ h[0] = t
  /\ \A k \in 1..Len(events) : h[k] = Stream!Track(h[k - 1], events[k])
  /\ Tracked(t, events) = h[Len(events)]

LEMMA TrackFold ==
  ASSUME NEW t \in Nat \X Nat, NEW events, IsSeq(events),
         \A e \in ToSet(events) : EventOK(e)
  PROVE  \E h : TrackedAlong(t, events, h)
<1> DEFINE n == Len(events)
           A == Nat \X Nat
           step == [p \in (1..n) \X A |-> Stream!Track(p[2], events[p[1]])]
<1>1. n \in Nat /\ DOMAIN events = 1..n /\ \A i \in 1..n : EventOK(events[i])
  <2>1. n \in Nat /\ DOMAIN events = 1..n
    BY LenProperties DEF IsSeq
  <2>2. QED
    BY <2>1 DEF ToSet
<1>2. \A i \in 1..n : \A v \in A : Stream!Track(v, events[i]) \in A
  <2> TAKE i \in 1..n
  <2> TAKE v \in A
  <2>1. Stream!UsageOf(Kind(upstream), events[i]) \in A
    BY <1>1, UsageIsTyped
  <2> HIDE DEF A, n
  <2>2. QED
    BY <2>1 DEF Stream!Track
<1>3. step \in Steps(n, A)
  BY <1>2 DEF Steps
<1>4. \A i \in 1..n : \A v \in A : step[<<i, v>>] = Stream!Track(v, events[i])
  OBVIOUS
<1> HIDE DEF A, n, step
<1>5. t \in A
  BY DEF A
<1>6. PICK f, h : FoldOf(n, A, t, step, f) /\ Along(n, A, t, step, h) /\ h[n] = f[1..n]
  BY <1>1, <1>3, <1>5, FoldInOrder
<1> DEFINE Next1(g, s) == IF s = {} THEN t ELSE Stream!Track(g[s \ {Max(s)}], events[Max(s)])
<1>7. \A s \in SUBSET (1..n) : s # {} =>
         Max(s) \in 1..n /\ s \ {Max(s)} \in SUBSET (1..n)
  BY <1>1, Greatest
<1>8. \A s \in SUBSET (1..n) : f[s] = Next1(f, s)
  <2> TAKE s \in SUBSET (1..n)
  <2>1. CASE s = {}
    BY <1>6, <2>1 DEF FoldOf
  <2>2. CASE s # {}
    <3>1. f[s] = step[<<Max(s), f[s \ {Max(s)}]>>] /\ f[s \ {Max(s)}] \in A
      BY <1>6, <1>7, <2>2 DEF FoldOf
    <3>2. QED
      BY <1>4, <1>7, <2>2, <3>1
  <2>3. QED
    BY <2>1, <2>2
<1>9. f = [s \in SUBSET (1..n) |-> Next1(f, s)]
  BY <1>6, <1>8 DEF FoldOf
<1> DEFINE iter == CHOOSE iter : iter = [s \in SUBSET (1..n) |-> Next1(iter, s)]
<1>10. iter = [s \in SUBSET (1..n) |-> Next1(iter, s)]
  BY <1>9
<1>11. Tracked(t, events) = iter[1..n]
  BY <1>1, GreatestOfStream DEF Tracked, Stream!FoldLeft, Stream!MapThenFoldSet
<1>12. iter[{}] = t /\ \A s \in SUBSET (1..n) : s # {} =>
         iter[s] = Stream!Track(iter[s \ {Max(s)}], events[Max(s)])
  BY <1>10
<1> HIDE DEF iter
<1>13. \A s \in SUBSET (1..n) : s # {} /\ iter[s \ {Max(s)}] \in A =>
         iter[s] = step[<<Max(s), iter[s \ {Max(s)}]>>]
  BY <1>4, <1>7, <1>12
<1>14. iter[1..n] = f[1..n]
  <2>1. FoldWithin(n, A, t, step, iter)
    BY <1>12, <1>13 DEF FoldWithin
  <2>2. QED
    BY <1>1, <1>6, <2>1, FoldUnique
<1>15. \A k \in 1..n : h[k - 1] \in A /\ h[k] = Stream!Track(h[k - 1], events[k])
  <2> TAKE k \in 1..n
  <2>1. h[k - 1] \in A
    BY <1>1, <1>6 DEF Along
  <2>2. h[k] = step[<<k, h[k - 1]>>]
    BY <1>6 DEF Along
  <2>3. QED
    BY <1>4, <2>1, <2>2
<1>16. QED
  BY <1>6, <1>11, <1>14, <1>15 DEF n, A, Along, TrackedAlong

(* The lines of a script are lines of the upstream's kind. *)
LEMMA ScriptTyped ==
  ASSUME NEW f \in Upstreams, NEW s \in Scripts[Kind(f)]
  PROVE  IsSeq(s) /\ Len(s) \in Nat /\ \A i \in 1..Len(s) : Stream!LineOf(Kind(f), s[i])
<1>1. Stream!ScriptOf(Kind(f), s)
  BY ScriptsAssumption
<1>2. IsSeq(s)
  BY <1>1 DEF Stream!ScriptOf, Stream!IsSequence, Stream!ToSet, IsSeq, ToSet
<1>3. QED
  BY <1>1, <1>2, LenProperties DEF Stream!ScriptOf, IsSeq

(* What a streamed turn keeps of the turn, and the events that are sent.   *)
Underlying ==
  /\ IF phase = "streaming" THEN upstream \in Upstreams /\ script \in Scripts[Kind(upstream)]
     ELSE script = <<>> /\ at = 0
  /\ \A e \in ToSet(outbox) : EventOK(e)

Typed == TypesOK /\ Underlying /\ Flow

LEMMA TypedInit == ExchangeInit => Typed
<1> SUFFICES ASSUME ExchangeInit PROVE Typed
  OBVIOUS
<1> USE DEF ExchangeInit, Init
<1>1. Flow
  BY FlowInit
<1>2. TypeOK
  <2>1. client \in Clients /\ opening \in Openings(client) /\ turn = 0 /\ Turns \in Nat
    BY ConversationAssumption
  <2>2. phase = "asking" /\ upstream = "none" /\ mode = "none" /\ given = <<>>
    OBVIOUS
  <2>3. QED
    BY <2>1, <2>2 DEF TypeOK
<1>3. Stream!TypeOK
  <2>1. Len(channel) <= 1 /\ at \in 0..Len(script)
    <3>1. Len(script) = 0 /\ Len(channel) = 0 /\ at = 0
      BY EmptyIsSeq
    <3>2. QED
      BY <3>1
  <2>2. reverse \in [started : BOOLEAN, index : 0..1]
    OBVIOUS
  <2>3. tracked \in Nat \X Nat
    OBVIOUS
  <2>4. /\ input = 0 /\ roleSent = FALSE /\ pc = "scan" /\ outcome = "running" /\ ended = FALSE
        /\ reader = "reading"
    OBVIOUS
  <2>5. QED
    BY <2>1, <2>2, <2>3, <2>4 DEF Stream!TypeOK
<1>4. Underlying
  BY Members DEF Underlying
<1>5. QED
  BY <1>1, <1>2, <1>3, <1>4 DEF Typed, TypesOK

LEMMA TurnsAreNoStreams ==
  Next => phase # "streaming" /\ phase' # "streaming"
<1> SUFFICES ASSUME Next PROVE phase # "streaming" /\ phase' # "streaming"
  OBVIOUS
<1>1. CASE Ask
  BY <1>1 DEF Ask
<1>2. CASE Relay
  <2>1. phase \in {"asked", "refused"} /\ phase' \in {"refused", "sent"}
    BY <1>2 DEF Relay
  <2>2. QED
    BY <2>1
<1>3. CASE Answer
  <2>1. phase = "sent" /\ phase' \in {"over", "asking"}
    BY <1>3 DEF Answer
  <2>2. QED
    BY <2>1
<1>4. CASE Over
  BY <1>4 DEF Over, vars, turnVars
<1>5. QED
  BY <1>1, <1>2, <1>3, <1>4 DEF Next

LEMMA TypedTurn ==
  ASSUME Typed, Next,
         UNCHANGED <<script, at, input, roleSent, reverse, pc, outbox, outcome, channel,
                     ended, reader, current, copied, tracked, produced, delivered>>
  PROVE  TypesOK' /\ Underlying'
<1>1. TypeOK'
  BY TurnTyped DEF Typed, TypesOK
<1>2. phase # "streaming" /\ phase' # "streaming"
  BY TurnsAreNoStreams
<1>3. Stream!TypeOK'
  BY DEF Typed, TypesOK, Stream!TypeOK
<1>4. Underlying'
  BY <1>2 DEF Typed, Underlying
<1>5. QED
  BY <1>1, <1>3, <1>4 DEF TypesOK

LEMMA TypedBegin ==
  ASSUME Typed, BeginStream
  PROVE  TypesOK' /\ Underlying'
<1> USE DEF BeginStream
<1>1. /\ TypeOK /\ Stream!TypeOK /\ Underlying
  BY DEF Typed, TypesOK
<1>2. client \in Formats /\ upstream \in Upstreams
  BY <1>1, ConversationAssumption DEF TypeOK
<1>3. at = 0 /\ script' \in Scripts[Kind(upstream)] /\ upstream' = upstream /\ Kind(upstream') = Kind(upstream)
  BY <1>1 DEF Underlying
<1>4. opening' \in Openings(client)
  BY <1>2, OpeningsTyped
<1>5. TypeOK'
  BY <1>1, <1>2, <1>4, ConversationAssumption DEF TypeOK
<1>6. Len(script') \in Nat
  BY <1>2, <1>3, ScriptTyped
<1>7. Stream!TypeOK'
  BY <1>1, <1>3, <1>6 DEF Stream!TypeOK
<1>8. Underlying'
  BY <1>1, <1>2, <1>3 DEF Underlying
<1>9. QED
  BY <1>5, <1>7, <1>8 DEF TypesOK

(* The tracked usage stays two numbers. *)
LEMMA TrackedTyped ==
  ASSUME NEW t \in Nat \X Nat, NEW events, IsSeq(events),
         \A e \in ToSet(events) : EventOK(e)
  PROVE  Tracked(t, events) \in Nat \X Nat
<1>1. PICK h : TrackedAlong(t, events, h)
  BY TrackFold
<1>2. Len(events) \in Nat
  BY LenProperties DEF IsSeq
<1>3. QED
  BY <1>1, <1>2 DEF TrackedAlong

LEMMA TypedScan ==
  ASSUME Typed, phase = "streaming", UNCHANGED vars, Stream!ScanLine
  PROVE  Stream!TypeOK' /\ Underlying'
<1> DEFINE line   == script[at + 1]
           events == Stream!Forward(line)
           chunks == Stream!ToOpenAI(line)
<1>1. /\ Stream!TypeOK /\ Underlying
      /\ upstream \in Upstreams /\ script \in Scripts[Kind(upstream)]
  BY DEF Typed, TypesOK, Underlying
<1>2. at \in Nat /\ at + 1 \in 1..Len(script) /\ Len(script) \in Nat
  <2>1. Len(script) \in Nat
    BY <1>1, ScriptTyped
  <2>2. QED
    BY <1>1, <2>1 DEF Stream!TypeOK, Stream!ScanLine
<1>3. Stream!LineOf(Kind(upstream), line)
  BY <1>1, <1>2, ScriptTyped
<1>4. /\ at' = at + 1 /\ outbox' = events
      /\ pc' \in {"scan", "checking"}
      /\ input' = IF Kind(upstream) = "anthropic" /\ line.type = "message_start"
                    THEN line.tokens ELSE input
      /\ roleSent' = (roleSent \/ (Kind(upstream) = "gemini" /\ line.type = "chunk"
                                     /\ line.candidates))
      /\ reverse' = IF line.format # "blank" /\ Stream!Reverses /\ events # <<>>
                      THEN [started |-> TRUE, index |-> Stream!Reversed(chunks).index]
                      ELSE reverse
      /\ UNCHANGED <<phase, upstream, client, script, outcome, channel, ended, reader, tracked>>
  BY DEF Stream!ScanLine, Stream!fixed, Stream!pipeVars, Stream!readVars, vars, turnVars
<1>5. input' \in Nat
  <2>1. CASE Kind(upstream) = "anthropic" /\ line.type = "message_start"
    <3>1. line.tokens \in Nat
      BY <1>3, <2>1 DEF Stream!LineOf, Stream!AnthropicLine
    <3>2. QED
      BY <1>4, <2>1, <3>1
  <2>2. CASE ~(Kind(upstream) = "anthropic" /\ line.type = "message_start")
    BY <1>1, <1>4, <2>2 DEF Stream!TypeOK
  <2>3. QED
    BY <2>1, <2>2
<1>6. roleSent' \in BOOLEAN
  BY <1>1, <1>4 DEF Stream!TypeOK
<1>7. input \in Nat /\ reverse \in [started : BOOLEAN, index : 0..1]
  BY <1>1 DEF Stream!TypeOK
<1>8. reverse' \in [started : BOOLEAN, index : 0..1]
  <2>1. CASE line.format # "blank" /\ Stream!Reverses /\ events # <<>>
    <3>1. Stream!Reversed(chunks).index \in 0..1
      BY <1>3, <1>7, <2>1, ReversedTyped
    <3>2. reverse' = [started |-> TRUE, index |-> Stream!Reversed(chunks).index]
      BY <1>4, <2>1, Zenon
    <3>3. \A i \in 0..1 : [started |-> TRUE, index |-> i] \in [started : BOOLEAN, index : 0..1]
      OBVIOUS
    <3>4. QED
      BY <3>1, <3>2, <3>3
  <2>2. CASE ~(line.format # "blank" /\ Stream!Reverses /\ events # <<>>)
    <3>1. reverse' = reverse
      BY <1>4, <2>2, Zenon
    <3>2. QED
      BY <1>7, <3>1
  <2>3. QED
    BY <2>1, <2>2
<1>9. \A e \in ToSet(outbox') : EventOK(e)
  BY <1>3, <1>4, <1>7, ForwardTyped
<1> HIDE DEF events, chunks, line
<1>10. Stream!TypeOK'
  BY <1>1, <1>2, <1>4, <1>5, <1>6, <1>8 DEF Stream!TypeOK
<1>11. Underlying'
  BY <1>1, <1>4, <1>9 DEF Underlying
<1>12. QED
  BY <1>10, <1>11

LEMMA TypedStream ==
  ASSUME Typed, phase = "streaming", UNCHANGED vars, Stream!Next
  PROVE  Stream!TypeOK' /\ Underlying'
<1>1. Stream!TypeOK /\ Underlying /\ phase' = phase /\ upstream' = upstream
  BY DEF Typed, TypesOK, vars, turnVars
<1>2. CASE Stream!ScanLine
  BY <1>2, TypedScan
<1>3. CASE Stream!EndScan
  <2>1. EventOK(Stream!Done)
    BY DEF EventOK, Stream!Done
  <2>2. \A e \in ToSet(outbox') : EventOK(e)
    BY <1>3, <2>1, Members DEF Stream!EndScan
  <2>3. QED
    BY <1>1, <1>3, <2>2 DEF Stream!EndScan, Stream!TypeOK, Underlying, Stream!fixed,
       Stream!pipeVars, Stream!readVars, Stream!convVars
<1>4. CASE Stream!Push
  <2>1. tracked' \in Nat \X Nat
    <3>1. tracked' = Tracked(tracked, outbox)
      BY <1>4 DEF Stream!Push, Tracked
    <3>2. tracked \in Nat \X Nat /\ IsSeq(outbox) /\ \A e \in ToSet(outbox) : EventOK(e)
      BY <1>1 DEF Stream!TypeOK, Underlying, Typed, Flow, Sequences
    <3>3. QED
      BY <3>1, <3>2, TrackedTyped
  <2>2. Len(channel') = 1
    BY <1>4 DEF Stream!Push
  <2>3. \A e \in ToSet(outbox') : EventOK(e)
    BY <1>4, Members DEF Stream!Push
  <2>4. QED
    BY <1>1, <1>4, <2>1, <2>2, <2>3 DEF Stream!Push, Stream!TypeOK, Underlying, Stream!fixed,
       Stream!convVars, Stream!readVars
<1>5. CASE Stream!BreakScan \/ Stream!CheckClosed \/ Stream!Abandon \/ Stream!EndEvents
  BY <1>1, <1>5 DEF Stream!BreakScan, Stream!CheckClosed, Stream!Abandon, Stream!EndEvents,
     Stream!SendFailed, Stream!TypeOK, Underlying, Stream!fixed, Stream!convVars,
     Stream!pipeVars, Stream!readVars
<1>6. CASE Stream!Read
  <2>1. Len(channel') <= 1
    BY <1>1, <1>6, EmptyIsSeq DEF Stream!Read, Stream!TypeOK
  <2>2. QED
    BY <1>1, <1>6, <2>1 DEF Stream!Read, Stream!TypeOK, Underlying, Stream!fixed, Stream!convVars
<1>7. CASE Stream!ReadEOF \/ Stream!Write \/ Stream!Close
  BY <1>1, <1>7 DEF Stream!ReadEOF, Stream!Write, Stream!Close, Stream!TypeOK, Underlying,
     Stream!fixed, Stream!convVars, Stream!pipeVars
<1>8. CASE Stream!Over
  BY <1>1, <1>8 DEF Stream!Over, Stream!TypeOK, Underlying, Stream!vars, Stream!fixed,
     Stream!convVars, Stream!pipeVars, Stream!readVars
<1>9. QED
  BY <1>2, <1>3, <1>4, <1>5, <1>6, <1>7, <1>8 DEF Stream!Next

LEMMA TypedStep ==
  ASSUME Typed, [ExchangeNext]_all
  PROVE  Typed'
<1>1. Flow'
  BY FlowStep DEF Typed
<1>2. CASE ExchangeNext
  <2>1. CASE phase = "streaming" /\ UNCHANGED vars /\ Stream!Next
    <3>1. TypeOK'
      BY <2>1 DEF Typed, TypesOK, TypeOK, vars, turnVars
    <3>2. Stream!TypeOK' /\ Underlying'
      BY <2>1, TypedStream
    <3>3. QED
      BY <1>1, <3>1, <3>2 DEF Typed, TypesOK
  <2>2. QED
    BY <1>1, <1>2, <2>1, TypedTurn, TypedBegin DEF ExchangeNext, Typed
<1>3. CASE UNCHANGED all
  <2>1. TypeOK'
    BY <1>3 DEF Typed, TypesOK, TypeOK, all, vars, turnVars
  <2>2. Stream!TypeOK' /\ Underlying'
    BY <1>3 DEF Typed, TypesOK, Stream!TypeOK, Underlying, all, vars, turnVars, streamVars,
       Stream!vars, Stream!fixed, Stream!convVars, Stream!pipeVars, Stream!readVars
  <2>3. QED
    BY <1>1, <2>1, <2>2 DEF Typed, TypesOK
<1>4. QED
  BY <1>2, <1>3

(* Every variable of the turns and of the stream keeps its type: in        *)
(* particular a request that is sent says whether a stream is wanted and   *)
(* what its limit is, an answer has a format, the channel holds one event  *)
(* (sse_reader.go:16), the reverse conversion writes to the first or the   *)
(* second block (anthropic/streaming.go:258-325), and the tracked usage is *)
(* two numbers.                                                            *)
THEOREM ExchangeTypesOK == ExchangeSpec => []TypesOK
<1>1. Typed /\ [ExchangeNext]_all => Typed'
  BY TypedStep
<1>2. Typed => TypesOK
  BY DEF Typed
<1>3. QED
  BY <1>1, <1>2, TypedInit, PTL DEF ExchangeSpec

----------------------------------------------------------------------------
(* The blocks of an Anthropic client, over any events.                     *)

OpenUpTo(p, n) ==
  {p[i].index : i \in {j \in 1..n :
     /\ Stream!Starts(p[j])
     /\ \A k \in j + 1..n : Stream!Stops(p[k]) => p[k].index # p[j].index}}

Fits(e, before, after) ==
  e.format = "anthropic" =>
    /\ e.type \in {"content_block_delta", "content_block_stop"} => e.index \in before
    /\ e.type \in {"message_delta", "message_stop"} => after = {}

Nested(p) == \A i \in 1..Len(p) : Fits(p[i], OpenUpTo(p, i - 1), OpenUpTo(p, i))

LEMMA BracketedIs == Bracketed <=> Nested(produced)
BY DEF Bracketed, Stream!Bracketed, Nested, Fits, OpenUpTo, Stream!OpenAfter

LEMMA AppendedIs ==
  ASSUME NEW p, IsSeq(p), NEW e
  PROVE  /\ IsSeq(p \o <<e>>) /\ Len(p) \in Nat /\ Len(p \o <<e>>) = Len(p) + 1
         /\ \A i \in 1..Len(p) : (p \o <<e>>)[i] = p[i]
         /\ (p \o <<e>>)[Len(p) + 1] = e
<1> DEFINE S == ToSet(p) \cup {e}
<1>1. p \in Seq(S) /\ e \in S
  BY IsSeqIn
<1> HIDE DEF S
<1>2. Len(p) \in Nat
  BY <1>1, LenProperties
<1>3. p \o <<e>> = Append(p, e)
  BY <1>1, AppendIsConcat
<1>4. /\ Append(p, e) \in Seq(S) /\ Len(Append(p, e)) = Len(p) + 1
      /\ \A i \in 1..Len(p) : Append(p, e)[i] = p[i]
      /\ Append(p, e)[Len(p) + 1] = e
  BY <1>1, AppendProperties
<1>5. IsSeq(p \o <<e>>)
  BY <1>3, <1>4, SeqIsSeq
<1>6. QED
  BY <1>2, <1>3, <1>4, <1>5

OpenWith(e, open) ==
  IF Stream!Starts(e) THEN open \cup {e.index} ELSE
  IF Stream!Stops(e) THEN open \ {e.index} ELSE open

LEMMA OpenAppended ==
  ASSUME NEW p, IsSeq(p), NEW e
  PROVE  /\ \A n \in 0..Len(p) : OpenUpTo(p \o <<e>>, n) = OpenUpTo(p, n)
         /\ OpenUpTo(p \o <<e>>, Len(p) + 1) = OpenWith(e, OpenUpTo(p, Len(p)))
<1> DEFINE q == p \o <<e>>
           m == Len(p)
<1>1. m \in Nat /\ q[m + 1] = e /\ \A i \in 1..m : q[i] = p[i]
  BY AppendedIs
<1> HIDE DEF q, m
<1>2. ASSUME NEW n \in 0..m
      PROVE  OpenUpTo(q, n) = OpenUpTo(p, n)
  <2>1. \A i \in 1..n : q[i] = p[i]
    BY <1>1
  <2>2. \A j \in 1..n : \A k \in j + 1..n : k \in 1..n
    BY <1>1
  <2>3. QED
    BY <2>1, <2>2 DEF OpenUpTo
<1> DEFINE Live(n, j) == /\ Stream!Starts(q[j])
                         /\ \A k \in j + 1..n : Stream!Stops(q[k]) => q[k].index # q[j].index
<1>3. ~(Stream!Starts(e) /\ Stream!Stops(e))
  BY DEF Stream!Starts, Stream!Stops
<1>4. ASSUME NEW j \in 1..m
      PROVE  Live(m + 1, j) <=> Live(m, j) /\ (Stream!Stops(e) => e.index # q[j].index)
  <2>1. \A k : k \in j + 1..m + 1 <=> k \in j + 1..m \/ k = m + 1
    BY <1>1
  <2>2. QED
    BY <1>1, <2>1
<1>5. Live(m + 1, m + 1) <=> Stream!Starts(e)
  <2>1. \A k : k \notin (m + 1) + 1..m + 1
    BY <1>1
  <2>2. QED
    BY <1>1, <2>1
<1>6. /\ \A x : x \in OpenUpTo(q, m + 1) <=> \E j \in 1..m + 1 : Live(m + 1, j) /\ x = q[j].index
      /\ \A x : x \in OpenUpTo(q, m) <=> \E j \in 1..m : Live(m, j) /\ x = q[j].index
  BY DEF OpenUpTo
<1>7. \A j : j \in 1..m + 1 <=> j \in 1..m \/ j = m + 1
  BY <1>1
<1> HIDE DEF Live
<1>8. \A x : x \in OpenUpTo(q, m + 1) <=>
         \/ x \in OpenUpTo(q, m) /\ (Stream!Stops(e) => e.index # x)
         \/ Stream!Starts(e) /\ x = e.index
  BY <1>1, <1>4, <1>5, <1>6, <1>7
<1>9. OpenUpTo(q, m + 1) = OpenWith(e, OpenUpTo(q, m))
  BY <1>3, <1>8 DEF OpenWith
<1>10. OpenUpTo(q, m) = OpenUpTo(p, m)
  BY <1>1, <1>2
<1>11. QED
  BY <1>2, <1>9, <1>10 DEF q, m

(* The events are nested, and these blocks are open after them. *)
LeavesOpen(p, open) == IsSeq(p) /\ Nested(p) /\ OpenUpTo(p, Len(p)) = open

LEMMA LeavesOpenAppended ==
  ASSUME NEW p, NEW open, LeavesOpen(p, open), NEW e, Fits(e, open, OpenWith(e, open))
  PROVE  LeavesOpen(p \o <<e>>, OpenWith(e, open))
<1> DEFINE q == p \o <<e>>
           m == Len(p)
<1>1. /\ IsSeq(p) /\ Nested(p) /\ OpenUpTo(p, m) = open
      /\ \A i \in 1..m : Fits(p[i], OpenUpTo(p, i - 1), OpenUpTo(p, i))
  BY DEF LeavesOpen, Nested
<1>2. /\ IsSeq(q) /\ m \in Nat /\ Len(q) = m + 1
      /\ \A i \in 1..m : q[i] = p[i]
      /\ q[m + 1] = e
  BY <1>1, AppendedIs
<1>3. /\ \A n \in 0..m : OpenUpTo(q, n) = OpenUpTo(p, n)
      /\ OpenUpTo(q, m + 1) = OpenWith(e, open)
  BY <1>1, OpenAppended
<1> HIDE DEF q, m
<1>4. ASSUME NEW i \in 1..m
      PROVE  Fits(q[i], OpenUpTo(q, i - 1), OpenUpTo(q, i))
  <2>1. i \in 0..m /\ i - 1 \in 0..m
    BY <1>2
  <2>2. QED
    BY <1>1, <1>2, <1>3, <2>1
<1>5. Fits(q[m + 1], OpenUpTo(q, (m + 1) - 1), OpenUpTo(q, m + 1))
  <2>1. (m + 1) - 1 = m /\ m \in 0..m
    BY <1>2
  <2>2. QED
    BY <1>1, <1>2, <1>3, <2>1
<1>6. Nested(q)
  <2>1. \A i \in 1..m + 1 : i \in 1..m \/ i = m + 1
    BY <1>2
  <2>2. QED
    BY <1>2, <1>4, <1>5, <2>1 DEF Nested
<1>7. QED
  BY <1>2, <1>3, <1>6 DEF LeavesOpen, q

(* What each event of the reverse conversion does to the open blocks.      *)
LEMMA EventsOpen ==
  ASSUME NEW p, NEW open, LeavesOpen(p, open), NEW index
  PROVE  /\ LeavesOpen(p \o <<Stream!MessageStart>>, open)
         /\ \A kind : LeavesOpen(p \o <<Stream!BlockStart(index, kind)>>, open \cup {index})
         /\ index \in open => LeavesOpen(p \o <<Stream!BlockStop(index)>>, open \ {index})
         /\ index \in open => \A pieces : LeavesOpen(p \o <<Stream!Delta(index, pieces)>>, open)
         /\ open = {} => \A finish, usage :
                           LeavesOpen(p \o <<Stream!MessageDelta(finish, usage)>>, open)
         /\ open = {} => LeavesOpen(p \o <<Stream!MessageStop>>, open)
<1> USE DEF Fits, OpenWith, Stream!Starts, Stream!Stops
<1>1. LeavesOpen(p \o <<Stream!MessageStart>>, open)
  <2> DEFINE e == Stream!MessageStart
  <2>1. Fits(e, open, OpenWith(e, open)) /\ OpenWith(e, open) = open
    BY DEF Stream!MessageStart
  <2> HIDE DEF e
  <2>2. LeavesOpen(p \o <<e>>, OpenWith(e, open))
    BY <2>1, LeavesOpenAppended
  <2>3. QED
    BY <2>1, <2>2 DEF e
<1>2. ASSUME NEW kind
      PROVE  LeavesOpen(p \o <<Stream!BlockStart(index, kind)>>, open \cup {index})
  <2> DEFINE e == Stream!BlockStart(index, kind)
  <2>1. Fits(e, open, OpenWith(e, open)) /\ OpenWith(e, open) = open \cup {index}
    BY DEF Stream!BlockStart
  <2> HIDE DEF e
  <2>2. LeavesOpen(p \o <<e>>, OpenWith(e, open))
    BY <2>1, LeavesOpenAppended
  <2>3. QED
    BY <2>1, <2>2 DEF e
<1>3. ASSUME index \in open
      PROVE  LeavesOpen(p \o <<Stream!BlockStop(index)>>, open \ {index})
  <2> DEFINE e == Stream!BlockStop(index)
  <2>1. Fits(e, open, OpenWith(e, open)) /\ OpenWith(e, open) = open \ {index}
    BY <1>3 DEF Stream!BlockStop
  <2> HIDE DEF e
  <2>2. LeavesOpen(p \o <<e>>, OpenWith(e, open))
    BY <2>1, LeavesOpenAppended
  <2>3. QED
    BY <2>1, <2>2 DEF e
<1>4. ASSUME index \in open, NEW pieces
      PROVE  LeavesOpen(p \o <<Stream!Delta(index, pieces)>>, open)
  <2> DEFINE e == Stream!Delta(index, pieces)
  <2>1. Fits(e, open, OpenWith(e, open)) /\ OpenWith(e, open) = open
    BY <1>4 DEF Stream!Delta
  <2> HIDE DEF e
  <2>2. LeavesOpen(p \o <<e>>, OpenWith(e, open))
    BY <2>1, LeavesOpenAppended
  <2>3. QED
    BY <2>1, <2>2 DEF e
<1>5. ASSUME open = {}, NEW finish, NEW usage
      PROVE  LeavesOpen(p \o <<Stream!MessageDelta(finish, usage)>>, open)
  <2> DEFINE e == Stream!MessageDelta(finish, usage)
  <2>1. Fits(e, open, OpenWith(e, open)) /\ OpenWith(e, open) = open
    BY <1>5 DEF Stream!MessageDelta
  <2> HIDE DEF e
  <2>2. LeavesOpen(p \o <<e>>, OpenWith(e, open))
    BY <2>1, LeavesOpenAppended
  <2>3. QED
    BY <2>1, <2>2 DEF e
<1>6. ASSUME open = {}
      PROVE  LeavesOpen(p \o <<Stream!MessageStop>>, open)
  <2> DEFINE e == Stream!MessageStop
  <2>1. Fits(e, open, OpenWith(e, open)) /\ OpenWith(e, open) = open
    BY <1>6 DEF Stream!MessageStop
  <2> HIDE DEF e
  <2>2. LeavesOpen(p \o <<e>>, OpenWith(e, open))
    BY <2>1, LeavesOpenAppended
  <2>3. QED
    BY <2>1, <2>2 DEF e
<1>7. QED
  BY <1>1, <1>2, <1>3, <1>4, <1>5, <1>6

LEMMA TwoIs ==
  ASSUME NEW e, NEW f
  PROVE  <<e, f>> = <<e>> \o <<f>>
<1> DEFINE S == {e, f}
           q == <<e>> \o <<f>>
           t == <<e, f>>
<1>1. IsSeq(<<e>>) /\ Len(<<e>>) = 1 /\ <<e>>[1] = e
  BY SingleIsSeq
<1>2. <<e>> \in Seq(S) /\ <<f>> \in Seq(S) /\ t \in Seq(S)
  OBVIOUS
<1>3. q \in Seq(S)
  <2> HIDE DEF S
  <2> QED
    BY <1>2, ConcatProperties
<1>4. Len(q) = 2 /\ q[1] = e /\ q[2] = f
  <2>1. /\ Len(q) = Len(<<e>>) + 1 /\ \A i \in 1..Len(<<e>>) : q[i] = <<e>>[i]
        /\ q[Len(<<e>>) + 1] = f
    BY <1>1, AppendedIs
  <2> HIDE DEF q
  <2>2. QED
    BY <1>1, <2>1
<1>5. Len(t) = 2 /\ t[1] = e /\ t[2] = f
  OBVIOUS
<1> HIDE DEF S, q, t
<1>6. \A i \in 1..2 : i = 1 \/ i = 2
  OBVIOUS
<1>7. t = q
  BY <1>2, <1>3, <1>4, <1>5, <1>6, SeqEqual
<1>8. QED
  BY <1>7 DEF t, q

LEMMA ThreeIs ==
  ASSUME NEW e, NEW f, NEW g
  PROVE  <<e, f, g>> = <<e, f>> \o <<g>>
<1> DEFINE S == {e, f, g}
           p == <<e, f>>
           q == <<e, f>> \o <<g>>
           t == <<e, f, g>>
<1>1. IsSeq(p) /\ Len(p) = 2 /\ p[1] = e /\ p[2] = f
  <2>1. p \in Seq({e, f})
    OBVIOUS
  <2>2. IsSeq(p)
    BY <2>1, SeqIsSeq
  <2>3. QED
    BY <2>2
<1>2. p \in Seq(S) /\ <<g>> \in Seq(S) /\ t \in Seq(S)
  OBVIOUS
<1>3. q \in Seq(S)
  <2> HIDE DEF S
  <2> QED
    BY <1>2, ConcatProperties
<1>4. Len(q) = 3 /\ q[1] = e /\ q[2] = f /\ q[3] = g
  <2>1. /\ Len(q) = Len(p) + 1 /\ \A i \in 1..Len(p) : q[i] = p[i]
        /\ q[Len(p) + 1] = g
    BY <1>1, AppendedIs
  <2> HIDE DEF q, p
  <2>2. QED
    BY <1>1, <2>1
<1>5. Len(t) = 3 /\ t[1] = e /\ t[2] = f /\ t[3] = g
  OBVIOUS
<1> HIDE DEF S, q, t, p
<1>6. \A i \in 1..3 : i = 1 \/ i = 2 \/ i = 3
  OBVIOUS
<1>7. t = q
  BY <1>2, <1>3, <1>4, <1>5, <1>6, SeqEqual
<1>8. QED
  BY <1>7 DEF t, q, p

(* Opening the message, saying something, and ending it.                   *)
LEMMA FirstOpens ==
  ASSUME NEW p, LeavesOpen(p, {})
  PROVE  LeavesOpen(p \o First(FALSE), {0})
<1> DEFINE e == Stream!MessageStart
           f == Stream!BlockStart(0, "text")
<1>1. LeavesOpen(p \o <<e>>, {})
  BY EventsOpen
<1>2. LeavesOpen((p \o <<e>>) \o <<f>>, {} \cup {0})
  BY <1>1, EventsOpen
<1>3. First(FALSE) = <<e, f>>
  BY DEF First
<1> HIDE DEF e, f
<1>4. First(FALSE) = <<e>> \o <<f>>
  BY <1>3, TwoIs
<1>5. IsSeq(p) /\ IsSeq(<<e>>) /\ IsSeq(<<f>>)
  BY SingleIsSeq DEF LeavesOpen
<1>6. (p \o <<e>>) \o <<f>> = p \o (<<e>> \o <<f>>)
  BY <1>5, Associative
<1>7. {} \cup {0} = {0}
  OBVIOUS
<1>8. QED
  BY <1>2, <1>4, <1>6, <1>7

After(p, e) == p \o <<e>>

AfterThree(p, e, f, g) == p \o <<e, f, g>>

LEMMA OneAfterAnother ==
  ASSUME NEW p, IsSeq(p), NEW e, NEW f, NEW g
  PROVE  After(After(After(p, e), f), g) = AfterThree(p, e, f, g)
<1> DEFINE a == <<e>>
           b == <<f>>
           c == <<g>>
           ab == a \o b
<1>1. IsSeq(a) /\ IsSeq(b) /\ IsSeq(c)
  BY SingleIsSeq
<1>2. ab = <<e, f>>
  BY TwoIs
<1>3. <<e, f, g>> = <<e, f>> \o c
  BY ThreeIs
<1> HIDE DEF a, b, c
<1>4. IsSeq(ab)
  BY <1>1, Concat
<1>5. (p \o a) \o b = p \o ab
  BY <1>1, Associative
<1> HIDE DEF ab
<1>6. (p \o ab) \o c = p \o (ab \o c)
  BY <1>1, <1>4, Associative
<1>7. ((p \o a) \o b) \o c = p \o <<e, f, g>>
  BY <1>2, <1>3, <1>5, <1>6
<1>8. QED
  BY <1>7, Zenon DEF a, b, c, After, AfterThree

LEMMA EndingCloses ==
  ASSUME NEW p, NEW block, LeavesOpen(p, {block}), NEW chunk, chunk.finish # ""
  PROVE  LeavesOpen(p \o Ending(block, chunk), {})
<1> DEFINE e == Stream!BlockStop(block)
           f == Stream!MessageDelta(chunk.finish, chunk.usage)
           g == Stream!MessageStop
<1>1. LeavesOpen(After(p, e), {})
  <2>1. LeavesOpen(p \o <<e>>, {block} \ {block}) /\ {block} \ {block} = {}
    BY EventsOpen
  <2>2. QED
    BY <2>1 DEF After
<1>2. LeavesOpen(After(After(p, e), f), {})
  BY <1>1, EventsOpen DEF After
<1>3. LeavesOpen(After(After(After(p, e), f), g), {})
  BY <1>2, EventsOpen DEF After
<1>4. p \o Ending(block, chunk) = AfterThree(p, e, f, g)
  BY DEF Ending, AfterThree
<1> HIDE DEF e, f, g
<1>5. IsSeq(p)
  BY DEF LeavesOpen
<1>6. After(After(After(p, e), f), g) = AfterThree(p, e, f, g)
  BY <1>5, OneAfterAnother
<1>7. QED
  BY <1>3, <1>4, <1>6

LEMMA BodyStaysOpen ==
  ASSUME NEW p, NEW block \in 0..1, LeavesOpen(p, {block}), NEW chunk, OneCall(chunk)
  PROVE  LeavesOpen(p \o Body(block, chunk).events, {Body(block, chunk).index})
<1>1. IsSeq(p) /\ p \o <<>> = p
  BY EmptyIsSeq, Concat DEF LeavesOpen
<1>2. CASE chunk.tools = <<>>
  <2>1. Body(block, chunk).index = block
    BY <1>2 DEF Body
  <2>2. \/ Body(block, chunk).events = <<>>
        \/ Body(block, chunk).events = <<Stream!Delta(block, chunk.text)>>
    BY <1>2 DEF Body
  <2>3. block \in {block}
    OBVIOUS
  <2>4. LeavesOpen(p \o <<Stream!Delta(block, chunk.text)>>, {block})
    BY <2>3, EventsOpen
  <2>5. QED
    BY <1>1, <2>1, <2>2, <2>4
<1>3. CASE chunk.tools # <<>>
  <2> DEFINE part  == chunk.tools[1]
             first == Stream!Named(part) /\ block = 0
             index == IF first THEN 1 ELSE block
             stop  == IF first THEN <<Stream!BlockStop(0)>> ELSE <<>>
             start == IF Stream!Named(part) THEN <<Stream!BlockStart(index, "tool_use")>> ELSE <<>>
             delta == IF part.args # <<>> THEN <<Stream!Delta(index, part.args)>> ELSE <<>>
             stopped == IF first THEN {} ELSE {block}
  <2>1. Body(block, chunk).events = ((<<>> \o stop) \o start) \o delta
        /\ Body(block, chunk).index = index
    BY <1>3 DEF Body, Stream!ToolEvents
  <2>2. AreAnthropic(stop) /\ AreAnthropic(start) /\ AreAnthropic(delta)
    BY AnthropicParts
  <2>3. IsSeq(stop) /\ IsSeq(start) /\ IsSeq(delta)
    <3> HIDE DEF stop, start, delta
    <3> QED
      BY <2>2 DEF AreAnthropic
  <2>4. LeavesOpen(p \o stop, stopped)
    <3>1. CASE first
      <4>1. block = 0 /\ 0 \in {block} /\ {block} \ {0} = {}
        BY <3>1
      <4>2. LeavesOpen(p \o <<Stream!BlockStop(0)>>, {block} \ {0})
        BY <4>1, EventsOpen
      <4>3. stop = <<Stream!BlockStop(0)>> /\ stopped = {}
        BY <3>1
      <4> HIDE DEF stop, stopped, first
      <4>4. QED
        BY <4>1, <4>2, <4>3
    <3>2. CASE ~first
      <4>1. stop = <<>> /\ stopped = {block}
        BY <3>2
      <4> HIDE DEF stop, stopped, first
      <4>2. QED
        BY <1>1, <4>1
    <3>3. QED
      BY <3>1, <3>2
  <2>5. LeavesOpen((p \o stop) \o start, {index})
    <3>1. CASE Stream!Named(part)
      <4>1. LeavesOpen((p \o stop) \o <<Stream!BlockStart(index, "tool_use")>>, stopped \cup {index})
        <5> HIDE DEF stop, stopped, index
        <5> QED
          BY <2>4, EventsOpen
      <4>2. start = <<Stream!BlockStart(index, "tool_use")>>
        BY <3>1
      <4>3. stopped \cup {index} = {index}
        OBVIOUS
      <4> HIDE DEF stop, stopped, index, start
      <4>4. QED
        BY <4>1, <4>2, <4>3
    <3>2. CASE ~Stream!Named(part)
      <4>1. start = <<>> /\ stopped = {index}
        BY <3>2
      <4>2. (p \o stop) \o <<>> = p \o stop
        <5> HIDE DEF stop
        <5> QED
          BY <1>1, <2>3, Concat
      <4> HIDE DEF stop, stopped, index, start
      <4>3. QED
        BY <2>4, <4>1, <4>2
    <3>3. QED
      BY <3>1, <3>2
  <2>6. LeavesOpen(((p \o stop) \o start) \o delta, {index})
    <3>1. index \in {index}
      OBVIOUS
    <3>2. LeavesOpen(((p \o stop) \o start) \o <<Stream!Delta(index, part.args)>>, {index})
      <4> HIDE DEF stop, start, index
      <4> QED
        BY <2>5, <3>1, EventsOpen
    <3>3. ((p \o stop) \o start) \o <<>> = (p \o stop) \o start
      <4> HIDE DEF stop, start
      <4> QED
        BY <1>1, <2>3, Concat
    <3>4. delta \in {<<>>, <<Stream!Delta(index, part.args)>>}
      OBVIOUS
    <3> HIDE DEF stop, start, delta, index
    <3>5. QED
      BY <2>5, <3>2, <3>3, <3>4
  <2> HIDE DEF stop, start, delta, index
  <2>7. ((p \o stop) \o start) \o delta = p \o (((<<>> \o stop) \o start) \o delta)
    <3>1. <<>> \o stop = stop
      BY <2>3, Concat
    <3> DEFINE both == stop \o start
    <3>2. IsSeq(both)
      BY <2>3, Concat
    <3>3. (p \o stop) \o start = p \o both
      BY <1>1, <2>3, Associative
    <3> HIDE DEF both
    <3>4. (p \o both) \o delta = p \o (both \o delta)
      BY <1>1, <2>3, <3>2, Associative
    <3>5. QED
      BY <3>1, <3>3, <3>4 DEF both
  <2>8. QED
    BY <2>1, <2>6, <2>7
<1>4. QED
  BY <1>2, <1>3

(* A chunk leaves its block open, unless it ends the answer.               *)
LEMMA ToAnthropicNests ==
  ASSUME NEW p, NEW started, NEW block \in 0..1, ~started => block = 0,
         LeavesOpen(p, IF started THEN {block} ELSE {}),
         NEW chunk, OneCall(chunk)
  PROVE  LeavesOpen(p \o Stream!ToAnthropic(started, block, chunk).events,
                    IF chunk.finish = "" THEN {Stream!ToAnthropic(started, block, chunk).index}
                    ELSE {})
<1> DEFINE first  == First(started)
           body   == Body(block, chunk).events
           index  == Body(block, chunk).index
           ending == Ending(index, chunk)
<1>1. /\ Stream!ToAnthropic(started, block, chunk).index = index
      /\ Stream!ToAnthropic(started, block, chunk).events = (first \o body) \o ending
  BY ToAnthropicIs
<1>2. IsSeq(p) /\ p \o <<>> = p
  BY Concat, EmptyIsSeq DEF LeavesOpen
<1>3. LeavesOpen(p \o first, {block})
  <2>1. CASE started
    BY <1>2, <2>1 DEF First
  <2>2. CASE ~started
    <3>1. LeavesOpen(p, {})
      BY <2>2
    <3>2. LeavesOpen(p \o First(FALSE), {0})
      BY <3>1, FirstOpens
    <3>3. first = First(FALSE) /\ block = 0
      BY <2>2 DEF First
    <3> HIDE DEF first
    <3>4. QED
      BY <3>2, <3>3
  <2>3. QED
    BY <2>1, <2>2
<1>4. LeavesOpen((p \o first) \o body, {index})
  <2> HIDE DEF first
  <2> QED
    BY <1>3, BodyStaysOpen
<1>5. LeavesOpen(((p \o first) \o body) \o ending, IF chunk.finish = "" THEN {index} ELSE {})
  <2>1. CASE chunk.finish = ""
    <3>1. ending = <<>>
      BY <2>1 DEF Ending
    <3>2. IsSeq((p \o first) \o body)
      BY <1>4 DEF LeavesOpen
    <3> HIDE DEF first, body, index, ending
    <3>3. ((p \o first) \o body) \o <<>> = (p \o first) \o body
      BY <3>2, Concat
    <3>4. QED
      BY <1>4, <2>1, <3>1, <3>3
  <2>2. CASE chunk.finish # ""
    <3> HIDE DEF first, body, index
    <3> QED
      BY <1>4, <2>2, EndingCloses
  <2>3. QED
    BY <2>1, <2>2
<1>6. IsSeq(first) /\ IsSeq(body) /\ IsSeq(ending)
  BY FirstIsAnthropic, BodyIsAnthropic, EndingIsAnthropic DEF AreAnthropic
<1> HIDE DEF first, body, index, ending
<1>7. ((p \o first) \o body) \o ending = p \o ((first \o body) \o ending)
  <2> DEFINE both == first \o body
  <2>1. IsSeq(both)
    BY <1>6, Concat
  <2>2. (p \o first) \o body = p \o both
    <3>1. IsSeq(p) /\ IsSeq(first) /\ IsSeq(body)
      BY <1>2, <1>6
    <3>2. QED
      BY <3>1, Associative
  <2> HIDE DEF both
  <2>3. (p \o both) \o ending = p \o (both \o ending)
    BY <1>2, <1>6, <2>1, Associative
  <2>4. QED
    BY <2>2, <2>3 DEF both
<1>8. QED
  BY <1>1, <1>5, <1>7

(* The block that is open for the client. *)
OpenNow == IF reverse.started THEN {reverse.index} ELSE {}

(* What a line of an Anthropic upstream does to the blocks of its client.  *)
LEMMA ForwardNests ==
  ASSUME Kind(upstream) = "anthropic", Stream!Reverses,
         NEW p, LeavesOpen(p, OpenNow),
         reverse \in [started : BOOLEAN, index : 0..1], ~reverse.started => reverse.index = 0,
         NEW line, line.format # "blank"
  PROVE  LET events == Stream!Forward(line)
         IN  \/ events = <<>>
             \/ LeavesOpen(p \o events, {Stream!Reversed(Stream!ToOpenAI(line)).index})
             \/ line.type = "message_delta" /\ LeavesOpen(p \o events, {})
<1> DEFINE chunks == Stream!ToOpenAI(line)
           chunk  == chunks[1]
           done   == Stream!Reversed(chunks)
<1>1. Stream!Forward(line) = done.events /\ chunks = Stream!FromAnthropic(input, line)
  BY DEF Stream!Forward, Stream!ToOpenAI
<1>2. CASE Len(chunks) # 1 \/ ~chunk.choices
  <2>1. done = [index |-> reverse.index, events |-> <<>>]
    BY <1>2 DEF Stream!Reversed
  <2> HIDE DEF chunks
  <2>2. done.events = <<>>
    BY <2>1
  <2>3. QED
    BY <1>1, <2>2 DEF chunks
<1>3. CASE ~(Len(chunks) # 1 \/ ~chunk.choices)
  <2>1. done = Stream!ToAnthropic(reverse.started, reverse.index, chunk)
    BY <1>3 DEF Stream!Reversed
  <2>2. chunks # <<>>
    BY <1>3, EmptyIsSeq
  <2>3. OneCall(chunk)
    BY <1>1, <2>2, OneChunk
  <2>4. line.type # "message_delta" => chunk.finish = ""
    <3>1. /\ Stream!Plain.finish = ""
          /\ \A part : [Stream!Plain EXCEPT !.tools = <<part>>].finish = ""
          /\ \A text : [Stream!Plain EXCEPT !.text = text].finish = ""
      BY DEF Stream!Plain
    <3>2. ASSUME line.type # "message_delta"
          PROVE  \/ Stream!FromAnthropic(input, line) = <<>>
                 \/ \E c : Stream!FromAnthropic(input, line) = <<c>> /\ c.finish = ""
      BY <3>1, <3>2 DEF Stream!FromAnthropic
    <3>3. ASSUME NEW c, chunks = <<c>>
          PROVE  chunk = c
      <4> HIDE DEF chunks
      <4> QED
        BY <3>3, SingleIsSeq
    <3> HIDE DEF chunks, chunk
    <3>4. QED
      BY <1>1, <2>2, <3>2, <3>3
  <2>5. reverse.index \in 0..1 /\ reverse.started \in BOOLEAN
    OBVIOUS
  <2>6. LeavesOpen(p, IF reverse.started THEN {reverse.index} ELSE {})
    BY DEF OpenNow
  <2> HIDE DEF chunks, chunk
  <2>7. LeavesOpen(p \o Stream!ToAnthropic(reverse.started, reverse.index, chunk).events,
                   IF chunk.finish = ""
                     THEN {Stream!ToAnthropic(reverse.started, reverse.index, chunk).index}
                     ELSE {})
    BY <2>3, <2>5, <2>6, ToAnthropicNests
  <2>8. LeavesOpen(p \o done.events, IF chunk.finish = "" THEN {done.index} ELSE {})
    BY <2>1, <2>7
  <2> HIDE DEF done
  <2>9. QED
    BY <1>1, <2>4, <2>8 DEF done, chunks
<1>4. QED
  BY <1>2, <1>3

(* Nothing else makes events of Anthropic's format. *)
LEMMA NoneAnthropic ==
  ASSUME input \in Nat, ~(Kind(upstream) = "anthropic" /\ Stream!Reverses),
         NEW line, Stream!LineOf(Kind(upstream), line),
         NEW e \in ToSet(Stream!Forward(line))
  PROVE  e.format # "anthropic"
<1> DEFINE chunks == Stream!ToOpenAI(line)
<1>1. CASE line.format = "blank"
  <2>1. e = line
    BY <1>1, Members DEF Stream!Forward
  <2>2. QED
    BY <1>1, <2>1
<1>2. CASE line.format # "blank" /\ ~Stream!Reverses
  <2>1. e \in ToSet(chunks)
    BY <1>2 DEF Stream!Forward
  <2>2. e.format = "openai"
    BY <1>2, <2>1, ChunksTyped DEF ChunkOK
  <2>3. QED
    BY <2>2
<1>3. CASE line.format # "blank" /\ Stream!Reverses
  <2> DEFINE events == Stream!Reversed(chunks).events
  <2>1. e \in ToSet(events) /\ Kind(upstream) # "anthropic"
    BY <1>3 DEF Stream!Forward
  <2>2. events = <<>> \/ events = Stream!ToGemini(chunks[1])
    BY <2>1 DEF Stream!Reversed
  <2>3. \A chunk : \/ Stream!ToGemini(chunk) = <<>>
                   \/ \E event : Stream!ToGemini(chunk) = <<event>> /\ event.format = "gemini"
    <3> TAKE chunk
    <3> DEFINE event == [format |-> "gemini", type |-> "chunk", candidates |-> chunk.choices,
                         text |-> chunk.text,
                         calls |-> [i \in 1..Len(chunk.tools) |->
                                      [name |-> IF chunk.tools[i].name = <<>> THEN ""
                                                ELSE chunk.tools[i].name[1],
                                       args |-> chunk.tools[i].args]],
                         reason |-> Stream!ReasonToGemini(chunk.finish), usage |-> chunk.usage]
    <3>1. event.format = "gemini"
      OBVIOUS
    <3>2. Stream!ToGemini(chunk) \in {<<>>, <<event>>}
      BY DEF Stream!ToGemini
    <3> HIDE DEF event
    <3>3. QED
      BY <3>1, <3>2
  <2> HIDE DEF events, chunks
  <2>4. \A a, b : a \in ToSet(<<b>>) => a = b
    BY Members
  <2>5. \A a : a \notin ToSet(<<>>)
    BY Members
  <2>6. QED
    BY <2>1, <2>2, <2>3, <2>4, <2>5
<1>4. QED
  BY <1>1, <1>2, <1>3

(* Whether the client gets events of Anthropic's format. *)
ToBlocks == phase = "streaming" /\ Kind(upstream) = "anthropic" /\ Stream!Reverses

EndTold == \E i \in 1..at : script[i].type = "message_delta"

(* What the client has got is nested; until the upstream told its end, the *)
(* block that the reverse conversion writes to is open, and no other.      *)
Blocks ==
  /\ phase # "streaming" =>
       produced = <<>> /\ reverse = [started |-> FALSE, index |-> 0]
  /\ ~reverse.started => reverse.index = 0
  /\ ToBlocks => /\ \E open : LeavesOpen(produced, open)
                 /\ ~EndTold => LeavesOpen(produced, OpenNow)
  /\ ~ToBlocks => \A e \in ToSet(produced) : e.format # "anthropic"

LEMMA NothingNests == LeavesOpen(<<>>, {})
<1>1. IsSeq(<<>>) /\ Len(<<>>) = 0
  BY EmptyIsSeq
<1>2. \A i : i \notin 1..0
  OBVIOUS
<1>3. Nested(<<>>)
  BY <1>1, <1>2 DEF Nested
<1>4. OpenUpTo(<<>>, 0) = {}
  BY <1>2 DEF OpenUpTo
<1>5. QED
  BY <1>1, <1>3, <1>4 DEF LeavesOpen

LEMMA BlocksIdle ==
  ASSUME phase # "streaming", produced = <<>>, reverse = [started |-> FALSE, index |-> 0]
  PROVE  Blocks
<1>1. ~reverse.started /\ reverse.index = 0
  OBVIOUS
<1>2. \A e : e \notin ToSet(produced)
  BY Members
<1>3. QED
  BY <1>1, <1>2 DEF Blocks, ToBlocks

(* An event of another format changes nothing. *)
LEMMA OtherFormat ==
  ASSUME NEW p, NEW open, LeavesOpen(p, open), NEW e, e.format # "anthropic"
  PROVE  LeavesOpen(p \o <<e>>, open)
<1>1. Fits(e, open, OpenWith(e, open)) /\ OpenWith(e, open) = open
  BY DEF Fits, OpenWith, Stream!Starts, Stream!Stops
<1>2. LeavesOpen(p \o <<e>>, OpenWith(e, open))
  BY <1>1, LeavesOpenAppended
<1>3. QED
  BY <1>1, <1>2

LEMMA BlocksFrame ==
  ASSUME Blocks,
         UNCHANGED <<phase, upstream, client, script, at, reverse, produced>>
  PROVE  Blocks'
<1>1. Kind(upstream') = Kind(upstream) /\ Stream!Reverses' = Stream!Reverses
  BY DEF Kind, Stream!Reverses
<1>2. ToBlocks' = ToBlocks /\ EndTold' = EndTold /\ OpenNow' = OpenNow
  BY <1>1 DEF ToBlocks, EndTold, OpenNow
<1>3. QED
  BY <1>2 DEF Blocks

LEMMA BlocksScan ==
  ASSUME Typed, Blocks, phase = "streaming", UNCHANGED vars, Stream!ScanLine
  PROVE  Blocks'
<1> DEFINE line   == script[at + 1]
           events == Stream!Forward(line)
           chunks == Stream!ToOpenAI(line)
           done   == Stream!Reversed(chunks)
<1>1. /\ Stream!TypeOK /\ upstream \in Upstreams /\ script \in Scripts[Kind(upstream)]
      /\ IsSeq(produced)
  BY DEF Typed, TypesOK, Underlying, Flow, Sequences
<1>2. at \in Nat /\ at + 1 \in 1..Len(script) /\ Len(script) \in Nat
  <2>1. Len(script) \in Nat
    BY <1>1, ScriptTyped
  <2>2. QED
    BY <1>1, <2>1 DEF Stream!TypeOK, Stream!ScanLine
<1>3. Stream!LineOf(Kind(upstream), line)
  BY <1>1, <1>2, ScriptTyped
<1>4. /\ at' = at + 1
      /\ produced' = produced \o events
      /\ reverse' = IF line.format # "blank" /\ Stream!Reverses /\ events # <<>>
                      THEN [started |-> TRUE, index |-> done.index]
                      ELSE reverse
      /\ UNCHANGED <<phase, upstream, client, script>>
  BY DEF Stream!ScanLine, Stream!fixed, vars, turnVars
<1>5. input \in Nat /\ reverse \in [started : BOOLEAN, index : 0..1]
  BY <1>1 DEF Stream!TypeOK
<1>6. Kind(upstream') = Kind(upstream) /\ Stream!Reverses' = Stream!Reverses /\ ToBlocks' = ToBlocks
  BY <1>4 DEF Kind, Stream!Reverses, ToBlocks
<1>7. IsSeq(events)
  BY ForwardIsSeq
<1>8. (EndTold \/ line.type = "message_delta") => EndTold'
  <2>1. \A i \in 1..at : i \in 1..at + 1
    BY <1>2
  <2>2. at + 1 \in 1..at + 1
    BY <1>2
  <2>3. QED
    BY <1>4, <2>1, <2>2 DEF EndTold
<1>9. CASE ~ToBlocks
  <2>1. \A e \in ToSet(produced) : e.format # "anthropic"
    BY <1>9 DEF Blocks
  <2>2. \A e \in ToSet(events) : e.format # "anthropic"
    BY <1>3, <1>5, <1>9, NoneAnthropic DEF ToBlocks
  <2>3. \A e \in ToSet(produced') : e.format # "anthropic"
    <3> HIDE DEF events
    <3> QED
      BY <1>1, <1>4, <1>7, <2>1, <2>2, MembersOfConcat
  <2>4. ~reverse'.started => reverse'.index = 0
    <3>1. CASE line.format # "blank" /\ Stream!Reverses /\ events # <<>>
      <4>1. reverse' = [started |-> TRUE, index |-> done.index]
        BY <1>4, <3>1, Zenon
      <4> HIDE DEF done
      <4>2. QED
        BY <4>1
    <3>2. CASE ~(line.format # "blank" /\ Stream!Reverses /\ events # <<>>)
      <4>1. reverse' = reverse
        BY <1>4, <3>2, Zenon
      <4>2. QED
        BY <4>1 DEF Blocks
    <3>3. QED
      BY <3>1, <3>2
  <2> HIDE DEF events, chunks, line, done
  <2>5. QED
    BY <1>4, <1>6, <1>9, <2>3, <2>4 DEF Blocks
<1>10. CASE ToBlocks /\ events = <<>>
  <2>1. reverse' = reverse
    BY <1>4, <1>10, Zenon
  <2>2. produced' = produced
    <3>1. produced \o <<>> = produced
      BY <1>1, Concat, EmptyIsSeq
    <3> HIDE DEF events
    <3>2. QED
      BY <1>4, <1>10, <3>1
  <2>3. OpenNow' = OpenNow
    BY <2>1 DEF OpenNow
  <2> HIDE DEF events, chunks, line, done
  <2>4. QED
    BY <1>4, <1>6, <1>8, <1>10, <2>1, <2>2, <2>3 DEF Blocks
<1>11. CASE ToBlocks /\ line.format = "blank"
  <2>1. events = <<line>>
    BY <1>11 DEF Stream!Forward
  <2>2. reverse' = reverse
    BY <1>4, <1>11, Zenon
  <2>3. OpenNow' = OpenNow
    BY <2>2 DEF OpenNow
  <2>4. line.format # "anthropic"
    BY <1>11
  <2> HIDE DEF events, chunks, line, done
  <2>5. \A open : LeavesOpen(produced, open) => LeavesOpen(produced', open)
    BY <1>4, <2>1, <2>4, OtherFormat
  <2>6. QED
    BY <1>4, <1>6, <1>8, <1>11, <2>2, <2>3, <2>5 DEF Blocks
<1>12. CASE ToBlocks /\ events # <<>> /\ line.format # "blank"
  <2>1. ~EndTold
    <3>1. SUFFICES ASSUME EndTold PROVE FALSE
      OBVIOUS
    <3>2. PICK i \in 1..at : script[i].type = "message_delta"
      BY <3>1 DEF EndTold
    <3>3. i < at + 1 /\ i \in 1..Len(script)
      BY <1>2
    <3>4. Stream!ScriptOf(Kind(upstream), script)
      BY <1>1, ScriptsAssumption
    <3>5. line.type \notin {"message_start", "content_block_start", "content_block_delta",
                            "message_delta"}
      BY <1>2, <3>2, <3>3, <3>4 DEF Stream!ScriptOf
    <3>6. chunks = <<>>
      BY <1>12, <3>5 DEF ToBlocks, Stream!ToOpenAI, Stream!FromAnthropic
    <3>7. events = Stream!Reversed(chunks).events
      BY <1>12 DEF ToBlocks, Stream!Forward
    <3> HIDE DEF events, chunks
    <3>8. Stream!Reversed(chunks) = [index |-> reverse.index, events |-> <<>>]
      BY <3>6, EmptyIsSeq DEF Stream!Reversed
    <3>9. QED
      BY <1>12, <3>7, <3>8
  <2>2. LeavesOpen(produced, OpenNow) /\ (~reverse.started => reverse.index = 0)
    BY <1>12, <2>1 DEF Blocks
  <2>3. \/ LeavesOpen(produced \o events, {done.index})
        \/ line.type = "message_delta" /\ LeavesOpen(produced \o events, {})
    BY <1>5, <1>12, <2>2, ForwardNests DEF ToBlocks
  <2>4. reverse' = [started |-> TRUE, index |-> done.index]
    BY <1>4, <1>12, Zenon DEF ToBlocks
  <2> HIDE DEF events, chunks, line, done
  <2>5. OpenNow' = {done.index} /\ reverse'.started
    BY <2>4 DEF OpenNow
  <2>6. QED
    BY <1>4, <1>6, <1>8, <1>12, <2>3, <2>5 DEF Blocks
<1>13. QED
  BY <1>9, <1>10, <1>11, <1>12

LEMMA BlocksStep ==
  ASSUME Typed, Blocks, [ExchangeNext]_all
  PROVE  Blocks'
<1>1. CASE UNCHANGED <<phase, upstream, client, script, at, reverse, produced>>
  BY <1>1, BlocksFrame
<1>2. CASE Next /\ UNCHANGED <<script, at, input, roleSent, reverse, pc, outbox, outcome, channel,
                              ended, reader, current, copied, tracked, produced, delivered>>
  <2>1. phase # "streaming" /\ phase' # "streaming"
    BY <1>2, TurnsAreNoStreams
  <2>2. produced' = <<>> /\ reverse' = [started |-> FALSE, index |-> 0]
    BY <1>2, <2>1 DEF Blocks
  <2>3. \A e : e \notin ToSet(produced')
    BY <2>2, Members
  <2>4. reverse'.index = 0
    BY <2>2
  <2>5. QED
    BY <2>1, <2>2, <2>3, <2>4 DEF Blocks, ToBlocks
<1>3. CASE BeginStream
  <2>1. phase # "streaming" /\ phase' = "streaming"
    BY <1>3 DEF BeginStream
  <2>2. /\ produced' = <<>> /\ reverse' = [started |-> FALSE, index |-> 0]
        /\ ~reverse'.started /\ reverse'.index = 0
    BY <1>3, <2>1 DEF BeginStream, Blocks
  <2>3. \A e : e \notin ToSet(produced')
    BY <2>2, Members
  <2>4. LeavesOpen(produced', OpenNow')
    BY <2>2, NothingNests DEF OpenNow
  <2>5. QED
    BY <2>1, <2>2, <2>3, <2>4 DEF Blocks
<1>4. CASE phase = "streaming" /\ UNCHANGED vars /\ Stream!Next
  <2>1. CASE Stream!ScanLine
    BY <1>4, <2>1, BlocksScan
  <2>2. CASE Stream!EndScan
    <3> DEFINE e == Stream!Done
    <3>1. e.format # "anthropic"
      BY DEF Stream!Done
    <3> HIDE DEF e
    <3>2. IsSeq(produced) /\ produced' = Append(produced, e)
      BY <2>2 DEF Stream!EndScan, Typed, Flow, Sequences, e
    <3>3. produced' = produced \o <<e>>
      <4> DEFINE S == ToSet(produced) \cup {e}
      <4>1. produced \in Seq(S) /\ e \in S
        BY <3>2, IsSeqIn
      <4> HIDE DEF S
      <4>2. QED
        BY <3>2, <4>1, AppendIsConcat
    <3>4. \A open : LeavesOpen(produced, open) => LeavesOpen(produced', open)
      BY <3>1, <3>3, OtherFormat
    <3>5. \A d \in ToSet(produced') : d \in ToSet(produced) \/ d = e
      BY <3>2, <3>3, SingleIsSeq, MembersOfConcat, Members
    <3>6. UNCHANGED <<phase, upstream, client, script, at, reverse>>
      BY <1>4, <2>2 DEF Stream!EndScan, Stream!fixed, Stream!convVars, vars, turnVars
    <3>7. Kind(upstream') = Kind(upstream) /\ Stream!Reverses' = Stream!Reverses
      BY <3>6 DEF Kind, Stream!Reverses
    <3>8. ToBlocks' = ToBlocks /\ EndTold' = EndTold /\ OpenNow' = OpenNow
      BY <3>6, <3>7 DEF ToBlocks, EndTold, OpenNow
    <3>9. QED
      BY <1>4, <3>1, <3>4, <3>5, <3>6, <3>8 DEF Blocks
  <2>3. CASE Stream!BreakScan \/ Stream!CheckClosed \/ Stream!Push \/ Stream!Abandon
               \/ Stream!EndEvents
    BY <1>1, <1>4, <2>3 DEF Stream!BreakScan, Stream!CheckClosed, Stream!Push, Stream!Abandon,
       Stream!EndEvents, Stream!fixed, Stream!convVars, vars, turnVars
  <2>4. CASE Stream!Read \/ Stream!ReadEOF \/ Stream!Write \/ Stream!Close
    BY <1>1, <1>4, <2>4 DEF Stream!Read, Stream!ReadEOF, Stream!Write, Stream!Close,
       Stream!fixed, Stream!convVars, vars, turnVars
  <2>5. CASE Stream!Over
    BY <1>1, <1>4, <2>5 DEF Stream!Over, Stream!vars, Stream!fixed, Stream!convVars, vars, turnVars
  <2>6. QED
    BY <1>4, <2>1, <2>2, <2>3, <2>4, <2>5 DEF Stream!Next
<1>5. CASE UNCHANGED all
  BY <1>1, <1>5 DEF all, vars, turnVars, streamVars, Stream!vars, Stream!fixed, Stream!convVars
<1>6. QED
  BY <1>2, <1>3, <1>4, <1>5 DEF ExchangeNext

(* An Anthropic client sees every delta inside an open block, and the end  *)
(* of the message only when every block is closed, for any mixture of      *)
(* texts and calls of an upstream that is done with its blocks when it     *)
(* tells its end (anthropic/streaming.go:258-325).                         *)
THEOREM ExchangeBracketed == ExchangeSpec => []Bracketed
<1>1. ExchangeInit => Typed /\ Blocks
  <2>1. ASSUME ExchangeInit PROVE Blocks
    BY <2>1, BlocksIdle DEF ExchangeInit, Init
  <2>2. QED
    BY <2>1, TypedInit
<1>2. Typed /\ Blocks /\ [ExchangeNext]_all => (Typed /\ Blocks)'
  BY TypedStep, BlocksStep
<1>3. Typed /\ Blocks => Bracketed
  <2>1. ASSUME Typed, Blocks, ToBlocks PROVE Nested(produced)
    BY <2>1 DEF Blocks, LeavesOpen
  <2>2. ASSUME Typed, Blocks, ~ToBlocks PROVE Nested(produced)
    <3>1. IsSeq(produced) /\ \A e \in ToSet(produced) : e.format # "anthropic"
      BY <2>2 DEF Typed, Flow, Sequences, Blocks
    <3>2. \A i \in 1..Len(produced) : produced[i] \in ToSet(produced)
      <4>1. DOMAIN produced = 1..Len(produced)
        BY <3>1, LenProperties DEF IsSeq
      <4>2. QED
        BY <4>1 DEF ToSet
    <3>3. QED
      BY <3>1, <3>2 DEF Nested, Fits
  <2>3. QED
    BY <2>1, <2>2, BracketedIs
<1>4. QED
  BY <1>1, <1>2, <1>3, PTL DEF ExchangeSpec

----------------------------------------------------------------------------
(* The pieces that events carry, over any events. *)

Carries(p, pieces) ==
  /\ IsSeq(p) /\ \A e \in ToSet(p) : IsSeq(Stream!PiecesIn(e))
  /\ Stream!PiecesOf(p) = pieces

LEMMA PiecesThrough ==
  ASSUME NEW p, IsSeq(p), NEW S, ToSet(p) \subseteq S
  PROVE  Stream!PiecesOf(p) = FlattenSeq(Through([e \in S |-> Stream!PiecesIn(e)], p))
<1> DEFINE f == [e \in S |-> Stream!PiecesIn(e)]
<1>1. \A i \in 1..Len(p) : p[i] \in S
  <2>1. DOMAIN p = 1..Len(p)
    BY LenProperties DEF IsSeq
  <2>2. QED
    BY <2>1 DEF ToSet
<1>2. [i \in 1..Len(p) |-> Stream!PiecesIn(p[i])] = [i \in 1..Len(p) |-> f[p[i]]]
  BY <1>1
<1>3. QED
  BY <1>2, OfStream DEF Stream!PiecesOf, Through

LEMMA CarriesConcat ==
  ASSUME NEW p, NEW a, Carries(p, a), NEW q, NEW b, Carries(q, b)
  PROVE  Carries(p \o q, a \o b)
<1> DEFINE S == ToSet(p) \cup ToSet(q)
           f == [e \in S |-> Stream!PiecesIn(e)]
           fp == Through(f, p)
           fq == Through(f, q)
<1>1. IsSeq(p) /\ IsSeq(q) /\ \A e \in S : IsSeq(f[e])
  BY DEF Carries
<1>2. IsSeq(p \o q) /\ ToSet(p \o q) = S
  BY <1>1, Concat, MembersOfConcat
<1>3. a = FlattenSeq(fp) /\ b = FlattenSeq(fq)
  BY <1>1, PiecesThrough DEF Carries
<1>4. Stream!PiecesOf(p \o q) = FlattenSeq(Through(f, p \o q))
  BY <1>2, PiecesThrough
<1>5. \A e \in S : IsSeq(Stream!PiecesIn(e))
  BY DEF Carries
<1>6. /\ \A i \in 1..Len(p) : p[i] \in S
      /\ \A i \in 1..Len(q) : q[i] \in S
  <2>1. DOMAIN p = 1..Len(p) /\ DOMAIN q = 1..Len(q)
    BY <1>1, LenProperties DEF IsSeq
  <2>2. QED
    BY <2>1 DEF ToSet
<1> HIDE DEF f, S
<1>7. Through(f, p \o q) = fp \o fq
  BY <1>1, ThroughConcat
<1>8. AllSeqs(fp) /\ AllSeqs(fq)
  <2>1. AllSeqs(fp)
    BY <1>1, <1>6, ThroughIs DEF AllSeqs
  <2>2. AllSeqs(fq)
    BY <1>1, <1>6, ThroughIs DEF AllSeqs
  <2>3. QED
    BY <2>1, <2>2
<1> HIDE DEF fp, fq
<1>9. FlattenSeq(fp \o fq) = a \o b
  BY <1>3, <1>8, FlattenConcat
<1>10. QED
  BY <1>2, <1>4, <1>5, <1>7, <1>9 DEF Carries

LEMMA CarriesNone == Carries(<<>>, <<>>)
<1>1. Stream!PiecesOf(<<>>) = <<>>
  <2>1. [i \in 1..Len(<<>>) |-> Stream!PiecesIn(<<>>[i])] = <<>>
    OBVIOUS
  <2>2. QED
    BY <2>1, FlattenNone, OfStream DEF Stream!PiecesOf
<1>2. QED
  BY <1>1, EmptyIsSeq, Members DEF Carries

LEMMA CarriesOne ==
  ASSUME NEW e, IsSeq(Stream!PiecesIn(e))
  PROVE  Carries(<<e>>, Stream!PiecesIn(e))
<1> DEFINE x == Stream!PiecesIn(e)
<1>1. [i \in 1..Len(<<e>>) |-> Stream!PiecesIn(<<e>>[i])] = <<x>>
  OBVIOUS
<1>2. Stream!PiecesOf(<<e>>) = FlattenSeq(<<x>>)
  BY <1>1, OfStream DEF Stream!PiecesOf
<1>3. FlattenSeq(<<x>>) = x
  BY FlattenOne
<1>4. QED
  BY <1>2, <1>3, SingleIsSeq, Members DEF Carries

(* The pieces of a line. *)
LinePieces(line) ==
  CASE line.type = "content_block_delta" -> line.pieces
    [] line.type = "chunk" -> Stream!PiecesIn(line)
    [] OTHER -> <<>>

Args(calls) == [i \in 1..Len(calls) |-> calls[i].args]

LEMMA ArgsAreSeqs ==
  ASSUME NEW calls, IsSeq(calls), \A call \in ToSet(calls) : IsSeq(call.args)
  PROVE  AllSeqs(Args(calls))
<1> DEFINE f == [call \in ToSet(calls) |-> call.args]
<1>1. \A i \in 1..Len(calls) : calls[i] \in ToSet(calls)
  <2>1. DOMAIN calls = 1..Len(calls)
    BY LenProperties DEF IsSeq
  <2>2. QED
    BY <2>1 DEF ToSet
<1>2. Args(calls) = Through(f, calls) /\ \A i \in 1..Len(calls) : IsSeq(f[calls[i]])
  BY <1>1 DEF Args, Through
<1> HIDE DEF f
<1>3. QED
  BY <1>2, ThroughIs DEF AllSeqs

LEMMA SaysPieces ==
  ASSUME NEW line, NEW calls, Stream!Says(line, calls)
  PROVE  IsSeq(line.text \o FlattenSeq(Args(calls)))
<1>1. IsSeq(line.text) /\ AllSeqs(Args(calls))
  BY ArgsAreSeqs DEF Stream!Says, Stream!IsSequence, IsSeq, ToSet, Stream!ToSet
<1>2. IsSeq(FlattenSeq(Args(calls)))
  BY <1>1, FlattenIsSeq
<1>3. QED
  BY <1>1, <1>2, Concat

(* A chunk of one text, or of one part of a call. *)
OneVoice(chunk, pieces) ==
  /\ chunk.format = "openai" /\ IsSeq(pieces)
  /\ \/ chunk.tools = <<>> /\ chunk.text = pieces
     \/ \E part : chunk.tools = <<part>> /\ chunk.text = <<>> /\ part.args = pieces

LEMMA OneVoicePieces ==
  ASSUME NEW chunk, NEW pieces, OneVoice(chunk, pieces)
  PROVE  Stream!PiecesIn(chunk) = pieces
<1>1. Stream!PiecesIn(chunk) = chunk.text \o FlattenSeq(Args(chunk.tools))
  BY OfStream DEF OneVoice, Stream!PiecesIn, Args
<1>2. CASE chunk.tools = <<>> /\ chunk.text = pieces
  <2>1. Args(<<>>) = <<>>
    BY DEF Args
  <2>2. QED
    BY <1>1, <1>2, <2>1, FlattenNone, Concat, EmptyIsSeq DEF OneVoice
<1>3. ASSUME NEW part, chunk.tools = <<part>>, chunk.text = <<>>, part.args = pieces
      PROVE  Stream!PiecesIn(chunk) = pieces
  <2>1. Args(<<part>>) = <<pieces>>
    BY <1>3 DEF Args
  <2>2. FlattenSeq(<<pieces>>) = pieces
    BY FlattenOne
  <2>3. <<>> \o pieces = pieces
    BY Concat, EmptyIsSeq DEF OneVoice
  <2>4. QED
    BY <1>1, <1>3, <2>1, <2>2, <2>3
<1>4. QED
  BY <1>2, <1>3 DEF OneVoice

(* What the lines of an Anthropic upstream say, the chunks say. *)
LEMMA FromAnthropicSays ==
  ASSUME NEW line, Stream!AnthropicLine(line)
  PROVE  \/ Stream!FromAnthropic(input, line) = <<>> /\ LinePieces(line) = <<>>
         \/ \E chunk : /\ Stream!FromAnthropic(input, line) = <<chunk>>
                       /\ chunk.choices /\ OneVoice(chunk, LinePieces(line))
<1>1. IsSeq(<<>>)
  BY EmptyIsSeq
<1>2. CASE line.type = "message_start"
  <2>1. Stream!FromAnthropic(input, line) = <<Stream!Plain>>
    BY <1>2 DEF Stream!FromAnthropic
  <2>2. Stream!Plain.choices /\ OneVoice(Stream!Plain, <<>>)
    BY <1>1 DEF Stream!Plain, OneVoice
  <2>3. QED
    BY <1>2, <2>1, <2>2 DEF LinePieces
<1>3. CASE line.type = "content_block_start"
  <2>1. LinePieces(line) = <<>>
    BY <1>3 DEF LinePieces
  <2> DEFINE part == Stream!ToolPart(line.index, <<line.name>>, <<>>)
             chunk == [Stream!Plain EXCEPT !.tools = <<part>>]
  <2>2. part.args = <<>> /\ chunk.tools = <<part>> /\ chunk.text = <<>> /\ chunk.choices
        /\ chunk.format = "openai"
    BY DEF Stream!ToolPart, Stream!Plain
  <2>3. Stream!FromAnthropic(input, line) \in {<<>>, <<chunk>>}
    BY <1>3 DEF Stream!FromAnthropic
  <2> HIDE DEF part, chunk
  <2>4. QED
    BY <1>1, <2>1, <2>2, <2>3 DEF OneVoice
<1>4. CASE line.type = "content_block_delta"
  <2>1. LinePieces(line) = line.pieces /\ IsSeq(line.pieces)
    BY <1>4 DEF LinePieces, Stream!AnthropicLine, Stream!IsSequence, IsSeq, ToSet, Stream!ToSet
  <2>2. CASE line.delta = "text_delta"
    <3> DEFINE chunk == [Stream!Plain EXCEPT !.text = line.pieces]
    <3>1. chunk.tools = <<>> /\ chunk.text = line.pieces /\ chunk.choices /\ chunk.format = "openai"
      BY DEF Stream!Plain
    <3>2. Stream!FromAnthropic(input, line) = <<chunk>>
      BY <1>4, <2>2 DEF Stream!FromAnthropic
    <3> HIDE DEF chunk
    <3>3. QED
      BY <2>1, <3>1, <3>2 DEF OneVoice
  <2>3. CASE line.delta = "input_json_delta"
    <3> DEFINE part == Stream!ToolPart(line.index, <<>>, line.pieces)
               chunk == [Stream!Plain EXCEPT !.tools = <<part>>]
    <3>1. part.args = line.pieces /\ chunk.tools = <<part>> /\ chunk.text = <<>>
          /\ chunk.choices /\ chunk.format = "openai"
      BY DEF Stream!ToolPart, Stream!Plain
    <3>2. Stream!FromAnthropic(input, line) = <<chunk>>
      BY <1>4, <2>3 DEF Stream!FromAnthropic
    <3> HIDE DEF part, chunk
    <3>3. QED
      BY <2>1, <3>1, <3>2 DEF OneVoice
  <2>4. CASE line.delta \notin {"text_delta", "input_json_delta"}
    <3>1. line.pieces = <<>>
      BY <1>4, <2>4 DEF Stream!AnthropicLine
    <3>2. Stream!FromAnthropic(input, line) = <<>>
      BY <1>4, <2>4 DEF Stream!FromAnthropic
    <3>3. QED
      BY <2>1, <3>1, <3>2
  <2>5. QED
    BY <2>2, <2>3, <2>4
<1>5. CASE line.type = "message_delta"
  <2>1. LinePieces(line) = <<>>
    BY <1>5 DEF LinePieces
  <2> DEFINE chunk == [Stream!Plain EXCEPT !.finish = Stream!FinishOfAnthropic(line.reason),
                                           !.usage = <<input, line.tokens>>]
  <2>2. chunk.tools = <<>> /\ chunk.text = <<>> /\ chunk.choices /\ chunk.format = "openai"
    BY DEF Stream!Plain
  <2>3. Stream!FromAnthropic(input, line) = <<chunk>>
    BY <1>5 DEF Stream!FromAnthropic
  <2> HIDE DEF chunk
  <2>4. QED
    BY <1>1, <2>1, <2>2, <2>3 DEF OneVoice
<1>6. CASE line.type \in {"event", "content_block_stop", "message_stop"}
  <2>1. LinePieces(line) = <<>>
    BY <1>6 DEF LinePieces
  <2>2. Stream!FromAnthropic(input, line) = <<>>
    BY <1>6 DEF Stream!FromAnthropic
  <2>3. QED
    BY <2>1, <2>2
<1>7. QED
  BY <1>2, <1>3, <1>4, <1>5, <1>6 DEF Stream!AnthropicLine

LEMMA AppendedByConcat ==
  ASSUME NEW p, IsSeq(p), NEW e
  PROVE  Append(p, e) = p \o <<e>>
<1> DEFINE S == ToSet(p) \cup {e}
<1>1. p \in Seq(S) /\ e \in S
  BY IsSeqIn
<1> HIDE DEF S
<1>2. QED
  BY <1>1, AppendIsConcat

(* Events without a piece. *)
LEMMA CarriesNothing ==
  ASSUME NEW e, Stream!PiecesIn(e) = <<>>
  PROVE  Carries(<<e>>, <<>>)
BY CarriesOne, EmptyIsSeq

LEMMA CarriesTwoNothing ==
  ASSUME NEW e, NEW f, Stream!PiecesIn(e) = <<>>, Stream!PiecesIn(f) = <<>>
  PROVE  Carries(<<e, f>>, <<>>)
<1> DEFINE a == <<e>>
           b == <<f>>
<1>1. Carries(a, <<>>) /\ Carries(b, <<>>)
  BY CarriesNothing
<1>2. <<e, f>> = a \o b
  BY TwoIs
<1> HIDE DEF a, b
<1>3. Carries(a \o b, <<>> \o <<>>)
  BY <1>1, CarriesConcat
<1>4. <<>> \o <<>> = <<>>
  BY EmptyIsSeq, Concat
<1>5. QED
  BY <1>2, <1>3, <1>4

LEMMA CarriesThreeNothing ==
  ASSUME NEW e, NEW f, NEW g, Stream!PiecesIn(e) = <<>>, Stream!PiecesIn(f) = <<>>,
         Stream!PiecesIn(g) = <<>>
  PROVE  Carries(<<e, f, g>>, <<>>)
<1> DEFINE a == <<e, f>>
           b == <<g>>
<1>1. Carries(a, <<>>) /\ Carries(b, <<>>)
  BY CarriesNothing, CarriesTwoNothing
<1>2. <<e, f, g>> = a \o b
  BY ThreeIs
<1> HIDE DEF a, b
<1>3. Carries(a \o b, <<>> \o <<>>)
  BY <1>1, CarriesConcat
<1>4. <<>> \o <<>> = <<>>
  BY EmptyIsSeq, Concat
<1>5. QED
  BY <1>2, <1>3, <1>4

LEMMA FirstCarries ==
  ASSUME NEW started
  PROVE  Carries(First(started), <<>>)
<1> DEFINE e == Stream!MessageStart
           f == Stream!BlockStart(0, "text")
<1>1. Stream!PiecesIn(e) = <<>> /\ Stream!PiecesIn(f) = <<>>
  BY DEF Stream!PiecesIn, Stream!MessageStart, Stream!BlockStart
<1>2. First(started) \in {<<>>, <<e, f>>}
  BY DEF First
<1> HIDE DEF e, f
<1>3. QED
  BY <1>1, <1>2, CarriesNone, CarriesTwoNothing

LEMMA EndingCarries ==
  ASSUME NEW block, NEW chunk
  PROVE  Carries(Ending(block, chunk), <<>>)
<1> DEFINE e == Stream!BlockStop(block)
           f == Stream!MessageDelta(chunk.finish, chunk.usage)
           g == Stream!MessageStop
<1>1. Stream!PiecesIn(e) = <<>> /\ Stream!PiecesIn(f) = <<>> /\ Stream!PiecesIn(g) = <<>>
  BY DEF Stream!PiecesIn, Stream!BlockStop, Stream!MessageDelta, Stream!MessageStop
<1>2. Ending(block, chunk) \in {<<>>, <<e, f, g>>}
  BY DEF Ending
<1> HIDE DEF e, f, g
<1>3. QED
  BY <1>1, <1>2, CarriesNone, CarriesThreeNothing

LEMMA DeltaCarries ==
  ASSUME NEW index, NEW pieces, IsSeq(pieces)
  PROVE  /\ Carries(<<Stream!Delta(index, pieces)>>, pieces)
         /\ Carries(IF pieces # <<>> THEN <<Stream!Delta(index, pieces)>> ELSE <<>>, pieces)
<1> DEFINE e == Stream!Delta(index, pieces)
<1>1. Stream!PiecesIn(e) = pieces
  BY DEF Stream!PiecesIn, Stream!Delta
<1> HIDE DEF e
<1>2. Carries(<<e>>, pieces)
  BY <1>1, CarriesOne
<1>3. QED
  BY <1>2, CarriesNone DEF e

LEMMA BodyCarries ==
  ASSUME NEW block, NEW chunk, NEW pieces, OneVoice(chunk, pieces)
  PROVE  Carries(Body(block, chunk).events, pieces)
<1>1. IsSeq(pieces)
  BY DEF OneVoice
<1>2. CASE chunk.tools = <<>> /\ chunk.text = pieces
  <2>1. Body(block, chunk).events = IF pieces # <<>> THEN <<Stream!Delta(block, pieces)>> ELSE <<>>
    BY <1>2 DEF Body
  <2>2. QED
    BY <1>1, <2>1, DeltaCarries
<1>3. ASSUME NEW part, chunk.tools = <<part>>, part.args = pieces
      PROVE  Carries(Body(block, chunk).events, pieces)
  <2> DEFINE first == Stream!Named(part) /\ block = 0
             index == IF first THEN 1 ELSE block
             stop  == IF first THEN <<Stream!BlockStop(0)>> ELSE <<>>
             start == IF Stream!Named(part) THEN <<Stream!BlockStart(index, "tool_use")>> ELSE <<>>
             delta == IF part.args # <<>> THEN <<Stream!Delta(index, part.args)>> ELSE <<>>
  <2>1. chunk.tools # <<>> /\ chunk.tools[1] = part
    BY <1>3, SingleIsSeq
  <2>2. Body(block, chunk).events = ((<<>> \o stop) \o start) \o delta
    BY <2>1 DEF Body, Stream!ToolEvents
  <2>3. Carries(stop, <<>>)
    <3>1. Stream!PiecesIn(Stream!BlockStop(0)) = <<>>
      BY DEF Stream!PiecesIn, Stream!BlockStop
    <3>2. Carries(<<Stream!BlockStop(0)>>, <<>>)
      BY <3>1, CarriesNothing
    <3> HIDE DEF first
    <3>3. QED
      BY <3>2, CarriesNone
  <2>4. Carries(start, <<>>)
    <3>1. Stream!PiecesIn(Stream!BlockStart(index, "tool_use")) = <<>>
      BY DEF Stream!PiecesIn, Stream!BlockStart
    <3> HIDE DEF index
    <3>2. Carries(<<Stream!BlockStart(index, "tool_use")>>, <<>>)
      BY <3>1, CarriesNothing
    <3>3. QED
      BY <3>2, CarriesNone
  <2>5. Carries(delta, pieces)
    <3> HIDE DEF index
    <3> QED
      BY <1>1, <1>3, DeltaCarries
  <2> HIDE DEF stop, start, delta
  <2>6. Carries(<<>> \o stop, <<>> \o <<>>)
    BY <2>3, CarriesNone, CarriesConcat
  <2>7. Carries((<<>> \o stop) \o start, (<<>> \o <<>>) \o <<>>)
    BY <2>4, <2>6, CarriesConcat
  <2>8. Carries(((<<>> \o stop) \o start) \o delta, ((<<>> \o <<>>) \o <<>>) \o pieces)
    BY <2>5, <2>7, CarriesConcat
  <2>9. ((<<>> \o <<>>) \o <<>>) \o pieces = pieces
    <3>1. <<>> \o <<>> = <<>>
      BY EmptyIsSeq, Concat
    <3>2. <<>> \o pieces = pieces
      BY <1>1, EmptyIsSeq, Concat
    <3>3. QED
      BY <3>1, <3>2
  <2>10. QED
    BY <2>2, <2>8, <2>9
<1>4. QED
  BY <1>2, <1>3 DEF OneVoice

LEMMA ToAnthropicCarries ==
  ASSUME NEW started, NEW block, NEW chunk, NEW pieces, OneVoice(chunk, pieces)
  PROVE  Carries(Stream!ToAnthropic(started, block, chunk).events, pieces)
<1> DEFINE first  == First(started)
           body   == Body(block, chunk).events
           ending == Ending(Body(block, chunk).index, chunk)
<1>1. OneCall(chunk) /\ IsSeq(pieces)
  BY DEF OneVoice, OneCall
<1>2. Stream!ToAnthropic(started, block, chunk).events = (first \o body) \o ending
  BY <1>1, ToAnthropicIs
<1>3. Carries(first, <<>>) /\ Carries(body, pieces) /\ Carries(ending, <<>>)
  BY FirstCarries, BodyCarries, EndingCarries
<1> HIDE DEF first, body, ending
<1>4. Carries(first \o body, <<>> \o pieces)
  BY <1>3, CarriesConcat
<1>5. Carries((first \o body) \o ending, (<<>> \o pieces) \o <<>>)
  BY <1>3, <1>4, CarriesConcat
<1>6. (<<>> \o pieces) \o <<>> = pieces
  <2>1. <<>> \o pieces = pieces /\ pieces \o <<>> = pieces
    BY <1>1, EmptyIsSeq, Concat
  <2>2. QED
    BY <2>1
<1>7. QED
  BY <1>2, <1>5, <1>6

(* What the lines of a Gemini upstream say, the chunks say. *)
LEMMA FromGeminiCarries ==
  ASSUME NEW line, Stream!GeminiLine(line)
  PROVE  Carries(Stream!FromGemini(roleSent, line), LinePieces(line))
<1> DEFINE pieces == line.text \o FlattenSeq(Args(line.calls))
<1>1. LinePieces(line) = pieces
  BY OfStream DEF LinePieces, Stream!GeminiLine, Stream!PiecesIn, Args
<1>2. IsSeq(pieces)
  BY SaysPieces DEF Stream!GeminiLine
<1>3. /\ Stream!PiecesIn(Stream!Plain) = <<>>
      /\ \A usage : Stream!PiecesIn([Stream!Plain EXCEPT !.usage = usage]) = <<>>
      /\ \A finish, usage :
           Stream!PiecesIn([Stream!Plain EXCEPT !.finish = finish, !.usage = usage]) = <<>>
  <2>1. ASSUME NEW chunk, chunk.format = "openai", chunk.tools = <<>>, chunk.text = <<>>
        PROVE  Stream!PiecesIn(chunk) = <<>>
    <3>1. OneVoice(chunk, <<>>)
      BY <2>1, EmptyIsSeq DEF OneVoice
    <3>2. QED
      BY <3>1, OneVoicePieces
  <2>2. /\ Stream!Plain.format = "openai" /\ Stream!Plain.tools = <<>> /\ Stream!Plain.text = <<>>
        /\ \A usage : LET c == [Stream!Plain EXCEPT !.usage = usage]
                      IN c.format = "openai" /\ c.tools = <<>> /\ c.text = <<>>
        /\ \A finish, usage : LET c == [Stream!Plain EXCEPT !.finish = finish, !.usage = usage]
                              IN c.format = "openai" /\ c.tools = <<>> /\ c.text = <<>>
    BY DEF Stream!Plain
  <2>3. QED
    BY <2>1, <2>2
<1>4. Carries(GeminiRole, <<>>)
  BY <1>3, CarriesNothing, CarriesNone DEF GeminiRole
<1>5. Carries(GeminiEnds(line), <<>>)
  BY <1>3, CarriesNothing, CarriesNone DEF GeminiEnds
<1>6. Carries(GeminiUses(line), <<>>)
  BY <1>3, CarriesNothing, CarriesNone DEF GeminiUses
<1>7. Carries(<<GeminiSays(line)>>, pieces)
  <2> DEFINE says == GeminiSays(line)
             n    == Len(line.calls)
  <2>1. n \in Nat
    BY LenProperties DEF Stream!GeminiLine, Stream!Says, Stream!IsSequence
  <2>2. says.format = "openai" /\ says.text = line.text /\ says.tools = GeminiTools(line)
    BY DEF GeminiSays, Stream!Plain
  <2>3. Len(GeminiTools(line)) = n
    BY <2>1 DEF GeminiTools
  <2>4. \A i \in 1..n : GeminiTools(line)[i].args = line.calls[i].args
    BY DEF GeminiTools, Stream!ToolPart
  <2> HIDE DEF says
  <2>5. Args(GeminiTools(line)) = Args(line.calls)
    BY <2>3, <2>4 DEF Args
  <2>6. Stream!PiecesIn(says) = line.text \o FlattenSeq(Args(GeminiTools(line)))
    BY <2>2, OfStream DEF Stream!PiecesIn, Args
  <2>7. Stream!PiecesIn(says) = pieces
    BY <2>5, <2>6
  <2> HIDE DEF pieces
  <2>8. Carries(<<says>>, pieces)
    BY <1>2, <2>7, CarriesOne
  <2>9. QED
    BY <2>8 DEF says
<1>8. CASE line.candidates
  <2> DEFINE a == GeminiRole
             b == <<GeminiSays(line)>>
             c == GeminiEnds(line)
  <2>1. Stream!FromGemini(roleSent, line) = (a \o b) \o c
    BY <1>8, FromGeminiIs
  <2>2. Carries(a, <<>>) /\ Carries(b, pieces) /\ Carries(c, <<>>)
    BY <1>4, <1>5, <1>7
  <2> HIDE DEF a, b, c, pieces
  <2>3. Carries(a \o b, <<>> \o pieces)
    BY <2>2, CarriesConcat
  <2>4. Carries((a \o b) \o c, (<<>> \o pieces) \o <<>>)
    BY <2>2, <2>3, CarriesConcat
  <2>5. (<<>> \o pieces) \o <<>> = pieces
    <3>1. <<>> \o pieces = pieces /\ pieces \o <<>> = pieces
      BY <1>2, EmptyIsSeq, Concat
    <3>2. QED
      BY <3>1
  <2>6. QED
    BY <1>1, <2>1, <2>4, <2>5
<1>9. CASE ~line.candidates
  <2>1. Stream!FromGemini(roleSent, line) = GeminiUses(line)
    BY <1>9, FromGeminiIs
  <2>2. line.text = <<>> /\ line.calls = <<>>
    BY <1>9 DEF Stream!GeminiLine
  <2>3. Args(<<>>) = <<>>
    BY DEF Args
  <2>4. pieces = <<>>
    BY <2>2, <2>3, FlattenNone, EmptyIsSeq, Concat
  <2>5. QED
    BY <1>1, <1>6, <2>1, <2>4
<1>10. QED
  BY <1>8, <1>9

(* A line goes through both stages with its pieces, where the second gets  *)
(* one chunk at a time.                                                    *)
LEMMA ForwardCarries ==
  ASSUME ~Stream!Reverses \/ Kind(upstream) # "gemini",
         NEW line, Stream!LineOf(Kind(upstream), line)
  PROVE  Carries(Stream!Forward(line), LinePieces(line))
<1>1. CASE line.format = "blank"
  <2>1. line.type = "blank"
    BY <1>1 DEF Stream!LineOf, Stream!OpenAILine, Stream!AnthropicLine, Stream!GeminiLine
  <2>2. Stream!PiecesIn(line) = <<>> /\ LinePieces(line) = <<>>
    BY <1>1, <2>1 DEF Stream!PiecesIn, LinePieces
  <2>3. QED
    BY <1>1, <2>2, CarriesNothing DEF Stream!Forward
<1>2. CASE line.format # "blank" /\ Kind(upstream) = "anthropic"
  <2> DEFINE chunks == Stream!ToOpenAI(line)
  <2>1. chunks = Stream!FromAnthropic(input, line) /\ Stream!AnthropicLine(line)
    BY <1>2 DEF Stream!ToOpenAI, Stream!LineOf
  <2> HIDE DEF chunks
  <2>2. CASE chunks = <<>> /\ LinePieces(line) = <<>>
    <3>1. Stream!Reversed(chunks).events = <<>>
      BY <2>2, EmptyIsSeq DEF Stream!Reversed
    <3>2. Stream!Forward(line) = <<>>
      BY <1>2, <2>2, <3>1 DEF Stream!Forward, chunks
    <3>3. QED
      BY <2>2, <3>2, CarriesNone
  <2>3. ASSUME NEW chunk, chunks = <<chunk>>, chunk.choices, OneVoice(chunk, LinePieces(line))
        PROVE  Carries(Stream!Forward(line), LinePieces(line))
    <3>1. Len(chunks) = 1 /\ chunks[1] = chunk
      BY <2>3
    <3>2. CASE Stream!Reverses
      <4>1. Stream!Reversed(chunks)
              = Stream!ToAnthropic(reverse.started, reverse.index, chunk)
        BY <1>2, <2>3, <3>1 DEF Stream!Reversed
      <4>2. Stream!Forward(line) = Stream!Reversed(chunks).events
        BY <1>2, <3>2 DEF Stream!Forward, chunks
      <4>3. Carries(Stream!ToAnthropic(reverse.started, reverse.index, chunk).events,
                    LinePieces(line))
        BY <2>3, ToAnthropicCarries
      <4>4. QED
        BY <4>1, <4>2, <4>3
    <3>3. CASE ~Stream!Reverses
      <4>1. Stream!Forward(line) = <<chunk>>
        BY <1>2, <2>3, <3>3 DEF Stream!Forward, chunks
      <4>2. Stream!PiecesIn(chunk) = LinePieces(line) /\ IsSeq(LinePieces(line))
        BY <2>3, OneVoicePieces DEF OneVoice
      <4>3. QED
        BY <4>1, <4>2, CarriesOne
    <3>4. QED
      BY <3>2, <3>3
  <2>4. QED
    BY <2>1, <2>2, <2>3, FromAnthropicSays
<1>3. CASE line.format # "blank" /\ Kind(upstream) = "gemini"
  <2>1. Stream!GeminiLine(line) /\ line.type = "chunk"
    BY <1>3 DEF Stream!LineOf, Stream!GeminiLine
  <2>2. Stream!Forward(line) = Stream!FromGemini(roleSent, line)
    BY <1>3, <2>1 DEF Stream!Forward, Stream!ToOpenAI
  <2>3. QED
    BY <2>1, <2>2, FromGeminiCarries
<1>4. CASE line.format # "blank" /\ Kind(upstream) \notin {"anthropic", "gemini"}
  <2>1. Stream!OpenAILine(line) /\ Kind(upstream) = "openai"
    BY <1>4 DEF Stream!LineOf
  <2>2. Stream!Forward(line) = <<line>>
    BY <1>4, <2>1 DEF Stream!Forward, Stream!ToOpenAI, Stream!Reverses
  <2>3. LinePieces(line) = Stream!PiecesIn(line)
    BY <2>1 DEF Stream!OpenAILine, LinePieces
  <2>4. Stream!PiecesIn(line) = line.text \o FlattenSeq(Args(line.tools))
    BY <2>1, OfStream DEF Stream!OpenAILine, Stream!PiecesIn, Args
  <2>5. IsSeq(Stream!PiecesIn(line))
    BY <2>1, <2>4, SaysPieces DEF Stream!OpenAILine
  <2>6. QED
    BY <2>2, <2>3, <2>5, CarriesOne
<1>5. QED
  BY <1>1, <1>2, <1>3, <1>4

LEMMA CarriesSeq ==
  ASSUME NEW p, NEW pieces, Carries(p, pieces)
  PROVE  IsSeq(pieces)
<1> DEFINE S == ToSet(p)
           f == [e \in S |-> Stream!PiecesIn(e)]
<1>1. IsSeq(p) /\ \A e \in S : IsSeq(f[e])
  BY DEF Carries
<1>2. pieces = FlattenSeq(Through(f, p))
  BY <1>1, PiecesThrough DEF Carries
<1>3. \A i \in 1..Len(p) : p[i] \in S
  <2>1. DOMAIN p = 1..Len(p)
    BY <1>1, LenProperties DEF IsSeq
  <2>2. QED
    BY <2>1 DEF ToSet
<1> HIDE DEF S, f
<1>4. AllSeqs(Through(f, p))
  BY <1>1, <1>3, ThroughIs DEF AllSeqs
<1>5. QED
  BY <1>2, <1>4, FlattenIsSeq

(* What the upstream said, line after line. *)
LEMMA SaidNothing == Stream!PiecesSaid(<<>>) = <<>>
BY FlattenNone, OfStream DEF Stream!PiecesSaid

LEMMA SaidMore ==
  ASSUME NEW lines, IsSeq(lines), \A l \in ToSet(lines) : IsSeq(LinePieces(l)),
         NEW line, IsSeq(LinePieces(line))
  PROVE  Stream!PiecesSaid(lines \o <<line>>) = Stream!PiecesSaid(lines) \o LinePieces(line)
<1> DEFINE S == ToSet(lines) \cup {line}
           f == [l \in S |-> LinePieces(l)]
           one == <<line>>
           fl == Through(f, lines)
           fo == Through(f, one)
<1>1. IsSeq(one) /\ IsSeq(lines \o one) /\ ToSet(lines \o one) = S
  <2>1. IsSeq(one) /\ ToSet(one) = {line}
    BY SingleIsSeq, Members
  <2> HIDE DEF one
  <2>2. QED
    BY <2>1, Concat, MembersOfConcat
<1>2. ASSUME NEW ls, IsSeq(ls), ToSet(ls) \subseteq S
      PROVE  Stream!PiecesSaid(ls) = FlattenSeq(Through(f, ls))
  <2>1. \A i \in 1..Len(ls) : ls[i] \in S
    <3>1. DOMAIN ls = 1..Len(ls)
      BY <1>2, LenProperties DEF IsSeq
    <3>2. QED
      BY <1>2, <3>1 DEF ToSet
  <2>2. [i \in 1..Len(ls) |-> LinePieces(ls[i])] = [i \in 1..Len(ls) |-> f[ls[i]]]
    BY <2>1
  <2>3. QED
    BY <2>2, OfStream DEF Stream!PiecesSaid, LinePieces, Through
<1>3. \A l \in S : IsSeq(f[l])
  OBVIOUS
<1>4. fo = <<LinePieces(line)>>
  BY DEF Through
<1>5. FlattenSeq(fo) = LinePieces(line)
  <2> HIDE DEF fo
  <2> QED
    BY <1>4, FlattenOne
<1>6. \A i \in 1..Len(lines) : lines[i] \in S
  <2>1. DOMAIN lines = 1..Len(lines)
    BY LenProperties DEF IsSeq
  <2>2. QED
    BY <2>1 DEF ToSet
<1>7. \A i \in 1..Len(one) : one[i] \in S
  OBVIOUS
<1>8. /\ Stream!PiecesSaid(lines) = FlattenSeq(fl)
      /\ Stream!PiecesSaid(lines \o one) = FlattenSeq(Through(f, lines \o one))
  <2>1. ToSet(lines) \subseteq S
    OBVIOUS
  <2> HIDE DEF S, f, one
  <2>2. QED
    BY <1>1, <1>2, <2>1
<1> HIDE DEF f, S, one
<1>9. Through(f, lines \o one) = fl \o fo
  BY <1>1, ThroughConcat
<1>10. AllSeqs(fl) /\ AllSeqs(fo)
  <2>1. AllSeqs(fl)
    BY <1>3, <1>6, ThroughIs DEF AllSeqs
  <2>2. AllSeqs(fo)
    BY <1>1, <1>3, <1>7, ThroughIs DEF AllSeqs
  <2>3. QED
    BY <2>1, <2>2
<1> HIDE DEF fl, fo
<1>11. FlattenSeq(fl \o fo) = FlattenSeq(fl) \o FlattenSeq(fo)
  BY <1>10, FlattenConcat
<1>12. QED
  BY <1>5, <1>8, <1>9, <1>11 DEF one

LEMMA OneMoreLine ==
  ASSUME NEW lines, IsSeq(lines), NEW n \in Nat, n + 1 \in 1..Len(lines)
  PROVE  /\ IsSeq(SubSeq(lines, 1, n))
         /\ \A l \in ToSet(SubSeq(lines, 1, n)) : \E i \in 1..n : l = lines[i]
         /\ SubSeq(lines, 1, n + 1) = SubSeq(lines, 1, n) \o <<lines[n + 1]>>
<1> DEFINE S == ToSet(lines)
<1>1. lines \in Seq(S) /\ Len(lines) \in Nat
  BY LenProperties DEF IsSeq
<1> HIDE DEF S
<1>2. \A i \in 1..Len(lines) : lines[i] \in S
  BY <1>1, ElementOfSeq
<1> DEFINE before == SubSeq(lines, 1, n)
<1>3. before \in Seq(S) /\ Len(before) = n /\ \A i \in 1..n : before[i] = lines[i]
  BY <1>1, <1>2, SubSeqProperties
<1>4. SubSeq(lines, 1, n + 1) = SubSeq(lines, 1, (n + 1) - 1) \o <<lines[n + 1]>>
  <2>1. 1 \in 1..Len(lines) /\ n + 1 \in 1..Len(lines)
    OBVIOUS
  <2>2. QED
    BY <1>1, <2>1, SubSeqRecursiveSecond
<1>5. (n + 1) - 1 = n
  OBVIOUS
<1> HIDE DEF before
<1>6. IsSeq(before)
  BY <1>3, SeqIsSeq
<1>7. \A l \in ToSet(before) : \E i \in 1..n : l = lines[i]
  <2>1. DOMAIN before = 1..n
    BY <1>3, LenProperties
  <2>2. QED
    BY <1>3, <2>1 DEF ToSet
<1>8. QED
  BY <1>4, <1>5, <1>6, <1>7 DEF before

(* The events carry what the lines that were read say. *)
Kept ==
  /\ phase # "streaming" => produced = <<>>
  /\ ~Stream!Reverses \/ Kind(upstream) # "gemini" =>
       Carries(produced, Stream!PiecesSaid(SubSeq(script, 1, at)))

LEMMA KeptAtStart ==
  ASSUME at = 0, produced = <<>>
  PROVE  Kept
<1>1. SubSeq(script, 1, at) = <<>>
  BY SubSeqEmpty
<1>2. QED
  BY <1>1, SaidNothing, CarriesNone DEF Kept

LEMMA KeptStartsAgain == (at = 0 /\ produced = <<>> => Kept)'
<1>1. at = 0 /\ produced = <<>> => Kept
  BY KeptAtStart
<1>2. QED
  BY <1>1, PTL

LEMMA KeptFrame ==
  ASSUME Kept, UNCHANGED <<phase, upstream, client, script, at, produced>>
  PROVE  Kept'
<1>1. Kind(upstream') = Kind(upstream) /\ Stream!Reverses' = Stream!Reverses
  BY DEF Kind, Stream!Reverses
<1>2. Carries(produced, Stream!PiecesSaid(SubSeq(script, 1, at)))'
        <=> Carries(produced, Stream!PiecesSaid(SubSeq(script, 1, at)))
  BY DEF Carries, Stream!PiecesSaid
<1>3. QED
  BY <1>1, <1>2 DEF Kept

LEMMA KeptScan ==
  ASSUME Typed, Kept, phase = "streaming", UNCHANGED vars, Stream!ScanLine
  PROVE  Kept'
<1> DEFINE line   == script[at + 1]
           events == Stream!Forward(line)
           before == SubSeq(script, 1, at)
           more   == SubSeq(script, 1, at + 1)
<1>1. Stream!TypeOK /\ upstream \in Upstreams /\ script \in Scripts[Kind(upstream)]
  BY DEF Typed, TypesOK, Underlying
<1>2. /\ IsSeq(script) /\ at \in Nat /\ at + 1 \in 1..Len(script) /\ Len(script) \in Nat
      /\ \A i \in 1..Len(script) : Stream!LineOf(Kind(upstream), script[i])
  <2>1. /\ Len(script) \in Nat /\ IsSeq(script)
        /\ \A i \in 1..Len(script) : Stream!LineOf(Kind(upstream), script[i])
    BY <1>1, ScriptTyped
  <2>2. QED
    BY <1>1, <2>1 DEF Stream!TypeOK, Stream!ScanLine
<1>3. /\ at' = at + 1
      /\ produced' = produced \o events
      /\ UNCHANGED <<phase, upstream, client, script>>
  BY DEF Stream!ScanLine, Stream!fixed, vars, turnVars
<1>4. Kind(upstream') = Kind(upstream) /\ Stream!Reverses' = Stream!Reverses
  BY <1>3 DEF Kind, Stream!Reverses
<1>5. ASSUME ~Stream!Reverses \/ Kind(upstream) # "gemini"
      PROVE  Carries(produced \o events, Stream!PiecesSaid(more))
  <2>1. Carries(produced, Stream!PiecesSaid(before))
    BY <1>5 DEF Kept
  <2>2. \A i \in 1..Len(script) : Carries(Stream!Forward(script[i]), LinePieces(script[i]))
    BY <1>2, <1>5, ForwardCarries
  <2>3. Carries(events, LinePieces(line)) /\ IsSeq(LinePieces(line))
    BY <1>2, <2>2, CarriesSeq
  <2>4. /\ IsSeq(before) /\ more = before \o <<line>>
        /\ \A l \in ToSet(before) : \E i \in 1..at : l = script[i]
    BY <1>2, OneMoreLine
  <2>5. \A l \in ToSet(before) : IsSeq(LinePieces(l))
    <3>1. \A i \in 1..at : i \in 1..Len(script)
      BY <1>2
    <3>2. \A i \in 1..Len(script) : IsSeq(LinePieces(script[i]))
      BY <2>2, CarriesSeq
    <3> HIDE DEF before
    <3>3. QED
      BY <2>4, <3>1, <3>2
  <2> HIDE DEF before, more, line, events
  <2>6. Stream!PiecesSaid(before \o <<line>>) = Stream!PiecesSaid(before) \o LinePieces(line)
    BY <2>3, <2>4, <2>5, SaidMore
  <2>7. Carries(produced \o events, Stream!PiecesSaid(before) \o LinePieces(line))
    BY <2>1, <2>3, CarriesConcat
  <2>8. QED
    BY <2>4, <2>6, <2>7
<1>6. Carries(produced, Stream!PiecesSaid(SubSeq(script, 1, at)))'
        <=> Carries(produced \o events, Stream!PiecesSaid(more))
  <2>1. SubSeq(script, 1, at)' = more
    BY <1>3
  <2> HIDE DEF events, more
  <2>2. QED
    BY <1>3, <2>1 DEF Carries, Stream!PiecesSaid
<1> HIDE DEF events, more
<1>7. QED
  BY <1>3, <1>4, <1>5, <1>6 DEF Kept

LEMMA KeptStep ==
  ASSUME Typed, Typed', Kept, [ExchangeNext]_all
  PROVE  Kept'
<1>1. CASE UNCHANGED <<phase, upstream, client, script, at, produced>>
  BY <1>1, KeptFrame
<1>2. CASE Next /\ UNCHANGED <<script, at, input, roleSent, reverse, pc, outbox, outcome, channel,
                              ended, reader, current, copied, tracked, produced, delivered>>
  <2>1. phase # "streaming" /\ phase' # "streaming"
    BY <1>2, TurnsAreNoStreams
  <2>2. at' = 0 /\ produced' = <<>>
    BY <1>2, <2>1 DEF Kept, Typed, Underlying
  <2>3. (at = 0 /\ produced = <<>> => Kept)'
    BY KeptStartsAgain
  <2>4. QED
    BY <2>2, <2>3
<1>3. CASE BeginStream
  <2>1. at' = 0 /\ produced' = <<>>
    BY <1>3 DEF BeginStream, Kept, Typed, Underlying
  <2>2. (at = 0 /\ produced = <<>> => Kept)'
    BY KeptStartsAgain
  <2>3. QED
    BY <2>1, <2>2
<1>4. CASE phase = "streaming" /\ UNCHANGED vars /\ Stream!Next
  <2>1. CASE Stream!ScanLine
    BY <1>4, <2>1, KeptScan
  <2>2. CASE Stream!EndScan
    <3> DEFINE e == Stream!Done
               carried == Stream!PiecesSaid(SubSeq(script, 1, at))
    <3>1. Stream!PiecesIn(e) = <<>>
      BY DEF Stream!Done, Stream!PiecesIn
    <3> HIDE DEF e
    <3>2. IsSeq(produced) /\ produced' = Append(produced, e)
      BY <2>2 DEF Stream!EndScan, Typed, Flow, Sequences, e
    <3>3. produced' = produced \o <<e>>
      BY <3>2, AppendedByConcat
    <3>4. UNCHANGED <<phase, upstream, client, script, at>>
      BY <1>4, <2>2 DEF Stream!EndScan, Stream!fixed, vars, turnVars
    <3>5. Kind(upstream') = Kind(upstream) /\ Stream!Reverses' = Stream!Reverses
      BY <3>4 DEF Kind, Stream!Reverses
    <3>6. ASSUME Carries(produced, carried)
          PROVE  Carries(produced \o <<e>>, carried)
      <4> HIDE DEF carried
      <4>1. Carries(<<e>>, <<>>) /\ IsSeq(carried)
        BY <3>1, <3>6, CarriesNothing, CarriesSeq
      <4>2. Carries(produced \o <<e>>, carried \o <<>>)
        BY <3>6, <4>1, CarriesConcat
      <4>3. carried \o <<>> = carried
        BY <4>1, Concat, EmptyIsSeq
      <4>4. QED
        BY <4>2, <4>3
    <3>7. Carries(produced, carried)' <=> Carries(produced \o <<e>>, carried)
      BY <3>3, <3>4 DEF Carries, Stream!PiecesSaid
    <3>8. QED
      BY <1>4, <3>4, <3>5, <3>6, <3>7 DEF Kept
  <2>3. CASE Stream!BreakScan \/ Stream!CheckClosed \/ Stream!Push \/ Stream!Abandon
               \/ Stream!EndEvents
    BY <1>1, <1>4, <2>3 DEF Stream!BreakScan, Stream!CheckClosed, Stream!Push, Stream!Abandon,
       Stream!EndEvents, Stream!fixed, vars, turnVars
  <2>4. CASE Stream!Read \/ Stream!ReadEOF \/ Stream!Write \/ Stream!Close
    BY <1>1, <1>4, <2>4 DEF Stream!Read, Stream!ReadEOF, Stream!Write, Stream!Close,
       Stream!fixed, vars, turnVars
  <2>5. CASE Stream!Over
    BY <1>1, <1>4, <2>5 DEF Stream!Over, Stream!vars, Stream!fixed, vars, turnVars
  <2>6. QED
    BY <1>4, <2>1, <2>2, <2>3, <2>4, <2>5 DEF Stream!Next
<1>5. CASE UNCHANGED all
  BY <1>1, <1>5 DEF all, vars, turnVars, streamVars, Stream!vars, Stream!fixed
<1>6. QED
  BY <1>2, <1>3, <1>4, <1>5 DEF ExchangeNext

(* Neither conversion loses, repeats or reorders a piece of a text or of   *)
(* the arguments of a call, wherever the second stage is given one chunk   *)
(* at a time: for any streams of an upstream, and for clients of any       *)
(* format (streaming.go:90-107).                                           *)
THEOREM ExchangePiecesKept == ExchangeSpec => []PiecesKept
<1>1. ExchangeInit => Typed /\ Kept
  <2>1. ASSUME ExchangeInit PROVE Kept
    BY <2>1, KeptAtStart DEF ExchangeInit
  <2>2. QED
    BY <2>1, TypedInit
<1>2. Typed /\ Kept /\ [ExchangeNext]_all => (Typed /\ Kept)'
  BY TypedStep, KeptStep
<1>3. Kept => PiecesKept
  BY DEF Kept, Carries, PiecesKept, Stream!PiecesKept, Stream!Said
<1>4. QED
  BY <1>1, <1>2, <1>3, PTL DEF ExchangeSpec

----------------------------------------------------------------------------
(* The usage that is tracked over events. *)

(* One event after another, tracking leads from one usage to another.      *)
Leads(t, events, u) ==
  /\ IsSeq(events)
  /\ t \in Nat \X Nat
  /\ \E h : /\ h[0] = t /\ h[Len(events)] = u
            /\ \A k \in 1..Len(events) : h[k] = Stream!Track(h[k - 1], events[k])

LEMMA LeadsTo ==
  ASSUME NEW t, NEW events, NEW u, Leads(t, events, u), \A e \in ToSet(events) : EventOK(e)
  PROVE  Tracked(t, events) = u
<1>1. IsSeq(events) /\ t \in Nat \X Nat /\ Len(events) \in Nat
  BY LenProperties DEF Leads, IsSeq
<1>2. PICK g : TrackedAlong(t, events, g)
  BY <1>1, TrackFold
<1>3. PICK h : /\ h[0] = t /\ h[Len(events)] = u
               /\ \A k \in 1..Len(events) : h[k] = Stream!Track(h[k - 1], events[k])
  BY DEF Leads
<1> DEFINE n == Len(events)
<1>4. g[0] = h[0] /\ g[n] = Tracked(t, events)
  BY <1>2, <1>3 DEF TrackedAlong
<1>5. \A k \in 1..n : g[k] = Stream!Track(g[k - 1], events[k])
  BY <1>2 DEF TrackedAlong
<1>6. \A k \in 1..n : g[k - 1] = h[k - 1] => g[k] = h[k]
  BY <1>3, <1>5
<1> HIDE DEF n
<1>7. n \in Nat
  BY <1>1 DEF n
<1>8. \A k \in 0..n : g[k] = h[k]
  BY <1>4, <1>6, <1>7, SameAlong
<1>9. QED
  BY <1>3, <1>4, <1>7, <1>8 DEF n

LEMMA LeadsNowhere ==
  ASSUME NEW t \in Nat \X Nat
  PROVE  Leads(t, <<>>, t)
<1> DEFINE h == [k \in {0} |-> t]
<1>1. h[0] = t
  OBVIOUS
<1> HIDE DEF h
<1>2. IsSeq(<<>>) /\ Len(<<>>) = 0
  BY EmptyIsSeq
<1>3. QED
  BY <1>1, <1>2 DEF Leads

LEMMA LeadsOne ==
  ASSUME NEW t \in Nat \X Nat, NEW e
  PROVE  Leads(t, <<e>>, Stream!Track(t, e))
<1> DEFINE one == <<e>>
           u == Stream!Track(t, e)
           h == [k \in 0..1 |-> IF k = 0 THEN t ELSE u]
<1>1. h[0] = t /\ h[1] = u /\ Len(one) = 1 /\ one[1] = e
  OBVIOUS
<1>2. IsSeq(one)
  BY SingleIsSeq
<1>3. \A k \in 1..1 : h[k] = Stream!Track(h[k - 1], one[k])
  BY <1>1
<1> HIDE DEF one, h, u
<1>4. Leads(t, one, u)
  BY <1>1, <1>2, <1>3 DEF Leads
<1>5. QED
  BY <1>4 DEF one, u

LEMMA LeadsOn ==
  ASSUME NEW t, NEW p, NEW u, Leads(t, p, u), NEW q, NEW v, Leads(u, q, v)
  PROVE  Leads(t, p \o q, v)
<1> DEFINE n == Len(p)
           m == Len(q)
           pq == p \o q
<1>1. PICK f : /\ f[0] = t /\ f[n] = u
               /\ \A k \in 1..n : f[k] = Stream!Track(f[k - 1], p[k])
  BY DEF Leads
<1>2. PICK g : /\ g[0] = u /\ g[m] = v
               /\ \A k \in 1..m : g[k] = Stream!Track(g[k - 1], q[k])
  BY DEF Leads
<1>3. /\ n \in Nat /\ m \in Nat /\ Len(pq) = n + m
      /\ \A i \in 1..n : pq[i] = p[i]
      /\ \A i \in 1..m : pq[n + i] = q[i]
  BY ConcatIs DEF Leads
<1>4. IsSeq(pq) /\ t \in Nat \X Nat
  BY Concat DEF Leads
<1> DEFINE h == [k \in 0..n + m |-> IF k <= n THEN f[k] ELSE g[k - n]]
<1> HIDE DEF n, m, pq
<1>5. h[0] = t
  BY <1>1, <1>3
<1>6. h[n + m] = v
  <2>1. CASE m = 0
    BY <1>1, <1>2, <1>3, <2>1
  <2>2. CASE m # 0
    <3>1. ~(n + m <= n) /\ (n + m) - n = m /\ n + m \in 0..n + m
      BY <1>3, <2>2
    <3>2. QED
      BY <1>2, <3>1
  <2>3. QED
    BY <2>1, <2>2
<1>7. ASSUME NEW k \in 1..n + m
      PROVE  h[k] = Stream!Track(h[k - 1], pq[k])
  <2>1. CASE k <= n
    <3>1. k \in 1..n /\ k - 1 <= n /\ k \in 0..n + m /\ k - 1 \in 0..n + m
      BY <1>3, <2>1
    <3>2. h[k] = f[k] /\ h[k - 1] = f[k - 1]
      BY <2>1, <3>1
    <3>3. f[k] = Stream!Track(f[k - 1], p[k]) /\ pq[k] = p[k]
      BY <1>1, <1>3, <3>1
    <3>4. QED
      BY <3>2, <3>3
  <2>2. CASE ~(k <= n)
    <3> DEFINE i == k - n
    <3>1. i \in 1..m /\ n + i = k /\ k \in 0..n + m /\ k - 1 \in 0..n + m
      BY <1>3, <2>2
    <3>2. h[k] = g[i]
      BY <2>2, <3>1
    <3>3. h[k - 1] = g[i - 1]
      <4>1. CASE k - 1 <= n
        <5>1. k - 1 = n /\ i - 1 = 0
          BY <1>3, <2>2, <4>1
        <5>2. QED
          BY <1>1, <1>2, <3>1, <4>1, <5>1
      <4>2. CASE ~(k - 1 <= n)
        <5>1. (k - 1) - n = i - 1
          BY <1>3
        <5>2. QED
          BY <3>1, <4>2, <5>1
      <4>3. QED
        BY <4>1, <4>2
    <3>4. g[i] = Stream!Track(g[i - 1], q[i]) /\ pq[k] = q[i]
      BY <1>2, <1>3, <3>1
    <3>5. QED
      BY <3>2, <3>3, <3>4
  <2>3. QED
    BY <2>1, <2>2
<1> HIDE DEF h
<1>8. Leads(t, pq, v)
  BY <1>3, <1>4, <1>5, <1>6, <1>7 DEF Leads
<1>9. QED
  BY <1>8 DEF pq

(* Events without usage are not tracked. *)
LEMMA LeadsPast ==
  ASSUME NEW t \in Nat \X Nat, NEW e,
         e.format \in {"openai", "gemini"} => e.usage = <<>>
  PROVE  Leads(t, <<e>>, t)
<1>1. Stream!Track(t, e) = t
  BY DEF Stream!Track, Stream!UsageOf
<1>2. QED
  BY <1>1, LeadsOne

(* What was reported last, after one more line. *)
WithLine(line, u) == IF Stream!Reports(line) THEN Stream!Reported(line) ELSE u

LEMMA AnthropicLeads ==
  ASSUME NEW t \in Nat \X Nat, NEW line, Stream!AnthropicLine(line),
         Kind(upstream) = "anthropic", input \in Nat
  PROVE  Leads(t, Stream!FromAnthropic(input, line), WithLine(line, t))
<1>1. CASE line.type = "message_delta"
  <2> DEFINE chunk == [Stream!Plain EXCEPT !.finish = Stream!FinishOfAnthropic(line.reason),
                                           !.usage = <<input, line.tokens>>]
  <2>1. chunk.format = "openai" /\ chunk.usage = <<input, line.tokens>>
    BY DEF Stream!Plain
  <2>2. Stream!FromAnthropic(input, line) = <<chunk>>
    BY <1>1 DEF Stream!FromAnthropic
  <2> HIDE DEF chunk
  <2>3. line.tokens \in Nat
    BY <1>1 DEF Stream!AnthropicLine
  <2>4. Stream!UsageOf(Kind(upstream), chunk)
          = IF input = 0 THEN <<0, 0>> ELSE <<input, line.tokens>>
    BY <2>1 DEF Stream!UsageOf
  <2>5. Stream!Track(t, chunk) = WithLine(line, t)
    <3>1. CASE input = 0
      BY <1>1, <2>4, <3>1 DEF Stream!Track, WithLine, Stream!Reports
    <3>2. CASE input # 0
      <4>1. Stream!Reports(line) /\ Stream!Reported(line) = <<input, line.tokens>>
        BY <1>1, <3>2 DEF Stream!Reports, Stream!Reported
      <4>2. <<input, line.tokens>> # <<0, 0>>
        BY <3>2
      <4>3. Stream!Track(t, chunk) = <<input, line.tokens>>
        BY <2>4, <3>2, <4>2 DEF Stream!Track
      <4>4. QED
        BY <4>1, <4>3 DEF WithLine
    <3>3. QED
      BY <3>1, <3>2
  <2>6. QED
    BY <2>2, <2>5, LeadsOne
<1>2. CASE line.type # "message_delta"
  <2>1. WithLine(line, t) = t
    BY <1>2 DEF WithLine, Stream!Reports
  <2>2. \/ Stream!FromAnthropic(input, line) = <<>>
        \/ \E chunk : /\ Stream!FromAnthropic(input, line) = <<chunk>>
                      /\ chunk.usage = <<>>
    <3>1. /\ Stream!Plain.usage = <<>>
          /\ \A part : [Stream!Plain EXCEPT !.tools = <<part>>].usage = <<>>
          /\ \A text : [Stream!Plain EXCEPT !.text = text].usage = <<>>
      BY DEF Stream!Plain
    <3>2. QED
      BY <1>2, <3>1 DEF Stream!FromAnthropic
  <2>3. QED
    BY <2>1, <2>2, LeadsNowhere, LeadsPast
<1>3. QED
  BY <1>1, <1>2

LEMMA GeminiLeads ==
  ASSUME NEW t \in Nat \X Nat, NEW line, Stream!GeminiLine(line), Kind(upstream) = "gemini"
  PROVE  Leads(t, Stream!FromGemini(roleSent, line), WithLine(line, t))
<1>1. line.type = "chunk" /\ line.usage \in Stream!Usages
  BY DEF Stream!GeminiLine, Stream!Says
<1>2. Stream!Reported(line) = line.usage
  BY DEF Stream!Reported
<1>3. ASSUME NEW chunk, chunk.format = "openai", chunk.usage = line.usage
      PROVE  Stream!Track(t, chunk)
               = IF line.usage \notin {<<>>} \cup {0} \X Nat THEN line.usage ELSE t
  <2>1. CASE line.usage = <<>>
    BY <1>3, <2>1 DEF Stream!Track, Stream!UsageOf
  <2>2. CASE line.usage # <<>>
    <3>1. PICK a, b \in Nat : line.usage = <<a, b>>
      BY <1>1, <2>2 DEF Stream!Usages
    <3>2. Stream!UsageOf(Kind(upstream), chunk) = IF a = 0 THEN <<0, 0>> ELSE <<a, b>>
      BY <1>3, <2>2, <3>1 DEF Stream!UsageOf
    <3>3. line.usage \in {0} \X Nat <=> a = 0
      BY <3>1
    <3>4. a # 0 => <<a, b>> # <<0, 0>>
      OBVIOUS
    <3>5. CASE a = 0
      BY <2>2, <3>2, <3>3, <3>5 DEF Stream!Track
    <3>6. CASE a # 0
      BY <2>2, <3>1, <3>2, <3>3, <3>4, <3>6 DEF Stream!Track
    <3>7. QED
      BY <3>5, <3>6
  <2>3. QED
    BY <2>1, <2>2
<1>4. CASE ~line.candidates
  <2> DEFINE chunk == [Stream!Plain EXCEPT !.usage = line.usage]
  <2>1. chunk.format = "openai" /\ chunk.usage = line.usage
    BY DEF Stream!Plain
  <2>2. Stream!FromGemini(roleSent, line) = IF line.usage # <<>> THEN <<chunk>> ELSE <<>>
    BY <1>4, FromGeminiIs DEF GeminiUses
  <2> HIDE DEF chunk
  <2>3. Stream!Track(t, chunk) = WithLine(line, t)
    BY <1>1, <1>2, <1>3, <1>4, <2>1 DEF WithLine, Stream!Reports
  <2>4. CASE line.usage = <<>>
    <3>1. WithLine(line, t) = t
      BY <1>1, <2>4 DEF WithLine, Stream!Reports
    <3>2. QED
      BY <2>2, <2>4, <3>1, LeadsNowhere
  <2>5. CASE line.usage # <<>>
    BY <2>2, <2>3, <2>5, LeadsOne
  <2>6. QED
    BY <2>4, <2>5
<1>5. CASE line.candidates
  <2>1. Leads(t, GeminiRole, t)
    <3>1. Stream!Plain.usage = <<>>
      BY DEF Stream!Plain
    <3>2. QED
      BY <3>1, LeadsNowhere, LeadsPast DEF GeminiRole
  <2>2. Leads(t, <<GeminiSays(line)>>, t)
    <3>1. GeminiSays(line).usage = <<>>
      BY DEF GeminiSays, Stream!Plain
    <3>2. QED
      BY <3>1, LeadsPast
  <2>3. Leads(t, GeminiEnds(line), WithLine(line, t))
    <3> DEFINE chunk == [Stream!Plain EXCEPT !.finish = GeminiFinish(line), !.usage = line.usage]
    <3>1. chunk.format = "openai" /\ chunk.usage = line.usage
      BY DEF Stream!Plain
    <3>2. GeminiEnds(line) = IF GeminiFinish(line) = "" \/ line.usage = <<>> THEN <<>> ELSE <<chunk>>
      BY DEF GeminiEnds
    <3> HIDE DEF chunk
    <3>3. GeminiFinish(line) = "" <=> ~(line.calls # <<>> \/ line.reason # "")
      BY DEF GeminiFinish, Stream!FinishOfGemini
    <3>4. CASE GeminiFinish(line) = "" \/ line.usage = <<>>
      <4>1. WithLine(line, t) = t
        BY <1>1, <1>5, <3>3, <3>4 DEF WithLine, Stream!Reports
      <4>2. QED
        BY <3>2, <3>4, <4>1, LeadsNowhere
    <3>5. CASE ~(GeminiFinish(line) = "" \/ line.usage = <<>>)
      <4>1. Stream!Reports(line) <=> line.usage \notin {<<>>} \cup {0} \X Nat
        BY <1>1, <1>5, <3>3, <3>5 DEF Stream!Reports
      <4>2. Stream!Track(t, chunk) = WithLine(line, t)
        BY <1>2, <1>3, <3>1, <4>1 DEF WithLine
      <4>3. QED
        BY <3>2, <3>5, <4>2, LeadsOne
    <3>6. QED
      BY <3>4, <3>5
  <2>4. Leads(t, GeminiRole \o <<GeminiSays(line)>>, t)
    BY <2>1, <2>2, LeadsOn
  <2>5. Leads(t, (GeminiRole \o <<GeminiSays(line)>>) \o GeminiEnds(line), WithLine(line, t))
    BY <2>3, <2>4, LeadsOn
  <2>6. QED
    BY <1>5, <2>5, FromGeminiIs
<1>6. QED
  BY <1>4, <1>5

(* A line that is converted once reports what its chunks report. *)
LEMMA ForwardLeads ==
  ASSUME NEW t \in Nat \X Nat, NEW line, Stream!LineOf(Kind(upstream), line),
         ~Stream!Reverses, input \in Nat
  PROVE  Leads(t, Stream!Forward(line), WithLine(line, t))
<1>1. CASE line.format = "blank"
  <2>1. line.type \notin {"message_delta", "chunk"}
    BY <1>1 DEF Stream!LineOf, Stream!OpenAILine, Stream!AnthropicLine, Stream!GeminiLine
  <2>2. WithLine(line, t) = t
    BY <2>1 DEF WithLine, Stream!Reports
  <2>3. Stream!Forward(line) = <<line>>
    BY <1>1 DEF Stream!Forward
  <2>4. QED
    BY <1>1, <2>2, <2>3, LeadsPast
<1>2. CASE line.format # "blank"
  <2>1. Stream!Forward(line) = Stream!ToOpenAI(line)
    BY <1>2 DEF Stream!Forward
  <2>2. CASE Kind(upstream) = "anthropic"
    <3>1. Stream!AnthropicLine(line)
      BY <1>2, <2>2 DEF Stream!LineOf
    <3>2. Stream!ToOpenAI(line) = Stream!FromAnthropic(input, line)
      BY <2>2 DEF Stream!ToOpenAI
    <3>3. QED
      BY <2>1, <2>2, <3>1, <3>2, AnthropicLeads
  <2>3. CASE Kind(upstream) = "gemini"
    <3>1. Stream!GeminiLine(line)
      BY <1>2, <2>3 DEF Stream!LineOf
    <3>2. Stream!ToOpenAI(line) = Stream!FromGemini(roleSent, line)
      BY <2>3, <3>1 DEF Stream!ToOpenAI, Stream!GeminiLine
    <3>3. QED
      BY <2>1, <2>3, <3>1, <3>2, GeminiLeads
  <2>4. CASE Kind(upstream) = "openai"
    <3>1. line.format = "openai" /\ line.type = "chunk" /\ line.usage \in Stream!Usages
      BY <1>2, <2>4 DEF Stream!LineOf, Stream!OpenAILine, Stream!Says
    <3>2. Stream!ToOpenAI(line) = <<line>>
      BY <2>4 DEF Stream!ToOpenAI
    <3>3. Stream!UsageOf(Kind(upstream), line) = IF line.usage = <<>> THEN <<0, 0>> ELSE line.usage
      BY <2>4, <3>1 DEF Stream!UsageOf
    <3>4. Stream!Track(t, line) = WithLine(line, t)
      BY <2>4, <3>1, <3>3 DEF Stream!Track, WithLine, Stream!Reports, Stream!Reported
    <3>5. QED
      BY <2>1, <3>2, <3>4, LeadsOne
  <2>5. QED
    BY <1>2, <2>2, <2>3, <2>4 DEF Stream!LineOf
<1>3. QED
  BY <1>1, <1>2

(* What the first lines of a stream reported last. *)
Reporting(n) == {i \in 1..n : Stream!Reports(script[i])}

UsageAt(n) ==
  IF Reporting(n) = {} THEN <<0, 0>> ELSE Stream!Reported(script[Max(Reporting(n))])

LEMMA UsageAtStart == UsageAt(0) = <<0, 0>>
<1>1. Reporting(0) = {}
  BY DEF Reporting
<1>2. QED
  BY <1>1 DEF UsageAt

LEMMA UsageSaidIs == Stream!UsageSaid(script) = UsageAt(Len(script))
BY GreatestOfStream DEF Stream!UsageSaid, UsageAt, Reporting

LEMMA UsageAtNext ==
  ASSUME NEW n \in Nat
  PROVE  UsageAt(n + 1) = WithLine(script[n + 1], UsageAt(n))
<1>1. CASE Stream!Reports(script[n + 1])
  <2>1. Reporting(n + 1) \in SUBSET (1..n + 1) /\ n + 1 \in Reporting(n + 1)
    BY <1>1 DEF Reporting
  <2>2. \A i \in Reporting(n + 1) : i <= n + 1
    BY DEF Reporting
  <2>3. Max(Reporting(n + 1)) = n + 1
    BY <2>1, <2>2, GreatestIs
  <2>4. QED
    BY <1>1, <2>1, <2>3 DEF UsageAt, WithLine
<1>2. CASE ~Stream!Reports(script[n + 1])
  <2>1. \A i \in 1..n + 1 : i \in 1..n \/ i = n + 1
    OBVIOUS
  <2>2. Reporting(n + 1) = Reporting(n)
    BY <1>2, <2>1 DEF Reporting
  <2>3. QED
    BY <1>2, <2>2 DEF UsageAt, WithLine
<1>3. QED
  BY <1>1, <1>2

(* What was reported stays as it was when another line is read: after a    *)
(* report of an Anthropic upstream, nothing tells the prompt's tokens.     *)
LEMMA UsageAtStays ==
  ASSUME Typed, phase = "streaming", UNCHANGED vars, Stream!ScanLine,
         NEW n \in {at, at + 1}
  PROVE  UsageAt(n)' = UsageAt(n)
<1> DEFINE line == script[at + 1]
<1>1. /\ upstream \in Upstreams /\ script \in Scripts[Kind(upstream)]
      /\ at \in Nat /\ at + 1 \in 1..Len(script) /\ Len(script) \in Nat
  <2>1. upstream \in Upstreams /\ script \in Scripts[Kind(upstream)] /\ Stream!TypeOK
    BY DEF Typed, TypesOK, Underlying
  <2>2. Len(script) \in Nat
    BY <2>1, ScriptTyped
  <2>3. QED
    BY <2>1, <2>2 DEF Stream!TypeOK, Stream!ScanLine
<1>2. UNCHANGED <<upstream, script>> /\ Kind(upstream') = Kind(upstream)
  BY DEF Stream!ScanLine, Stream!fixed, vars, turnVars, Kind
<1>3. n \in Nat /\ n <= at + 1
  BY <1>1
<1>4. CASE input' = input
  <2>1. \A l : Stream!Reports(l)' <=> Stream!Reports(l)
    BY <1>2, <1>4 DEF Stream!Reports
  <2>2. \A l : Stream!Reported(l)' = Stream!Reported(l)
    BY <1>2, <1>4 DEF Stream!Reported
  <2>3. QED
    BY <1>2, <1>4 DEF UsageAt, Reporting, Stream!Reports, Stream!Reported
<1>5. CASE input' # input
  <2>1. Kind(upstream) = "anthropic" /\ line.type = "message_start"
    BY <1>5 DEF Stream!ScanLine
  <2>2. \A i \in 1..at + 1 : script[i].type # "message_delta"
    <3>1. Stream!ScriptOf(Kind(upstream), script)
      BY <1>1, ScriptsAssumption
    <3>2. ASSUME NEW i \in 1..at, script[i].type = "message_delta" PROVE FALSE
      <4>1. i \in 1..Len(script) /\ at + 1 \in 1..Len(script) /\ i < at + 1
        BY <1>1
      <4>2. script[at + 1].type # "message_start"
        BY <3>1, <3>2, <4>1 DEF Stream!ScriptOf
      <4>3. QED
        BY <2>1, <4>2
    <3>3. \A i \in 1..at + 1 : i \in 1..at \/ i = at + 1
      BY <1>1
    <3>4. QED
      BY <2>1, <3>2, <3>3
  <2>3. \A i \in 1..n : i \in 1..at + 1
    BY <1>1, <1>3
  <2>4. Reporting(n) = {}
    BY <2>1, <2>2, <2>3 DEF Reporting, Stream!Reports
  <2>5. Reporting(n)' = {}
    BY <1>2, <2>1, <2>2, <2>3 DEF Reporting, Stream!Reports
  <2>6. QED
    BY <2>4, <2>5 DEF UsageAt
<1>6. QED
  BY <1>4, <1>5

(* Until the producer gives up, it has tracked what was reported, or it    *)
(* will have when it has sent its events.                                  *)
Settling ==
  /\ phase # "streaming" => tracked = <<0, 0>> /\ pc = "scan" /\ outcome = "running"
  /\ pc = "scan" => outcome = "running"
  /\ ~Stream!Reverses =>
       /\ outcome = "running" /\ pc = "scan" => tracked = UsageAt(at)
       /\ outcome = "running" /\ pc \in {"checking", "sending"} =>
            Leads(tracked, outbox, UsageAt(at))
       /\ outcome = "ok" =>
            /\ tracked = UsageAt(Len(script))
            /\ pc \in {"checking", "sending"} => outbox = <<Stream!Done>>

LEMMA SettlingAtStart ==
  at = 0 /\ tracked = <<0, 0>> /\ pc = "scan" /\ outcome = "running" => Settling
BY UsageAtStart DEF Settling

LEMMA SettlingStartsAgain ==
  (at = 0 /\ tracked = <<0, 0>> /\ pc = "scan" /\ outcome = "running" => Settling)'
<1>1. at = 0 /\ tracked = <<0, 0>> /\ pc = "scan" /\ outcome = "running" => Settling
  BY SettlingAtStart
<1>2. QED
  BY <1>1, PTL

LEMMA SettlingFrame ==
  ASSUME Settling,
         UNCHANGED <<phase, upstream, client, script, at, input, pc, outbox, outcome, tracked>>
  PROVE  Settling'
<1>1. Kind(upstream') = Kind(upstream) /\ Stream!Reverses' = Stream!Reverses
  BY DEF Kind, Stream!Reverses
<1>2. UsageAt(at)' = UsageAt(at) /\ UsageAt(Len(script))' = UsageAt(Len(script))
  BY <1>1 DEF UsageAt, Reporting, Stream!Reports, Stream!Reported
<1>3. Leads(tracked, outbox, UsageAt(at))' <=> Leads(tracked, outbox, UsageAt(at))
  BY <1>1, <1>2 DEF Leads, Stream!Track, Stream!UsageOf
<1>4. Stream!Done' = Stream!Done
  BY DEF Stream!Done
<1>5. QED
  BY <1>1, <1>2, <1>3, <1>4 DEF Settling

LEMMA SettlingScan ==
  ASSUME Typed, Settling, phase = "streaming", UNCHANGED vars, Stream!ScanLine
  PROVE  Settling'
<1> DEFINE line   == script[at + 1]
           events == Stream!Forward(line)
           told   == UsageAt(at + 1)
<1>1. Stream!TypeOK /\ upstream \in Upstreams /\ script \in Scripts[Kind(upstream)]
  BY DEF Typed, TypesOK, Underlying
<1>2. /\ at \in Nat /\ at + 1 \in 1..Len(script) /\ input \in Nat /\ tracked \in Nat \X Nat
      /\ Stream!LineOf(Kind(upstream), line)
  <2>1. /\ Len(script) \in Nat
        /\ \A i \in 1..Len(script) : Stream!LineOf(Kind(upstream), script[i])
    BY <1>1, ScriptTyped
  <2>2. at \in Nat /\ at + 1 \in 1..Len(script)
    BY <1>1, <2>1 DEF Stream!TypeOK, Stream!ScanLine
  <2>3. QED
    BY <1>1, <2>1, <2>2 DEF Stream!TypeOK
<1>3. /\ at' = at + 1 /\ outbox' = events
      /\ pc = "scan" /\ pc' = IF events = <<>> THEN "scan" ELSE "checking"
      /\ UNCHANGED <<phase, upstream, client, script, outcome, tracked>>
  BY DEF Stream!ScanLine, Stream!fixed, vars, turnVars
<1>4. Kind(upstream') = Kind(upstream) /\ Stream!Reverses' = Stream!Reverses
  BY <1>3 DEF Kind, Stream!Reverses
<1>5. outcome = "running"
  BY <1>3 DEF Settling
<1>6. UsageAt(at)' = told
  <2>1. PICK n \in {at, at + 1} : n = at + 1
    OBVIOUS
  <2>2. UsageAt(n)' = UsageAt(n)
    BY UsageAtStays
  <2>3. at' = n
    BY <1>3, <2>1
  <2>4. UsageAt(at)' = UsageAt(n)'
    BY <2>3 DEF UsageAt, Reporting, Stream!Reports, Stream!Reported
  <2>5. QED
    BY <2>1, <2>2, <2>4
<1>7. ASSUME ~Stream!Reverses
      PROVE  Leads(tracked, events, told)
  <2>1. tracked = UsageAt(at)
    BY <1>3, <1>5, <1>7 DEF Settling
  <2>2. Leads(tracked, events, WithLine(line, tracked))
    BY <1>2, <1>7, ForwardLeads
  <2>3. told = WithLine(line, tracked)
    BY <1>2, <2>1, UsageAtNext
  <2>4. QED
    BY <2>2, <2>3
<1>8. Leads(tracked, outbox, UsageAt(at))' <=> Leads(tracked, events, told)
  <2> HIDE DEF events, told
  <2>1. QED
    BY <1>3, <1>4, <1>6 DEF Leads, Stream!Track, Stream!UsageOf
<1>9. ASSUME ~Stream!Reverses, events = <<>>
      PROVE  tracked = told
  <2>1. Leads(tracked, <<>>, told)
    BY <1>7, <1>9
  <2> HIDE DEF told
  <2>2. Len(<<>>) = 0
    BY EmptyIsSeq
  <2>3. QED
    BY <2>1, <2>2 DEF Leads
<1> HIDE DEF line, events, told
<1>10. QED
  BY <1>3, <1>4, <1>5, <1>6, <1>7, <1>8, <1>9 DEF Settling

LEMMA SettlingPush ==
  ASSUME Typed, Settling, phase = "streaming", UNCHANGED vars, Stream!Push
  PROVE  Settling'
<1>1. /\ pc = "sending" /\ tracked' = Tracked(tracked, outbox)
      /\ pc' = IF outcome = "running" THEN "scan" ELSE "ending"
      /\ UNCHANGED <<phase, upstream, client, script, at, input, outcome>>
  BY DEF Stream!Push, Stream!fixed, Stream!convVars, vars, turnVars, Tracked
<1>2. Kind(upstream') = Kind(upstream) /\ Stream!Reverses' = Stream!Reverses
  BY <1>1 DEF Kind, Stream!Reverses
<1>3. UsageAt(at)' = UsageAt(at) /\ UsageAt(Len(script))' = UsageAt(Len(script))
  BY <1>1, <1>2 DEF UsageAt, Reporting, Stream!Reports, Stream!Reported
<1>4. tracked \in Nat \X Nat /\ \A e \in ToSet(outbox) : EventOK(e)
  BY DEF Typed, TypesOK, Stream!TypeOK, Underlying
<1>5. ASSUME NEW u, Leads(tracked, outbox, u) PROVE tracked' = u
  BY <1>1, <1>4, <1>5, LeadsTo
<1>6. CASE outcome = "running"
  <2>1. ~Stream!Reverses => tracked' = UsageAt(at)
    BY <1>1, <1>5, <1>6 DEF Settling
  <2>2. QED
    BY <1>1, <1>2, <1>3, <1>6, <2>1 DEF Settling
<1>7. CASE outcome = "ok"
  <2>1. Leads(tracked, <<Stream!Done>>, tracked)
    <3>1. Stream!Done.format = "done"
      BY DEF Stream!Done
    <3>2. QED
      BY <1>4, <3>1, LeadsPast
  <2>2. ~Stream!Reverses => outbox = <<Stream!Done>> /\ tracked = UsageAt(Len(script))
    BY <1>1, <1>7 DEF Settling
  <2>3. ~Stream!Reverses => tracked' = UsageAt(Len(script))
    BY <1>5, <2>1, <2>2
  <2>4. QED
    BY <1>1, <1>2, <1>3, <1>7, <2>3 DEF Settling
<1>8. CASE outcome \notin {"running", "ok"}
  BY <1>1, <1>8 DEF Settling
<1>9. QED
  BY <1>6, <1>7, <1>8

LEMMA SettlingStep ==
  ASSUME Typed, Typed', Settling, [ExchangeNext]_all
  PROVE  Settling'
<1>1. CASE UNCHANGED <<phase, upstream, client, script, at, input, pc, outbox, outcome, tracked>>
  BY <1>1, SettlingFrame
<1>2. CASE Next /\ UNCHANGED <<script, at, input, roleSent, reverse, pc, outbox, outcome, channel,
                              ended, reader, current, copied, tracked, produced, delivered>>
  <2>1. phase # "streaming" /\ phase' # "streaming"
    BY <1>2, TurnsAreNoStreams
  <2>2. at' = 0 /\ tracked' = <<0, 0>> /\ pc' = "scan" /\ outcome' = "running"
    BY <1>2, <2>1 DEF Settling, Typed, Underlying
  <2>3. (at = 0 /\ tracked = <<0, 0>> /\ pc = "scan" /\ outcome = "running" => Settling)'
    BY SettlingStartsAgain
  <2>4. QED
    BY <2>2, <2>3
<1>3. CASE BeginStream
  <2>1. at' = 0 /\ tracked' = <<0, 0>> /\ pc' = "scan" /\ outcome' = "running"
    BY <1>3 DEF BeginStream, Settling, Typed, Underlying
  <2>2. (at = 0 /\ tracked = <<0, 0>> /\ pc = "scan" /\ outcome = "running" => Settling)'
    BY SettlingStartsAgain
  <2>3. QED
    BY <2>1, <2>2
<1>4. CASE phase = "streaming" /\ UNCHANGED vars /\ Stream!Next
  <2>1. CASE Stream!ScanLine
    BY <1>4, <2>1, SettlingScan
  <2>2. CASE Stream!Push
    BY <1>4, <2>2, SettlingPush
  <2>3. CASE Stream!EndScan \/ Stream!BreakScan \/ Stream!CheckClosed \/ Stream!Abandon
               \/ Stream!EndEvents
    <3>1. UNCHANGED <<phase, upstream, client, script, at, input, tracked>>
      BY <1>4, <2>3 DEF Stream!EndScan, Stream!BreakScan, Stream!CheckClosed, Stream!Abandon,
         Stream!EndEvents, Stream!fixed, Stream!convVars, vars, turnVars
    <3>2. Kind(upstream') = Kind(upstream) /\ Stream!Reverses' = Stream!Reverses
      BY <3>1 DEF Kind, Stream!Reverses
    <3>3. UsageAt(at)' = UsageAt(at) /\ UsageAt(Len(script))' = UsageAt(Len(script))
      BY <3>1, <3>2 DEF UsageAt, Reporting, Stream!Reports, Stream!Reported
    <3>4. CASE Stream!EndScan
      <4>1. pc = "scan" /\ at = Len(script) /\ outcome' = "ok" /\ outbox' = <<Stream!Done>>
            /\ pc' = "checking"
        BY <3>4 DEF Stream!EndScan
      <4>2. ~Stream!Reverses => tracked' = UsageAt(Len(script))
        BY <3>1, <4>1 DEF Settling
      <4>3. (outbox = <<Stream!Done>>)'
        BY <4>1 DEF Stream!Done
      <4>4. QED
        BY <1>4, <3>1, <3>2, <3>3, <4>1, <4>2, <4>3 DEF Settling
    <3>5. CASE Stream!BreakScan
      BY <1>4, <3>1, <3>5 DEF Settling, Stream!BreakScan
    <3>6. CASE Stream!CheckClosed \/ Stream!Abandon \/ Stream!EndEvents
      <4>1. outbox' = outbox /\ pc \in {"checking", "sending", "ending"}
            /\ pc' \in {"sending", "ending", "finished"}
            /\ (pc' = "sending" => pc = "checking" /\ outcome' = outcome)
            /\ (outcome' = outcome \/ outcome' = "error")
        <5>1. CASE Stream!CheckClosed
          BY <5>1 DEF Stream!CheckClosed, Stream!SendFailed
        <5>2. CASE Stream!Abandon
          BY <5>2 DEF Stream!Abandon, Stream!SendFailed
        <5>3. CASE Stream!EndEvents
          BY <5>3 DEF Stream!EndEvents
        <5>4. QED
          BY <3>6, <5>1, <5>2, <5>3
      <4>2. Leads(tracked, outbox, UsageAt(at))' <=> Leads(tracked, outbox, UsageAt(at))
        BY <3>1, <3>2, <3>3, <4>1 DEF Leads, Stream!Track, Stream!UsageOf
      <4>3. Stream!Done' = Stream!Done
        BY DEF Stream!Done
      <4>4. QED
        BY <1>4, <3>1, <3>2, <3>3, <4>1, <4>2, <4>3 DEF Settling
    <3>7. QED
      BY <2>3, <3>4, <3>5, <3>6
  <2>4. CASE Stream!Read \/ Stream!ReadEOF \/ Stream!Write \/ Stream!Close
    BY <1>1, <1>4, <2>4 DEF Stream!Read, Stream!ReadEOF, Stream!Write, Stream!Close,
       Stream!fixed, Stream!convVars, vars, turnVars
  <2>5. CASE Stream!Over
    BY <1>1, <1>4, <2>5 DEF Stream!Over, Stream!vars, Stream!fixed, Stream!convVars, vars, turnVars
  <2>6. QED
    BY <1>4, <2>1, <2>2, <2>3, <2>4, <2>5 DEF Stream!Next
<1>5. CASE UNCHANGED all
  BY <1>1, <1>5 DEF all, vars, turnVars, streamVars, Stream!vars, Stream!fixed, Stream!convVars
<1>6. QED
  BY <1>2, <1>3, <1>4, <1>5 DEF ExchangeNext

(* A stream that was forwarded to its end to a client that is sent OpenAI  *)
(* chunks, be it one of OpenAI's or any at an OpenAI upstream, settles the *)
(* tokens that the upstream reported last in a report that the first       *)
(* conversion reads (Reports), although they are taken from what that      *)
(* conversion made of it, and only from what was sent (streaming.go:39-57, *)
(* 114-126; handler.go:332-338). Nothing is said of streams that are       *)
(* reversed for another client: an Anthropic client settles 0.             *)
THEOREM ExchangeUsageTracked == ExchangeSpec => []UsageTracked
<1>1. ExchangeInit => Typed /\ Settling
  <2>1. ASSUME ExchangeInit PROVE Settling
    BY <2>1, SettlingAtStart DEF ExchangeInit
  <2>2. QED
    BY <2>1, TypedInit
<1>2. Typed /\ Settling /\ [ExchangeNext]_all => (Typed /\ Settling)'
  BY TypedStep, SettlingStep
<1>3. Settling => UsageTracked
  BY UsageSaidIs DEF Settling, UsageTracked, Stream!UsageTracked
<1>4. QED
  BY <1>1, <1>2, <1>3, PTL DEF ExchangeSpec

----------------------------------------------------------------------------
(* What is asked of the upstream. *)

(* The names of a choice of tools: the one to use, or whether they must,   *)
(* must not or may be used.                                                *)
ToolName(format) ==
  CASE format \in OpenAIFormats -> "function" [] format = "anthropic" -> "tool" [] OTHER -> "ANY"

RequiredName(format) ==
  CASE format \in OpenAIFormats -> "required" [] format = "anthropic" -> "any" [] OTHER -> "ANY"

NoneName(format) == IF format = "gemini" THEN "NONE" ELSE "none"

AutoName(format) == IF format = "gemini" THEN "AUTO" ELSE "auto"

NamesOf(format)  == {RequiredName(format), NoneName(format), AutoName(format)}

(* What a client may say of the tools: nothing; whether they may or must   *)
(* be used; the one to use.                                                *)
ChoicesOf(format) ==
  {<<>>} \cup {<<name, <<>>>> : name \in NamesOf(format)} \cup {<<ToolName(format), <<0, 3>>>>}

LEMMA OpeningChoices ==
  ASSUME NEW format \in Formats, NEW o \in Openings(format)
  PROVE  o.choice \in ChoicesOf(format)
<1>1. ASSUME NEW system, NEW messages, NEW choice, NEW stop, NEW max
      PROVE  Opening(system, messages, choice, stop, max).choice = choice
  BY DEF Opening
<1>2. CASE format = "openai_chat"
  <2> DEFINE choices == {<<"required", <<>>>>, <<"none", <<>>>>, <<"function", <<0, 3>>>>}
  <2>1. choices \subseteq ChoicesOf(format)
    BY <1>2 DEF ChoicesOf, NamesOf, ToolName, RequiredName, NoneName, AutoName, OpenAIFormats
  <2>2. o.choice \in choices
    BY <1>1, <1>2, SMTT(30) DEF Openings
  <2>3. QED
    BY <2>1, <2>2
<1>3. CASE format = "openai_responses"
  BY <1>1, <1>3 DEF Openings, ChoicesOf, NamesOf, ToolName, RequiredName, NoneName, AutoName, OpenAIFormats
<1>4. CASE format = "anthropic"
  <2> DEFINE choices == {<<"any", <<>>>>, <<"tool", <<0, 3>>>>}
  <2>1. choices \subseteq ChoicesOf(format)
    BY <1>4 DEF ChoicesOf, NamesOf, ToolName, RequiredName, NoneName, AutoName, OpenAIFormats
  <2>2. o.choice \in choices
    BY <1>1, <1>4, SMTT(30) DEF Openings
  <2>3. QED
    BY <2>1, <2>2
<1>5. CASE format = "gemini"
  <2> DEFINE choices == {<<"ANY", <<>>>>, <<"NONE", <<>>>>, <<"ANY", <<0, 3>>>>}
  <2>1. choices \subseteq ChoicesOf(format)
    BY <1>5 DEF ChoicesOf, NamesOf, ToolName, RequiredName, NoneName, AutoName, OpenAIFormats
  <2>2. o.choice \in choices
    BY <1>1, <1>5, SMTT(30) DEF Openings
  <2>3. QED
    BY <2>1, <2>2
<1>6. QED
  BY <1>2, <1>3, <1>4, <1>5 DEF Formats, OpenAIFormats

(* How a reader and a writer name a choice. *)
ChoiceRead(format, choice) ==
  CASE format = "anthropic" -> AnthropicChoiceRead(choice)
    [] format = "gemini"    -> GeminiChoiceRead(choice)
    [] OTHER                -> choice

ChoiceWritten(format, choice) ==
  CASE format = "anthropic"   -> AnthropicChoice(choice)
    [] format = "gemini"      -> GeminiChoice(choice)
    [] format = "openai_chat" -> OpenAIChoice(choice)

(* What a choice means, and which of its names say so. *)
Meant(choice, name, tool) == choice # <<>> /\ choice[1] = name /\ choice[2] = tool

LEMMA MeantIs ==
  ASSUME NEW name, NEW tool
  PROVE  Meant(<<name, tool>>, name, tool)
BY DEF Meant

LEMMA ChoiceNamed ==
  ASSUME NEW format, NEW choice \in ChoicesOf(format), choice # <<>>
  PROVE  \/ \E name \in NamesOf(format) : Meant(choice, name, <<>>)
         \/ Meant(choice, ToolName(format), <<0, 3>>)
BY MeantIs DEF ChoicesOf

LEMMA ChoiceKept ==
  ASSUME NEW from \in Formats,
         NEW to \in Formats \ {"openai_responses"},
         NEW choice \in ChoicesOf(from)
  PROVE  SameChoice(choice, ChoiceWritten(to, ChoiceRead(from, choice)))
<1> DEFINE tool == <<0, 3>>
           none == <<>>
           read == ChoiceRead(from, choice)
           written == ChoiceWritten(to, read)
<1>1. tool # none
  OBVIOUS
<1>2. CASE choice = <<>>
  <2>1. read = <<>>
    BY <1>2 DEF ChoiceRead, AnthropicChoiceRead, GeminiChoiceRead
  <2>2. ChoiceWritten(to, <<>>) = <<>>
    BY DEF ChoiceWritten, AnthropicChoice, GeminiChoice, OpenAIChoice, Formats, OpenAIFormats
  <2>3. QED
    BY <1>2, <2>1, <2>2 DEF SameChoice
<1>3. CASE choice # <<>>
  <2>1. \/ \E name \in NamesOf(from) : Meant(choice, name, none)
        \/ Meant(choice, ToolName(from), tool)
    BY <1>3, ChoiceNamed
  <2> HIDE DEF tool, none
  <2>2. \A name : Meant(<<name, none>>, name, none) /\ Meant(<<name, tool>>, name, tool)
    BY MeantIs
  <2> DEFINE WithTool   == Meant(read, "function", tool) /\ Meant(choice, ToolName(from), tool)
             Required   == Meant(read, "required", none) /\ Meant(choice, RequiredName(from), none)
             NoTools    == Meant(read, "none", none) /\ Meant(choice, NoneName(from), none)
             AnyOrNone  == Meant(read, "auto", none) /\ Meant(choice, AutoName(from), none)
  <2>3. WithTool \/ Required \/ NoTools \/ AnyOrNone
    <3>1. CASE from \in OpenAIFormats
      BY <2>1, <3>1 DEF ChoiceRead, NamesOf, ToolName, RequiredName, NoneName, AutoName, OpenAIFormats
    <3>2. CASE from = "anthropic"
      BY <1>1, <2>1, <2>2, <3>2 DEF ChoiceRead, AnthropicChoiceRead, Meant, none,
         NamesOf, ToolName, RequiredName, NoneName, AutoName, OpenAIFormats
    <3>3. CASE from = "gemini"
      <4>1. read = GeminiChoiceRead(choice)
        BY <3>3 DEF ChoiceRead
      <4>2. CASE Meant(choice, "ANY", tool)
        <5>1. read = <<"function", tool>>
          <6>1. choice # <<>> /\ choice[1] = "ANY" /\ choice[2] = tool /\ tool # <<>>
            BY <1>1, <4>2 DEF Meant, none
          <6>2. read = <<"function", choice[2]>>
            BY <4>1, <6>1 DEF GeminiChoiceRead
          <6>3. QED
            BY <6>1, <6>2
        <5>2. QED
          BY <2>2, <3>3, <4>2, <5>1 DEF ToolName, OpenAIFormats
      <4>3. CASE Meant(choice, "ANY", none)
        <5>1. read = <<"required", none>>
          BY <4>1, <4>3 DEF GeminiChoiceRead, Meant, none
        <5>2. QED
          BY <2>2, <3>3, <4>3, <5>1 DEF RequiredName, OpenAIFormats
      <4>4. CASE Meant(choice, "NONE", none)
        <5>1. read = <<"none", none>>
          BY <4>1, <4>4 DEF GeminiChoiceRead, Meant, none
        <5>2. QED
          BY <2>2, <3>3, <4>4, <5>1 DEF NoneName
      <4>5. CASE Meant(choice, "AUTO", none)
        <5>1. read = <<"auto", none>>
          BY <4>1, <4>5 DEF GeminiChoiceRead, Meant, none
        <5>2. QED
          BY <2>2, <3>3, <4>5, <5>1 DEF AutoName
      <4>6. QED
        BY <2>1, <3>3, <4>2, <4>3, <4>4, <4>5
        DEF NamesOf, ToolName, RequiredName, NoneName, AutoName, OpenAIFormats
    <3>4. from \in OpenAIFormats \cup {"anthropic", "gemini"}
      BY DEF Formats, OpenAIFormats
    <3>5. QED
      BY <3>1, <3>2, <3>3, <3>4
  <2>4. CASE WithTool
    <3>1. Meant(written, ToolName(to), tool)
      BY <1>1, <2>2, <2>4 DEF ChoiceWritten, AnthropicChoice, GeminiChoice, OpenAIChoice, Meant, ToolName, Formats, OpenAIFormats
    <3>2. QED
      BY <2>4, <3>1, <1>1 DEF SameChoice, Synonyms, Meant, ToolName, none, Formats, OpenAIFormats
  <2>5. CASE Required
    <3>1. Meant(written, RequiredName(to), none)
      BY <1>1, <2>2, <2>5 DEF ChoiceWritten, AnthropicChoice, GeminiChoice, OpenAIChoice, Meant, RequiredName, none, Formats, OpenAIFormats
    <3>2. QED
      BY <2>5, <3>1, <1>1 DEF SameChoice, Synonyms, Meant, RequiredName, none, Formats, OpenAIFormats
  <2>6. CASE NoTools
    <3>1. Meant(written, NoneName(to), none)
      BY <1>1, <2>2, <2>6 DEF ChoiceWritten, AnthropicChoice, GeminiChoice, OpenAIChoice, Meant, NoneName, none, Formats, OpenAIFormats
    <3>2. QED
      BY <2>6, <3>1, <1>1 DEF SameChoice, Synonyms, Meant, NoneName, none, Formats, OpenAIFormats
  <2>7. CASE AnyOrNone
    <3>1. Meant(written, AutoName(to), none)
      BY <1>1, <2>2, <2>7 DEF ChoiceWritten, AnthropicChoice, GeminiChoice, OpenAIChoice, Meant, AutoName, none, Formats, OpenAIFormats
    <3>2. QED
      BY <2>7, <3>1, <1>1 DEF SameChoice, Synonyms, Meant, AutoName, none, Formats, OpenAIFormats
  <2>8. QED
    BY <2>3, <2>4, <2>5, <2>6, <2>7
<1>4. QED
  BY <1>2, <1>3

LEMMA ChoiceItself ==
  ASSUME NEW format \in Formats, NEW choice \in ChoicesOf(format)
  PROVE  SameChoice(choice, choice)
<1>1. CASE choice = <<>>
  BY <1>1 DEF SameChoice
<1>2. CASE choice # <<>>
  <2>1. \/ \E name \in NamesOf(format) : Meant(choice, name, <<>>)
        \/ Meant(choice, ToolName(format), <<0, 3>>)
    BY <1>2, ChoiceNamed
  <2>2. <<0, 3>> # <<>>
    OBVIOUS
  <2>3. CASE Meant(choice, ToolName(format), <<0, 3>>)
    BY <2>2, <2>3 DEF SameChoice, Synonyms, Meant, ToolName, Formats, OpenAIFormats
  <2>4. CASE \E name \in NamesOf(format) : Meant(choice, name, <<>>)
    <3>1. PICK name \in NamesOf(format) : Meant(choice, name, <<>>)
      BY <2>4
    <3>2. \E names \in Synonyms : name \in names /\ "tool" \notin names
      BY <3>1 DEF NamesOf, RequiredName, NoneName, AutoName, Synonyms, Formats, OpenAIFormats
    <3>3. QED
      BY <1>2, <3>1, <3>2 DEF SameChoice, Meant
  <2>5. QED
    BY <2>1, <2>3, <2>4
<1>3. QED
  BY <1>1, <1>2

(* What is asked for, as it is read and written. *)
AskedAs(format, doc, ir) ==
  /\ ir.stream = (IF format = "gemini" THEN FALSE ELSE doc.stream)
  /\ ir.choice = ChoiceRead(format, doc.choice)
  /\ ir.stop = doc.stop
  /\ ir.max = IF format = "openai_responses" THEN 0 ELSE doc.max

LEMMA ReadAsks ==
  ASSUME NEW format \in Formats, NEW doc, NEW fresh
  PROVE  AskedAs(format, doc, ToInternal(format, doc, fresh))
<1> DEFINE ir == ToInternal(format, doc, fresh)
<1> SUFFICES /\ ir.stream = (IF format = "gemini" THEN FALSE ELSE doc.stream)
             /\ ir.choice = ChoiceRead(format, doc.choice)
             /\ ir.stop = doc.stop
             /\ ir.max = IF format = "openai_responses" THEN 0 ELSE doc.max
  BY Zenon DEF AskedAs
<1>1. ir = ToInternal(format, doc, fresh)
  OBVIOUS
<1> HIDE DEF ir
<1>2. ASSUME NEW messages, NEW stream, NEW choice, NEW stop, NEW max, NEW q,
             q = [messages |-> messages, stream |-> stream, choice |-> choice, stop |-> stop,
                  max |-> max]
      PROVE  q.stream = stream /\ q.choice = choice /\ q.stop = stop /\ q.max = max
  BY <1>2
<1>3. CASE format = "anthropic"
  <2>1. ir = AnthropicToInternal(doc) /\ ChoiceRead(format, doc.choice) = AnthropicChoiceRead(doc.choice)
    BY <1>3, <1>1 DEF ToInternal, ChoiceRead
  <2>2. QED
    BY <1>3, <2>1 DEF AnthropicToInternal
<1>4. CASE format = "gemini"
  <2>1. ir = GeminiToInternal(doc, fresh) /\ ChoiceRead(format, doc.choice) = GeminiChoiceRead(doc.choice)
    BY <1>4, <1>1 DEF ToInternal, ChoiceRead
  <2>2. \E messages : ir = [messages |-> messages, stream |-> FALSE,
                           choice |-> GeminiChoiceRead(doc.choice), stop |-> doc.stop,
                           max |-> doc.max]
    BY <2>1 DEF GeminiToInternal
  <2>3. ir.stream = FALSE /\ ir.choice = GeminiChoiceRead(doc.choice) /\ ir.stop = doc.stop /\ ir.max = doc.max
    BY <1>2, <2>2
  <2>4. QED
    BY <1>4, <2>1, <2>3
<1>5. CASE format \in OpenAIFormats
  <2>1. ir = OpenAIToInternal(format, doc) /\ ChoiceRead(format, doc.choice) = doc.choice
    BY <1>5, <1>1 DEF ToInternal, ChoiceRead, OpenAIFormats
  <2> DEFINE max == IF format = "openai_chat" THEN doc.max ELSE 0
  <2>2. \E messages : ir = [messages |-> messages, stream |-> doc.stream, choice |-> doc.choice,
                           stop |-> doc.stop, max |-> max]
    BY <2>1 DEF OpenAIToInternal
  <2>3. ir.stream = doc.stream /\ ir.choice = doc.choice /\ ir.stop = doc.stop /\ ir.max = max
    <3> HIDE DEF max
    <3> QED
      BY <1>2, <2>2
  <2>4. format # "gemini"
    BY <1>5 DEF OpenAIFormats
  <2>5. format # "openai_responses" => max = doc.max
    BY <1>5 DEF OpenAIFormats
  <2>6. QED
    BY <2>1, <2>3, <2>4, <2>5
<1>6. QED
  BY <1>3, <1>4, <1>5 DEF Formats

LEMMA WrittenAsks ==
  ASSUME NEW format \in Formats, NEW ir, NEW r, r = FromInternal(format, ir)
  PROVE  /\ \A wanted : [r EXCEPT !.stream = wanted].stream = wanted
         /\ \A wanted : /\ [r EXCEPT !.stream = wanted].choice = r.choice
                        /\ [r EXCEPT !.stream = wanted].stop = r.stop
                        /\ [r EXCEPT !.stream = wanted].max = r.max
         /\ r.stream = ir.stream
         /\ format # "openai_responses" => /\ r.choice = ChoiceWritten(format, ir.choice)
                                           /\ r.stop = ir.stop
         /\ r.max = IF ir.max = 0 /\ format = "anthropic" THEN 4096 ELSE ir.max
<1>1. ASSUME NEW system, NEW messages, NEW stream, NEW choice, NEW stop, NEW max,
             NEW q, q = Request(system, messages, stream, choice, stop, max)
      PROVE  /\ q.stream = stream /\ q.choice = choice /\ q.stop = stop /\ q.max = max
             /\ \A wanted : /\ [q EXCEPT !.stream = wanted].stream = wanted
                            /\ [q EXCEPT !.stream = wanted].choice = choice
                            /\ [q EXCEPT !.stream = wanted].stop = stop
                            /\ [q EXCEPT !.stream = wanted].max = max
  BY <1>1 DEF Request
<1>2. CASE format = "openai_chat"
  <2>1. \E system, messages :
          r = Request(system, messages, ir.stream, OpenAIChoice(ir.choice), ir.stop, ir.max)
    BY <1>2 DEF FromInternal, InternalToOpenAIChat
  <2>2. ChoiceWritten(format, ir.choice) = OpenAIChoice(ir.choice)
    BY <1>2 DEF ChoiceWritten
  <2>3. QED
    BY <1>1, <1>2, <2>1, <2>2
<1>3. CASE format = "openai_responses"
  <2>1. \E system, messages, choice :
          r = Request(system, messages, ir.stream, choice, <<>>, ir.max)
    BY <1>3 DEF FromInternal, InternalToResponses
  <2>2. QED
    BY <1>1, <1>3, <2>1
<1>4. CASE format = "anthropic"
  <2>1. \E system, messages :
          r = Request(system, messages, ir.stream, AnthropicChoice(ir.choice), ir.stop,
                      IF ir.max = 0 THEN 4096 ELSE ir.max)
    BY <1>4 DEF FromInternal, InternalToAnthropic
  <2>2. ChoiceWritten(format, ir.choice) = AnthropicChoice(ir.choice)
    BY <1>4 DEF ChoiceWritten
  <2>3. QED
    BY <1>1, <1>4, <2>1, <2>2
<1>5. CASE format = "gemini"
  <2>1. \E system, messages :
          r = Request(system, messages, ir.stream, GeminiChoice(ir.choice), ir.stop, ir.max)
    BY <1>5 DEF FromInternal, InternalToGemini
  <2>2. ChoiceWritten(format, ir.choice) = GeminiChoice(ir.choice)
    BY <1>5 DEF ChoiceWritten
  <2>3. QED
    BY <1>1, <1>5, <2>1, <2>2
<1>6. QED
  BY <1>2, <1>3, <1>4, <1>5 DEF Formats, OpenAIFormats

(* A request is asked for what the client asks for, whatever channel the   *)
(* gateway chooses.                                                        *)
LEMMA RelayAsks ==
  ASSUME Typed, Relay
  PROVE  AskedAsMeant'
<1> DEFINE wanted == mode' # "plain"
           doc == Document(wanted)
           converted == ConvertRequest(client, upstream', doc, <<turn>>)
           r == converted[1]
<1>1. client \in Formats /\ upstream' \in Formats
  BY ConversationAssumption DEF Typed, TypesOK, TypeOK, Relay
<1>2. /\ mode' \in {"plain", "stream", "forced"}
      /\ UNCHANGED <<client, opening>>
      /\ phase' = "sent" => /\ converted # <<>>
                            /\ request' = IF upstream' # "gemini" THEN r
                                          ELSE [r EXCEPT !.stream = mode' = "stream"]
  BY DEF Relay
<1>3. opening \in Openings(client)
  BY DEF Typed, TypesOK, TypeOK
<1>4. opening.choice \in ChoicesOf(client)
  BY <1>1, <1>3, OpeningChoices
<1>5. /\ doc.stream = wanted /\ doc.choice = opening.choice /\ doc.stop = opening.stop
      /\ doc.max = opening.max
      /\ \A w : LET d == [doc EXCEPT !.stream = w]
               IN /\ d.stream = w /\ d.choice = doc.choice /\ d.stop = doc.stop
                  /\ d.max = doc.max
  BY DEF Document, Request
<1> HIDE DEF doc
<1> SUFFICES ASSUME phase' = "sent" PROVE AskedAsMeant'
  BY DEF AskedAsMeant
<1>6. CASE client = upstream'
  <2>1. r = doc
    BY <1>6 DEF ConvertRequest
  <2>2. request'.stream = IF upstream' = "gemini" THEN mode' = "stream" ELSE mode' # "plain"
    <3>1. request' = IF upstream' # "gemini" THEN doc ELSE [doc EXCEPT !.stream = mode' = "stream"]
      BY <1>2, <2>1
    <3>2. CASE upstream' = "gemini"
      BY <1>5, <3>1, <3>2
    <3>3. CASE upstream' # "gemini"
      BY <1>5, <3>1, <3>3
    <3>4. QED
      BY <3>2, <3>3
  <2>3. request'.choice = opening.choice /\ request'.stop = opening.stop
        /\ request'.max = opening.max
    <3>1. request' = doc \/ request' = [doc EXCEPT !.stream = mode' = "stream"]
      BY <1>2, <2>1
    <3>2. QED
      BY <1>5, <3>1
  <2>4. SameChoice(opening.choice, opening.choice)
    BY <1>1, <1>4, ChoiceItself
  <2>5. QED
    BY <1>2, <1>6, <2>2, <2>3, <2>4 DEF AskedAsMeant, Untouched, LimitTold
<1>7. CASE client # upstream'
  <2> DEFINE fresh == <<turn>>
             ir == ToInternal(client, doc, fresh)
  <2>1. r = FromInternal(upstream', ir)
    BY <1>2, <1>7 DEF ConvertRequest
  <2>2. /\ ir.stream = (IF client = "gemini" THEN FALSE ELSE wanted)
        /\ ir.choice = ChoiceRead(client, opening.choice)
        /\ ir.stop = opening.stop
        /\ ir.max = IF client = "openai_responses" THEN 0 ELSE opening.max
    <3>1. ir = ToInternal(client, doc, fresh)
      OBVIOUS
    <3> HIDE DEF fresh, ir, wanted
    <3>2. AskedAs(client, doc, ir)
      BY <1>1, <3>1, ReadAsks
    <3>3. QED
      BY <1>5, <3>2 DEF AskedAs
  <2> HIDE DEF ir
  <2>3. /\ \A w : [r EXCEPT !.stream = w].stream = w
        /\ \A w : /\ [r EXCEPT !.stream = w].choice = r.choice
                  /\ [r EXCEPT !.stream = w].stop = r.stop
                  /\ [r EXCEPT !.stream = w].max = r.max
        /\ r.stream = ir.stream
        /\ upstream' # "openai_responses" => /\ r.choice = ChoiceWritten(upstream', ir.choice)
                                             /\ r.stop = ir.stop
        /\ r.max = IF ir.max = 0 /\ upstream' = "anthropic" THEN 4096 ELSE ir.max
    BY <1>1, <2>1, WrittenAsks
  <2> HIDE DEF r
  <2>4. /\ request'.stream = IF upstream' = "gemini" THEN mode' = "stream" ELSE r.stream
        /\ request'.choice = r.choice /\ request'.stop = r.stop /\ request'.max = r.max
    BY <1>2, <2>3
  <2>5. upstream' # "openai_responses" =>
          SameChoice(opening.choice, request'.choice) /\ request'.stop = opening.stop
    BY <1>1, <1>4, <2>2, <2>3, <2>4, ChoiceKept
  <2>6. request'.max = LET read == IF client = "openai_responses" THEN 0 ELSE opening.max
                       IN IF read = 0 /\ upstream' = "anthropic" THEN 4096 ELSE read
    BY <2>2, <2>3, <2>4
  <2>7. request'.stream <=> /\ mode' # "plain" /\ client # "gemini"
                            /\ ~(mode' = "forced" /\ upstream' = "gemini")
    <3>1. CASE upstream' = "gemini"
      BY <1>2, <1>7, <2>4, <3>1
    <3>2. CASE upstream' # "gemini"
      BY <2>2, <2>3, <2>4, <3>2
    <3>3. QED
      BY <3>1, <3>2
  <2>8. QED
    BY <1>2, <1>7, <2>5, <2>6, <2>7 DEF AskedAsMeant, Untouched, LimitTold
<1>8. QED
  BY <1>6, <1>7

LEMMA AskedStep ==
  ASSUME Typed, AskedAsMeant, [ExchangeNext]_all
  PROVE  AskedAsMeant'
<1>1. CASE UNCHANGED vars
  BY <1>1 DEF AskedAsMeant, Untouched, LimitTold, vars, turnVars
<1>2. CASE Next
  <2>1. CASE Ask \/ Answer
    <3>1. Ask => phase' = "asked"
      BY DEF Ask
    <3>2. Answer => phase' \in {"over", "asking"}
      BY DEF Answer
    <3>3. QED
      BY <2>1, <3>1, <3>2 DEF AskedAsMeant
  <2>2. CASE Over
    BY <1>1, <2>2 DEF Over
  <2>3. QED
    BY <1>2, <2>1, <2>2, RelayAsks DEF Next
<1>3. CASE BeginStream
  BY <1>3 DEF BeginStream, AskedAsMeant
<1>4. QED
  BY <1>1, <1>2, <1>3 DEF ExchangeNext, all

(* Whatever channel the gateway chooses, it asks the upstream for the      *)
(* choice of tools, the words to stop at and the limit that the client     *)
(* named, but a Responses upstream for no chosen function and no words; a  *)
(* Responses client's limit is told to no upstream of another format, and  *)
(* Anthropic is told 4096 where it is told none. It asks for a stream      *)
(* exactly when it is going to read one, except that a Gemini client's     *)
(* stream is not asked of another upstream, nor one of a Gemini channel    *)
(* that is forced to it (handler.go:206-240; the ends of the converters).  *)
THEOREM ExchangeAskedAsMeant == ExchangeSpec => []AskedAsMeant
<1>1. ExchangeInit => AskedAsMeant
  BY DEF ExchangeInit, Init, AskedAsMeant
<1>2. Typed /\ AskedAsMeant /\ [ExchangeNext]_all => (Typed /\ AskedAsMeant)'
  BY TypedStep, AskedStep
<1>3. QED
  BY <1>1, <1>2, TypedInit, PTL DEF ExchangeSpec

----------------------------------------------------------------------------
(* The answers that are converted. *)

(* Two sequences of pieces that tell the same. *)
LEMMA TextsAlike ==
  ASSUME NEW s, IsSeq(s), NEW t, IsSeq(t), Len(s) = Len(t),
         \A i \in 1..Len(s) :
           /\ s[i].kind \in {"text", "image", "inline"} <=> t[i].kind \in {"text", "image", "inline"}
           /\ s[i].kind \in {"text", "image", "inline"} => s[i].text = t[i].text
  PROVE  TextsOf(s) = TextsOf(t)
<1> DEFINE kinds == {"text", "image", "inline"}
           f == [p \in ToSet(s) |-> p.text]
           g == [p \in ToSet(t) |-> p.text]
<1>1. \A i \in 1..Len(s) : s[i] \in ToSet(s) /\ t[i] \in ToSet(t)
  BY ElementsOf
<1>2. Alike(kinds, f, s, g, t)
  BY <1>1 DEF Alike
<1>3. TextsOf(s) = Through(f, Only(kinds, s))
  BY EachOnly DEF TextsOf
<1>4. TextsOf(t) = Through(g, Only(kinds, t))
  BY EachOnly DEF TextsOf
<1> HIDE DEF f, g, kinds
<1>5. QED
  BY <1>2, <1>3, <1>4, OnlyAlike

(* Putting the texts before the calls keeps both. *)
LEMMA TextsThenCallsKeep ==
  ASSUME NEW pieces, PiecesOK(pieces)
  PROVE  LET written == TextsThenCalls(pieces)
         IN /\ PiecesOK(written) /\ ToSet(written) \subseteq ToSet(pieces)
            /\ TextsOf(written) = TextsOf(pieces)
            /\ \A told : CallsOf(told, written) = CallsOf(told, pieces)
            /\ Only({"call"}, written) = Only({"call"}, pieces)
<1> DEFINE texts == Only({"text"}, pieces)
           calls == Only({"call"}, pieces)
           both == texts \o calls
<1>1. IsSeq(pieces) /\ \A p \in ToSet(pieces) : PieceOK(p)
  BY DEF PiecesOK
<1>2. /\ IsSeq(texts) /\ \A p \in ToSet(texts) : p \in ToSet(pieces) /\ p.kind \in {"text"}
      /\ IsSeq(calls) /\ \A p \in ToSet(calls) : p \in ToSet(pieces) /\ p.kind \in {"call"}
  BY <1>1, OnlyElements
<1>3. Only({"call"}, texts) = <<>> /\ Only({"text", "image", "inline"}, calls) = <<>>
  <2>1. /\ \A p \in ToSet(texts) : p.kind \notin {"call"}
        /\ \A p \in ToSet(calls) : p.kind \notin {"text", "image", "inline"}
    BY <1>2
  <2> HIDE DEF texts, calls
  <2>2. QED
    BY <1>2, <2>1, OnlyNone
<1>4. Only({"call"}, calls) = calls /\ Only({"text", "image", "inline"}, texts) = texts
  <2>1. /\ \A p \in ToSet(texts) : p.kind \in {"text", "image", "inline"}
        /\ \A p \in ToSet(calls) : p.kind \in {"call"}
    BY <1>2
  <2> HIDE DEF texts, calls
  <2>2. QED
    BY <1>2, <2>1, OnlyAll
<1>5. Only({"text", "image", "inline"}, pieces) = texts
  BY TextsAreTexts
<1> HIDE DEF texts, calls
<1>6. /\ IsSeq(both) /\ ToSet(both) = ToSet(texts) \cup ToSet(calls)
      /\ <<>> \o calls = calls /\ texts \o <<>> = texts
  BY <1>2, Concat, MembersOfConcat
<1>7. ASSUME NEW kinds PROVE Only(kinds, both) = Only(kinds, texts) \o Only(kinds, calls)
  BY <1>2, OnlyConcat
<1>8. Only({"call"}, both) = calls
  <2>1. Only({"call"}, both) = Only({"call"}, texts) \o Only({"call"}, calls)
    BY <1>7
  <2>2. QED
    BY <1>3, <1>4, <1>6, <2>1
<1>9. Only({"text", "image", "inline"}, both) = texts
  <2>1. Only({"text", "image", "inline"}, both) = Only({"text", "image", "inline"}, texts) \o Only({"text", "image", "inline"}, calls)
    BY <1>7
  <2>2. QED
    BY <1>3, <1>4, <1>6, <2>1
<1>10. TextsThenCalls(pieces) = both
  BY DEF TextsThenCalls, texts, calls
<1> HIDE DEF both
<1>11. PiecesOK(both) /\ ToSet(both) \subseteq ToSet(pieces)
  BY <1>1, <1>2, <1>6 DEF PiecesOK
<1>12. TextsOf(both) = TextsOf(pieces)
  BY <1>5, <1>9 DEF TextsOf
<1>13. ASSUME NEW told PROVE CallsOf(told, both) = CallsOf(told, pieces)
  BY <1>8 DEF CallsOf, calls
<1>14. QED
  BY <1>8, <1>10, <1>11, <1>12, <1>13 DEF calls

(* Naming the calls, and writing them for Gemini, keeps both. *)
LEMMA NamedKeeps ==
  ASSUME NEW pieces, PiecesOK(pieces), NEW fresh
  PROVE  LET named == NamedAs(pieces, fresh)
         IN /\ PiecesOK(named) /\ TextsOf(named) = TextsOf(pieces)
            /\ \A told : CallsOf(told, named) = CallsOf(told, pieces)
<1> DEFINE named == NamedAs(pieces, fresh)
           n == Len(pieces)
<1>1. IsSeq(pieces) /\ n \in Nat /\ \A i \in 1..n : PieceOK(pieces[i])
  <2>1. IsSeq(pieces) /\ \A p \in ToSet(pieces) : PieceOK(p)
    BY DEF PiecesOK
  <2>2. QED
    BY <2>1, ElementsOf
<1>2. DOMAIN named = 1..n /\ named = [i \in 1..n |-> named[i]]
  BY DEF NamedAs
<1>3. ASSUME NEW i \in 1..n
      PROVE  /\ PieceOK(named[i]) /\ named[i].kind = pieces[i].kind
             /\ named[i].kind = "text" => named[i].text = pieces[i].text
             /\ named[i].kind = "call" => /\ named[i].name = pieces[i].name
                                          /\ named[i].args = pieces[i].args
  <2> DEFINE p == pieces[i]
  <2>1. PieceOK(p)
    BY <1>1
  <2>2. named[i] = IF p.kind = "call" THEN [p EXCEPT !.id = fresh \o <<i>>] ELSE p
    BY DEF NamedAs
  <2> HIDE DEF p, named
  <2>3. CASE p.kind = "call"
    <3>1. PICK id, name, args : p = Call(id, name, args)
      BY <2>1, <2>3, PieceIs DEF PieceOK
    <3> DEFINE id2 == fresh \o <<i>>
    <3> HIDE DEF id2
    <3>2. [p EXCEPT !.id = id2] = Call(id2, name, args) /\ p.name = name /\ p.args = args
      BY <3>1 DEF Call
    <3>3. named[i] = Call(id2, name, args)
      BY <2>2, <2>3, <3>2 DEF id2
    <3>4. PieceOK(named[i])
      BY <3>3 DEF PieceOK
    <3>5. QED
      BY <2>3, <3>2, <3>3, <3>4, PieceIs DEF p
  <2>4. CASE p.kind # "call"
    BY <2>1, <2>2, <2>4, PieceKinds DEF p
  <2>5. QED
    BY <2>3, <2>4
<1>4. IsSeq(named) /\ Len(named) = n /\ \A e \in ToSet(named) : \E i \in 1..n : e = named[i]
  <2> HIDE DEF n, named
  <2> QED
    BY <1>1, <1>2, SeqGiven
<1> HIDE DEF n, named
<1>5. PiecesOK(named)
  BY <1>3, <1>4 DEF PiecesOK
<1>6. \A i \in 1..n : PieceOK(pieces[i]) /\ named[i].kind \in {"text", "call"}
  BY <1>1, <1>3, PieceKinds
<1>7. TextsOf(named) = TextsOf(pieces)
  BY <1>1, <1>3, <1>4, <1>6, TextsAlike DEF n
<1>8. ASSUME NEW told PROVE CallsOf(told, pieces) = CallsOf(told, named)
  <2>1. \A i \in 1..n : named[i].kind = "call" => CallKept(told, named[i]) = CallKept(told, pieces[i])
    BY <1>3 DEF CallKept
  <2>2. SameCalls(told, told, pieces, named)
    BY <1>3, <2>1 DEF SameCalls, n
  <2>3. QED
    BY <1>1, <1>4, <2>2, CallsAlike DEF n
<1>9. QED
  BY <1>5, <1>7, <1>8 DEF named

LEMMA WrittenForKeeps ==
  ASSUME NEW pieces, PiecesOK(pieces)
  PROVE  LET written == WrittenFor(pieces)
         IN /\ PiecesOK(written) /\ TextsOf(written) = TextsOf(pieces)
            /\ CallsOf("{}", pieces) = CallsOf("broken", written)
<1> DEFINE written == WrittenFor(pieces)
           n == Len(pieces)
<1>1. IsSeq(pieces) /\ n \in Nat /\ \A i \in 1..n : PieceOK(pieces[i])
  <2>1. IsSeq(pieces) /\ \A p \in ToSet(pieces) : PieceOK(p)
    BY DEF PiecesOK
  <2>2. QED
    BY <2>1, ElementsOf
<1>2. DOMAIN written = 1..n /\ written = [i \in 1..n |-> written[i]]
  BY DEF WrittenFor, Each
<1>3. ASSUME NEW i \in 1..n
      PROVE  /\ PieceOK(written[i]) /\ written[i].kind = pieces[i].kind
             /\ written[i].kind = "text" => written[i].text = pieces[i].text
             /\ written[i].kind = "call" => CallKept("broken", written[i]) = CallKept("{}", pieces[i])
  <2> DEFINE p == pieces[i]
  <2>1. PieceOK(p)
    BY <1>1
  <2>2. written[i] = WriteFor(p)
    BY DEF WrittenFor, Each
  <2> HIDE DEF p, written
  <2>3. CASE p.kind = "call"
    <3> DEFINE args == IF p.args = "broken" THEN "{}" ELSE p.args
    <3>1. written[i] = Call(<<>>, p.name, args)
      BY <2>2, <2>3 DEF WriteFor
    <3> HIDE DEF args
    <3>2. PieceOK(written[i])
      BY <3>1 DEF PieceOK
    <3>3. CallKept("broken", written[i]) = <<p.name, args>>
      BY <3>1, PieceIs DEF CallKept
    <3>4. CallKept("{}", p) = <<p.name, args>>
      BY DEF CallKept, args
    <3>5. written[i].kind = "call" /\ p.kind = "call"
      BY <2>3, <3>1, PieceIs
    <3>6. CallKept("broken", written[i]) = CallKept("{}", p)
      BY <3>3, <3>4
    <3>7. QED
      BY <3>2, <3>5, <3>6, Zenon DEF p
  <2>4. CASE p.kind = "text"
    BY <2>1, <2>2, <2>4 DEF p, WriteFor
  <2>5. QED
    BY <2>1, <2>3, <2>4, PieceKinds
<1>4. IsSeq(written) /\ Len(written) = n /\ \A e \in ToSet(written) : \E i \in 1..n : e = written[i]
  <2> HIDE DEF n, written
  <2> QED
    BY <1>1, <1>2, SeqGiven
<1> HIDE DEF n, written
<1>5. PiecesOK(written)
  BY <1>3, <1>4 DEF PiecesOK
<1>6. \A i \in 1..n : PieceOK(pieces[i]) /\ written[i].kind \in {"text", "call"}
  BY <1>1, <1>3, PieceKinds
<1>7. TextsOf(written) = TextsOf(pieces)
  BY <1>1, <1>3, <1>4, <1>6, TextsAlike DEF n
<1>8. CallsOf("{}", pieces) = CallsOf("broken", written)
  <2>1. \A i \in 1..n :
          /\ pieces[i].kind = "call" <=> written[i].kind = "call"
          /\ pieces[i].kind = "call" => CallKept("{}", pieces[i]) = CallKept("broken", written[i])
    BY <1>3
  <2>2. ASSUME NEW x, NEW y, SameCalls(x, y, pieces, written)
        PROVE  CallsOf(x, pieces) = CallsOf(y, written)
    <3>1. IsSeq(pieces) /\ IsSeq(written) /\ Len(pieces) = Len(written)
      BY <1>1, <1>4 DEF n
    <3>2. QED
      BY <2>2, <3>1, CallsAlike
  <2>3. SameCalls("{}", "broken", pieces, written)
    BY <2>1 DEF SameCalls, n
  <2>4. QED
    BY <2>2, <2>3, Zenon
<1>9. QED
  BY <1>5, <1>7, <1>8 DEF written

(* Pieces that tell the same. *)
Tells(pieces, others) ==
  /\ PiecesOK(others)
  /\ TextsOf(pieces) = TextsOf(others)
  /\ CallsOf("broken", pieces) = CallsOf("broken", others)
  /\ CallsOf("{}", pieces) = CallsOf("{}", others)

LEMMA TextsThenCallsTell ==
  ASSUME NEW pieces, PiecesOK(pieces)
  PROVE  Tells(pieces, TextsThenCalls(pieces))
BY TextsThenCallsKeep DEF Tells

LEMMA NamedTell ==
  ASSUME NEW pieces, PiecesOK(pieces), NEW fresh
  PROVE  Tells(pieces, TextsThenCalls(NamedAs(pieces, fresh)))
<1> DEFINE named == NamedAs(pieces, fresh)
<1>1. Tells(pieces, named) /\ PiecesOK(named)
  BY NamedKeeps DEF Tells
<1> HIDE DEF named
<1>2. Tells(named, TextsThenCalls(named))
  BY <1>1, TextsThenCallsTell
<1>3. QED
  BY <1>1, <1>2 DEF Tells, named

(* Why an answer ends, in each format. *)
Converted == {"openai_chat", "anthropic", "gemini"}

LEMMA EndKept ==
  ASSUME NEW from \in Converted, NEW to \in Converted, NEW end \in EndsOf(from)
  PROVE  SameEnd(from, end, to, EndWritten(to, FinishRead(from, end)))
<1> DEFINE read == FinishRead(from, end)
<1>1. /\ Meaning["stop"] = "done" /\ Meaning["end_turn"] = "done" /\ Meaning["STOP"] = "done"
      /\ Meaning["tool_calls"] = "called" /\ Meaning["tool_use"] = "called"
      /\ Meaning["length"] = "cut" /\ Meaning["max_tokens"] = "cut" /\ Meaning["MAX_TOKENS"] = "cut"
      /\ Meaning["content_filter"] = "filtered" /\ Meaning["refusal"] = "filtered"
      /\ Meaning["SAFETY"] = "filtered"
  BY DEF Meaning
<1>2. /\ read \in {"stop", "tool_calls", "length", "content_filter"}
      /\ Meaning[end] = Meaning[read]
         \/ (from = "anthropic" /\ Meaning[end] = "filtered" /\ Meaning[read] = "done")
  <2>1. CASE from = "openai_chat"
    BY <2>1 DEF EndsOf, FinishRead, OpenAIFormats
  <2>2. CASE from = "anthropic"
    BY <1>1, <2>2 DEF EndsOf, FinishRead, OpenAIFormats
  <2>3. CASE from = "gemini"
    BY <1>1, <2>3 DEF EndsOf, FinishRead, OpenAIFormats
  <2>4. QED
    BY <2>1, <2>2, <2>3 DEF Converted
<1> HIDE DEF read
<1>3. CASE to = "openai_chat"
  BY <1>2, <1>3 DEF EndWritten, SameEnd, read
<1>4. CASE to = "anthropic"
  <2>1. EndWritten(to, read) = FinishToAnthropic(read)
    BY <1>4 DEF EndWritten
  <2>2. QED
    BY <1>1, <1>2, <1>4, <2>1 DEF FinishToAnthropic, SameEnd, read
<1>5. CASE to = "gemini"
  <2>1. EndWritten(to, read) = FinishToGemini(read)
    BY <1>5 DEF EndWritten
  <2>2. QED
    BY <1>1, <1>2, <1>5, <2>1 DEF FinishToGemini, SameEnd, read
<1>6. QED
  BY <1>3, <1>4, <1>5 DEF Converted

(* An answer that is read. *)
LEMMA ReadAnswer ==
  ASSUME NEW format \in Converted, NEW usage, NEW fresh,
         NEW role, NEW pieces, PiecesOK(pieces), NEW finish
  PROVE  \E speaker, others :
           /\ ResponseToInternal(format, AnswerOf(<<Choice(role, pieces, finish)>>, usage), fresh)
                = AnswerOf(<<Choice(speaker, others, FinishRead(format, finish))>>, usage)
           /\ Tells(pieces, others)
           /\ others = TextsThenCalls(IF format = "gemini" THEN NamedAs(pieces, fresh) ELSE pieces)
<1> DEFINE c == Choice(role, pieces, finish)
           a == AnswerOf(<<c>>, usage)
           read == FinishRead(format, finish)
<1>1. c.role = role /\ c.pieces = pieces /\ c.finish = finish
  BY ChoiceIs
<1>2. \A others : [c EXCEPT !.pieces = others] = Choice(role, others, finish)
  BY ChoiceIs
<1> HIDE DEF c
<1>3. a.choices = <<c>> /\ \A others : [a EXCEPT !.choices = others] = AnswerOf(others, usage)
  BY AnswerIs
<1> HIDE DEF a
<1>4. CASE format = "openai_chat"
  <2> DEFINE others == TextsThenCalls(pieces)
  <2>1. ResponseToInternal(format, a, fresh) = OpenAIResponseToInternal(a)
    BY <1>4 DEF ResponseToInternal
  <2>2. OpenAIResponseToInternal(a)
          = [a EXCEPT !.choices = Each(LAMBDA d : [d EXCEPT !.pieces = TextsThenCalls(@)], <<c>>)]
    BY <1>3 DEF OpenAIResponseToInternal
  <2>3. Each(LAMBDA d : [d EXCEPT !.pieces = TextsThenCalls(@)], <<c>>)
          = <<[c EXCEPT !.pieces = TextsThenCalls(c.pieces)]>>
    BY DEF Each
  <2>4. read = finish
    BY <1>4 DEF FinishRead, OpenAIFormats
  <2>5. Tells(pieces, others)
    BY TextsThenCallsTell
  <2> HIDE DEF others
  <2>6. ResponseToInternal(format, a, fresh) = AnswerOf(<<Choice(role, others, read)>>, usage)
    BY <1>1, <1>2, <1>3, <2>1, <2>2, <2>3, <2>4 DEF others
  <2>7. QED
    BY <1>4, <2>5, <2>6 DEF a, c, others
<1>5. CASE format = "anthropic"
  <2> DEFINE others == TextsThenCalls(pieces)
  <2>1. ResponseToInternal(format, a, fresh) = AnthropicResponseToInternal(a)
    BY <1>5 DEF ResponseToInternal
  <2>2. AnthropicResponseToInternal(a)
          = [a EXCEPT !.choices =
               Each(LAMBDA d : Choice("", TextsThenCalls(d.pieces), FinishRead("anthropic", d.finish)), <<c>>)]
    BY <1>3 DEF AnthropicResponseToInternal
  <2>3. Each(LAMBDA d : Choice("", TextsThenCalls(d.pieces), FinishRead("anthropic", d.finish)), <<c>>)
          = <<Choice("", TextsThenCalls(c.pieces), FinishRead("anthropic", c.finish))>>
    <3> DEFINE w == Choice("", TextsThenCalls(c.pieces), FinishRead("anthropic", c.finish))
    <3>1. Len(<<c>>) = 1 /\ \A i \in 1..1 : <<c>>[i] = c
      OBVIOUS
    <3>2. Each(LAMBDA d : Choice("", TextsThenCalls(d.pieces), FinishRead("anthropic", d.finish)), <<c>>)
            = [i \in 1..1 |-> w]
      BY <3>1 DEF Each
    <3> HIDE DEF w
    <3>3. [i \in 1..1 |-> w] = <<w>>
      OBVIOUS
    <3>4. QED
      BY <3>2, <3>3 DEF w
  <2>4. Tells(pieces, others)
    BY TextsThenCallsTell
  <2> HIDE DEF others
  <2>5. ResponseToInternal(format, a, fresh) = AnswerOf(<<Choice("", others, read)>>, usage)
    BY <1>1, <1>3, <1>5, <2>1, <2>2, <2>3 DEF others
  <2>6. QED
    BY <1>5, <2>4, <2>5 DEF a, c, others
<1>6. CASE format = "gemini"
  <2> DEFINE others == TextsThenCalls(NamedAs(pieces, fresh))
  <2>1. ResponseToInternal(format, a, fresh) = GeminiResponseToInternal(a, fresh)
    BY <1>6 DEF ResponseToInternal
  <2>2. GeminiResponseToInternal(a, fresh)
          = [a EXCEPT !.choices =
               <<Choice("", TextsThenCalls(NamedAs(c.pieces, fresh)), FinishRead("gemini", c.finish))>>]
    <3>1. <<c>> # <<>> /\ <<c>>[1] = c
      BY SingleIsSeq
    <3>2. QED
      BY <1>3, <3>1 DEF GeminiResponseToInternal, NamedAs
  <2>3. Tells(pieces, others)
    BY NamedTell
  <2> HIDE DEF others
  <2>4. ResponseToInternal(format, a, fresh) = AnswerOf(<<Choice("", others, read)>>, usage)
    BY <1>1, <1>3, <1>6, <2>1, <2>2 DEF others
  <2>5. QED
    BY <1>6, <2>3, <2>4 DEF a, c, others
<1>7. QED
  BY <1>4, <1>5, <1>6 DEF Converted

(* An answer that is written. *)
LEMMA EmptyTextSaysNothing ==
  FlattenSeq(TextsOf(<<Text(<<>>)>>)) = FlattenSeq(TextsOf(<<>>))
<1> DEFINE empty == Text(<<>>)
           kinds == {"text", "image", "inline"}
<1>1. empty.kind = "text" /\ empty.text = <<>>
  BY PieceIs
<1>2. Only(kinds, <<empty>>) = <<empty>>
  BY <1>1, OnlyOne
<1>3. Only(kinds, <<>>) = <<>>
  BY OnlyEmpty
<1> HIDE DEF kinds, empty
<1>4. Each(LAMBDA p : p.text, <<empty>>) = <<empty.text>>
  BY DEF Each
<1>5. Each(LAMBDA p : p.text, <<>>) = <<>>
  BY DEF Each
<1>6. TextsOf(<<empty>>) = <<<<>>>> /\ TextsOf(<<>>) = <<>>
  BY <1>1, <1>2, <1>3, <1>4, <1>5 DEF TextsOf, kinds
<1>7. FlattenSeq(<<<<>>>>) = <<>> /\ FlattenSeq(<<>>) = <<>>
  BY FlattenOne, FlattenNone
<1>8. QED
  BY <1>6, <1>7 DEF empty

LEMMA OrEmptyTextTells ==
  ASSUME NEW pieces
  PROVE  /\ FlattenSeq(TextsOf(OrEmptyText(pieces))) = FlattenSeq(TextsOf(pieces))
         /\ CallsOf("broken", OrEmptyText(pieces)) = CallsOf("broken", pieces)
         /\ PiecesOK(pieces) => PiecesOK(OrEmptyText(pieces))
<1>1. CASE pieces # <<>>
  BY <1>1 DEF OrEmptyText
<1>2. CASE pieces = <<>>
  <2>1. OrEmptyText(pieces) = <<Text(<<>>)>>
    BY <1>2 DEF OrEmptyText
  <2>2. Only({"call"}, <<Text(<<>>)>>) = <<>>
    <3>1. Text(<<>>).kind = "text"
      BY PieceIs
    <3>2. QED
      BY <3>1, OnlyOne
  <2>3. Only({"call"}, <<>>) = <<>>
    BY OnlyEmpty
  <2>4. CallsOf("broken", <<Text(<<>>)>>) = CallsOf("broken", <<>>)
    BY <2>2, <2>3 DEF CallsOf
  <2>5. PiecesOK(<<Text(<<>>)>>)
    <3> DEFINE p == Text(<<>>)
    <3>1. PieceOK(p)
      BY DEF PieceOK
    <3> HIDE DEF p
    <3>2. IsSeq(<<p>>) /\ ToSet(<<p>>) = {p}
      BY SingleIsSeq, Members
    <3>3. QED
      BY <3>1, <3>2 DEF PiecesOK, p
  <2>6. QED
    BY <1>2, <2>1, <2>4, <2>5, EmptyTextSaysNothing
<1>3. QED
  BY <1>1, <1>2

(* What arguments that are no JSON become. *)
Becomes(format) == IF format = "gemini" THEN "{}" ELSE "broken"

WrittenAs(format, usage, role, pieces, finish, speaker, others) ==
  /\ ResponseFromInternal(format, AnswerOf(<<Choice(role, pieces, finish)>>, usage))
       = AnswerOf(<<Choice(speaker, others, EndWritten(format, finish))>>, usage)
  /\ PiecesOK(others)
  /\ FlattenSeq(TextsOf(pieces)) = FlattenSeq(TextsOf(others))
  /\ CallsOf(Becomes(format), pieces) = CallsOf("broken", others)

LEMMA WrittenAnswer ==
  ASSUME NEW format \in Converted, NEW usage, NEW role, NEW pieces, PiecesOK(pieces), NEW finish
  PROVE  \E speaker, others : WrittenAs(format, usage, role, pieces, finish, speaker, others)
<1> USE DEF WrittenAs
<1> DEFINE c == Choice(role, pieces, finish)
           a == AnswerOf(<<c>>, usage)
           end == EndWritten(format, finish)
<1>1. c.role = role /\ c.pieces = pieces /\ c.finish = finish
  BY ChoiceIs
<1> HIDE DEF c
<1>2. a.choices = <<c>> /\ \A others : [a EXCEPT !.choices = others] = AnswerOf(others, usage)
  BY AnswerIs
<1>3. <<c>> # <<>> /\ <<c>>[1] = c
  BY SingleIsSeq
<1> HIDE DEF a
<1>4. CASE format = "openai_chat"
  <2>1. ResponseFromInternal(format, a) = a /\ end = finish
    BY <1>4 DEF ResponseFromInternal, EndWritten
  <2>2. QED
    BY <1>4, <2>1 DEF a, c, Becomes
<1>5. CASE format = "anthropic"
  <2>1. ResponseFromInternal(format, a) = InternalToAnthropicResponse(a) /\ end = FinishToAnthropic(finish)
    BY <1>5 DEF ResponseFromInternal, EndWritten
  <2>2. InternalToAnthropicResponse(a)
          = [a EXCEPT !.choices = <<Choice("assistant", c.pieces, FinishToAnthropic(c.finish))>>]
    BY <1>2, <1>3 DEF InternalToAnthropicResponse
  <2>3. ResponseFromInternal(format, a) = AnswerOf(<<Choice("assistant", pieces, end)>>, usage)
    BY <1>1, <1>2, <2>1, <2>2
  <2>4. QED
    BY <1>5, <2>3 DEF a, c, Becomes
<1>6. CASE format = "gemini"
  <2> DEFINE written == WrittenFor(pieces)
             others == OrEmptyText(written)
  <2>1. ResponseFromInternal(format, a) = InternalToGeminiResponse(a) /\ end = FinishToGemini(finish)
    BY <1>6 DEF ResponseFromInternal, EndWritten
  <2>2. InternalToGeminiResponse(a)
          = [a EXCEPT !.choices =
               <<Choice("model", OrEmptyText(WrittenFor(c.pieces)), FinishToGemini(c.finish))>>]
    BY <1>2, <1>3 DEF InternalToGeminiResponse, WrittenFor, WriteFor, Each
  <2>3. /\ PiecesOK(written) /\ TextsOf(written) = TextsOf(pieces)
        /\ CallsOf("{}", pieces) = CallsOf("broken", written)
    BY WrittenForKeeps
  <2>4. ResponseFromInternal(format, a) = AnswerOf(<<Choice("model", others, end)>>, usage)
    BY <1>1, <1>2, <2>1, <2>2
  <2> HIDE DEF written
  <2>5. /\ FlattenSeq(TextsOf(others)) = FlattenSeq(TextsOf(written))
        /\ CallsOf("broken", others) = CallsOf("broken", written)
        /\ PiecesOK(others)
    BY <2>3, OrEmptyTextTells
  <2> HIDE DEF others
  <2>6. QED
    BY <1>6, <2>3, <2>4, <2>5 DEF a, c, Becomes
<1>7. QED
  BY <1>4, <1>5, <1>6 DEF Converted

LEMMA EndsNamed ==
  ASSUME NEW format \in Formats, NEW end \in {"done", "called", "cut", "filtered"}
  PROVE  EndOf(format, end) \in EndsOf(format)
<1>1. CASE format \in OpenAIFormats
  BY <1>1 DEF EndOf, EndsOf
<1>2. CASE format = "anthropic"
  BY <1>2 DEF EndOf, EndsOf, OpenAIFormats
<1>3. CASE format = "gemini"
  BY <1>3 DEF EndOf, EndsOf, OpenAIFormats
<1>4. QED
  BY <1>1, <1>2, <1>3 DEF Formats

(* What upstreams answer. *)
LEMMA AnswersOK ==
  ASSUME NEW format \in Formats, NEW reply \in Answers(format)
  PROVE  AnswerOK(format, reply)
<1> DEFINE T(i) == Text(<<<<turn, 4 + i>>>>)
           C(i, args) == Call(IF format = "gemini" THEN <<>> ELSE <<turn, i>>, <<turn, i>>, args)
           Mixed(args) == <<T(1), C(1, "given"), T(2), C(2, args)>>
           Talk(args) == IF format \in OpenAIFormats THEN TextsThenCalls(Mixed(args)) ELSE Mixed(args)
           role == IF format = "gemini" THEN "model" ELSE "assistant"
           One(pieces, end) == <<Choice(role, pieces, EndOf(format, end))>>
<1>1. ASSUME NEW pieces, PiecesOK(pieces), format = "gemini" => NoneBroken(pieces), NEW end \in {"done", "called", "cut", "filtered"}
      PROVE  ChoiceOK(format, One(pieces, end))
  BY <1>1, EndsNamed DEF ChoiceOK
<1>2. \A i : PieceOK(T(i)) /\ \A args : PieceOK(C(i, args))
  BY DEF PieceOK
<1>3. \A i : T(i).kind = "text" /\ \A args : C(i, args).args = args
  BY PieceIs
<1> HIDE DEF T, C
<1>4. ASSUME NEW p, PieceOK(p) PROVE PiecesOK(<<p>>)
  <2>1. IsSeq(<<p>>) /\ ToSet(<<p>>) = {p}
    BY SingleIsSeq, Members
  <2>2. QED
    BY <1>4, <2>1 DEF PiecesOK
<1>5. PiecesOK(<<>>)
  BY EmptyIsSeq, Members DEF PiecesOK
<1>6. ASSUME NEW args PROVE PiecesOK(Mixed(args))
  BY <1>2, ShortSeqs DEF PiecesOK
<1> HIDE DEF Mixed
<1>7. ASSUME NEW args PROVE PiecesOK(Talk(args))
  <2>1. PiecesOK(TextsThenCalls(Mixed(args)))
    BY <1>6, TextsThenCallsKeep
  <2>2. QED
    BY <1>6, <2>1
<1> HIDE DEF Talk
<1>8. ASSUME NEW args, args # "broken"
      PROVE  NoneBroken(Mixed(args)) /\ NoneBroken(<<C(1, args)>>)
  <2>1. /\ ToSet(Mixed(args)) = {T(1), C(1, "given"), T(2), C(2, args)}
        /\ ToSet(<<C(1, args)>>) = {C(1, args)}
    BY ShortSeqs, Members DEF Mixed
  <2>2. C(1, "given").args # "broken" /\ C(2, args).args # "broken" /\ C(1, args).args # "broken"
    BY <1>3, <1>8
  <2>3. QED
    BY <1>3, <2>1, <2>2 DEF NoneBroken
<1>9. NoneBroken(<<T(1)>>) /\ NoneBroken(<<>>)
  BY <1>3, Members DEF NoneBroken
<1>10. format = "gemini" => NoneBroken(Talk("given")) /\ NoneBroken(<<C(1, "{}")>>)
  BY <1>8 DEF Talk, OpenAIFormats
<1>11. /\ ChoiceOK(format, One(<<T(1)>>, "done")) /\ ChoiceOK(format, One(<<T(1)>>, "cut"))
       /\ ChoiceOK(format, One(<<>>, "filtered")) /\ ChoiceOK(format, One(<<C(1, "{}")>>, "called"))
       /\ ChoiceOK(format, One(Talk("given"), "called"))
       /\ format \in OpenAIFormats => ChoiceOK(format, One(Talk("broken"), "called"))
  <2>1. format \in OpenAIFormats => format # "gemini"
    BY DEF OpenAIFormats
  <2>2. PiecesOK(<<T(1)>>) /\ PiecesOK(<<C(1, "{}")>>) /\ PiecesOK(Talk("given")) /\ PiecesOK(Talk("broken"))
    BY <1>2, <1>4, <1>7
  <2> HIDE DEF One
  <2>3. QED
    BY <1>1, <1>5, <1>9, <1>10, <2>1, <2>2
<1> DEFINE All == {One(<<T(1)>>, "done"), One(<<T(1)>>, "cut"), One(<<>>, "filtered"),
                   One(<<C(1, "{}")>>, "called"), One(Talk("given"), "called")}
                  \cup (IF format \in OpenAIFormats THEN {One(Talk("broken"), "called")} ELSE {})
                  \cup (IF format # "anthropic" THEN {<<>>} ELSE {})
<1>12. Answers(format) = {[choices |-> choices, usage |-> Usage] : choices \in All}
  BY Zenon DEF Answers, All, One, Talk, Mixed, T, C
<1>13. PICK choices \in All : reply = AnswerOf(choices, Usage)
  BY <1>12 DEF AnswerOf
<1>14. choices = <<>> \/ ChoiceOK(format, choices)
  <2> HIDE DEF One
  <2> QED
    BY <1>11
<1>15. QED
  BY <1>13, <1>14 DEF AnswerOK

(* What is assembled of a stream. *)
LEMMA AssembledOK ==
  ASSUME NEW format \in Formats, NEW reply, AnswerOK(format, reply)
  PROVE  AnswerOK("openai_chat", Assembled(format, reply))
<1> DEFINE nothing == reply.choices = <<>>
           whole == IF nothing THEN <<>> ELSE reply.choices[1].pieces
           calls == Only({"call"}, whole)
           n == Len(calls)
           id(i) == <<turn, 1, i>>
           named == [i \in 1..n |-> IF format = "gemini" THEN [calls[i] EXCEPT !.id = id(i)] ELSE calls[i]]
           text == Text(FlattenSeq(Each(LAMBDA p : p.text, Only({"text"}, whole))))
           finish == IF nothing THEN "stop" ELSE FinishRead(format, reply.choices[1].finish)
           pieces == IF calls = <<>> THEN <<text>> ELSE named
           end == IF calls = <<>> THEN finish ELSE "tool_calls"
<1>1. /\ PiecesOK(whole)
      /\ nothing \/ reply.choices[1].finish \in EndsOf(format)
  <2>1. PICK choices, usage : reply = AnswerOf(choices, usage) /\ (choices = <<>> \/ ChoiceOK(format, choices))
    BY DEF AnswerOK
  <2>2. reply.choices = choices
    BY <2>1, AnswerIs
  <2>3. CASE choices = <<>>
    BY <2>2, <2>3, EmptyIsSeq, Members DEF PiecesOK
  <2>4. CASE ChoiceOK(format, choices)
    <3>1. PICK role, said1 : \E e \in EndsOf(format) : choices = <<Choice(role, said1, e)>> /\ PiecesOK(said1)
      BY <2>4 DEF ChoiceOK
    <3>2. PICK e \in EndsOf(format) : choices = <<Choice(role, said1, e)>> /\ PiecesOK(said1)
      BY <3>1
    <3>3. choices[1].pieces = said1 /\ choices[1].finish = e
      <4> DEFINE c == Choice(role, said1, e)
      <4>1. c.pieces = said1 /\ c.finish = e
        BY ChoiceIs
      <4> HIDE DEF c
      <4>2. choices[1] = c
        BY <3>2 DEF c
      <4>3. QED
        BY <4>1, <4>2
    <3>4. choices # <<>>
      BY <3>2, SingleIsSeq
    <3>5. QED
      BY <2>2, <3>2, <3>3, <3>4
  <2>5. QED
    BY <2>1, <2>3, <2>4
<1> HIDE DEF whole
<1>2. \A e \in EndsOf(format) : FinishRead(format, e) \in EndsOf("openai_chat")
  <2>1. CASE format \in OpenAIFormats
    BY <2>1 DEF FinishRead, EndsOf, OpenAIFormats
  <2>2. CASE format = "anthropic"
    BY <2>2 DEF FinishRead, EndsOf, OpenAIFormats
  <2>3. CASE format = "gemini"
    BY <2>3 DEF FinishRead, EndsOf, OpenAIFormats
  <2>4. QED
    BY <2>1, <2>2, <2>3 DEF Formats
<1>3. end \in EndsOf("openai_chat")
  <2>1. {"stop", "tool_calls"} \subseteq EndsOf("openai_chat")
    BY DEF EndsOf, OpenAIFormats
  <2>2. QED
    BY <1>1, <1>2, <2>1
<1>4. IsSeq(whole) /\ \A p \in ToSet(whole) : PieceOK(p)
  BY <1>1 DEF PiecesOK
<1>5. IsSeq(calls) /\ \A p \in ToSet(calls) : PieceOK(p) /\ p.kind = "call"
  BY <1>4, OnlyElements
<1>6. PieceOK(text)
  BY DEF PieceOK
<1> HIDE DEF calls, text
<1>7. n \in Nat /\ \A i \in 1..n : PieceOK(calls[i]) /\ calls[i].kind = "call"
  BY <1>5, ElementsOf
<1>8. PiecesOK(<<text>>)
  BY <1>6, SingleIsSeq, Members DEF PiecesOK
<1>9. PiecesOK(named)
  <2>1. DOMAIN named = 1..n /\ named = [i \in 1..n |-> named[i]]
    OBVIOUS
  <2>2. ASSUME NEW i \in 1..n PROVE PieceOK(named[i])
    <3> DEFINE p == calls[i]
    <3>1. PieceOK(p) /\ p.kind = "call"
      BY <1>7
    <3>2. named[i] = IF format = "gemini" THEN [p EXCEPT !.id = id(i)] ELSE p
      OBVIOUS
    <3> HIDE DEF p, named, id
    <3>3. PICK x, name, args : p = Call(x, name, args)
      BY <3>1, PieceIs DEF PieceOK
    <3>4. [p EXCEPT !.id = id(i)] = Call(id(i), name, args)
      BY <3>3 DEF Call
    <3>5. PieceOK(Call(id(i), name, args))
      BY DEF PieceOK
    <3>6. QED
      BY <3>1, <3>2, <3>4, <3>5
  <2> HIDE DEF named, n
  <2>3. IsSeq(named) /\ \A e \in ToSet(named) : \E i \in 1..n : e = named[i]
    BY <1>7, <2>1, SeqGiven
  <2>4. QED
    BY <2>2, <2>3 DEF PiecesOK
<1>10. Assembled(format, reply) = AnswerOf(<<Choice("assistant", pieces, end)>>, reply.usage)
  BY Zenon DEF Assembled, AnswerOf, whole, calls, text
<1>11. PiecesOK(pieces)
  BY <1>8, <1>9
<1> HIDE DEF pieces, end
<1>12. ChoiceOK("openai_chat", <<Choice("assistant", pieces, end)>>)
  BY <1>3, <1>11 DEF ChoiceOK
<1>13. QED
  BY <1>10, <1>12 DEF AnswerOK

LEMMA UnreadOK == AnswerOK("openai_chat", Unread)
<1> DEFINE empty == Text(<<>>)
           pieces == <<empty>>
           usage == <<0, 0>>
<1>1. PieceOK(empty)
  BY DEF PieceOK
<1> HIDE DEF empty
<1>2. PiecesOK(pieces)
  BY <1>1, SingleIsSeq, Members DEF PiecesOK
<1> HIDE DEF pieces
<1>3. "stop" \in EndsOf("openai_chat")
  BY DEF EndsOf, OpenAIFormats
<1>4. Unread = AnswerOf(<<Choice("assistant", pieces, "stop")>>, usage)
  BY DEF Unread, AnswerOf, pieces, empty
<1> HIDE DEF usage
<1>5. ChoiceOK("openai_chat", <<Choice("assistant", pieces, "stop")>>)
  BY <1>2, <1>3 DEF ChoiceOK
<1>6. QED
  BY <1>4, <1>5 DEF AnswerOK

LEMMA HeardOK ==
  ASSUME upstream \in Formats, NEW reply \in Answers(upstream), NEW heard \in Heard(reply)
  PROVE  heard.format \in Formats /\ AnswerOK(heard.format, heard.answer)
<1>1. AnswerOK(upstream, reply)
  BY AnswersOK
<1>2. AnswerOK("openai_chat", Assembled(upstream, reply))
  BY <1>1, AssembledOK
<1>3. \/ heard = [format |-> upstream, answer |-> reply]
      \/ heard = [format |-> "openai_chat", answer |-> Assembled(upstream, reply)]
      \/ heard = [format |-> "openai_chat", answer |-> Unread]
  BY DEF Heard
<1>4. "openai_chat" \in Formats
  BY DEF Formats, OpenAIFormats
<1>5. QED
  BY <1>1, <1>2, <1>3, <1>4, UnreadOK

(* What the client is given of an answer that was converted. *)
Given(from, a, to, r) ==
  /\ r.usage = a.usage
  /\ IF a.choices = <<>> THEN r.choices = <<>> \/ to = "gemini" ELSE
     /\ FlattenSeq(TextsOf(a.choices[1].pieces)) = FlattenSeq(TextsOf(r.choices[1].pieces))
     /\ CallsOf(Becomes(to), a.choices[1].pieces)
          = CallsOf("broken", r.choices[1].pieces)
     /\ SameEnd(from, a.choices[1].finish, to, r.choices[1].finish)

(* The shape of it. *)
Shown(a, r) ==
  IF a.choices = <<>>
    THEN r.choices = <<>> \/ \E role, end : r.choices = <<Choice(role, OrEmptyText(<<>>), end)>>
    ELSE \E role, pieces, end : r.choices = <<Choice(role, pieces, end)>> /\ PiecesOK(pieces)

(* Whether it can be written for Anthropic. *)
Writable(a) ==
  /\ a.choices # <<>>
  /\ \A p \in ToSet(Only({"call"}, a.choices[1].pieces)) : p.args # "broken"

LEMMA ConvertedAnswer ==
  ASSUME NEW from \in Converted, NEW to \in Converted, from # to,
         NEW a, AnswerOK(from, a), NEW fresh
  PROVE  LET converted == ConvertResponse(from, to, a, fresh)
         IN IF converted = <<>> THEN to = "anthropic" /\ ~Writable(a)
            ELSE /\ \E r : converted = <<r>> /\ Given(from, a, to, r) /\ Shown(a, r)
                 /\ to = "anthropic" => Writable(a)
<1> DEFINE ir == ResponseToInternal(from, a, fresh)
           r == ResponseFromInternal(to, ir)
           refused == to = "anthropic" /\ (ir.choices = <<>> \/
                        Unwritable(to, Only({"call"}, ir.choices[1].pieces)))
<1>1. ConvertResponse(from, to, a, fresh) = IF refused THEN <<>> ELSE <<r>>
  <2>1. "openai_responses" \notin {from, to}
    BY DEF Converted
  <2>2. QED
    BY <2>1 DEF ConvertResponse
<1> SUFFICES /\ refused => to = "anthropic" /\ ~Writable(a)
             /\ ~refused => Given(from, a, to, r) /\ Shown(a, r) /\ (to = "anthropic" => Writable(a))
  <2>1. <<r>> # <<>>
    BY SingleIsSeq
  <2> HIDE DEF r, refused
  <2>2. QED
    BY <1>1, <2>1
<1>2. PICK choices, usage : a = AnswerOf(choices, usage) /\ (choices = <<>> \/ ChoiceOK(from, choices))
  BY DEF AnswerOK
<1>3. a.choices = choices /\ a.usage = usage
  BY <1>2, AnswerIs
<1>4. CASE choices = <<>>
  <2>1. ir = AnswerOf(<<>>, usage)
    BY <1>2, <1>4, ReadNothing
  <2>2. ir.choices = <<>> /\ ~Writable(a)
    BY <1>3, <1>4, <2>1, AnswerIs DEF Writable
  <2> SUFFICES ASSUME to # "anthropic" PROVE Given(from, a, to, r) /\ Shown(a, r)
    BY <2>2
  <2>3. r.usage = usage /\ (r.choices = <<>> \/ (to = "gemini" /\
          \E role, end : r.choices = <<Choice(role, OrEmptyText(<<>>), end)>>))
    <3>1. ir.choices = <<>> /\ ir.usage = usage
          /\ \A others : [ir EXCEPT !.choices = others] = AnswerOf(others, usage)
      BY <2>1, AnswerIs
    <3> HIDE DEF ir
    <3>2. CASE to = "openai_chat"
      <4>1. r = ir
        BY <3>2 DEF ResponseFromInternal
      <4>2. QED
        BY <3>1, <4>1
    <3>3. CASE to = "gemini"
      <4> DEFINE others == <<Choice("model", OrEmptyText(<<>>), "")>>
      <4>1. r = InternalToGeminiResponse(ir)
        BY <3>3 DEF ResponseFromInternal
      <4>2. InternalToGeminiResponse(ir) = [ir EXCEPT !.choices = others]
        BY <3>1 DEF InternalToGeminiResponse
      <4> HIDE DEF others, r
      <4>3. AnswerOf(others, usage).usage = usage /\ AnswerOf(others, usage).choices = others
        BY AnswerIs
      <4>4. r.usage = usage /\ r.choices = others
        BY <3>1, <4>1, <4>2, <4>3
      <4>5. QED
        BY <3>3, <4>4 DEF others
    <3>4. QED
      BY <3>2, <3>3 DEF Converted
  <2>4. Given(from, a, to, r) /\ Shown(a, r)
    <3> HIDE DEF r
    <3> QED
      BY <1>3, <1>4, <2>3 DEF Given, Shown
  <2>5. QED
    BY <2>4
<1>5. CASE ChoiceOK(from, choices)
  <2>1. PICK role, pieces : \E e \in EndsOf(from) : choices = <<Choice(role, pieces, e)>> /\ PiecesOK(pieces)
    BY <1>5 DEF ChoiceOK
  <2>2. PICK end \in EndsOf(from) : choices = <<Choice(role, pieces, end)>> /\ PiecesOK(pieces)
    BY <2>1
  <2> DEFINE reason == FinishRead(from, end)
  <2>3. PICK speaker, told : ir = AnswerOf(<<Choice(speaker, told, reason)>>, usage) /\ Tells(pieces, told)
    BY <1>2, <2>2, ReadAnswer
  <2> DEFINE written == EndWritten(to, reason)
  <2>4. PiecesOK(told)
    BY <2>3 DEF Tells
  <2>5. PICK voice, shown : WrittenAs(to, usage, speaker, told, reason, voice, shown)
    <3> HIDE DEF reason
    <3> QED
      BY <2>4, WrittenAnswer
  <2>6. to = "anthropic" => (refused <=> ~Writable(a))
    <3> DEFINE calls == Only({"call"}, pieces)
               others == Only({"call"}, told)
    <3>1. ir.choices # <<>> /\ ir.choices[1].pieces = told
      <4>1. ir.choices = <<Choice(speaker, told, reason)>>
        BY <2>3, AnswerIs
      <4>2. QED
        BY <4>1, ChoiceAlone
    <3>2. a.choices # <<>> /\ a.choices[1].pieces = pieces
      BY <1>3, <2>2, ChoiceAlone
    <3>3. /\ IsSeq(calls) /\ IsSeq(others)
          /\ CallsOf("broken", pieces) = CallsOf("broken", told)
      <4>1. IsSeq(pieces) /\ IsSeq(told)
        BY <2>2, <2>4 DEF PiecesOK
      <4>2. QED
        BY <2>3, <4>1, OnlyElements DEF Tells
    <3>4. (\A p \in ToSet(calls) : p.args # "broken") => ~Unwritable("anthropic", others)
      BY <3>3, Unbroken
    <3>5. (\A p \in ToSet(others) : p.args # "broken") => ~Unwritable("anthropic", calls)
      BY <3>3, Unbroken
    <3>6. \A t \in {calls, others} :
            ~Unwritable("anthropic", t) => \A p \in ToSet(t) : p.args # "broken"
      <4> HIDE DEF calls, others
      <4> QED
        BY <3>3, ElementsOf DEF Unwritable
    <3>7. Writable(a) <=> \A p \in ToSet(calls) : p.args # "broken"
      BY <3>2 DEF Writable
    <3>8. to = "anthropic" => (refused <=> Unwritable("anthropic", others))
      BY <3>1
    <3> HIDE DEF calls, others, refused
    <3>9. QED
      BY <3>4, <3>5, <3>6, <3>7, <3>8
  <2>7. r = AnswerOf(<<Choice(voice, shown, written)>>, usage)
    BY <2>3, <2>5 DEF WrittenAs
  <2> HIDE DEF ir, r, reason, written
  <2>8. r.usage = usage /\ r.choices = <<Choice(voice, shown, written)>>
    BY <2>7, AnswerIs
  <2>9. /\ r.choices[1].pieces = shown /\ r.choices[1].finish = written
        /\ choices # <<>> /\ choices[1].pieces = pieces /\ choices[1].finish = end
    BY <2>2, <2>8, ChoiceAlone
  <2>10. SameEnd(from, end, to, written)
    BY EndKept DEF reason, written
  <2>11. FlattenSeq(TextsOf(pieces)) = FlattenSeq(TextsOf(shown))
    BY <2>3, <2>5 DEF Tells, WrittenAs
  <2>12. CallsOf(Becomes(to), pieces) = CallsOf("broken", shown)
    BY <2>3, <2>5 DEF Tells, Becomes, WrittenAs
  <2>13. Given(from, a, to, r)
    BY <1>3, <2>8, <2>9, <2>10, <2>11, <2>12 DEF Given
  <2>14. Shown(a, r)
    BY <1>3, <2>5, <2>8, <2>9 DEF Shown, WrittenAs
  <2>15. QED
    BY <2>6, <2>13, <2>14 DEF r
<1>6. QED
  BY <1>2, <1>4, <1>5

(* AnswerKept in these words. *)
AnswerGiven ==
  given # <<>> /\ answer.format # client =>
    IF ~Convertible THEN given = answer
    ELSE given.format = client /\ Given(answer.format, answer.answer, client, given.answer)

LEMMA AnswerKeptIs == AnswerKept <=> AnswerGiven
<1>1. ASSUME NEW s
      PROVE  /\ CallsOf(Becomes(client), s)
                  = Each(LAMBDA c : <<c.name, IF client = "gemini" /\ c.args = "broken" THEN "{}"
                                              ELSE c.args>>, Only({"call"}, s))
             /\ CallsOf("broken", s) = Each(LAMBDA c : <<c.name, c.args>>, Only({"call"}, s))
  <2> DEFINE t == Only({"call"}, s)
             becomes == Becomes(client)
  <2>1. \A p : CallKept("broken", p) = <<p.name, p.args>>
    BY DEF CallKept
  <2>2. \A p : CallKept(becomes, p)
                 = <<p.name, IF client = "gemini" /\ p.args = "broken" THEN "{}" ELSE p.args>>
    BY DEF CallKept, Becomes
  <2>3. /\ CallsOf("broken", s) = [i \in 1..Len(t) |-> CallKept("broken", t[i])]
        /\ CallsOf(becomes, s) = [i \in 1..Len(t) |-> CallKept(becomes, t[i])]
    BY DEF CallsOf, Each
  <2> HIDE DEF t, becomes
  <2>4. [i \in 1..Len(t) |-> CallKept("broken", t[i])] = Each(LAMBDA c : <<c.name, c.args>>, t)
    BY <2>1 DEF Each
  <2>5. [i \in 1..Len(t) |-> CallKept(becomes, t[i])]
          = Each(LAMBDA c : <<c.name, IF client = "gemini" /\ c.args = "broken" THEN "{}"
                                      ELSE c.args>>, t)
    BY <2>2 DEF Each
  <2>6. QED
    BY <2>3, <2>4, <2>5, Zenon DEF t, becomes
<1> DEFINE a == answer.answer
           g == given.answer
           told == Each(LAMBDA c : <<c.name, IF client = "gemini" /\ c.args = "broken" THEN "{}"
                                             ELSE c.args>>, Only({"call"}, a.choices[1].pieces))
           shown == Each(LAMBDA c : <<c.name, c.args>>, Only({"call"}, g.choices[1].pieces))
<1>2. /\ told = CallsOf(Becomes(client), a.choices[1].pieces)
      /\ shown = CallsOf("broken", g.choices[1].pieces)
  BY <1>1
<1>3. AnswerKept <=>
        (given # <<>> /\ answer.format # client => IF ~Convertible THEN given = answer ELSE
           /\ given.format = client
           /\ g.usage = a.usage
           /\ IF a.choices = <<>> THEN g.choices = <<>> \/ client = "gemini" ELSE
              /\ FlattenSeq(TextsOf(a.choices[1].pieces)) = FlattenSeq(TextsOf(g.choices[1].pieces))
              /\ told = shown
              /\ SameEnd(answer.format, a.choices[1].finish, client, g.choices[1].finish))
  BY Zenon DEF AnswerKept
<1> HIDE DEF told, shown, a, g
<1>4. QED
  BY <1>2, <1>3 DEF AnswerGiven, Given, a, g

LEMMA AnswerKeptBecomes == AnswerKept' <=> AnswerGiven'
BY AnswerKeptIs, PTL

LEMMA AnswerKeeps ==
  ASSUME Typed, Answer
  PROVE  AnswerKept'
<1> DEFINE from == answer'.format
           a == answer'.answer
           fresh == <<turn, 0>>
           converted == ConvertResponse(from, client, a, fresh)
<1>1. client \in Formats /\ upstream \in Formats
  <2>1. phase = "sent"
    BY DEF Answer
  <2>2. QED
    BY <2>1, ConversationAssumption DEF Typed, TypesOK, TypeOK
<1>2. PICK reply \in Answers(upstream) : answer' \in Heard(reply)
  BY DEF Answer
<1>3. from \in Formats /\ AnswerOK(from, a)
  BY <1>1, <1>2, HeardOK
<1>4. given' = IF converted = <<>> THEN answer' ELSE [format |-> client, answer |-> converted[1]]
  BY DEF Answer
<1>5. client' = client
  BY DEF Answer
<1> SUFFICES ASSUME from # client
             PROVE  IF ~Convertible' THEN given' = answer'
                    ELSE given'.format = client /\ Given(from, a, client, given'.answer)
  BY <1>5, AnswerKeptBecomes DEF AnswerGiven
<1>6. Convertible' <=> /\ "openai_responses" \notin {from, client}
                       /\ client = "anthropic" => Writable(a)
  BY <1>5 DEF Convertible, Writable
<1>7. CASE "openai_responses" \in {from, client}
  <2>1. converted = <<>>
    BY <1>7 DEF ConvertResponse
  <2>2. QED
    BY <1>4, <1>6, <1>7, <2>1
<1>8. CASE "openai_responses" \notin {from, client}
  <2>1. from \in Converted /\ client \in Converted
    BY <1>1, <1>3, <1>8 DEF Formats, OpenAIFormats, Converted
  <2>2. IF converted = <<>> THEN client = "anthropic" /\ ~Writable(a)
        ELSE /\ \E r : converted = <<r>> /\ Given(from, a, client, r)
             /\ client = "anthropic" => Writable(a)
    <3> HIDE DEF from, a, fresh
    <3>1. from # client /\ AnswerOK(from, a)
      BY <1>3
    <3>2. QED
      BY <2>1, <3>1, ConvertedAnswer
  <2>3. CASE converted = <<>>
    BY <1>4, <1>6, <1>8, <2>2, <2>3
  <2>4. CASE converted # <<>>
    <3>1. PICK r : converted = <<r>> /\ Given(from, a, client, r)
      BY <2>2, <2>4
    <3>2. given'.format = client /\ given'.answer = r
      <4>1. converted[1] = r
        BY <3>1, SingleIsSeq
      <4>2. QED
        BY <1>4, <2>4, <4>1
    <3>3. QED
      BY <1>6, <1>8, <2>2, <2>4, <3>1, <3>2
  <2>5. QED
    BY <2>3, <2>4
<1>9. QED
  BY <1>7, <1>8

LEMMA AnswerStep ==
  ASSUME Typed, AnswerKept, [ExchangeNext]_all
  PROVE  AnswerKept'
<1>1. ASSUME UNCHANGED <<given, answer, client>> PROVE AnswerKept'
  BY <1>1, AnswerKeptIs, AnswerKeptBecomes DEF AnswerGiven, Convertible
<1>2. CASE UNCHANGED vars
  BY <1>1, <1>2 DEF vars, turnVars
<1>3. CASE Next
  <2>1. CASE Ask
    <3>1. given' = <<>>
      BY <2>1 DEF Ask
    <3>2. QED
      BY <3>1 DEF AnswerKept
  <2>2. CASE Relay
    <3>1. UNCHANGED <<given, answer, client>>
      BY <2>2 DEF Relay
    <3>2. QED
      BY <1>1, <3>1
  <2>3. CASE Over
    BY <1>2, <2>3 DEF Over
  <2>4. QED
    BY <1>3, <2>1, <2>2, <2>3, AnswerKeeps DEF Next
<1>4. CASE BeginStream
  <2>1. UNCHANGED <<given, answer, client>>
    BY <1>4 DEF BeginStream
  <2>2. QED
    BY <1>1, <2>1
<1>5. QED
  BY <1>2, <1>3, <1>4 DEF ExchangeNext, all

(* An answer that the gateway has got as a whole, or that                  *)
(* StreamToNonStream made of a stream (without the text beside calls), and *)
(* that is of another format than the client's: if it can be converted,    *)
(* the client is given its texts and calls, its usage and the reason for   *)
(* its end in the client's format; if it cannot, as anything from or to    *)
(* Responses and, to Anthropic, one without a choice or with arguments     *)
(* that are no JSON, it is given as it is (handler.go:401-407, 551-557;    *)
(* the six converters of answers).                                         *)
THEOREM ExchangeAnswerKept == ExchangeSpec => []AnswerKept
<1>1. ExchangeInit => AnswerKept
  BY DEF ExchangeInit, Init, AnswerKept
<1>2. Typed /\ AnswerKept /\ [ExchangeNext]_all => (Typed /\ AnswerKept)'
  BY TypedStep, AnswerStep
<1>3. QED
  BY <1>1, <1>2, TypedInit, PTL DEF ExchangeSpec

----------------------------------------------------------------------------
(* The calls that a conversation holds, and those that were said. *)

LEMMA SaidSayings ==
  ASSUME NEW told, NEW speaker, NEW message, NEW pieces, IsSeq(pieces)
  PROVE  /\ IsSeq(Sayings(speaker, message, pieces))
         /\ CallsSaid(told, Sayings(speaker, message, pieces)) = MadeBy(told, pieces)
<1> DEFINE s == Sayings(speaker, message, pieces)
           n == Len(pieces)
           h == [p \in ToSet(pieces) |-> IF p.kind \in {"call"} THEN <<Made(told, p)>> ELSE <<>>]
           f == SpeakersOf(told, ToSet(s))
<1>1. n \in Nat
  BY ElementsOf
<1>2. DOMAIN s = 1..n /\ s = [i \in 1..n |-> s[i]] /\ \A i \in 1..n : s[i].piece = pieces[i]
  BY DEF Sayings
<1>3. IsSeq(s) /\ Len(s) = n
  <2> HIDE DEF s, n
  <2> QED
    BY <1>1, <1>2, SeqGiven
<1>4. CallsSaid(told, s) = Gather(f, s)
  <2> HIDE DEF s
  <2> QED
    BY <1>3, SaidIs
<1>5. \A i \in 1..n : pieces[i] \in ToSet(pieces)
  BY ElementsOf
<1>6. \A i \in 1..n : s[i] \in ToSet(s)
  <2> HIDE DEF s
  <2> QED
    BY <1>3, ElementsOf
<1> HIDE DEF s
<1>7. \A i \in 1..n : f[s[i]] = h[pieces[i]]
  BY <1>2, <1>5, <1>6 DEF SpeakersOf
<1> HIDE DEF f, h
<1>8. Through(f, s) = Through(h, pieces)
  BY <1>3, <1>7 DEF Through
<1>9. MadeBy(told, pieces) = Gather(h, pieces)
  BY MadeByIs DEF h
<1>10. QED
  BY <1>3, <1>4, <1>8, <1>9 DEF Gather, s

(* The calls that a message of a request tells, with the voices that tell them. *)
Told(m) == Each(LAMBDA c : <<Voice(m.role), c.name, c.args>>, Only({"call"}, m.pieces))

LEMMA NoneTold ==
  ASSUME NEW role, NEW pieces, IsSeq(pieces), \A p \in ToSet(pieces) : p.kind \notin {"call"}
  PROVE  Told(Message(role, pieces)) = <<>>
<1> DEFINE m == Message(role, pieces)
           calls == Only({"call"}, m.pieces)
<1>1. m.pieces = pieces
  BY MessageIs
<1>2. calls = <<>>
  BY <1>1, OnlyNone
<1>3. Told(m) = [i \in 1..Len(calls) |-> <<Voice(m.role), calls[i].name, calls[i].args>>]
  BY DEF Told, Each
<1> HIDE DEF calls, m
<1>4. Told(m) = <<>>
  BY <1>2, <1>3, EmptyIsSeq
<1>5. QED
  BY <1>4 DEF m

LEMMA AssistantTold ==
  ASSUME NEW role, Voice(role) = "assistant", NEW pieces, NEW others, Only({"call"}, pieces) = others,
         NEW told, NEW calls, IsSeq(calls), \A p \in ToSet(calls) : p.kind \in {"call"},
         Rewords(told, calls, others)
  PROVE  Told(Message(role, pieces)) = MadeBy(told, calls)
<1> DEFINE m == Message(role, pieces)
           a == [i \in 1..Len(calls) |-> <<"assistant", others[i].name, others[i].args>>]
           b == [i \in 1..Len(calls) |-> Made(told, calls[i])]
<1>1. m.role = role /\ m.pieces = pieces
  BY MessageIs
<1>2. Only({"call"}, calls) = calls
  BY OnlyAll
<1>3. Told(m) = a
  <2>1. Told(m) = [i \in 1..Len(Only({"call"}, m.pieces)) |->
                     <<Voice(m.role), Only({"call"}, m.pieces)[i].name, Only({"call"}, m.pieces)[i].args>>]
    BY DEF Told, Each
  <2> HIDE DEF m
  <2>2. QED
    BY <1>1, <2>1 DEF Rewords
<1>4. MadeBy(told, calls) = b
  BY <1>2 DEF MadeBy, Each
<1>5. a = b
  BY DEF Made, Rewords
<1>6. QED
  BY <1>3, <1>4, <1>5

LEMMA OpenAITold ==
  ASSUME NEW im, InternalOK(im)
  PROVE  Told(ToOpenAIMessage(im)) = MadeBy("broken", im.calls)
<1>1. /\ IsSeq(im.content) /\ \A p \in ToSet(im.content) : p.kind \in {"text", "image"}
      /\ IsSeq(im.calls) /\ \A p \in ToSet(im.calls) : p.kind \in {"call"}
      /\ IsSeq(im.result) /\ \A p \in ToSet(im.result) : p.kind \in {"result"}
  BY DEF InternalOK
<1>2. CASE im.result = <<>>
  <2> DEFINE pieces == im.content \o im.calls
  <2>1. ToOpenAIMessage(im) = Message(im.role, pieces)
    BY <1>2 DEF ToOpenAIMessage
  <2>2. Only({"call"}, pieces) = im.calls
    <3>1. Only({"call"}, im.content) = <<>>
      BY <1>1, OnlyNone
    <3>2. Only({"call"}, im.calls) = im.calls
      BY <1>1, OnlyAll
    <3>3. Only({"call"}, pieces) = Only({"call"}, im.content) \o Only({"call"}, im.calls)
      BY <1>1, OnlyConcat
    <3>4. QED
      BY <1>1, <3>1, <3>2, <3>3, Concat
  <2>3. CASE im.calls = <<>>
    <3>1. IsSeq(pieces) /\ \A p \in ToSet(pieces) : p.kind \notin {"call"}
      BY <1>1, <2>3, Concat
    <3>2. QED
      BY <2>1, <2>3, <3>1, NoneTold, MadeByNone
  <2>4. CASE im.calls # <<>>
    <3>1. Voice(im.role) = "assistant"
      BY <2>4 DEF InternalOK, Voice
    <3>2. Rewords("broken", im.calls, im.calls)
      BY DEF Rewords
    <3> HIDE DEF pieces
    <3>3. QED
      BY <1>1, <2>1, <2>2, <3>1, <3>2, AssistantTold
  <2>5. QED
    BY <2>3, <2>4
<1>3. CASE im.result # <<>>
  <2> DEFINE Again(r) == Result(r.id, <<>>, r.text, FALSE)
             anew == [r \in ToSet(im.result) |-> Result(r.id, <<>>, r.text, FALSE)]
             results == Through(anew, im.result)
             pieces == im.calls \o results
  <2>1. im.calls = <<>>
    BY <1>3 DEF InternalOK
  <2>2. Each(Again, im.result) = results
    BY <1>1, ElementsOf DEF Each, Through
  <2>3. ToOpenAIMessage(im) = Message(im.role, pieces)
    BY <1>3, <2>2 DEF ToOpenAIMessage
  <2>4. IsSeq(results) /\ \A p \in ToSet(results) : p.kind \notin {"call"}
    <3>1. \A r \in ToSet(im.result) : anew[r].kind \notin {"call"}
      BY DEF Result
    <3> HIDE DEF anew
    <3>2. IsSeq(results) /\ Len(results) = Len(im.result)
          /\ \A i \in 1..Len(im.result) : results[i] = anew[im.result[i]]
      BY <1>1, ThroughIs
    <3> HIDE DEF results
    <3>3. QED
      BY <1>1, <3>1, <3>2, ElementsOf
  <2>5. pieces = results
    BY <2>1, <2>4, Concat
  <2> HIDE DEF results, pieces
  <2>6. QED
    BY <2>1, <2>3, <2>4, <2>5, NoneTold, MadeByNone
<1>4. QED
  BY <1>2, <1>3

LEMMA AnthropicTold ==
  ASSUME NEW im, InternalOK(im)
  PROVE  Told(ToAnthropicMessage(im)) = MadeBy("broken", im.calls)
<1>1. /\ IsSeq(im.content) /\ \A p \in ToSet(im.content) : p.kind \in {"text", "image"}
      /\ IsSeq(im.calls) /\ \A p \in ToSet(im.calls) : p.kind \in {"call"}
      /\ IsSeq(im.result) /\ \A p \in ToSet(im.result) : p.kind \in {"result"}
  BY DEF InternalOK
<1>2. im.role # "assistant" => im.calls = <<>>
  BY DEF InternalOK
<1>3. CASE im.role = "tool"
  <2>1. ToAnthropicMessage(im) = Message("user", im.result)
    BY <1>3 DEF ToAnthropicMessage
  <2>2. \A p \in ToSet(im.result) : p.kind \notin {"call"}
    BY <1>1
  <2>3. QED
    BY <1>1, <1>2, <1>3, <2>1, <2>2, NoneTold, MadeByNone
<1>4. CASE im.role = "assistant"
  <2> DEFINE text == FirstText(im.content)
             texts == IF text = <<>> THEN <<>> ELSE <<Text(text)>>
             pieces == texts \o im.calls
  <2>1. ToAnthropicMessage(im) = Message("assistant", pieces)
    BY <1>4 DEF ToAnthropicMessage, AnthropicAssistant
  <2>2. IsSeq(texts) /\ Only({"call"}, texts) = <<>>
    <3>1. IsSeq(<<Text(text)>>) /\ Only({"call"}, <<Text(text)>>) = <<>>
      BY SingleIsSeq, OnlyOne, PieceIs
    <3>2. IsSeq(<<>>) /\ Only({"call"}, <<>>) = <<>>
      BY EmptyIsSeq, OnlyEmpty
    <3>3. QED
      BY <3>1, <3>2
  <2> HIDE DEF text, texts
  <2>3. Only({"call"}, pieces) = im.calls
    <3>1. Only({"call"}, im.calls) = im.calls
      BY <1>1, OnlyAll
    <3>2. Only({"call"}, pieces) = Only({"call"}, texts) \o Only({"call"}, im.calls)
      BY <1>1, <2>2, OnlyConcat
    <3>3. QED
      BY <1>1, <2>2, <3>1, <3>2, Concat
  <2>4. Rewords("broken", im.calls, im.calls)
    BY DEF Rewords
  <2>5. Voice("assistant") = "assistant"
    BY DEF Voice
  <2> HIDE DEF pieces
  <2>6. QED
    BY <1>1, <2>1, <2>3, <2>4, <2>5, AssistantTold
<1>5. CASE im.role \notin {"tool", "assistant"}
  <2>1. ToAnthropicMessage(im) = Message("user", WithUrls(im.content))
    BY <1>5 DEF ToAnthropicMessage
  <2>2. IsSeq(WithUrls(im.content)) /\ \A p \in ToSet(WithUrls(im.content)) : p.kind \notin {"call"}
    BY <1>1, WithUrlsIs
  <2>3. QED
    BY <1>1, <1>2, <1>5, <2>1, <2>2, NoneTold, MadeByNone
<1>6. QED
  BY <1>3, <1>4, <1>5

LEMMA GeminiTold ==
  ASSUME NEW im, InternalOK(im)
  PROVE  Told(ToGeminiContent(im)) = MadeBy(NoArgs, im.calls)
<1>1. /\ IsSeq(im.content) /\ \A p \in ToSet(im.content) : p.kind \in {"text", "image"}
      /\ IsSeq(im.calls) /\ \A p \in ToSet(im.calls) : p.kind \in {"call"}
      /\ IsSeq(im.result) /\ \A p \in ToSet(im.result) : p.kind \in {"result"}
  BY DEF InternalOK
<1>2. im.role # "assistant" => im.calls = <<>>
  BY DEF InternalOK
<1>3. IsSeq(GeminiParts(im.content)) /\ \A p \in ToSet(GeminiParts(im.content)) : p.kind \notin {"call"}
  BY <1>1, PartsAre
<1>4. CASE im.role = "tool"
  <2>1. ToGeminiContent(im) = Message("user", im.result)
    BY <1>4 DEF ToGeminiContent
  <2>2. \A p \in ToSet(im.result) : p.kind \notin {"call"}
    BY <1>1
  <2>3. QED
    BY <1>1, <1>2, <1>4, <2>1, <2>2, NoneTold, MadeByNone
<1>5. CASE im.role \notin {"tool", "assistant"}
  <2>1. ToGeminiContent(im) = Message("user", GeminiParts(im.content))
    BY <1>5 DEF ToGeminiContent
  <2>2. QED
    BY <1>2, <1>3, <1>5, <2>1, NoneTold, MadeByNone
<1>6. CASE im.role = "assistant"
  <2>1. ToGeminiContent(im) = GeminiAssistant(im)
    BY <1>6 DEF ToGeminiContent
  <2>2. CASE im.calls = <<>>
    <3>1. GeminiAssistant(im) = Message("model", GeminiParts(im.content))
      BY <2>2 DEF GeminiAssistant
    <3>2. QED
      BY <1>3, <2>1, <2>2, <3>1, NoneTold, MadeByNone
  <2>3. CASE im.calls # <<>>
    <3> DEFINE texts == Where(LAMBDA p : p.kind = "text" /\ p.text # <<>>, im.content)
               others == CallsFor(im.calls)
               pieces == texts \o others
    <3>1. GeminiAssistant(im) = Message("model", pieces)
      BY <2>3, Zenon DEF GeminiAssistant, CallsFor, CallFor, Each, NoArgs
    <3>2. IsSeq(texts) /\ ToSet(texts) \subseteq ToSet(im.content)
      BY <1>1, NotEmptyTexts
    <3>3. /\ IsSeq(others) /\ \A p \in ToSet(others) : p.kind \in {"call"}
          /\ Rewords(NoArgs, im.calls, others)
      BY <1>1, CallsForGemini
    <3> HIDE DEF texts, others
    <3>4. Only({"call"}, pieces) = others
      <4>1. Only({"call"}, texts) = <<>>
        <5>1. \A p \in ToSet(texts) : p.kind \notin {"call"}
          BY <1>1, <3>2
        <5>2. QED
          BY <3>2, <5>1, OnlyNone
      <4>2. Only({"call"}, others) = others
        BY <3>3, OnlyAll
      <4>3. Only({"call"}, pieces) = Only({"call"}, texts) \o Only({"call"}, others)
        BY <3>2, <3>3, OnlyConcat
      <4>4. QED
        BY <3>3, <4>1, <4>2, <4>3, Concat
    <3>5. Voice("model") = "assistant"
      BY DEF Voice
    <3> HIDE DEF pieces
    <3>6. QED
      BY <1>1, <2>1, <3>1, <3>3, <3>4, <3>5, AssistantTold
  <2>4. QED
    BY <2>2, <2>3
<1>7. QED
  BY <1>4, <1>5, <1>6

(* The calls of the messages that a writer makes, of all internal          *)
(* messages or of those that call.                                         *)
Keeps(keep, write, told, s) ==
  \A i \in 1..Len(s) :
    \/ keep[s[i]] = <<s[i]>> /\ Told(write[s[i]]) = MadeBy(told, s[i].calls)
    \/ keep[s[i]] = <<>> /\ s[i].calls = <<>>

LEMMA ToldThrough ==
  ASSUME NEW s, IsSeq(s), \A im \in ToSet(s) : InternalOK(im), NEW told, NEW keep, NEW write,
         Keeps(keep, write, told, s)
  PROVE  LET messages == Through(write, Gather(keep, s))
         IN FlattenSeq(Each(Told, messages)) = Gather(CallersOf(told, ToSet(s)), s)
<1> DEFINE S == ToSet(s)
           f == CallersOf(told, S)
           kept == Gather(keep, s)
           messages == Through(write, kept)
           T == ToSet(messages)
           tell == [m \in T |-> Told(m)]
           h == [im \in S |-> Told(write[im])]
<1>1. ASSUME NEW i \in 1..Len(s)
      PROVE  /\ s[i] \in S /\ f[s[i]] = MadeBy(told, s[i].calls) /\ IsSeq(f[s[i]])
             /\ s[i].calls = <<>> => f[s[i]] = <<>>
             /\ IsSeq(keep[s[i]]) /\ ToSet(keep[s[i]]) \subseteq S
  <2>1. s[i] \in S
    BY ElementsOf
  <2>2. f[s[i]] = MadeBy(told, s[i].calls)
    BY <2>1 DEF CallersOf
  <2>3. IsSeq(s[i].calls)
    BY <2>1 DEF InternalOK
  <2>4. IsSeq(MadeBy(told, s[i].calls))
    BY <2>3, MadeByIs
  <2>5. IsSeq(keep[s[i]]) /\ ToSet(keep[s[i]]) \subseteq S
    <3>1. keep[s[i]] = <<s[i]>> \/ keep[s[i]] = <<>>
      BY DEF Keeps
    <3>2. IsSeq(<<s[i]>>) /\ ToSet(<<s[i]>>) = {s[i]} /\ IsSeq(<<>>) /\ ToSet(<<>>) = {}
      BY SingleIsSeq, EmptyIsSeq, Members
    <3>3. QED
      BY <2>1, <3>1, <3>2
  <2>6. QED
    BY <2>1, <2>2, <2>4, <2>5, MadeByNone
<1>2. Gathers(keep, s)
  BY <1>1 DEF Gathers
<1>3. IsSeq(kept) /\ ToSet(kept) \subseteq S
  BY <1>1, <1>2, GathersAll, GatherElements
<1>4. /\ IsSeq(messages) /\ Len(messages) = Len(kept)
      /\ \A i \in 1..Len(kept) : messages[i] = write[kept[i]]
  <2> HIDE DEF kept
  <2> QED
    BY <1>3, ThroughIs
<1>5. /\ \A i \in 1..Len(kept) : kept[i] \in S
      /\ \A i \in 1..Len(messages) : messages[i] \in T
  <2> HIDE DEF kept, messages
  <2> QED
    BY <1>3, <1>4, ElementsOf
<1>6. Each(Told, messages) = Through(tell, messages)
  <2> HIDE DEF messages
  <2> QED
    BY <1>5 DEF Each, Through
<1>7. Twice(write, tell, h, kept)
  <2>1. \A i \in 1..Len(kept) : write[kept[i]] \in T
    BY <1>4, <1>5
  <2> HIDE DEF kept, T
  <2>2. \A i \in 1..Len(kept) : tell[write[kept[i]]] = Told(write[kept[i]])
    BY <2>1
  <2>3. \A i \in 1..Len(kept) : h[kept[i]] = Told(write[kept[i]])
    BY <1>5
  <2> HIDE DEF tell, h
  <2>4. QED
    BY <2>2, <2>3 DEF Twice
<1>8. FlattenSeq(Each(Told, messages)) = Gather(h, kept)
  <2> HIDE DEF kept, tell, h
  <2>1. Gather(tell, Through(write, kept)) = Gather(h, kept)
    BY <1>3, <1>7, ThroughTwice
  <2>2. QED
    BY <1>6, <2>1 DEF Gather
<1>9. ASSUME NEW i \in 1..Len(s)
      PROVE  Gathers(h, keep[s[i]]) /\ Gather(h, keep[s[i]]) = f[s[i]]
  <2>1. CASE keep[s[i]] = <<s[i]>> /\ Told(write[s[i]]) = MadeBy(told, s[i].calls)
    <3>1. h[s[i]] = f[s[i]] /\ IsSeq(h[s[i]])
      BY <1>1, <2>1
    <3> HIDE DEF f, h
    <3>2. Gathers(h, <<s[i]>>) /\ Gather(h, <<s[i]>>) = h[s[i]]
      BY <3>1, GatherOne
    <3>3. QED
      BY <2>1, <3>1, <3>2
  <2>2. CASE keep[s[i]] = <<>> /\ s[i].calls = <<>>
    <3> HIDE DEF f, h
    <3> QED
      BY <1>1, <2>2, GatherNone
  <2>3. QED
    BY <2>1, <2>2 DEF Keeps
<1> HIDE DEF f, h, kept, messages
<1>10. GatherEach(keep, h, f, s)
  BY <1>9 DEF GatherEach
<1>11. Gather(h, Gather(keep, s)) = Gather(f, s)
  BY <1>2, <1>10, GatherTwice
<1>12. QED
  BY <1>8, <1>11 DEF f, kept, messages

(* The calls of what is made of the messages of all roles but some. *)
LEMMA SilentTold ==
  ASSUME NEW s, IsSeq(s), \A im \in ToSet(s) : InternalOK(im), NEW roles, "assistant" \notin roles,
         NEW told, NEW write, \A im \in ToSet(s) : Told(write[im]) = MadeBy(told, im.calls)
  PROVE  FlattenSeq(Each(Told, Through(write, Silent(roles, s)))) = Gather(CallersOf(told, ToSet(s)), s)
<1> DEFINE keep == Keep(roles, ToSet(s))
<1>1. ASSUME NEW i \in 1..Len(s)
      PROVE  \/ keep[s[i]] = <<s[i]>> /\ Told(write[s[i]]) = MadeBy(told, s[i].calls)
             \/ keep[s[i]] = <<>> /\ s[i].calls = <<>>
  <2> DEFINE im == s[i]
  <2>1. im \in ToSet(s)
    BY ElementsOf
  <2> HIDE DEF im
  <2>2. keep[im] = IF im.role \notin roles THEN <<im>> ELSE <<>>
    BY <2>1 DEF Keep
  <2>3. im.role \in roles => im.calls = <<>>
    BY <2>1 DEF InternalOK
  <2>4. Told(write[im]) = MadeBy(told, im.calls)
    BY <2>1
  <2> HIDE DEF keep
  <2>5. QED
    BY <2>2, <2>3, <2>4 DEF im
<1> HIDE DEF keep
<1>2. Keeps(keep, write, told, s)
  BY <1>1 DEF Keeps
<1>3. FlattenSeq(Each(Told, Through(write, Gather(keep, s)))) = Gather(CallersOf(told, ToSet(s)), s)
  BY <1>2, ToldThrough
<1>4. Silent(roles, s) = Gather(keep, s)
  BY SilentIs DEF keep
<1>5. QED
  BY <1>3, <1>4

(* The calls of an upstream's request are those of the internal messages.  *)
LEMMA CallsWritten ==
  ASSUME NEW format \in Formats, NEW ir, IsSeq(ir.messages),
         \A im \in ToSet(ir.messages) : InternalOK(im)
  PROVE  CallsIn(FromInternal(format, ir))
           = Gather(CallersOf(Becomes(format), ToSet(ir.messages)), ir.messages)
<1> DEFINE s == ir.messages
           S == ToSet(s)
           openAI    == [im \in S |-> ToOpenAIMessage(im)]
           anthropic == [im \in S |-> ToAnthropicMessage(im)]
           gemini    == [im \in S |-> ToGeminiContent(im)]
<1>1. ASSUME NEW roles
      PROVE  LET t == Silent(roles, s)
             IN /\ Each(ToOpenAIMessage, t) = Through(openAI, t)
                /\ Each(ToAnthropicMessage, t) = Through(anthropic, t)
                /\ Each(ToGeminiContent, t) = Through(gemini, t)
  <2> DEFINE t == Silent(roles, s)
  <2>1. IsSeq(t) /\ ToSet(t) \subseteq S
    BY SilentIs
  <2> HIDE DEF t
  <2>2. \A i \in 1..Len(t) : t[i] \in S
    BY <2>1, ElementsOf
  <2> HIDE DEF S
  <2>3. Each(ToOpenAIMessage, t) = Through(openAI, t)
    BY <2>2 DEF Each, Through
  <2>4. Each(ToAnthropicMessage, t) = Through(anthropic, t)
    BY <2>2 DEF Each, Through
  <2>5. Each(ToGeminiContent, t) = Through(gemini, t)
    BY <2>2 DEF Each, Through
  <2>6. QED
    BY <2>3, <2>4, <2>5 DEF t
<1>2. \A im \in S : Told(openAI[im]) = MadeBy("broken", im.calls)
  BY OpenAITold
<1>3. \A im \in S : Told(anthropic[im]) = MadeBy("broken", im.calls)
  BY AnthropicTold
<1>4. \A im \in S : Told(gemini[im]) = MadeBy(NoArgs, im.calls)
  BY GeminiTold
<1>5. \A doc : CallsIn(doc) = FlattenSeq(Each(Told, doc.messages))
  BY Zenon DEF CallsIn, Told
<1>6. \A system, messages, stream, choice, stop, max :
        Request(system, messages, stream, choice, stop, max).messages = messages
  BY DEF Request
<1>7. Silent({}, s) = s
  BY SilentIs
<1> HIDE DEF openAI, anthropic, gemini, S
<1>8. CASE format = "openai_chat"
  <2>1. FromInternal(format, ir).messages = Each(ToOpenAIMessage, Silent({}, s))
    BY <1>6, <1>7, <1>8 DEF FromInternal, InternalToOpenAIChat
  <2>2. Becomes(format) = "broken"
    BY <1>8 DEF Becomes
  <2>3. FlattenSeq(Each(Told, Through(openAI, Silent({}, s)))) = Gather(CallersOf("broken", S), s)
    BY <1>2, SilentTold DEF S
  <2>4. QED
    BY <1>1, <1>5, <2>1, <2>2, <2>3 DEF S
<1>9. CASE format = "openai_responses"
  <2> DEFINE roles == {"system", "developer"}
  <2>1. FromInternal(format, ir).messages = Each(ToOpenAIMessage, Silent(roles, s))
    BY <1>6, <1>9 DEF FromInternal, InternalToResponses
  <2>2. Becomes(format) = "broken"
    BY <1>9 DEF Becomes
  <2>3. FlattenSeq(Each(Told, Through(openAI, Silent(roles, s)))) = Gather(CallersOf("broken", S), s)
    BY <1>2, SilentTold DEF S
  <2>4. QED
    BY <1>1, <1>5, <2>1, <2>2, <2>3 DEF S
<1>10. CASE format = "anthropic"
  <2>1. FromInternal(format, ir).messages = Each(ToAnthropicMessage, Silent({"system"}, s))
    BY <1>6, <1>10 DEF FromInternal, InternalToAnthropic
  <2>2. Becomes(format) = "broken"
    BY <1>10 DEF Becomes
  <2>3. FlattenSeq(Each(Told, Through(anthropic, Silent({"system"}, s)))) = Gather(CallersOf("broken", S), s)
    BY <1>3, SilentTold DEF S
  <2>4. QED
    BY <1>1, <1>5, <2>1, <2>2, <2>3 DEF S
<1>11. CASE format = "gemini"
  <2>1. FromInternal(format, ir).messages = Each(ToGeminiContent, Silent({"system"}, s))
    BY <1>6, <1>11 DEF FromInternal, InternalToGemini
  <2>2. Becomes(format) = NoArgs
    BY <1>11, Zenon DEF Becomes, NoArgs
  <2>3. FlattenSeq(Each(Told, Through(gemini, Silent({"system"}, s)))) = Gather(CallersOf(NoArgs, S), s)
    BY <1>4, SilentTold DEF S
  <2>4. QED
    BY <1>1, <1>5, <2>1, <2>2, <2>3 DEF S
<1>12. QED
  BY <1>8, <1>9, <1>10, <1>11 DEF Formats, OpenAIFormats

(* The messages that a client sends: only answers hold calls, and those    *)
(* hold no results.                                                        *)
MessageOK(format, m) ==
  /\ IsSeq(m.pieces) /\ \A p \in ToSet(m.pieces) : AnyPiece(p)
  /\ Only({"call"}, m.pieces) # <<>> =>
       m.role = Caller(format) /\ Only({"result"}, m.pieces) = <<>>

(* What each reader makes of a message. *)
LEMMA AnthropicReads ==
  ASSUME NEW m, MessageOK("anthropic", m)
  PROVE  ReadAs(m, FromAnthropicMessage(m))
<1> DEFINE content == AnthropicContent(m)
           calls   == Only({"call"}, m.pieces)
           results == Only({"result"}, m.pieces)
           im      == FromAnthropicMessage(m)
<1>1. IsSeq(m.pieces) /\ (calls # <<>> => m.role = "assistant" /\ results = <<>>)
  BY DEF MessageOK, Caller
<1>2. /\ im.role = m.role /\ im.content = content /\ im.calls = calls
      /\ im.result = LastOf(results)
  BY InternalIs DEF FromAnthropicMessage, AnthropicContent
<1>3. /\ IsSeq(content) /\ \A p \in ToSet(content) : p.kind \in {"text", "image"}
      /\ IsSeq(calls) /\ \A p \in ToSet(calls) : p.kind \in {"call"}
      /\ IsSeq(results) /\ \A p \in ToSet(results) : p.kind \in {"result"}
      /\ \A told : MadeBy(told, calls) = MadeBy(told, m.pieces)
  BY <1>1, PiecesRead, AnthropicContentIs
<1> HIDE DEF content, calls, results, im
<1>4. /\ IsSeq(LastOf(results)) /\ \A p \in ToSet(LastOf(results)) : p.kind \in {"result"}
      /\ results = <<>> => LastOf(results) = <<>>
  BY <1>3, LastOfIs
<1>5. InternalOK(im)
  BY <1>1, <1>2, <1>3, <1>4 DEF InternalOK
<1>6. QED
  BY <1>2, <1>3, <1>5 DEF ReadAs, im

LEMMA OpenAIReads ==
  ASSUME NEW m, MessageOK("openai_chat", m)
  PROVE  ReadAs(m, FromOpenAIMessage(m))
<1> DEFINE texts   == Only({"text", "image"}, m.pieces)
           content == IF texts = <<Text(<<>>)>> THEN <<>> ELSE texts
           calls   == Only({"call"}, m.pieces)
           results == Only({"result"}, m.pieces)
           ReadResult(r) == IF r.listed THEN [r EXCEPT !.text = <<>>] ELSE r
           read    == [r \in ToSet(results) |-> ReadResult(r)]
           result  == IF m.role # "tool" THEN <<>> ELSE Each(ReadResult, results)
           im      == FromOpenAIMessage(m)
<1>1. /\ IsSeq(m.pieces) /\ \A p \in ToSet(m.pieces) : AnyPiece(p)
      /\ calls # <<>> => m.role = "assistant"
  BY DEF MessageOK, Caller
<1>2. im.role = m.role /\ im.content = content /\ im.calls = calls /\ im.result = result
  BY InternalIs DEF FromOpenAIMessage
<1>3. /\ IsSeq(texts) /\ \A p \in ToSet(texts) : p.kind \in {"text", "image"}
      /\ IsSeq(calls) /\ \A p \in ToSet(calls) : p.kind \in {"call"}
      /\ IsSeq(results) /\ \A p \in ToSet(results) : p \in ToSet(m.pieces) /\ p.kind \in {"result"}
      /\ \A told : MadeBy(told, calls) = MadeBy(told, m.pieces)
  BY <1>1, PiecesRead
<1>4. IsSeq(content) /\ \A p \in ToSet(content) : p.kind \in {"text", "image"}
  <2> HIDE DEF texts
  <2> QED
    BY <1>3, EmptyIsSeq, Members
<1>5. \A r \in ToSet(results) : ReadResult(r).kind \in {"result"}
  <2> TAKE r \in ToSet(results)
  <2>1. r.kind = "result" /\ AnyPiece(r)
    BY <1>1, <1>3
  <2>2. PICK id, name, text, listed : r = Result(id, name, text, listed)
    BY <2>1, PieceIs, OtherPieces DEF AnyPiece, PieceOK
  <2>3. [r EXCEPT !.text = <<>>].kind = "result"
    BY <2>2, OtherPieces
  <2>4. QED
    BY <2>1, <2>3
<1> HIDE DEF ReadResult
<1>6. Each(ReadResult, results) = Through(read, results)
  <2> HIDE DEF results
  <2> QED
    BY <1>3, ElementsOf DEF Each, Through
<1>7. IsSeq(result) /\ \A p \in ToSet(result) : p.kind \in {"result"}
  <2> DEFINE done == Through(read, results)
  <2>1. \A r \in ToSet(results) : read[r].kind \in {"result"}
    BY <1>5
  <2> HIDE DEF results, read
  <2>2. /\ IsSeq(done) /\ Len(done) = Len(results)
        /\ \A i \in 1..Len(results) : done[i] = read[results[i]]
    BY <1>3, ThroughIs
  <2>3. result = <<>> \/ result = done
    BY <1>6
  <2> HIDE DEF done
  <2>4. \A p \in ToSet(done) : p.kind \in {"result"}
    BY <1>3, <2>1, <2>2, ElementsOf
  <2> HIDE DEF result
  <2>5. QED
    BY <2>2, <2>3, <2>4, EmptyIsSeq, Members
<1>8. m.role # "tool" => result = <<>>
  OBVIOUS
<1> HIDE DEF texts, content, calls, results, result, im
<1>9. InternalOK(im)
  BY <1>1, <1>2, <1>3, <1>4, <1>7, <1>8 DEF InternalOK
<1>10. QED
  BY <1>2, <1>3, <1>9 DEF ReadAs, im

LEMMA GeminiReads ==
  ASSUME NEW m, MessageOK("gemini", m), NEW fresh
  PROVE  ReadAs(m, FromGeminiContent(m, fresh))
<1> DEFINE content == Only({"text"}, m.pieces)
           calls   == Only({"call"}, m.pieces)
           results == Only({"result"}, m.pieces)
           named   == [i \in 1..Len(calls) |-> [calls[i] EXCEPT !.id = fresh \o <<i, 0>>]]
           role    == IF results # <<>> THEN "tool" ELSE
                        IF m.role = "model" THEN "assistant" ELSE m.role
           im      == FromGeminiContent(m, fresh)
<1>1. /\ IsSeq(m.pieces) /\ \A p \in ToSet(m.pieces) : AnyPiece(p)
      /\ calls # <<>> => role = "assistant" /\ results = <<>>
  BY DEF MessageOK, Caller
<1>2. im.role = role /\ im.content = content /\ im.calls = named /\ im.result = LastOf(results)
  BY InternalIs DEF FromGeminiContent
<1>3. /\ IsSeq(content) /\ \A p \in ToSet(content) : p.kind \in {"text", "image"}
      /\ IsSeq(calls) /\ \A p \in ToSet(calls) : p \in ToSet(m.pieces) /\ p.kind \in {"call"}
      /\ IsSeq(results) /\ \A p \in ToSet(results) : p.kind \in {"result"}
      /\ \A told : MadeBy(told, calls) = MadeBy(told, m.pieces)
  BY <1>1, PiecesRead
<1> HIDE DEF content, calls, results, role, im
<1>4. /\ IsSeq(LastOf(results)) /\ \A p \in ToSet(LastOf(results)) : p.kind \in {"result"}
      /\ results = <<>> => LastOf(results) = <<>>
  BY <1>3, LastOfIs
<1>5. ASSUME NEW i \in 1..Len(calls)
      PROVE  /\ calls[i].kind = "call" /\ named[i].kind = "call"
             /\ named[i].name = calls[i].name /\ named[i].args = calls[i].args
  <2> DEFINE c == calls[i]
             id == fresh \o <<i, 0>>
  <2>1. AnyPiece(c) /\ c.kind = "call"
    BY <1>1, <1>3, ElementsOf
  <2>2. named[i] = [c EXCEPT !.id = id]
    OBVIOUS
  <2> HIDE DEF c, id, named
  <2>3. PICK was, name, args : c = Call(was, name, args)
    BY <2>1, PieceIs, OtherPieces DEF AnyPiece, PieceOK
  <2>4. c.name = name /\ c.args = args
    BY <2>3, PieceIs
  <2>5. QED
    BY <2>1, <2>2, <2>3, <2>4, OtherPieces DEF c
<1>6. DOMAIN named = 1..Len(calls) /\ named = [i \in 1..Len(calls) |-> named[i]] /\ Len(calls) \in Nat
  BY <1>3, ElementsOf
<1> HIDE DEF named
<1>7. /\ IsSeq(named) /\ Len(named) = Len(calls)
      /\ \A e \in ToSet(named) : \E i \in 1..Len(calls) : e = named[i]
  BY <1>6, SeqGiven
<1>8. \A p \in ToSet(named) : p.kind \in {"call"}
  BY <1>5, <1>7
<1>9. named # <<>> => calls # <<>>
  BY <1>7, EmptyIsSeq, SameElements, <1>3
<1>10. ASSUME NEW told PROVE MadeBy(told, named) = MadeBy(told, calls)
  <2>1. Only({"call"}, named) = named /\ Only({"call"}, calls) = calls
    BY <1>3, <1>7, <1>8, OnlyAll
  <2>2. \A i \in 1..Len(calls) : Made(told, named[i]) = Made(told, calls[i])
    BY <1>5 DEF Made
  <2>3. QED
    BY <1>7, <2>1, <2>2 DEF MadeBy, Each
<1>11. InternalOK(im)
  BY <1>1, <1>2, <1>3, <1>4, <1>7, <1>8, <1>9 DEF InternalOK
<1>12. QED
  BY <1>2, <1>3, <1>10, <1>11 DEF ReadAs, im

(* What a reader makes of a document. *)
LEMMA CallsRead ==
  ASSUME NEW format \in Formats, format # "openai_responses", NEW doc, IsSeq(doc.system),
         IsSeq(doc.messages), \A m \in ToSet(doc.messages) : MessageOK(format, m), NEW fresh
  PROVE  LET s == ToInternal(format, doc, fresh).messages
         IN /\ IsSeq(s) /\ \A im \in ToSet(s) : InternalOK(im)
            /\ \A told : Gather(CallersOf(told, ToSet(s)), s) = CallsHeld(told, doc.messages)
<1> DEFINE messages == doc.messages
           n == Len(messages)
           openAI    == Each(FromOpenAIMessage, messages)
           anthropic == Each(FromAnthropicMessage, messages)
           gemini    == [i \in 1..n |-> FromGeminiContent(messages[i], Append(fresh, i))]
<1>1. n \in Nat /\ \A i \in 1..n : MessageOK(format, messages[i])
  BY ElementsOf
<1>2. \A m \in ToSet(messages) : IsSeq(m.pieces)
  BY DEF MessageOK
<1>3. ASSUME NEW u, DOMAIN u = 1..n, u = [i \in 1..n |-> u[i]],
             \A i \in 1..n : ReadAs(messages[i], u[i])
      PROVE  IsSeq(u) /\ ReadThrough(u, messages)
  <2> HIDE DEF n
  <2>1. IsSeq(u) /\ Len(u) = n
    BY <1>1, <1>3, SeqGiven
  <2>2. QED
    BY <1>3, <2>1 DEF ReadThrough, n
<1>4. IsSeq(<<>>) /\ Wordless(<<>>)
  BY EmptyIsSeq, Members DEF Wordless
<1>5. IsSeq(SystemRead(doc.system)) /\ Wordless(SystemRead(doc.system))
  BY SystemIsWordless
<1>6. CASE format = "openai_chat"
  <2>1. ToInternal(format, doc, fresh).messages = openAI
    BY <1>6 DEF ToInternal, OpenAIToInternal
  <2>2. DOMAIN openAI = 1..n /\ openAI = [i \in 1..n |-> openAI[i]]
        /\ \A i \in 1..n : openAI[i] = FromOpenAIMessage(messages[i])
    BY DEF Each
  <2> HIDE DEF openAI, n, messages
  <2>3. \A i \in 1..n : ReadAs(messages[i], openAI[i])
    BY <1>1, <1>6, <2>2, OpenAIReads
  <2>4. IsSeq(openAI) /\ ReadThrough(openAI, messages)
    BY <1>3, <2>2, <2>3
  <2>5. <<>> \o openAI = openAI
    BY <2>4, Concat
  <2> DEFINE s == <<>> \o openAI
  <2>6. /\ IsSeq(s) /\ \A im \in ToSet(s) : InternalOK(im)
        /\ \A told : Gather(CallersOf(told, ToSet(s)), s) = CallsHeld(told, messages)
    BY <1>2, <1>4, <2>4, CallersAlike DEF messages
  <2> HIDE DEF s
  <2>7. s = ToInternal(format, doc, fresh).messages
    BY <2>1, <2>5 DEF s
  <2>8. QED
    BY <2>6, <2>7 DEF messages
<1>7. CASE format = "anthropic"
  <2> DEFINE s == SystemRead(doc.system) \o anthropic
  <2>1. ToInternal(format, doc, fresh).messages = s
    BY <1>7 DEF ToInternal, AnthropicToInternal
  <2>2. DOMAIN anthropic = 1..n /\ anthropic = [i \in 1..n |-> anthropic[i]]
        /\ \A i \in 1..n : anthropic[i] = FromAnthropicMessage(messages[i])
    BY DEF Each
  <2> HIDE DEF anthropic, n, messages
  <2>3. \A i \in 1..n : ReadAs(messages[i], anthropic[i])
    BY <1>1, <1>7, <2>2, AnthropicReads
  <2>4. IsSeq(anthropic) /\ ReadThrough(anthropic, messages)
    BY <1>3, <2>2, <2>3
  <2>5. /\ IsSeq(s) /\ \A im \in ToSet(s) : InternalOK(im)
        /\ \A told : Gather(CallersOf(told, ToSet(s)), s) = CallsHeld(told, messages)
    BY <1>2, <1>5, <2>4, CallersAlike DEF messages
  <2> HIDE DEF s
  <2>6. QED
    BY <2>1, <2>5 DEF messages
<1>8. CASE format = "gemini"
  <2> DEFINE s == SystemRead(doc.system) \o gemini
  <2>1. ToInternal(format, doc, fresh).messages = s
    BY <1>8 DEF ToInternal, GeminiToInternal
  <2>2. DOMAIN gemini = 1..n /\ gemini = [i \in 1..n |-> gemini[i]]
        /\ \A i \in 1..n : gemini[i] = FromGeminiContent(messages[i], Append(fresh, i))
    OBVIOUS
  <2> HIDE DEF gemini, n, messages
  <2>3. \A i \in 1..n : ReadAs(messages[i], gemini[i])
    BY <1>1, <1>8, <2>2, GeminiReads
  <2>4. IsSeq(gemini) /\ ReadThrough(gemini, messages)
    BY <1>3, <2>2, <2>3
  <2>5. /\ IsSeq(s) /\ \A im \in ToSet(s) : InternalOK(im)
        /\ \A told : Gather(CallersOf(told, ToSet(s)), s) = CallsHeld(told, messages)
    BY <1>2, <1>5, <2>4, CallersAlike DEF messages
  <2> HIDE DEF s
  <2>6. QED
    BY <2>1, <2>5 DEF messages
<1>9. QED
  BY <1>6, <1>7, <1>8 DEF Formats, OpenAIFormats

(* Messages that call nothing hold no calls. *)
LEMMA QuietHolds ==
  ASSUME NEW format, NEW messages, AllQuiet(messages)
  PROVE  /\ \A m \in ToSet(messages) : MessageOK(format, m)
         /\ \A told : CallsHeld(told, messages) = <<>>
<1>1. ASSUME NEW m \in ToSet(messages)
      PROVE  IsSeq(m.pieces) /\ Only({"call"}, m.pieces) = <<>> /\ MessageOK(format, m)
  <2>1. IsSeq(m.pieces) /\ \A p \in ToSet(m.pieces) : AnyPiece(p) /\ p.kind \notin {"call"}
    BY <1>1 DEF AllQuiet, QuietPieces
  <2>2. Only({"call"}, m.pieces) = <<>>
    BY <2>1, OnlyNone
  <2>3. QED
    BY <2>1, <2>2 DEF MessageOK
<1>2. IsSeq(messages)
  BY DEF AllQuiet
<1>3. QED
  BY <1>1, <1>2, HeldNone

(* Sayings that make no call. *)
LEMMA SayingsOf ==
  ASSUME NEW speaker, NEW message, NEW pieces, IsSeq(pieces)
  PROVE  /\ IsSeq(Sayings(speaker, message, pieces))
         /\ \A s \in ToSet(Sayings(speaker, message, pieces)) : s.piece \in ToSet(pieces)
<1> DEFINE s == Sayings(speaker, message, pieces)
           n == Len(pieces)
<1>1. n \in Nat
  BY ElementsOf
<1>2. DOMAIN s = 1..n /\ s = [i \in 1..n |-> s[i]] /\ \A i \in 1..n : s[i].piece = pieces[i]
  BY DEF Sayings
<1> HIDE DEF s, n
<1>3. IsSeq(s) /\ \A e \in ToSet(s) : \E i \in 1..n : e = s[i]
  BY <1>1, <1>2, SeqGiven
<1>4. \A i \in 1..n : pieces[i] \in ToSet(pieces)
  BY ElementsOf DEF n
<1>5. \A e \in ToSet(s) : e.piece \in ToSet(pieces)
  BY <1>2, <1>3, <1>4
<1>6. QED
  BY <1>3, <1>5 DEF s

(* What quiet messages say. *)
SaysEach(says, messages) ==
  /\ DOMAIN says = 1..Len(messages) /\ says = [i \in 1..Len(messages) |-> says[i]]
  /\ \A i \in 1..Len(messages) :
       \E speaker, message : says[i] = Sayings(speaker, message, messages[i].pieces)

LEMMA QuietSays ==
  ASSUME NEW messages, AllQuiet(messages), NEW says, SaysEach(says, messages)
  PROVE  IsSeq(FlattenSeq(says)) /\ \A s \in ToSet(FlattenSeq(says)) : s.piece.kind # "call"
<1> DEFINE n == Len(messages)
           S == UNION {ToSet(says[i]) : i \in 1..n}
           same == [s \in ToSet(says) |-> s]
<1>1. IsSeq(messages) /\ n \in Nat
  BY ElementsOf DEF AllQuiet
<1>2. /\ DOMAIN says = 1..n /\ says = [i \in 1..n |-> says[i]]
      /\ \A i \in 1..n : \E speaker, message : says[i] = Sayings(speaker, message, messages[i].pieces)
  BY DEF SaysEach
<1>3. IsSeq(says) /\ Len(says) = n
  <2> HIDE DEF n
  <2> QED
    BY <1>1, <1>2, SeqGiven
<1>4. ASSUME NEW i \in 1..n
      PROVE  IsSeq(says[i]) /\ \A s \in ToSet(says[i]) : s.piece.kind # "call"
  <2>1. PICK speaker, message : says[i] = Sayings(speaker, message, messages[i].pieces)
    BY <1>2
  <2> DEFINE pieces == messages[i].pieces
  <2>2. IsSeq(pieces) /\ \A p \in ToSet(pieces) : p.kind # "call"
    BY <1>1, ElementsOf DEF AllQuiet, QuietPieces
  <2> HIDE DEF pieces
  <2>3. IsSeq(Sayings(speaker, message, pieces))
        /\ \A s \in ToSet(Sayings(speaker, message, pieces)) : s.piece \in ToSet(pieces)
    BY <2>2, SayingsOf
  <2>4. QED
    BY <2>1, <2>2, <2>3 DEF pieces
<1>5. \A i \in 1..n : says[i] \in ToSet(says)
  BY <1>3, ElementsOf
<1>6. \A i \in 1..n : same[says[i]] = says[i]
  BY <1>5
<1> HIDE DEF same
<1>7. Through(same, says) = says
  <2>1. /\ IsSeq(Through(same, says)) /\ Len(Through(same, says)) = Len(says)
        /\ \A i \in 1..Len(says) : Through(same, says)[i] = same[says[i]]
    BY <1>3, ThroughIs
  <2>2. QED
    BY <1>3, <1>6, <2>1, SameElements
<1>8. FlattenSeq(says) = Gather(same, says)
  BY <1>7 DEF Gather
<1>9. Gathers(same, says)
  BY <1>3, <1>4, <1>6 DEF Gathers
<1>10. \A i \in 1..Len(says) : ToSet(same[says[i]]) \subseteq S
  BY <1>3, <1>6
<1>11. \A s \in S : s.piece.kind # "call"
  BY <1>4
<1> HIDE DEF S
<1>12. ToSet(Gather(same, says)) \subseteq S
  BY <1>9, <1>10, GatherElements
<1>13. QED
  BY <1>8, <1>9, <1>11, <1>12, GathersAll

(* The openings call nothing. *)
LEMMA SystemTextsIs == IsSeq(SystemTexts) /\ IsSeq(FlattenSeq(SystemTexts))
<1> DEFINE a == <<<<0, 1>>>>
           b == <<<<0, 2>>>>
<1>1. SystemTexts = <<a, b>> /\ IsSeq(a) /\ IsSeq(b)
  BY SingleIsSeq DEF SystemTexts
<1> HIDE DEF a, b
<1>2. IsSeq(<<a, b>>) /\ AllSeqs(<<a, b>>)
  BY <1>1, ShortSeqs DEF AllSeqs
<1>3. QED
  BY <1>1, <1>2, FlattenIsSeq

LEMMA OpeningsQuiet ==
  ASSUME NEW format \in Formats, NEW o \in Openings(format)
  PROVE  IsSeq(o.system) /\ AllQuiet(o.messages)
<1> DEFINE One(role) == Message(role, Each(Text, SystemTexts))
           two == Each(LAMBDA t : Message("system", <<Text(t)>>), SystemTexts)
<1>1. ASSUME NEW system, NEW messages, NEW choice, NEW stop, NEW max
      PROVE  Opening(system, messages, choice, stop, max).system = system
             /\ Opening(system, messages, choice, stop, max).messages = messages
  BY DEF Opening
<1>2. IsSeq(SystemTexts) /\ IsSeq(FlattenSeq(SystemTexts)) /\ IsSeq(<<>>)
  BY SystemTextsIs, EmptyIsSeq
<1>3. AllQuiet(<<>>)
  BY EmptyIsSeq, Members DEF AllQuiet
<1>4. \A role : AllQuiet(<<One(role)>>)
  BY <1>2, TextsAreQuiet, QuietOne
<1>5. AllQuiet(two)
  <2> DEFINE a == Text(<<<<0, 1>>>>)
             b == Text(<<<<0, 2>>>>)
             x == Message("system", <<a>>)
             y == Message("system", <<b>>)
  <2>1. two = <<x, y>>
    BY DEF Each, SystemTexts
  <2>2. AnyPiece(a) /\ a.kind = "text" /\ AnyPiece(b) /\ b.kind = "text"
    BY PieceIs DEF AnyPiece, PieceOK
  <2>3. x.pieces = <<a>> /\ y.pieces = <<b>>
    BY MessageIs
  <2> HIDE DEF a, b, x, y, two
  <2>4. QuietPieces(<<a>>) /\ QuietPieces(<<b>>)
    BY <2>2, SingleIsSeq, Members DEF QuietPieces
  <2>5. IsSeq(<<x, y>>) /\ ToSet(<<x, y>>) = {x, y}
    BY ShortSeqs, Members
  <2>6. QED
    BY <2>1, <2>3, <2>4, <2>5 DEF AllQuiet
<1> HIDE DEF One, two
<1>6. CASE format = "openai_chat"
  <2>1. Openings(format) =
          {Opening(<<>>, two, <<"required", <<>>>>, <<"word">>, 0),
           Opening(<<>>, <<One("system")>>, <<"none", <<>>>>, <<"word">>, 9),
           Opening(<<>>, <<One("developer")>>, <<"function", <<0, 3>>>>, <<>>, 9)}
    BY <1>6, SMTT(30) DEF Openings, One, two
  <2>2. o.system = <<>> /\ (o.messages = two \/ \E role : o.messages = <<One(role)>>)
    BY <1>1, <2>1
  <2>3. QED
    BY <1>2, <1>4, <1>5, <2>2
<1>7. CASE format = "openai_responses"
  <2>1. o.system = <<FlattenSeq(SystemTexts)>> /\ o.messages = <<>>
    BY <1>1, <1>7 DEF Openings
  <2>2. QED
    BY <1>3, <2>1, SingleIsSeq
<1>8. CASE format = "anthropic"
  <2>1. (o.system = SystemTexts \/ o.system = <<>>) /\ o.messages = <<>>
    BY <1>1, <1>8, SMTT(30) DEF Openings
  <2>2. QED
    BY <1>2, <1>3, <2>1
<1>9. CASE format = "gemini"
  <2>1. (o.system = SystemTexts \/ o.system = <<>>) /\ o.messages = <<>>
    BY <1>1, <1>9, SMTT(30) DEF Openings
  <2>2. QED
    BY <1>2, <1>3, <2>1
<1>10. QED
  BY <1>6, <1>7, <1>8, <1>9 DEF Formats, OpenAIFormats

----------------------------------------------------------------------------
(* What was said is what is sent again. *)

ToldBy(format, told) == IF format = "gemini" THEN NoArgs ELSE told

(* The messages of the client hold the calls that were made, as its format *)
(* writes them.                                                            *)
CallsHold ==
  /\ IsSeq(opening.system) /\ IsSeq(opening.messages) /\ IsSeq(history) /\ IsSeq(said)
  /\ \A m \in ToSet(opening.messages) \cup ToSet(history) : MessageOK(client, m)
  /\ \A told \in {"broken", NoArgs} :
       CallsHeld(told, opening.messages \o history) = CallsSaid(ToldBy(client, told), said)

LEMMA NothingSaid ==
  ASSUME NEW told
  PROVE  CallsSaid(told, <<>>) = <<>>
<1>1. IsSeq(<<>>) /\ ToSet(<<>>) = {}
  BY EmptyIsSeq, Members
<1>2. QED
  BY <1>1, SaidNone

LEMMA CallsHoldInit ==
  ASSUME client \in Formats, Init
  PROVE  CallsHold
<1> DEFINE o == opening
           says == [i \in 1..Len(o.messages) |-> Sayings(o.messages[i].role, i, o.messages[i].pieces)]
           first == Sayings("system", 0, Each(Text, o.system))
           rest == FlattenSeq(says)
<1>1. o \in Openings(client) /\ history = <<>> /\ said = first \o rest
  BY DEF Init, SaidFirst
<1>2. IsSeq(o.system) /\ AllQuiet(o.messages)
  BY <1>1, OpeningsQuiet
<1>3. SaysEach(says, o.messages)
  BY DEF SaysEach
<1> HIDE DEF says
<1>4. IsSeq(rest) /\ \A s \in ToSet(rest) : s.piece.kind # "call"
  BY <1>2, <1>3, QuietSays
<1>5. IsSeq(first) /\ \A s \in ToSet(first) : s.piece.kind # "call"
  <2> DEFINE pieces == Each(Text, o.system)
  <2>1. IsSeq(pieces) /\ \A p \in ToSet(pieces) : p.kind # "call"
    BY <1>2, TextsAreQuiet DEF QuietPieces
  <2> HIDE DEF pieces
  <2>2. /\ IsSeq(Sayings("system", 0, pieces))
        /\ \A s \in ToSet(Sayings("system", 0, pieces)) : s.piece \in ToSet(pieces)
    BY <2>1, SayingsOf
  <2>3. QED
    BY <2>1, <2>2 DEF pieces
<1> HIDE DEF o, first, rest
<1>6. IsSeq(said) /\ \A s \in ToSet(said) : s.piece.kind # "call"
  BY <1>1, <1>4, <1>5, Concat, MembersOfConcat
<1>7. \A told : CallsSaid(told, said) = <<>>
  BY <1>6, SaidNone
<1>8. IsSeq(o.messages) /\ o.messages \o history = o.messages
  BY <1>1, <1>2, Concat DEF AllQuiet
<1>9. \A m \in ToSet(o.messages) : MessageOK(client, m)
  BY <1>2, QuietHolds
<1>10. \A told : CallsHeld(told, o.messages) = <<>>
  BY <1>2, QuietHolds
<1>11. QED
  BY <1>1, <1>2, <1>6, <1>7, <1>8, <1>9, <1>10, EmptyIsSeq, Members DEF CallsHold, o

LEMMA CallsHoldBegin ==
  ASSUME client \in Formats, BeginStream
  PROVE  CallsHold'
<1> DEFINE o == opening'
<1>1. /\ client' = client /\ history' = <<>> /\ said' = <<>>
      /\ o = CHOOSE x \in Openings(client) : TRUE
  BY DEF BeginStream
<1>2. \E x : x \in Openings(client)
  BY DEF Openings, Formats, OpenAIFormats
<1>3. o \in Openings(client)
  <2> DEFINE S == Openings(client)
  <2> HIDE DEF S, o
  <2> QED
    BY <1>1, <1>2 DEF S, o
<1> HIDE DEF o
<1>4. IsSeq(o.system) /\ AllQuiet(o.messages)
  BY <1>3, OpeningsQuiet
<1>5. IsSeq(o.messages) /\ o.messages \o <<>> = o.messages
  BY <1>4, Concat DEF AllQuiet
<1>6. \A m \in ToSet(o.messages) : MessageOK(client, m)
  BY <1>4, QuietHolds
<1>7. \A told : CallsHeld(told, o.messages) = <<>>
  BY <1>4, QuietHolds
<1>8. \A told : CallsHeld(told, o.messages \o <<>>) = CallsSaid(ToldBy(client, told), <<>>)
  BY <1>5, <1>7, NothingSaid
<1>9. QED
  BY <1>1, <1>4, <1>5, <1>6, <1>8, EmptyIsSeq, Members DEF CallsHold, o

LEMMA Regrouped ==
  ASSUME NEW s, IsSeq(s), NEW t, IsSeq(t), NEW u, IsSeq(u)
  PROVE  s \o (t \o u) = (s \o t) \o u
<1>1. (s \o t) \o u = s \o (t \o u)
  BY Associative
<1>2. QED
  BY <1>1

LEMMA HoldsMore ==
  ASSUME CallsHold, NEW messages, IsSeq(messages),
         \A m \in ToSet(messages) : MessageOK(client, m),
         NEW more, IsSeq(more),
         \A told \in {"broken", NoArgs} :
           CallsHeld(told, messages) = CallsSaid(ToldBy(client, told), more),
         history' = history \o messages, said' = said \o more, UNCHANGED <<client, opening>>
  PROVE  CallsHold'
<1> DEFINE before == opening.messages
<1>1. /\ IsSeq(before) /\ IsSeq(history) /\ IsSeq(said) /\ IsSeq(opening.system)
      /\ \A m \in ToSet(before) \cup ToSet(history) : MessageOK(client, m)
  BY DEF CallsHold
<1>2. IsSeq(history') /\ ToSet(history') = ToSet(history) \cup ToSet(messages)
  BY <1>1, Concat, MembersOfConcat
<1>3. IsSeq(said')
  BY <1>1, Concat
<1>4. ASSUME NEW told \in {"broken", NoArgs}
      PROVE  CallsHeld(told, before \o history') = CallsSaid(ToldBy(client, told), said')
  <2> DEFINE old == before \o history
  <2>1. /\ IsSeq(old) /\ ToSet(old) = ToSet(before) \cup ToSet(history)
        /\ before \o (history \o messages) = old \o messages
    <3> HIDE DEF before
    <3>1. IsSeq(before \o history) /\ ToSet(before \o history) = ToSet(before) \cup ToSet(history)
      BY <1>1, Concat, MembersOfConcat
    <3>2. before \o (history \o messages) = (before \o history) \o messages
      <4>1. IsSeq(before) /\ IsSeq(history) /\ IsSeq(messages)
        BY <1>1
      <4>2. QED
        BY <4>1, Regrouped
    <3>3. QED
      BY <3>1, <3>2
  <2>2. CallsHeld(told, old) = CallsSaid(ToldBy(client, told), said)
    BY DEF CallsHold
  <2> HIDE DEF old
  <2>3. \A m \in ToSet(old) \cup ToSet(messages) : IsSeq(m.pieces)
    BY <1>1, <2>1 DEF MessageOK
  <2>4. CallsHeld(told, old \o messages) = CallsHeld(told, old) \o CallsHeld(told, messages)
    BY <2>1, <2>3, HeldConcat
  <2>5. CallsSaid(ToldBy(client, told), said \o more)
          = CallsSaid(ToldBy(client, told), said) \o CallsSaid(ToldBy(client, told), more)
    BY <1>1, SaidConcat
  <2>6. CallsHeld(told, messages) = CallsSaid(ToldBy(client, told), more)
    OBVIOUS
  <2> HIDE DEF before
  <2>7. QED
    BY <2>1, <2>2, <2>4, <2>5, <2>6
<1>5. client' = client /\ opening' = opening
  OBVIOUS
<1>6. QED
  BY <1>1, <1>2, <1>3, <1>4, <1>5 DEF CallsHold

(* What a client asks calls nothing. *)
LEMMA AnsweringQuiet ==
  ASSUME NEW results, IsSeq(results), \A p \in ToSet(results) : AnyPiece(p) /\ p.kind # "call",
         NEW beside, QuietPieces(beside)
  PROVE  AllQuiet(Answering(results, beside))
<1> DEFINE tools == Each(LAMBDA r : Message("tool", <<r>>), results)
           n == Len(results)
           rest == IF beside = <<>> THEN <<>> ELSE <<Message("user", beside)>>
<1>1. n \in Nat /\ \A i \in 1..n : results[i] \in ToSet(results)
  BY ElementsOf
<1>2. DOMAIN tools = 1..n /\ tools = [i \in 1..n |-> tools[i]]
      /\ \A i \in 1..n : tools[i] = Message("tool", <<results[i]>>)
  BY DEF Each
<1> HIDE DEF tools, n
<1>3. IsSeq(tools) /\ \A e \in ToSet(tools) : \E i \in 1..n : e = tools[i]
  BY <1>1, <1>2, SeqGiven
<1>4. ASSUME NEW i \in 1..n PROVE QuietPieces(tools[i].pieces)
  <2> DEFINE r == results[i]
  <2>1. AnyPiece(r) /\ r.kind # "call"
    BY <1>1
  <2> HIDE DEF r
  <2>2. QuietPieces(<<r>>)
    BY <2>1, SingleIsSeq, Members DEF QuietPieces
  <2>3. Message("tool", <<r>>).pieces = <<r>>
    BY MessageIs
  <2>4. QED
    BY <1>2, <2>2, <2>3 DEF r
<1>5. AllQuiet(tools)
  BY <1>3, <1>4 DEF AllQuiet
<1>6. AllQuiet(rest)
  <2>1. AllQuiet(<<>>)
    BY EmptyIsSeq, Members DEF AllQuiet
  <2>2. AllQuiet(<<Message("user", beside)>>)
    BY QuietOne
  <2>3. QED
    BY <2>1, <2>2
<1>7. AllQuiet(tools \o rest)
  <2> HIDE DEF rest
  <2>1. IsSeq(tools) /\ IsSeq(rest)
    BY <1>5, <1>6 DEF AllQuiet
  <2>2. IsSeq(tools \o rest) /\ ToSet(tools \o rest) = ToSet(tools) \cup ToSet(rest)
    BY <2>1, Concat, MembersOfConcat
  <2>3. QED
    BY <1>5, <1>6, <2>2 DEF AllQuiet
<1>8. AllQuiet(<<Message("user", results \o beside)>>)
  <2>1. IsSeq(beside) /\ \A p \in ToSet(beside) : AnyPiece(p) /\ p.kind # "call"
    BY DEF QuietPieces
  <2>2. QuietPieces(results \o beside)
    <3> DEFINE both == results \o beside
    <3>1. IsSeq(both) /\ ToSet(both) = ToSet(results) \cup ToSet(beside)
      BY <2>1, Concat, MembersOfConcat
    <3> HIDE DEF both
    <3>2. QuietPieces(both)
      BY <2>1, <3>1 DEF QuietPieces
    <3>3. QED
      BY <3>2 DEF both
  <2>3. QED
    BY <2>2, QuietOne
<1>9. Answering(results, beside) = tools \o rest
      \/ Answering(results, beside) = <<Message("user", results \o beside)>>
  BY DEF Answering, tools
<1> HIDE DEF rest
<1>10. QED
  BY <1>7, <1>8, <1>9

LEMMA CallsHoldAsk ==
  ASSUME CallsHold, Ask
  PROVE  CallsHold'
<1> DEFINE word == Text(<<<<turn + 1, 1>>>>)
           other == Text(<<<<turn + 1, 2>>>>)
           Results(listed) == Each(LAMBDA c : Result(c.id, IF client = "gemini" THEN c.name ELSE <<>>,
                                                     ResultText(c.name), listed), Pending)
           Says(messages) == Each(LAMBDA m : Sayings(IF m.role = "tool" THEN "tool" ELSE "user", 0,
                                                     m.pieces), messages)
           words == <<word, other>>
           Asked(messages) ==
             \/ messages = <<Message("user", <<word>>)>>
             \/ \E picture \in Pictures : messages = <<Message("user", <<word, picture, other>>)>>
             \/ \E listed : \E beside \in {<<>>, <<word>>} : messages = Answering(Results(listed), beside)
<1>1. \E messages : Asked(messages) /\ Sends(messages)
  <2>1. \/ Sends(<<Message("user", <<words[1]>>)>>)
        \/ \E picture \in Pictures : Sends(<<Message("user", <<words[1], picture, words[2]>>)>>)
        \/ \E listed \in BOOLEAN, beside \in {<<>>, <<words[1]>>} : Sends(Answering(Results(listed), beside))
    BY Zenon DEF Ask
  <2>2. words[1] = word /\ words[2] = other
    OBVIOUS
  <2> HIDE DEF words, word, other, Results
  <2>3. QED
    BY <2>1, <2>2
<1>2. PICK messages : Asked(messages) /\ Sends(messages)
  BY <1>1
<1>3. UNCHANGED <<client, opening>>
  BY DEF Ask
<1>4. /\ AnyPiece(word) /\ word.kind # "call" /\ AnyPiece(other) /\ other.kind # "call"
      /\ \A picture \in Pictures : AnyPiece(picture) /\ picture.kind # "call"
  BY PieceIs, OtherPieces DEF AnyPiece, PieceOK, Pictures
<1> HIDE DEF word, other
<1>5. QuietPieces(<<word>>) /\ QuietPieces(<<>>)
  BY <1>4, SingleIsSeq, EmptyIsSeq, Members DEF QuietPieces
<1>6. ASSUME NEW image \in Pictures PROVE QuietPieces(<<word, image, other>>)
  <2>1. IsSeq(<<word, image, other>>)
    <3>1. <<word, image, other>> \in Seq({word, image, other})
      OBVIOUS
    <3>2. QED
      BY <3>1, SeqIsSeq
  <2>2. ToSet(<<word, image, other>>) = {word, image, other}
    BY Members
  <2>3. QED
    BY <1>4, <2>1, <2>2 DEF QuietPieces
<1>7. IsSeq(Pending)
  <2>1. CASE history = <<>> \/ Last(history).role \notin {"assistant", "model"}
    BY <2>1, EmptyIsSeq DEF Pending
  <2>2. CASE ~(history = <<>> \/ Last(history).role \notin {"assistant", "model"})
    <3> DEFINE m == Last(history)
    <3>1. Pending = Only({"call"}, m.pieces)
      BY <2>2 DEF Pending
    <3>2. IsSeq(LastOf(history)) /\ ToSet(LastOf(history)) \subseteq ToSet(history)
      BY LastOfIs DEF CallsHold
    <3>3. LastOf(history) = <<m>>
      BY <2>2 DEF LastOf
    <3> HIDE DEF m
    <3>4. m \in ToSet(history)
      BY <3>2, <3>3, Members
    <3>5. IsSeq(m.pieces)
      BY <3>4 DEF CallsHold, MessageOK
    <3>6. QED
      BY <3>1, <3>5, OnlyElements
  <2>3. QED
    BY <2>1, <2>2
<1>8. ASSUME NEW listed
      PROVE  IsSeq(Results(listed)) /\ \A p \in ToSet(Results(listed)) : AnyPiece(p) /\ p.kind # "call"
  <2> DEFINE results == Results(listed)
             calls == Pending
  <2>1. /\ DOMAIN results = 1..Len(calls) /\ results = [i \in 1..Len(calls) |-> results[i]]
        /\ \A i \in 1..Len(calls) :
             results[i] = Result(calls[i].id, IF client = "gemini" THEN calls[i].name ELSE <<>>,
                                 ResultText(calls[i].name), listed)
    BY DEF Each
  <2> HIDE DEF results, calls
  <2>2. \A i \in 1..Len(calls) :
          \E id, name, text, parts : results[i] = Result(id, name, text, parts)
    BY <2>1
  <2>3. IsSeq(results) /\ \A p \in ToSet(results) : AnyPiece(p) /\ p.kind # "call"
    BY <1>7, <2>1, <2>2, ResultsQuiet DEF calls
  <2>4. QED
    BY <2>3 DEF results
<1> HIDE DEF Results
<1>9. AllQuiet(messages)
  <2>1. AllQuiet(<<Message("user", <<word>>)>>)
    BY <1>5, QuietOne
  <2>2. ASSUME NEW picture \in Pictures PROVE AllQuiet(<<Message("user", <<word, picture, other>>)>>)
    BY <1>6, QuietOne
  <2>3. ASSUME NEW listed, NEW beside \in {<<>>, <<word>>} PROVE AllQuiet(Answering(Results(listed), beside))
    <3>1. QuietPieces(beside)
      BY <1>5
    <3>2. QED
      BY <1>8, <3>1, AnsweringQuiet
  <2>4. QED
    BY <1>2, <2>1, <2>2, <2>3
<1>10. SaysEach(Says(messages), messages)
  BY DEF SaysEach, Each
<1> DEFINE more == FlattenSeq(Says(messages))
<1> HIDE DEF Says
<1>11. IsSeq(more) /\ \A s \in ToSet(more) : s.piece.kind # "call"
  BY <1>9, <1>10, QuietSays
<1>12. said' = said \o more
  BY <1>2, Zenon DEF Sends, Says
<1> HIDE DEF more
<1>13. \A told : CallsSaid(told, more) = <<>>
  BY <1>11, SaidNone
<1>14. /\ \A m \in ToSet(messages) : MessageOK(client, m)
       /\ \A told : CallsHeld(told, messages) = <<>>
  BY <1>9, QuietHolds
<1>15. IsSeq(messages) /\ history' = history \o messages
  BY <1>2, <1>9 DEF AllQuiet, Sends
<1>16. QED
  BY <1>3, <1>11, <1>12, <1>13, <1>14, <1>15, HoldsMore

(* An answer becomes a message of the client's. *)
LEMMA AnswerMessage ==
  ASSUME NEW format, NEW pieces, PiecesOK(pieces)
  PROVE  LET m == Message(Caller(format), pieces)
         IN /\ IsSeq(<<m>>) /\ \A x \in ToSet(<<m>>) : MessageOK(format, x)
            /\ \A told : CallsHeld(told, <<m>>) = MadeBy(told, pieces)
<1> DEFINE m == Message(Caller(format), pieces)
<1>1. m.role = Caller(format) /\ m.pieces = pieces
  BY MessageIs
<1> HIDE DEF m
<1>2. IsSeq(pieces) /\ \A p \in ToSet(pieces) : PieceOK(p) /\ p.kind \notin {"result"}
  BY PieceKinds DEF PiecesOK
<1>3. Only({"result"}, pieces) = <<>>
  BY <1>2, OnlyNone
<1>4. MessageOK(format, m)
  BY <1>1, <1>2, <1>3 DEF MessageOK, AnyPiece
<1>5. IsSeq(<<m>>) /\ ToSet(<<m>>) = {m}
  BY SingleIsSeq, Members
<1>6. ASSUME NEW told PROVE CallsHeld(told, <<m>>) = MadeBy(told, pieces)
  BY <1>1, <1>2, HeldOne
<1>7. QED
  BY <1>4, <1>5, <1>6 DEF m

LEMMA RememberedIs ==
  /\ Remembered(<<>>) = <<>>
  /\ \A role, pieces, end :
       Remembered(<<Choice(role, pieces, end)>>) = <<Message(Caller(client), pieces)>>
<1>1. Remembered(<<>>) = <<>>
  BY DEF Remembered, Each
<1>2. ASSUME NEW role, NEW pieces, NEW end
      PROVE  Remembered(<<Choice(role, pieces, end)>>) = <<Message(Caller(client), pieces)>>
  <2> DEFINE c == Choice(role, pieces, end)
  <2>1. c.pieces = pieces
    BY ChoiceIs
  <2> HIDE DEF c
  <2>2. Remembered(<<c>>) = <<Message(Caller(client), c.pieces)>>
    BY DEF Remembered, Each
  <2>3. QED
    BY <2>1, <2>2 DEF c
<1>3. QED
  BY <1>1, <1>2

(* What the client is given holds the calls that the upstream made. *)
Remembers(choices, made) ==
  /\ IsSeq(Remembered(choices)) /\ \A m \in ToSet(Remembered(choices)) : MessageOK(client, m)
  /\ IsSeq(Utter(made))
  /\ \A told \in {"broken", NoArgs} :
       CallsHeld(told, Remembered(choices)) = CallsSaid(ToldBy(client, told), Utter(made))

LEMMA NothingRemembered ==
  ASSUME NEW choices, choices = <<>> \/ \E role, end : choices = <<Choice(role, OrEmptyText(<<>>), end)>>
  PROVE  Remembers(choices, <<>>)
<1>1. Utter(<<>>) = <<>> /\ IsSeq(<<>>) /\ ToSet(<<>>) = {}
  BY EmptyIsSeq, Members DEF Utter
<1>2. \A told : CallsSaid(told, <<>>) = <<>>
  BY NothingSaid
<1>3. AllQuiet(Remembered(choices))
  <2>1. CASE choices = <<>>
    BY <1>1, <2>1, RememberedIs DEF AllQuiet
  <2>2. CASE \E role, end : choices = <<Choice(role, OrEmptyText(<<>>), end)>>
    <3> DEFINE empty == Text(<<>>)
    <3>1. OrEmptyText(<<>>) = <<empty>>
      BY DEF OrEmptyText
    <3>2. AnyPiece(empty) /\ empty.kind = "text"
      BY PieceIs DEF AnyPiece, PieceOK
    <3> HIDE DEF empty
    <3>3. QuietPieces(<<empty>>)
      BY <3>2, SingleIsSeq, Members DEF QuietPieces
    <3>4. Remembered(choices) = <<Message(Caller(client), <<empty>>)>>
      BY <2>2, <3>1, RememberedIs
    <3>5. QED
      BY <3>3, <3>4, QuietOne
  <2>3. QED
    BY <2>1, <2>2
<1>4. /\ \A m \in ToSet(Remembered(choices)) : MessageOK(client, m)
      /\ \A told : CallsHeld(told, Remembered(choices)) = <<>>
  BY <1>3, QuietHolds
<1>5. QED
  BY <1>1, <1>2, <1>3, <1>4 DEF Remembers, AllQuiet

LEMMA ChoiceRemembered ==
  ASSUME NEW role, NEW pieces, PiecesOK(pieces), NEW end,
         NEW speaker, NEW made, PiecesOK(made), NEW reason,
         \A told \in {"broken", NoArgs} : MadeBy(told, pieces) = MadeBy(ToldBy(client, told), made)
  PROVE  Remembers(<<Choice(role, pieces, end)>>, <<Choice(speaker, made, reason)>>)
<1> DEFINE m == Message(Caller(client), pieces)
           shown == <<Choice(role, pieces, end)>>
           choices == <<Choice(speaker, made, reason)>>
<1>1. Remembered(shown) = <<m>>
  BY RememberedIs
<1>2. choices # <<>> /\ choices[1].pieces = made
  BY ChoiceAlone
<1>3. /\ IsSeq(<<m>>) /\ \A x \in ToSet(<<m>>) : MessageOK(client, x)
      /\ \A told : CallsHeld(told, <<m>>) = MadeBy(told, pieces)
  BY AnswerMessage
<1> HIDE DEF m, choices, shown
<1>4. Utter(choices) = Sayings("assistant", 0, made)
  BY <1>2 DEF Utter
<1>5. IsSeq(made)
  BY DEF PiecesOK
<1>6. /\ IsSeq(Sayings("assistant", 0, made))
      /\ \A told : CallsSaid(told, Sayings("assistant", 0, made)) = MadeBy(told, made)
  BY <1>5, SaidSayings
<1>7. Remembers(shown, choices)
  BY <1>1, <1>3, <1>4, <1>6 DEF Remembers
<1>8. QED
  BY <1>7 DEF shown, choices

(* An answer that the client can read. *)
LEMMA AnswerRemembered ==
  ASSUME client \in Formats, NEW heard, heard.format \in Formats,
         AnswerOK(heard.format, heard.answer), NEW fresh, NEW shown,
         shown = (LET converted == ConvertResponse(heard.format, client, heard.answer, fresh)
                  IN IF converted = <<>> THEN heard ELSE [format |-> client, answer |-> converted[1]]),
         shown.format = client
  PROVE  Remembers(shown.answer.choices, heard.answer.choices)
<1> DEFINE from == heard.format
           a == heard.answer
           converted == ConvertResponse(from, client, a, fresh)
<1>1. PICK choices, usage : a = AnswerOf(choices, usage) /\ (choices = <<>> \/ ChoiceOK(from, choices))
  BY DEF AnswerOK
<1>2. a.choices = choices
  BY <1>1, AnswerIs
<1>3. CASE from = client
  <2>1. converted = <<a>>
    BY <1>3 DEF ConvertResponse
  <2> HIDE DEF a, converted
  <2>2. shown.answer = a
    <3>1. converted # <<>> /\ converted[1] = a
      BY <2>1, SingleIsSeq
    <3>2. QED
      BY <3>1 DEF converted, a
  <2>3. CASE choices = <<>>
    BY <1>2, <2>2, <2>3, NothingRemembered DEF a
  <2>4. CASE ChoiceOK(client, choices)
    <3>1. PICK role, pieces, end :
            /\ choices = <<Choice(role, pieces, end)>> /\ PiecesOK(pieces)
            /\ client = "gemini" => NoneBroken(pieces)
      BY <2>4 DEF ChoiceOK
    <3>2. \A told \in {"broken", NoArgs} : MadeBy(told, pieces) = MadeBy(ToldBy(client, told), pieces)
      BY <3>1, MadeUnbroken DEF ToldBy
    <3>3. Remembers(<<Choice(role, pieces, end)>>, <<Choice(role, pieces, end)>>)
      BY <3>1, <3>2, ChoiceRemembered
    <3>4. QED
      BY <1>2, <2>2, <3>1, <3>3 DEF a
  <2>5. QED
    BY <1>1, <1>3, <2>3, <2>4
<1>4. CASE from # client
  <2>1. converted # <<>> /\ shown.answer = converted[1]
    BY <1>4
  <2>2. from \in Converted /\ client \in Converted
    <3>1. "openai_responses" \notin {from, client}
      BY <1>4, <2>1 DEF ConvertResponse
    <3>2. QED
      BY <3>1 DEF Formats, OpenAIFormats, Converted
  <2>3. PICK r : converted = <<r>> /\ Given(from, a, client, r) /\ Shown(a, r)
    <3> HIDE DEF from, a
    <3>1. from # client /\ AnswerOK(from, a)
      BY <1>4 DEF from, a
    <3>2. QED
      BY <2>1, <2>2, <3>1, ConvertedAnswer
  <2>4. shown.answer = r
    <3> HIDE DEF converted
    <3> QED
      BY <2>1, <2>3
  <2> HIDE DEF converted, a
  <2>5. CASE choices = <<>>
    <3>1. r.choices = <<>> \/ \E role, end : r.choices = <<Choice(role, OrEmptyText(<<>>), end)>>
      BY <1>2, <2>3, <2>5 DEF Shown
    <3>2. Remembers(r.choices, <<>>)
      BY <3>1, NothingRemembered
    <3>3. QED
      BY <1>2, <2>4, <2>5, <3>2 DEF a
  <2>6. CASE ChoiceOK(from, choices)
    <3>1. PICK speaker, made, reason :
            choices = <<Choice(speaker, made, reason)>> /\ PiecesOK(made)
      BY <2>6 DEF ChoiceOK
    <3>2. choices # <<>> /\ choices[1].pieces = made
      BY <3>1, ChoiceAlone
    <3>3. PICK role, pieces, end : r.choices = <<Choice(role, pieces, end)>> /\ PiecesOK(pieces)
      BY <1>2, <2>3, <3>2 DEF Shown
    <3>4. r.choices[1].pieces = pieces
      BY <3>3, ChoiceAlone
    <3> DEFINE x == Becomes(client)
    <3>5. CallsOf(x, made) = CallsOf("broken", pieces)
      BY <1>2, <2>3, <3>2, <3>4 DEF Given
    <3>6. IsSeq(made) /\ IsSeq(pieces)
      BY <3>1, <3>3 DEF PiecesOK
    <3>7. x = IF client = "gemini" THEN NoArgs ELSE "broken"
      BY Zenon DEF Becomes, NoArgs
    <3>8. NoArgs # "broken"
      BY Zenon DEF NoArgs
    <3> HIDE DEF x
    <3>9. ASSUME NEW told PROVE MadeBy(told, pieces) = MadeBy(ToldBy(client, told), made)
      <4>1. MadeBy(told, pieces) = MadeBy(IF x = "broken" THEN told ELSE x, made)
        BY <3>5, <3>6, MadeAsKept
      <4>2. ToldBy(client, told) = IF x = "broken" THEN told ELSE x
        BY <3>7, <3>8 DEF ToldBy
      <4>3. QED
        BY <4>1, <4>2
    <3>10. Remembers(<<Choice(role, pieces, end)>>, <<Choice(speaker, made, reason)>>)
      BY <3>1, <3>3, <3>9, ChoiceRemembered
    <3>11. QED
      BY <1>2, <2>4, <3>1, <3>3, <3>10 DEF a
  <2>7. QED
    BY <1>1, <2>5, <2>6
<1>5. QED
  BY <1>3, <1>4

LEMMA CallsHoldAnswer ==
  ASSUME CallsHold, client \in Formats, upstream \in Formats, Answer
  PROVE  CallsHold'
<1> DEFINE converted == ConvertResponse(answer'.format, client, answer'.answer, <<turn, 0>>)
           choices == answer'.answer.choices
<1>1. UNCHANGED <<client, opening>>
  BY DEF Answer
<1>2. PICK reply \in Answers(upstream) : answer' \in Heard(reply)
  BY DEF Answer
<1>3. answer'.format \in Formats /\ AnswerOK(answer'.format, answer'.answer)
  BY <1>2, HeardOK
<1>4. given' = IF converted = <<>> THEN answer' ELSE [format |-> client, answer |-> converted[1]]
  BY DEF Answer
<1>5. CASE given'.format # client
  <2>1. UNCHANGED <<history, said>>
    BY <1>5 DEF Answer
  <2>2. QED
    BY <1>1, <2>1 DEF CallsHold
<1>6. CASE given'.format = client
  <2>1. /\ history' = history \o Remembered(given'.answer.choices)
        /\ said' = said \o Utter(choices)
    BY <1>6 DEF Answer
  <2>2. Remembers(given'.answer.choices, choices)
    <3> DEFINE heard == answer'
               shown == given'
               fresh == <<turn, 0>>
    <3>1. /\ heard.format \in Formats /\ AnswerOK(heard.format, heard.answer) /\ shown.format = client
          /\ shown = IF ConvertResponse(heard.format, client, heard.answer, fresh) = <<>> THEN heard
                     ELSE [format |-> client,
                           answer |-> ConvertResponse(heard.format, client, heard.answer, fresh)[1]]
      BY <1>3, <1>4, <1>6
    <3> HIDE DEF heard, shown, fresh
    <3>2. Remembers(shown.answer.choices, heard.answer.choices)
      BY <3>1, AnswerRemembered
    <3>3. QED
      BY <3>2 DEF heard, shown
  <2> DEFINE messages == Remembered(given'.answer.choices)
             more == Utter(choices)
  <2>3. /\ IsSeq(messages) /\ IsSeq(more)
        /\ \A m \in ToSet(messages) : MessageOK(client, m)
        /\ \A told \in {"broken", NoArgs} :
             CallsHeld(told, messages) = CallsSaid(ToldBy(client, told), more)
    BY <2>2 DEF Remembers
  <2>4. history' = history \o messages /\ said' = said \o more
    BY <2>1
  <2> HIDE DEF messages, more
  <2>5. QED
    BY <1>1, <2>3, <2>4, HoldsMore
<1>7. QED
  BY <1>5, <1>6

----------------------------------------------------------------------------
(* The calls are told in every turn. *)

CallsTold ==
  phase = "sent" /\ (Rewritten \/ Untouched) =>
    CallsIn(request) = CallsSaid(ToldBy(client, Becomes(upstream)), said)

LEMMA ArgsTold ==
  ASSUME NEW args
  PROVE  ArgsAt(args) = IF args = "broken" THEN ToldBy(client, Becomes(upstream)) ELSE args
<1>1. CASE "gemini" \in {client, upstream}
  <2>1. ToldBy(client, Becomes(upstream)) = NoArgs
    BY <1>1, Zenon DEF ToldBy, Becomes, NoArgs
  <2>2. ArgsAt(args) = IF args = "broken" THEN NoArgs ELSE args
    BY <1>1, Zenon DEF ArgsAt, NoArgs
  <2>3. QED
    BY <2>1, <2>2
<1>2. CASE "gemini" \notin {client, upstream}
  <2>1. client # "gemini" /\ upstream # "gemini"
    BY <1>2
  <2>2. ToldBy(client, Becomes(upstream)) = "broken"
    BY <2>1, Zenon DEF ToldBy, Becomes
  <2>3. ArgsAt(args) = args
    BY <1>2, Zenon DEF ArgsAt
  <2>4. QED
    BY <2>2, <2>3
<1>3. QED
  BY <1>1, <1>2

(* What the property says of the calls that were said. *)
LEMMA CallsToldOf ==
  ASSUME NEW x, NEW sayings, IsSeq(sayings),
         \A args : ArgsAt(args) = IF args = "broken" THEN x ELSE args
  PROVE  Each(LAMBDA s : <<"assistant", s.piece.name, ArgsAt(s.piece.args)>>,
              Where(LAMBDA s : s.piece.kind = "call", sayings)) = CallsSaid(x, sayings)
<1> DEFINE S == ToSet(sayings)
           keep == [s \in S |-> IF s.piece.kind = "call" THEN <<s>> ELSE <<>>]
           f == [s \in S |-> Made(x, s.piece)]
           h == SpeakersOf(x, S)
           t == Where(LAMBDA s : s.piece.kind = "call", sayings)
<1>1. \A i \in 1..Len(sayings) : sayings[i] \in S
  BY ElementsOf
<1>2. t = Gather(keep, sayings)
  <2>1. [i \in 1..Len(sayings) |-> IF sayings[i].piece.kind = "call" THEN <<sayings[i]>> ELSE <<>>]
          = [i \in 1..Len(sayings) |-> keep[sayings[i]]]
    BY <1>1
  <2>2. QED
    BY <2>1 DEF Where, Each, Gather, Through
<1>3. Gathers(keep, sayings)
  BY <1>1, SingleIsSeq, EmptyIsSeq DEF Gathers
<1>4. \A i \in 1..Len(sayings) : ToSet(keep[sayings[i]]) \subseteq S
  <2> TAKE i \in 1..Len(sayings)
  <2> DEFINE s == sayings[i]
  <2>1. s \in S
    BY <1>1
  <2> HIDE DEF s, S
  <2>2. keep[s] = <<s>> \/ keep[s] = <<>>
    BY <2>1
  <2> HIDE DEF keep
  <2>3. ToSet(keep[s]) \subseteq S
    <3>1. CASE keep[s] = <<s>>
      <4>1. ToSet(keep[s]) = {s}
        BY <3>1, Members
      <4>2. QED
        BY <2>1, <4>1
    <3>2. CASE keep[s] = <<>>
      <4>1. ToSet(keep[s]) = {}
        BY <3>2, Members
      <4>2. QED
        BY <4>1
    <3>3. QED
      BY <2>2, <3>1, <3>2
  <2>4. QED
    BY <2>3 DEF s
<1>5. ThroughEach(keep, f, h, sayings)
  <2>1. ASSUME NEW s \in S PROVE Through(f, keep[s]) = h[s]
    <3> HIDE DEF S
    <3>1. CASE s.piece.kind = "call"
      <4>1. keep[s] = <<s>> /\ f[s] = Made(x, s.piece) /\ h[s] = <<Made(x, s.piece)>>
        BY <3>1 DEF SpeakersOf
      <4> HIDE DEF f, keep, h
      <4>2. Through(f, <<s>>) = <<f[s]>>
        BY DEF Through
      <4>3. QED
        BY <4>1, <4>2
    <3>2. CASE s.piece.kind # "call"
      <4>1. keep[s] = <<>> /\ h[s] = <<>>
        BY <3>2 DEF SpeakersOf
      <4> HIDE DEF f, keep, h
      <4>2. Through(f, <<>>) = <<>>
        BY DEF Through
      <4>3. QED
        BY <4>1, <4>2
    <3>3. QED
      BY <3>1, <3>2
  <2> HIDE DEF S, keep, f, h
  <2>2. QED
    BY <1>1, <2>1 DEF ThroughEach
<1> HIDE DEF S, keep, h
<1>6. Through(f, Gather(keep, sayings)) = Gather(h, sayings)
  <2> HIDE DEF f
  <2> QED
    BY <1>3, <1>5, ThroughGather
<1>7. ToSet(Gather(keep, sayings)) \subseteq S /\ IsSeq(Gather(keep, sayings))
  BY <1>3, <1>4, GatherElements, GathersAll
<1>8. Gather(h, sayings) = CallsSaid(x, sayings)
  BY SaidIs DEF S, h
<1>9. \A i \in 1..Len(t) : t[i] \in S
  <2> HIDE DEF t
  <2> QED
    BY <1>2, <1>7, ElementsOf
<1>10. Each(LAMBDA s : <<"assistant", s.piece.name, ArgsAt(s.piece.args)>>, t) = Through(f, t)
  <2> HIDE DEF t
  <2>1. \A i \in 1..Len(t) :
          <<"assistant", t[i].piece.name, ArgsAt(t[i].piece.args)>> = f[t[i]]
    BY <1>9 DEF Made
  <2> HIDE DEF f
  <2>2. QED
    BY <2>1 DEF Each, Through
<1>11. QED
  <2> HIDE DEF f
  <2> QED
    BY <1>2, <1>6, <1>8, <1>10

LEMMA CallsKeptIs == CallsHold => (CallsKept <=> CallsTold)
<1> SUFFICES ASSUME CallsHold PROVE CallsKept <=> CallsTold
  OBVIOUS
<1> DEFINE x == ToldBy(client, Becomes(upstream))
<1>1. IsSeq(said) /\ \A args : ArgsAt(args) = IF args = "broken" THEN x ELSE args
  BY ArgsTold DEF CallsHold
<1> HIDE DEF x
<1>2. Each(LAMBDA s : <<"assistant", s.piece.name, ArgsAt(s.piece.args)>>,
           Where(LAMBDA s : s.piece.kind = "call", said)) = CallsSaid(x, said)
  BY <1>1, CallsToldOf
<1>3. QED
  BY <1>2 DEF CallsKept, CallsTold, x

LEMMA CallsKeptBecomes == CallsHold' => (CallsKept' <=> CallsTold')
BY CallsKeptIs, PTL

(* The calls of a request that is passed on as it is. *)
LEMMA CallsPassed ==
  ASSUME NEW format, NEW doc, IsSeq(doc.messages),
         \A m \in ToSet(doc.messages) : MessageOK(format, m)
  PROVE  CallsIn(doc) = CallsHeld("broken", doc.messages)
<1> DEFINE s == doc.messages
<1>1. CallsIn(doc) = FlattenSeq([i \in 1..Len(s) |-> Told(s[i])])
  BY DEF CallsIn, Each, Told
<1>2. CallsHeld("broken", s) = FlattenSeq([i \in 1..Len(s) |-> MadeBy("broken", s[i].pieces)])
  BY DEF CallsHeld, Each
<1>3. ASSUME NEW m \in ToSet(s) PROVE Told(m) = MadeBy("broken", m.pieces)
  <2> DEFINE calls == Only({"call"}, m.pieces)
  <2>1. calls # <<>> => m.role = Caller(format)
    BY DEF MessageOK
  <2>2. calls # <<>> => Voice(m.role) = "assistant"
    BY <2>1 DEF Voice, Caller
  <2>3. /\ Told(m) = [i \in 1..Len(calls) |-> <<Voice(m.role), calls[i].name, calls[i].args>>]
        /\ MadeBy("broken", m.pieces) = [i \in 1..Len(calls) |-> Made("broken", calls[i])]
    BY DEF Told, MadeBy, Each
  <2> HIDE DEF calls
  <2>4. \A i \in 1..Len(calls) : Made("broken", calls[i]) = <<"assistant", calls[i].name, calls[i].args>>
    BY DEF Made
  <2>5. CASE calls = <<>>
    <3>1. 1..Len(calls) = {}
      BY <2>5
    <3>2. QED
      BY <2>3, <3>1
  <2>6. CASE calls # <<>>
    BY <2>2, <2>3, <2>4, <2>6
  <2>7. QED
    BY <2>5, <2>6
<1>4. \A i \in 1..Len(s) : s[i] \in ToSet(s)
  BY ElementsOf
<1> HIDE DEF s
<1>5. [i \in 1..Len(s) |-> Told(s[i])] = [i \in 1..Len(s) |-> MadeBy("broken", s[i].pieces)]
  BY <1>3, <1>4
<1>6. QED
  BY <1>1, <1>2, <1>5 DEF s

LEMMA RelayTells ==
  ASSUME Typed, CallsHold, Relay
  PROVE  CallsTold'
<1> DEFINE wanted == mode' # "plain"
           fresh == <<turn>>
           doc == Document(wanted)
           converted == ConvertRequest(client, upstream', doc, fresh)
           r == converted[1]
           messages == opening.messages \o history
<1>1. client \in Formats /\ upstream' \in Formats
  BY ConversationAssumption DEF Typed, TypesOK, TypeOK, Relay
<1>2. /\ UNCHANGED <<client, said>>
      /\ phase' = "sent" => /\ converted # <<>>
                            /\ request' = IF upstream' # "gemini" THEN r
                                          ELSE [r EXCEPT !.stream = mode' = "stream"]
  BY DEF Relay
<1>3. doc.system = opening.system /\ doc.messages = messages
  BY DEF Document, Request
<1>4. /\ IsSeq(messages) /\ \A m \in ToSet(messages) : MessageOK(client, m)
      /\ IsSeq(opening.system)
  BY Concat, MembersOfConcat DEF CallsHold
<1>5. \A told \in {"broken", NoArgs} :
        CallsHeld(told, messages) = CallsSaid(ToldBy(client, told), said)
  BY DEF CallsHold
<1>6. Becomes(upstream') \in {"broken", NoArgs}
  BY Zenon DEF Becomes, NoArgs
<1> HIDE DEF doc, messages, fresh
<1> SUFFICES ASSUME phase' = "sent", Rewritten' \/ Untouched'
             PROVE  CallsIn(request') = CallsSaid(ToldBy(client, Becomes(upstream')), said)
  BY <1>2 DEF CallsTold
<1>7. CASE client = upstream'
  <2>1. r = doc
    BY <1>7 DEF ConvertRequest
  <2>2. CallsIn(request') = CallsIn(doc)
    <3>1. doc = Request(opening.system, opening.messages \o history, wanted, opening.choice,
                        opening.stop, opening.max)
      BY DEF doc, Document
    <3>2. \A w : [doc EXCEPT !.stream = w].messages = doc.messages
      BY <3>1 DEF Request
    <3> HIDE DEF r
    <3>3. request'.messages = doc.messages
      BY <1>2, <2>1, <3>2
    <3>4. QED
      BY <3>3 DEF CallsIn
  <2>3. CallsIn(doc) = CallsHeld("broken", messages)
    BY <1>3, <1>4, CallsPassed
  <2>4. CallsHeld("broken", messages) = CallsSaid(ToldBy(client, "broken"), said)
    BY <1>5
  <2>5. ToldBy(client, "broken") = ToldBy(client, Becomes(upstream'))
    BY <1>7, Zenon DEF ToldBy, Becomes, NoArgs
  <2>6. QED
    BY <2>2, <2>3, <2>4, <2>5
<1>8. CASE client # upstream'
  <2> DEFINE ir == ToInternal(client, doc, fresh)
             s == ir.messages
             told == Becomes(upstream')
  <2>1. client # "openai_responses"
    BY <1>2, <1>8 DEF Rewritten, Untouched
  <2>2. r = FromInternal(upstream', ir)
    BY <1>2, <1>8 DEF ConvertRequest
  <2>3. /\ IsSeq(s) /\ \A im \in ToSet(s) : InternalOK(im)
        /\ Gather(CallersOf(told, ToSet(s)), s) = CallsHeld(told, messages)
    <3> HIDE DEF told
    <3> QED
      BY <1>1, <1>3, <1>4, <2>1, CallsRead
  <2> HIDE DEF ir
  <2>4. CallsIn(FromInternal(upstream', ir)) = Gather(CallersOf(told, ToSet(s)), s)
    BY <1>1, <2>3, CallsWritten
  <2>5. CallsIn(request') = CallsIn(r)
    <3> HIDE DEF r
    <3>1. \A w : [r EXCEPT !.stream = w].messages = r.messages
      BY <1>1, <2>2, WrittenMessages
    <3>2. request'.messages = r.messages
      BY <1>2, <3>1
    <3>3. QED
      BY <3>2 DEF CallsIn
  <2>6. CallsHeld(told, messages) = CallsSaid(ToldBy(client, told), said)
    BY <1>5, <1>6
  <2>7. QED
    BY <2>2, <2>3, <2>4, <2>5, <2>6
<1>9. QED
  BY <1>7, <1>8

LEMMA CallsHoldStep ==
  ASSUME Typed, CallsHold, [ExchangeNext]_all
  PROVE  CallsHold'
<1>1. client \in Formats
  BY ConversationAssumption DEF Typed, TypesOK, TypeOK
<1>2. ASSUME UNCHANGED <<client, opening, history, said>> PROVE CallsHold'
  BY <1>2 DEF CallsHold
<1>3. CASE UNCHANGED vars
  BY <1>2, <1>3 DEF vars, turnVars
<1>4. CASE Next
  <2>1. CASE Answer
    <3>1. upstream \in Formats
      BY <2>1, ConversationAssumption DEF Answer, Typed, TypesOK, TypeOK
    <3>2. QED
      BY <1>1, <2>1, <3>1, CallsHoldAnswer
  <2>2. CASE Relay
    <3>1. UNCHANGED <<client, opening, history, said>>
      BY <2>2 DEF Relay
    <3>2. QED
      BY <1>2, <3>1
  <2>3. CASE Over
    BY <1>3, <2>3 DEF Over
  <2>4. QED
    BY <1>4, <2>1, <2>2, <2>3, CallsHoldAsk DEF Next
<1>5. CASE BeginStream
  BY <1>1, <1>5, CallsHoldBegin
<1>6. QED
  BY <1>3, <1>4, <1>5 DEF ExchangeNext, all

LEMMA CallsToldStep ==
  ASSUME Typed, CallsHold, CallsTold, [ExchangeNext]_all
  PROVE  CallsTold'
<1>1. CASE UNCHANGED vars
  BY <1>1 DEF CallsTold, Rewritten, Untouched, vars, turnVars
<1>2. CASE Next
  <2>1. CASE Ask \/ Answer
    <3>1. Ask => phase' = "asked"
      BY DEF Ask
    <3>2. Answer => phase' \in {"over", "asking"}
      BY DEF Answer
    <3>3. QED
      BY <2>1, <3>1, <3>2 DEF CallsTold
  <2>2. CASE Over
    BY <1>1, <2>2 DEF Over
  <2>3. QED
    BY <1>2, <2>1, <2>2, RelayTells DEF Next
<1>3. CASE BeginStream
  BY <1>3 DEF BeginStream, CallsTold
<1>4. QED
  BY <1>1, <1>2, <1>3 DEF ExchangeNext, all

(* However often the gateway changes the upstream, and through whatever    *)
(* formats a call went on its way, the upstream of every turn is told each *)
(* call that any upstream made, once and in order, with its function and   *)
(* its arguments (anthropic/from_internal.go:132-142,                      *)
(* gemini/from_internal.go:112-123, openai/to_internal.go:259-274).  It    *)
(* rests on CallsHold: what the client sends holds the calls that were     *)
(* made, in order, as its format writes them.                              *)
THEOREM ExchangeCallsKept == ExchangeSpec => []CallsKept
<1>1. ExchangeInit => CallsHold /\ CallsTold
  <2>1. ExchangeInit => CallsHold
    BY ConversationAssumption, CallsHoldInit DEF ExchangeInit, Init
  <2>2. ExchangeInit => CallsTold
    BY DEF ExchangeInit, Init, CallsTold
  <2>3. QED
    BY <2>1, <2>2
<1>2. Typed /\ CallsHold /\ CallsTold /\ [ExchangeNext]_all => (Typed /\ CallsHold /\ CallsTold)'
  BY TypedStep, CallsHoldStep, CallsToldStep
<1>3. QED
  BY <1>1, <1>2, TypedInit, CallsKeptIs, PTL DEF ExchangeSpec

----------------------------------------------------------------------------
(* A request as it is relayed: what is made of the opening, and then       *)
(* each message of the conversation, read and written.                     *)

ClientRoles(format) == {"user", "tool", Caller(format)}

LEMMA ReadRole ==
  ASSUME NEW format \in Formats, NEW m, m.role \in ClientRoles(format), NEW fresh
  PROVE  ReadOf(format, m, fresh).role \in {"user", "tool", "assistant"}
<1>1. CASE format = "gemini"
  <2> DEFINE results == Only({"result"}, m.pieces)
             role == IF results # <<>> THEN "tool" ELSE IF m.role = "model" THEN "assistant" ELSE m.role
  <2>1. ReadOf(format, m, fresh).role = role
    BY <1>1, InternalIs DEF ReadOf, FromGeminiContent
  <2>2. m.role \in {"user", "tool", "model"}
    BY <1>1 DEF ClientRoles, Caller
  <2>3. QED
    BY <2>1, <2>2
<1>2. CASE format # "gemini"
  <2>1. ReadOf(format, m, fresh).role = m.role
    BY <1>2, InternalIs DEF ReadOf, FromAnthropicMessage, FromOpenAIMessage
  <2>2. QED
    BY <1>2, <2>1 DEF ClientRoles, Caller
<1>3. QED
  BY <1>1, <1>2

LEMMA OpeningReadIs ==
  ASSUME NEW format \in Formats, NEW o \in Openings(format)
  PROVE  IsSeq(OpeningRead(format, o))
<1>1. IsSeq(o.system) /\ IsSeq(o.messages)
  BY OpeningsQuiet DEF AllQuiet
<1>2. CASE format = "openai_chat"
  <2> DEFINE s == o.messages
             n == Len(s)
             u == Each(FromOpenAIMessage, s)
  <2>1. n \in Nat /\ DOMAIN u = 1..n /\ u = [i \in 1..n |-> u[i]]
    BY <1>1, ElementsOf DEF Each
  <2> HIDE DEF u, n
  <2>2. IsSeq(u)
    BY <2>1, SeqGiven
  <2>3. QED
    BY <1>2, <2>2 DEF OpeningRead, u
<1>3. CASE format # "openai_chat"
  BY <1>1, <1>3, SystemIsWordless DEF OpeningRead
<1>4. QED
  BY <1>2, <1>3

LEMMA ConvertedMessages ==
  ASSUME NEW from \in Formats, from # "openai_responses", NEW to \in Formats,
         NEW o \in Openings(from), OpensWith(from, o),
         NEW messages, IsSeq(messages), SpeakAs(ClientRoles(from), messages),
         NEW doc, doc.system = o.system, doc.messages = o.messages \o messages, NEW fresh
  PROVE  Converts(from, to, o, messages, FromInternal(to, ToInternal(from, doc, fresh)).messages)
<1> DEFINE ir == ToInternal(from, doc, fresh)
           first == OpeningRead(from, o)
           roles == LeftOut(to)
<1>1. IsSeq(first) /\ IsSeq(o.messages)
  BY OpeningReadIs, OpeningsQuiet DEF AllQuiet
<1>2. PICK u : ReadEach(from, messages, u) /\ ir.messages = first \o u
  <2>1. ReadAfter(from, first, messages, ir.messages)
    <3> HIDE DEF first, ir
    <3> QED
      BY ReadIsOpeningAndRest DEF first, ir
  <2> HIDE DEF first, ir
  <2>2. QED
    BY <2>1 DEF ReadAfter
<1>3. IsSeq(u) /\ Len(u) = Len(messages)
      /\ \A i \in 1..Len(messages) : \E f : u[i] = ReadOf(from, messages[i], f)
  BY <1>2 DEF ReadEach
<1>4. roles \subseteq {"system", "developer"}
  BY DEF LeftOut
<1> HIDE DEF ir, first, roles
<1>5. \A im \in ToSet(u) : im.role \notin roles
  <2> TAKE im \in ToSet(u)
  <2>1. PICK i \in 1..Len(messages) : im = u[i]
    BY <1>3, ElementsOf
  <2>2. messages[i].role \in ClientRoles(from)
    BY ElementsOf DEF SpeakAs
  <2>3. PICK f : u[i] = ReadOf(from, messages[i], f)
    BY <1>3
  <2>4. im.role \in {"user", "tool", "assistant"}
    BY <2>1, <2>2, <2>3, ReadRole
  <2>5. QED
    BY <1>4, <2>4
<1>6. Silent(roles, first \o u) = Silent(roles, first) \o u
  BY <1>1, <1>3, <1>5, SilentOne
<1>7. IsSeq(Silent(roles, first)) /\ IsSeq(ir.messages)
  BY <1>1, <1>2, <1>3, SilentIs, Concat
<1>8. FromInternal(to, ir).messages = WriteAll(to, Silent(roles, first \o u))
  BY <1>2, <1>7, MessagesWritten DEF roles
<1>9. WriteAll(to, Silent(roles, first) \o u) = WriteAll(to, Silent(roles, first)) \o WriteAll(to, u)
  BY <1>3, <1>7, WriteAllConcat
<1> DEFINE post == WriteAll(to, u)
<1>10. /\ IsSeq(post) /\ Len(post) = Len(u)
       /\ \A i \in 1..Len(u) : post[i] = WriteOf(to, u[i])
  BY <1>3, WriteAllIs
<1> HIDE DEF post
<1>11. WrittenEach(from, to, messages, post)
  <2>1. ASSUME NEW i \in 1..Len(messages)
        PROVE  \E f : post[i] = WriteOf(to, ReadOf(from, messages[i], f))
    <3>1. PICK f : u[i] = ReadOf(from, messages[i], f)
      BY <1>3
    <3>2. QED
      BY <1>3, <1>10, <3>1
  <2>2. QED
    BY <1>3, <1>10, <2>1 DEF WrittenEach
<1>12. FromInternal(to, ir).messages = WriteAll(to, Silent(roles, first)) \o post
  BY <1>6, <1>8, <1>9 DEF post
<1>13. \E it : /\ WrittenEach(from, to, messages, it)
               /\ FromInternal(to, ir).messages = WriteAll(to, Silent(roles, first)) \o it
  BY <1>11, <1>12
<1>14. QED
  BY <1>13 DEF Converts, ir, first, roles

----------------------------------------------------------------------------
(* The results that a client of Chat gives, and the calls they answer.     *)

(* What it sends: words of its own, the result of a tool, an answer. *)
ChatForm(m) ==
  /\ IsSeq(m.pieces)
  /\ \/ m.role = "user" /\ \A p \in ToSet(m.pieces) : AnyPiece(p) /\ p.kind \in {"text", "image"}
     \/ m.role = "tool" /\ \E id, text, listed : m.pieces = <<Result(id, <<>>, text, listed)>>
     \/ m.role = "assistant" /\ \A p \in ToSet(m.pieces) : PieceOK(p)

TextSent(format, r) == IF r.listed /\ format # "openai_chat" THEN <<>> ELSE r.text

(* How a result arrives. *)
SameResult(format, r, w) == w.id = r.id /\ w.name = <<>> /\ w.text = TextSent(format, r)

ResultArrives(format, m, x) ==
  \E r, w : /\ m.pieces = <<r>> /\ r.kind = "result" /\ Only({"result"}, m.pieces) = <<r>>
            /\ Only({"result"}, x.pieces) = <<w>> /\ x.role = RoleOfResults(format)
            /\ SameResult(format, r, w)

CallsArrive(format, m, x) ==
  /\ \A c \in ToSet(x.pieces) :
       c.kind = "call" => \E d \in ToSet(m.pieces) :
         d.kind = "call" /\ d.name = c.name /\ (format # "gemini" => d = c)
  /\ format # "gemini" => \A d \in ToSet(m.pieces) : d.kind = "call" => d \in ToSet(x.pieces)

Arrives(format, m, x) ==
  /\ IsSeq(x.pieces)
  /\ \/ Only({"result"}, m.pieces) = <<>> /\ Only({"result"}, x.pieces) = <<>>
     \/ ResultArrives(format, m, x)
  /\ CallsArrive(format, m, x)

LEMMA SentAsItIs ==
  ASSUME NEW m, ChatForm(m)
  PROVE  Arrives("openai_chat", m, m)
<1>1. IsSeq(m.pieces)
  BY DEF ChatForm
<1>2. CallsArrive("openai_chat", m, m)
  BY DEF CallsArrive
<1>3. CASE m.role = "tool" /\ \E id, text, listed : m.pieces = <<Result(id, <<>>, text, listed)>>
  <2>1. PICK id, text, listed : m.pieces = <<Result(id, <<>>, text, listed)>>
    BY <1>3
  <2> DEFINE r == Result(id, <<>>, text, listed)
  <2>2. r.kind = "result" /\ r.name = <<>>
    BY ResultIs
  <2>3. m.pieces = <<r>>
    BY <2>1
  <2> HIDE DEF r
  <2>4. Only({"result"}, <<r>>) = <<r>>
    BY <2>2, OnlyOne
  <2>5. SameResult("openai_chat", r, r)
    BY <2>2 DEF SameResult, TextSent
  <2>6. RoleOfResults("openai_chat") = "tool"
    BY DEF RoleOfResults, OpenAIFormats
  <2>7. ResultArrives("openai_chat", m, m)
    BY <1>3, <2>2, <2>3, <2>4, <2>5, <2>6 DEF ResultArrives
  <2>8. QED
    BY <1>1, <1>2, <2>7 DEF Arrives
<1>4. CASE ~(m.role = "tool" /\ \E id, text, listed : m.pieces = <<Result(id, <<>>, text, listed)>>)
  <2>1. \A p \in ToSet(m.pieces) : p.kind \notin {"result"}
    BY <1>4, PieceKinds DEF ChatForm
  <2>2. Only({"result"}, m.pieces) = <<>>
    BY <1>1, <2>1, OnlyNone
  <2>3. QED
    BY <1>1, <1>2, <2>2 DEF Arrives
<1>5. QED
  BY <1>3, <1>4

(* A result that is read and written. *)
LEMMA ResultSent ==
  ASSUME NEW format \in Formats, format # "openai_chat", NEW m, m.role = "tool",
         NEW id, NEW text, NEW listed, m.pieces = <<Result(id, <<>>, text, listed)>>
  PROVE  Arrives(format, m, WriteOf(format, FromOpenAIMessage(m)))
<1> DEFINE r == Result(id, <<>>, text, listed)
           t == IF listed THEN <<>> ELSE text
           read == Result(id, <<>>, t, listed)
           im == FromOpenAIMessage(m)
           x == WriteOf(format, im)
<1>1. /\ r.kind = "result" /\ r.id = id /\ r.name = <<>> /\ r.text = text /\ r.listed = listed
      /\ (IF r.listed THEN [r EXCEPT !.text = <<>>] ELSE r) = read
  BY ResultIs
<1>2. read.kind = "result" /\ read.id = id /\ read.name = <<>> /\ read.text = t
  BY ResultIs
<1>3. m.pieces = <<r>>
  OBVIOUS
<1> HIDE DEF r, read
<1>4. /\ Only({"result"}, m.pieces) = <<r>> /\ Only({"call"}, m.pieces) = <<>>
      /\ Only({"text", "image"}, m.pieces) = <<>>
  BY <1>1, <1>3, OnlyOne
<1>5. Each(LAMBDA q : IF q.listed THEN [q EXCEPT !.text = <<>>] ELSE q, <<r>>) = <<read>>
  <2>1. Each(LAMBDA q : IF q.listed THEN [q EXCEPT !.text = <<>>] ELSE q, <<r>>)
          = <<IF r.listed THEN [r EXCEPT !.text = <<>>] ELSE r>>
    BY DEF Each
  <2>2. QED
    BY <1>1, <2>1
<1>6. im.role = "tool" /\ im.calls = <<>> /\ im.result = <<read>>
  BY <1>4, <1>5, InternalIs DEF FromOpenAIMessage
<1> HIDE DEF im
<1>7. \E w : x.pieces = <<w>> /\ x.role = RoleOfResults(format) /\ w.kind = "result" /\ SameResult(format, r, w)
  <2>1. TextSent(format, r) = t
    BY <1>1 DEF TextSent
  <2>2. CASE format = "openai_responses"
    <3> DEFINE w == Result(id, <<>>, t, FALSE)
               list == Each(LAMBDA q : Result(q.id, <<>>, q.text, FALSE), <<read>>)
    <3>1. w.kind = "result" /\ w.id = id /\ w.name = <<>> /\ w.text = t
      BY DEF Result
    <3>2. x = Message("tool", <<>> \o list)
      <4>1. im.result # <<>>
        BY <1>6, SingleIsSeq
      <4>2. x = ToOpenAIMessage(im)
        BY <2>2 DEF WriteOf
      <4>3. ToOpenAIMessage(im) = Message(im.role, im.calls \o Each(LAMBDA q : Result(q.id, <<>>, q.text, FALSE), im.result))
        BY <4>1, Zenon DEF ToOpenAIMessage
      <4>4. QED
        BY <1>6, <4>2, <4>3, Zenon
    <3>3. list = <<w>>
      <4>1. Len(<<read>>) = 1 /\ \A i \in 1..1 : <<read>>[i] = read
        OBVIOUS
      <4>2. list = [i \in 1..1 |-> w]
        BY <1>2, <4>1 DEF Each, Result
      <4> HIDE DEF w, list
      <4>3. [i \in 1..1 |-> w] = <<w>>
        OBVIOUS
      <4>4. QED
        BY <4>2, <4>3
    <3> HIDE DEF w, list, x
    <3>4. <<>> \o <<w>> = <<w>>
      BY SingleIsSeq, Concat
    <3>5. x = Message("tool", <<w>>)
      BY <3>2, <3>3, <3>4
    <3>6. x.pieces = <<w>> /\ x.role = "tool"
      BY <3>5, MessageIs
    <3>7. SameResult(format, r, w) /\ RoleOfResults(format) = "tool"
      BY <1>1, <2>1, <2>2, <3>1 DEF SameResult, RoleOfResults, OpenAIFormats
    <3>8. QED
      BY <3>1, <3>6, <3>7
  <2>3. CASE format \in {"anthropic", "gemini"}
    <3>1. x = Message("user", <<read>>)
      BY <1>6, <2>3 DEF WriteOf, ToAnthropicMessage, ToGeminiContent
    <3>2. x.pieces = <<read>> /\ x.role = "user"
      BY <3>1, MessageIs
    <3>3. SameResult(format, r, read) /\ RoleOfResults(format) = "user"
      BY <1>1, <1>2, <2>1, <2>3 DEF SameResult, RoleOfResults, OpenAIFormats
    <3>4. QED
      BY <1>2, <3>2, <3>3
  <2>4. QED
    BY <2>2, <2>3 DEF Formats, OpenAIFormats
<1>8. PICK w : x.pieces = <<w>> /\ x.role = RoleOfResults(format) /\ w.kind = "result" /\ SameResult(format, r, w)
  BY <1>7
<1> HIDE DEF x
<1>9. Only({"result"}, x.pieces) = <<w>>
  BY <1>8, OnlyOne
<1>10. IsSeq(x.pieces) /\ ToSet(x.pieces) = {w} /\ ToSet(m.pieces) = {r}
  BY <1>3, <1>8, SingleIsSeq, Members
<1>11. CallsArrive(format, m, x)
  BY <1>1, <1>8, <1>10 DEF CallsArrive
<1>12. ResultArrives(format, m, x)
  BY <1>1, <1>3, <1>4, <1>8, <1>9 DEF ResultArrives
<1>13. Arrives(format, m, x)
  BY <1>10, <1>11, <1>12 DEF Arrives
<1>14. QED
  BY <1>13 DEF x, im

(* A message of Chat, read. *)
LEMMA ChatRead ==
  ASSUME NEW m, ChatForm(m), m.role # "tool"
  PROVE  LET im == FromOpenAIMessage(m)
         IN /\ InternalOK(im) /\ im.role = m.role /\ im.role \in {"user", "assistant"}
            /\ im.result = <<>> /\ im.calls = Only({"call"}, m.pieces)
            /\ Only({"result"}, m.pieces) = <<>>
<1> DEFINE im == FromOpenAIMessage(m)
           calls == Only({"call"}, m.pieces)
<1>1. IsSeq(m.pieces) /\ m.role \in {"user", "assistant"}
  BY DEF ChatForm
<1>2. \A p \in ToSet(m.pieces) : AnyPiece(p) /\ p.kind \notin {"result"}
  BY PieceKinds DEF ChatForm, AnyPiece
<1>3. Only({"result"}, m.pieces) = <<>>
  BY <1>1, <1>2, OnlyNone
<1>4. m.role # "assistant" => calls = <<>>
  <2>1. m.role # "assistant" => \A p \in ToSet(m.pieces) : p.kind \notin {"call"}
    BY DEF ChatForm
  <2>2. QED
    BY <1>1, <2>1, OnlyNone
<1>5. MessageOK("openai_chat", m)
  BY <1>1, <1>2, <1>3, <1>4 DEF MessageOK, Caller
<1>6. InternalOK(im)
  BY <1>5, OpenAIReads DEF ReadAs
<1>7. im.role = m.role /\ im.calls = calls /\ im.result = <<>>
  BY InternalIs DEF FromOpenAIMessage, ChatForm
<1>8. QED
  BY <1>1, <1>3, <1>6, <1>7

LEMMA OthersSent ==
  ASSUME NEW format \in Formats, NEW m, ChatForm(m), m.role # "tool"
  PROVE  Arrives(format, m, WriteOf(format, FromOpenAIMessage(m)))
<1> DEFINE im == FromOpenAIMessage(m)
           x == WriteOf(format, im)
           texts == TextsFor(format, im)
           calls == CallsIntoFormat(format, im.calls)
<1>1. /\ InternalOK(im) /\ im.role \in {"user", "assistant"}
      /\ im.result = <<>> /\ im.calls = Only({"call"}, m.pieces)
      /\ Only({"result"}, m.pieces) = <<>> /\ IsSeq(m.pieces)
  BY ChatRead DEF ChatForm
<1> HIDE DEF im
<1>2. x.pieces = texts \o calls
  <2>1. x = Message(RoleFor(format, im.role), texts \o calls)
    BY <1>1, WrittenParts
  <2> HIDE DEF texts, calls, x
  <2>2. QED
    BY <2>1, MessageIs
<1>3. IsSeq(texts) /\ \A p \in ToSet(texts) : p.kind \in {"text", "image"}
  BY <1>1, TextsForAre
<1>4. IsSeq(im.calls) /\ \A d \in ToSet(im.calls) : d \in ToSet(m.pieces) /\ d.kind = "call"
  BY <1>1, OnlyElements
<1>5. IsSeq(calls) /\ \A c \in ToSet(calls) :
        c.kind = "call" /\ \E d \in ToSet(im.calls) : d.name = c.name /\ (format # "gemini" => d = c)
  <2>1. CASE format # "gemini"
    BY <1>4, <2>1 DEF CallsIntoFormat
  <2>2. CASE format = "gemini"
    <3> DEFINE others == CallsFor(im.calls)
    <3>1. /\ IsSeq(others) /\ \A p \in ToSet(others) : p.kind \in {"call"}
          /\ Rewords(NoArgs, im.calls, others)
      BY <1>4, CallsForGemini
    <3>2. calls = others
      BY <2>2 DEF CallsIntoFormat
    <3> HIDE DEF others, calls
    <3>3. ASSUME NEW c \in ToSet(others) PROVE \E d \in ToSet(im.calls) : d.name = c.name
      <4>1. PICK i \in 1..Len(others) : c = others[i]
        BY <3>1, ElementsOf
      <4>2. Len(others) = Len(im.calls) /\ others[i].name = im.calls[i].name
        BY <3>1 DEF Rewords
      <4>3. im.calls[i] \in ToSet(im.calls)
        BY <1>4, <4>2, ElementsOf
      <4>4. QED
        BY <4>1, <4>2, <4>3
    <3>4. QED
      BY <2>2, <3>1, <3>2, <3>3
  <2>3. QED
    BY <2>1, <2>2
<1>6. format # "gemini" => calls = im.calls
  BY DEF CallsIntoFormat
<1> HIDE DEF texts, calls
<1>7. IsSeq(texts \o calls) /\ ToSet(texts \o calls) = ToSet(texts) \cup ToSet(calls)
  BY <1>3, <1>5, Concat, MembersOfConcat
<1> HIDE DEF x
<1>8. IsSeq(x.pieces) /\ \A p \in ToSet(x.pieces) : p \in ToSet(texts) \/ p \in ToSet(calls)
  BY <1>2, <1>7
<1>9. Only({"result"}, x.pieces) = <<>>
  <2>1. \A p \in ToSet(x.pieces) : p.kind \notin {"result"}
    BY <1>3, <1>5, <1>8
  <2>2. QED
    BY <1>8, <2>1, OnlyNone
<1>10. CallsArrive(format, m, x)
  <2>1. ASSUME NEW c \in ToSet(x.pieces), c.kind = "call"
        PROVE  \E d \in ToSet(m.pieces) : d.kind = "call" /\ d.name = c.name /\ (format # "gemini" => d = c)
    <3>1. c \in ToSet(calls)
      BY <1>3, <1>8, <2>1
    <3>2. QED
      BY <1>4, <1>5, <3>1
  <2>2. ASSUME format # "gemini", NEW d \in ToSet(m.pieces), d.kind = "call"
        PROVE  d \in ToSet(x.pieces)
    <3>1. d \in ToSet(im.calls)
      BY <1>1, <2>2, OnlyHas
    <3>2. QED
      BY <1>2, <1>6, <1>7, <2>2, <3>1
  <2>3. QED
    BY <2>1, <2>2 DEF CallsArrive
<1>11. Arrives(format, m, x)
  BY <1>1, <1>8, <1>9, <1>10 DEF Arrives
<1>12. QED
  BY <1>11 DEF x, im

(* A message of a client of Chat, at any upstream. *)
SentTo(format, m) == IF format = "openai_chat" THEN m ELSE WriteOf(format, FromOpenAIMessage(m))

LEMMA MessageArrives ==
  ASSUME NEW format \in Formats, NEW m, ChatForm(m)
  PROVE  Arrives(format, m, SentTo(format, m))
<1>1. CASE format = "openai_chat"
  BY <1>1, SentAsItIs DEF SentTo
<1>2. CASE format # "openai_chat" /\ m.role = "tool"
  <2>1. PICK id, text, listed : m.pieces = <<Result(id, <<>>, text, listed)>>
    BY <1>2 DEF ChatForm
  <2>2. Arrives(format, m, WriteOf(format, FromOpenAIMessage(m)))
    BY <1>2, <2>1, ResultSent
  <2>3. QED
    BY <1>2, <2>2 DEF SentTo
<1>3. CASE format # "openai_chat" /\ m.role # "tool"
  BY <1>3, OthersSent DEF SentTo
<1>4. QED
  BY <1>1, <1>2, <1>3

----------------------------------------------------------------------------
(* What the calls of an answer are identified by: by the turn, and within  *)
(* it one identifier for one function.                                     *)
Identifies(pieces) ==
  \A p \in ToSet(pieces) : p.kind = "call" =>
    /\ p.name # <<>> /\ p.id[1] = turn
    /\ \A q \in ToSet(pieces) : q.kind = "call" /\ q.id = p.id => q.name = p.name

(* What an upstream calls; Gemini without identifiers.                     *)
Calls(format, p) ==
  p.kind = "call" => \E i : p.name = <<turn, i>> /\ (format # "gemini" => p.id = <<turn, i>>)

CallsAll(format, pieces) == \A p \in ToSet(pieces) : Calls(format, p)

CallsIn1(format, a) == a.choices # <<>> => CallsAll(format, a.choices[1].pieces)

LEMMA CallsIdentify ==
  ASSUME NEW format, format # "gemini", NEW pieces, CallsAll(format, pieces)
  PROVE  Identifies(pieces)
<1>1. ASSUME NEW p \in ToSet(pieces), p.kind = "call"
      PROVE  /\ p.name # <<>> /\ p.id[1] = turn /\ p.id = p.name
  <2>1. PICK i : p.name = <<turn, i>> /\ p.id = <<turn, i>>
    BY <1>1 DEF CallsAll, Calls
  <2>2. <<turn, i>> # <<>> /\ <<turn, i>>[1] = turn
    OBVIOUS
  <2>3. QED
    BY <2>1, <2>2
<1>2. QED
  BY <1>1 DEF Identifies

LEMMA AnswersCall ==
  ASSUME NEW format \in Formats, NEW reply \in Answers(format)
  PROVE  CallsIn1(format, reply)
<1> DEFINE T(i) == Text(<<<<turn, 4 + i>>>>)
           C(i, args) == Call(IF format = "gemini" THEN <<>> ELSE <<turn, i>>, <<turn, i>>, args)
           Mixed(args) == <<T(1), C(1, "given"), T(2), C(2, args)>>
           Talk(args) == IF format \in OpenAIFormats THEN TextsThenCalls(Mixed(args)) ELSE Mixed(args)
           role == IF format = "gemini" THEN "model" ELSE "assistant"
           One(pieces, end) == <<Choice(role, pieces, EndOf(format, end))>>
<1>1. ASSUME NEW i, NEW args
      PROVE  /\ PieceOK(T(i)) /\ PieceOK(C(i, args)) /\ Calls(format, T(i)) /\ Calls(format, C(i, args))
  <2>1. T(i).kind = "text"
    BY PieceIs
  <2>2. /\ C(i, args).name = <<turn, i>>
        /\ format # "gemini" => C(i, args).id = <<turn, i>>
    <3> DEFINE id == IF format = "gemini" THEN <<>> ELSE <<turn, i>>
               name == <<turn, i>>
    <3> HIDE DEF id, name
    <3>1. Call(id, name, args).name = name /\ Call(id, name, args).id = id
      BY DEF Call
    <3>2. QED
      BY <3>1 DEF id, name
  <2>3. PieceOK(T(i)) /\ PieceOK(C(i, args))
    BY DEF PieceOK
  <2> HIDE DEF T, C
  <2>4. QED
    BY <2>1, <2>2, <2>3 DEF Calls
<1> HIDE DEF T, C
<1>2. ASSUME NEW p, Calls(format, p) PROVE CallsAll(format, <<p>>)
  BY <1>2, Members DEF CallsAll
<1>3. CallsAll(format, <<>>)
  BY Members DEF CallsAll
<1>4. ASSUME NEW args PROVE CallsAll(format, Mixed(args)) /\ PiecesOK(Mixed(args))
  <2>1. /\ ToSet(Mixed(args)) = {T(1), C(1, "given"), T(2), C(2, args)} /\ IsSeq(Mixed(args))
    BY ShortSeqs, Members DEF Mixed
  <2> HIDE DEF Mixed
  <2>2. QED
    BY <1>1, <2>1 DEF CallsAll, PiecesOK
<1> HIDE DEF Mixed
<1>5. ASSUME NEW args PROVE CallsAll(format, Talk(args))
  <2>1. ToSet(TextsThenCalls(Mixed(args))) \subseteq ToSet(Mixed(args))
    BY <1>4, TextsThenCallsKeep
  <2>2. CallsAll(format, TextsThenCalls(Mixed(args)))
    BY <1>4, <2>1 DEF CallsAll
  <2>3. QED
    BY <1>4, <2>2
<1> HIDE DEF Talk
<1>6. ASSUME NEW pieces, NEW end PROVE One(pieces, end)[1].pieces = pieces
  BY ChoiceAlone
<1> DEFINE All == {One(<<T(1)>>, "done"), One(<<T(1)>>, "cut"), One(<<>>, "filtered"),
                   One(<<C(1, "{}")>>, "called"), One(Talk("given"), "called")}
                  \cup (IF format \in OpenAIFormats THEN {One(Talk("broken"), "called")} ELSE {})
                  \cup (IF format # "anthropic" THEN {<<>>} ELSE {})
<1>7. Answers(format) = {[choices |-> choices, usage |-> Usage] : choices \in All}
  BY Zenon DEF Answers, All, One, Talk, Mixed, T, C
<1>8. PICK choices \in All : reply = AnswerOf(choices, Usage)
  BY <1>7 DEF AnswerOf
<1>9. reply.choices = choices
  BY <1>8, AnswerIs
<1>10. choices = <<>> \/ \E pieces, end : choices = One(pieces, end) /\ CallsAll(format, pieces)
  <2> DEFINE brief == C(1, "{}")
  <2>1. CallsAll(format, <<T(1)>>) /\ CallsAll(format, <<brief>>)
    <3>1. Calls(format, T(1)) /\ Calls(format, brief)
      BY <1>1
    <3> HIDE DEF brief
    <3>2. QED
      BY <1>2, <3>1
  <2> HIDE DEF One
  <2>2. \/ choices = <<>> \/ choices \in {One(<<T(1)>>, "done"), One(<<T(1)>>, "cut"), One(<<>>, "filtered")}
        \/ choices = One(<<brief>>, "called") \/ choices = One(Talk("given"), "called")
        \/ choices = One(Talk("broken"), "called")
    BY DEF All, brief
  <2> HIDE DEF brief, All
  <2>3. QED
    BY <1>3, <1>5, <2>1, <2>2
<1>11. CASE choices = <<>>
  BY <1>9, <1>11 DEF CallsIn1
<1>12. CASE choices # <<>>
  <2>1. PICK pieces, end : choices = One(pieces, end) /\ CallsAll(format, pieces)
    BY <1>10, <1>12
  <2>2. choices[1].pieces = pieces
    BY <1>6, <2>1, Zenon
  <2>3. QED
    BY <1>9, <2>1, <2>2 DEF CallsIn1
<1>13. QED
  BY <1>11, <1>12

LEMMA CallsOfNone ==
  ASSUME NEW pieces, \A p \in ToSet(pieces) : p.kind # "call"
  PROVE  Identifies(pieces)
BY DEF Identifies

LEMMA AssembledIdentifies ==
  ASSUME NEW format \in Formats, NEW reply, AnswerOK(format, reply), CallsIn1(format, reply)
  PROVE  LET choices == Assembled(format, reply).choices
         IN choices # <<>> /\ Identifies(choices[1].pieces)
<1> DEFINE nothing == reply.choices = <<>>
           whole == IF nothing THEN <<>> ELSE reply.choices[1].pieces
           calls == Only({"call"}, whole)
           n == Len(calls)
           id == [i \in 1..n |-> <<turn, 1, i>>]
           named == [i \in 1..n |-> IF format = "gemini" THEN [calls[i] EXCEPT !.id = <<turn, 1, i>>] ELSE calls[i]]
           text == Text(FlattenSeq(Each(LAMBDA p : p.text, Only({"text"}, whole))))
           finish == IF nothing THEN "stop" ELSE FinishRead(format, reply.choices[1].finish)
           pieces == IF calls = <<>> THEN <<text>> ELSE named
           end == IF calls = <<>> THEN finish ELSE "tool_calls"
<1>1. PiecesOK(whole) /\ CallsAll(format, whole)
  <2>1. PICK choices, usage : reply = AnswerOf(choices, usage) /\ (choices = <<>> \/ ChoiceOK(format, choices))
    BY DEF AnswerOK
  <2>2. reply.choices = choices
    BY <2>1, AnswerIs
  <2>3. CASE choices = <<>>
    BY <2>2, <2>3, EmptyIsSeq, Members DEF PiecesOK, CallsAll
  <2>4. CASE ChoiceOK(format, choices)
    <3>1. PICK role, said1, e : choices = <<Choice(role, said1, e)>> /\ PiecesOK(said1)
      BY <2>4 DEF ChoiceOK
    <3>2. choices # <<>> /\ choices[1].pieces = said1
      BY <3>1, ChoiceAlone
    <3>3. QED
      BY <2>2, <3>1, <3>2 DEF CallsIn1
  <2>5. QED
    BY <2>1, <2>3, <2>4
<1>2. Assembled(format, reply) = AnswerOf(<<Choice("assistant", pieces, end)>>, reply.usage)
  BY Zenon DEF Assembled, AnswerOf, whole, calls, text
<1>3. Assembled(format, reply).choices # <<>> /\ Assembled(format, reply).choices[1].pieces = pieces
  <2> HIDE DEF pieces, end
  <2>1. Assembled(format, reply).choices = <<Choice("assistant", pieces, end)>>
    BY <1>2, AnswerIs
  <2>2. QED
    BY <2>1, ChoiceAlone
<1> HIDE DEF whole
<1>4. IsSeq(whole) /\ \A p \in ToSet(whole) : PieceOK(p)
  BY <1>1 DEF PiecesOK
<1>5. IsSeq(calls) /\ \A p \in ToSet(calls) : p \in ToSet(whole) /\ PieceOK(p) /\ p.kind = "call"
  BY <1>4, OnlyElements
<1>6. text.kind = "text"
  BY PieceIs
<1> HIDE DEF calls, text
<1>7. n \in Nat /\ \A i \in 1..n : calls[i] \in ToSet(whole) /\ PieceOK(calls[i]) /\ calls[i].kind = "call"
  BY <1>5, ElementsOf
<1>8. CASE calls = <<>>
  <2>1. Identifies(<<text>>)
    <3>1. ToSet(<<text>>) = {text}
      BY Members
    <3>2. QED
      BY <1>6, <3>1, CallsOfNone
  <2>2. pieces = <<text>>
    BY <1>8
  <2>3. QED
    BY <1>3, <2>1, <2>2
<1>9. CASE calls # <<>> /\ format # "gemini"
  <2>1. named = [i \in 1..n |-> calls[i]]
    BY <1>9
  <2>2. named = calls
    <3>1. /\ DOMAIN named = 1..n /\ \A i \in 1..n : named[i] = calls[i]
      BY <2>1
    <3>2. IsSeq(named) /\ Len(named) = n
      <4> HIDE DEF named, n
      <4>1. named = [i \in 1..n |-> named[i]]
        BY <2>1, <3>1
      <4>2. QED
        BY <1>7, <3>1, <4>1, SeqGiven
    <3> HIDE DEF named
    <3>3. QED
      BY <1>5, <3>1, <3>2, SameElements
  <2>3. CallsAll(format, calls)
    BY <1>1, <1>5 DEF CallsAll
  <2>4. Identifies(calls)
    BY <1>9, <2>3, CallsIdentify
  <2>5. pieces = calls
    BY <1>9, <2>2
  <2>6. QED
    BY <1>3, <2>4, <2>5
<1>10. CASE calls # <<>> /\ format = "gemini"
  <2>1. ASSUME NEW i \in 1..n PROVE named[i].id = id[i] /\ id[i][1] = turn /\ named[i].name # <<>>
    <3> DEFINE p == calls[i]
               x == <<turn, 1, i>>
    <3>1. PieceOK(p) /\ p.kind = "call" /\ Calls(format, p)
      BY <1>1, <1>7 DEF CallsAll
    <3>2. named[i] = [p EXCEPT !.id = x] /\ id[i] = x
      BY <1>10
    <3>3. x[1] = turn
      OBVIOUS
    <3> HIDE DEF p, named, x, id
    <3>4. PICK y, name, args : p = Call(y, name, args)
      BY <3>1, PieceIs DEF PieceOK
    <3>5. [p EXCEPT !.id = x] = Call(x, name, args) /\ p.name = name
      BY <3>4 DEF Call
    <3>6. Call(x, name, args).id = x /\ Call(x, name, args).name = name
      BY DEF Call
    <3>7. PICK k : p.name = <<turn, k>>
      BY <3>1 DEF Calls
    <3>8. <<turn, k>> # <<>>
      OBVIOUS
    <3>9. QED
      BY <3>2, <3>3, <3>5, <3>6, <3>7, <3>8
  <2>2. \A i, j \in 1..n : id[i] = id[j] => i = j
    <3>1. \A i, j \in 1..n : <<turn, 1, i>> = <<turn, 1, j>> => i = j
      OBVIOUS
    <3>2. QED
      BY <3>1
  <2>3. IsSeq(named) /\ \A p \in ToSet(named) : \E i \in 1..n : p = named[i]
    <3>1. DOMAIN named = 1..n /\ named = [i \in 1..n |-> named[i]]
      OBVIOUS
    <3> HIDE DEF named, n
    <3>2. QED
      BY <1>7, <3>1, SeqGiven
  <2>4. pieces = named
    BY <1>10
  <2> HIDE DEF named, id, n
  <2>5. n \in Nat
    BY <1>7
  <2>6. Identifies(named)
    BY <2>1, <2>2, <2>3, <2>5 DEF Identifies
  <2>7. QED
    BY <1>3, <2>4, <2>6
<1>11. QED
  BY <1>8, <1>9, <1>10

LEMMA FewerIdentify ==
  ASSUME NEW s, NEW t, ToSet(s) \subseteq ToSet(t), Identifies(t)
  PROVE  Identifies(s)
BY DEF Identifies

LEMMA NamedIdentifies ==
  ASSUME NEW pieces, PiecesOK(pieces), CallsAll("gemini", pieces)
  PROVE  Identifies(NamedAs(pieces, <<turn, 0>>))
<1> DEFINE n == Len(pieces)
           fresh == <<turn, 0>>
           id == [i \in 1..n |-> fresh \o <<i>>]
           named == NamedAs(pieces, fresh)
<1>1. /\ IsSeq(pieces) /\ n \in Nat
      /\ \A i \in 1..n : PieceOK(pieces[i]) /\ Calls("gemini", pieces[i])
  <2>1. IsSeq(pieces) /\ \A p \in ToSet(pieces) : PieceOK(p) /\ Calls("gemini", p)
    BY DEF PiecesOK, CallsAll
  <2>2. QED
    BY <2>1, ElementsOf
<1>2. DOMAIN named = 1..n /\ named = [i \in 1..n |-> named[i]]
  BY DEF NamedAs
<1>3. ASSUME NEW i \in 1..n, named[i].kind = "call"
      PROVE  named[i].id = id[i] /\ id[i][1] = turn /\ named[i].name # <<>>
  <2> DEFINE p == pieces[i]
             x == fresh \o <<i>>
  <2>1. PieceOK(p) /\ Calls("gemini", p)
    BY <1>1
  <2>2. named[i] = (IF p.kind = "call" THEN [p EXCEPT !.id = x] ELSE p) /\ id[i] = x
    BY DEF NamedAs
  <2>3. x[1] = turn
    OBVIOUS
  <2> HIDE DEF p, named, x, id
  <2>4. p.kind = "call"
    BY <1>3, <2>2
  <2>5. PICK y, name, args : p = Call(y, name, args)
    BY <2>1, <2>4, PieceIs DEF PieceOK
  <2>6. [p EXCEPT !.id = x] = Call(x, name, args) /\ p.name = name
    BY <2>5 DEF Call
  <2>7. Call(x, name, args).id = x /\ Call(x, name, args).name = name
    BY DEF Call
  <2>8. PICK k : p.name = <<turn, k>>
    BY <2>1, <2>4 DEF Calls
  <2>9. <<turn, k>> # <<>>
    OBVIOUS
  <2>10. QED
    BY <2>2, <2>3, <2>4, <2>6, <2>7, <2>8, <2>9
<1>4. \A i, j \in 1..n : id[i] = id[j] => i = j
  <2>1. ASSUME NEW i \in 1..n, NEW j \in 1..n, fresh \o <<i>> = fresh \o <<j>> PROVE i = j
    <3>1. (fresh \o <<i>>)[3] = i /\ (fresh \o <<j>>)[3] = j
      OBVIOUS
    <3>2. QED
      BY <2>1, <3>1
  <2>2. QED
    BY <2>1
<1>5. IsSeq(named) /\ \A p \in ToSet(named) : \E i \in 1..n : p = named[i]
  <2> HIDE DEF named, n
  <2> QED
    BY <1>1, <1>2, SeqGiven
<1> HIDE DEF named, id, n
<1>6. Identifies(named)
  BY <1>1, <1>3, <1>4, <1>5 DEF Identifies
<1>7. QED
  BY <1>6 DEF named

(* What the client is given. *)
GivenWell(choices) ==
  \/ choices = <<>>
  \/ \E role, pieces, end :
       choices = <<Choice(role, pieces, end)>> /\ PiecesOK(pieces) /\ Identifies(pieces)

(* What is heard: an answer of the upstream's, or one that was assembled.  *)
HeardWell(from, a) ==
  \/ CallsIn1(from, a)
  \/ from = "openai_chat" /\ a.choices # <<>> /\ Identifies(a.choices[1].pieces)

LEMMA HeardIdentifies ==
  ASSUME upstream \in Formats, NEW reply \in Answers(upstream), NEW heard \in Heard(reply)
  PROVE  HeardWell(heard.format, heard.answer)
<1>1. AnswerOK(upstream, reply) /\ CallsIn1(upstream, reply)
  BY AnswersOK, AnswersCall
<1> DEFINE assembled == Assembled(upstream, reply)
<1>2. assembled.choices # <<>> /\ Identifies(assembled.choices[1].pieces)
  BY <1>1, AssembledIdentifies
<1>3. Unread.choices # <<>> /\ Identifies(Unread.choices[1].pieces)
  <2> DEFINE empty == Text(<<>>)
             pieces == <<empty>>
             choices == <<Choice("assistant", pieces, "stop")>>
  <2>1. empty.kind = "text"
    BY PieceIs
  <2> HIDE DEF empty
  <2>2. ToSet(pieces) = {empty}
    BY Members
  <2> HIDE DEF pieces
  <2>3. Identifies(pieces)
    BY <2>1, <2>2, CallsOfNone
  <2>4. choices # <<>> /\ choices[1].pieces = pieces
    BY ChoiceAlone
  <2> HIDE DEF choices
  <2>5. Unread.choices = choices
    BY DEF Unread, choices, pieces, empty
  <2>6. QED
    BY <2>3, <2>4, <2>5
<1> HIDE DEF assembled
<1>4. \/ heard = [format |-> upstream, answer |-> reply]
      \/ heard = [format |-> "openai_chat", answer |-> assembled]
      \/ heard = [format |-> "openai_chat", answer |-> Unread]
  BY DEF Heard, assembled
<1>5. QED
  BY <1>1, <1>2, <1>3, <1>4 DEF HeardWell

LEMMA GivenIdentifies ==
  ASSUME NEW from \in Formats, NEW a, AnswerOK(from, a), HeardWell(from, a),
         NEW converted, converted = ConvertResponse(from, "openai_chat", a, <<turn, 0>>),
         converted # <<>>
  PROVE  GivenWell(converted[1].choices)
<1> DEFINE fresh == <<turn, 0>>
<1>1. PICK choices, usage : a = AnswerOf(choices, usage) /\ (choices = <<>> \/ ChoiceOK(from, choices))
  BY DEF AnswerOK
<1>2. a.choices = choices
  BY <1>1, AnswerIs
<1>3. ASSUME choices # <<>>
      PROVE  \E role, pieces, end : choices = <<Choice(role, pieces, end)>> /\ PiecesOK(pieces)
                                    /\ choices[1].pieces = pieces
  <2>1. PICK role, pieces, end : choices = <<Choice(role, pieces, end)>> /\ PiecesOK(pieces)
    BY <1>1, <1>3 DEF ChoiceOK
  <2>2. choices[1].pieces = pieces
    BY <2>1, ChoiceAlone
  <2>3. QED
    BY <2>1, <2>2
<1>4. CASE from = "openai_chat"
  <2>1. converted = <<a>>
    BY <1>4 DEF ConvertResponse
  <2>2. converted[1].choices = choices
    BY <1>2, <2>1
  <2>3. CASE choices = <<>>
    BY <2>2, <2>3 DEF GivenWell
  <2>4. CASE choices # <<>>
    <3>1. PICK role, pieces, end : choices = <<Choice(role, pieces, end)>> /\ PiecesOK(pieces)
                                   /\ choices[1].pieces = pieces
      BY <1>3, <2>4
    <3>2. Identifies(pieces)
      <4>1. CallsAll("openai_chat", pieces) => Identifies(pieces)
        BY CallsIdentify
      <4>2. QED
        BY <1>2, <1>4, <2>4, <3>1, <4>1 DEF HeardWell, CallsIn1
    <3>3. QED
      BY <2>2, <3>1, <3>2 DEF GivenWell
  <2>5. QED
    BY <2>3, <2>4
<1>5. CASE from # "openai_chat"
  <2> DEFINE ir == ResponseToInternal(from, a, fresh)
  <2>1. from \in Converted /\ converted = <<ir>>
    <3>1. "openai_responses" # from
      BY <1>5 DEF ConvertResponse
    <3>2. converted = <<ResponseFromInternal("openai_chat", ir)>>
      BY <1>5, <3>1 DEF ConvertResponse
    <3>3. ResponseFromInternal("openai_chat", ir) = ir
      BY DEF ResponseFromInternal
    <3>4. QED
      BY <3>1, <3>2, <3>3 DEF Formats, OpenAIFormats, Converted
  <2>2. converted[1] = ir
    <3> HIDE DEF ir
    <3> QED
      BY <2>1
  <2> HIDE DEF fresh
  <2>3. CASE choices = <<>>
    <3>1. ir = AnswerOf(<<>>, usage)
      BY <1>1, <2>1, <2>3, ReadNothing
    <3> HIDE DEF ir
    <3>2. ir.choices = <<>>
      BY <3>1, AnswerIs
    <3>3. QED
      BY <2>2, <3>2 DEF GivenWell
  <2>4. CASE choices # <<>>
    <3>1. PICK role, pieces, end : choices = <<Choice(role, pieces, end)>> /\ PiecesOK(pieces)
                                   /\ choices[1].pieces = pieces
      BY <1>3, <2>4
    <3> DEFINE shown == IF from = "gemini" THEN NamedAs(pieces, fresh) ELSE pieces
               others == TextsThenCalls(shown)
               reason == FinishRead(from, end)
    <3>2. \E speaker : ir = AnswerOf(<<Choice(speaker, others, reason)>>, usage)
      <4>1. a = AnswerOf(<<Choice(role, pieces, end)>>, usage)
        BY <1>1, <3>1
      <4>2. \E speaker, told :
              /\ ResponseToInternal(from, AnswerOf(<<Choice(role, pieces, end)>>, usage), fresh)
                   = AnswerOf(<<Choice(speaker, told, reason)>>, usage)
              /\ told = others
        <5>1. from \in Converted /\ PiecesOK(pieces)
          BY <2>1, <3>1
        <5>2. QED
          BY <5>1, ReadAnswer
      <4>3. QED
        BY <4>1, <4>2
    <3>3. CallsAll(from, pieces)
      BY <1>2, <1>5, <2>4, <3>1 DEF HeardWell, CallsIn1
    <3>4. PiecesOK(shown) /\ Identifies(shown)
      <4>1. CASE from = "gemini"
        <5>1. PiecesOK(NamedAs(pieces, fresh))
          BY <3>1, NamedKeeps
        <5>2. Identifies(NamedAs(pieces, fresh))
          BY <3>1, <3>3, <4>1, NamedIdentifies DEF fresh
        <5>3. QED
          BY <4>1, <5>1, <5>2
      <4>2. CASE from # "gemini"
        BY <3>1, <3>3, <4>2, CallsIdentify
      <4>3. QED
        BY <4>1, <4>2
    <3> HIDE DEF shown
    <3>5. PiecesOK(others) /\ ToSet(others) \subseteq ToSet(shown)
      BY <3>4, TextsThenCallsKeep
    <3> HIDE DEF others, reason, ir
    <3>6. Identifies(others)
      BY <3>4, <3>5, FewerIdentify
    <3>7. PICK speaker : ir = AnswerOf(<<Choice(speaker, others, reason)>>, usage)
      BY <3>2
    <3>8. ir.choices = <<Choice(speaker, others, reason)>>
      BY <3>7, AnswerIs
    <3>9. GivenWell(ir.choices)
      BY <3>5, <3>6, <3>8 DEF GivenWell
    <3>10. QED
      BY <2>2, <3>9
  <2>5. QED
    BY <2>3, <2>4
<1>6. QED
  BY <1>4, <1>5

(* Messages are said piece by piece. *)
LEMMA SpokenSayings ==
  ASSUME NEW speaker, NEW message, NEW pieces, IsSeq(pieces)
  PROVE  SpokenPieces(Sayings(speaker, message, pieces)) = pieces
<1> DEFINE s == Sayings(speaker, message, pieces)
           n == Len(pieces)
<1>1. n \in Nat
  BY ElementsOf
<1>2. DOMAIN s = 1..n /\ s = [i \in 1..n |-> s[i]] /\ \A i \in 1..n : s[i].piece = pieces[i]
  BY DEF Sayings
<1> HIDE DEF s, n
<1>3. IsSeq(s) /\ Len(s) = n
  BY <1>1, <1>2, SeqGiven
<1>4. IsSeq(SpokenPieces(s)) /\ Len(SpokenPieces(s)) = n /\ \A i \in 1..n : SpokenPieces(s)[i] = s[i].piece
  <2> DEFINE t == SpokenPieces(s)
  <2>1. DOMAIN t = 1..n /\ t = [i \in 1..n |-> t[i]] /\ \A i \in 1..n : t[i] = s[i].piece
    BY <1>3 DEF SpokenPieces
  <2> HIDE DEF t
  <2>2. IsSeq(t) /\ Len(t) = n
    BY <1>1, <2>1, SeqGiven
  <2>3. QED
    BY <2>1, <2>2 DEF t
<1>5. QED
  BY <1>2, <1>4, SameElements DEF s, n

LEMMA SpokenIsHeld ==
  ASSUME NEW messages, PiecesIn(messages), NEW says, SaysEach(says, messages)
  PROVE  SpokenPieces(FlattenSeq(says)) = HeldPieces(messages) /\ IsSeq(FlattenSeq(says))
<1> DEFINE n == Len(messages)
           S == UNION {ToSet(says[i]) : i \in 1..n}
           same == [x \in ToSet(says) |-> x]
           g == [s \in S |-> s.piece]
           h == [x \in ToSet(says) |-> Through(g, x)]
<1>1. IsSeq(messages) /\ n \in Nat
  BY ElementsOf DEF PiecesIn
<1>2. /\ DOMAIN says = 1..n /\ says = [i \in 1..n |-> says[i]]
      /\ \A i \in 1..n : \E speaker, message : says[i] = Sayings(speaker, message, messages[i].pieces)
  BY DEF SaysEach
<1>3. IsSeq(says) /\ Len(says) = n
  <2> HIDE DEF n
  <2> QED
    BY <1>1, <1>2, SeqGiven
<1>4. ASSUME NEW i \in 1..n
      PROVE  IsSeq(says[i]) /\ Through(g, says[i]) = messages[i].pieces
  <2>1. PICK speaker, message : says[i] = Sayings(speaker, message, messages[i].pieces)
    BY <1>2
  <2> DEFINE pieces == messages[i].pieces
             x == says[i]
  <2>2. IsSeq(pieces)
    BY <1>1, ElementsOf DEF PiecesIn
  <2>3. ToSet(x) \subseteq S
    OBVIOUS
  <2> HIDE DEF pieces, x, S
  <2>4. x = Sayings(speaker, message, pieces)
    BY <2>1 DEF x, pieces
  <2>5. IsSeq(x) /\ SpokenPieces(x) = pieces
    BY <2>2, <2>4, SayingsOf, SpokenSayings
  <2>6. SpokenPieces(x) = Through(g, x)
    BY <2>3, <2>5, SpokenIs
  <2>7. QED
    BY <2>5, <2>6 DEF x, pieces
<1>5. \A i \in 1..n : says[i] \in ToSet(says)
  BY <1>3, ElementsOf
<1>6. \A i \in 1..n : same[says[i]] = says[i] /\ h[says[i]] = messages[i].pieces
  BY <1>4, <1>5
<1>7. ThroughEach(same, g, h, says)
  BY <1>3, <1>4, <1>6 DEF ThroughEach
<1>8. \A i \in 1..Len(says) : ToSet(same[says[i]]) \subseteq S
  BY <1>3, <1>6
<1> HIDE DEF same, g, h, S
<1>9. Through(same, says) = says
  <2>1. /\ IsSeq(Through(same, says)) /\ Len(Through(same, says)) = Len(says)
        /\ \A i \in 1..Len(says) : Through(same, says)[i] = same[says[i]]
    BY <1>3, ThroughIs
  <2>2. QED
    BY <1>3, <1>6, <2>1, SameElements
<1>10. FlattenSeq(says) = Gather(same, says)
  BY <1>9 DEF Gather
<1>11. Gathers(same, says)
  BY <1>3, <1>4, <1>6 DEF Gathers
<1>12. Through(g, Gather(same, says)) = Gather(h, says)
  BY <1>7, <1>11, ThroughGather
<1>13. Gather(h, says) = HeldPieces(messages)
  <2>1. Through(h, says) = [i \in 1..n |-> messages[i].pieces]
    BY <1>3, <1>6 DEF Through
  <2>2. QED
    BY <2>1 DEF Gather, HeldPieces
<1>14. ToSet(Gather(same, says)) \subseteq S /\ IsSeq(Gather(same, says))
  BY <1>8, <1>11, GatherElements, GathersAll
<1>15. SpokenPieces(Gather(same, says)) = Through(g, Gather(same, says))
  BY <1>14, SpokenIs DEF g
<1>16. QED
  BY <1>10, <1>12, <1>13, <1>14, <1>15

----------------------------------------------------------------------------
(* A client of Chat: what its messages hold.                               *)
IsCall(p) == p.kind = "call"

IsResult(p) == p.kind = "result"

(* One identifier for one function, and each of a turn up to the bound.    *)
CallsApart(messages) ==
  \A m, n \in ToSet(messages) : \A c \in ToSet(m.pieces), d \in ToSet(n.pieces) :
    IsCall(c) /\ IsCall(d) /\ c.id = d.id => c.name = d.name

CallsDated(messages, bound) ==
  \A m \in ToSet(messages) : \A c \in ToSet(m.pieces) :
    IsCall(c) => c.name # <<>> /\ c.id[1] \in Int /\ c.id[1] <= bound

(* A result comes after the call that it answers. *)
Answers1(messages, k, r) ==
  \E j \in 1..(k - 1) : \E c \in ToSet(messages[j].pieces) :
    IsCall(c) /\ c.id = r.id /\ r.text = ResultText(c.name)

ResultsOwned(messages) ==
  \A k \in 1..Len(messages) : \A r \in ToSet(messages[k].pieces) :
    IsResult(r) => Answers1(messages, k, r)

LastDate == IF phase \in {"asked", "refused", "sent"} THEN turn - 1 ELSE turn

ResultsHold ==
  client = "openai_chat" =>
    /\ \A m \in ToSet(history) : ChatForm(m)
    /\ CallsApart(history) /\ CallsDated(history, LastDate) /\ ResultsOwned(history)
    /\ Only({"result"}, HeldPieces(history)) = Only({"result"}, SpokenPieces(said))

LEMMA HistoryPieces ==
  ASSUME CallsHold
  PROVE  PiecesIn(history) /\ IsSeq(said) /\ PiecesIn(opening.messages)
BY DEF CallsHold, PiecesIn, MessageOK

(* What a conversation in Chat is opened with. *)
Opener(m) ==
  /\ m.role \in {"system", "developer"} /\ IsSeq(m.pieces)
  /\ \A p \in ToSet(m.pieces) : PieceOK(p) /\ p.kind = "text"

LEMMA ChatOpening ==
  ASSUME NEW o \in Openings("openai_chat")
  PROVE  o.system = <<>> /\ \A m \in ToSet(o.messages) : Opener(m)
<1> DEFINE One(role) == Message(role, Each(Text, SystemTexts))
           two == Each(LAMBDA t : Message("system", <<Text(t)>>), SystemTexts)
           x == Message("system", <<Text(<<<<0, 1>>>>)>>)
           y == Message("system", <<Text(<<<<0, 2>>>>)>>)
<1>1. ASSUME NEW system, NEW messages, NEW choice, NEW stop, NEW max
      PROVE  Opening(system, messages, choice, stop, max).system = system
             /\ Opening(system, messages, choice, stop, max).messages = messages
  BY DEF Opening
<1>2. ASSUME NEW role \in {"system", "developer"} PROVE Opener(One(role))
  <2> DEFINE texts == Each(Text, SystemTexts)
  <2>1. IsSeq(texts) /\ \A p \in ToSet(texts) : PieceOK(p) /\ p.kind = "text"
    BY SystemTextsIs, TextsEach
  <2> HIDE DEF texts
  <2>2. Message(role, texts).role = role /\ Message(role, texts).pieces = texts
    BY MessageIs
  <2>3. QED
    BY <1>2, <2>1, <2>2 DEF Opener, texts
<1>3. two = <<x, y>>
  BY DEF Each, SystemTexts
<1>4. ASSUME NEW text PROVE Opener(Message("system", <<Text(text)>>))
  <2> DEFINE p == Text(text)
  <2>1. PieceOK(p) /\ p.kind = "text"
    BY PieceIs DEF PieceOK
  <2> HIDE DEF p
  <2>2. IsSeq(<<p>>) /\ ToSet(<<p>>) = {p}
    BY SingleIsSeq, Members
  <2>3. Message("system", <<p>>).role = "system" /\ Message("system", <<p>>).pieces = <<p>>
    BY MessageIs
  <2>4. Opener(Message("system", <<p>>))
    BY <2>1, <2>2, <2>3 DEF Opener
  <2>5. QED
    BY <2>4 DEF p
<1>5. Opener(x) /\ Opener(y)
  BY <1>4
<1> HIDE DEF One, two, x, y
<1>6. Openings("openai_chat") =
        {Opening(<<>>, two, <<"required", <<>>>>, <<"word">>, 0),
         Opening(<<>>, <<One("system")>>, <<"none", <<>>>>, <<"word">>, 9),
         Opening(<<>>, <<One("developer")>>, <<"function", <<0, 3>>>>, <<>>, 9)}
  BY SMTT(30) DEF Openings, One, two
<1>7. o.system = <<>> /\ (o.messages = two \/ \E role \in {"system", "developer"} : o.messages = <<One(role)>>)
  BY <1>1, <1>6
<1>8. CASE o.messages = two
  <2>1. ToSet(o.messages) = {x, y}
    BY <1>3, <1>8, Members
  <2>2. QED
    BY <1>5, <1>7, <2>1
<1>9. CASE \E role \in {"system", "developer"} : o.messages = <<One(role)>>
  <2>1. PICK role \in {"system", "developer"} : o.messages = <<One(role)>>
    BY <1>9
  <2>2. ToSet(o.messages) = {One(role)}
    BY <2>1, Members
  <2>3. QED
    BY <1>2, <1>7, <2>2
<1>10. QED
  BY <1>7, <1>8, <1>9

(* Messages without results in an empty history. *)
LEMMA ResultsHoldInit ==
  ASSUME client \in Formats, Init
  PROVE  ResultsHold
<1> SUFFICES ASSUME client = "openai_chat"
             PROVE  /\ \A m \in ToSet(history) : ChatForm(m)
                    /\ CallsApart(history) /\ CallsDated(history, LastDate) /\ ResultsOwned(history)
                    /\ Only({"result"}, HeldPieces(history)) = Only({"result"}, SpokenPieces(said))
  BY DEF ResultsHold
<1> DEFINE o == opening
           says == [i \in 1..Len(o.messages) |-> Sayings(o.messages[i].role, i, o.messages[i].pieces)]
           first == Sayings("system", 0, Each(Text, o.system))
           rest == FlattenSeq(says)
<1>1. o \in Openings(client) /\ history = <<>> /\ said = first \o rest
  BY DEF Init, SaidFirst
<1>2. IsSeq(o.system) /\ AllQuiet(o.messages)
  BY <1>1, OpeningsQuiet
<1>3. SaysEach(says, o.messages)
  BY DEF SaysEach
<1> HIDE DEF says
<1>4. PiecesIn(o.messages)
  BY <1>2 DEF AllQuiet, QuietPieces, PiecesIn
<1>5. SpokenPieces(rest) = HeldPieces(o.messages) /\ IsSeq(rest)
  BY <1>3, <1>4, SpokenIsHeld
<1> DEFINE texts == Each(Text, o.system)
<1>6. IsSeq(texts) /\ \A p \in ToSet(texts) : p.kind = "text"
  BY <1>2, TextsEach
<1>7. SpokenPieces(first) = texts /\ IsSeq(first)
  <2> HIDE DEF texts
  <2>1. SpokenPieces(Sayings("system", 0, texts)) = texts /\ IsSeq(Sayings("system", 0, texts))
    BY <1>6, SpokenSayings, SayingsOf
  <2>2. QED
    BY <2>1 DEF texts
<1>8. \A m \in ToSet(o.messages) : \A p \in ToSet(m.pieces) : p.kind = "text"
  BY <1>1, ChatOpening DEF Opener
<1> HIDE DEF o, first, rest, texts
<1>9. Only({"result"}, HeldPieces(o.messages)) = <<>>
  <2> DEFINE pieces == HeldPieces(o.messages)
  <2>1. IsSeq(pieces)
    BY <1>4, HeldPiecesIs
  <2>2. IsSeq(Only({"result"}, pieces)) /\ \A p \in ToSet(Only({"result"}, pieces)) :
          p.kind = "result" /\ \E k \in 1..Len(o.messages) : p \in ToSet(o.messages[k].pieces)
    BY <1>4, <2>1, OnlyElements, HeldByOne
  <2>3. \A k \in 1..Len(o.messages) : o.messages[k] \in ToSet(o.messages)
    BY <1>4, ElementsOf DEF PiecesIn
  <2> DEFINE none == Only({"result"}, pieces)
  <2>4. \A p \in ToSet(none) : p.kind \notin {"result"}
    BY <1>8, <2>2, <2>3
  <2>5. Only({"result"}, none) = <<>>
    <3>1. IsSeq(none)
      BY <2>2
    <3> HIDE DEF none
    <3>2. QED
      BY <2>4, <3>1, OnlyNone
  <2>6. Only({"result"}, none) = Only({"result"} \cap {"result"}, pieces)
    BY <2>1, OnlyTwice
  <2>7. {"result"} \cap {"result"} = {"result"}
    OBVIOUS
  <2>8. QED
    BY <2>5, <2>6, <2>7
<1>10. Only({"result"}, texts) = <<>>
  <2>1. \A p \in ToSet(texts) : p.kind \notin {"result"}
    BY <1>6
  <2>2. QED
    BY <1>6, <2>1, OnlyNone
<1>11. SpokenPieces(said) = texts \o HeldPieces(o.messages)
  BY <1>1, <1>5, <1>7, SpokenConcat
<1>12. Only({"result"}, SpokenPieces(said)) = <<>>
  <2>1. IsSeq(HeldPieces(o.messages))
    BY <1>4, HeldPiecesIs
  <2>2. Only({"result"}, texts \o HeldPieces(o.messages)) = <<>> \o <<>>
    BY <1>6, <1>9, <1>10, <2>1, OnlyConcat
  <2>3. <<>> \o <<>> = <<>>
    BY EmptyIsSeq, Concat
  <2>4. QED
    BY <1>11, <2>2, <2>3
<1>13. HeldPieces(<<>>) = <<>>
  BY FlattenNone, EmptyIsSeq DEF HeldPieces
<1>14. ToSet(history) = {} /\ Len(history) = 0
  BY <1>1, Members, EmptyIsSeq
<1>15. QED
  BY <1>1, <1>12, <1>13, <1>14, OnlyEmpty DEF CallsApart, CallsDated, ResultsOwned

LEMMA ResultsHoldBegin ==
  ASSUME BeginStream
  PROVE  ResultsHold'
<1>1. history' = <<>> /\ said' = <<>>
  BY DEF BeginStream
<1>2. HeldPieces(<<>>) = <<>> /\ SpokenPieces(<<>>) = <<>>
  BY FlattenNone, EmptyIsSeq DEF HeldPieces, SpokenPieces
<1>3. ToSet(<<>>) = {} /\ Len(<<>>) = 0
  BY Members, EmptyIsSeq
<1>4. QED
  BY <1>1, <1>2, <1>3 DEF ResultsHold, CallsApart, CallsDated, ResultsOwned

(* What stays as it was when messages are added. *)
LEMMA OwnedBefore ==
  ASSUME NEW s, IsSeq(s), NEW t, IsSeq(t), ResultsOwned(s),
         \A k \in 1..Len(t) : \A r \in ToSet(t[k].pieces) : IsResult(r) => Answers1(s, Len(s) + 1, r)
  PROVE  ResultsOwned(s \o t)
<1> DEFINE u == s \o t
           n == Len(s)
<1>1. /\ n \in Nat /\ Len(t) \in Nat /\ Len(u) = n + Len(t)
      /\ \A i \in 1..n : u[i] = s[i]
      /\ \A i \in 1..Len(t) : u[n + i] = t[i]
  BY ConcatIs
<1> HIDE DEF u, n
<1>2. ASSUME NEW k \in 1..Len(u), NEW r \in ToSet(u[k].pieces), IsResult(r)
      PROVE  Answers1(u, k, r)
  <2>1. CASE k <= n
    <3>1. k \in 1..n
      BY <1>1, <2>1
    <3>2. Answers1(s, k, r)
      BY <1>1, <1>2, <3>1 DEF ResultsOwned, n
    <3>3. PICK j \in 1..(k - 1) : \E c \in ToSet(s[j].pieces) : IsCall(c) /\ c.id = r.id /\ r.text = ResultText(c.name)
      BY <3>2 DEF Answers1
    <3>4. j \in 1..n
      BY <1>1, <2>1
    <3>5. u[j] = s[j]
      BY <1>1, <3>4
    <3>6. QED
      BY <3>3, <3>5 DEF Answers1
  <2>2. CASE k > n
    <3>1. k - n \in 1..Len(t) /\ n + (k - n) = k
      BY <1>1, <2>2
    <3>2. u[k] = t[k - n]
      BY <1>1, <3>1
    <3>3. Answers1(s, n + 1, r)
      BY <1>2, <3>1, <3>2 DEF n
    <3>4. PICK j \in 1..n : \E c \in ToSet(s[j].pieces) : IsCall(c) /\ c.id = r.id /\ r.text = ResultText(c.name)
      <4>1. (n + 1) - 1 = n
        BY <1>1
      <4>2. QED
        BY <3>3, <4>1 DEF Answers1
    <3>5. j \in 1..(k - 1) /\ u[j] = s[j]
      BY <1>1, <2>2
    <3>6. QED
      BY <3>4, <3>5 DEF Answers1
  <2>3. QED
    BY <1>1, <2>1, <2>2
<1>3. QED
  BY <1>2 DEF ResultsOwned, u

(* What is added to the messages. *)
LEMMA ResultsMore ==
  ASSUME CallsHold, ResultsHold, client = "openai_chat", UNCHANGED client,
         NEW messages, PiecesIn(messages), \A m \in ToSet(messages) : ChatForm(m),
         NEW more, IsSeq(more),
         Only({"result"}, HeldPieces(messages)) = Only({"result"}, SpokenPieces(more)),
         history' = history \o messages, said' = said \o more,
         CallsApart(history \o messages), CallsDated(history \o messages, LastDate'),
         \A k \in 1..Len(messages) : \A r \in ToSet(messages[k].pieces) :
           IsResult(r) => Answers1(history, Len(history) + 1, r)
  PROVE  ResultsHold'
<1> DEFINE u == history \o messages
           told == said \o more
<1>1. PiecesIn(history) /\ IsSeq(said) /\ IsSeq(history) /\ IsSeq(messages)
  BY HistoryPieces DEF PiecesIn
<1>2. /\ \A m \in ToSet(history) : ChatForm(m)
      /\ ResultsOwned(history)
      /\ Only({"result"}, HeldPieces(history)) = Only({"result"}, SpokenPieces(said))
  BY DEF ResultsHold
<1>3. ToSet(u) = ToSet(history) \cup ToSet(messages) /\ HeldPieces(u) = HeldPieces(history) \o HeldPieces(messages)
  BY <1>1, MembersOfConcat, HeldPiecesConcat
<1>4. ResultsOwned(u)
  BY <1>1, <1>2, OwnedBefore
<1>5. SpokenPieces(told) = SpokenPieces(said) \o SpokenPieces(more)
  BY <1>1, SpokenConcat
<1>6. /\ IsSeq(HeldPieces(history)) /\ IsSeq(HeldPieces(messages))
      /\ IsSeq(SpokenPieces(said)) /\ IsSeq(SpokenPieces(more))
  BY <1>1, HeldPiecesIs, SpokenIs
<1>7. Only({"result"}, HeldPieces(u)) = Only({"result"}, HeldPieces(history)) \o Only({"result"}, HeldPieces(messages))
  <2> DEFINE a == HeldPieces(history)
             b == HeldPieces(messages)
  <2>1. IsSeq(a) /\ IsSeq(b) /\ HeldPieces(u) = a \o b
    BY <1>3, <1>6
  <2> HIDE DEF a, b, u
  <2>2. Only({"result"}, a \o b) = Only({"result"}, a) \o Only({"result"}, b)
    BY <2>1, OnlyConcat
  <2>3. Only({"result"}, HeldPieces(u)) = Only({"result"}, a) \o Only({"result"}, b)
    BY <2>1, <2>2
  <2>4. QED
    BY <2>3 DEF a, b
<1>8. Only({"result"}, SpokenPieces(told)) = Only({"result"}, SpokenPieces(said)) \o Only({"result"}, SpokenPieces(more))
  <2> DEFINE a == SpokenPieces(said)
             b == SpokenPieces(more)
  <2>1. IsSeq(a) /\ IsSeq(b) /\ SpokenPieces(told) = a \o b
    BY <1>5, <1>6
  <2> HIDE DEF a, b, told
  <2>2. Only({"result"}, a \o b) = Only({"result"}, a) \o Only({"result"}, b)
    BY <2>1, OnlyConcat
  <2>3. Only({"result"}, SpokenPieces(told)) = Only({"result"}, a) \o Only({"result"}, b)
    BY <2>1, <2>2
  <2>4. QED
    BY <2>3 DEF a, b
<1>9. Only({"result"}, HeldPieces(u)) = Only({"result"}, SpokenPieces(told))
  BY <1>2, <1>7, <1>8
<1>10. \A m \in ToSet(u) : ChatForm(m)
  BY <1>2, <1>3
<1>11. CallsApart(u) /\ CallsDated(u, LastDate') /\ history' = u /\ said' = told
  OBVIOUS
<1> HIDE DEF u, told
<1>12. QED
  BY <1>4, <1>9, <1>10, <1>11 DEF ResultsHold, LastDate

(* What the client asks calls nothing, and its results answer the calls of *)
(* the last message.                                                       *)
Asks(m) ==
  /\ ChatForm(m)
  /\ \A p \in ToSet(m.pieces) : ~IsCall(p) /\ (IsResult(p) => Answers1(history, Len(history) + 1, p))

LEMMA PendingAre ==
  ASSUME CallsHold
  PROVE  /\ IsSeq(Pending)
         /\ \A c \in ToSet(Pending) :
              IsCall(c) /\ Len(history) \in 1..Len(history) /\ c \in ToSet(history[Len(history)].pieces)
<1>1. CASE history = <<>> \/ Last(history).role \notin {"assistant", "model"}
  <2>1. Pending = <<>>
    BY <1>1 DEF Pending
  <2>2. QED
    BY <2>1, EmptyIsSeq, Members
<1>2. CASE ~(history = <<>> \/ Last(history).role \notin {"assistant", "model"})
  <2> DEFINE n == Len(history)
             m == Last(history)
  <2>1. Pending = Only({"call"}, m.pieces)
    BY <1>2 DEF Pending
  <2>2. IsSeq(history) /\ \A x \in ToSet(history) : IsSeq(x.pieces)
    BY HistoryPieces DEF PiecesIn
  <2>3. n \in 1..n
    <3>1. history \in Seq(ToSet(history)) /\ n \in Nat
      BY <2>2, ElementsOf DEF IsSeq
    <3>2. n # 0
      BY <1>2, <3>1, EmptySeq
    <3>3. QED
      BY <3>1, <3>2
  <2>4. m = history[n]
    BY DEF Last
  <2>5. IsSeq(m.pieces)
    BY <2>2, <2>3, <2>4, ElementsOf
  <2> HIDE DEF m, n
  <2>6. QED
    BY <2>1, <2>3, <2>4, <2>5, OnlyElements DEF IsCall, n
<1>3. QED
  BY <1>1, <1>2

LEMMA ResultAsks ==
  ASSUME CallsHold, NEW c \in ToSet(Pending), NEW listed
  PROVE  Asks(Message("tool", <<Result(c.id, <<>>, ResultText(c.name), listed)>>))
<1> DEFINE id == c.id
           text == ResultText(c.name)
           r == Result(id, <<>>, text, listed)
           m == Message("tool", <<r>>)
           n == Len(history)
<1>1. r.kind = "result" /\ r.id = id /\ r.text = text
  BY ResultIs
<1>2. m.role = "tool" /\ m.pieces = <<r>>
  BY MessageIs
<1>3. IsSeq(<<r>>) /\ ToSet(<<r>>) = {r}
  BY SingleIsSeq, Members
<1>4. ChatForm(m)
  <2>1. \E x, w, parts : m.pieces = <<Result(x, <<>>, w, parts)>>
    BY <1>2
  <2> HIDE DEF r, m
  <2>2. QED
    BY <1>2, <1>3, <2>1 DEF ChatForm
<1>5. IsCall(c) /\ n \in 1..n /\ c \in ToSet(history[n].pieces)
  BY PendingAre
<1> HIDE DEF r, m
<1>6. n \in 1..((n + 1) - 1)
  BY <1>5
<1>7. Answers1(history, n + 1, r)
  BY <1>1, <1>5, <1>6 DEF Answers1
<1>8. Asks(m)
  BY <1>1, <1>2, <1>3, <1>4, <1>7 DEF Asks, IsCall, n
<1>9. QED
  BY <1>8 DEF m, r

LEMMA WordsAsk ==
  ASSUME NEW pieces, IsSeq(pieces),
         \A p \in ToSet(pieces) : AnyPiece(p) /\ p.kind \in {"text", "image"}
  PROVE  Asks(Message("user", pieces))
<1> DEFINE m == Message("user", pieces)
<1>1. m.role = "user" /\ m.pieces = pieces
  BY MessageIs
<1> HIDE DEF m
<1>2. Asks(m)
  BY <1>1 DEF Asks, ChatForm, IsCall, IsResult
<1>3. QED
  BY <1>2 DEF m

(* Every message that is sent for the results. *)
LEMMA AnsweringAsks ==
  ASSUME CallsHold, client = "openai_chat", NEW listed,
         NEW beside, beside = <<>> \/ Asks(Message("user", beside)),
         NEW results,
         results = [i \in 1..Len(Pending) |-> Result(Pending[i].id, <<>>, ResultText(Pending[i].name), listed)]
  PROVE  /\ IsSeq(Answering(results, beside))
         /\ \A m \in ToSet(Answering(results, beside)) : Asks(m)
<1> DEFINE n == Len(Pending)
           tools == Each(LAMBDA r : Message("tool", <<r>>), results)
           user == Message("user", beside)
           rest == IF beside = <<>> THEN <<>> ELSE <<user>>
           R(c) == Result(c.id, <<>>, ResultText(c.name), listed)
<1>1. IsSeq(Pending) /\ n \in Nat /\ \A i \in 1..n : Pending[i] \in ToSet(Pending)
  BY PendingAre, ElementsOf
<1>2. Answering(results, beside) = tools \o rest
  BY DEF Answering, OpenAIFormats
<1>3. /\ DOMAIN results = 1..n /\ results = [i \in 1..n |-> results[i]]
      /\ \A i \in 1..n : results[i] = R(Pending[i])
  OBVIOUS
<1>4. IsSeq(results) /\ Len(results) = n
  <2> HIDE DEF n, R
  <2> QED
    BY <1>1, <1>3, SeqGiven
<1>5. DOMAIN tools = 1..n /\ tools = [i \in 1..n |-> tools[i]]
      /\ \A i \in 1..n : tools[i] = Message("tool", <<results[i]>>)
  BY <1>4 DEF Each
<1>6. \A c \in ToSet(Pending) : Asks(Message("tool", <<R(c)>>))
  BY ResultAsks
<1> HIDE DEF tools, n, R
<1>7. IsSeq(tools) /\ \A m \in ToSet(tools) : \E i \in 1..n : m = tools[i]
  BY <1>1, <1>5, SeqGiven
<1>8. \A m \in ToSet(tools) : Asks(m)
  BY <1>1, <1>3, <1>5, <1>6, <1>7
<1>9. IsSeq(rest) /\ \A m \in ToSet(rest) : Asks(m)
  <2>1. CASE beside = <<>>
    BY <2>1, EmptyIsSeq, Members
  <2>2. CASE beside # <<>>
    <3>1. Asks(user)
      BY <2>2
    <3> HIDE DEF user
    <3>2. IsSeq(<<user>>) /\ ToSet(<<user>>) = {user}
      BY SingleIsSeq, Members
    <3>3. QED
      BY <2>2, <3>1, <3>2
  <2>3. QED
    BY <2>1, <2>2
<1> HIDE DEF rest
<1>10. IsSeq(tools \o rest) /\ ToSet(tools \o rest) = ToSet(tools) \cup ToSet(rest)
  BY <1>7, <1>9, Concat, MembersOfConcat
<1>11. QED
  BY <1>2, <1>8, <1>9, <1>10

LEMMA ResultsHoldAsk ==
  ASSUME Typed, CallsHold, ResultsHold, Ask
  PROVE  ResultsHold'
<1> DEFINE word == Text(<<<<turn + 1, 1>>>>)
           other == Text(<<<<turn + 1, 2>>>>)
           Results(listed) == Each(LAMBDA c : Result(c.id, IF client = "gemini" THEN c.name ELSE <<>>,
                                                     ResultText(c.name), listed), Pending)
           Says(messages) == Each(LAMBDA m : Sayings(IF m.role = "tool" THEN "tool" ELSE "user", 0,
                                                     m.pieces), messages)
           words == <<word, other>>
           Asked(messages) ==
             \/ messages = <<Message("user", <<word>>)>>
             \/ \E picture \in Pictures : messages = <<Message("user", <<word, picture, other>>)>>
             \/ \E listed : \E beside \in {<<>>, <<word>>} : messages = Answering(Results(listed), beside)
<1>1. \E messages : Asked(messages) /\ Sends(messages)
  <2>1. \/ Sends(<<Message("user", <<words[1]>>)>>)
        \/ \E picture \in Pictures : Sends(<<Message("user", <<words[1], picture, words[2]>>)>>)
        \/ \E listed \in BOOLEAN, beside \in {<<>>, <<words[1]>>} : Sends(Answering(Results(listed), beside))
    BY Zenon DEF Ask
  <2>2. words[1] = word /\ words[2] = other
    OBVIOUS
  <2> HIDE DEF words, word, other, Results
  <2>3. QED
    BY <2>1, <2>2
<1>2. PICK messages : Asked(messages) /\ Sends(messages)
  BY <1>1
<1>3. UNCHANGED <<client, opening>> /\ phase = "asking" /\ phase' = "asked" /\ turn' = turn + 1
  BY DEF Ask
<1> SUFFICES ASSUME client = "openai_chat" PROVE ResultsHold'
  BY <1>3 DEF ResultsHold
<1>4. /\ word.kind = "text" /\ other.kind = "text"
      /\ \A picture \in Pictures : picture.kind = "image"
  BY PieceIs, OtherPieces DEF Pictures
<1>5. AnyPiece(word) /\ AnyPiece(other) /\ \A picture \in Pictures : AnyPiece(picture)
  BY DEF AnyPiece, PieceOK, Pictures
<1> HIDE DEF word, other
<1>6. Asks(Message("user", <<word>>))
  <2>1. IsSeq(<<word>>) /\ ToSet(<<word>>) = {word}
    BY SingleIsSeq, Members
  <2>2. QED
    BY <1>4, <1>5, <2>1, WordsAsk
<1>7. ASSUME NEW image \in Pictures PROVE Asks(Message("user", <<word, image, other>>))
  <2>1. IsSeq(<<word, image, other>>)
    <3>1. <<word, image, other>> \in Seq({word, image, other})
      OBVIOUS
    <3>2. QED
      BY <3>1, SeqIsSeq
  <2>2. ToSet(<<word, image, other>>) = {word, image, other}
    BY Members
  <2>3. QED
    BY <1>4, <1>5, <2>1, <2>2, WordsAsk
<1>8. IsSeq(messages) /\ \A m \in ToSet(messages) : Asks(m)
  <2>1. \/ \E m1 : Asks(m1) /\ messages = <<m1>>
        \/ \E listed : \E beside \in {<<>>, <<word>>} : messages = Answering(Results(listed), beside)
    <3> HIDE DEF Results
    <3> QED
      BY <1>2, <1>6, <1>7
  <2>2. \A m1 : IsSeq(<<m1>>) /\ ToSet(<<m1>>) = {m1}
    BY SingleIsSeq, Members
  <2>3. ASSUME NEW listed, NEW beside \in {<<>>, <<word>>}
        PROVE  /\ IsSeq(Answering(Results(listed), beside))
               /\ \A m \in ToSet(Answering(Results(listed), beside)) : Asks(m)
    <3> DEFINE results == [i \in 1..Len(Pending) |-> Result(Pending[i].id, <<>>, ResultText(Pending[i].name), listed)]
    <3>1. results = Results(listed)
      BY PendingAre DEF Each, IsSeq
    <3>2. results = [i \in 1..Len(Pending) |-> Result(Pending[i].id, <<>>, ResultText(Pending[i].name), listed)]
      OBVIOUS
    <3> HIDE DEF results, Results
    <3>3. /\ IsSeq(Answering(results, beside))
          /\ \A m \in ToSet(Answering(results, beside)) : Asks(m)
      BY <1>6, <2>3, <3>2, AnsweringAsks
    <3>4. QED
      BY <3>1, <3>3
  <2> HIDE DEF Results
  <2>4. QED
    BY <2>1, <2>2, <2>3
<1> HIDE DEF Results
<1>9. PiecesIn(messages) /\ \A m \in ToSet(messages) : ChatForm(m)
  BY <1>8 DEF PiecesIn, Asks, ChatForm
<1>10. SaysEach(Says(messages), messages)
  BY DEF SaysEach, Each
<1> DEFINE more == FlattenSeq(Says(messages))
<1> HIDE DEF Says
<1>11. SpokenPieces(more) = HeldPieces(messages) /\ IsSeq(more)
  BY <1>9, <1>10, SpokenIsHeld
<1>12. said' = said \o more
  BY <1>2, Zenon DEF Sends, Says
<1> HIDE DEF more
<1>13. history' = history \o messages
  BY <1>2 DEF Sends
<1> HIDE DEF Asked
<1>14. IsSeq(history) /\ ToSet(history \o messages) = ToSet(history) \cup ToSet(messages)
  BY <1>8, HistoryPieces, MembersOfConcat DEF PiecesIn
<1>15. \A m \in ToSet(messages) : \A p \in ToSet(m.pieces) : ~IsCall(p)
  BY <1>8 DEF Asks
<1>16. CallsApart(history \o messages)
  BY <1>14, <1>15 DEF ResultsHold, CallsApart
<1>17. CallsDated(history \o messages, LastDate')
  <2>1. LastDate = turn /\ LastDate' = turn
    BY <1>3 DEF LastDate, Typed, TypesOK, TypeOK
  <2>2. CallsDated(history, turn)
    BY <2>1 DEF ResultsHold
  <2>3. QED
    BY <1>14, <1>15, <2>1, <2>2 DEF CallsDated
<1>18. \A k \in 1..Len(messages) : \A r \in ToSet(messages[k].pieces) :
         IsResult(r) => Answers1(history, Len(history) + 1, r)
  <2>1. \A k \in 1..Len(messages) : Asks(messages[k])
    BY <1>8, ElementsOf
  <2>2. QED
    BY <2>1 DEF Asks
<1>19. QED
  BY <1>3, <1>9, <1>11, <1>12, <1>13, <1>16, <1>17, <1>18, ResultsMore

LEMMA UtterNothing ==
  ASSUME NEW format, NEW a, AnswerOK(format, a)
  PROVE  /\ IsSeq(Utter(a.choices))
         /\ Only({"result"}, SpokenPieces(Utter(a.choices))) = <<>>
<1>1. PICK choices, usage : a = AnswerOf(choices, usage) /\ (choices = <<>> \/ ChoiceOK(format, choices))
  BY DEF AnswerOK
<1>2. a.choices = choices
  BY <1>1, AnswerIs
<1>3. CASE choices = <<>>
  <2>1. Utter(choices) = <<>>
    BY <1>3 DEF Utter
  <2>2. SpokenPieces(<<>>) = <<>>
    BY EmptyIsSeq DEF SpokenPieces
  <2>3. QED
    BY <1>2, <2>1, <2>2, OnlyEmpty, EmptyIsSeq
<1>4. CASE ChoiceOK(format, choices)
  <2>1. PICK role, pieces, end : choices = <<Choice(role, pieces, end)>> /\ PiecesOK(pieces)
    BY <1>4 DEF ChoiceOK
  <2>2. choices # <<>> /\ choices[1].pieces = pieces
    BY <2>1, ChoiceAlone
  <2>3. Utter(choices) = Sayings("assistant", 0, pieces)
    BY <2>2 DEF Utter
  <2>4. IsSeq(Sayings("assistant", 0, pieces)) /\ SpokenPieces(Sayings("assistant", 0, pieces)) = pieces
    BY <2>1, SayingsOf, SpokenSayings DEF PiecesOK
  <2>5. QED
    BY <1>2, <2>1, <2>3, <2>4, NoResults
<1>5. QED
  BY <1>1, <1>3, <1>4

(* What a client of Chat remembers of an answer. *)
LEMMA GivenMessages ==
  ASSUME client = "openai_chat", NEW choices, GivenWell(choices),
         NEW messages, messages = Remembered(choices)
  PROVE  /\ PiecesIn(messages)
         /\ \A m \in ToSet(messages) : ChatForm(m) /\ PiecesOK(m.pieces) /\ Identifies(m.pieces)
         /\ \A m, n \in ToSet(messages) : m = n
         /\ Only({"result"}, HeldPieces(messages)) = <<>>
<1>1. CASE choices = <<>>
  <2>1. messages = <<>>
    BY <1>1, RememberedIs
  <2>2. ToSet(messages) = {} /\ IsSeq(messages)
    BY <2>1, EmptyIsSeq, Members
  <2>3. HeldPieces(<<>>) = <<>>
    BY FlattenNone, EmptyIsSeq DEF HeldPieces
  <2>4. QED
    BY <2>1, <2>2, <2>3, OnlyEmpty DEF PiecesIn
<1>2. ASSUME NEW role, NEW pieces, NEW end,
             choices = <<Choice(role, pieces, end)>>, PiecesOK(pieces), Identifies(pieces)
      PROVE  /\ PiecesIn(messages)
             /\ \A m \in ToSet(messages) : ChatForm(m) /\ PiecesOK(m.pieces) /\ Identifies(m.pieces)
             /\ \A m, n \in ToSet(messages) : m = n
             /\ Only({"result"}, HeldPieces(messages)) = <<>>
  <2> DEFINE m == Message("assistant", pieces)
  <2>1. messages = <<m>>
    BY <1>2, RememberedIs DEF Caller
  <2>2. m.role = "assistant" /\ m.pieces = pieces
    BY MessageIs
  <2> HIDE DEF m
  <2>3. IsSeq(<<m>>) /\ ToSet(<<m>>) = {m}
    BY SingleIsSeq, Members
  <2>4. ChatForm(m)
    BY <1>2, <2>2 DEF ChatForm, PiecesOK
  <2>5. PiecesIn(messages)
    BY <1>2, <2>1, <2>2, <2>3 DEF PiecesIn, PiecesOK
  <2>6. HeldPieces(messages) = pieces
    <3>1. [i \in 1..Len(messages) |-> messages[i].pieces] = <<pieces>>
      <4>1. Len(<<m>>) = 1 /\ <<m>>[1] = m
        BY <2>3, SingleIsSeq
      <4>2. QED
        BY <2>1, <2>2, <4>1
    <3>2. FlattenSeq(<<pieces>>) = pieces
      BY <1>2, FlattenOne DEF PiecesOK
    <3>3. QED
      BY <3>1, <3>2 DEF HeldPieces
  <2>7. Only({"result"}, pieces) = <<>>
    BY <1>2, NoResults
  <2>8. QED
    BY <1>2, <2>1, <2>2, <2>3, <2>4, <2>5, <2>6, <2>7
<1>3. QED
  BY <1>1, <1>2 DEF GivenWell

(* What the client is given identifies its calls. *)
LEMMA AnswerGivesWell ==
  ASSUME client = "openai_chat", upstream \in Formats, Answer, given'.format = client
  PROVE  GivenWell(given'.answer.choices)
<1> DEFINE from == answer'.format
           a == answer'.answer
           fresh == <<turn, 0>>
           converted == ConvertResponse(from, "openai_chat", a, fresh)
<1>1. PICK reply \in Answers(upstream) : answer' \in Heard(reply)
  BY DEF Answer
<1>2. from \in Formats /\ AnswerOK(from, a)
  BY <1>1, HeardOK
<1>3. HeardWell(from, a)
  <2> DEFINE heard == answer'
  <2>1. heard \in Heard(reply)
    BY <1>1
  <2> HIDE DEF heard
  <2>2. HeardWell(heard.format, heard.answer)
    BY <1>1, <2>1, HeardIdentifies
  <2>3. QED
    BY <2>2 DEF heard
<1>4. given' = IF converted = <<>> THEN answer' ELSE [format |-> client, answer |-> converted[1]]
  BY DEF Answer
<1>5. converted # <<>>
  <2> SUFFICES ASSUME converted = <<>> PROVE FALSE
    OBVIOUS
  <2>1. from = "openai_chat"
    BY <1>4
  <2>2. converted = <<a>>
    BY <2>1 DEF ConvertResponse
  <2> HIDE DEF a, converted
  <2>3. QED
    BY <2>2, SingleIsSeq
<1>6. given'.answer = converted[1]
  BY <1>4, <1>5
<1> HIDE DEF from, a
<1>7. GivenWell(converted[1].choices)
  BY <1>2, <1>3, <1>5, GivenIdentifies
<1>8. QED
  BY <1>6, <1>7

LEMMA ResultsHoldAnswer ==
  ASSUME Typed, CallsHold, ResultsHold, client \in Formats, upstream \in Formats, Answer
  PROVE  ResultsHold'
<1> DEFINE messages == Remembered(given'.answer.choices)
           more == Utter(answer'.answer.choices)
<1>1. UNCHANGED client /\ turn' = turn /\ phase = "sent" /\ phase' \in {"over", "asking"}
  BY DEF Answer
<1> SUFFICES ASSUME client = "openai_chat" PROVE ResultsHold'
  BY <1>1 DEF ResultsHold
<1>2. turn \in Int /\ LastDate = turn - 1 /\ LastDate' = turn
  BY <1>1 DEF LastDate, Typed, TypesOK, TypeOK
<1>3. /\ \A m \in ToSet(history) : ChatForm(m)
      /\ CallsApart(history) /\ CallsDated(history, turn - 1) /\ ResultsOwned(history)
      /\ Only({"result"}, HeldPieces(history)) = Only({"result"}, SpokenPieces(said))
  BY <1>2 DEF ResultsHold
<1>4. CallsDated(history, turn)
  BY <1>2, <1>3 DEF CallsDated
<1>5. CASE given'.format # client
  <2>1. UNCHANGED <<history, said>>
    BY <1>5 DEF Answer
  <2> HIDE DEF messages, more
  <2>2. QED
    BY <1>1, <1>2, <1>3, <1>4, <2>1 DEF ResultsHold
<1>6. CASE given'.format = client
  <2>1. history' = history \o messages /\ said' = said \o more
    BY <1>6 DEF Answer
  <2>2. IsSeq(more) /\ Only({"result"}, SpokenPieces(more)) = <<>>
    <3>1. PICK reply \in Answers(upstream) : answer' \in Heard(reply)
      BY DEF Answer
    <3>2. AnswerOK(answer'.format, answer'.answer)
      BY <3>1, HeardOK
    <3> DEFINE a == answer'.answer
    <3>3. IsSeq(Utter(a.choices)) /\ Only({"result"}, SpokenPieces(Utter(a.choices))) = <<>>
      <4>1. AnswerOK(answer'.format, a)
        BY <3>2
      <4> HIDE DEF a
      <4>2. QED
        BY <4>1, UtterNothing
    <3>4. QED
      BY <3>3
  <2>3. GivenWell(given'.answer.choices)
    BY <1>6, AnswerGivesWell
  <2>4. /\ PiecesIn(messages)
        /\ \A m \in ToSet(messages) : ChatForm(m) /\ PiecesOK(m.pieces) /\ Identifies(m.pieces)
        /\ \A m, n \in ToSet(messages) : m = n
        /\ Only({"result"}, HeldPieces(messages)) = <<>>
    <3> DEFINE choices == given'.answer.choices
    <3>1. GivenWell(choices)
      BY <2>3
    <3> HIDE DEF choices
    <3>2. LET s == Remembered(choices)
          IN /\ PiecesIn(s)
             /\ \A m \in ToSet(s) : ChatForm(m) /\ PiecesOK(m.pieces) /\ Identifies(m.pieces)
             /\ \A m, n \in ToSet(s) : m = n
             /\ Only({"result"}, HeldPieces(s)) = <<>>
      BY <3>1, GivenMessages
    <3>3. QED
      BY <3>2 DEF choices
  <2> HIDE DEF messages, more
  <2>5. ToSet(history \o messages) = ToSet(history) \cup ToSet(messages)
    BY <2>4, HistoryPieces, MembersOfConcat DEF PiecesIn
  <2>6. CallsDated(history \o messages, turn)
    <3>1. CallsDated(messages, turn)
      BY <1>2, <2>4 DEF CallsDated, Identifies, IsCall
    <3>2. QED
      BY <1>4, <2>5, <3>1 DEF CallsDated
  <2>7. CallsApart(history \o messages)
    <3>1. ASSUME NEW m \in ToSet(history), NEW n \in ToSet(messages),
                 NEW c \in ToSet(m.pieces), NEW d \in ToSet(n.pieces), IsCall(c), IsCall(d)
          PROVE  c.id # d.id
      <4>1. c.id[1] \in Int /\ c.id[1] <= turn - 1
        BY <1>3, <3>1 DEF CallsDated
      <4>2. d.id[1] = turn
        BY <2>4, <3>1 DEF Identifies, IsCall
      <4>3. QED
        BY <1>2, <4>1, <4>2
    <3>2. ASSUME NEW m \in ToSet(messages), NEW n \in ToSet(messages),
                 NEW c \in ToSet(m.pieces), NEW d \in ToSet(n.pieces), IsCall(c), IsCall(d), c.id = d.id
          PROVE  c.name = d.name
      BY <2>4, <3>2 DEF Identifies, IsCall
    <3>3. ASSUME NEW m \in ToSet(history), NEW n \in ToSet(history),
                 NEW c \in ToSet(m.pieces), NEW d \in ToSet(n.pieces), IsCall(c), IsCall(d), c.id = d.id
          PROVE  c.name = d.name
      BY <1>3, <3>3 DEF CallsApart
    <3>4. ASSUME NEW m \in ToSet(history \o messages), NEW n \in ToSet(history \o messages),
                 NEW c \in ToSet(m.pieces), NEW d \in ToSet(n.pieces), IsCall(c), IsCall(d), c.id = d.id
          PROVE  c.name = d.name
      <4>1. CASE m \in ToSet(history) /\ n \in ToSet(history)
        BY <3>3, <3>4, <4>1
      <4>2. CASE m \in ToSet(messages) /\ n \in ToSet(messages)
        BY <3>2, <3>4, <4>2
      <4>3. CASE m \in ToSet(history) /\ n \in ToSet(messages)
        BY <3>1, <3>4, <4>3
      <4>4. CASE m \in ToSet(messages) /\ n \in ToSet(history)
        BY <3>1, <3>4, <4>4
      <4>5. QED
        BY <2>5, <3>4, <4>1, <4>2, <4>3, <4>4
    <3>5. QED
      BY <3>4 DEF CallsApart
  <2>8. ASSUME NEW k \in 1..Len(messages), NEW r \in ToSet(messages[k].pieces)
        PROVE  ~IsResult(r)
    <3>1. PiecesOK(messages[k].pieces)
      BY <2>4, ElementsOf DEF PiecesIn
    <3>2. r.kind # "result"
      BY <2>8, <3>1, PieceKinds DEF PiecesOK
    <3>3. QED
      BY <3>2 DEF IsResult
  <2>9. \A m \in ToSet(messages) : ChatForm(m)
    BY <2>4
  <2>10. Only({"result"}, HeldPieces(messages)) = Only({"result"}, SpokenPieces(more))
    BY <2>2, <2>4
  <2>11. \A k \in 1..Len(messages) : \A r \in ToSet(messages[k].pieces) :
           IsResult(r) => Answers1(history, Len(history) + 1, r)
    BY <2>8
  <2>12. QED
    BY <1>1, <1>2, <2>1, <2>2, <2>4, <2>6, <2>7, <2>9, <2>10, <2>11, ResultsMore
<1>7. QED
  BY <1>5, <1>6

LEMMA ResultsHoldStep ==
  ASSUME Typed, CallsHold, ResultsHold, [ExchangeNext]_all
  PROVE  ResultsHold'
<1>1. client \in Formats
  BY ConversationAssumption DEF Typed, TypesOK, TypeOK
<1>2. CASE UNCHANGED vars
  BY <1>2 DEF ResultsHold, LastDate, vars, turnVars
<1>3. CASE Next
  <2>1. CASE Answer
    <3>1. upstream \in Formats
      BY <2>1, ConversationAssumption DEF Answer, Typed, TypesOK, TypeOK
    <3>2. QED
      BY <1>1, <2>1, <3>1, ResultsHoldAnswer
  <2>2. CASE Relay
    <3>1. UNCHANGED <<client, history, said>> /\ LastDate' = LastDate
      BY <2>2 DEF Relay, LastDate
    <3>2. QED
      BY <3>1 DEF ResultsHold
  <2>3. CASE Over
    BY <1>2, <2>3 DEF Over
  <2>4. QED
    BY <1>3, <2>1, <2>2, <2>3, ResultsHoldAsk DEF Next
<1>4. CASE BeginStream
  BY <1>4, ResultsHoldBegin
<1>5. QED
  BY <1>2, <1>3, <1>4 DEF ExchangeNext, all

----------------------------------------------------------------------------
(* What is relayed for a client of Chat: messages that neither call nor    *)
(* give results, and then each message of the conversation.                *)

Mute(m) == IsSeq(m.pieces) /\ \A p \in ToSet(m.pieces) : p.kind \notin {"call", "result"}

SentAll(format) == [k \in 1..Len(history) |-> SentTo(format, history[k])]

Relayed(format, messages) ==
  \E pre : IsSeq(pre) /\ (\A m \in ToSet(pre) : Mute(m)) /\ messages = pre \o SentAll(format)

LEMMA OpenerRead ==
  ASSUME NEW m, Opener(m)
  PROVE  LET im == FromOpenAIMessage(m)
         IN InternalOK(im) /\ im.role = m.role /\ im.calls = <<>> /\ im.result = <<>>
<1> DEFINE im == FromOpenAIMessage(m)
           calls == Only({"call"}, m.pieces)
<1>1. /\ m.role \in {"system", "developer"} /\ IsSeq(m.pieces)
      /\ \A p \in ToSet(m.pieces) : AnyPiece(p) /\ p.kind = "text"
  BY DEF Opener, AnyPiece
<1>2. calls = <<>>
  <2>1. \A p \in ToSet(m.pieces) : p.kind \notin {"call"}
    BY <1>1
  <2>2. QED
    BY <1>1, <2>1, OnlyNone
<1>3. MessageOK("openai_chat", m)
  BY <1>1, <1>2 DEF MessageOK
<1>4. InternalOK(im)
  BY <1>3, OpenAIReads DEF ReadAs
<1>5. im.role = m.role /\ im.calls = calls /\ im.result = <<>>
  BY <1>1, InternalIs DEF FromOpenAIMessage
<1>6. QED
  BY <1>2, <1>4, <1>5

LEMMA OpenerWritten ==
  ASSUME NEW format \in Formats, NEW m, Opener(m)
  PROVE  Mute(WriteOf(format, FromOpenAIMessage(m)))
<1> DEFINE im == FromOpenAIMessage(m)
           x == WriteOf(format, im)
<1>1. InternalOK(im) /\ im.role \in {"system", "developer"} /\ im.calls = <<>> /\ im.result = <<>>
  BY OpenerRead DEF Opener
<1> HIDE DEF im
<1>2. IsSeq(im.content) /\ \A p \in ToSet(im.content) : p.kind \notin {"call", "result"}
  BY <1>1 DEF InternalOK
<1>3. im.content \o im.calls = im.content
  BY <1>1, <1>2, Concat
<1>4. x.pieces = im.content \/ x.pieces = WithUrls(im.content) \/ x.pieces = GeminiParts(im.content)
  <2>1. CASE format \in OpenAIFormats
    <3>1. x = Message(im.role, im.content \o im.calls)
      BY <1>1, <2>1, Zenon DEF WriteOf, ToOpenAIMessage, OpenAIFormats
    <3>2. QED
      BY <1>3, <3>1, MessageIs
  <2>2. CASE format = "anthropic"
    <3>1. x = Message("user", WithUrls(im.content))
      BY <1>1, <2>2 DEF WriteOf, ToAnthropicMessage
    <3>2. QED
      BY <3>1, MessageIs
  <2>3. CASE format = "gemini"
    <3>1. x = Message("user", GeminiParts(im.content))
      BY <1>1, <2>3 DEF WriteOf, ToGeminiContent
    <3>2. QED
      BY <3>1, MessageIs
  <2>4. QED
    BY <2>1, <2>2, <2>3 DEF Formats
<1>5. /\ IsSeq(WithUrls(im.content)) /\ ToSet(WithUrls(im.content)) \subseteq ToSet(im.content)
      /\ IsSeq(GeminiParts(im.content))
      /\ \A p \in ToSet(GeminiParts(im.content)) : p \in ToSet(im.content) \/ p.kind = "text"
  BY <1>2, WithUrlsIs, PartsAre
<1> HIDE DEF x
<1>6. IsSeq(x.pieces) /\ \A p \in ToSet(x.pieces) : p.kind \notin {"call", "result"}
  BY <1>2, <1>4, <1>5
<1>7. Mute(x)
  BY <1>6 DEF Mute
<1>8. QED
  BY <1>7 DEF x, im

LEMMA RelayedOpening ==
  ASSUME NEW format \in Formats, NEW o \in Openings("openai_chat"), IsSeq(o.messages)
  PROVE  LET pre == WriteAll(format, Silent(LeftOut(format), OpeningRead("openai_chat", o)))
         IN IsSeq(pre) /\ \A m \in ToSet(pre) : Mute(m)
<1> DEFINE n == Len(o.messages)
           s == OpeningRead("openai_chat", o)
           t == Silent(LeftOut(format), s)
<1>1. \A m \in ToSet(o.messages) : Opener(m)
  BY ChatOpening
<1>2. n \in Nat /\ \A i \in 1..n : o.messages[i] \in ToSet(o.messages)
  BY ElementsOf
<1>3. s = [i \in 1..n |-> FromOpenAIMessage(o.messages[i])]
  BY DEF OpeningRead, Each
<1>4. DOMAIN s = 1..n /\ s = [i \in 1..n |-> s[i]]
      /\ \A i \in 1..n : s[i] = FromOpenAIMessage(o.messages[i])
  BY <1>3
<1> HIDE DEF s, n
<1>5. IsSeq(s) /\ \A im \in ToSet(s) : \E i \in 1..n : im = s[i]
  BY <1>2, <1>4, SeqGiven
<1>6. IsSeq(t) /\ ToSet(t) \subseteq ToSet(s)
  BY <1>5, SilentIs
<1> HIDE DEF t
<1> DEFINE pre == WriteAll(format, t)
<1>7. IsSeq(pre) /\ \A m \in ToSet(pre) : \E im \in ToSet(t) : m = WriteOf(format, im)
  BY <1>6, WriteAllIs
<1> HIDE DEF pre
<1>8. ASSUME NEW m \in ToSet(pre) PROVE Mute(m)
  <2>1. PICK im \in ToSet(t) : m = WriteOf(format, im)
    BY <1>7
  <2>2. PICK i \in 1..n : im = s[i]
    BY <1>5, <1>6, <2>1
  <2>3. Mute(WriteOf(format, FromOpenAIMessage(o.messages[i])))
    BY <1>1, <1>2, OpenerWritten
  <2>4. QED
    BY <1>4, <2>1, <2>2, <2>3
<1>9. QED
  BY <1>7, <1>8 DEF pre, t, s

LEMMA RelayedIs ==
  ASSUME Typed, CallsHold, ResultsHold, client = "openai_chat", Relay, phase' = "sent"
  PROVE  Relayed(upstream', request'.messages)
<1> DEFINE wanted == mode' # "plain"
           fresh == <<turn>>
           to == upstream'
           doc == Document(wanted)
           converted == ConvertRequest(client, to, doc, fresh)
           r == converted[1]
<1>1. to \in Formats /\ opening \in Openings("openai_chat")
  BY ConversationAssumption DEF Typed, TypesOK, TypeOK, Relay
<1>2. request' = IF to # "gemini" THEN r ELSE [r EXCEPT !.stream = mode' = "stream"]
  BY DEF Relay
<1>3. doc.system = opening.system /\ doc.messages = opening.messages \o history
  BY DEF Document, Request
<1>4. IsSeq(history) /\ IsSeq(opening.messages) /\ \A m \in ToSet(history) : ChatForm(m)
  BY DEF CallsHold, ResultsHold
<1>5. CASE to = "openai_chat"
  <2>1. r = doc
    BY <1>5 DEF ConvertRequest
  <2>2. request'.messages = opening.messages \o history
    BY <1>2, <1>3, <1>5, <2>1
  <2>3. SentAll(to) = history
    BY <1>4, <1>5 DEF SentAll, SentTo, IsSeq
  <2>4. \A m \in ToSet(opening.messages) : Mute(m)
    BY <1>1, ChatOpening DEF Opener, Mute
  <2>5. QED
    BY <1>4, <2>2, <2>3, <2>4 DEF Relayed
<1>6. CASE to # "openai_chat"
  <2> DEFINE ir == ToInternal(client, doc, fresh)
             pre == WriteAll(to, Silent(LeftOut(to), OpeningRead("openai_chat", opening)))
  <2>1. r = FromInternal(to, ir)
    BY <1>2, <1>6 DEF ConvertRequest, Relay
  <2>2. request'.messages = r.messages
    <3> HIDE DEF r, ir, to
    <3>1. \A w : [r EXCEPT !.stream = w].messages = r.messages
      BY <1>1, <2>1, WrittenMessages
    <3>2. QED
      BY <1>2, <3>1
  <2>3. IsSeq(pre) /\ \A m \in ToSet(pre) : Mute(m)
    BY <1>1, <1>4, RelayedOpening
  <2> HIDE DEF pre, doc, fresh
  <2>4. OpensWith("openai_chat", opening)
    BY <1>4 DEF OpensWith
  <2>5. \A m \in ToSet(history) : m.role \in ClientRoles("openai_chat")
    BY <1>4 DEF ChatForm, ClientRoles, Caller
  <2>6. PICK post : /\ WrittenEach("openai_chat", to, history, post)
                    /\ FromInternal(to, ToInternal("openai_chat", doc, fresh)).messages = pre \o post
    <3> DEFINE from == "openai_chat"
               o == opening
    <3>1. from \in Formats /\ from # "openai_responses"
      BY DEF Formats, OpenAIFormats
    <3>2. /\ o \in Openings(from) /\ OpensWith(from, o)
          /\ SpeakAs(ClientRoles(from), history)
          /\ doc.system = o.system /\ doc.messages = o.messages \o history
      BY <1>1, <1>3, <2>4, <2>5 DEF SpeakAs
    <3> HIDE DEF to, from, o
    <3>3. Converts(from, to, o, history, FromInternal(to, ToInternal(from, doc, fresh)).messages)
      BY <1>1, <1>4, <3>1, <3>2, ConvertedMessages
    <3>4. QED
      BY <3>3 DEF Converts, from, o, pre
  <2>7. post = SentAll(to)
    <3>1. /\ IsSeq(post) /\ Len(post) = Len(history)
          /\ \A i \in 1..Len(history) : post[i] = SentTo(to, history[i])
      <4>1. \A m, w : ReadOf("openai_chat", m, w) = FromOpenAIMessage(m)
        BY DEF ReadOf
      <4> HIDE DEF to
      <4>2. \A m : SentTo(to, m) = WriteOf(to, FromOpenAIMessage(m))
        BY <1>6 DEF SentTo
      <4>3. \A i \in 1..Len(history) : \E w : post[i] = WriteOf(to, ReadOf("openai_chat", history[i], w))
        BY <2>6 DEF WrittenEach
      <4>4. ASSUME NEW i \in 1..Len(history) PROVE post[i] = SentTo(to, history[i])
        <5>1. PICK w : post[i] = WriteOf(to, ReadOf("openai_chat", history[i], w))
          BY <4>3
        <5>2. ReadOf("openai_chat", history[i], w) = FromOpenAIMessage(history[i])
          BY <4>1
        <5>3. QED
          BY <4>2, <5>1, <5>2
      <4>5. QED
        BY <2>6, <4>4 DEF WrittenEach
    <3> HIDE DEF to
    <3>2. DOMAIN post = 1..Len(history)
      BY <3>1 DEF IsSeq
    <3>3. QED
      BY <3>1, <3>2 DEF SentAll, IsSeq
  <2>8. QED
    BY <2>1, <2>2, <2>3, <2>6, <2>7 DEF Relayed
<1>7. QED
  BY <1>5, <1>6

LEMMA ResultsSaidAre ==
  ASSUME IsSeq(said), NEW results, results = Only({"result"}, SpokenPieces(said))
  PROVE  Len(ResultsSaid) = Len(results) /\ \A i \in 1..Len(results) : ResultsSaid[i].piece = results[i]
<1> DEFINE t == ResultsSaid
<1>1. t = Where(LAMBDA x : x.piece.kind = "result", said)
  BY DEF ResultsSaid
<1> HIDE DEF t
<1>2. IsSeq(t) /\ SpokenPieces(t) = results
  BY <1>1, ResultsSpoken
<1>3. results = [i \in 1..Len(t) |-> t[i].piece] /\ Len(t) \in Nat
  BY <1>2, ElementsOf DEF SpokenPieces
<1>4. Len(results) = Len(t)
  <2>1. DOMAIN results = 1..Len(t) /\ results = [i \in 1..Len(t) |-> results[i]]
    BY <1>3
  <2>2. QED
    BY <1>3, <2>1, SeqGiven
<1>5. \A i \in 1..Len(t) : t[i].piece = results[i]
  BY <1>3
<1>6. QED
  BY <1>4, <1>5 DEF t

----------------------------------------------------------------------------
(* The results of a request that was relayed.                              *)

CallsOfHistory ==
  {c \in UNION {ToSet(history[j].pieces) : j \in 1..Len(history)} : IsCall(c)}

OwnerOf(r) == IF upstream = "gemini" THEN {} ELSE {c.name : c \in {d \in CallsOfHistory : d.id = r.id}}

ResultTold(r) ==
  [role |-> RoleOfResults(upstream), text |-> TextSent(upstream, r), owner |-> OwnerOf(r)]

(* What is relayed, message by message. *)
RelayedEach(pre, messages) ==
  /\ IsSeq(pre) /\ IsSeq(messages) /\ Len(messages) = Len(pre) + Len(history)
  /\ \A n \in 1..Len(pre) : Mute(messages[n])
  /\ \A k \in 1..Len(history) : Arrives(upstream, history[k], messages[Len(pre) + k])

LEMMA RelayedByMessage ==
  ASSUME upstream \in Formats, IsSeq(history), \A m \in ToSet(history) : ChatForm(m),
         NEW messages, Relayed(upstream, messages)
  PROVE  \E pre : RelayedEach(pre, messages)
<1>1. PICK pre : IsSeq(pre) /\ (\A m \in ToSet(pre) : Mute(m)) /\ messages = pre \o SentAll(upstream)
  BY DEF Relayed
<1> DEFINE post == SentAll(upstream)
           n == Len(history)
<1>2. n \in Nat /\ \A k \in 1..n : history[k] \in ToSet(history)
  BY ElementsOf
<1>3. DOMAIN post = 1..n /\ post = [k \in 1..n |-> post[k]] /\ \A k \in 1..n : post[k] = SentTo(upstream, history[k])
  BY DEF SentAll
<1> HIDE DEF post, n
<1>4. IsSeq(post) /\ Len(post) = n
  BY <1>2, <1>3, SeqGiven
<1>5. /\ IsSeq(messages) /\ Len(messages) = Len(pre) + n
      /\ \A i \in 1..Len(pre) : messages[i] = pre[i]
      /\ \A k \in 1..n : messages[Len(pre) + k] = post[k]
  BY <1>1, <1>4, Concat, ConcatIs DEF post
<1>6. \A i \in 1..Len(pre) : Mute(messages[i])
  BY <1>1, <1>5, ElementsOf
<1>7. \A k \in 1..n : Arrives(upstream, history[k], messages[Len(pre) + k])
  BY <1>2, <1>3, <1>5, MessageArrives
<1>8. QED
  BY <1>1, <1>5, <1>6, <1>7 DEF RelayedEach, n

(* The calls before a result, in the request. *)
CallsBefore(doc, n) == UNION {ToSet(Only({"call"}, doc.messages[i].pieces)) : i \in 1..(n - 1)}

LEMMA IsBefore ==
  ASSUME NEW doc, NEW n, NEW c
  PROVE  c \in CallsBefore(doc, n)
           <=> \E i \in 1..(n - 1) : c \in ToSet(Only({"call"}, doc.messages[i].pieces))
BY Zenon DEF CallsBefore

LEMMA CallsBeforeAre ==
  ASSUME NEW doc, NEW pre, RelayedEach(pre, doc.messages), NEW k \in 1..Len(history)
  PROVE  /\ \A c \in CallsBefore(doc, Len(pre) + k) : \E d \in CallsOfHistory :
              d.name = c.name /\ (upstream # "gemini" => d = c)
         /\ upstream # "gemini" =>
              \A j \in 1..(k - 1) : \A d \in ToSet(history[j].pieces) :
                IsCall(d) => d \in CallsBefore(doc, Len(pre) + k)
<1> DEFINE n == Len(pre)
           K == Len(history)
           x == doc.messages
<1>1. n \in Nat
  BY ElementsOf DEF RelayedEach
<1>2. /\ \A i \in 1..n : Mute(x[i])
      /\ \A j \in 1..K : Arrives(upstream, history[j], x[n + j])
  BY DEF RelayedEach
<1>3. k \in Int /\ \A i \in 1..((n + k) - 1) : i \in 1..n \/ (i - n \in 1..K /\ n + (i - n) = i)
  BY <1>1
<1> HIDE DEF n, x
<1>4. ASSUME NEW c \in CallsBefore(doc, n + k)
      PROVE  \E d \in CallsOfHistory : d.name = c.name /\ (upstream # "gemini" => d = c)
  <2>1. PICK i \in 1..((n + k) - 1) : c \in ToSet(Only({"call"}, x[i].pieces))
    BY <1>4, IsBefore, Zenon DEF x
  <2>2. IsSeq(x[i].pieces)
    <3>1. CASE i \in 1..n
      BY <1>2, <3>1 DEF Mute
    <3>2. CASE i - n \in 1..K /\ n + (i - n) = i
      <4>1. Arrives(upstream, history[i - n], x[n + (i - n)])
        BY <1>2, <3>2
      <4>2. QED
        BY <3>2, <4>1 DEF Arrives
    <3>3. QED
      BY <1>3, <3>1, <3>2
  <2>3. c \in ToSet(x[i].pieces) /\ c.kind = "call"
    BY <2>1, <2>2, OnlyElements
  <2>4. i \notin 1..n
    BY <1>2, <2>3 DEF Mute
  <2>5. i - n \in 1..K /\ n + (i - n) = i
    BY <1>3, <2>4
  <2>6. CallsArrive(upstream, history[i - n], x[i])
    <3>1. Arrives(upstream, history[i - n], x[n + (i - n)])
      BY <1>2, <2>5
    <3>2. QED
      BY <2>5, <3>1 DEF Arrives
  <2>7. PICK d \in ToSet(history[i - n].pieces) :
          d.kind = "call" /\ d.name = c.name /\ (upstream # "gemini" => d = c)
    BY <2>3, <2>6 DEF CallsArrive
  <2>8. d \in CallsOfHistory
    BY <2>5, <2>7 DEF CallsOfHistory, IsCall
  <2>9. QED
    BY <2>7, <2>8
<1>5. ASSUME upstream # "gemini", NEW j \in 1..(k - 1), NEW d \in ToSet(history[j].pieces), IsCall(d)
      PROVE  d \in CallsBefore(doc, n + k)
  <2>1. j \in 1..K /\ n + j \in 1..((n + k) - 1)
    BY <1>1, <1>5
  <2>2. Arrives(upstream, history[j], x[n + j])
    BY <1>2, <2>1
  <2>3. IsSeq(x[n + j].pieces) /\ d \in ToSet(x[n + j].pieces) /\ d.kind \in {"call"}
    BY <1>5, <2>2 DEF Arrives, CallsArrive, IsCall
  <2>4. d \in ToSet(Only({"call"}, x[n + j].pieces))
    BY <2>3, OnlyHas
  <2>5. QED
    BY <2>1, <2>4, IsBefore, Zenon DEF x
<1>6. QED
  BY <1>4, <1>5 DEF n

(* Whom a result belongs to, in the request. *)
LEMMA OwnerIs ==
  ASSUME client = "openai_chat", ResultsHold, IsSeq(history),
         NEW doc, NEW pre, RelayedEach(pre, doc.messages), NEW k \in 1..Len(history),
         NEW r \in ToSet(history[k].pieces), IsResult(r), NEW w, w.id = r.id, w.name = <<>>
  PROVE  /\ Owner(doc, Len(pre) + k, w) = OwnerOf(r)
         /\ upstream # "gemini" => \E name : OwnerOf(r) = {name} /\ r.text = ResultText(name)
<1> DEFINE n == Len(pre) + k
           calls == CallsBefore(doc, n)
<1>1. /\ CallsApart(history) /\ CallsDated(history, LastDate) /\ ResultsOwned(history)
      /\ \A j \in 1..Len(history) : history[j] \in ToSet(history)
  BY ElementsOf DEF ResultsHold
<1>2. Owner(doc, n, w) =
        {c.name : c \in {c \in calls : IF upstream = "gemini" THEN c.name = w.name ELSE c.id = w.id}}
  BY DEF Owner, CallsBefore
<1>3. /\ \A c \in calls : \E d \in CallsOfHistory : d.name = c.name /\ (upstream # "gemini" => d = c)
      /\ upstream # "gemini" =>
           \A j \in 1..(k - 1) : \A d \in ToSet(history[j].pieces) : IsCall(d) => d \in calls
  BY CallsBeforeAre
<1>4. \A d \in CallsOfHistory : IsCall(d) /\ \E m \in ToSet(history) : d \in ToSet(m.pieces)
  BY <1>1 DEF CallsOfHistory
<1> HIDE DEF n, calls
<1>5. CASE upstream = "gemini"
  <2>1. \A c \in calls : c.name # <<>>
    BY <1>1, <1>3, <1>4 DEF CallsDated
  <2>2. Owner(doc, n, w) = {}
    BY <1>2, <1>5, <2>1
  <2>3. QED
    BY <1>5, <2>2 DEF OwnerOf, n
<1>6. CASE upstream # "gemini"
  <2>1. PICK j \in 1..(k - 1) : \E c \in ToSet(history[j].pieces) :
          IsCall(c) /\ c.id = r.id /\ r.text = ResultText(c.name)
    BY <1>1 DEF ResultsOwned, Answers1
  <2>2. PICK c \in ToSet(history[j].pieces) : IsCall(c) /\ c.id = r.id /\ r.text = ResultText(c.name)
    BY <2>1
  <2>3. c \in calls
    BY <1>3, <1>6, <2>1, <2>2
  <2>4. c \in CallsOfHistory
    BY <1>3, <1>6, <2>3
  <2>5. \A d \in CallsOfHistory : d.id = r.id => d.name = c.name
    BY <1>1, <1>4, <2>2, <2>4 DEF CallsApart
  <2>6. OwnerOf(r) = {c.name}
    BY <1>6, <2>2, <2>4, <2>5 DEF OwnerOf
  <2>7. Owner(doc, n, w) = {c.name}
    <3>1. \A d \in calls : d \in CallsOfHistory
      BY <1>3, <1>6
    <3>2. Owner(doc, n, w) = {d.name : d \in {d \in calls : d.id = r.id}}
      BY <1>2, <1>6
    <3>3. QED
      BY <2>2, <2>3, <2>5, <3>1, <3>2
  <2>8. QED
    BY <1>6, <2>2, <2>6, <2>7 DEF n
<1>7. QED
  BY <1>5, <1>6

(* The results of one message of a request. *)
ResultsAt(doc, n) ==
  Each(LAMBDA r : [role |-> doc.messages[n].role, text |-> r.text, owner |-> Owner(doc, n, r)],
       Only({"result"}, doc.messages[n].pieces))

LEMMA ResultsAtMute ==
  ASSUME NEW doc, NEW n, Mute(doc.messages[n])
  PROVE  ResultsAt(doc, n) = <<>>
<1>1. Only({"result"}, doc.messages[n].pieces) = <<>>
  <2>1. IsSeq(doc.messages[n].pieces) /\ \A p \in ToSet(doc.messages[n].pieces) : p.kind \notin {"result"}
    BY DEF Mute
  <2>2. QED
    BY <2>1, OnlyNone
<1>2. QED
  BY <1>1 DEF ResultsAt, Each

LEMMA ResultsAtIs ==
  ASSUME client = "openai_chat", ResultsHold, IsSeq(history), \A m \in ToSet(history) : ChatForm(m),
         NEW doc, NEW pre, RelayedEach(pre, doc.messages), NEW k \in 1..Len(history),
         NEW S, ToSet(Only({"result"}, history[k].pieces)) \subseteq S
  PROVE  ResultsAt(doc, Len(pre) + k) = Through([r \in S |-> ResultTold(r)], Only({"result"}, history[k].pieces))
<1> DEFINE n == Len(pre) + k
           m == history[k]
           x == doc.messages[n]
           g == [r \in S |-> ResultTold(r)]
           results == Only({"result"}, m.pieces)
<1>1. Arrives(upstream, m, x)
  BY DEF RelayedEach
<1>2. CASE results = <<>> /\ Only({"result"}, x.pieces) = <<>>
  <2>1. ResultsAt(doc, n) = <<>>
    BY <1>2 DEF ResultsAt, Each
  <2>2. Through(g, <<>>) = <<>>
    BY DEF Through
  <2>3. QED
    BY <1>2, <2>1, <2>2
<1>3. CASE ResultArrives(upstream, m, x)
  <2>1. PICK r, w : /\ m.pieces = <<r>> /\ r.kind = "result" /\ results = <<r>>
                    /\ Only({"result"}, x.pieces) = <<w>> /\ x.role = RoleOfResults(upstream)
                    /\ SameResult(upstream, r, w)
    BY <1>3 DEF ResultArrives
  <2>2. r \in ToSet(m.pieces) /\ r \in S
    BY <2>1, Members
  <2>3. w.id = r.id /\ w.name = <<>> /\ w.text = TextSent(upstream, r)
    BY <2>1 DEF SameResult
  <2>4. Owner(doc, n, w) = OwnerOf(r)
    BY <2>1, <2>2, <2>3, OwnerIs DEF IsResult
  <2>5. g[r] = ResultTold(r)
    BY <2>2
  <2>6. ResultsAt(doc, n) = <<[role |-> x.role, text |-> w.text, owner |-> Owner(doc, n, w)]>>
    <3>1. ResultsAt(doc, n) =
            Each(LAMBDA q : [role |-> x.role, text |-> q.text, owner |-> Owner(doc, n, q)], <<w>>)
      BY <2>1 DEF ResultsAt
    <3> HIDE DEF x, n
    <3>2. Each(LAMBDA q : [role |-> x.role, text |-> q.text, owner |-> Owner(doc, n, q)], <<w>>)
            = <<[role |-> x.role, text |-> w.text, owner |-> Owner(doc, n, w)]>>
      BY DEF Each
    <3>3. QED
      BY <3>1, <3>2
  <2> HIDE DEF x, n, m, g, results
  <2>7. ResultsAt(doc, n) = <<ResultTold(r)>>
    BY <2>1, <2>3, <2>4, <2>6 DEF ResultTold
  <2>8. Through(g, <<r>>) = <<g[r]>>
    BY DEF Through
  <2>9. ResultsAt(doc, n) = Through(g, results)
    BY <2>1, <2>5, <2>7, <2>8
  <2>10. QED
    BY <2>9 DEF n, m, g, results
<1>4. QED
  BY <1>1, <1>2, <1>3 DEF Arrives

(* All results of the request are those that the client sent. *)
LEMMA ResultsInAre ==
  ASSUME client = "openai_chat", CallsHold, ResultsHold,
         NEW doc, NEW pre, RelayedEach(pre, doc.messages),
         NEW results, results = Only({"result"}, HeldPieces(history))
  PROVE  ResultsIn(doc) = Through([r \in ToSet(results) |-> ResultTold(r)], results)
<1> DEFINE n == Len(pre)
           K == Len(history)
           S == ToSet(results)
           T == ToSet(history)
           g == [r \in S |-> ResultTold(r)]
           p == [m \in T |-> m.pieces]
           f == [m \in T |-> Only({"result"}, m.pieces)]
           h == [m \in T |-> Through(g, f[m])]
           a == [i \in 1..n |-> ResultsAt(doc, i)]
           b == [k \in 1..K |-> ResultsAt(doc, n + k)]
           c == [i \in 1..Len(doc.messages) |-> ResultsAt(doc, i)]
<1>1. PiecesIn(history) /\ IsSeq(history) /\ IsSeq(pre) /\ \A m \in T : ChatForm(m)
  BY HistoryPieces DEF PiecesIn, RelayedEach, ResultsHold
<1>2. n \in Nat /\ K \in Nat /\ Len(doc.messages) = n + K /\ \A k \in 1..K : history[k] \in T
  BY <1>1, ElementsOf DEF RelayedEach
<1>3. HeldPieces(history) = Gather(p, history) /\ Gathers(p, history) /\ IsSeq(HeldPieces(history))
  BY <1>1, HeldPiecesIs
<1>4. results = Gather(f, history) /\ Gathers(f, history)
  <2> DEFINE q == OfKinds({"result"}, ToSet(HeldPieces(history)))
  <2>1. Only({"result"}, HeldPieces(history)) = Gather(q, HeldPieces(history))
    BY <1>3, OnlyIs
  <2>2. \A k \in 1..K : ToSet(history[k].pieces) \subseteq ToSet(HeldPieces(history))
    <3> TAKE k \in 1..K
    <3>1. ASSUME NEW e \in ToSet(history[k].pieces) PROVE e \in ToSet(HeldPieces(history))
      <4>1. e \in ToSet(p[history[k]])
        BY <1>2, <3>1
      <4> HIDE DEF p
      <4>2. QED
        BY <1>3, <4>1, GatherHas
    <3>2. QED
      BY <3>1
  <2>3. ASSUME NEW k \in 1..K
        PROVE  Gathers(q, p[history[k]]) /\ Gather(q, p[history[k]]) = f[history[k]]
    <3>1. p[history[k]] = history[k].pieces /\ IsSeq(history[k].pieces)
          /\ f[history[k]] = Only({"result"}, history[k].pieces)
      BY <1>1, <1>2 DEF PiecesIn
    <3>2. Only({"result"}, history[k].pieces) = Gather(q, history[k].pieces)
          /\ Gathers(q, history[k].pieces)
      BY <2>2, <3>1, OnlyIs
    <3> HIDE DEF q, p, f
    <3>3. QED
      BY <3>1, <3>2
  <2>4. GatherEach(p, q, f, history)
    <3> HIDE DEF p, q, f
    <3> QED
      BY <2>3 DEF GatherEach
  <2> HIDE DEF p, q, f
  <2>5. Gather(q, Gather(p, history)) = Gather(f, history) /\ Gathers(f, history)
    BY <1>3, <2>4, GatherTwice
  <2>6. QED
    BY <1>3, <2>1, <2>5
<1>5. \A k \in 1..K : b[k] = h[history[k]]
  <2> TAKE k \in 1..K
  <2>1. f[history[k]] = Only({"result"}, history[k].pieces) /\ h[history[k]] = Through(g, f[history[k]])
    BY <1>2
  <2>2. ToSet(Only({"result"}, history[k].pieces)) \subseteq S
    <3>1. ASSUME NEW e \in ToSet(Only({"result"}, history[k].pieces)) PROVE e \in S
      <4>1. e \in ToSet(f[history[k]])
        BY <2>1, <3>1
      <4> HIDE DEF f
      <4>2. QED
        BY <1>4, <4>1, GatherHas
    <3>2. QED
      BY <3>1
  <2>3. ResultsAt(doc, n + k) = Through(g, Only({"result"}, history[k].pieces))
    <3> HIDE DEF S
    <3> QED
      BY <1>1, <2>2, ResultsAtIs
  <2>4. QED
    BY <2>1, <2>3
<1>6. ResultsIn(doc) = FlattenSeq(c)
  BY DEF ResultsIn, ResultsAt
<1>7. \A i \in 1..n : a[i] = <<>>
  BY ResultsAtMute DEF RelayedEach
<1>8. DOMAIN a = 1..n /\ a = [i \in 1..n |-> a[i]] /\ DOMAIN b = 1..K /\ b = [k \in 1..K |-> b[k]]
      /\ DOMAIN c = 1..(n + K) /\ c = [i \in 1..(n + K) |-> c[i]]
      /\ (\A i \in 1..n : a[i] = c[i]) /\ (\A k \in 1..K : b[k] = c[n + k])
  BY <1>2
<1>9. Through(g, Gather(f, history)) = Gather(h, history) /\ Gathers(h, history)
  <2>1. \A k \in 1..K : Through(g, f[history[k]]) = h[history[k]]
    BY <1>2
  <2> HIDE DEF g, f, h
  <2>2. ThroughEach(f, g, h, history)
    BY <2>1 DEF ThroughEach
  <2>3. QED
    BY <1>4, <2>2, ThroughGather
<1>10. b = Through(h, history)
  <2> HIDE DEF h, b
  <2> QED
    BY <1>5, <1>8 DEF Through
<1> HIDE DEF a, b, c, h, f, g, S, T, n, K
<1>11. IsSeq(a) /\ Len(a) = n /\ IsSeq(b) /\ Len(b) = K /\ IsSeq(c) /\ Len(c) = n + K
  <2>1. n + K \in Nat
    BY <1>2
  <2>2. QED
    BY <1>2, <1>8, <2>1, SeqGiven
<1>12. AllSeqs(a) /\ FlattenSeq(a) = <<>>
  <2> DEFINE none == [e \in ToSet(a) |-> <<>>]
  <2>1. \A i \in 1..Len(a) : none[a[i]] = a[i]
    BY <1>7, <1>11, ElementsOf
  <2>2. Gather(none, a) = <<>>
    <3>1. \A i \in 1..Len(a) : none[a[i]] = <<>>
      BY <1>7, <1>11, <2>1
    <3> HIDE DEF none
    <3>2. QED
      BY <1>11, <3>1, GatherNothing
  <2> HIDE DEF none
  <2>3. Through(none, a) = a
    BY <1>8, <1>11, <2>1 DEF Through
  <2>4. AllSeqs(a)
    BY <1>7, <1>11, EmptyIsSeq DEF AllSeqs
  <2>5. QED
    BY <2>2, <2>3, <2>4 DEF Gather
<1>13. AllSeqs(b) /\ FlattenSeq(b) = Gather(h, history)
  BY <1>9, <1>10, GathersAll DEF Gather
<1>14. c = a \o b
  <2>1. Len(c) = Len(a) + Len(b) /\ Len(a) = n /\ Len(b) = K
    BY <1>11
  <2>2. Joined(a, b, c)
    BY <1>8, <2>1 DEF Joined
  <2>3. QED
    BY <1>11, <2>2, JoinedIs
<1>15. IsSeq(FlattenSeq(b)) /\ FlattenSeq(a \o b) = <<>> \o FlattenSeq(b)
  BY <1>12, <1>13, FlattenConcat, FlattenIsSeq
<1>16. ResultsIn(doc) = Gather(h, history)
  BY <1>6, <1>13, <1>14, <1>15, Concat
<1>17. ResultsIn(doc) = Through(g, results)
  BY <1>4, <1>9, <1>16
<1>18. QED
  BY <1>17 DEF g, S

(* Every request holds what was relayed. *)
RelayedHold ==
  phase = "sent" /\ client = "openai_chat" => Relayed(upstream, request.messages)

LEMMA ResultsToldOf ==
  ASSUME Typed, CallsHold, ResultsHold, RelayedHold
  PROVE  ResultsAnswered
<1> SUFFICES ASSUME phase = "sent", client = "openai_chat" PROVE ResultsAnswered
  BY DEF ResultsAnswered
<1> DEFINE results == Only({"result"}, HeldPieces(history))
           g == [r \in ToSet(results) |-> ResultTold(r)]
           t == ResultsIn(request)
<1>1. upstream \in Formats
  BY ConversationAssumption DEF Typed, TypesOK, TypeOK
<1>2. PiecesIn(history) /\ IsSeq(history) /\ IsSeq(said) /\ \A m \in ToSet(history) : ChatForm(m)
  BY HistoryPieces DEF PiecesIn, ResultsHold
<1>3. PICK pre : RelayedEach(pre, request.messages)
  <2>1. Relayed(upstream, request.messages)
    BY DEF RelayedHold
  <2> DEFINE messages == request.messages
  <2>2. Relayed(upstream, messages)
    BY <2>1
  <2> HIDE DEF messages
  <2>3. \E pre : RelayedEach(pre, messages)
    BY <1>1, <1>2, <2>2, RelayedByMessage
  <2>4. QED
    BY <2>3 DEF messages
<1>4. t = Through(g, results)
  BY <1>3, ResultsInAre
<1>5. IsSeq(HeldPieces(history)) /\ IsSeq(results) /\ \A p \in ToSet(results) :
        p.kind = "result" /\ \E k \in 1..Len(history) : p \in ToSet(history[k].pieces)
  <2>1. IsSeq(HeldPieces(history))
    BY <1>2, HeldPiecesIs
  <2>2. QED
    BY <1>2, <2>1, OnlyElements, HeldByOne
<1>6. results = Only({"result"}, SpokenPieces(said))
  BY DEF ResultsHold
<1> HIDE DEF results
<1>7. Len(ResultsSaid) = Len(results) /\ \A i \in 1..Len(results) : ResultsSaid[i].piece = results[i]
  BY <1>2, <1>6, ResultsSaidAre
<1>8. Len(t) = Len(results) /\ \A i \in 1..Len(results) : t[i] = ResultTold(results[i])
  <2>1. \A i \in 1..Len(results) : results[i] \in ToSet(results)
    BY <1>5, ElementsOf
  <2>2. \A i \in 1..Len(results) : g[results[i]] = ResultTold(results[i])
    BY <2>1
  <2> HIDE DEF g
  <2>3. QED
    BY <1>4, <1>5, <2>2, ThroughIs
<1> HIDE DEF t
<1>9. ASSUME NEW i \in 1..Len(t)
      PROVE  LET piece == ResultsSaid[i].piece
             IN /\ t[i].role = RoleOfResults(upstream)
                /\ t[i].text = IF piece.listed /\ ~Untouched THEN <<>> ELSE piece.text
                /\ upstream # "gemini" =>
                     \E name \in t[i].owner : t[i].owner = {name} /\ piece.text = ResultText(name)
  <2> DEFINE r == results[i]
  <2>1. i \in 1..Len(results) /\ ResultsSaid[i].piece = r /\ t[i] = ResultTold(r) /\ r \in ToSet(results)
    BY <1>5, <1>7, <1>8, ElementsOf
  <2> HIDE DEF r
  <2>2. PICK k \in 1..Len(history) : r \in ToSet(history[k].pieces)
    BY <1>5, <2>1
  <2>3. t[i].role = RoleOfResults(upstream) /\ t[i].text = TextSent(upstream, r) /\ t[i].owner = OwnerOf(r)
    BY <2>1 DEF ResultTold
  <2>4. upstream # "gemini" => \E name : OwnerOf(r) = {name} /\ r.text = ResultText(name)
    <3> DEFINE w == [id |-> r.id, name |-> <<>>]
    <3>1. w.id = r.id /\ w.name = <<>>
      OBVIOUS
    <3>2. IsResult(r)
      BY <1>5, <2>1 DEF IsResult
    <3> HIDE DEF w
    <3>3. QED
      BY <1>2, <1>3, <2>2, <3>1, <3>2, OwnerIs
  <2>5. TextSent(upstream, r) = IF r.listed /\ ~Untouched THEN <<>> ELSE r.text
    BY DEF TextSent, Untouched
  <2>6. QED
    BY <2>1, <2>3, <2>4, <2>5
<1>10. Len(t) = Len(ResultsSaid)
  BY <1>7, <1>8
<1>11. QED
  BY <1>9, <1>10 DEF ResultsAnswered, t

LEMMA RelayedHoldStep ==
  ASSUME Typed, CallsHold, ResultsHold, RelayedHold, [ExchangeNext]_all
  PROVE  RelayedHold'
<1>1. CASE UNCHANGED vars
  BY <1>1 DEF RelayedHold, Relayed, SentAll, vars, turnVars
<1>2. CASE Next
  <2>1. CASE Ask \/ Answer
    <3>1. Ask => phase' = "asked"
      BY DEF Ask
    <3>2. Answer => phase' \in {"over", "asking"}
      BY DEF Answer
    <3>3. QED
      BY <2>1, <3>1, <3>2 DEF RelayedHold
  <2>2. CASE Over
    BY <1>1, <2>2 DEF Over
  <2>3. CASE Relay
    <3> SUFFICES ASSUME phase' = "sent", client' = "openai_chat"
                 PROVE  Relayed(upstream, request.messages)'
      BY DEF RelayedHold
    <3>1. client = "openai_chat" /\ history' = history
      BY <2>3 DEF Relay
    <3>2. Relayed(upstream', request'.messages)
      BY <2>3, <3>1, RelayedIs
    <3>3. QED
      BY <3>1, <3>2 DEF Relayed, SentAll
  <2>4. QED
    BY <1>2, <2>1, <2>2, <2>3 DEF Next
<1>3. CASE BeginStream
  BY <1>3 DEF BeginStream, RelayedHold
<1>4. QED
  BY <1>1, <1>2, <1>3 DEF ExchangeNext, all

(* The results of tools that a client of Chat gives reach the upstream of  *)
(* every turn, all and in order, each with its text (unless it is listed   *)
(* in parts) and after the one call it belongs to, whichever upstream made *)
(* the call and whichever is told (openai/to_internal.go:126-134, 276-280; *)
(* anthropic/from_internal.go:89-108).  It rests on ResultsHold: one       *)
(* identifier stands for one function over all turns, and what the client  *)
(* sends holds each result behind the call it answers.                     *)
THEOREM ExchangeResultsAnswered == ExchangeSpec => []ResultsAnswered
<1>1. ExchangeInit => CallsHold /\ ResultsHold /\ RelayedHold
  <2>1. ExchangeInit => CallsHold /\ ResultsHold
    BY ConversationAssumption, CallsHoldInit, ResultsHoldInit DEF ExchangeInit, Init
  <2>2. ExchangeInit => RelayedHold
    BY DEF ExchangeInit, Init, RelayedHold
  <2>3. QED
    BY <2>1, <2>2
<1>2. Typed /\ CallsHold /\ ResultsHold /\ RelayedHold /\ [ExchangeNext]_all
        => (Typed /\ CallsHold /\ ResultsHold /\ RelayedHold)'
  BY TypedStep, CallsHoldStep, ResultsHoldStep, RelayedHoldStep
<1>3. Typed /\ CallsHold /\ ResultsHold /\ RelayedHold => ResultsAnswered
  BY ResultsToldOf
<1>4. QED
  BY <1>1, <1>2, <1>3, TypedInit, PTL DEF ExchangeSpec

==============================================================================

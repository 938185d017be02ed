--------------------------- MODULE StreamScripts ---------------------------
(***************************************************************************)
(* Streams for TLC: what upstreams of the three kinds answer, line by      *)
(* line.                                                                   *)
(***************************************************************************)
EXTENDS StreamFormats

Blank == [format |-> "blank", type |-> "blank"]

Line(type, fields) == [format |-> "upstream", type |-> type] @@ fields

(* Anthropic: blocks of a text (two deltas) or a call (two deltas), by     *)
(* their index, each piece known by its block and its place in it.         *)
Event(type) == Line("event", [of |-> type])

Block(kind, index) ==
  LET delta == IF kind = "text" THEN "text_delta" ELSE "input_json_delta"
  IN <<Line("content_block_start", [block |-> kind, index |-> index, name |-> "f"]),
       Line("content_block_delta", [delta |-> delta, index |-> index,
                                    pieces |-> <<<<index, 1>>>>]),
       Line("content_block_delta", [delta |-> delta, index |-> index,
                                    pieces |-> <<<<index, 2>>>>]),
       Line("content_block_stop", [index |-> index])>>

Message(kinds) ==
  <<Event("message_start"), Line("message_start", [tokens |-> 2]), Blank>>
  \o FlattenSeq([i \in 1..Len(kinds) |-> Block(kinds[i], i - 1)])
  \o <<Line("message_delta", [reason |-> "end_turn", tokens |-> 3]), Blank,
       Line("message_stop", <<>>)>>

AnthropicScripts ==
  {Message(kinds) : kinds \in {<<>>, <<"text">>, <<"tool_use">>, <<"text", "tool_use">>,
                               <<"tool_use", "tool_use">>, <<"text", "tool_use", "text">>}}

(* OpenAI: text, or two calls in parts, one of them named anew with an     *)
(* empty name; usage once, or growing.                                     *)
Speaks(text)     == [Plain EXCEPT !.text = text]
Calls(tools)     == [Plain EXCEPT !.tools = tools]
Ends(reason)     == [Plain EXCEPT !.finish = reason]
Uses(prompt, completion) ==
  [Plain EXCEPT !.choices = FALSE, !.usage = <<prompt, completion>>]

OpenAIScripts ==
  {<<Plain, Blank, Speaks(<<1>>), Blank, Speaks(<<2>>), Ends("stop"), Uses(2, 3)>>,
   <<[Speaks(<<1>>) EXCEPT !.usage = <<2, 1>>],
     [Speaks(<<2>>) EXCEPT !.usage = <<2, 2>>, !.finish = "length"]>>,
   <<Speaks(<<1>>), Calls(<<ToolPart(0, <<"f">>, <<2>>)>>),
     Calls(<<ToolPart(1, <<"g">>, <<3>>), ToolPart(0, <<>>, <<4>>)>>),
     Calls(<<ToolPart(1, <<>>, <<5>>)>>), Ends("tool_calls"), Uses(0, 3)>>,
   <<Calls(<<ToolPart(0, <<"f">>, <<1>>)>>), Calls(<<ToolPart(0, <<"">>, <<2>>)>>)>>,
   <<>>}

(* Gemini: texts and calls, on one line or on two; usage with every chunk, *)
(* the last or on its own.                                                 *)
Chunk(text, calls, reason, usage) ==
  [format |-> "gemini", type |-> "chunk", candidates |-> TRUE,
   text |-> text, calls |-> calls, reason |-> reason, usage |-> usage]
Alone(usage) == [Chunk(<<>>, <<>>, "", usage) EXCEPT !.candidates = FALSE]
Call(name, pieces) == [name |-> name, args |-> pieces]

GeminiScripts ==
  {<<Chunk(<<1>>, <<>>, "", <<2, 1>>), Blank, Chunk(<<2>>, <<>>, "", <<2, 2>>), Blank,
     Chunk(<<3>>, <<>>, "STOP", <<2, 3>>)>>,
   <<Chunk(<<1>>, <<Call("f", <<2>>), Call("g", <<3>>)>>, "STOP", <<2, 3>>)>>,
   <<Chunk(<<1>>, <<>>, "", <<>>), Chunk(<<>>, <<>>, "SAFETY", <<>>), Alone(<<2, 3>>)>>,
   <<Chunk(<<1>>, <<Call("f", <<2>>)>>, "", <<2, 1>>), Chunk(<<3>>, <<>>, "MAX_TOKENS", <<2, 3>>)>>,
   <<Chunk(<<>>, <<Call("f", <<1>>)>>, "", <<>>),
     Chunk(<<>>, <<Call("g", <<2>>)>>, "STOP", <<2, 3>>)>>}

AllScripts ==
  [openai |-> OpenAIScripts, anthropic |-> AnthropicScripts, gemini |-> GeminiScripts]

=============================================================================

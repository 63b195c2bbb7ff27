--------------------------- MODULE ChatTranslation ---------------------------
(* internal/translator/codex/openai/chat-completions, and the conversions  *)
(* of the completions endpoint: a request of the Chat Completions API      *)
(* becomes one of the Responses API for Codex, and the events of Codex     *)
(* become chunks, or the whole response a message.                         *)
(*                                                                         *)
(* A text is a sequence of tokens, "" an absent string. A tool's name is a *)
(* sequence of segments, and its length is counted in segments: a name     *)
(* that begins with "mcp" is one with the prefix mcp__.                    *)
EXTENDS Integers, SequencesExt

CONSTANTS
  Limit,     (* the longest name, 64 characters in the code, in segments     *)
  Numerals   (* "_1", "_2", ...: the suffixes that make a name unique        *)

ASSUME NameAssumption ==
  /\ Limit \in Nat \ {0, 1} /\ Numerals \in Seq(STRING)
  /\ \A i, j \in DOMAIN Numerals : Numerals[i] = Numerals[j] => i = j

-----------------------------------------------------------------------------
(* Names. Codex refuses the long ones, so they are shortened on the way up *)
(* and restored on the way down, by the same function of the tools that    *)
(* the request declares.                                                   *)

Truncated(name, n) == IF Len(name) <= n THEN name ELSE SubSeq(name, 1, n)

shortenNameIfNeeded(name) ==
  IF Len(name) <= Limit THEN name
  ELSE IF name[1] = "mcp" THEN Truncated(<<"mcp", Last(name)>>, Limit)
  ELSE Truncated(name, Limit)

\* Faulty variant: two long names may become one.
makeUniqueUnchecked(cand, used) == cand

makeUnique(cand, used) ==
  LET Numbered(i) == Append(Truncated(cand, Limit - 1), Numerals[i])
  IN  IF cand \notin used THEN cand
      ELSE Numbered(CHOOSE i \in DOMAIN Numerals :
             Numbered(i) \notin used /\ \A j \in 1..(i - 1) : Numbered(j) \in used)

\* The names given so far, and the map: of a name that is declared twice the last counts.
\* (This fold and the next are written as functions, which proofs can unfold.)
NoneGiven == [used |-> {}, map |-> [n \in {} |-> n]]

Given(acc, name) ==
  LET uniq == makeUnique(shortenNameIfNeeded(name), acc.used)
  IN  [used |-> acc.used \union {uniq},
       map  |-> [n \in DOMAIN acc.map \union {name} |-> IF n = name THEN uniq ELSE acc.map[n]]]

NamesGiven(names) ==
  LET given[i \in 0..Len(names)] == IF i = 0 THEN NoneGiven ELSE Given(given[i - 1], names[i])
  IN  given

buildShortNameMap(names) == NamesGiven(names)[Len(names)].map

FunctionTools(tools) ==
  LET kept[i \in 0..Len(tools)] ==
        IF i = 0 THEN <<>>
        ELSE IF tools[i].type = "function" THEN Append(kept[i - 1], tools[i]) ELSE kept[i - 1]
  IN  kept[Len(tools)]

ToolNames(tools) == [i \in DOMAIN FunctionTools(tools) |-> FunctionTools(tools)[i].name]

\* Faulty variant: a call of the history is shortened as if its tool were the only one.
ShortNameAlone(map, name) == shortenNameIfNeeded(name)

ShortName(map, name) == IF name \in DOMAIN map THEN map[name] ELSE shortenNameIfNeeded(name)

\* The names Codex uses, with those the client declared.
buildReverseMapFromOriginalOpenAI(chat) ==
  LET map == buildShortNameMap(ToolNames(chat.tools))
  IN  [short \in Range(map) |-> CHOOSE n \in DOMAIN map : map[n] = short]

Restored(rev, name) == IF name \in DOMAIN rev THEN rev[name] ELSE name

-----------------------------------------------------------------------------
(* The request.                                                            *)

Part(type, text) == [type |-> type, text |-> text]
Message(role, content) == [type |-> "message", role |-> role, content |-> content]
Call(id, name, args) == [type |-> "function_call", call_id |-> id, name |-> name, arguments |-> args]
Output(id, text) == [type |-> "function_call_output", call_id |-> id, output |-> text]

\* Images and files only come from users; what the upstream does not know is left out.
Known(role, part) == part.type = "text" \/ (part.type \in {"image_url", "file"} /\ role = "user")

ContentPart(role, part) ==
  Part(CASE part.type = "text" /\ role = "assistant"  -> "output_text"
         [] part.type = "text" /\ role # "assistant"  -> "input_text"
         [] part.type = "image_url"                   -> "input_image"
         [] part.type = "file"                        -> "input_file", part.text)

Content(m) == [i \in DOMAIN SelectSeq(m.content, LAMBDA p : Known(m.role, p)) |->
                 ContentPart(m.role, SelectSeq(m.content, LAMBDA p : Known(m.role, p))[i])]

\* The items a message becomes. One of an assistant that only calls tools has no text to
\* be a message of, and its calls stand for themselves.
Items(m, map) ==
  LET role == IF m.role = "system" THEN "developer" ELSE m.role
      said == IF m.role = "assistant" /\ Content(m) = <<>> THEN <<>> ELSE <<Message(role, Content(m))>>
      calls == [i \in DOMAIN m.calls |->
                  Call(m.calls[i].id, ShortName(map, m.calls[i].name), m.calls[i].arguments)]
  IN  IF m.role = "tool"
        THEN <<Output(m.call_id, IF m.content = <<>> THEN "" ELSE m.content[1].text)>>
        ELSE said \o IF m.role = "assistant" THEN calls ELSE <<>>

\* Built-in tools go as they are.
Tool(t, map) == IF t.type = "function" THEN [t EXCEPT !.name = ShortName(map, t.name)] ELSE t

\* kind is absent, string, function or builtin; name is the function, or the string.
Choice(c, map) == IF c.kind = "function" /\ c.name # <<>> THEN [c EXCEPT !.name = ShortName(map, c.name)] ELSE c

\* The effort is asked for even where the client was silent.
ConvertOpenAIRequestToCodex(model, chat, stream) ==
  LET map == buildShortNameMap(ToolNames(chat.tools))
  IN  [model        |-> model,
       instructions |-> "",
       stream       |-> stream,
       effort       |-> [openai |-> "", codex |-> IF chat.effort = "" THEN "medium" ELSE chat.effort],
       input        |-> FlattenSeq([i \in DOMAIN chat.messages |-> Items(chat.messages[i], map)]),
       tools        |-> [i \in DOMAIN chat.tools |-> Tool(chat.tools[i], map)],
       choice       |-> Choice(chat.choice, map),
       format       |-> IF chat.format \in {"text", "json_schema"} THEN chat.format ELSE "",
       verbosity    |-> chat.verbosity,
       parallel     |-> TRUE,
       store        |-> FALSE,
       fields       |-> {}]

-----------------------------------------------------------------------------
(* The stream. A chunk has the parts that are present; a call in it is a   *)
(* sequence of at most one entry.                                          *)

Nothing == [index |-> 0, content |-> <<>>, reasoning |-> <<>>, call |-> <<>>, finish |-> "",
            usage |-> FALSE]
Entry(index, id, name, args) == [index |-> index, id |-> id, name |-> name, arguments |-> args]

\* ConvertCliToOpenAIParams.
Params == [FunctionCallIndex |-> -1, HasReceivedArgumentsDelta |-> FALSE,
           HasToolCallAnnounced |-> FALSE]

Emit(p, chunk) == [param |-> p, chunks |-> <<chunk>>]
Skip(p) == [param |-> p, chunks |-> <<>>]

\* What is emitted for the completion; the count of tokens comes with it.
Finish(p, event) ==
  [Nothing EXCEPT !.finish = IF p.FunctionCallIndex = -1 THEN "stop" ELSE "tool_calls",
                  !.usage = event.response.usage]

Announce(p, event, rev) ==
  LET next == [FunctionCallIndex |-> p.FunctionCallIndex + 1, HasReceivedArgumentsDelta |-> FALSE,
               HasToolCallAnnounced |-> TRUE]
  IN  IF event.item.type # "function_call" THEN Skip(p)
      ELSE Emit(next, [Nothing EXCEPT !.call =
             <<Entry(next.FunctionCallIndex, event.item.call_id, Restored(rev, event.item.name), <<>>)>>])

Arguments(p, args) == [Nothing EXCEPT !.call = <<Entry(p.FunctionCallIndex, "", <<>>, args)>>]

\* Arguments that came in parts are not told again ...
ArgumentsDone(p, event) ==
  IF p.HasReceivedArgumentsDelta THEN Skip(p) ELSE Emit(p, Arguments(p, event.arguments))

\* Faulty variant: a call that was announced is told again when it is done.
ItemDoneTwice(p, event, rev) ==
  LET next == [p EXCEPT !.FunctionCallIndex = @ + 1]
  IN  IF event.item.type # "function_call" THEN Skip(p)
      ELSE Emit(next, [Nothing EXCEPT !.call =
             <<Entry(next.FunctionCallIndex, event.item.call_id, Restored(rev, event.item.name),
                     event.item.arguments)>>])

\* ... and a call is told as a whole only if it was not announced.
ItemDone(p, event, rev) ==
  LET next == [p EXCEPT !.FunctionCallIndex = @ + 1]
  IN  IF event.item.type # "function_call" THEN Skip(p)
      ELSE IF p.HasToolCallAnnounced THEN Skip([p EXCEPT !.HasToolCallAnnounced = FALSE])
      ELSE Emit(next, [Nothing EXCEPT !.call =
             <<Entry(next.FunctionCallIndex, event.item.call_id, Restored(rev, event.item.name),
                     event.item.arguments)>>])

\* rev is the reverse map of the client's request. Events of other types, failures among
\* them, are passed over.
ConvertCodexResponseToOpenAI(p, event, rev) ==
  CASE event.type = "response.reasoning_summary_text.delta"
         -> Emit(p, [Nothing EXCEPT !.reasoning = <<event.delta>>])
    [] event.type = "response.reasoning_summary_text.done"
         -> Emit(p, [Nothing EXCEPT !.reasoning = <<"\n\n">>])
    [] event.type = "response.output_text.delta"
         -> Emit(p, [Nothing EXCEPT !.content = <<event.delta>>])
    [] event.type \in {"response.completed", "response.done"}
         -> Emit(p, Finish(p, event))
    [] event.type = "response.output_item.added"             -> Announce(p, event, rev)
    [] event.type = "response.function_call_arguments.delta"
         -> Emit([p EXCEPT !.HasReceivedArgumentsDelta = TRUE], Arguments(p, <<event.delta>>))
    [] event.type = "response.function_call_arguments.done"  -> ArgumentsDone(p, event)
    [] event.type = "response.output_item.done"              -> ItemDone(p, event, rev)
    [] OTHER                                                 -> Skip(p)

-----------------------------------------------------------------------------
(* The whole. A message and a reasoning have parts, each a text. Of those  *)
(* that have any the last counts, and of its parts the first.              *)

OfType(output, type) == SelectSeq(output, LAMBDA item : item.type = type)
LastText(items) ==
  LET saying == SelectSeq(items, LAMBDA item : item.parts # <<>>)
  IN  IF saying = <<>> THEN <<>> ELSE Last(saying).parts[1]

ConvertCodexResponseToOpenAINonStream(response, rev) ==
  LET calls == OfType(response.output, "function_call")
  IN  [text      |-> LastText(OfType(response.output, "message")),
       reasoning |-> LastText(OfType(response.output, "reasoning")),
       calls     |-> [i \in DOMAIN calls |->
                        [id |-> calls[i].call_id, name |-> Restored(rev, calls[i].name),
                         arguments |-> calls[i].arguments]],
       finish    |-> IF response.status = "completed" THEN "stop" ELSE "",
       usage     |-> response.usage]

-----------------------------------------------------------------------------
(* The completions endpoint: a prompt is a message, and of the answer only *)
(* the text is kept.                                                       *)

convertCompletionsRequestToChatCompletions(r) ==
  [model |-> r.model, stream |-> r.stream, effort |-> "",
   messages |-> <<[role |-> "user",
                   content |-> <<Part("text", IF r.prompt = "" THEN "Complete this:" ELSE r.prompt)>>,
                   calls |-> <<>>, call_id |-> ""]>>,
   tools |-> <<>>, choice |-> [kind |-> "absent", name |-> <<>>], format |-> "", verbosity |-> ""]

convertChatCompletionsResponseToCompletions(whole) ==
  [whole EXCEPT !.reasoning = <<>>, !.calls = <<>>]

\* The chunk, if it says anything a completion can.
convertChatCompletionsStreamChunkToCompletions(chunk) ==
  IF chunk.content = <<>> /\ chunk.finish = "" /\ ~chunk.usage THEN <<>>
  ELSE <<[chunk EXCEPT !.reasoning = <<>>, !.call = <<>>]>>

=============================================================================

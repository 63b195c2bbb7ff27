------------------------- MODULE ResponsesTranslation -------------------------
(* The Responses API: its requests go to Codex nearly as they are, or      *)
(* become Chat Completions requests when a client sends them to the chat   *)
(* endpoint (internal/translator/codex/openai/responses and                *)
(* internal/translator/openai/openai/responses); and the chunks of a chat  *)
(* stream become the events of a response.                                 *)
EXTENDS ChatTranslation

CONSTANT ChoiceIndices   (* the indices of the choices of a chat response          *)

-----------------------------------------------------------------------------
(* The request for Codex.                                                  *)

\* prompt is the input where it is a string, `fields` the names of the other fields
\* present; a service tier stands with its value.
Rejected == {"max_output_tokens", "max_completion_tokens", "temperature", "top_p", "service_tier:flex",
             "truncation", "context_management", "user"}

normalizeCodexBuiltinToolType(type) ==
  IF type \in {"web_search_preview", "web_search_preview_2025_03_11"} THEN "web_search" ELSE type

\* Of a choice that is a built-in tool, the name is its type.
normalizeCodexBuiltinTools(r) ==
  [r EXCEPT !.tools = [i \in DOMAIN r.tools |->
                         [r.tools[i] EXCEPT !.type = normalizeCodexBuiltinToolType(@)]],
            !.choice = IF @.kind = "builtin" THEN [@ EXCEPT !.name = <<normalizeCodexBuiltinToolType(@[1])>>]
                       ELSE @]

convertSystemRoleToDeveloper(input) ==
  [i \in DOMAIN input |->
     IF input[i].type = "message" /\ input[i].role = "system" THEN [input[i] EXCEPT !.role = "developer"]
     ELSE input[i]]

InputOf(r) == IF r.prompt = "" THEN r.input
              ELSE <<Message("user", <<Part("input_text", r.prompt)>>)>>

\* The model stays the one the client wrote.
ConvertOpenAIResponsesRequestToCodex(r) ==
  normalizeCodexBuiltinTools(
    [r EXCEPT !.input = convertSystemRoleToDeveloper(InputOf(r)), !.prompt = "", !.stream = TRUE,
              !.store = FALSE, !.parallel = TRUE, !.fields = @ \ Rejected])

-----------------------------------------------------------------------------
(* The request for Chat Completions.                                       *)

Chat(role, content, calls, id) == [role |-> role, content |-> content, calls |-> calls, call_id |-> id]

ChatPart(part) == Part(IF part.type = "input_image" THEN "image_url" ELSE "text", part.text)
ChatContent(content) ==
  LET kept == SelectSeq(content, LAMBDA p : p.type \in {"input_text", "output_text", "input_image"})
  IN  [i \in DOMAIN kept |-> ChatPart(kept[i])]

\* Faulty variant: a call without its arguments.
ChatMessagesUnargued(item) ==
  CASE item.type = "message"
         -> <<Chat(IF item.role = "developer" THEN "user" ELSE item.role, ChatContent(item.content), <<>>, "")>>
    [] item.type = "function_call"
         -> <<Chat("assistant", <<>>, <<[id |-> item.call_id, name |-> item.name, arguments |-> <<>>]>>, "")>>
    [] item.type = "function_call_output"
         -> <<Chat("tool", <<Part("text", item.output)>>, <<>>, item.call_id)>>
    [] OTHER -> <<>>

\* An item is a message or nothing. A call is a message of the assistant without text.
ChatMessages(item) ==
  CASE item.type = "message"
         -> <<Chat(IF item.role = "developer" THEN "user" ELSE item.role, ChatContent(item.content), <<>>, "")>>
    [] item.type = "function_call"
         -> <<Chat("assistant", <<>>,
                   <<[id |-> item.call_id, name |-> item.name, arguments |-> item.arguments]>>, "")>>
    [] item.type = "function_call_output"
         -> <<Chat("tool", <<Part("text", item.output)>>, <<>>, item.call_id)>>
    [] OTHER -> <<>>

\* The choice is written as a string, an object too: the text of the object.
ChatChoice(c) == IF c.kind \in {"function", "builtin"} THEN [kind |-> "string", name |-> <<"{}">> \o c.name] ELSE c

ConvertOpenAIResponsesRequestToOpenAIChatCompletions(r) ==
  [model     |-> r.model,
   stream    |-> r.stream,
   effort    |-> r.effort["codex"],
   messages  |-> (IF r.instructions = "" THEN <<>>
                  ELSE <<Chat("system", <<Part("text", r.instructions)>>, <<>>, "")>>)
                 \o (IF r.prompt # "" THEN <<Chat("user", <<Part("text", r.prompt)>>, <<>>, "")>>
                     ELSE FlattenSeq([i \in DOMAIN r.input |-> ChatMessages(r.input[i])])),
   tools     |-> FunctionTools(r.tools),
   choice    |-> ChatChoice(r.choice),
   format    |-> "",
   verbosity |-> ""]

-----------------------------------------------------------------------------
(* Codex events for a Responses client pass as they are; the whole is the  *)
(* response in the event that completes it.                                *)

ConvertCodexResponseToOpenAIResponses(event) == <<event>>
ConvertCodexResponseToOpenAIResponsesNonStream(response) == response

-----------------------------------------------------------------------------
(* Chunks of a chat stream as events of a response. An event names its     *)
(* item by kind and choice.                                                *)

NoMessage == [added |-> FALSE, done |-> FALSE, text |-> <<>>]
NoFunction == [seen |-> FALSE, id |-> "", name |-> <<>>, args |-> <<>>, done |-> FALSE]

\* oaiToResponsesState: `reasoning` the one that is open, `reasonings` those that are over.
ResponsesState ==
  [started |-> FALSE, usage |-> FALSE,
   reasoning |-> [open |-> FALSE, index |-> 0, text |-> <<>>], reasonings |-> <<>>,
   messages |-> [i \in ChoiceIndices |-> NoMessage], functions |-> [i \in ChoiceIndices |-> NoFunction]]

Event(type, kind, i, data) == [type |-> type, kind |-> kind, index |-> i, data |-> data]
Say(a, st, events) == [st |-> st, out |-> a.out \o events]

\* The first chunk begins the response. It takes the state, with the usage, from the start.
Start(a) ==
  IF a.st.started THEN a
  ELSE Say(a, [ResponsesState EXCEPT !.started = TRUE],
           <<Event("response.created", "response", 0, <<>>),
             Event("response.in_progress", "response", 0, <<>>)>>)

CaptureUsage(a, chunk) == [a EXCEPT !.st.usage = @ \/ chunk.usage]

StopReasoning(a) ==
  LET r == a.st.reasoning
  IN  IF ~r.open THEN a
      ELSE Say(a, [a.st EXCEPT !.reasoning = ResponsesState.reasoning, !.reasonings = Append(@, r.text)],
               <<Event("response.reasoning_summary_text.done", "reasoning", r.index, r.text),
                 Event("response.reasoning_summary_part.done", "reasoning", r.index, r.text),
                 Event("response.output_item.done", "reasoning", r.index, r.text)>>)

\* Faulty variant: the message is closed once more at the end.
CloseMessageAgain(a, i) ==
  LET m == a.st.messages[i]
  IN  IF ~m.added THEN a
      ELSE Say(a, [a.st EXCEPT !.messages[i].done = TRUE],
               <<Event("response.output_text.done", "message", i, m.text),
                 Event("response.content_part.done", "message", i, m.text),
                 Event("response.output_item.done", "message", i, m.text)>>)

CloseMessage(a, i) ==
  LET m == a.st.messages[i]
  IN  IF ~m.added \/ m.done THEN a
      ELSE Say(a, [a.st EXCEPT !.messages[i].done = TRUE],
               <<Event("response.output_text.done", "message", i, m.text),
                 Event("response.content_part.done", "message", i, m.text),
                 Event("response.output_item.done", "message", i, m.text)>>)

CloseFunction(a, i) ==
  LET f == a.st.functions[i]
      args == IF f.args = <<>> THEN <<"{}">> ELSE f.args
  IN  IF f.id = "" \/ f.done THEN a
      ELSE Say(a, [a.st EXCEPT !.functions[i].done = TRUE],
               <<Event("response.function_call_arguments.done", "function_call", i, args),
                 Event("response.output_item.done", "function_call", i,
                       [call_id |-> f.id, name |-> f.name, arguments |-> args])>>)

Told(a, i, text) ==
  LET b == StopReasoning(a)
      added == IF b.st.messages[i].added THEN <<>>
               ELSE <<Event("response.output_item.added", "message", i, <<>>),
                      Event("response.content_part.added", "message", i, <<>>)>>
  IN  IF text = <<>> THEN a
      ELSE Say(b, [b.st EXCEPT !.messages[i].added = TRUE, !.messages[i].text = @ \o text],
               added \o <<Event("response.output_text.delta", "message", i, text)>>)

Reasoned(a, i, text) ==
  LET r == IF a.st.reasoning.open THEN a.st.reasoning ELSE [open |-> TRUE, index |-> i, text |-> <<>>]
      added == IF a.st.reasoning.open THEN <<>>
               ELSE <<Event("response.output_item.added", "reasoning", i, <<>>),
                      Event("response.reasoning_summary_part.added", "reasoning", i, <<>>)>>
  IN  IF text = <<>> THEN a
      ELSE Say(a, [a.st EXCEPT !.reasoning = [r EXCEPT !.text = @ \o text]],
               added \o <<Event("response.reasoning_summary_text.delta", "reasoning", r.index, text)>>)

\* Of a choice there is one call: the first id counts, whatever is called after it.
Called(a, i, entry) ==
  LET b == CloseMessage(StopReasoning(a), i)
      old == b.st.functions[i]
      f == [old EXCEPT !.seen = TRUE, !.args = @ \o entry.arguments,
                       !.name = IF entry.name = <<>> THEN @ ELSE entry.name,
                       !.id = IF @ = "" THEN entry.id ELSE @]
      added == IF old.id = "" /\ f.id # ""
                 THEN <<Event("response.output_item.added", "function_call", i, f.name)>> ELSE <<>>
      delta == IF f.id # "" /\ entry.arguments # <<>>
                 THEN <<Event("response.function_call_arguments.delta", "function_call", i, entry.arguments)>>
                 ELSE <<>>
  IN  Say(b, [b.st EXCEPT !.functions[i] = f], added \o delta)

\* The order of the output: reasonings, messages, calls.
CompletedOutput(st) ==
  LET indices == SetToSortSeq(ChoiceIndices, <)
      messages == SelectSeq(indices, LAMBDA i : st.messages[i].added)
      calls == SelectSeq(indices, LAMBDA i : st.functions[i].seen)
  IN  [i \in DOMAIN st.reasonings |-> [type |-> "reasoning", parts |-> <<st.reasonings[i]>>]]
      \o [i \in DOMAIN messages |-> [type |-> "message", parts |-> <<st.messages[messages[i]].text>>]]
      \o [i \in DOMAIN calls |-> [type |-> "function_call", call_id |-> st.functions[calls[i]].id,
                                  name |-> st.functions[calls[i]].name,
                                  arguments |-> st.functions[calls[i]].args]]

\* A reason to finish closes what is open, in every choice, and completes the response.
Finished(a) ==
  LET indices == SetToSortSeq(ChoiceIndices, <)
      b == StopReasoning(FoldLeft(CloseMessage, a, indices))
      c == FoldLeft(CloseFunction, b, indices)
  IN  Say(c, c.st, <<Event("response.completed", "response", 0,
                           [output |-> CompletedOutput(c.st), usage |-> c.st.usage])>>)

\* One choice in a chunk.
ConvertOpenAIChatCompletionsResponseToOpenAIResponses(st, chunk) ==
  LET i == chunk.index
      begun == Start(CaptureUsage([st |-> st, out |-> <<>>], chunk))
      said == Reasoned(Told(begun, i, chunk.content), i, chunk.reasoning)
      called == IF chunk.call = <<>> THEN said ELSE Called(said, i, chunk.call[1])
  IN  IF chunk.finish = "" THEN called ELSE Finished(called)

-----------------------------------------------------------------------------
(* The whole chat response as a response; asked: the request said          *)
(* something about reasoning.                                              *)

ConvertOpenAIChatCompletionsResponseToOpenAIResponsesNonStream(whole, asked) ==
  [status |-> "completed", usage |-> whole.usage,
   output |-> (IF whole.reasoning # <<>> THEN <<[type |-> "reasoning", parts |-> <<whole.reasoning>>]>>
               ELSE IF asked THEN <<[type |-> "reasoning", parts |-> <<>>]>> ELSE <<>>)
              \o (IF whole.text # <<>> THEN <<[type |-> "message", parts |-> <<whole.text>>]>> ELSE <<>>)
              \o [i \in DOMAIN whole.calls |->
                    [type |-> "function_call", call_id |-> whole.calls[i].id, name |-> whole.calls[i].name,
                     arguments |-> whole.calls[i].arguments]]]

=============================================================================

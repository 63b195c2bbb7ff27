---------------------------- MODULE CodexExecutor ----------------------------
(* internal/runtime/executor, the HTTP executor: one request of a client,  *)
(* from the handler that takes it (sdk/api/handlers/openai) to what the    *)
(* executor returns. The upstream is Codex: it refuses, or answers with    *)
(* the items of a response, told event by event, and may fail or be cut    *)
(* off anywhere.                                                           *)
EXTENDS Thinking, ResponsesTranslation

CONSTANTS
  Requests,       (* [endpoint, client, format, body]                        *)
  InfoOf,         (* the models with a provider, and what is known of each   *)
  FirstModel,     (* what "auto" stands for                                  *)
  Refusals,       (* [status, limit, resetsAt, resetsIn, header]             *)
  Now,
  PartLists,      (* the parts a message or a reasoning may have, each a     *)
                  (* text that is told in pieces                             *)
  Args,           (* the arguments a call may have, told in pieces           *)
  CallIds,        (* the ids of calls, in order                              *)
  MaxItems        (* items in a response                                     *)

Types == {"reasoning", "message", "function_call"}

ASSUME ExecutorAssumption ==
  /\ FirstModel \in DOMAIN InfoOf /\ MaxItems \in Nat /\ Len(CallIds) >= MaxItems
  /\ FirstModel \in Seq(STRING) /\ ParseSuffix(FirstModel).ModelName # <<"auto">>

\* What the catalog (registry/models/models.json) knows: only a described model has levels.
\* One that reasons in levels alone has them in order, "medium" is among them and "max" is
\* not, and what may be zero or dynamic are budgets.
ASSUME CatalogAssumption ==
  \A m \in DOMAIN InfoOf :
    LET info == InfoOf[m]
    IN  /\ info \in [user : BOOLEAN, reasons : BOOLEAN, Levels : Seq(STRING), Min : Nat, Max : Nat,
                     ZeroAllowed : BOOLEAN, DynamicAllowed : BOOLEAN]
        /\ info.Levels # <<>> => info.reasons /\ ~info.user
        /\ info.Levels # <<>> /\ ~HasBudget(info) =>
             /\ ~info.ZeroAllowed /\ ~info.DynamicAllowed
             /\ Range(info.Levels) \subseteq {"none", "minimal", "low", "medium", "high", "xhigh"}
             /\ "medium" \in Range(info.Levels)
             /\ \A i, j \in DOMAIN info.Levels : i < j =>
                  levelToBudgetMap[info.Levels[i]] < levelToBudgetMap[info.Levels[j]]

\* A request in the format of the Responses API keeps the effort where Codex looks for it.
InResponsesFormat(r) == r.endpoint \in {"responses", "compact"} \/ (r.endpoint = "chat" /\ r.format = "responses")

ASSUME RequestAssumption ==
  \A r \in Requests :
    /\ r.endpoint \in {"chat", "completions", "responses", "compact"}
    /\ r.body.model \in Seq(STRING)
    /\ {"endpoint", "format", "body"} \subseteq DOMAIN r /\ "model" \in DOMAIN r.body
    /\ InResponsesFormat(r) => "effort" \in DOMAIN r.body /\ r.body.effort \in [Formats -> STRING]

\* A chat declares tools and may choose one; there are suffixes enough to tell them apart.
ASSUME ToolsAssumption ==
  \A r \in Requests : r.endpoint = "chat" =>
    /\ {"tools", "choice"} \subseteq DOMAIN r.body
    /\ r.body.tools \in Seq([type : STRING, name : Seq(STRING)])
    /\ r.body.choice \in [kind : STRING, name : Seq(STRING)]
    /\ Len(FunctionTools(r.body.tools)) <= Len(Numerals)

VARIABLES
  request,    \* the client's
  sent,       \* the body that goes upstream and its cache key
  upstream,   \* what Codex has told: the items that are done, the one that is open, and the
              \* events of it that are left to tell
  param,      \* the state of the stream's translation
  back,       \* the stream's chunks, translated to events of a response
  view        \* what the caller of the executor has

executorVars == <<request, sent, upstream, param, back, view>>

-----------------------------------------------------------------------------
(* Upwards.                                                                *)

NoRequest == [endpoint |-> "none"]
NotSent == [body |-> <<>>, cache |-> ""]
NoItem == [type |-> "none"]

\* "auto" is a model's name that stands for another; its suffix stays.
getRequestDetails(model) ==
  LET parsed == ParseSuffix(model)
  IN  IF parsed.ModelName # <<"auto">> THEN model
      ELSE FirstModel \o SubSeq(model, 2, Len(model))

SourceFormat(r) == IF r.endpoint \in {"responses", "compact"} THEN "openai-response" ELSE "openai"

\* The payload in the source format: a client may send the format of the Responses API
\* to the chat endpoint, and a prompt is wrapped.
Payload(r) ==
  CASE r.endpoint = "completions" -> convertCompletionsRequestToChatCompletions(r.body)
    [] r.endpoint = "chat" /\ r.format = "responses" ->
         ConvertOpenAIResponsesRequestToOpenAIChatCompletions(r.body)
    [] OTHER -> r.body

Target(r) == IF r.endpoint = "compact" THEN "openai-response" ELSE "codex"

\* The registered translators; without one a payload stays as it is.
TranslateRequest(from, to, model, payload, stream) ==
  CASE from = "openai" /\ to = "codex"           -> ConvertOpenAIRequestToCodex(model, payload, stream)
    [] from = "openai-response" /\ to = "codex"  -> ConvertOpenAIResponsesRequestToCodex(payload)
    [] OTHER                                     -> payload

Model(r) == getRequestDetails(r.body.model)
Base(model) == ParseSuffix(model).ModelName

\* The body, or an error that is the client's.
Prepared(r) ==
  LET base == Base(Model(r))
      translated == TranslateRequest(SourceFormat(r), Target(r), base, Payload(r), r.body.stream)
  IN  ApplyThinking(translated, Model(r), InfoOf[base], SourceFormat(r), Target(r))

\* Requests of one conversation share a prompt cache: the client names it, or it is the
\* client's own.
CacheKey(r) ==
  CASE SourceFormat(r) = "openai-response"  -> r.body.key
    [] OTHER                                -> r.client

-----------------------------------------------------------------------------
(* Downwards.                                                              *)

NoAnswer == [text |-> <<>>, reasoning |-> <<>>, calls |-> <<>>, finish |-> <<>>, usage |-> FALSE]
NoView == [status |-> "open", code |-> 0, retryAfter |-> 0, answer |-> NoAnswer, whole |-> <<>>]

Status(status, code) == [NoView EXCEPT !.status = status, !.code = code]

\* How a client of the chat stream adds a chunk to what it has.
WithEntry(calls, entry) ==
  IF entry.index + 1 > Len(calls)
    THEN Append(calls, [id |-> entry.id, name |-> entry.name, arguments |-> entry.arguments])
    ELSE [calls EXCEPT ![entry.index + 1].arguments = @ \o entry.arguments]

WithChunk(answer, chunk) ==
  [text      |-> answer.text \o chunk.content,
   reasoning |-> answer.reasoning \o chunk.reasoning,
   calls     |-> FoldLeft(WithEntry, answer.calls, chunk.call),
   finish    |-> IF chunk.finish = "" THEN answer.finish ELSE Append(answer.finish, chunk.finish),
   usage     |-> answer.usage \/ chunk.usage]

ReverseMap == buildReverseMapFromOriginalOpenAI(Payload(request))

\* One event of the stream, to a client of the chat or the completions endpoint.
Streamed(state, event) ==
  LET converted == ConvertCodexResponseToOpenAI(state.param, event, ReverseMap)
      chunks == IF request.endpoint = "chat" THEN converted.chunks
                ELSE FlattenSeq([i \in DOMAIN converted.chunks |->
                       convertChatCompletionsStreamChunkToCompletions(converted.chunks[i])])
      Back(b, chunk) ==
        LET r == ConvertOpenAIChatCompletionsResponseToOpenAIResponses(b.st, chunk)
        IN  [st |-> r.st, events |-> b.events \o r.out]
  IN  [param |-> converted.param,
       back  |-> FoldLeft(Back, state.back, converted.chunks),
       answer |-> FoldLeft(WithChunk, state.answer, chunks)]

\* An event reaches a streaming client at once, the Responses client as it is.
Receive(events) ==
  LET state == FoldLeft(Streamed, [param |-> param, back |-> back, answer |-> view.answer], events)
  IN  IF request.body.stream /\ request.endpoint \in {"chat", "completions"}
        THEN /\ param' = state.param
             /\ back' = state.back
             /\ view' = [view EXCEPT !.answer = state.answer]
        ELSE UNCHANGED <<param, back, view>>

\* The response translated as a whole, for the caller that waited.
TranslateNonStream(response) ==
  CASE SourceFormat(request) = "openai-response"  -> response
    [] request.endpoint = "completions"           ->
         convertChatCompletionsResponseToCompletions(
           ConvertCodexResponseToOpenAINonStream(response, ReverseMap))
    [] OTHER  -> ConvertCodexResponseToOpenAINonStream(response, ReverseMap)

\* How long a spent account should be left alone, as the body says, 0 if it does not.
parseCodexRetryAfter(refusal) ==
  IF refusal.status # 429 \/ ~refusal.limit THEN 0
  ELSE IF refusal.resetsAt > Now THEN refusal.resetsAt - Now ELSE refusal.resetsIn

\* The body counts before the header Retry-After.
newCodexStatusErr(refusal) ==
  IF parseCodexRetryAfter(refusal) # 0 THEN parseCodexRetryAfter(refusal) ELSE refusal.header

-----------------------------------------------------------------------------
NotBegun == [begun |-> FALSE, items |-> <<>>, open |-> NoItem, left |-> <<>>, end |-> "none"]

ExecutorInit ==
  /\ request = NoRequest /\ sent = NotSent /\ upstream = NotBegun
  /\ param = Params /\ back = [st |-> ResponsesState, events |-> <<>>] /\ view = NoView

Waiting == request # NoRequest /\ view.status = "open"

\* A request that no credential could serve does not reach the executor; one whose
\* effort the model does not have is refused here.
Execute(r) ==
  /\ request = NoRequest
  /\ request' = r
  /\ LET known == Base(Model(r)) \in DOMAIN InfoOf
         prepared == Prepared(r)
     IN  IF ~known THEN sent' = sent /\ view' = Status("error", 502)
         ELSE IF (r.endpoint = "compact" /\ r.body.stream) \/ prepared.err
           THEN sent' = sent /\ view' = Status("error", 400)
         ELSE sent' = [body |-> prepared.body, cache |-> CacheKey(r)] /\ view' = view
  /\ UNCHANGED <<upstream, param, back>>

Refuse(refusal) ==
  /\ Waiting /\ ~upstream.begun
  /\ view' = [Status("error", refusal.status) EXCEPT !.retryAfter = newCodexStatusErr(refusal)]
  /\ UNCHANGED <<request, sent, upstream, param, back>>

\* What a compaction answers with is no response that is told in events.
Telling == Waiting /\ upstream.end = "none" /\ request.endpoint # "compact"
Count(type) == Len(OfType(upstream.items, type))

\* The items that may come next, in any order; the calls are of tools that Codex was told of.
SentNames == Range(ToolNames(sent.body.tools))
NextItems ==
  [type : {"reasoning", "message"}, parts : PartLists]
  \union [type : {"function_call"}, call_id : {CallIds[i] : i \in {Count("function_call") + 1} \intersect DOMAIN CallIds},
          name : SentNames, arguments : Args]

\* The events that tell a text in pieces.
Deltas(type, text) == [i \in DOMAIN text |-> [type |-> type, delta |-> text[i]]]

\* The events between the beginning and the end of an item. Codex announces a call and tells
\* its arguments in pieces or at once, or tells the call when it is done.
EventsOf(item, manner) ==
  CASE item.type = "reasoning" ->
         FlattenSeq([i \in DOMAIN item.parts |->
           Append(Deltas("response.reasoning_summary_text.delta", item.parts[i]),
                  [type |-> "response.reasoning_summary_text.done", text |-> item.parts[i]])])
    [] item.type = "message" ->
         FlattenSeq([i \in DOMAIN item.parts |-> Deltas("response.output_text.delta", item.parts[i])])
    [] OTHER ->
         IF manner = "late" THEN <<>>
         ELSE Append(IF manner = "once" THEN <<>>
                     ELSE Deltas("response.function_call_arguments.delta", item.arguments),
                     [type |-> "response.function_call_arguments.done", arguments |-> item.arguments])

Begin(item, manner) ==
  /\ Telling /\ upstream.open = NoItem /\ Len(upstream.items) < MaxItems
  /\ item.type # "function_call" => manner = "pieces"
  /\ upstream' = [upstream EXCEPT !.begun = TRUE, !.open = item, !.left = EventsOf(item, manner)]
  /\ Receive(IF manner = "late" THEN <<>> ELSE <<[type |-> "response.output_item.added", item |-> item]>>)
  /\ UNCHANGED <<request, sent>>

Tell ==
  /\ Telling /\ upstream.left # <<>>
  /\ upstream' = [upstream EXCEPT !.left = Tail(@)]
  /\ Receive(<<Head(upstream.left)>>)
  /\ UNCHANGED <<request, sent>>

FinishItem ==
  /\ Telling /\ upstream.open # NoItem /\ upstream.left = <<>>
  /\ upstream' = [upstream EXCEPT !.items = Append(@, upstream.open), !.open = NoItem]
  /\ Receive(<<[type |-> "response.output_item.done", item |-> upstream.open]>>)
  /\ UNCHANGED <<request, sent>>

Response == [status |-> "completed", output |-> upstream.items, usage |-> TRUE]

\* response.completed, or response.done; a failure is an event nobody translates.
CompleteResponse ==
  /\ Telling /\ upstream.open = NoItem /\ upstream.items # <<>>
  /\ upstream' = [upstream EXCEPT !.begun = TRUE, !.end = "completed"]
  /\ Receive(<<[type |-> "response.completed", response |-> Response]>>)
  /\ UNCHANGED <<request, sent>>

FailResponse ==
  /\ Telling
  /\ upstream' = [upstream EXCEPT !.begun = TRUE, !.end = "failed"]
  /\ Receive(<<[type |-> "response.failed"]>>)
  /\ UNCHANGED <<request, sent>>

\* extractCodexCompletionPayload: what completes the response, among the lines.
Completion == upstream.end = "completed"

\* The body ends, as it should or broken. Who streams is told of a broken one only; who
\* waits needs the whole body, and in it the event that completes the response.
EndBody(broken) ==
  /\ Waiting /\ upstream.begun
  /\ view' = IF broken THEN [view EXCEPT !.status = "error", !.code = 500]
             ELSE IF request.body.stream THEN [view EXCEPT !.status = "done"]
             ELSE IF Completion THEN [view EXCEPT !.status = "done", !.whole = <<TranslateNonStream(Response)>>]
             ELSE [view EXCEPT !.status = "error", !.code = 408]
  /\ UNCHANGED <<request, sent, upstream, param, back>>

\* A body that is the response itself, for a request that is no stream.
AnswerWhole(items) ==
  /\ Waiting /\ ~upstream.begun /\ ~request.body.stream
  /\ upstream' = [upstream EXCEPT !.begun = TRUE, !.items = items, !.end = "completed"]
  /\ view' = [view EXCEPT !.status = "done", !.whole =
                <<TranslateNonStream([status |-> "completed", output |-> items, usage |-> TRUE])>>]
  /\ UNCHANGED <<request, sent, param, back>>

ExecutorNext ==
  \/ /\ request = NoRequest
     /\ \E r \in Requests : Execute(r)
  \/ \E refusal \in Refusals : Refuse(refusal)
  \/ /\ Telling
     /\ \E item \in NextItems, manner \in {"pieces", "once", "late"} : Begin(item, manner)
  \/ Tell
  \/ FinishItem
  \/ CompleteResponse
  \/ FailResponse
  \/ \E broken \in BOOLEAN : EndBody(broken)
  \/ /\ Waiting
     /\ \E item \in NextItems : AnswerWhole(<<item>>)

ExecutorSpec == ExecutorInit /\ [][ExecutorNext]_executorVars

-----------------------------------------------------------------------------
(* Properties.                                                             *)

IsSent == sent # NotSent
Suffix == ParseSuffix(Model(request))
Levels == Range(InfoOf[Base(Model(request))].Levels)

\* The words a client asks for effort with: the suffix, and without one the body.
AskedFor ==
  LET asked == IF SourceFormat(request) = "openai" THEN Payload(request).effort ELSE request.body.effort["codex"]
  IN  IF Suffix.HasSuffix THEN IF Len(Suffix.RawSuffix) = 1 THEN Suffix.RawSuffix[1] ELSE ""
      ELSE IF asked = "" /\ SourceFormat(request) = "openai" THEN "medium" ELSE asked

\* For a model that reasons in levels: a level the client asks for goes upstream exactly, or
\* the request is refused because the model has it not; a number of tokens in the suffix asks
\* for the level whose budget it is, and a larger number never for less; none, and zero, is
\* the least the model does; automatic is "medium". What the suffix says counts, not the
\* body, where a number is no level of any model. (ApplyThinking and ValidateConfig.)
EffortHonoured ==
  LET info == InfoOf[Base(Model(request))]
      asked == AskedFor
      tokens == Suffix.HasSuffix /\ asked \in DOMAIN NumberOf
      effort == sent.body.effort["codex"]
      refused == view.status = "error" /\ view.code = 400
      Place(level) == CHOOSE i \in DOMAIN info.Levels : info.Levels[i] = level
      Other(word) == Prepared([request EXCEPT !.body.model = Base(Model(request)) \o <<"(", word, ")">>])
  IN  /\ request # NoRequest /\ request.endpoint # "compact"
      /\ Base(Model(request)) \in DOMAIN InfoOf /\ info.Levels # <<>> /\ ~HasBudget(info)
      =>
      /\ asked \in StandardLevels =>
           IF asked \in Levels THEN IsSent /\ effort = asked ELSE ~IsSent /\ refused
      /\ tokens /\ NumberOf[asked] > 0 =>
           /\ IsSent /\ effort \in Levels
           /\ \A level \in Levels : levelToBudgetMap[level] = NumberOf[asked] => effort = level
           /\ \A word \in DOMAIN NumberOf : NumberOf[word] > NumberOf[asked] =>
                ~Other(word).err /\ Place(Other(word).body.effort["codex"]) >= Place(effort)
      /\ asked = "none" \/ (tokens /\ NumberOf[asked] = 0) =>
           IsSent /\ effort = IF "none" \in Levels THEN "none" ELSE info.Levels[1]
      /\ asked = "auto" \/ (Suffix.HasSuffix /\ asked = "-1") => IsSent /\ effort = "medium"

\* The names Codex is told are short enough and of different tools different, and as the
\* answer is translated they become the client's again; so does that of the tool it chose.
ShortNamesRestored ==
  LET chat == Payload(request)
      Declared == {i \in DOMAIN chat.tools : chat.tools[i].type = "function"}
      Name(i) == chat.tools[i].name
      Short(i) == sent.body.tools[i].name
  IN  IsSent /\ SourceFormat(request) = "openai" =>
        /\ DOMAIN sent.body.tools = DOMAIN chat.tools
        /\ \A i \in Declared :
             /\ Len(Short(i)) <= Limit
             /\ Restored(ReverseMap, Short(i)) = Name(i)
             /\ \A j \in Declared : Short(i) = Short(j) => Name(i) = Name(j)
             /\ sent.body.choice.kind = "function" /\ chat.choice.name = Name(i) =>
                  Restored(ReverseMap, sent.body.choice.name) = Name(i)

\* The calls of the history have the names Codex was told, and every call that comes back,
\* in a stream or a whole, is of a tool the client declared, under the client's name for it.
ToolNamesRestored ==
  LET chat == Payload(request)
      declared == Range(ToolNames(chat.tools))
      called == OfType(sent.body.input, "function_call")
      given == FlattenSeq([i \in DOMAIN chat.messages |-> chat.messages[i].calls])
      returned == view.answer.calls \o (IF view.whole = <<>> THEN <<>> ELSE view.whole[1].calls)
  IN  IsSent /\ SourceFormat(request) = "openai" =>
        /\ \A i \in DOMAIN given : given[i].name \in declared =>
             Restored(ReverseMap, called[i].name) = given[i].name
        /\ \A i \in DOMAIN returned : returned[i].name \in declared

\* All the parts that were told of items of a type.
Said(type) == FlattenSeq([i \in DOMAIN OfType(upstream.items, type) |-> OfType(upstream.items, type)[i].parts])

\* A client that streams a completed response and adds up the chunks has every part of every
\* message and, at the chat endpoint, of every reasoning, a blank line after each; every call
\* with its id, its name and its arguments, the usage, and one reason to finish. Had it waited
\* for the whole it had the same calls and usage, and the same text, and reasoning but for
\* the blank line, where there is one part at most. (Where there are more, the whole has the
\* first part of the last item that has one, and the client has something else.)
StreamMatchesWhole ==
  LET whole == TranslateNonStream(Response)
      answer == view.answer
      told == Said("message")
      thought == IF request.endpoint = "chat" THEN Said("reasoning") ELSE <<>>
  IN  /\ IsSent /\ request.endpoint \in {"chat", "completions"} /\ request.body.stream
      /\ upstream.end = "completed"
      =>
      /\ answer.text = FlattenSeq(told) /\ (Len(told) <= 1 => whole.text = answer.text)
      /\ answer.reasoning = FlattenSeq([i \in DOMAIN thought |-> Append(thought[i], "\n\n")])
      /\ Len(thought) <= 1 => whole.reasoning = FlattenSeq(thought)
      /\ answer.calls = whole.calls /\ answer.usage = whole.usage /\ Len(answer.finish) = 1

\* What remains of a transcript that takes the way by Chat Completions: developers are
\* taken for users, reasoning is left out, as are messages of an assistant without text.
Heard(item, rev) ==
  CASE item.type = "message"       -> [role |-> IF item.role \in {"system", "developer"} THEN "user" ELSE item.role,
                                       texts |-> [i \in DOMAIN item.content |-> item.content[i].text]]
    [] item.type = "function_call" -> [item EXCEPT !.name = Restored(rev, @)]
    [] OTHER                       -> item

\* A client that sends the format of the Responses API to the chat endpoint has the same
\* conversation with Codex as at the responses endpoint: the instructions, then message
\* for message, call for call and output for output, with ids, names and arguments.
EndpointsAgree ==
  LET asked == [request EXCEPT !.endpoint = "responses"]
      direct == SelectSeq(Prepared(asked).body.input, LAMBDA item :
                  item.type # "reasoning" /\ ~(item.type = "message" /\ item.role = "assistant" /\ item.content = <<>>))
      first == IF request.body.instructions = "" THEN <<>>
               ELSE <<Message("system", <<Part("input_text", request.body.instructions)>>)>>
  IN  IsSent /\ request.endpoint = "chat" /\ request.format = "responses" =>
        [i \in DOMAIN sent.body.input |-> Heard(sent.body.input[i], ReverseMap)]
          = [i \in DOMAIN (first \o direct) |-> Heard((first \o direct)[i], ReverseMap)]

\* The events a stream of chunks becomes are those of a response: it is created, then in
\* progress; an item is added before anything is told of it and done after all of it, one of
\* a kind at a time, the message and the call once only; and with the end everything is done
\* and the response has, in its output, what Codex told. (Of a response with one call and no
\* message after it: a second call is taken for more of the first, and text that comes after
\* a call for more of the message that the call has ended.)
ResponsesWellFormed ==
  LET events == back.events
      told == Append(upstream.items, upstream.open)
      CallIsLast == \A i, j \in DOMAIN told :
        i < j /\ told[i].type = "function_call" => told[j].type \notin {"function_call", "message"}
      At(type, kind) == {i \in DOMAIN events : events[i].type = type /\ events[i].kind = kind}
      DeltasOf(kind) == {i \in DOMAIN events : events[i].kind = kind /\ events[i].type \in
                           {"response.output_text.delta", "response.reasoning_summary_text.delta",
                            "response.function_call_arguments.delta"}}
      Added(kind) == At("response.output_item.added", kind)
      DoneOf(kind) == At("response.output_item.done", kind)
      Open(kind, i) == Cardinality({a \in Added(kind) : a <= i}) - Cardinality({d \in DoneOf(kind) : d <= i})
      Ended == At("response.completed", "response")
      Pieces(kind) == FlattenSeq([i \in DOMAIN events |-> IF i \in DeltasOf(kind) THEN events[i].data ELSE <<>>])
      Output1(type) == OfType(events[Len(events)].data.output, type)
      Texts(type) == FlattenSeq(FlattenSeq([i \in DOMAIN Output1(type) |-> Output1(type)[i].parts]))
  IN  /\ events # <<>> =>
           At("response.created", "response") = {1} /\ At("response.in_progress", "response") = {2}
      /\ Ended \subseteq {Len(events)}
      /\ CallIsLast => \A kind \in Types :
           /\ kind # "reasoning" => Cardinality(Added(kind)) <= 1
           /\ \A i \in DOMAIN events : Open(kind, i) \in {0, 1} /\ (i \in DeltasOf(kind) => Open(kind, i) = 1)
           /\ Ended # {} => Open(kind, Len(events)) = 0
      /\ CallIsLast /\ Ended # {} =>
           /\ Texts("message") = FlattenSeq(Said("message")) /\ Texts("message") = Pieces("message")
           /\ Texts("reasoning") = Pieces("reasoning")
           /\ [i \in DOMAIN Output1("function_call") |-> Output1("function_call")[i].arguments]
                = [i \in DOMAIN OfType(upstream.items, "function_call") |-> OfType(upstream.items, "function_call")[i].arguments]

=============================================================================

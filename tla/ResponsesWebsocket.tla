------------------------- MODULE ResponsesWebsocket -------------------------
(***************************************************************************)
(* One conversation on the websocket of /v1/responses: ResponsesWebsocket  *)
(* and its helpers (sdk/api/handlers/openai/openai_responses_websocket.go, *)
(* openai_responses_ws_*.go).                                              *)
(*                                                                         *)
(* The client sends messages, one turn each, and says only what is new.    *)
(* The endpoint either passes that on together with the id of an earlier   *)
(* response ("incremental"), or puts the transcript together itself from   *)
(* the last request and the last output. Which of the two depends on the   *)
(* credentials, which the rest of the program changes meanwhile; a         *)
(* credential that can take increments is pinned to the conversation. The  *)
(* rounds of credentials and the restart of a stream are RequestExecution's *)
(* subject and appear here only with the choices they leave; the session   *)
(* with the upstream is CodexWsSession's.                                  *)
(***************************************************************************)
EXTENDS Integers, Sequences, FiniteSets

CONSTANTS
  Credentials,
  Situations,       (* Situations[c]: the states a credential may be in.          *)
  Shapes,           (* Messages without their previous_response_id.               *)
  BootstrapRetries, (* streaming.bootstrap-retries.                               *)
  Rounds,           (* Bound: rounds of credentials of one ExecuteStream.         *)
  MaxMessages,      (* Bound: accepted messages of a conversation.                *)
  MaxChanges        (* Bound: changes of credentials during a conversation.       *)

\* A credential as the manager's map has it: `known` is FALSE for one that was
\* removed, `attribute` and `metadata` are its two "websockets" settings,
\* `states` its ModelStates ("absent", "fine", "disabled", "cooling"), `models`
\* what it is registered for.
Flags == {"absent", "true", "false", "odd"}
Shape == [type : {"response.create", "response.append", "other"}, model : STRING,
          instructions : STRING, input : {"absent", "text", "items"}, generate : BOOLEAN]

NoCredential == "none"

ASSUME ConversationAssumption ==
  /\ IsFiniteSet(Credentials) /\ NoCredential \notin Credentials
  /\ \A c \in Credentials : \A s \in Situations[c] :
       /\ {s.attribute, s.metadata} \subseteq Flags
       /\ {s.known, s.disabled, s.cooling} \subseteq BOOLEAN
  /\ Shapes \subseteq Shape
  /\ {BootstrapRetries, Rounds, MaxMessages, MaxChanges} \subseteq Nat

VARIABLES
  auths,      (* The manager's credentials.                                      *)
  changes,    (* Changes of them so far, and the responses made before the last. *)
  conv,       (* The loop: pc, lastRequest, lastResponseOutput, pinnedAuthID.    *)
  turn,       (* The turn in progress and what its goroutines left.              *)
  client,     (* What the client has said and been told, and what this message   *)
              (* was answered with.                                              *)
  responses   (* Completed responses, by their ids.                              *)

vars == <<auths, changes, conv, turn, client, responses>>

\* An empty lastRequest. The model of an accepted request is never empty.
NoRequest == [model |-> "", instructions |-> "", prev |-> 0, form |-> "array", items |-> <<>>]
Said(n) == <<"said", n>>
Told(n) == <<"told", n>>

\* pin: the credential in the request's context. data: what became of dataChan,
\* which is nil when ExecuteStream failed at once.
NoTurn == [request |-> NoRequest, pin |-> NoCredential, auth |-> NoCredential, route |-> "none",
           over |-> "none", tried |-> {}, rounds |-> 0, retries |-> 0, data |-> "nil",
           sent |-> FALSE, completed |-> FALSE, output |-> <<>>, failed |-> FALSE]

Init ==
  /\ auths \in {f \in [Credentials -> UNION {Situations[c] : c \in Credentials}] :
                  \A c \in Credentials : f[c] \in Situations[c]}
  /\ changes = [made |-> 0, before |-> 0]
  /\ conv = [pc |-> "reading", last |-> NoRequest, output |-> <<>>, pinned |-> NoCredential, messages |-> 0]
  /\ turn = NoTurn
  /\ client = [gone |-> FALSE, model |-> "", instructions |-> "", recent |-> <<>>, answers |-> <<>>]
  /\ responses = <<>>

-----------------------------------------------------------------------------
(* What a credential can do. *)

Parsed(flag) == flag = "true"

\* The attribute decides when it can be read, then the metadata.
websocketUpstreamSupportsIncrementalInput(s) ==
  IF s.attribute \in {"true", "false"} THEN Parsed(s.attribute) ELSE Parsed(s.metadata)

\* CodexAutoExecutor's copy of the same rule.
codexWebsocketsEnabled(s) ==
  IF s.attribute \in {"true", "false"} THEN Parsed(s.attribute) ELSE Parsed(s.metadata)

\* The endpoint's own notion of a credential that can be used. The states of
\* models go before the credential's own cooldown.
responsesWebsocketAuthAvailableForModel(s, model) ==
  /\ ~s.disabled
  /\ IF s.states[model] # "absent" THEN s.states[model] = "fine" ELSE ~s.cooling

websocketUpstreamSupportsIncrementalInputForModel(model) ==
  \E c \in Credentials :
    /\ auths[c].known /\ model \in auths[c].models
    /\ responsesWebsocketAuthAvailableForModel(auths[c], model)
    /\ websocketUpstreamSupportsIncrementalInput(auths[c])

\* May the message go upstream as an increment? As long as nothing is pinned,
\* it may if any credential could take it.
allowIncremental(m) ==
  IF conv.pinned # NoCredential
    THEN auths[conv.pinned].known /\ websocketUpstreamSupportsIncrementalInput(auths[conv.pinned])
    ELSE LET model == IF m.model # "" THEN m.model ELSE conv.last.model
         IN  model # "" /\ websocketUpstreamSupportsIncrementalInputForModel(model)

-----------------------------------------------------------------------------
(* The request made of a message. *)

Rejected == [ok |-> FALSE, request |-> NoRequest]
Accepted(request) == [ok |-> TRUE, request |-> request]

Input(m) == IF m.input = "absent" THEN <<>> ELSE <<Said(conv.messages + 1)>>

\* A first response.create is passed on as it is, an input that is a text included.
normalizeResponseCreateRequest(m) ==
  IF m.model = "" THEN Rejected
  ELSE Accepted([model |-> m.model, instructions |-> m.instructions, prev |-> m.prev,
                 form |-> IF m.input = "text" THEN "text" ELSE "array", items |-> Input(m)])

Inherited(own, last) == IF own # "" THEN own ELSE last

\* Later messages: an increment, or the transcript so far with the new input.
normalizeResponseSubsequentRequest(m, incremental) ==
  LET With(prev, items) ==
        Accepted([model |-> Inherited(m.model, conv.last.model),
                  instructions |-> Inherited(m.instructions, conv.last.instructions),
                  prev |-> prev, form |-> "array", items |-> items])
  IN  IF conv.last = NoRequest \/ m.input # "items" THEN Rejected
      ELSE IF incremental /\ m.prev # 0 THEN With(m.prev, Input(m))
      ELSE IF conv.last.form # "array" THEN Rejected
      ELSE With(0, conv.last.items \o conv.output \o Input(m))

normalizeResponsesWebsocketRequestWithMode(m, incremental) ==
  IF m.type = "response.create" /\ conv.last = NoRequest THEN normalizeResponseCreateRequest(m)
  ELSE IF m.type \in {"response.create", "response.append"} THEN normalizeResponseSubsequentRequest(m, incremental)
  ELSE Rejected

shouldHandleResponsesWebsocketPrewarmLocally(m, incremental) ==
  /\ ~incremental /\ conv.last = NoRequest
  /\ m.type = "response.create" /\ ~m.generate

-----------------------------------------------------------------------------
(* The loop reads a message. *)

\* The client's side of an accepted message: the settings it stated, and what
\* was exchanged since the last increment, which starts the account afresh.
Heard(m, request, answers) ==
  [client EXCEPT !.model = IF m.model # "" THEN m.model ELSE @,
                 !.instructions = IF m.instructions # "" THEN m.instructions ELSE @,
                 !.recent = IF request.prev # 0 THEN Input(m) ELSE @ \o Input(m),
                 !.answers = answers]

\* A message that cannot be a request is answered with an error and forgotten.
Reject ==
  /\ client' = [client EXCEPT !.answers = <<"error">>]
  /\ UNCHANGED <<conv, turn, responses>>

\* A warm-up nobody upstream could use is answered here, with an id that no
\* upstream knows.
Prewarm(m, request) ==
  /\ conv' = [conv EXCEPT !.last = request, !.output = <<>>, !.messages = @ + 1]
  /\ client' = Heard(m, request, <<"completed">>)
  /\ responses' = Append(responses, [auth |-> NoCredential, over |-> "here"])
  /\ UNCHANGED turn

\* lastRequest is the new request before anything is known of its fate.
Accept(m, request) ==
  /\ conv' = [conv EXCEPT !.pc = "picking", !.last = request, !.messages = @ + 1]
  /\ turn' = [NoTurn EXCEPT !.request = request, !.pin = conv.pinned]
  /\ client' = Heard(m, request, <<>>)
  /\ UNCHANGED responses

Receive ==
  /\ conv.pc = "reading" /\ ~client.gone /\ conv.messages < MaxMessages
  /\ \E shape \in Shapes, prev \in 0..Len(responses) :
       LET m == [type |-> shape.type, model |-> shape.model, instructions |-> shape.instructions,
                 input |-> shape.input, generate |-> shape.generate, prev |-> prev]
           incremental == allowIncremental(m)
           normalized == normalizeResponsesWebsocketRequestWithMode(m, incremental)
       IN  /\ ~normalized.ok => Reject
           /\ normalized.ok =>
                IF shouldHandleResponsesWebsocketPrewarmLocally(m, incremental)
                  THEN Prewarm(m, normalized.request)
                  ELSE Accept(m, normalized.request)
  /\ UNCHANGED <<auths, changes>>

\* Reading fails: the deferred function ends the execution session.
ReadFails ==
  /\ conv.pc = "reading" /\ client.gone
  /\ conv' = [conv EXCEPT !.pc = "closed"]
  /\ UNCHANGED <<auths, changes, turn, client, responses>>

-----------------------------------------------------------------------------
(* ExecuteStreamWithAuthManager: credentials are tried until one streams. *)

\* isAuthBlockedForModel, for a request that names a model: the credential's
\* own cooldown does not count.
Blocked(s, model) == s.disabled \/ s.states[model] \in {"disabled", "cooling"}

Pickable ==
  {c \in Credentials \ turn.tried :
     /\ auths[c].known /\ turn.request.model \in auths[c].models
     /\ ~Blocked(auths[c], turn.request.model)
     /\ turn.pin \in {NoCredential, c}}

\* The executor works with the copy of the credential that was picked.
Pick ==
  /\ conv.pc = "picking"
  /\ \E c \in Pickable :
       turn' = [turn EXCEPT !.auth = c, !.tried = @ \cup {c},
                            !.route = IF codexWebsocketsEnabled(auths[c]) THEN "websocket" ELSE "http"]
  /\ conv' = [conv EXCEPT !.pc = "picked"]
  /\ UNCHANGED <<auths, changes, client, responses>>

\* Faulty variant: what was pinned first stays pinned.
PublishFirst ==
  /\ conv.pc = "picked"
  /\ LET s == auths[turn.auth]
     IN  conv' = [conv EXCEPT !.pc = "calling",
                    !.pinned = IF @ = NoCredential /\ s.known /\ websocketUpstreamSupportsIncrementalInput(s)
                                 THEN turn.auth ELSE @]
  /\ UNCHANGED <<auths, changes, turn, client, responses>>

\* The callback looks the credential up again. It is set for the turns that
\* began without a pinned credential, and called for every credential they try.
Publish ==
  /\ conv.pc = "picked"
  /\ LET s == auths[turn.auth]
         pins == turn.pin = NoCredential /\ s.known /\ websocketUpstreamSupportsIncrementalInput(s)
     IN  conv' = [conv EXCEPT !.pc = "calling", !.pinned = IF pins THEN turn.auth ELSE @]
  /\ UNCHANGED <<auths, changes, turn, client, responses>>

\* The turn is over with an error in errChan. If this was a restart, dataChan is there, and
\* closed once the error was sent.
FailTurn ==
  /\ conv' = [conv EXCEPT !.pc = "ended"]
  /\ turn' = [turn EXCEPT !.failed = TRUE, !.data = IF @ = "open" THEN "closed" ELSE @]

\* No credential is left: another round after a cooldown, or the end.
PickFails ==
  /\ conv.pc = "picking" /\ Pickable = {}
  /\ \/ FailTurn
     \/ /\ turn.tried # {} /\ turn.rounds < Rounds
        /\ turn' = [turn EXCEPT !.tried = {}, !.rounds = @ + 1]
        /\ UNCHANGED conv
  /\ UNCHANGED <<auths, changes, client, responses>>

\* The upstream fails before the first chunk. An invalid request ends the turn.
CallFails ==
  /\ conv.pc = "calling"
  /\ \/ FailTurn
     \/ conv' = [conv EXCEPT !.pc = "picking"] /\ UNCHANGED turn
  /\ UNCHANGED <<auths, changes, client, responses>>

\* An upstream that refuses the upgrade is asked over HTTP instead.
StreamOpens ==
  /\ conv.pc = "calling"
  /\ \E over \in {turn.route, "http"} : turn' = [turn EXCEPT !.over = over, !.data = "open"]
  /\ conv' = [conv EXCEPT !.pc = "streaming"]
  /\ UNCHANGED <<auths, changes, client, responses>>

\* The stream is over. An error before the first payload, if it is of the eligible
\* statuses, starts it again with the same request and the same context.
StreamEnds ==
  /\ conv.pc = "streaming"
  /\ \E failed, eligible \in BOOLEAN :
       /\ failed /\ turn.over = "websocket" => ~turn.completed
       /\ IF failed /\ eligible /\ ~turn.sent /\ turn.retries < BootstrapRetries
            THEN /\ turn' = [turn EXCEPT !.retries = @ + 1, !.tried = {}, !.rounds = 0]
                 /\ conv' = [conv EXCEPT !.pc = "picking"]
            ELSE /\ turn' = [turn EXCEPT !.failed = failed, !.data = "closed"]
                 /\ conv' = [conv EXCEPT !.pc = "ended"]
  /\ UNCHANGED <<auths, changes, client, responses>>

-----------------------------------------------------------------------------
(* forwardResponsesWebsocket. *)

\* A failed write ends the conversation.
Close == conv' = [conv EXCEPT !.pc = "closed"]

\* Any payload but response.completed: deltas, and also a response.done. What
\* is no payload (an event line, [DONE]) is left out but counts as sent.
Forward ==
  /\ conv.pc = "streaming" /\ ~turn.completed
  /\ IF client.gone THEN Close /\ UNCHANGED turn
     ELSE turn' = [turn EXCEPT !.sent = TRUE] /\ UNCHANGED conv
  /\ UNCHANGED <<auths, changes, client, responses>>

\* responseCompletedOutputFromPayload: an output that is no array counts as none.
Complete ==
  /\ conv.pc = "streaming" /\ ~turn.completed
  /\ \E output \in {<<>>, <<Told(conv.messages)>>} :
       IF client.gone THEN Close /\ UNCHANGED <<turn, client, responses>>
       ELSE /\ turn' = [turn EXCEPT !.sent = TRUE, !.completed = TRUE, !.output = output]
            /\ client' = [client EXCEPT !.recent = @ \o output, !.answers = Append(@, "completed")]
            /\ responses' = Append(responses, [auth |-> turn.auth, over |-> turn.over])
            /\ UNCHANGED conv
  /\ UNCHANGED <<auths, changes>>

\* Faulty variant: a turn that did not complete leaves the output before it.
NextMessageKeepingOutput ==
  conv' = [conv EXCEPT !.pc = "reading", !.output = IF turn.completed THEN turn.output ELSE @]

\* Back to the loop, which keeps the turn's output for the next transcript.
NextMessage == conv' = [conv EXCEPT !.pc = "reading", !.output = turn.output]

Answer(answer) ==
  IF client.gone THEN Close /\ UNCHANGED <<turn, client>>
  ELSE /\ client' = [client EXCEPT !.answers = Append(@, answer)]
       /\ turn' = NoTurn
       /\ NextMessage

\* errChan is ready.
TakeError ==
  /\ conv.pc = "ended" /\ turn.failed
  /\ Answer("error")
  /\ UNCHANGED <<auths, changes, responses>>

\* Faulty variant: a stream that ended is taken for complete.
TakeClosedUnchecked ==
  /\ conv.pc = "ended" /\ turn.data = "closed"
  /\ turn' = NoTurn /\ NextMessage /\ UNCHANGED client
  /\ UNCHANGED <<auths, changes, responses>>

\* dataChan is closed: select may see that before an error in errChan. Without
\* a response.completed the client gets an error of the endpoint's own.
TakeClosed ==
  /\ conv.pc = "ended" /\ turn.data = "closed"
  /\ IF turn.completed THEN turn' = NoTurn /\ NextMessage /\ UNCHANGED client
     ELSE Answer("cut short")
  /\ UNCHANGED <<auths, changes, responses>>

-----------------------------------------------------------------------------
(* The surroundings. *)

\* The rest of the program changes a credential.
Change ==
  /\ changes.made < MaxChanges /\ conv.pc # "closed"
  /\ \E c \in Credentials : \E s \in Situations[c] \ {auths[c]} :
       auths' = [auths EXCEPT ![c] = s]
  /\ changes' = [made |-> changes.made + 1,
                 before |-> Len(responses) + (IF conv.pc = "reading" \/ turn.completed THEN 0 ELSE 1)]
  /\ UNCHANGED <<conv, turn, client, responses>>

Disconnect ==
  /\ ~client.gone /\ conv.pc # "closed"
  /\ client' = [client EXCEPT !.gone = TRUE]
  /\ UNCHANGED <<auths, changes, conv, turn, responses>>

Next ==
  \/ Receive \/ ReadFails
  \/ Pick \/ Publish \/ PickFails \/ CallFails \/ StreamOpens \/ StreamEnds
  \/ Forward \/ Complete \/ TakeError \/ TakeClosed
  \/ Change \/ Disconnect

Spec == Init /\ [][Next]_vars

-----------------------------------------------------------------------------
(* Properties. *)

Attempting == conv.pc \in {"picked", "calling", "streaming"}

\* What goes upstream says everything that was said and told since the last
\* increment (that one included), in order and once: also after turns that
\* failed, after warm-ups answered here, and after messages that were refused.
\* Model and instructions are the last ones stated.
TranscriptKept ==
  Attempting =>
    /\ client.recent = turn.request.items \o turn.output
    /\ turn.request.model = client.model
    /\ turn.request.instructions = client.instructions

\* As long as the credentials stay as they were when a response was made over a
\* websocket, an increment to that response goes to the credential that made it,
\* and over a websocket: nobody else knows the response.
IncrementsReachTheirResponse ==
  Attempting /\ turn.request.prev > changes.before
    /\ responses[turn.request.prev].over = "websocket"
  => /\ turn.auth = responses[turn.request.prev].auth
     /\ turn.route = "websocket"

\* When the loop reads on, the client has got one answer to its message, however
\* the turn and its retries ended and whichever channel was seen first; or it has
\* got an error after a response that was complete.
EveryMessageAnswered ==
  conv.pc = "reading" /\ conv.messages > 0 =>
    client.answers \in {<<"completed">>, <<"completed", "error">>, <<"error">>, <<"cut short">>}

=============================================================================

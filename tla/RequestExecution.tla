-------------------------- MODULE RequestExecution --------------------------
(***************************************************************************)
(* One client request, from the handler that receives it to the last       *)
(* goroutine it leaves behind:                                             *)
(*   - the manager's Execute, ExecuteCount and ExecuteStream, which try    *)
(*     credentials in rounds (sdk/cockpit/auth/conductor_execute.go);      *)
(*   - the goroutine of wrapStreamResult, which passes a stream on and     *)
(*     reports how it ended;                                               *)
(*   - the goroutine of ExecuteStreamWithAuthManager, which may start the  *)
(*     stream again (sdk/api/handlers/execution.go);                       *)
(*   - the handler that writes the response, with or without a goroutine   *)
(*     that converts the chunks (openai_handlers.go, ForwardStream,        *)
(*     openai_completions_handlers.go).                                    *)
(* Which credential is best is AuthScheduler's subject: here any usable    *)
(* one may be picked. The rest of the traffic changes the cooldowns at any *)
(* time. Unbuffered channels are rendezvous; errChan has one slot.         *)
(***************************************************************************)
EXTENDS Integers, FiniteSets, FiniteSetsExt

CONSTANTS
  Auths,                (* The credentials of the model's providers.             *)
  Kinds,                (* Requests to consider: "execute", "count", "stream".   *)
  RetryOf,              (* RetryOf[a]: request-retry, or the override of a.      *)
  MaxRetryCredentials,  (* max-retry-credentials; 0: no limit.                   *)
  MaxWait,              (* max-retry-interval, in ticks; 0: no waiting.          *)
  BootstrapRetries,     (* streaming.bootstrap-retries.                          *)
  Passed,               (* Does a response have headers DownstreamHeaders keeps? *)
  Converting,           (* /v1/completions: chunks pass through a converter.     *)
  Validating,           (* openai-response: chunks that are not JSON are refused. *)
  MaxCooling,           (* Bound: the longest cooldown, in ticks.                *)
  MaxPayloads           (* Bound: payload chunks of one request.                 *)

ASSUME SettingsAssumption ==
  /\ IsFiniteSet(Auths) /\ Auths # {}
  /\ Kinds \subseteq {"execute", "count", "stream"}
  /\ RetryOf \in [Auths -> Nat]
  /\ {MaxRetryCredentials, MaxWait, BootstrapRetries} \subseteq Nat
  /\ Passed \subseteq BOOLEAN /\ {Converting, Validating} \subseteq BOOLEAN
  /\ {MaxCooling, MaxPayloads} \subseteq Nat \ {0}

VARIABLES
  cooling,   (* [Auths -> ticks until the credential can be picked again]       *)
  req,       (* The manager's loop: pc, round, tried, error, credential, wait.  *)
  calls,     (* Upstream calls made, and the credentials they were made with.   *)
  verdict,   (* Results reported to MarkResult for the latest upstream call.    *)
  wrap,      (* wrapStreamResult's goroutine.                                   *)
  fwd,       (* ExecuteStreamWithAuthManager's goroutine.                       *)
  errs,      (* Is there an error in errChan?                                   *)
  conv,      (* The converter goroutine.                                        *)
  client,    (* The HTTP handler and what it has told the client.               *)
  panicked   (* A goroutine panicked. The process ends there: later steps of   *)
             (* such a behaviour stand for nothing.                            *)

manager == <<cooling, req, calls, verdict>>
vars == <<cooling, req, calls, verdict, wrap, fwd, errs, conv, client, panicked>>

\* Errors by what the code tells apart: a 422 or an invalid_request_error; a
\* 404; a 401, 402, 403, 408, 429 or 5xx; an error that carries status 200; an
\* error without a status.
Errors == {"invalid", "missing", "throttled", "odd", "vague"}
Cooldowns(e) == CASE e = "missing"   -> 1..MaxCooling
                  [] e = "throttled" -> 0..MaxCooling     \* 0: disable_cooling
                  [] OTHER           -> {0}
\* bootstrapEligible. A stream that ended before its first payload has no status.
BootstrapEligible(e) == e \in {"throttled", "vague", "empty"}
\* shouldRetryAfterError's two refusals.
WorthWaiting(e) == e \notin {"invalid", "odd"}

NoVerdict == [ok |-> 0, bad |-> 0]
Cancelled == client.gone \/ client.pc = "over"

\* One round: executeMixedOnce from its first line.
Round(attempt) == [pc |-> "picking", attempt |-> attempt, tried |-> {}, err |-> "none",
                   auth |-> "none", wait |-> 0, passed |-> FALSE]

Init ==
  /\ cooling \in [Auths -> 0..MaxCooling]
  /\ req = [Round(0) EXCEPT !.pc = "idle"]
  /\ calls = [made |-> 0, auths |-> {}]
  /\ verdict = NoVerdict
  /\ wrap = [pc |-> "off", chunk |-> "none", source |-> "none", payloads |-> 0]
  /\ fwd = [pc |-> "off", sentPayload |-> FALSE, retries |-> 0, outcome |-> "none",
            headers |-> 0, taken |-> 0]
  /\ errs = FALSE
  /\ conv = "off"
  /\ client = [pc |-> "idle", kind |-> "none", gone |-> FALSE, told |-> "nothing",
               got |-> 0, headers |-> 0]
  /\ panicked = FALSE

-----------------------------------------------------------------------------
(* The manager's rounds. *)

LimitReached == MaxRetryCredentials > 0 /\ Cardinality(req.tried) >= MaxRetryCredentials
Pickable == {a \in Auths \ req.tried : cooling[a] = 0}

Pick ==
  /\ req.pc = "picking" /\ ~LimitReached
  /\ \E a \in Pickable :
       /\ req' = [req EXCEPT !.pc = "calling", !.auth = a, !.tried = @ \cup {a}]
       /\ calls' = [made |-> calls.made + 1, auths |-> calls.auths \cup {a}]
  /\ verdict' = NoVerdict
  /\ UNCHANGED <<cooling, wrap, fwd, errs, conv, client, panicked>>

PickFails ==
  /\ req.pc = "picking" /\ (LimitReached \/ Pickable = {})
  /\ req' = [req EXCEPT !.pc = "failed", !.err = IF @ = "none" THEN "unavailable" ELSE @]
  /\ UNCHANGED <<cooling, calls, verdict, wrap, fwd, errs, conv, client, panicked>>

\* MarkResult, as far as this module sees it.
MarkSuccess ==
  /\ verdict' = [verdict EXCEPT !.ok = @ + 1]
  /\ cooling' = [cooling EXCEPT ![req.auth] = 0]
MarkFailure(e) ==
  /\ verdict' = [verdict EXCEPT !.bad = @ + 1]
  /\ \E d \in Cooldowns(e) : cooling' = [cooling EXCEPT ![req.auth] = d]

\* The executor, or the bootstrap read, fails before anything was passed on.
CallFails ==
  /\ req.pc \in {"calling", "bootstrap"} /\ ~Cancelled
  /\ \E e \in Errors :
       /\ req.pc = "bootstrap" => e = "invalid"
       /\ IF client.kind = "count" THEN UNCHANGED <<verdict, cooling>> ELSE MarkFailure(e)
       /\ req' = [req EXCEPT !.pc = IF e = "invalid" THEN "failed" ELSE "picking", !.err = e]
  /\ UNCHANGED <<calls, wrap, fwd, errs, conv, client, panicked>>

CallCancelled ==
  /\ req.pc \in {"calling", "bootstrap"} /\ Cancelled
  /\ req' = [req EXCEPT !.pc = "failed", !.err = "cancelled"]
  /\ UNCHANGED <<cooling, calls, verdict, wrap, fwd, errs, conv, client, panicked>>

CallReturns ==
  /\ req.pc = "calling" /\ client.kind # "stream"
  /\ IF client.kind = "count" THEN UNCHANGED <<verdict, cooling>> ELSE MarkSuccess
  /\ req' = [req EXCEPT !.pc = "returned", !.err = "none"]
  /\ UNCHANGED <<calls, wrap, fwd, errs, conv, client, panicked>>

StreamOpens ==
  /\ req.pc = "calling" /\ client.kind = "stream"
  /\ \E passed \in Passed : req' = [req EXCEPT !.pc = "bootstrap", !.passed = passed]
  /\ UNCHANGED <<cooling, calls, verdict, wrap, fwd, errs, conv, client, panicked>>

\* readStreamBootstrap: a first payload; an error, left for the wrapped stream
\* to report; nothing but chunks without payload; or nothing at all.
StreamStarts(source, chunk) ==
  /\ wrap' = [pc |-> IF chunk = "none" THEN "reading" ELSE "holding", chunk |-> chunk,
              source |-> source, payloads |-> wrap.payloads + (IF chunk = "payload" THEN 1 ELSE 0)]
  /\ req' = [req EXCEPT !.pc = "returned", !.err = "none"]
  /\ UNCHANGED <<calls, fwd, errs, conv, client, panicked>>

BootstrapPayload == /\ req.pc = "bootstrap" /\ wrap.payloads < MaxPayloads
                    /\ StreamStarts("upstream", "payload")
                    /\ UNCHANGED <<cooling, verdict>>
BootstrapError == /\ req.pc = "bootstrap" /\ ~Cancelled
                  /\ \E e \in Errors \ {"invalid"} : StreamStarts(e, "none")
                  /\ UNCHANGED <<cooling, verdict>>
BootstrapBlank == /\ req.pc = "bootstrap"
                  /\ StreamStarts("closed", "none")
                  /\ UNCHANGED <<cooling, verdict>>
BootstrapEmpty == /\ req.pc = "bootstrap"
                  /\ MarkFailure("empty")
                  /\ StreamStarts("empty", "none")

\* Faulty variant: one round too many.
WaitsOnceMore(attempt) == {cooling[a] : a \in {b \in Auths : attempt <= RetryOf[b] /\ cooling[b] > 0}}
\* closestCooldownWait: it looks at every credential of the providers, the ones
\* this round did not try included.
Waits(attempt) == {cooling[a] : a \in {b \in Auths : attempt < RetryOf[b] /\ cooling[b] > 0}}
ShouldRetry == MaxWait > 0 /\ WorthWaiting(req.err) /\ Waits(req.attempt) # {}
               /\ Min(Waits(req.attempt)) <= MaxWait

WaitForCooldown ==
  /\ req.pc = "failed" /\ ShouldRetry
  /\ req' = [req EXCEPT !.pc = "waiting", !.wait = Min(Waits(req.attempt))]
  /\ UNCHANGED <<cooling, calls, verdict, wrap, fwd, errs, conv, client, panicked>>

GiveUp ==
  /\ req.pc = "failed" /\ ~ShouldRetry
  /\ req' = [req EXCEPT !.pc = "returned"]
  /\ UNCHANGED <<cooling, calls, verdict, wrap, fwd, errs, conv, client, panicked>>

NextRound ==
  /\ req.pc = "waiting" /\ req.wait = 0
  /\ req' = Round(req.attempt + 1)
  /\ UNCHANGED <<cooling, calls, verdict, wrap, fwd, errs, conv, client, panicked>>

WaitCancelled ==
  /\ req.pc = "waiting" /\ Cancelled
  /\ req' = [req EXCEPT !.pc = "returned", !.err = "cancelled"]
  /\ UNCHANGED <<cooling, calls, verdict, wrap, fwd, errs, conv, client, panicked>>

-----------------------------------------------------------------------------
(* The goroutine of wrapStreamResult. An error is reported before it is    *)
(* passed on, a success before the channel is closed. Executors send       *)
(* nothing after an error.                                                 *)

WrapPayload ==
  /\ wrap.pc = "reading" /\ wrap.source = "upstream" /\ wrap.payloads < MaxPayloads
  /\ wrap' = [wrap EXCEPT !.pc = "holding", !.chunk = "payload", !.payloads = @ + 1]
  /\ UNCHANGED <<manager, fwd, errs, conv, client, panicked>>

\* Also how a body that a cancelled request cuts off ends.
WrapError ==
  /\ wrap.pc = "reading" /\ wrap.source # "closed"
  /\ \E e \in IF wrap.source = "upstream" THEN Errors ELSE {wrap.source} :
       /\ MarkFailure(e)
       /\ wrap' = [wrap EXCEPT !.pc = "holding", !.chunk = e]
  /\ UNCHANGED <<req, calls, fwd, errs, conv, client, panicked>>

\* Faulty variant: the channel is closed and the result forgotten.
WrapEndsUnmarked ==
  /\ wrap.pc = "reading" /\ wrap.source \in {"upstream", "closed"}
  /\ wrap' = [wrap EXCEPT !.pc = "closed"]
  /\ UNCHANGED <<manager, fwd, errs, conv, client, panicked>>

WrapEnds ==
  /\ wrap.pc = "reading" /\ wrap.source \in {"upstream", "closed"}
  /\ MarkSuccess
  /\ wrap' = [wrap EXCEPT !.pc = "closed"]
  /\ UNCHANGED <<req, calls, fwd, errs, conv, client, panicked>>

\* The rest of the stream is discarded, and nothing is reported.
WrapGivesUp ==
  /\ wrap.pc = "holding" /\ Cancelled
  /\ wrap' = [wrap EXCEPT !.pc = "closed"]
  /\ UNCHANGED <<manager, fwd, errs, conv, client, panicked>>

-----------------------------------------------------------------------------
(* The goroutine of ExecuteStreamWithAuthManager. *)

\* sendErr chooses between the slot and a cancelled context.
SendErr(outcome) ==
  /\ fwd' = [fwd EXCEPT !.pc = "erred", !.outcome = outcome]
  /\ errs' \in IF Cancelled THEN BOOLEAN ELSE {TRUE}

ReadPayload ==
  /\ fwd.pc = "reading" /\ wrap.pc = "holding" /\ wrap.chunk = "payload"
  /\ wrap' = [wrap EXCEPT !.pc = "reading", !.chunk = "none"]
  /\ fwd' = [fwd EXCEPT !.pc = "sending", !.sentPayload = TRUE]
  /\ UNCHANGED <<manager, errs, conv, client, panicked>>

RefusePayload ==
  /\ Validating /\ fwd.pc = "reading" /\ wrap.pc = "holding" /\ wrap.chunk = "payload"
  /\ wrap' = [wrap EXCEPT !.pc = "reading", !.chunk = "none"]
  /\ SendErr("refused")
  /\ UNCHANGED <<manager, conv, client, panicked>>

\* Faulty variant: a stream is started again even after payload was sent.
MayRetryAlways(e) == fwd.retries < BootstrapRetries /\ BootstrapEligible(e)
MayRetry(e) == ~fwd.sentPayload /\ fwd.retries < BootstrapRetries /\ BootstrapEligible(e)

ReadError ==
  /\ fwd.pc = "reading" /\ wrap.pc = "holding" /\ wrap.chunk # "payload"
  /\ wrap' = [wrap EXCEPT !.pc = "closed"]
  /\ IF MayRetry(wrap.chunk)
     THEN /\ fwd' = [fwd EXCEPT !.pc = "retrying", !.retries = @ + 1]
          /\ req' = Round(0)
          /\ UNCHANGED errs
     ELSE SendErr("error") /\ UNCHANGED req
  /\ UNCHANGED <<cooling, calls, verdict, conv, client, panicked>>

ReadEnd ==
  /\ fwd.pc = "reading" /\ wrap.pc = "closed"
  /\ fwd' = [fwd EXCEPT !.pc = "over", !.outcome = IF Cancelled THEN "cancelled" ELSE "clean"]
  /\ UNCHANGED <<manager, wrap, errs, conv, client, panicked>>

\* upstreamHeaders, named by the call they came with; 0 is the nil map, into
\* which replaceHeader cannot write.
RetryStarted ==
  /\ fwd.pc = "retrying" /\ req.pc = "returned" /\ req.err = "none"
  /\ panicked' = (panicked \/ (req.passed /\ fwd.headers = 0))
  /\ fwd' = [fwd EXCEPT !.pc = "reading", !.headers = IF req.passed THEN calls.made ELSE @]
  /\ UNCHANGED <<manager, wrap, errs, conv, client>>

RetryFailed ==
  /\ fwd.pc = "retrying" /\ req.pc = "returned" /\ req.err # "none"
  /\ SendErr("error")
  /\ UNCHANGED <<manager, wrap, conv, client, panicked>>

\* Faulty variant: only the read looks at the context, not the send.
ForwardingCancelledReading ==
  /\ fwd.pc = "reading" /\ Cancelled
  /\ fwd' = [fwd EXCEPT !.pc = "over", !.outcome = "cancelled"]
  /\ UNCHANGED <<manager, wrap, errs, conv, client, panicked>>

ForwardingCancelled ==
  /\ fwd.pc \in {"reading", "sending"} /\ Cancelled
  /\ fwd' = [fwd EXCEPT !.pc = "over", !.outcome = "cancelled"]
  /\ UNCHANGED <<manager, wrap, errs, conv, client, panicked>>

CloseChannels ==
  /\ fwd.pc = "erred"
  /\ fwd' = [fwd EXCEPT !.pc = "over"]
  /\ UNCHANGED <<manager, wrap, errs, conv, client, panicked>>

-----------------------------------------------------------------------------
(* The HTTP handler. *)

Ask ==
  /\ client.pc = "idle"
  /\ \E k \in Kinds : client' = [client EXCEPT !.pc = "asking", !.kind = k]
  /\ req' = Round(0)
  /\ UNCHANGED <<cooling, calls, verdict, wrap, fwd, errs, conv, panicked>>

Told(what) == [client EXCEPT !.pc = "over", !.told = what]

Answered ==
  /\ client.pc = "asking" /\ req.pc = "returned" /\ (req.err = "none" => client.kind # "stream")
  /\ client' = Told(IF req.err = "none" THEN "response" ELSE "error")
  /\ UNCHANGED <<manager, wrap, fwd, errs, conv, panicked>>

StreamAnswered ==
  /\ client.pc = "asking" /\ req.pc = "returned" /\ req.err = "none" /\ client.kind = "stream"
  /\ client' = [client EXCEPT !.pc = "peeking"]
  /\ fwd' = [fwd EXCEPT !.pc = "reading", !.headers = IF req.passed THEN calls.made ELSE 0]
  /\ UNCHANGED <<manager, wrap, errs, conv, panicked>>

\* The data channel the handler reads: dataChan, or the converter's.
ChunkReady == IF conv = "off" THEN fwd.pc = "sending" ELSE conv = "holding"
DataClosed == IF conv = "off" THEN fwd.pc = "over" ELSE conv = "closed"

PeekChunk ==
  /\ client.pc = "peeking" /\ fwd.pc = "sending"
  /\ client' = [client EXCEPT !.pc = "forwarding", !.got = @ + 1, !.headers = fwd.headers]
  /\ fwd' = [fwd EXCEPT !.pc = "reading", !.taken = @ + 1]
  /\ conv' = IF Converting THEN "reading" ELSE "off"
  /\ UNCHANGED <<manager, wrap, errs, panicked>>

\* Faulty variant: after the end of the data the peek waits for an error.
PeekClosedAwaitingError ==
  /\ client.pc = "peeking" /\ fwd.pc = "over" /\ errs
  /\ client' = Told("error")
  /\ UNCHANGED <<manager, wrap, fwd, errs, conv, panicked>>

\* Data closed: the handler takes this for a stream without data.
PeekClosed ==
  /\ client.pc = "peeking" /\ fwd.pc = "over"
  /\ client' = [Told("done") EXCEPT !.headers = fwd.headers]
  /\ UNCHANGED <<manager, wrap, fwd, errs, conv, panicked>>

TakeError ==
  /\ client.pc \in {"peeking", "forwarding"} /\ errs
  /\ client' = Told("error")
  /\ errs' = FALSE
  /\ UNCHANGED <<manager, wrap, fwd, conv, panicked>>

ForwardChunk ==
  /\ client.pc = "forwarding" /\ ChunkReady
  /\ client' = [client EXCEPT !.got = @ + 1]
  /\ IF conv = "off" THEN fwd' = [fwd EXCEPT !.pc = "reading", !.taken = @ + 1] /\ UNCHANGED conv
                     ELSE conv' = "reading" /\ UNCHANGED fwd
  /\ UNCHANGED <<manager, wrap, errs, panicked>>

\* Faulty variant: the end of the data is the end of the stream.
ForwardEndUnchecked ==
  /\ client.pc = "forwarding" /\ DataClosed
  /\ client' = Told("done")
  /\ UNCHANGED <<manager, wrap, fwd, errs, conv, panicked>>

\* The end of the data, where a pending error comes first.
ForwardEnd ==
  /\ client.pc = "forwarding" /\ DataClosed
  /\ client' = Told(IF errs THEN "error" ELSE "done")
  /\ errs' = FALSE
  /\ UNCHANGED <<manager, wrap, fwd, conv, panicked>>

Disconnect ==
  /\ client.pc \notin {"idle", "over"} /\ ~client.gone
  /\ client' = [client EXCEPT !.gone = TRUE]
  /\ UNCHANGED <<manager, wrap, fwd, errs, conv, panicked>>

HandlerLeaves ==
  /\ client.pc \in {"peeking", "forwarding"} /\ client.gone
  /\ client' = [client EXCEPT !.pc = "over"]
  /\ UNCHANGED <<manager, wrap, fwd, errs, conv, panicked>>

ConvertChunk ==
  /\ conv = "reading" /\ fwd.pc = "sending"
  /\ conv' = "holding"
  /\ fwd' = [fwd EXCEPT !.pc = "reading", !.taken = @ + 1]
  /\ UNCHANGED <<manager, wrap, errs, client, panicked>>

ConverterEnds ==
  /\ \/ conv = "reading" /\ fwd.pc = "over"
     \/ conv \in {"reading", "holding"} /\ client.pc = "over"
  /\ conv' = "closed"
  /\ UNCHANGED <<manager, wrap, fwd, errs, client, panicked>>

-----------------------------------------------------------------------------
(* The environment: time, and the results of other requests. *)

Less(n) == IF n = 0 THEN 0 ELSE n - 1
Tick ==
  /\ \E a \in Auths : cooling[a] > 0
  /\ cooling' = [a \in Auths |-> Less(cooling[a])]
  /\ req' = [req EXCEPT !.wait = Less(@)]
  /\ UNCHANGED <<calls, verdict, wrap, fwd, errs, conv, client, panicked>>
TickWaiting ==
  /\ req.wait > 0 /\ \A a \in Auths : cooling[a] = 0
  /\ req' = [req EXCEPT !.wait = Less(@)]
  /\ UNCHANGED <<cooling, calls, verdict, wrap, fwd, errs, conv, client, panicked>>

OtherTraffic ==
  /\ \E a \in Auths, d \in 0..MaxCooling : cooling' = [cooling EXCEPT ![a] = d]
  /\ UNCHANGED <<req, calls, verdict, wrap, fwd, errs, conv, client, panicked>>

-----------------------------------------------------------------------------
Upstream == CallFails \/ CallReturns \/ StreamOpens \/ BootstrapPayload \/ BootstrapError
            \/ BootstrapBlank \/ BootstrapEmpty \/ WrapPayload \/ WrapError \/ WrapEnds
ManagerStep == Pick \/ PickFails \/ CallCancelled \/ WaitForCooldown \/ GiveUp
               \/ NextRound \/ WaitCancelled
StreamStep == WrapGivesUp \/ ReadPayload \/ RefusePayload \/ ReadError \/ ReadEnd
              \/ RetryStarted \/ RetryFailed \/ ForwardingCancelled \/ CloseChannels
HandlerStep == Answered \/ StreamAnswered \/ PeekChunk \/ PeekClosed \/ TakeError \/ ForwardChunk
               \/ ForwardEnd \/ HandlerLeaves \/ ConvertChunk \/ ConverterEnds
Time == Tick \/ TickWaiting

Next == Upstream \/ ManagerStep \/ StreamStep \/ HandlerStep
        \/ Time \/ Ask \/ Disconnect \/ OtherTraffic

\* A body that was cut off ends: net/http closes it when its context is done.
CutOff == Cancelled /\ (WrapError \/ WrapEnds)

\* Runnable goroutines run. Nothing is assumed of the upstream or of the clock.
Spec == Init /\ [][Next]_vars
        /\ WF_vars(ManagerStep) /\ WF_vars(StreamStep) /\ WF_vars(HandlerStep) /\ WF_vars(CutOff)

\* An upstream that answers and a clock that advances.
Answering == WF_vars(Upstream) /\ WF_vars(Time)

-----------------------------------------------------------------------------
(* Properties. *)

MaxRetry == Max({RetryOf[a] : a \in Auths})
RoundLimit == IF MaxRetryCredentials = 0 THEN Cardinality(Auths)
              ELSE Min({Cardinality(Auths), MaxRetryCredentials})

TypeOK ==
  /\ cooling \in [Auths -> 0..MaxCooling]
  /\ req.pc \in {"idle", "picking", "calling", "bootstrap", "failed", "waiting", "returned"}
  /\ req.attempt \in Nat /\ req.tried \subseteq Auths /\ req.wait \in 0..MaxWait
  /\ req.err \in Errors \cup {"none", "unavailable", "cancelled"}
  /\ calls.made \in Nat /\ calls.auths \subseteq Auths
  /\ {verdict.ok, verdict.bad} \subseteq 0..2
  /\ wrap.pc \in {"off", "reading", "holding", "closed"} /\ wrap.payloads \in 0..MaxPayloads
  /\ fwd.pc \in {"off", "reading", "retrying", "sending", "erred", "over"}
  /\ fwd.retries \in 0..BootstrapRetries
  /\ conv \in {"off", "reading", "holding", "closed"}
  /\ client.pc \in {"idle", "asking", "peeking", "forwarding", "over"}
  /\ client.told \in {"nothing", "response", "done", "error"}
  /\ {errs, panicked} \subseteq BOOLEAN

\* The types hold, and however the rounds, the waits and the stream's own retries
\* combine, a request makes at most this many upstream calls (retry bounds of
\* Execute, of executeMixedOnce and of ExecuteStreamWithAuthManager).
CallsBounded == TypeOK /\ calls.made <= (1 + MaxRetry) * RoundLimit * (1 + BootstrapRetries)

\* What MarkResult learns of a call agrees with how it ended: when a stream ends
\* cleanly its credential has one success and no failure, when the stream's
\* error is passed on it has no success, and a request that moves on to another
\* credential has reported the one it leaves (wrapStreamResult, executeMixedOnce).
VerdictMatchesEnd ==
  /\ fwd.outcome = "clean" => verdict = [ok |-> 1, bad |-> 0]
  /\ fwd.outcome = "error" => verdict.ok = 0
  /\ verdict.ok > 0 => verdict = [ok |-> 1, bad |-> 0]
  /\ req.pc = "picking" /\ req.tried # {} /\ client.kind # "count" => verdict.bad > 0

\* Once the client has bytes of a stream, no other upstream call is made for it
\* (the sentPayload guard, TestExecuteStreamWithAuthManager_DoesNotRetryAfterFirstByte).
NoCallAfterPayload == [][client.got > 0 => calls'.made = calls.made]_vars

\* A stream that failed after its first chunk is never closed as if it were
\* complete: ForwardStream looks for a pending error before it writes the end.
LateErrorsTold ==
  client.told = "done" /\ client.got > 0 /\ ~client.gone => fwd.outcome \notin {"error", "refused"}

\* When the client is gone, every goroutine of the request ends, whether or not
\* the upstream ever answers (the ctx.Done branches).
Quiet == /\ client.pc = "over" /\ req.pc = "returned" /\ wrap.pc \in {"off", "closed"}
         /\ fwd.pc \in {"off", "over"} /\ conv \in {"off", "closed"}
DisconnectStopsAll == client.gone ~> Quiet

\* With an upstream that answers, every request comes to an end: no combination
\* of retries and cooldowns goes on for ever.
RequestEnds == Answering => (client.pc = "asking") ~> Quiet

\* What the repository says, and the code does not do.

\* "Peek at the first chunk to determine success or failure before setting
\* headers" (openai_handlers.go): a failed stream is not answered as a success.
EarlyErrorsTold == client.told = "done" /\ ~client.gone => fwd.outcome \notin {"error", "refused"}

\* "then converts each response chunk back to completions format before sending
\* to client" (openai_completions_handlers.go): no chunk the handler took is
\* missing when the client is told how the stream ended.
EveryChunkForwarded == client.told \in {"done", "error"} /\ ~client.gone => client.got = fwd.taken

\* "MaxRetryCredentials defines the maximum number of credentials to try for a
\* failed request" (config.go).
CredentialsCapped == MaxRetryCredentials > 0 => Cardinality(calls.auths) <= MaxRetryCredentials

\* A stream that fails before its first byte is tried again
\* (TestExecuteStreamWithAuthManager_RetriesBeforeFirstByte).
RetryDoesNotPanic == ~panicked

\* "expected upstream header from retry attempt"
\* (TestExecuteStreamWithAuthManager_RetriesBeforeFirstByte): the headers the
\* client gets never belong to an attempt that failed.
HeadersOfServingCall == client.got > 0 => client.headers \in {0, calls.made}

=============================================================================

------------------------------- MODULE WsRelay -------------------------------
(***************************************************************************)
(* The websocket relay (internal/wsrelay): the sessions of one provider,   *)
(* which replace each other in the manager's table, and the requests that  *)
(* are multiplexed over them. The pending map (a sync.Map), closeOnce and  *)
(* the channels are shared by four kinds of goroutines: the read loop      *)
(* (run, dispatch), whoever cleans a session up (the read loop, the        *)
(* heartbeat, a new connection, Stop), the callers (request, NonStream,    *)
(* Stream) and the watcher each request leaves behind. One step is one     *)
(* operation on shared state.                                              *)
(***************************************************************************)
EXTENDS Integers, Sequences, FiniteSets

CONSTANTS
  Sessions,   (* Connections of the provider, each used once.                *)
  Requests,   (* Requests, by message id.                                    *)
  Kinds,      (* "nonstream", "stream".                                      *)
  Buffer,     (* Slots of a request's channel (8 in the code).               *)
  MaxChunks,  (* Bound: chunks of one response.                              *)
  None

ASSUME RelayAssumption ==
  /\ IsFiniteSet(Sessions) /\ IsFiniteSet(Requests)
  /\ Kinds \subseteq {"nonstream", "stream"}
  /\ Buffer \in Nat \ {0} /\ MaxChunks \in Nat
  /\ None \notin Sessions \cup Requests

VARIABLES
  table,     (* m.sessions[provider]: a session or None.                     *)
  latest,    (* The session that connected last (history).                   *)
  stopped,   (* Stop has run.                                                *)
  sess,      (* [Sessions -> stage of the connection, of its cleanup, ...]   *)
  pending,   (* [Sessions -> requests in s.pending]                          *)
  disp,      (* [Sessions -> the message dispatch works on]                  *)
  chan,      (* [Requests -> the request's channel: queue, closed]           *)
  call,      (* [Requests -> the caller]                                     *)
  peer,      (* [Requests -> what the other side has answered]               *)
  panicked   (* A goroutine panicked. The process ends there.                *)

relayVars == <<table, latest, stopped, sess, pending, disp, chan, call, peer, panicked>>

Terminal == {"response", "end", "error"}
Idle == [pc |-> "reading", req |-> None, type |-> "none"]

RelayInit ==
  /\ table = None /\ latest = None /\ stopped = FALSE /\ panicked = FALSE
  /\ sess = [s \in Sessions |-> [stage |-> "new", replaces |-> None, cleanup |-> "no", left |-> {},
                             visiting |-> None]]
  /\ pending = [s \in Sessions |-> {}]
  /\ disp = [s \in Sessions |-> Idle]
  /\ chan = [r \in Requests |-> [queue |-> <<>>, closed |-> FALSE]]
  /\ call = [r \in Requests |-> [pc |-> "idle", kind |-> "none", sess |-> None, watched |-> FALSE,
                                 cancelled |-> FALSE, streaming |-> FALSE, got |-> 0, outcome |-> "none"]]
  /\ peer = [r \in Requests |-> [pc |-> "silent", chunks |-> 0]]

-----------------------------------------------------------------------------
(* Connections. *)

\* handleWebsocket, under sessMutex.
Connect(s) ==
  /\ sess[s].stage = "new"
  /\ sess' = [sess EXCEPT ![s] = [@ EXCEPT !.stage = "replacing", !.replaces = table]]
  /\ table' = s /\ latest' = s
  /\ UNCHANGED <<stopped, pending, disp, chan, call, peer, panicked>>

\* cleanup begins: closeOnce lets one caller in, which closes s.closed.
BeginCleanup(t) ==
  IF sess[t].cleanup = "no"
  THEN sess' = [sess EXCEPT ![t] = [@ EXCEPT !.cleanup = "ranging", !.left = pending[t]]]
  ELSE UNCHANGED sess

\* The replaced session is cleaned up before the new one runs.
Replace(s) ==
  LET t == sess[s].replaces
  IN  /\ sess[s].stage = "replacing" /\ t # None /\ sess[t].cleanup = "no"
      /\ BeginCleanup(t)
      /\ UNCHANGED <<table, latest, stopped, pending, disp, chan, call, peer, panicked>>

\* closeOnce.Do returns when the cleanup is over, whoever does it.
Run(s) ==
  LET t == sess[s].replaces
  IN  /\ sess[s].stage = "replacing" /\ (t # None => sess[t].cleanup = "done")
      /\ sess' = [sess EXCEPT ![s].stage = "running"]
      /\ UNCHANGED <<table, latest, stopped, pending, disp, chan, call, peer, panicked>>

\* A read error or a failed ping.
Lose(s) ==
  /\ sess[s].stage = "running" /\ sess[s].cleanup = "no"
  /\ BeginCleanup(s)
  /\ UNCHANGED <<table, latest, stopped, pending, disp, chan, call, peer, panicked>>

\* Stop: the table is replaced, then its sessions are cleaned up.
Stop ==
  /\ ~stopped
  /\ stopped' = TRUE /\ table' = None
  /\ IF table = None THEN UNCHANGED sess ELSE BeginCleanup(table)
  /\ UNCHANGED <<latest, pending, disp, chan, call, peer, panicked>>

\* select with default: a full channel drops the message.
Offer(c, m) == IF Len(c.queue) < Buffer THEN [c EXCEPT !.queue = Append(@, m)] ELSE c

\* pending.Range: each entry still there is failed, with an error if it fits,
\* and its channel is closed. The entry may be taken and closed in between.
Visit(s, r) ==
  /\ sess[s].cleanup = "ranging" /\ sess[s].visiting = None /\ r \in sess[s].left
  /\ sess' = [sess EXCEPT ![s] = [sess[s] EXCEPT !.left = @ \ {r},
                                             !.visiting = IF r \in pending[s] THEN r ELSE None]]
  /\ UNCHANGED <<table, latest, stopped, pending, disp, chan, call, peer, panicked>>

FailVisited(s) ==
  LET r == sess[s].visiting
  IN  /\ r # None
      /\ panicked' = (panicked \/ chan[r].closed)
      /\ chan' = [chan EXCEPT ![r] = IF @.closed THEN @ ELSE [Offer(@, "error") EXCEPT !.closed = TRUE]]
      /\ sess' = [sess EXCEPT ![s].visiting = None]
      /\ UNCHANGED <<table, latest, stopped, pending, disp, call, peer>>

ResetPending(s) ==
  /\ sess[s].cleanup = "ranging" /\ sess[s].left = {} /\ sess[s].visiting = None
  /\ sess' = [sess EXCEPT ![s].cleanup = "reset"]
  /\ pending' = [pending EXCEPT ![s] = {}]
  /\ UNCHANGED <<table, latest, stopped, disp, chan, call, peer, panicked>>

\* Faulty variant: the table entry of the provider goes, whoever it is.
SessionClosedUnchecked(s) ==
  /\ sess[s].cleanup = "reset"
  /\ sess' = [sess EXCEPT ![s].cleanup = "done"]
  /\ table' = None
  /\ UNCHANGED <<latest, stopped, pending, disp, chan, call, peer, panicked>>

\* conn.Close and handleSessionClosed.
SessionClosed(s) ==
  /\ sess[s].cleanup = "reset"
  /\ sess' = [sess EXCEPT ![s].cleanup = "done"]
  /\ table' = IF table = s THEN None ELSE table
  /\ UNCHANGED <<latest, stopped, pending, disp, chan, call, peer, panicked>>

-----------------------------------------------------------------------------
(* The read loop. The connection is readable until conn.Close. *)

RelayAnswers(r) ==
  LET p == peer[r]
  IN  CASE p.pc = "asked"     -> {[pc |-> "streaming", chunks |-> 0, type |-> "start"],
                                  [pc |-> "answered", chunks |-> 0, type |-> "response"],
                                  [pc |-> "answered", chunks |-> 0, type |-> "error"]}
        [] p.pc = "streaming" -> {[pc |-> "answered", chunks |-> p.chunks, type |-> t] : t \in {"end", "error"}}
                                 \cup {[pc |-> "streaming", chunks |-> n, type |-> "chunk"] :
                                         n \in {p.chunks + 1} \cap 1..MaxChunks}
        [] OTHER              -> {}

ReadMessage(s) ==
  /\ sess[s].stage = "running" /\ sess[s].cleanup \in {"no", "ranging", "reset"}
  /\ disp[s].pc = "reading"
  /\ \E r \in {q \in Requests : call[q].sess = s} : \E a \in RelayAnswers(r) :
       /\ peer' = [peer EXCEPT ![r] = [pc |-> a.pc, chunks |-> a.chunks]]
       /\ disp' = [disp EXCEPT ![s] =
                     IF r \in pending[s] THEN [pc |-> "loaded", req |-> r, type |-> a.type] ELSE Idle]
  /\ UNCHANGED <<table, latest, stopped, sess, pending, chan, call, panicked>>

\* A send on a channel that was closed meanwhile panics, select or not.
Deliver(s) ==
  LET r == disp[s].req
  IN  /\ disp[s].pc = "loaded"
      /\ panicked' = (panicked \/ chan[r].closed)
      /\ chan' = [chan EXCEPT ![r] = IF @.closed THEN @ ELSE Offer(@, disp[s].type)]
      /\ disp' = [disp EXCEPT ![s] = IF @.type \in Terminal THEN [@ EXCEPT !.pc = "settling"] ELSE Idle]
      /\ UNCHANGED <<table, latest, stopped, sess, pending, call, peer>>

\* LoadAndDelete, and close when it was still there.
Forget(s, r) ==
  /\ pending' = [pending EXCEPT ![s] = @ \ {r}]
  /\ chan' = IF r \in pending[s] THEN [chan EXCEPT ![r].closed = TRUE] ELSE chan

\* Faulty variant: the channel is closed only when the message fitted.
SettleDelivered(s) ==
  LET r == disp[s].req
  IN  /\ disp[s].pc = "settling"
      /\ IF Len(chan[r].queue) < Buffer THEN Forget(s, r) ELSE UNCHANGED <<pending, chan>>
      /\ disp' = [disp EXCEPT ![s] = Idle]
      /\ UNCHANGED <<table, latest, stopped, sess, call, peer, panicked>>

Settle(s) ==
  /\ disp[s].pc = "settling"
  /\ Forget(s, disp[s].req)
  /\ disp' = [disp EXCEPT ![s] = Idle]
  /\ UNCHANGED <<table, latest, stopped, sess, call, peer, panicked>>

-----------------------------------------------------------------------------
(* Callers. *)

Ended(r, outcome) == [call EXCEPT ![r] = [@ EXCEPT !.pc = "ended", !.outcome = outcome]]

Send(r) ==
  /\ call[r].pc = "idle"
  /\ \E k \in Kinds :
       call' = IF table = None THEN Ended(r, "failed")
               ELSE [call EXCEPT ![r] = [@ EXCEPT !.pc = "storing", !.sess = table, !.kind = k]]
  /\ UNCHANGED <<table, latest, stopped, sess, pending, disp, chan, peer, panicked>>

\* LoadOrStore; a Range that is under way may or may not come by it.
Store(r) ==
  LET s == call[r].sess
  IN  /\ call[r].pc = "storing"
      /\ call' = [call EXCEPT ![r].pc = "loading"]
      /\ pending' = [pending EXCEPT ![s] = @ \cup {r}]
      /\ \E visited \in BOOLEAN :
           sess' = IF visited /\ sess[s].cleanup = "ranging" THEN [sess EXCEPT ![s].left = @ \cup {r}] ELSE sess
      /\ UNCHANGED <<table, latest, stopped, disp, chan, peer, panicked>>

\* Load: gone if the map was replaced in between; the type assertion panics.
Load(r) ==
  /\ call[r].pc = "loading"
  /\ panicked' = (panicked \/ r \notin pending[call[r].sess])
  /\ call' = [call EXCEPT ![r].pc = "sending"]
  /\ UNCHANGED <<table, latest, stopped, sess, pending, disp, chan, peer>>

\* send: s.closed first; the write may fail on its own.
Write(r) ==
  LET s == call[r].sess
  IN  /\ call[r].pc = "sending"
      /\ \/ /\ sess[s].cleanup = "no"
            /\ call' = [call EXCEPT ![r] = [@ EXCEPT !.pc = "waiting", !.watched = TRUE]]
            /\ peer' = [peer EXCEPT ![r].pc = "asked"]
            /\ UNCHANGED <<pending, chan>>
         \/ /\ call' = Ended(r, "failed")
            /\ Forget(s, r)
            /\ UNCHANGED peer
      /\ UNCHANGED <<table, latest, stopped, sess, disp, panicked>>

\* One message of the channel, in NonStream and in Stream.
Take(r) ==
  LET m == Head(chan[r].queue)
  IN  /\ call[r].pc = "waiting" /\ chan[r].queue # <<>>
      /\ chan' = [chan EXCEPT ![r].queue = Tail(@)]
      /\ call' = CASE m = "start" -> [call EXCEPT ![r] = [@ EXCEPT !.streaming = TRUE, !.got = 0]]
                   [] m = "chunk" -> [call EXCEPT ![r] = [call[r] EXCEPT !.streaming = TRUE, !.got = @ + 1]]
                   [] m = "error" -> Ended(r, "failed")
                   [] OTHER       -> Ended(r, "answered")
      /\ UNCHANGED <<table, latest, stopped, sess, pending, disp, peer, panicked>>

\* The channel is closed: NonStream takes what it has for the whole body.
TakeClosure(r) ==
  /\ call[r].pc = "waiting" /\ chan[r].queue = <<>> /\ chan[r].closed
  /\ call' = Ended(r, IF call[r].kind = "nonstream" /\ call[r].streaming THEN "answered" ELSE "failed")
  /\ UNCHANGED <<table, latest, stopped, sess, pending, disp, chan, peer, panicked>>

Cancel(r) ==
  /\ call[r].pc # "idle" /\ ~call[r].cancelled
  /\ call' = [call EXCEPT ![r].cancelled = TRUE]
  /\ UNCHANGED <<table, latest, stopped, sess, pending, disp, chan, peer, panicked>>

ReturnCancelled(r) ==
  /\ call[r].pc = "waiting" /\ call[r].cancelled
  /\ call' = Ended(r, "cancelled")
  /\ UNCHANGED <<table, latest, stopped, sess, pending, disp, chan, peer, panicked>>

\* The goroutine request leaves behind.
Watch(r) ==
  LET s == call[r].sess
  IN  /\ call[r].watched
      /\ call' = [call EXCEPT ![r].watched = FALSE]
      /\ \/ call[r].cancelled /\ Forget(s, r)
         \/ sess[s].cleanup # "no" /\ UNCHANGED <<pending, chan>>
      /\ UNCHANGED <<table, latest, stopped, sess, disp, peer, panicked>>

-----------------------------------------------------------------------------
SessionStep(s) == \/ Replace(s) \/ Run(s) \/ FailVisited(s) \/ ResetPending(s) \/ SessionClosed(s)
                  \/ \E r \in Requests : Visit(s, r)
DispatchStep(s) == Deliver(s) \/ Settle(s)
CallStep(r) == Store(r) \/ Load(r) \/ Write(r) \/ Take(r) \/ TakeClosure(r) \/ ReturnCancelled(r)

RelayNext == \/ \E s \in Sessions : Connect(s) \/ Lose(s) \/ ReadMessage(s) \/ SessionStep(s) \/ DispatchStep(s)
             \/ \E r \in Requests : Send(r) \/ CallStep(r) \/ Cancel(r) \/ Watch(r)
             \/ Stop

\* Runnable goroutines run; the other side owes nothing.
RelaySpec == RelayInit /\ [][RelayNext]_relayVars
             /\ \A s \in Sessions : WF_relayVars(SessionStep(s)) /\ WF_relayVars(DispatchStep(s))
             /\ \A r \in Requests : WF_relayVars(CallStep(r)) /\ WF_relayVars(Watch(r))

-----------------------------------------------------------------------------
(* Properties. *)

TypeOK ==
  /\ table \in Sessions \cup {None} /\ latest \in Sessions \cup {None}
  /\ pending \in [Sessions -> SUBSET Requests]
  /\ \A s \in Sessions : /\ sess[s].stage \in {"new", "replacing", "running"}
                         /\ sess[s].cleanup \in {"no", "ranging", "reset", "done"}
                         /\ disp[s].pc \in {"reading", "loaded", "settling"}
  /\ \A r \in Requests : /\ Len(chan[r].queue) <= Buffer
                         /\ call[r].pc \in {"idle", "storing", "loading", "sending", "waiting", "ended"}
                         /\ call[r].outcome \in {"none", "answered", "failed", "cancelled"}
                         /\ peer[r].chunks \in 0..MaxChunks

\* The types hold, and the session that connected last can be reached through the table as long as
\* it is up, whatever the clean-ups of the sessions it replaced do
\* (handleWebsocket, handleSessionClosed).
LatestReachable ==
  TypeOK /\ (latest # None /\ sess[latest].cleanup = "no" => table = latest)

\* A request comes to an end, and leaves nothing in the pending map, once its
\* caller has cancelled it, its session is being cleaned up, or the other side
\* has answered: also when the answer, or the error, did not fit its channel.
Over(r) == \E s \in Sessions :
  call[r].sess = s /\ (call[r].cancelled \/ sess[s].cleanup # "no" \/ peer[r].pc = "answered")
RequestsEnd ==
  \A r \in Requests : Over(r) ~> (call[r].pc = "ended" /\ \A s \in Sessions : r \notin pending[s])

\* What the repository says, and the code does not do.

\* "HTTPResponse captures the response relayed back from websocket clients"
\* (http.go): what NonStream returns without an error has all the chunks.
ResponsesComplete ==
  \A r \in Requests : call[r].kind = "nonstream" /\ call[r].outcome = "answered" /\ ~call[r].cancelled
                        => peer[r].pc = "answered" /\ call[r].got = peer[r].chunks

\* "Stop gracefully closes all active websocket sessions" (manager.go).
CloseDoesNotPanic == ~panicked

=============================================================================

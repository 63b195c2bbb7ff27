--------------------------- MODULE UpdateDispatch ----------------------------
(***************************************************************************)
(* The watcher's dispatcher (internal/watcher/dispatcher.go) and the queue *)
(* of the service (sdk/cockpit/service_runtime.go): the updates of reloads *)
(* are merged by credential under dispatchMu, taken in batches by          *)
(* dispatchLoop, sent one by one into a bounded channel and applied to the *)
(* credential manager, until the service shuts down.                       *)
(***************************************************************************)
EXTENDS WatcherReload

CONSTANTS
  QueueSize    (* Capacity of the channel (256 in the code).                 *)

ASSUME DispatchAssumption == QueueSize \in Nat \ {0}

VARIABLES
  pending,   (* [Ids -> update or NoUpdate]: w.pendingUpdates                *)
  loop,      (* dispatchLoop: whether it runs, the rest of its batch         *)
  queue,     (* The service's channel of updates.                            *)
  consuming  (* consumeAuthUpdates runs.                                     *)

feedVars == <<pending, loop, queue, manager, consuming>>
vars == <<reloadVars, feedVars>>

\* The manager has loaded the store, Start is about to make its first reload.
Init ==
  /\ stored \in [Ids -> Content] /\ manager = stored
  /\ current = [i \in Ids |-> Absent]
  /\ reload = [r \in Reloaders |-> [Idle EXCEPT !.pc = IF r = "start" THEN "loaded" ELSE "idle"]]
  /\ pending = Nothing /\ loop = [runs |-> TRUE, batch |-> Nothing] /\ queue = <<>>
  /\ stage = "running" /\ consuming = TRUE
  /\ stale = {} /\ unknown = {i \in Ids : manager[i] # Absent}

-----------------------------------------------------------------------------
(* Handing over. *)

Merged(updates) ==
  [i \in Ids |-> IF updates[i] = NoUpdate THEN pending[i] ELSE updates[i]]

\* dispatchAuthUpdates: merged into the pending map, under dispatchMu.
Dispatch(r) ==
  /\ HandOver(r)
  /\ pending' = IF HasQueue THEN Merged(reload[r].updates) ELSE pending
  /\ UNCHANGED <<loop, queue, manager, consuming>>

-----------------------------------------------------------------------------
(* The loop, the channel and the consumer. *)

\* nextPendingBatch.
TakeBatch ==
  /\ loop.runs /\ loop.batch = Nothing /\ pending # Nothing
  /\ loop' = [loop EXCEPT !.batch = pending]
  /\ pending' = Nothing
  /\ UNCHANGED <<reloadVars, queue, manager, consuming>>

\* Faulty variant: nothing is sent while more updates come in.
SendWhenCalm(i) ==
  /\ loop.runs /\ loop.batch[i] # NoUpdate /\ Len(queue) < QueueSize /\ pending = Nothing
  /\ queue' = Append(queue, [id |-> i, content |-> loop.batch[i]])
  /\ loop' = [loop EXCEPT !.batch[i] = NoUpdate]
  /\ UNCHANGED <<reloadVars, pending, manager, consuming>>

\* The order within a batch is that of maps, so any.
Send(i) ==
  /\ loop.runs /\ loop.batch[i] # NoUpdate /\ Len(queue) < QueueSize
  /\ queue' = Append(queue, [id |-> i, content |-> loop.batch[i]])
  /\ loop' = [loop EXCEPT !.batch[i] = NoUpdate]
  /\ UNCHANGED <<reloadVars, pending, manager, consuming>>

\* Faulty variant: a send that waits for room does not see the cancellation.
EndLoopWaiting ==
  /\ loop.runs /\ stage # "running" /\ loop.batch = Nothing /\ pending = Nothing
  /\ loop' = [runs |-> FALSE, batch |-> Nothing]
  /\ UNCHANGED <<reloadVars, pending, queue, manager, consuming>>

\* The loop returns when it is cancelled and waits for a batch or for room.
EndLoop ==
  /\ loop.runs /\ stage # "running" /\ (loop.batch = Nothing => pending = Nothing)
  /\ loop' = [runs |-> FALSE, batch |-> Nothing]
  /\ UNCHANGED <<reloadVars, pending, queue, manager, consuming>>

\* consumeAuthUpdates and handleAuthUpdate: register, update or remove.
Apply ==
  /\ consuming /\ queue # <<>>
  /\ manager' = [manager EXCEPT ![Head(queue).id] = Head(queue).content]
  /\ queue' = Tail(queue)
  /\ UNCHANGED <<reloadVars, pending, loop, consuming>>

EndConsumer ==
  /\ consuming /\ stage = "stopped"
  /\ consuming' = FALSE
  /\ UNCHANGED <<reloadVars, pending, loop, queue, manager>>

-----------------------------------------------------------------------------
(* Shutdown: Watcher.Stop (stopDispatch), then the consumer's context. *)

CancelDispatch ==
  /\ stage = "running"
  /\ stage' = "cancelled" /\ pending' = Nothing
  /\ UNCHANGED <<stored, current, reload, loop, queue, manager, consuming, histories>>

CloseQueue ==
  /\ stage = "cancelled"
  /\ stage' = "closed"
  /\ UNCHANGED <<stored, current, reload, pending, loop, queue, manager, consuming, histories>>

StopConsumer ==
  /\ stage = "closed"
  /\ stage' = "stopped"
  /\ UNCHANGED <<stored, current, reload, pending, loop, queue, manager, consuming, histories>>

-----------------------------------------------------------------------------
Deliver == TakeBatch \/ EndLoop \/ Apply \/ EndConsumer \/ \E i \in Ids : Send(i)
Stop == CancelDispatch \/ CloseQueue \/ StopConsumer
Reload(r) == (Compare(r) /\ UNCHANGED feedVars) \/ Dispatch(r)

Next ==
  \/ (\E auths \in [Ids -> Content] : StoreChanged(auths)) /\ UNCHANGED feedVars
  \/ (\E force \in BOOLEAN : ConfigChanged(force)) /\ UNCHANGED feedVars
  \/ \E r \in Reloaders : Reload(r)
  \/ Deliver \/ Stop

\* Goroutines that can go on do; a shutdown that began goes on.
Fairness ==
  /\ \A r \in Reloaders : WF_vars(Reload(r))
  /\ WF_vars(TakeBatch) /\ WF_vars(\E i \in Ids : Send(i)) /\ WF_vars(EndLoop)
  /\ WF_vars(Apply) /\ WF_vars(EndConsumer)
  /\ WF_vars(CloseQueue) /\ WF_vars(StopConsumer)

Spec == Init /\ [][Next]_vars /\ Fairness

-----------------------------------------------------------------------------
(* Properties. *)

\* The types of the variables.
TypeOK ==
  /\ ReloadTypeOK /\ manager \in [Ids -> Content]
  /\ pending \in Updates /\ loop \in [runs : BOOLEAN, batch : Updates]
  /\ queue \in Seq([id : Ids, content : Content]) /\ Len(queue) <= QueueSize
  /\ consuming \in BOOLEAN

\* The contents of a credential in a sequence of updates, in their order.
SentIn(updates, i) ==
  LET upTo[n \in 0..Len(updates)] ==
        IF n = 0 THEN <<>>
        ELSE IF updates[n].id = i THEN Append(upTo[n - 1], updates[n].content)
        ELSE upTo[n - 1]
  IN  upTo[Len(updates)]

\* Updates of a credential that have not been applied, oldest first.
Waiting(i) ==
  LET one(u) == IF u = NoUpdate THEN <<>> ELSE <<u>>
  IN  SentIn(queue, i) \o one(loop.batch[i]) \o one(pending[i])

Feed == INSTANCE UpdateFeed WITH due <- [i \in Ids |-> Waiting(i)], open <- stage = "running"

\* The dispatcher implements the feed: merging, batches and the bounded channel
\* never put an older update of a credential behind a newer one, lose one while
\* the service runs, or leave one unapplied for ever.
ImplementsFeed == Feed!Spec

\* No reload has updates that it has not handed over, and none is on its way.
Delivered ==
  /\ stage = "running" /\ pending = Nothing /\ loop.batch = Nothing /\ queue = <<>>
  /\ \A r \in Reloaders : reload[r].pc # "compared"

\* The types hold, and when everything has been delivered the manager holds what the last reload
\* compared with, except for a credential whose last update was overtaken by
\* that of a later reload (between the two locks of refreshAuthState), and for
\* one the watcher never had in a comparison, whose removal it cannot see.
SettlesOnCurrent ==
  /\ TypeOK
  /\ Delivered => \A i \in Ids \ (stale \cup unknown) : manager[i] = current[i]

\* After Stop the loop and the consumer end, whatever they wait for.
StopEnds == stage # "running" ~> ~loop.runs /\ ~consuming
==============================================================================

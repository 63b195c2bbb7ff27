---------------------------- MODULE AuthConductor ----------------------------
(***************************************************************************)
(* One credential between the goroutines that change it: the service loop  *)
(* (sdk/cockpit: service_runtime.go, service_models.go), requests that     *)
(* report results, the automatic refresh, the rebuild after a failed pick  *)
(* and the callback of a new model catalog (sdk/cockpit/auth: conductor*.go).*)
(*                                                                         *)
(* Every step is what its goroutine does under one lock: the manager's,    *)
(* the scheduler's or the registry's. Between two steps anything may run.  *)
(* The clock is read before a lock is asked for, so that an instant may be *)
(* past when it is used. An *Auth is an object: Register and Update clone  *)
(* what they are given and put that one clone into Manager.auths and into  *)
(* the scheduler; every other path takes a clone of its own.               *)
(***************************************************************************)
EXTENDS Integers, Sequences, FiniteSets

CONSTANTS
  Requests,      (* Requests that end with a result for this credential.     *)
  Refreshers,    (* Goroutines of refreshAuthWithLimit.                      *)
  Checkers,      (* Loops of checkRefreshes: a restarted one may overlap.    *)
  Background,    (* Among "rebuild" and "catalog": what else may run.          *)
  Pending,       (* refreshPendingBackoff (1 minute), in ticks.              *)
  FailureBackoff,(* refreshFailureBackoff (5 minutes), in ticks.             *)
  MaxOrders,     (* Bound: updates and removals the service is given.        *)
  MaxStores,     (* Bound: objects stored in Manager.auths.                  *)
  MaxMarks,      (* Bound: results reported.                                 *)
  MaxNow         (* Bound: the last instant of the clock.                    *)

ASSUME ConductorAssumption ==
  /\ IsFiniteSet(Requests) /\ IsFiniteSet(Refreshers) /\ IsFiniteSet(Checkers)
  /\ {Pending, FailureBackoff} \subseteq Nat \ {0}
  /\ {MaxOrders, MaxStores, MaxMarks} \subseteq Nat /\ MaxNow \in Nat \ {0}

VARIABLES
  heap,      (* the objects stored so far, in order                          *)
  mgr,       (* Manager.auths[id]: the index of its object, 0 if absent      *)
  sched,     (* the scheduler's meta of id: nothing, an object or a copy     *)
  offered,   (* the registry has a client for id                             *)
  svc,       (* the service loop                                             *)
  order,     (* the last thing the service was told: its number and kind     *)
  raced,     (* what ran at some time during that order                      *)
  results,   (* the requests                                                 *)
  checks,    (* the checking loops: where each is, and the instant it goes by *)
  refreshes, (* the refreshing goroutines, with the instant each goes by: the *)
             (* one it was found due at or, when it failed, that of its end  *)
  rebuild,   (* pickNextMixed between its snapshot and its rebuild           *)
  catalog,   (* the callback of a new model catalog                          *)
  now        (* the clock                                                    *)

data  == <<heap, mgr, sched, offered>>
procs == <<svc, results, checks, refreshes, rebuild, catalog>>
vars  == <<data, procs, order, raced, now>>

\* The parts of an Auth that matter here: the version of the service's update it
\* comes from, Disabled, the results in its ModelStates, NextRefreshAfter.
Auth == [version : Nat, disabled : BOOLEAN, marks : Nat, refreshAfter : Nat]
Nil  == [version |-> 0, disabled |-> FALSE, marks |-> 0, refreshAfter |-> 0]

-----------------------------------------------------------------------------
(* The scheduler: upsertAuth of an object or of a copy, removeAuth.        *)

Out == [in |-> FALSE, obj |-> 0, copy |-> Nil]
UpsertObject(o) ==
  IF heap[o].disabled THEN Out ELSE [in |-> TRUE, obj |-> o, copy |-> Nil]
UpsertCopy(a) ==
  IF a.disabled THEN Out ELSE [in |-> TRUE, obj |-> 0, copy |-> a]

\* What the scheduler's entry says now: an object's content may change under it.
Scheduled == IF sched.obj = 0 THEN sched.copy ELSE heap[sched.obj]

\* A goroutine's step: its program counter, and what it holds on to.
At(pc) == [pc |-> pc, obj |-> 0, copy |-> Nil]
Holding(pc, o) == [pc |-> pc, obj |-> o, copy |-> Nil]
Keeping(pc, a) == [pc |-> pc, obj |-> 0, copy |-> a]
Idle == At("idle")

\* Manager.auths[id] = auth, a new object; refreshes in flight were started from
\* another one.
StoreObject(a) ==
  /\ Len(heap) < MaxStores
  /\ heap' = Append(heap, a)
  /\ mgr' = Len(heap) + 1
  /\ refreshes' = [r \in Refreshers |-> [refreshes[r] EXCEPT !.overtaken = TRUE]]

\* Update keeps the stored ModelStates when the new auth has none.
Updated(a) == IF a.marks = 0 /\ mgr # 0 THEN [a EXCEPT !.marks = heap[mgr].marks] ELSE a

-----------------------------------------------------------------------------
(* The service loop: handleAuthUpdate, one order after the other.          *)

Running ==
  (IF \E q \in Requests : results[q].pc # "idle" THEN {"result"} ELSE {})
    \union (IF \E r \in Refreshers : refreshes[r].pc \in {"clone", "call", "schedule"}
              THEN {"refresh"} ELSE {})
    \union (IF rebuild.pc # "idle" THEN {"rebuild"} ELSE {})
    \union (IF catalog.pc \in {"withdraw", "confirm", "entry", "refresh_entry"}
              THEN {"catalog"} ELSE {})

\* A goroutine overlaps with an order that is carried out after it took what it
\* will act on: the object, the clone, the snapshot, the latest state.
Starts(kind) == raced' = IF svc.pc = "idle" THEN raced ELSE raced \union {kind}

ReceiveUpdate(disabled) ==
  /\ svc.pc = "idle" /\ order.number < MaxOrders
  /\ order' = [number |-> order.number + 1, kind |-> "update", disabled |-> disabled]
  /\ raced' = Running
  /\ svc' = At("get")
  /\ UNCHANGED <<data, results, checks, refreshes, rebuild, catalog, now>>

ReceiveDelete ==
  /\ svc.pc = "idle" /\ order.number < MaxOrders
  /\ order' = [number |-> order.number + 1, kind |-> "delete", disabled |-> FALSE]
  /\ raced' = Running
  /\ svc' = At("unregister")
  /\ UNCHANGED <<data, results, checks, refreshes, rebuild, catalog, now>>

SvcUnchanged == UNCHANGED <<order, raced, results, checks, rebuild, catalog, now>>

\* applyCoreAuthAddOrUpdate: GetByID, whose NextRefreshAfter and ModelStates the
\* update takes over.
GetExisting ==
  /\ svc.pc = "get"
  /\ svc' = IF mgr = 0 THEN At("register") ELSE Keeping("update", heap[mgr])
  /\ UNCHANGED <<data, refreshes>> /\ SvcUnchanged

RegisterAuth ==
  /\ svc.pc = "register"
  /\ StoreObject([Nil EXCEPT !.version = order.number, !.disabled = order.disabled])
  /\ svc' = Holding("schedule", mgr')
  /\ UNCHANGED <<sched, offered>> /\ SvcUnchanged

UpdateAuth ==
  /\ svc.pc = "update"
  /\ StoreObject(Updated([svc.copy EXCEPT !.version = order.number,
                                          !.disabled = order.disabled]))
  /\ svc' = Holding("schedule", mgr')
  /\ UNCHANGED <<sched, offered>> /\ SvcUnchanged

ScheduleStored ==
  /\ svc.pc = "schedule"
  /\ sched' = UpsertObject(svc.obj)
  /\ svc' = At("models")
  /\ UNCHANGED <<heap, mgr, offered, refreshes>> /\ SvcUnchanged

RegisterModels ==
  /\ svc.pc = "models"
  /\ offered' = ~order.disabled
  /\ svc' = At("entry")
  /\ UNCHANGED <<heap, mgr, sched, refreshes>> /\ SvcUnchanged

\* RefreshSchedulerEntry: a clone under the manager's lock, then the upsert.
CloneEntry ==
  /\ svc.pc = "entry"
  /\ svc' = IF mgr = 0 THEN Idle ELSE Keeping("refresh_entry", heap[mgr])
  /\ UNCHANGED <<data, refreshes>> /\ SvcUnchanged

UpsertEntry ==
  /\ svc.pc = "refresh_entry"
  /\ sched' = UpsertCopy(svc.copy)
  /\ svc' = Idle
  /\ UNCHANGED <<heap, mgr, offered, refreshes>> /\ SvcUnchanged

\* applyCoreAuthRemoval: the registry, Manager.auths, the scheduler.
UnregisterModels ==
  /\ svc.pc = "unregister"
  /\ offered' = FALSE
  /\ svc' = At("delete")
  /\ UNCHANGED <<heap, mgr, sched, refreshes>> /\ SvcUnchanged

DeleteAuth ==
  /\ svc.pc = "delete"
  /\ mgr' = 0
  /\ svc' = At("unschedule")
  /\ UNCHANGED <<heap, sched, offered, refreshes>> /\ SvcUnchanged

Unschedule ==
  /\ svc.pc = "unschedule"
  /\ sched' = Out
  /\ svc' = Idle
  /\ UNCHANGED <<heap, mgr, offered, refreshes>> /\ SvcUnchanged

-----------------------------------------------------------------------------
(* MarkResult, in the goroutine of a request.                              *)

Marks == IF heap = <<>> THEN 0 ELSE CHOOSE n \in {heap[o].marks : o \in DOMAIN heap} :
                                      \A o \in DOMAIN heap : heap[o].marks <= n

Marked(a) == [a EXCEPT !.marks = @ + 1]

\* The result is written into the stored object, under the manager's lock.
MarkResult(q) ==
  /\ results[q].pc = "idle" /\ Marks < MaxMarks
  /\ mgr # 0
  /\ heap' = [heap EXCEPT ![mgr] = Marked(@)]
  /\ results' = [results EXCEPT ![q] = Keeping("upsert", heap'[mgr])]
  /\ Starts("result")
  /\ UNCHANGED <<mgr, sched, offered, svc, order, checks, refreshes, rebuild, catalog, now>>

UpsertResult(q) ==
  /\ results[q].pc = "upsert"
  /\ sched' = UpsertCopy(results[q].copy)
  /\ results' = [results EXCEPT ![q] = Idle]
  /\ UNCHANGED <<heap, mgr, offered, svc, order, raced, checks, refreshes, rebuild, catalog, now>>

-----------------------------------------------------------------------------
(* The automatic refresh: checkRefreshes and refreshAuth.                  *)

RefreshUnchanged == UNCHANGED <<svc, order, results, rebuild, catalog, now>>

Due(a, t) == ~a.disabled /\ a.refreshAfter <= t
DueAt(a, t) == [a EXCEPT !.refreshAfter = t]

\* checkRefreshes reads the clock once, for all it does after, ...
BeginCheck(k) ==
  /\ checks[k].pc = "idle"
  /\ checks' = [checks EXCEPT ![k] = [pc |-> "look", at |-> now]]
  /\ UNCHANGED <<data, refreshes, raced>> /\ RefreshUnchanged

CheckOver(k) == [checks EXCEPT ![k] = [pc |-> "idle", at |-> 0]]

\* ... looks at a snapshot ...
LookForDue(k) ==
  /\ checks[k].pc = "look"
  /\ checks' = IF mgr # 0 /\ Due(heap[mgr], checks[k].at)
                 THEN [checks EXCEPT ![k].pc = "claim"] ELSE CheckOver(k)
  /\ UNCHANGED <<data, refreshes, raced>> /\ RefreshUnchanged

Resting == [pc |-> "idle", obj |-> 0, copy |-> Nil, at |-> 0, overtaken |-> FALSE]
Started(t) == [Resting EXCEPT !.pc = "read", !.at = t]

\* Faulty variant: the claim relies on the snapshot.
ClaimUnchecked(k, r) ==
  /\ checks[k].pc = "claim" /\ refreshes[r].pc = "idle" /\ mgr # 0
  /\ checks' = CheckOver(k)
  /\ heap' = [heap EXCEPT ![mgr] = DueAt(@, checks[k].at + Pending)]
  /\ refreshes' = [refreshes EXCEPT ![r] = Started(checks[k].at)]
  /\ UNCHANGED <<mgr, sched, offered, raced>> /\ RefreshUnchanged

\* ... and markRefreshPending looks again before it claims the refresh.
Claim(k, r) ==
  /\ checks[k].pc = "claim" /\ refreshes[r].pc = "idle"
  /\ checks' = CheckOver(k)
  /\ IF mgr # 0 /\ Due(heap[mgr], checks[k].at)
       THEN /\ heap' = [heap EXCEPT ![mgr] = DueAt(@, checks[k].at + Pending)]
            /\ refreshes' = [refreshes EXCEPT ![r] = Started(checks[k].at)]
       ELSE UNCHANGED <<heap, refreshes>>
  /\ UNCHANGED <<mgr, sched, offered, raced>> /\ RefreshUnchanged

\* refreshAuth takes the object under the lock, and clones it after.
Refreshing(r, pc) == refreshes[r].pc = pc
Rested(r) == [refreshes EXCEPT ![r] = Resting]

ReadForRefresh(r) ==
  /\ Refreshing(r, "read")
  /\ refreshes' = IF mgr = 0 THEN Rested(r)
                  ELSE [refreshes EXCEPT ![r] = [@ EXCEPT !.pc = "clone", !.obj = mgr]]
  /\ Starts("refresh")
  /\ UNCHANGED <<data, checks>> /\ RefreshUnchanged

CloneForRefresh(r) ==
  /\ Refreshing(r, "clone")
  /\ refreshes' = [refreshes EXCEPT ![r] =
                     [@ EXCEPT !.pc = "call", !.obj = 0, !.copy = heap[refreshes[r].obj]]]
  /\ UNCHANGED <<data, checks, raced>> /\ RefreshUnchanged

\* The call failed, and the clock is read ...
CallFails(r) ==
  /\ Refreshing(r, "call")
  /\ refreshes' = [refreshes EXCEPT ![r] = [@ EXCEPT !.pc = "failed", !.copy = Nil, !.at = now]]
  /\ UNCHANGED <<data, checks, raced>> /\ RefreshUnchanged

\* ... before the lock is taken, under which the scheduler is told, too. A failure
\* so late that it brings the next refresh forward overtakes those in flight.
RefreshFails(r) ==
  /\ Refreshing(r, "failed")
  /\ LET next == refreshes[r].at + FailureBackoff
         sooner == mgr # 0 /\ next < heap[mgr].refreshAfter
     IN  /\ refreshes' = [x \in Refreshers |->
                            IF x = r THEN Resting
                            ELSE [refreshes[x] EXCEPT !.overtaken = @ \/ sooner]]
         /\ IF mgr # 0
              THEN /\ heap' = [heap EXCEPT ![mgr] = DueAt(@, next)]
                   /\ sched' = UpsertCopy(heap'[mgr])
              ELSE UNCHANGED <<heap, sched>>
  /\ UNCHANGED <<mgr, offered, checks, raced>> /\ RefreshUnchanged

\* A cancelled call leaves no trace.
RefreshCancelled(r) ==
  /\ Refreshing(r, "call")
  /\ refreshes' = Rested(r)
  /\ UNCHANGED <<data, checks, raced>> /\ RefreshUnchanged

\* The call succeeded: Update with what was cloned before it.
StoreRefreshed(r) ==
  /\ Refreshing(r, "call")
  /\ Len(heap) < MaxStores
  /\ heap' = Append(heap, Updated([refreshes[r].copy EXCEPT !.refreshAfter = 0]))
  /\ mgr' = Len(heap) + 1
  /\ refreshes' = [x \in Refreshers |->
                     IF x = r THEN [refreshes[r] EXCEPT !.pc = "schedule", !.obj = mgr', !.copy = Nil]
                     ELSE [refreshes[x] EXCEPT !.overtaken = TRUE]]
  /\ UNCHANGED <<sched, offered, checks, raced>> /\ RefreshUnchanged

ScheduleRefreshed(r) ==
  /\ Refreshing(r, "schedule")
  /\ sched' = UpsertObject(refreshes[r].obj)
  /\ refreshes' = Rested(r)
  /\ UNCHANGED <<heap, mgr, offered, checks, raced>> /\ RefreshUnchanged

-----------------------------------------------------------------------------
(* syncScheduler after a failed pick, and the callback of a new catalog    *)
(* (refreshModelRegistrationForAuth).                                      *)

SnapshotAuths ==
  /\ "rebuild" \in Background /\ rebuild.pc = "idle"
  /\ rebuild' = IF mgr = 0 THEN At("empty") ELSE Keeping("rebuild", heap[mgr])
  /\ Starts("rebuild")
  /\ UNCHANGED <<data, svc, order, results, checks, refreshes, catalog, now>>

Rebuild ==
  /\ rebuild.pc # "idle"
  /\ sched' = IF rebuild.pc = "empty" THEN Out ELSE UpsertCopy(rebuild.copy)
  /\ rebuild' = Idle
  /\ UNCHANGED <<heap, mgr, offered, svc, order, raced, results, checks, refreshes, catalog, now>>

CatalogUnchanged ==
  UNCHANGED <<heap, mgr, svc, order, results, checks, refreshes, rebuild, now>>

ListForCatalog ==
  /\ "catalog" \in Background /\ catalog.pc = "idle"
  /\ mgr # 0 /\ ~heap[mgr].disabled
  /\ catalog' = At("register")
  /\ UNCHANGED <<sched, offered, raced>> /\ CatalogUnchanged

RegisterListed ==
  /\ catalog.pc = "register"
  /\ offered' = TRUE
  /\ catalog' = At("latest")
  /\ UNCHANGED <<sched, raced>> /\ CatalogUnchanged

GetLatest ==
  /\ catalog.pc = "latest"
  /\ catalog' = At(IF mgr = 0 \/ heap[mgr].disabled THEN "withdraw" ELSE "confirm")
  /\ Starts("catalog")
  /\ UNCHANGED <<sched, offered>> /\ CatalogUnchanged

\* Faulty variant: what was registered from the stale clone is left registered.
SettleKeeping ==
  /\ catalog.pc \in {"withdraw", "confirm"}
  /\ catalog' = At("entry")
  /\ UNCHANGED <<sched, offered, raced>> /\ CatalogUnchanged

SettleLatest ==
  /\ catalog.pc \in {"withdraw", "confirm"}
  /\ offered' = (catalog.pc = "confirm")
  /\ catalog' = At("entry")
  /\ UNCHANGED <<sched, raced>> /\ CatalogUnchanged

CatalogCloneEntry ==
  /\ catalog.pc = "entry"
  /\ catalog' = IF mgr = 0 THEN Idle ELSE Keeping("refresh_entry", heap[mgr])
  /\ UNCHANGED <<sched, offered, raced>> /\ CatalogUnchanged

CatalogUpsertEntry ==
  /\ catalog.pc = "refresh_entry"
  /\ sched' = UpsertCopy(catalog.copy)
  /\ catalog' = Idle
  /\ UNCHANGED <<offered, raced>> /\ CatalogUnchanged

-----------------------------------------------------------------------------

Init ==
  /\ heap = <<>> /\ mgr = 0 /\ sched = Out /\ offered = FALSE
  /\ svc = Idle /\ order = [number |-> 0, kind |-> "delete", disabled |-> FALSE]
  /\ raced = {}
  /\ results = [q \in Requests |-> Idle]
  /\ checks = [k \in Checkers |-> [pc |-> "idle", at |-> 0]]
  /\ refreshes = [r \in Refreshers |-> Resting]
  /\ rebuild = Idle /\ catalog = Idle
  /\ now = 1

Tick ==
  /\ now < MaxNow
  /\ now' = now + 1
  /\ UNCHANGED <<data, procs, order, raced>>

Service ==
  \/ \E disabled \in BOOLEAN : ReceiveUpdate(disabled)
  \/ ReceiveDelete
  \/ GetExisting \/ RegisterAuth \/ UpdateAuth \/ ScheduleStored \/ RegisterModels
  \/ CloneEntry \/ UpsertEntry
  \/ UnregisterModels \/ DeleteAuth \/ Unschedule

Request(q) == MarkResult(q) \/ UpsertResult(q)

Refresh(r) ==
  \/ \E k \in Checkers : Claim(k, r)
  \/ ReadForRefresh(r) \/ CloneForRefresh(r)
  \/ CallFails(r) \/ RefreshFails(r) \/ RefreshCancelled(r) \/ StoreRefreshed(r) \/ ScheduleRefreshed(r)

Catalog ==
  \/ ListForCatalog \/ RegisterListed \/ GetLatest \/ SettleLatest
  \/ CatalogCloneEntry \/ CatalogUpsertEntry

Next ==
  \/ Service
  \/ \E q \in Requests : Request(q)
  \/ \E k \in Checkers : BeginCheck(k) \/ LookForDue(k)
  \/ \E r \in Refreshers : Refresh(r)
  \/ SnapshotAuths \/ Rebuild
  \/ Catalog
  \/ Tick

Spec == Init /\ [][Next]_vars

-----------------------------------------------------------------------------
(* Properties *)

ProcType(pcs) == [pc : pcs, obj : 0..MaxStores, copy : Auth]

TypeOK ==
  /\ heap \in Seq(Auth) /\ Len(heap) <= MaxStores
  /\ mgr \in 0..Len(heap)
  /\ sched \in [in : BOOLEAN, obj : 0..Len(heap), copy : Auth]
  /\ offered \in BOOLEAN
  /\ svc \in ProcType({"idle", "get", "register", "update", "schedule", "models", "entry",
                      "refresh_entry", "unregister", "delete", "unschedule"})
  /\ \A q \in Requests : results[q] \in ProcType({"idle", "upsert"})
  /\ \A r \in Refreshers :
       /\ refreshes[r].pc \in {"idle", "read", "clone", "call", "failed", "schedule"}
       /\ refreshes[r].pc \in {"clone", "schedule"} => refreshes[r].obj \in DOMAIN heap
       /\ refreshes[r].copy \in Auth /\ refreshes[r].at \in 0..now
  /\ rebuild \in ProcType({"idle", "empty", "rebuild"})
  /\ catalog \in ProcType({"idle", "register", "latest", "withdraw", "confirm", "entry",
                          "refresh_entry"})
  /\ checks \in [Checkers -> [pc : {"idle", "look", "claim"}, at : 0..now]]
  /\ raced \subseteq {"result", "refresh", "rebuild", "catalog"}
  /\ now \in 1..MaxNow

Quiet ==
  /\ svc.pc = "idle" /\ rebuild.pc = "idle" /\ catalog.pc = "idle"
  /\ \A q \in Requests : results[q].pc = "idle"
  /\ \A r \in Refreshers : refreshes[r].pc = "idle"

\* Once everything has come to rest, the manager, the registry and the scheduler
\* agree with the last update or removal of the credential, unless a goroutine that
\* had taken its view of the credential before overlapped with it: only a refresh
\* can spoil the manager, only a refresh or a catalog callback the registry. Nothing
\* that starts after the order can.
LastOrderStands ==
  Quiet /\ order.number > 0 =>
    LET wanted == order.kind = "update" /\ ~order.disabled
    IN  /\ "refresh" \notin raced =>
             IF order.kind = "delete" THEN mgr = 0
             ELSE /\ mgr # 0
                  /\ heap[mgr].version = order.number
                  /\ heap[mgr].disabled = order.disabled
        /\ raced \intersect {"refresh", "catalog"} = {} => offered = wanted
        /\ raced = {} => /\ sched.in = wanted
                         /\ wanted => Scheduled.version = order.number

\* The types hold, and two refreshes of one credential, which would spend its refresh
\* token twice, run at once only if the older one has outlasted the pending time, both
\* counted from the instant checkRefreshes found them due at, or while one of them ran
\* the credential was replaced or a late failure brought its next refresh forward.
Spending(r) == refreshes[r].pc \in {"read", "clone", "call"}
RefreshesApart ==
  /\ TypeOK
  /\ \A r, s \in Refreshers :
       r # s /\ Spending(r) /\ Spending(s) /\ refreshes[r].at <= refreshes[s].at
         => \/ refreshes[s].at >= refreshes[r].at + Pending
            \/ refreshes[r].overtaken \/ refreshes[s].overtaken

-----------------------------------------------------------------------------
(* What comments and tests say, and the code does not do.                  *)

\* scheduler.go:42, "scheduledAuthMeta stores the immutable scheduling fields derived
\* from an auth snapshot": what the scheduler evaluates changes only when the
\* scheduler is told.
SnapshotImmutable == [][sched' = sched => Scheduled' = Scheduled]_vars

\* TestHandleAuthUpdate_DeleteRemovesAuthImmediately: a deleted credential is gone
\* from the manager.
DeletedStaysDeleted == Quiet /\ order.kind = "delete" => mgr = 0

\* scheduler.go:134, "removeAuth deletes one auth from every scheduler shard that
\* references it": a deleted credential is not scheduled.
DeletedStaysUnscheduled == Quiet /\ mgr = 0 => ~sched.in

\* TestManager_Update_PreservesModelStates: an update keeps the results that were
\* reported.
UpdateKeepsResults ==
  [][mgr # 0 /\ mgr' # 0 => heap'[mgr'].marks >= heap[mgr].marks]_vars

=============================================================================

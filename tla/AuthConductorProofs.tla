------------------------- MODULE AuthConductorProofs -------------------------
(***************************************************************************)
(* Proofs about AuthConductor, for any number of requests, refreshing      *)
(* goroutines, checking loops and orders: refreshes of one credential stay *)
(* apart, and the service's last order stands unless something that had    *)
(* read the credential before overlapped with it.                          *)
(***************************************************************************)
EXTENDS AuthConductor, SequenceTheorems, TLAPS

SvcPcs == {"idle", "get", "register", "update", "schedule", "models", "entry",
           "refresh_entry", "unregister", "delete", "unschedule"}
RefreshType == [pc : {"idle", "read", "clone", "call", "failed", "schedule"}, obj : 0..MaxStores,
                copy : Auth, at : Nat, overtaken : BOOLEAN]
CheckType == [pc : {"idle", "look", "claim"}, at : Nat]

HeapOK == heap \in Seq(Auth) /\ Len(heap) <= MaxStores /\ mgr \in 0..Len(heap)
SchedOK == sched \in [in : BOOLEAN, obj : 0..Len(heap), copy : Auth]
SvcOK == svc \in ProcType(SvcPcs) /\ (svc.pc = "schedule" => svc.obj \in DOMAIN heap)
ResultsOK == results \in [Requests -> ProcType({"idle", "upsert"})]
RefreshesOK ==
  /\ refreshes \in [Refreshers -> RefreshType]
  /\ \A r \in Refreshers :
       /\ refreshes[r].pc \in {"clone", "schedule"} => refreshes[r].obj \in DOMAIN heap
       /\ refreshes[r].at <= now
BackgroundOK ==
  /\ rebuild \in ProcType({"idle", "empty", "rebuild"})
  /\ catalog \in ProcType({"idle", "register", "latest", "withdraw", "confirm", "entry",
                          "refresh_entry"})
OrderOK ==
  /\ order \in [number : 0..MaxOrders, kind : {"update", "delete"}, disabled : BOOLEAN]
  /\ raced \subseteq {"result", "refresh", "rebuild", "catalog"}
ChecksOK == checks \in [Checkers -> CheckType] /\ \A k \in Checkers : checks[k].at <= now
ClockOK == now \in 1..MaxNow /\ ChecksOK /\ offered \in BOOLEAN

\* The types, with what TypeOK leaves out of those of functions.
Types ==
  /\ HeapOK /\ SchedOK /\ SvcOK /\ ResultsOK /\ RefreshesOK /\ BackgroundOK /\ OrderOK /\ ClockOK

\* They give the type invariant.
LEMMA TypesGive == Types => TypeOK
<1> SUFFICES ASSUME Types PROVE TypeOK OBVIOUS
<1>1. checks \in [Checkers -> [pc : {"idle", "look", "claim"}, at : 0..now]]
  <2>1. \A k \in Checkers : checks[k] \in [pc : {"idle", "look", "claim"}, at : 0..now]
    BY DEF Types, ClockOK, ChecksOK, CheckType
  <2>2. checks = [k \in Checkers |-> checks[k]] BY DEF Types, ClockOK, ChecksOK
  <2> QED BY <2>1, <2>2
<1> QED BY <1>1 DEF Types, TypeOK, HeapOK, SchedOK, SvcOK, ResultsOK, RefreshesOK, BackgroundOK,
            OrderOK, ClockOK, SvcPcs, RefreshType

\* The stored objects stay what the service made them.
Kept ==
  /\ heap' \in Seq(Auth) /\ Len(heap) <= Len(heap') /\ Len(heap') <= MaxStores
  /\ \A o \in DOMAIN heap : heap'[o].version = heap[o].version /\ heap'[o].disabled = heap[o].disabled

\* The empty auth is one.
LEMMA NilType == Nil \in Auth
BY DEF Nil, Auth

\* The records of the service's and the goroutines' steps.
LEMMA ProcTypes ==
  ASSUME NEW S, NEW pc \in S
  PROVE  /\ At(pc) \in ProcType(S)
         /\ \A o \in 0..MaxStores : Holding(pc, o) \in ProcType(S)
         /\ \A a \in Auth : Keeping(pc, a) \in ProcType(S)
BY NilType, ConductorAssumption DEF At, Holding, Keeping, ProcType

\* Storing nothing keeps them.
LEMMA SameHeapKept == Types /\ UNCHANGED heap => Kept
BY DEF Types, HeapOK, Kept

\* The variables a step leaves alone keep their types, whatever it stored.
LEMMA Frames ==
  ASSUME Types, Kept
  PROVE  /\ mgr' \in 0..Len(heap') => HeapOK'
         /\ UNCHANGED mgr => HeapOK'
         /\ UNCHANGED sched => SchedOK'
         /\ UNCHANGED svc => SvcOK'
         /\ UNCHANGED results => ResultsOK'
         /\ UNCHANGED <<refreshes, now>> => RefreshesOK'
         /\ UNCHANGED <<rebuild, catalog>> => BackgroundOK'
         /\ UNCHANGED <<now, checks, offered>> => ClockOK'
<1>1. DOMAIN heap \subseteq DOMAIN heap' /\ Len(heap) \in Nat /\ Len(heap') \in Nat
  BY DEF Types, HeapOK, Kept
<1>2. UNCHANGED mgr => HeapOK' BY <1>1 DEF Types, HeapOK, Kept
<1>3. UNCHANGED sched => SchedOK' BY <1>1 DEF Types, SchedOK, Kept
<1>4. UNCHANGED svc => SvcOK' BY <1>1 DEF Types, SvcOK
<1>5. UNCHANGED <<refreshes, now>> => RefreshesOK' BY <1>1 DEF Types, RefreshesOK
<1> QED BY <1>2, <1>3, <1>4, <1>5 DEF Types, HeapOK, Kept, ResultsOK, BackgroundOK, ClockOK,
        ChecksOK

\* What Manager.auths refers to is a stored object.
LEMMA StoredType == ASSUME Types, mgr # 0 PROVE mgr \in DOMAIN heap /\ heap[mgr] \in Auth
BY ElementOfSeq DEF Types, HeapOK

\* A new object is stored after the others.
LEMMA AppendKept ==
  ASSUME Types, NEW a \in Auth, Len(heap) < MaxStores, heap' = Append(heap, a)
  PROVE  /\ Kept /\ Len(heap') = Len(heap) + 1 /\ Len(heap') \in DOMAIN heap' /\ Len(heap) \in Nat
         /\ heap'[Len(heap')] = a
         /\ \A o \in DOMAIN heap : heap'[o] = heap[o]
BY AppendProperties, ConductorAssumption DEF Types, HeapOK, Kept

\* A stored object changes only in what requests and refreshes write into it.
LEMMA ExceptKept ==
  ASSUME Types, mgr # 0, NEW a \in Auth, heap' = [heap EXCEPT ![mgr] = a],
         a.version = heap[mgr].version, a.disabled = heap[mgr].disabled
  PROVE  Kept /\ Len(heap') = Len(heap) /\ heap'[mgr] = a
BY StoredType, ExceptSeq DEF Types, HeapOK, Kept

\* A reported result is written into the stored object (MarkResult).
LEMMA MarkedKept ==
  ASSUME Types, mgr # 0, heap' = [heap EXCEPT ![mgr] = Marked(@)]
  PROVE  /\ Kept /\ Len(heap') = Len(heap) /\ heap'[mgr] \in Auth
         /\ heap'[mgr].refreshAfter = heap[mgr].refreshAfter
         /\ heap'[mgr].version = heap[mgr].version /\ heap'[mgr].disabled = heap[mgr].disabled
<1>1. heap[mgr] \in Auth BY StoredType
<1>2. ASSUME NEW u \in Auth
      PROVE  /\ Marked(u) \in Auth /\ Marked(u).refreshAfter = u.refreshAfter
             /\ Marked(u).version = u.version /\ Marked(u).disabled = u.disabled
  BY DEF Auth, Marked
<1> QED BY <1>1, <1>2, ExceptKept

\* The next refresh of the stored object is put off (markRefreshPending, a failed refresh).
LEMMA PutOffKept ==
  ASSUME Types, mgr # 0, NEW t \in Nat, heap' = [heap EXCEPT ![mgr] = DueAt(@, t)]
  PROVE  /\ Kept /\ Len(heap') = Len(heap) /\ heap'[mgr] \in Auth
         /\ heap'[mgr].refreshAfter = t
         /\ heap'[mgr].version = heap[mgr].version /\ heap'[mgr].disabled = heap[mgr].disabled
<1>1. heap[mgr] \in Auth BY StoredType
<1>2. ASSUME NEW u \in Auth
      PROVE  /\ DueAt(u, t) \in Auth /\ DueAt(u, t).refreshAfter = t
             /\ DueAt(u, t).version = u.version /\ DueAt(u, t).disabled = u.disabled
  BY DEF Auth, DueAt
<1> QED BY <1>1, <1>2, ExceptKept

\* What the scheduler is given.
LEMMA UpsertTypes ==
  ASSUME Types
  PROVE  /\ Out \in [in : BOOLEAN, obj : 0..Len(heap), copy : Auth]
         /\ \A o \in DOMAIN heap : UpsertObject(o) \in [in : BOOLEAN, obj : 0..Len(heap), copy : Auth]
         /\ \A a \in Auth : UpsertCopy(a) \in [in : BOOLEAN, obj : 0..Len(heap), copy : Auth]
<1>1. Len(heap) \in Nat /\ DOMAIN heap = 1..Len(heap) BY DEF Types, HeapOK
<1> QED BY <1>1, NilType DEF Out, UpsertObject, UpsertCopy

\* What a goroutine that has been given its order leaves alone.
LEMMA SvcTypes ==
  ASSUME Types, Kept, SvcUnchanged
  PROVE  ResultsOK' /\ BackgroundOK' /\ OrderOK' /\ (UNCHANGED offered => ClockOK')
BY Frames DEF SvcUnchanged, Types, OrderOK

\* Register and Update: a new object, and every refresh under way overtaken.
LEMMA StoreTypes ==
  ASSUME Types, UNCHANGED now, NEW a \in Auth, StoreObject(a)
  PROVE  /\ Kept /\ HeapOK' /\ RefreshesOK' /\ mgr' \in DOMAIN heap' /\ heap'[mgr'] = a
         /\ mgr' # 0
<1>1. /\ Kept /\ Len(heap') = Len(heap) + 1 /\ Len(heap') \in DOMAIN heap' /\ Len(heap) \in Nat
      /\ heap'[Len(heap')] = a
  BY AppendKept DEF StoreObject
<1>2. mgr' = Len(heap') BY <1>1 DEF StoreObject
<1>3. HeapOK' BY <1>1, <1>2 DEF HeapOK, Kept
<1>4. DOMAIN heap \subseteq DOMAIN heap' BY <1>1 DEF Types, HeapOK, Kept
<1>5. ASSUME NEW u \in RefreshType
      PROVE  /\ [u EXCEPT !.overtaken = TRUE] \in RefreshType
             /\ [u EXCEPT !.overtaken = TRUE].pc = u.pc
             /\ [u EXCEPT !.overtaken = TRUE].obj = u.obj
             /\ [u EXCEPT !.overtaken = TRUE].at = u.at
  BY DEF RefreshType
<1>6. \A r \in Refreshers :
        /\ refreshes[r] \in RefreshType
        /\ refreshes'[r] = [refreshes[r] EXCEPT !.overtaken = TRUE]
  BY DEF Types, RefreshesOK, StoreObject
<1>7. refreshes' \in [Refreshers -> RefreshType]
  <2> HIDE DEF RefreshType
  <2> QED BY <1>5 DEF Types, RefreshesOK, StoreObject
<1>8. \A r \in Refreshers :
        /\ refreshes'[r].pc \in {"clone", "schedule"} => refreshes'[r].obj \in DOMAIN heap'
        /\ refreshes'[r].at <= now
  <2>1. \A r \in Refreshers : /\ refreshes'[r].pc = refreshes[r].pc
                              /\ refreshes'[r].obj = refreshes[r].obj
                              /\ refreshes'[r].at = refreshes[r].at
    <3> HIDE DEF RefreshType
    <3> QED BY <1>5, <1>6
  <2> QED BY <1>4, <2>1 DEF Types, RefreshesOK
<1> QED BY <1>1, <1>2, <1>3, <1>7, <1>8 DEF RefreshesOK

\* Update makes an auth of what it is given, of the same version.
LEMMA UpdatedType ==
  ASSUME Types, NEW a \in Auth
  PROVE  /\ Updated(a) \in Auth /\ Updated(a).version = a.version
         /\ Updated(a).disabled = a.disabled
<1>1. ASSUME NEW u \in Auth, NEW m \in Nat
      PROVE  /\ [u EXCEPT !.marks = m] \in Auth /\ [u EXCEPT !.marks = m].version = u.version
             /\ [u EXCEPT !.marks = m].disabled = u.disabled
  BY DEF Auth
<1>2. mgr # 0 => heap[mgr].marks \in Nat BY StoredType DEF Auth
<1> QED BY <1>1, <1>2 DEF Updated

\* What the service makes of an order.
LEMMA OrderedTypes ==
  ASSUME Types, NEW a \in Auth
  PROVE  LET b == [a EXCEPT !.version = order.number, !.disabled = order.disabled]
         IN  b \in Auth /\ b.version = order.number /\ b.disabled = order.disabled
<1>1. order.number \in Nat /\ order.disabled \in BOOLEAN BY DEF Types, OrderOK
<1>2. ASSUME NEW n \in Nat, NEW d \in BOOLEAN
      PROVE  LET b == [a EXCEPT !.version = n, !.disabled = d]
             IN  b \in Auth /\ b.version = n /\ b.disabled = d
  BY DEF Auth
<1> QED BY <1>1, <1>2

-----------------------------------------------------------------------------
(* The types: the service loop. *)

\* The service is given an order.
LEMMA ReceiveTypes ==
  ASSUME Types, (\E disabled \in BOOLEAN : ReceiveUpdate(disabled)) \/ ReceiveDelete
  PROVE  Types' /\ Kept
<1>1. Kept BY SameHeapKept DEF ReceiveUpdate, ReceiveDelete, data
<1>2. HeapOK' /\ SchedOK' /\ ResultsOK' /\ RefreshesOK' /\ BackgroundOK' /\ ClockOK'
  BY <1>1, Frames DEF ReceiveUpdate, ReceiveDelete, data
<1>3. SvcOK'
  <2>1. svc' = At("get") \/ svc' = At("unregister") BY DEF ReceiveUpdate, ReceiveDelete
  <2>2. At("get") \in ProcType(SvcPcs) /\ At("unregister") \in ProcType(SvcPcs)
    BY ProcTypes DEF SvcPcs
  <2> QED BY <2>1, <2>2 DEF SvcOK, At
<1>4. order'.number = order.number + 1 => order'.number \in 0..MaxOrders
  BY ConductorAssumption DEF Types, OrderOK, ReceiveUpdate, ReceiveDelete
<1>5. OrderOK'
  <2>1. Running \subseteq {"result", "refresh", "rebuild", "catalog"} BY DEF Running
  <2>2. order'.number = order.number + 1 BY DEF ReceiveUpdate, ReceiveDelete
  <2>3. \E k \in {"update", "delete"}, d \in BOOLEAN :
          order' = [number |-> order.number + 1, kind |-> k, disabled |-> d]
    BY DEF ReceiveUpdate, ReceiveDelete
  <2>4. raced' = Running BY DEF ReceiveUpdate, ReceiveDelete
  <2> QED BY <1>4, <2>1, <2>2, <2>3, <2>4 DEF OrderOK
<1> QED BY <1>1, <1>2, <1>3, <1>5 DEF Types

\* The steps of the service that store nothing.
LEMMA SvcReadsTypes ==
  ASSUME Types, GetExisting \/ CloneEntry
  PROVE  Types' /\ Kept
<1>1. Kept BY SameHeapKept DEF GetExisting, CloneEntry, data
<1>2. HeapOK' /\ SchedOK' /\ RefreshesOK' /\ ResultsOK' /\ BackgroundOK' /\ OrderOK' /\ ClockOK'
  BY <1>1, Frames, SvcTypes DEF GetExisting, CloneEntry, data, SvcUnchanged
<1>3. SvcOK'
  <2>1. \/ svc' = At("register")
        \/ svc' = At("idle")
        \/ mgr # 0 /\ svc' = Keeping("update", heap[mgr])
        \/ mgr # 0 /\ svc' = Keeping("refresh_entry", heap[mgr])
    BY DEF GetExisting, CloneEntry, Idle
  <2>2. svc' \in ProcType(SvcPcs) BY <2>1, ProcTypes, StoredType DEF SvcPcs
  <2>3. svc'.pc # "schedule" BY <2>1 DEF At, Keeping
  <2> QED BY <2>2, <2>3 DEF SvcOK
<1> QED BY <1>1, <1>2, <1>3 DEF Types

\* The steps that tell the scheduler, the registry or the manager.
LEMMA SvcWritesTypes ==
  ASSUME Types, ScheduleStored \/ RegisterModels \/ UpsertEntry \/ UnregisterModels
                  \/ DeleteAuth \/ Unschedule
  PROVE  Types' /\ Kept
<1> USE DEF ScheduleStored, RegisterModels, UpsertEntry, UnregisterModels, DeleteAuth, Unschedule
<1>1. UNCHANGED <<heap, refreshes>> /\ SvcUnchanged OBVIOUS
<1>2. Kept BY <1>1, SameHeapKept
<1>3. RefreshesOK' /\ ResultsOK' /\ BackgroundOK' /\ OrderOK'
  BY <1>1, <1>2, Frames, SvcTypes DEF SvcUnchanged
<1>4. HeapOK'
  <2>1. mgr' = mgr \/ mgr' = 0 OBVIOUS
  <2> QED BY <1>1, <2>1 DEF Types, HeapOK
<1>5. SchedOK'
  <2>1. /\ svc.pc = "schedule" => UpsertObject(svc.obj) \in [in : BOOLEAN, obj : 0..Len(heap), copy : Auth]
        /\ UpsertCopy(svc.copy) \in [in : BOOLEAN, obj : 0..Len(heap), copy : Auth]
        /\ Out \in [in : BOOLEAN, obj : 0..Len(heap), copy : Auth]
    BY UpsertTypes DEF Types, SvcOK, ProcType
  <2>2. \/ sched' = sched \/ sched' = Out \/ sched' = UpsertCopy(svc.copy)
        \/ svc.pc = "schedule" /\ sched' = UpsertObject(svc.obj)
    OBVIOUS
  <2> QED BY <1>1, <2>1, <2>2 DEF SchedOK, Types
<1>6. SvcOK'
  <2>1. \E pc \in SvcPcs \ {"schedule"} : svc' = At(pc) BY DEF SvcPcs, Idle
  <2>2. svc' \in ProcType(SvcPcs) BY <2>1, ProcTypes
  <2>3. svc'.pc # "schedule" BY <2>1 DEF At
  <2> QED BY <2>2, <2>3 DEF SvcOK
<1>7. ClockOK'
  <2>1. offered' \in BOOLEAN BY DEF Types, ClockOK, OrderOK
  <2> QED BY <1>1, <2>1 DEF SvcUnchanged, Types, ClockOK, ChecksOK
<1> QED BY <1>2, <1>3, <1>4, <1>5, <1>6, <1>7 DEF Types

\* What the service stores: the object its order describes.
Made == IF svc.pc = "register"
        THEN [Nil EXCEPT !.version = order.number, !.disabled = order.disabled]
        ELSE Updated([svc.copy EXCEPT !.version = order.number, !.disabled = order.disabled])

\* It is an auth of the order.
LEMMA MadeType ==
  ASSUME Types
  PROVE  Made \in Auth /\ Made.version = order.number /\ Made.disabled = order.disabled
<1>1. svc.copy \in Auth BY DEF Types, SvcOK, ProcType
<1> QED BY <1>1, NilType, OrderedTypes, UpdatedType DEF Made

\* Register and Update store it.
LEMMA SvcStoresTypes ==
  ASSUME Types, RegisterAuth \/ UpdateAuth
  PROVE  /\ Types' /\ Kept /\ StoreObject(Made) /\ UNCHANGED <<sched, offered>> /\ SvcUnchanged
         /\ mgr' # 0 /\ heap'[mgr'] = Made /\ mgr' \in DOMAIN heap' /\ svc' = Holding("schedule", mgr')
<1>1. StoreObject(Made) /\ UNCHANGED <<sched, offered>> /\ SvcUnchanged /\ svc' = Holding("schedule", mgr')
  BY DEF RegisterAuth, UpdateAuth, Made
<1>2. Kept /\ HeapOK' /\ RefreshesOK' /\ mgr' \in DOMAIN heap' /\ heap'[mgr'] = Made /\ mgr' # 0
  BY <1>1, MadeType, StoreTypes DEF SvcUnchanged
<1>3. SchedOK' /\ ResultsOK' /\ BackgroundOK' /\ OrderOK' /\ ClockOK'
  BY <1>1, <1>2, Frames, SvcTypes
<1>4. SvcOK'
  <2>1. mgr' \in 0..MaxStores BY <1>2, ConductorAssumption DEF HeapOK
  <2>2. svc' \in ProcType(SvcPcs) BY <1>1, <2>1, ProcTypes DEF SvcPcs
  <2>3. svc'.obj = mgr' BY <1>1 DEF Holding
  <2> QED BY <1>2, <2>2, <2>3 DEF SvcOK
<1> QED BY <1>1, <1>2, <1>3, <1>4 DEF Types

-----------------------------------------------------------------------------
(* The types: requests. *)

\* A request reports its result and tells the scheduler.
LEMMA RequestTypes ==
  ASSUME Types, \E q \in Requests : Request(q)
  PROVE  Types' /\ Kept
<1> PICK q \in Requests : Request(q) OBVIOUS
<1>1. CASE MarkResult(q)
  <2>1. /\ mgr # 0 /\ heap' = [heap EXCEPT ![mgr] = Marked(@)]
        /\ results' = [results EXCEPT ![q] = Keeping("upsert", heap'[mgr])]
        /\ UNCHANGED <<mgr, sched, offered, svc, order, checks, refreshes, rebuild, catalog, now>>
    BY <1>1 DEF MarkResult
  <2>2. Kept /\ heap'[mgr] \in Auth BY <2>1, MarkedKept
  <2>3. HeapOK' /\ SchedOK' /\ SvcOK' /\ RefreshesOK' /\ BackgroundOK' /\ ClockOK'
    BY <2>1, <2>2, Frames
  <2>4. Keeping("upsert", heap'[mgr]) \in ProcType({"idle", "upsert"}) BY <2>2, ProcTypes
  <2>5. ResultsOK'
    <3> HIDE DEF ProcType
    <3> QED BY <2>1, <2>4 DEF Types, ResultsOK
  <2>6. OrderOK' BY <1>1 DEF MarkResult, Starts, Types, OrderOK
  <2> QED BY <2>2, <2>3, <2>5, <2>6 DEF Types
<1>2. CASE UpsertResult(q)
  <2>1. /\ sched' = UpsertCopy(results[q].copy) /\ results' = [results EXCEPT ![q] = At("idle")]
        /\ UNCHANGED <<heap, mgr, offered, svc, order, raced, checks, refreshes, rebuild, catalog, now>>
    BY <1>2 DEF UpsertResult, Idle
  <2>2. Kept BY <2>1, SameHeapKept
  <2>3. HeapOK' /\ SvcOK' /\ RefreshesOK' /\ BackgroundOK' /\ ClockOK' BY <2>1, <2>2, Frames
  <2>4. At("idle") \in ProcType({"idle", "upsert"}) BY ProcTypes
  <2>5. ResultsOK'
    <3> HIDE DEF ProcType
    <3> QED BY <2>1, <2>4 DEF Types, ResultsOK
  <2>6. results[q].copy \in Auth BY DEF Types, ResultsOK, ProcType
  <2>7. SchedOK' BY <2>1, <2>6, UpsertTypes DEF SchedOK
  <2>8. OrderOK' BY <2>1 DEF Types, OrderOK
  <2> QED BY <2>2, <2>3, <2>5, <2>7, <2>8 DEF Types
<1> QED BY <1>1, <1>2 DEF Request

-----------------------------------------------------------------------------
(* The types: refreshes. *)

\* The record of a goroutine at rest.
LEMMA RestingType == Resting \in RefreshType /\ Resting.pc = "idle" /\ Resting.at = 0
BY NilType, ConductorAssumption DEF Resting, RefreshType

\* The records of the refreshing goroutines.
LEMMA RestedType ==
  ASSUME Types, NEW r \in Refreshers, refreshes' = Rested(r)
  PROVE  /\ refreshes' \in [Refreshers -> RefreshType]
         /\ refreshes'[r].pc = "idle" /\ refreshes'[r].at = 0
         /\ \A s \in Refreshers : s # r => refreshes'[s] = refreshes[s]
<1>1. refreshes' = [refreshes EXCEPT ![r] = Resting] BY DEF Rested
<1> QED BY <1>1, RestingType DEF Types, RefreshesOK

\* A goroutine that is done rests.
LEMMA RestedOK ==
  ASSUME Types, Kept, NEW r \in Refreshers, refreshes' = Rested(r), UNCHANGED now
  PROVE  RefreshesOK'
<1>1. DOMAIN heap \subseteq DOMAIN heap' BY DEF Types, HeapOK, Kept
<1>2. 0 <= now BY DEF Types, ClockOK
<1>3. ASSUME NEW s \in Refreshers
      PROVE  /\ refreshes'[s].pc \in {"clone", "schedule"} => refreshes'[s].obj \in DOMAIN heap'
             /\ refreshes'[s].at <= now'
  <2>1. CASE s = r BY <2>1, <1>2, RestedType
  <2>2. CASE s # r
    <3>1. refreshes'[s] = refreshes[s] BY <2>2, RestedType
    <3> QED BY <3>1, <1>1 DEF Types, RefreshesOK
  <2> QED BY <2>1, <2>2
<1> QED BY <1>3, RestedType DEF RefreshesOK

\* A claim starts a refresh.
LEMMA StartedType ==
  ASSUME NEW t \in Nat
  PROVE  /\ Started(t) \in RefreshType /\ Started(t).pc = "read" /\ Started(t).at = t
         /\ Started(t).overtaken = FALSE
<1>1. ASSUME NEW u \in RefreshType
      PROVE  LET v == [u EXCEPT !.pc = "read", !.at = t]
             IN  v \in RefreshType /\ v.pc = "read" /\ v.at = t /\ v.overtaken = u.overtaken
  BY DEF RefreshType
<1>2. Resting.overtaken = FALSE BY DEF Resting
<1> HIDE DEF RefreshType
<1> QED BY <1>1, <1>2, RestingType DEF Started

\* A checking loop goes by an instant of the clock.
LEMMA CheckAt ==
  ASSUME Types, NEW k \in Checkers
  PROVE  checks[k].at \in Nat /\ checks[k].at <= now /\ now \in Nat
BY DEF Types, ClockOK, ChecksOK, CheckType

\* A loop that goes on does so by an instant of the clock.
LEMMA OneCheck ==
  ASSUME Types, NEW k \in Checkers, NEW c \in CheckType, c.at <= now,
         checks' = [checks EXCEPT ![k] = c], UNCHANGED <<now, offered>>
  PROVE  ClockOK'
<1>1. /\ checks' \in [Checkers -> CheckType] /\ checks'[k] = c
      /\ \A l \in Checkers : l # k => checks'[l] = checks[l]
  <2> HIDE DEF CheckType
  <2> QED BY DEF Types, ClockOK, ChecksOK
<1>2. \A l \in Checkers : checks'[l].at <= now BY <1>1 DEF Types, ClockOK, ChecksOK
<1> QED BY <1>1, <1>2 DEF Types, ClockOK, ChecksOK

\* A loop that is done with the credential comes to rest.
LEMMA CheckDone ==
  ASSUME Types, NEW k \in Checkers, checks' = CheckOver(k), UNCHANGED <<now, offered>>
  PROVE  ClockOK'
<1>1. [pc |-> "idle", at |-> 0] \in CheckType BY DEF CheckType
<1>2. 0 <= now BY DEF Types, ClockOK
<1> QED BY <1>1, <1>2, OneCheck DEF CheckOver

\* What changes no more than the refreshing goroutines and the object stored.
LEMMA RefreshFrame ==
  ASSUME Types, Kept, RefreshUnchanged, UNCHANGED <<mgr, sched, offered>>
  PROVE  HeapOK' /\ SchedOK' /\ SvcOK' /\ ResultsOK' /\ BackgroundOK'
BY Frames DEF RefreshUnchanged

\* One refreshing goroutine goes on.
LEMMA OneRefresh ==
  ASSUME Types, Kept, UNCHANGED now, NEW r \in Refreshers, NEW u \in RefreshType,
         refreshes' = [refreshes EXCEPT ![r] = u],
         u.pc \in {"clone", "schedule"} => u.obj \in DOMAIN heap', u.at <= now
  PROVE  /\ RefreshesOK' /\ refreshes'[r] = u
         /\ \A s \in Refreshers : s # r => refreshes'[s] = refreshes[s]
<1> HIDE DEF RefreshType
<1>1. /\ refreshes' \in [Refreshers -> RefreshType] /\ refreshes'[r] = u
      /\ \A s \in Refreshers : s # r => refreshes'[s] = refreshes[s]
  BY DEF Types, RefreshesOK
<1>2. DOMAIN heap \subseteq DOMAIN heap' BY DEF Types, HeapOK, Kept
<1>3. ASSUME NEW s \in Refreshers
      PROVE  /\ refreshes'[s].pc \in {"clone", "schedule"} => refreshes'[s].obj \in DOMAIN heap'
             /\ refreshes'[s].at <= now'
  <2>1. CASE s = r BY <2>1, <1>1
  <2>2. CASE s # r
    <3>1. refreshes'[s] = refreshes[s] BY <2>2, <1>1
    <3> QED BY <3>1, <1>2 DEF Types, RefreshesOK
  <2> QED BY <2>1, <2>2
<1> QED BY <1>1, <1>3 DEF RefreshesOK

\* checkRefreshes reads the clock.
LEMMA BeginTypes ==
  ASSUME Types, NEW k \in Checkers, BeginCheck(k)
  PROVE  Types' /\ Kept
<1>1. UNCHANGED <<heap, mgr, sched, offered, refreshes, raced>> /\ RefreshUnchanged
      /\ checks' = [checks EXCEPT ![k] = [pc |-> "look", at |-> now]]
  BY DEF BeginCheck, data
<1>2. Kept BY <1>1, SameHeapKept
<1>3. RefreshesOK' /\ HeapOK' /\ SchedOK' /\ SvcOK' /\ ResultsOK' /\ BackgroundOK'
  BY <1>1, <1>2, RefreshFrame, Frames DEF RefreshUnchanged
<1>4. OrderOK' BY <1>1 DEF RefreshUnchanged, Types, OrderOK
<1>5. [pc |-> "look", at |-> now] \in CheckType /\ now <= now BY DEF Types, ClockOK, CheckType
<1>6. ClockOK' BY <1>1, <1>5, OneCheck DEF RefreshUnchanged
<1> QED BY <1>2, <1>3, <1>4, <1>6 DEF Types

\* checkRefreshes looks at its snapshot.
LEMMA LookTypes ==
  ASSUME Types, NEW k \in Checkers, LookForDue(k)
  PROVE  Types' /\ Kept
<1>1. UNCHANGED <<heap, mgr, sched, offered, refreshes, raced>> /\ RefreshUnchanged
      /\ \/ checks' = [checks EXCEPT ![k].pc = "claim"]
         \/ checks' = CheckOver(k)
  BY DEF LookForDue, data
<1>2. Kept BY <1>1, SameHeapKept
<1>3. RefreshesOK' /\ HeapOK' /\ SchedOK' /\ SvcOK' /\ ResultsOK' /\ BackgroundOK'
  BY <1>1, <1>2, RefreshFrame, Frames DEF RefreshUnchanged
<1>4. OrderOK' BY <1>1 DEF RefreshUnchanged, Types, OrderOK
<1>5. ClockOK'
  <2>1. CASE checks' = CheckOver(k) BY <1>1, <2>1, CheckDone DEF RefreshUnchanged
  <2>2. CASE checks' = [checks EXCEPT ![k].pc = "claim"]
    <3> DEFINE c == [checks[k] EXCEPT !.pc = "claim"]
    <3>1. c \in CheckType /\ c.at = checks[k].at
      BY DEF Types, ClockOK, ChecksOK, CheckType
    <3>2. checks' = [checks EXCEPT ![k] = c] BY <2>2
    <3> HIDE DEF c
    <3> QED BY <1>1, <3>1, <3>2, CheckAt, OneCheck DEF RefreshUnchanged
  <2> QED BY <1>1, <2>1, <2>2
<1> QED BY <1>2, <1>3, <1>4, <1>5 DEF Types

\* A claim that finds the credential due puts the next one off, by the instant of its
\* look.
LEMMA Claimed ==
  ASSUME Types, NEW k \in Checkers, NEW r \in Refreshers, Claim(k, r), mgr # 0,
         Due(heap[mgr], checks[k].at)
  PROVE  /\ Kept /\ HeapOK' /\ RefreshesOK'
         /\ refreshes'[r].at = checks[k].at /\ refreshes'[r].pc = "read"
         /\ ~refreshes'[r].overtaken
         /\ \A s \in Refreshers : s # r => refreshes'[s] = refreshes[s]
         /\ heap'[mgr].refreshAfter = checks[k].at + Pending /\ mgr' = mgr /\ now' = now
<1> DEFINE t == checks[k].at
<1>1. /\ heap' = [heap EXCEPT ![mgr] = DueAt(@, t + Pending)]
      /\ refreshes' = [refreshes EXCEPT ![r] = Started(t)]
      /\ UNCHANGED <<mgr, sched, offered, now>>
  BY DEF Claim, RefreshUnchanged
<1>2. t \in Nat /\ t <= now /\ t + Pending \in Nat BY CheckAt, ConductorAssumption
<1> HIDE DEF t
<1>3. Kept /\ heap'[mgr].refreshAfter = t + Pending BY <1>1, <1>2, PutOffKept
<1>4. /\ Started(t) \in RefreshType /\ Started(t).pc = "read" /\ Started(t).at = t
      /\ Started(t).overtaken = FALSE
  BY <1>2, StartedType
<1>5. /\ RefreshesOK' /\ refreshes'[r] = Started(t)
      /\ \A s \in Refreshers : s # r => refreshes'[s] = refreshes[s]
  BY <1>1, <1>2, <1>3, <1>4, OneRefresh
<1>6. HeapOK' BY <1>1, <1>3, Frames
<1> QED BY <1>1, <1>3, <1>4, <1>5, <1>6 DEF t

\* markRefreshPending claims a refresh or finds it is not due any more.
LEMMA ClaimTypes ==
  ASSUME Types, NEW k \in Checkers, NEW r \in Refreshers, Claim(k, r)
  PROVE  Types' /\ Kept
<1>1. /\ UNCHANGED <<mgr, sched, offered, raced>> /\ RefreshUnchanged
      /\ checks' = CheckOver(k)
      /\ \/ mgr # 0 /\ Due(heap[mgr], checks[k].at)
         \/ UNCHANGED <<heap, refreshes>>
  BY DEF Claim
<1>2. Kept BY <1>1, SameHeapKept, Claimed
<1>3. RefreshesOK' BY <1>1, <1>2, Claimed, Frames DEF RefreshUnchanged
<1>4. HeapOK' /\ SchedOK' /\ SvcOK' /\ ResultsOK' /\ BackgroundOK' BY <1>1, <1>2, RefreshFrame
<1>5. OrderOK' BY <1>1 DEF RefreshUnchanged, Types, OrderOK
<1>6. ClockOK' BY <1>1, CheckDone DEF RefreshUnchanged
<1> QED BY <1>2, <1>3, <1>4, <1>5, <1>6 DEF Types

\* What reading, cloning and storing make of a goroutine's record.
LEMMA ReadRecord ==
  ASSUME NEW u \in RefreshType, NEW o \in 0..MaxStores
  PROVE  LET v == [u EXCEPT !.pc = "clone", !.obj = o]
         IN  /\ v \in RefreshType /\ v.pc = "clone" /\ v.obj = o /\ v.at = u.at
             /\ v.overtaken = u.overtaken
BY DEF RefreshType

\* What cloning makes of it.
LEMMA CloneRecord ==
  ASSUME NEW u \in RefreshType, NEW a \in Auth
  PROVE  LET v == [u EXCEPT !.pc = "call", !.obj = 0, !.copy = a]
         IN  /\ v \in RefreshType /\ v.pc = "call" /\ v.copy = a /\ v.at = u.at
             /\ v.overtaken = u.overtaken
<1>1. 0 \in 0..MaxStores BY ConductorAssumption
<1> QED BY <1>1 DEF RefreshType

\* What storing makes of it.
LEMMA StoreRecord ==
  ASSUME NEW u \in RefreshType, NEW o \in 0..MaxStores
  PROVE  LET v == [u EXCEPT !.pc = "schedule", !.obj = o, !.copy = Nil]
         IN  v \in RefreshType /\ v.pc = "schedule" /\ v.obj = o /\ v.at = u.at
BY NilType DEF RefreshType

\* refreshAuth takes the stored object, if there is one.
LEMMA ReadTypes ==
  ASSUME Types, NEW r \in Refreshers, ReadForRefresh(r)
  PROVE  /\ Types' /\ Kept
         /\ \A s \in Refreshers : s # r => refreshes'[s] = refreshes[s]
         /\ \/ refreshes'[r].pc = "idle"
            \/ /\ mgr # 0 /\ refreshes'[r].pc = "clone" /\ refreshes'[r].obj = mgr
               /\ refreshes'[r].at = refreshes[r].at
               /\ refreshes'[r].overtaken = refreshes[r].overtaken
<1>1. UNCHANGED <<heap, mgr, sched, offered, checks>> /\ RefreshUnchanged /\ Starts("refresh")
  BY DEF ReadForRefresh, data
<1>2. Kept BY <1>1, SameHeapKept
<1>3. HeapOK' /\ SchedOK' /\ SvcOK' /\ ResultsOK' /\ BackgroundOK' /\ ClockOK'
  BY <1>1, <1>2, RefreshFrame, Frames DEF RefreshUnchanged
<1>4. OrderOK' BY <1>1 DEF RefreshUnchanged, Starts, Types, OrderOK
<1>5. CASE mgr = 0
  <2>1. refreshes' = Rested(r) BY <1>5 DEF ReadForRefresh
  <2>2. RefreshesOK' BY <1>1, <1>2, <2>1, RestedOK DEF RefreshUnchanged
  <2> QED BY <2>1, <2>2, <1>2, <1>3, <1>4, RestedType DEF Types
<1>6. CASE mgr # 0
  <2> DEFINE u == refreshes[r]
             v == [u EXCEPT !.pc = "clone", !.obj = mgr]
  <2>1. refreshes' = [refreshes EXCEPT ![r] = v] BY <1>6 DEF ReadForRefresh
  <2>2. u \in RefreshType /\ u.at <= now BY DEF Types, RefreshesOK
  <2>3. mgr \in 0..MaxStores /\ mgr \in DOMAIN heap'
    BY <1>1, <1>6, StoredType, ConductorAssumption DEF Types, HeapOK
  <2>4. /\ v \in RefreshType /\ v.pc = "clone" /\ v.obj = mgr /\ v.at = u.at
        /\ v.overtaken = u.overtaken
    BY <2>2, <2>3, ReadRecord
  <2> HIDE DEF v
  <2>5. UNCHANGED now BY <1>1 DEF RefreshUnchanged
  <2>6. /\ RefreshesOK' /\ refreshes'[r] = v
        /\ \A s \in Refreshers : s # r => refreshes'[s] = refreshes[s]
    BY <1>2, <2>1, <2>2, <2>3, <2>4, <2>5, OneRefresh
  <2> QED BY <2>4, <2>6, <1>2, <1>3, <1>4, <1>6 DEF Types
<1> QED BY <1>5, <1>6

\* It clones the object it took.
LEMMA CloneTypes ==
  ASSUME Types, NEW r \in Refreshers, CloneForRefresh(r)
  PROVE  /\ Types' /\ Kept
         /\ \A s \in Refreshers : s # r => refreshes'[s] = refreshes[s]
         /\ refreshes'[r].pc = "call" /\ refreshes'[r].copy = heap[refreshes[r].obj]
         /\ refreshes'[r].at = refreshes[r].at
         /\ refreshes'[r].overtaken = refreshes[r].overtaken
<1>1. UNCHANGED <<heap, mgr, sched, offered, checks, raced>> /\ RefreshUnchanged
  BY DEF CloneForRefresh, data
<1>2. Kept BY <1>1, SameHeapKept
<1>3. HeapOK' /\ SchedOK' /\ SvcOK' /\ ResultsOK' /\ BackgroundOK' /\ ClockOK'
  BY <1>1, <1>2, RefreshFrame, Frames DEF RefreshUnchanged
<1>4. OrderOK' BY <1>1 DEF RefreshUnchanged, Types, OrderOK
<1> DEFINE u == refreshes[r]
           w == [u EXCEPT !.pc = "call", !.obj = 0, !.copy = heap[refreshes[r].obj]]
<1>5. refreshes' = [refreshes EXCEPT ![r] = w] BY DEF CloneForRefresh
<1>6. u \in RefreshType /\ u.at <= now /\ u.obj \in DOMAIN heap
  BY DEF CloneForRefresh, Refreshing, Types, RefreshesOK
<1>7. heap[refreshes[r].obj] \in Auth BY <1>6, ElementOfSeq DEF Types, HeapOK
<1>8. /\ w \in RefreshType /\ w.pc = "call" /\ w.copy = heap[refreshes[r].obj]
      /\ w.at = u.at /\ w.overtaken = u.overtaken
  BY <1>6, <1>7, CloneRecord
<1> HIDE DEF w
<1>9. UNCHANGED now BY <1>1 DEF RefreshUnchanged
<1>10. /\ RefreshesOK' /\ refreshes'[r] = w
       /\ \A s \in Refreshers : s # r => refreshes'[s] = refreshes[s]
  BY <1>2, <1>5, <1>6, <1>8, <1>9, OneRefresh
<1> QED BY <1>2, <1>3, <1>4, <1>8, <1>10 DEF Types

\* What a failed call makes of it.
LEMMA FailRecord ==
  ASSUME NEW u \in RefreshType, NEW t \in Nat
  PROVE  LET v == [u EXCEPT !.pc = "failed", !.copy = Nil, !.at = t]
         IN  v \in RefreshType /\ v.pc = "failed" /\ v.at = t
BY NilType DEF RefreshType

\* The call fails.
LEMMA CallFailsTypes ==
  ASSUME Types, NEW r \in Refreshers, CallFails(r)
  PROVE  /\ Types' /\ Kept /\ refreshes'[r].pc = "failed"
         /\ \A s \in Refreshers : s # r => refreshes'[s] = refreshes[s]
<1>1. UNCHANGED <<heap, mgr, sched, offered, checks, raced>> /\ RefreshUnchanged
  BY DEF CallFails, data
<1>2. Kept BY <1>1, SameHeapKept
<1>3. HeapOK' /\ SchedOK' /\ SvcOK' /\ ResultsOK' /\ BackgroundOK' /\ ClockOK'
  BY <1>1, <1>2, RefreshFrame, Frames DEF RefreshUnchanged
<1>4. OrderOK' BY <1>1 DEF RefreshUnchanged, Types, OrderOK
<1> DEFINE v == [refreshes[r] EXCEPT !.pc = "failed", !.copy = Nil, !.at = now]
<1>5. refreshes' = [refreshes EXCEPT ![r] = v] BY DEF CallFails
<1>6. refreshes[r] \in RefreshType BY DEF Types, RefreshesOK
<1>7. now \in Nat /\ now <= now BY DEF Types, ClockOK
<1>8. v \in RefreshType /\ v.pc = "failed" /\ v.at <= now BY <1>6, <1>7, FailRecord
<1> HIDE DEF v
<1>9. /\ RefreshesOK' /\ refreshes'[r] = v
      /\ \A s \in Refreshers : s # r => refreshes'[s] = refreshes[s]
  BY <1>1, <1>2, <1>5, <1>8, OneRefresh DEF RefreshUnchanged
<1> QED BY <1>2, <1>3, <1>4, <1>8, <1>9 DEF Types

\* A refresh that has failed comes to rest and puts the next one off, or brings it
\* forward and overtakes the others.
LEMMA FailTypes ==
  ASSUME Types, NEW r \in Refreshers, RefreshFails(r)
  PROVE  /\ Types' /\ Kept /\ mgr' = mgr /\ refreshes'[r].pc = "idle"
         /\ \A s \in Refreshers : s # r =>
              /\ refreshes'[s].pc = refreshes[s].pc /\ refreshes'[s].obj = refreshes[s].obj
              /\ refreshes'[s].copy = refreshes[s].copy /\ refreshes'[s].at = refreshes[s].at
              /\ refreshes[s].overtaken => refreshes'[s].overtaken
         /\ mgr # 0 =>
              /\ \/ heap'[mgr].refreshAfter >= heap[mgr].refreshAfter
                 \/ \A s \in Refreshers : s # r => refreshes'[s].overtaken
              /\ sched' = UpsertCopy(heap'[mgr]) /\ heap'[mgr] \in Auth
              /\ heap'[mgr].version = heap[mgr].version
              /\ heap'[mgr].disabled = heap[mgr].disabled
         /\ mgr = 0 => UNCHANGED <<heap, sched>>
         /\ UNCHANGED raced
<1> DEFINE next == refreshes[r].at + FailureBackoff
           sooner == mgr # 0 /\ next < heap[mgr].refreshAfter
<1>1. /\ UNCHANGED <<mgr, offered, checks, raced>> /\ RefreshUnchanged
      /\ refreshes' = [x \in Refreshers |->
                         IF x = r THEN Resting
                         ELSE [refreshes[x] EXCEPT !.overtaken = @ \/ sooner]]
      /\ mgr = 0 => UNCHANGED <<heap, sched>>
      /\ mgr # 0 => /\ heap' = [heap EXCEPT ![mgr] = DueAt(@, next)]
                    /\ sched' = UpsertCopy(heap'[mgr])
  BY DEF RefreshFails
<1>2. next \in Nat BY ConductorAssumption DEF Types, RefreshesOK, RefreshType
<1>3. sooner \in BOOLEAN OBVIOUS
<1>4. mgr # 0 /\ ~sooner => next >= heap[mgr].refreshAfter
  <2>1. mgr # 0 => heap[mgr].refreshAfter \in Nat BY StoredType DEF Auth
  <2> QED BY <1>2, <2>1
<1>5. sooner => mgr # 0 OBVIOUS
<1> HIDE DEF next, sooner
<1>6. mgr # 0 => /\ Kept /\ Len(heap') = Len(heap) /\ heap'[mgr] \in Auth
                 /\ heap'[mgr].refreshAfter = next
                 /\ heap'[mgr].version = heap[mgr].version
                 /\ heap'[mgr].disabled = heap[mgr].disabled
  BY <1>1, <1>2, PutOffKept
<1>7. Kept BY <1>1, <1>6, SameHeapKept
<1>8. SchedOK'
  <2>1. CASE mgr # 0
    <3>1. sched' \in [in : BOOLEAN, obj : 0..Len(heap), copy : Auth]
      BY <1>1, <1>6, <2>1, UpsertTypes
    <3> QED BY <1>6, <2>1, <3>1 DEF SchedOK
  <2>2. CASE mgr = 0 BY <1>1, <1>7, <2>2, Frames
  <2> QED BY <2>1, <2>2
<1>9. HeapOK' /\ SvcOK' /\ ResultsOK' /\ BackgroundOK' /\ ClockOK'
  BY <1>1, <1>7, Frames DEF RefreshUnchanged
<1>10. OrderOK' BY <1>1 DEF RefreshUnchanged, Types, OrderOK
<1>11. ASSUME NEW u \in RefreshType, NEW b \in BOOLEAN
       PROVE  LET v == [u EXCEPT !.overtaken = b]
              IN  /\ v \in RefreshType /\ v.pc = u.pc /\ v.obj = u.obj /\ v.copy = u.copy
                  /\ v.at = u.at /\ v.overtaken = b
  BY DEF RefreshType
<1>12. \A s \in Refreshers : refreshes[s] \in RefreshType /\ refreshes[s].at <= now
  BY DEF Types, RefreshesOK
<1>13. refreshes'[r] = Resting BY <1>1
<1>14. \A s \in Refreshers : s # r =>
              /\ refreshes'[s] \in RefreshType
              /\ refreshes'[s].pc = refreshes[s].pc /\ refreshes'[s].obj = refreshes[s].obj
              /\ refreshes'[s].copy = refreshes[s].copy /\ refreshes'[s].at = refreshes[s].at
              /\ refreshes'[s].overtaken = (refreshes[s].overtaken \/ sooner)
  <2> SUFFICES ASSUME NEW s \in Refreshers, s # r
               PROVE  /\ refreshes'[s] \in RefreshType
                      /\ refreshes'[s].pc = refreshes[s].pc /\ refreshes'[s].obj = refreshes[s].obj
                      /\ refreshes'[s].copy = refreshes[s].copy /\ refreshes'[s].at = refreshes[s].at
                      /\ refreshes'[s].overtaken = (refreshes[s].overtaken \/ sooner)
    OBVIOUS
  <2> DEFINE b == refreshes[s].overtaken \/ sooner
             v == [refreshes[s] EXCEPT !.overtaken = b]
  <2>1. refreshes'[s] = v BY <1>1
  <2>2. b \in BOOLEAN OBVIOUS
  <2> HIDE DEF b, RefreshType
  <2>3. /\ v \in RefreshType /\ v.pc = refreshes[s].pc /\ v.obj = refreshes[s].obj
        /\ v.copy = refreshes[s].copy /\ v.at = refreshes[s].at /\ v.overtaken = b
    BY <2>2, <1>11, <1>12
  <2> HIDE DEF v
  <2> QED BY <2>1, <2>3 DEF b
<1>15. RefreshesOK'
  <2>1. refreshes' \in [Refreshers -> RefreshType]
    <3>1. \A s \in Refreshers : refreshes'[s] \in RefreshType BY <1>13, <1>14, RestingType
    <3>2. refreshes' = [s \in Refreshers |-> refreshes'[s]] BY <1>1
    <3> HIDE DEF RefreshType
    <3> QED BY <3>1, <3>2
  <2>2. DOMAIN heap \subseteq DOMAIN heap' BY <1>7 DEF Types, HeapOK, Kept
  <2>3. 0 <= now /\ UNCHANGED now BY <1>1 DEF Types, ClockOK, RefreshUnchanged
  <2>4. ASSUME NEW s \in Refreshers
        PROVE  /\ refreshes'[s].pc \in {"clone", "schedule"} => refreshes'[s].obj \in DOMAIN heap'
               /\ refreshes'[s].at <= now'
    BY <1>12, <1>13, <1>14, <2>2, <2>3, RestingType DEF Types, RefreshesOK
  <2> QED BY <2>1, <2>4 DEF RefreshesOK
<1>16. mgr # 0 => \/ heap'[mgr].refreshAfter >= heap[mgr].refreshAfter
                  \/ \A s \in Refreshers : s # r => refreshes'[s].overtaken
  BY <1>4, <1>6, <1>14
<1> QED BY <1>1, <1>6, <1>7, <1>8, <1>9, <1>10, <1>13, <1>14, <1>15, <1>16, RestingType
        DEF Types, RefreshUnchanged

\* A refresh that was cancelled or has told the scheduler comes to rest.
LEMMA RestTypes ==
  ASSUME Types, NEW r \in Refreshers, RefreshCancelled(r) \/ ScheduleRefreshed(r)
  PROVE  Types' /\ Kept /\ refreshes' = Rested(r) /\ UNCHANGED <<heap, mgr, raced>>
<1>1. /\ refreshes' = Rested(r)
      /\ UNCHANGED <<heap, mgr, offered, checks, raced>> /\ RefreshUnchanged
      /\ \/ sched' = sched
         \/ refreshes[r].pc = "schedule" /\ sched' = UpsertObject(refreshes[r].obj)
  BY DEF RefreshCancelled, ScheduleRefreshed, Refreshing, data
<1>2. Kept BY <1>1, SameHeapKept
<1>3. SchedOK'
  <2>1. refreshes[r].pc = "schedule" => refreshes[r].obj \in DOMAIN heap
    BY DEF Types, RefreshesOK
  <2> QED BY <1>1, <2>1, UpsertTypes DEF SchedOK, Types
<1>4. RefreshesOK' BY <1>1, <1>2, RestedOK DEF RefreshUnchanged
<1>5. HeapOK' /\ SvcOK' /\ ResultsOK' /\ BackgroundOK' /\ ClockOK'
  BY <1>1, <1>2, Frames DEF RefreshUnchanged
<1>6. OrderOK' BY <1>1 DEF RefreshUnchanged, Types, OrderOK
<1> QED BY <1>1, <1>2, <1>3, <1>4, <1>5, <1>6 DEF Types

\* It stores the refreshed clone, and overtakes the other refreshes.
LEMMA StoreRefreshedTypes ==
  ASSUME Types, NEW r \in Refreshers, StoreRefreshed(r)
  PROVE  /\ Types' /\ Kept /\ mgr' # 0 /\ mgr' \in DOMAIN heap' /\ refreshes[r].pc = "call"
         /\ heap'[mgr'].version = refreshes[r].copy.version
         /\ heap'[mgr'].disabled = refreshes[r].copy.disabled
         /\ refreshes'[r].pc = "schedule" /\ refreshes'[r].obj = mgr'
         /\ \A s \in Refreshers : s # r =>
              /\ refreshes'[s].pc = refreshes[s].pc /\ refreshes'[s].obj = refreshes[s].obj
              /\ refreshes'[s].copy = refreshes[s].copy /\ refreshes'[s].at = refreshes[s].at
              /\ refreshes'[s].overtaken = TRUE
         /\ UNCHANGED <<sched, offered, checks, raced>> /\ RefreshUnchanged
<1> DEFINE a == [refreshes[r].copy EXCEPT !.refreshAfter = 0]
<1>1. /\ UNCHANGED <<sched, offered, checks, raced>> /\ RefreshUnchanged
      /\ refreshes[r].pc = "call" /\ Len(heap) < MaxStores
      /\ heap' = Append(heap, Updated(a)) /\ mgr' = Len(heap) + 1
      /\ refreshes' = [x \in Refreshers |->
                     IF x = r THEN [refreshes[r] EXCEPT !.pc = "schedule", !.obj = mgr', !.copy = Nil]
                     ELSE [refreshes[x] EXCEPT !.overtaken = TRUE]]
  BY DEF StoreRefreshed, Refreshing
<1>2. /\ a \in Auth /\ a.version = refreshes[r].copy.version
      /\ a.disabled = refreshes[r].copy.disabled
  <2>1. refreshes[r].copy \in Auth BY DEF Types, RefreshesOK, RefreshType
  <2>2. ASSUME NEW u \in Auth
        PROVE  LET b == [u EXCEPT !.refreshAfter = 0]
               IN  b \in Auth /\ b.version = u.version /\ b.disabled = u.disabled
    BY DEF Auth
  <2> QED BY <2>1, <2>2
<1> HIDE DEF a
<1>3. /\ Updated(a) \in Auth /\ Updated(a).version = refreshes[r].copy.version
      /\ Updated(a).disabled = refreshes[r].copy.disabled
  BY <1>2, UpdatedType
<1>4. /\ Kept /\ Len(heap') = Len(heap) + 1 /\ Len(heap') \in DOMAIN heap' /\ Len(heap) \in Nat
      /\ heap'[Len(heap')] = Updated(a)
  BY <1>1, <1>3, AppendKept
<1>5. mgr' = Len(heap') /\ mgr' # 0 BY <1>1, <1>4
<1>6. HeapOK' BY <1>4, <1>5 DEF HeapOK, Kept
<1>7. SchedOK' /\ SvcOK' /\ ResultsOK' /\ BackgroundOK' /\ ClockOK'
  BY <1>1, <1>4, Frames DEF RefreshUnchanged
<1>8. OrderOK' BY <1>1 DEF RefreshUnchanged, Types, OrderOK
<1>9. mgr' \in 0..MaxStores BY <1>4, <1>5, ConductorAssumption DEF Kept
<1>10. ASSUME NEW u \in RefreshType
       PROVE  LET v == [u EXCEPT !.overtaken = TRUE]
              IN  /\ v \in RefreshType /\ v.pc = u.pc /\ v.obj = u.obj /\ v.copy = u.copy
                  /\ v.at = u.at /\ v.overtaken = TRUE
  BY DEF RefreshType
<1>11. \A s \in Refreshers : refreshes[s] \in RefreshType /\ refreshes[s].at <= now
  BY DEF Types, RefreshesOK
<1>12. /\ refreshes'[r] \in RefreshType /\ refreshes'[r].pc = "schedule" /\ refreshes'[r].obj = mgr'
       /\ refreshes'[r].at = refreshes[r].at
  <2> DEFINE v == [refreshes[r] EXCEPT !.pc = "schedule", !.obj = mgr', !.copy = Nil]
  <2>1. refreshes'[r] = v BY <1>1
  <2>2. v \in RefreshType /\ v.pc = "schedule" /\ v.obj = mgr' /\ v.at = refreshes[r].at
    BY <1>9, <1>11, StoreRecord
  <2> HIDE DEF v
  <2> QED BY <2>1, <2>2
<1>13. \A s \in Refreshers : s # r =>
              /\ refreshes'[s] \in RefreshType
              /\ refreshes'[s].pc = refreshes[s].pc /\ refreshes'[s].obj = refreshes[s].obj
              /\ refreshes'[s].copy = refreshes[s].copy /\ refreshes'[s].at = refreshes[s].at
              /\ refreshes'[s].overtaken = TRUE
  <2>1. \A s \in Refreshers : s # r => refreshes'[s] = [refreshes[s] EXCEPT !.overtaken = TRUE]
    BY <1>1
  <2> HIDE DEF RefreshType
  <2> QED BY <2>1, <1>10, <1>11
<1>14. RefreshesOK'
  <2>1. refreshes' \in [Refreshers -> RefreshType]
    <3>1. \A s \in Refreshers : refreshes'[s] \in RefreshType BY <1>12, <1>13
    <3>2. refreshes' = [s \in Refreshers |-> refreshes'[s]] BY <1>1
    <3> HIDE DEF RefreshType
    <3> QED BY <3>1, <3>2
  <2>2. DOMAIN heap \subseteq DOMAIN heap' BY <1>4 DEF Types, HeapOK, Kept
  <2>3. mgr' \in DOMAIN heap' BY <1>4, <1>5
  <2>4. ASSUME NEW s \in Refreshers
        PROVE  /\ refreshes'[s].pc \in {"clone", "schedule"} => refreshes'[s].obj \in DOMAIN heap'
               /\ refreshes'[s].at <= now'
    BY <1>1, <1>11, <1>12, <1>13, <2>2, <2>3 DEF Types, RefreshesOK, RefreshUnchanged
  <2> QED BY <2>1, <2>4 DEF RefreshesOK
<1> QED BY <1>1, <1>3, <1>4, <1>5, <1>6, <1>7, <1>8, <1>12, <1>13, <1>14 DEF Types

-----------------------------------------------------------------------------
(* The types: the rebuild, the catalog callback and the clock. *)

\* The rebuild takes its snapshot and tells the scheduler.
LEMMA RebuildTypes ==
  ASSUME Types, SnapshotAuths \/ Rebuild
  PROVE  Types' /\ Kept
<1> DEFINE S == {"idle", "empty", "rebuild"}
<1>1. UNCHANGED <<heap, mgr, offered, svc, order, results, checks, refreshes, catalog, now>>
  BY DEF SnapshotAuths, Rebuild, data
<1>2. Kept BY <1>1, SameHeapKept
<1>3. HeapOK' /\ SvcOK' /\ ResultsOK' /\ RefreshesOK' /\ ClockOK' BY <1>1, <1>2, Frames
<1>4. OrderOK' BY DEF SnapshotAuths, Rebuild, Starts, Types, OrderOK
<1>5. rebuild' \in ProcType(S)
  <2>1. \/ rebuild' = At("idle") \/ rebuild' = At("empty")
        \/ mgr # 0 /\ rebuild' = Keeping("rebuild", heap[mgr])
    BY DEF SnapshotAuths, Rebuild, Idle
  <2> QED BY <2>1, StoredType, ProcTypes
<1>6. BackgroundOK' BY <1>1, <1>5 DEF Types, BackgroundOK
<1>7. SchedOK'
  <2>1. rebuild.copy \in Auth BY DEF Types, BackgroundOK, ProcType
  <2>2. \/ sched' = sched \/ sched' = Out \/ sched' = UpsertCopy(rebuild.copy)
    BY DEF SnapshotAuths, Rebuild, data
  <2> QED BY <1>1, <2>1, <2>2, UpsertTypes DEF Types, SchedOK
<1> QED BY <1>2, <1>3, <1>4, <1>6, <1>7 DEF Types

\* The callback of a new catalog.
LEMMA CatalogTypes ==
  ASSUME Types, Catalog
  PROVE  Types' /\ Kept
<1> DEFINE S == {"idle", "register", "latest", "withdraw", "confirm", "entry", "refresh_entry"}
<1> USE DEF Catalog, ListForCatalog, RegisterListed, GetLatest, SettleLatest, CatalogCloneEntry,
            CatalogUpsertEntry
<1>1. CatalogUnchanged OBVIOUS
<1>2. Kept BY <1>1, SameHeapKept DEF CatalogUnchanged
<1>3. HeapOK' /\ SvcOK' /\ ResultsOK' /\ RefreshesOK' BY <1>1, <1>2, Frames DEF CatalogUnchanged
<1>4. OrderOK' BY <1>1 DEF CatalogUnchanged, Starts, Types, OrderOK
<1>5. catalog' \in ProcType(S)
  <2>1. \/ \E pc \in S : catalog' = At(pc)
        \/ mgr # 0 /\ catalog' = Keeping("refresh_entry", heap[mgr])
    BY DEF Idle
  <2> QED BY <2>1, StoredType, ProcTypes
<1>6. BackgroundOK' BY <1>1, <1>5 DEF Types, BackgroundOK, CatalogUnchanged
<1>7. SchedOK'
  <2>1. catalog.copy \in Auth BY DEF Types, BackgroundOK, ProcType
  <2>2. sched' = sched \/ sched' = UpsertCopy(catalog.copy) OBVIOUS
  <2> QED BY <1>1, <2>1, <2>2, UpsertTypes DEF Types, SchedOK, CatalogUnchanged
<1>8. ClockOK'
  <2>1. offered' \in BOOLEAN BY DEF Types, ClockOK
  <2> QED BY <1>1, <2>1 DEF Types, ClockOK, ChecksOK, CatalogUnchanged
<1> QED BY <1>2, <1>3, <1>4, <1>6, <1>7, <1>8 DEF Types

\* The clock.
LEMMA TickTypes == Types /\ Tick => Types' /\ Kept
<1> SUFFICES ASSUME Types, Tick PROVE Types' /\ Kept OBVIOUS
<1>1. UNCHANGED <<heap, mgr, sched, offered, svc, results, checks, refreshes, rebuild, catalog,
                  order, raced>>
      /\ now < MaxNow /\ now' = now + 1
  BY DEF Tick, data, procs
<1>2. Kept BY <1>1, SameHeapKept
<1>3. HeapOK' /\ SchedOK' /\ SvcOK' /\ ResultsOK' /\ BackgroundOK' BY <1>1, <1>2, Frames
<1>4. OrderOK' BY <1>1 DEF Types, OrderOK
<1>5. now' \in 1..MaxNow /\ now <= now' BY <1>1, ConductorAssumption DEF Types, ClockOK
<1>6. ClockOK'
  <2>1. ASSUME NEW k \in Checkers PROVE checks[k].at <= now'
    <3>1. checks[k].at \in Nat /\ checks[k].at <= now BY CheckAt
    <3> QED BY <3>1, <1>1, <1>5 DEF Types, ClockOK
  <2> QED BY <1>1, <1>5, <2>1 DEF Types, ClockOK, ChecksOK
<1>7. RefreshesOK'
  <2>1. ASSUME NEW r \in Refreshers PROVE refreshes[r].at <= now'
    <3>1. refreshes[r].at \in Nat /\ refreshes[r].at <= now
      BY DEF Types, RefreshesOK, RefreshType
    <3> QED BY <3>1, <1>1, <1>5 DEF Types, ClockOK
  <2> QED BY <1>1, <2>1 DEF Types, RefreshesOK
<1> QED BY <1>2, <1>3, <1>4, <1>6, <1>7 DEF Types

\* Nothing happens.
LEMMA StutterTypes == Types /\ UNCHANGED vars => Types' /\ Kept
<1> SUFFICES ASSUME Types, UNCHANGED vars PROVE Types' /\ Kept OBVIOUS
<1>1. UNCHANGED <<heap, mgr, sched, offered, svc, results, checks, refreshes, rebuild, catalog,
                  order, raced, now>>
  BY DEF vars, data, procs
<1>2. Kept BY <1>1, SameHeapKept
<1>3. OrderOK' BY <1>1 DEF Types, OrderOK
<1> QED BY <1>1, <1>2, <1>3, Frames DEF Types

\* No step breaks the types or remakes a stored object.
LEMMA TypesStep == ASSUME Types, [Next]_vars PROVE Types' /\ Kept
<1>1. CASE Service
  BY <1>1, ReceiveTypes, SvcReadsTypes, SvcWritesTypes, SvcStoresTypes DEF Service
<1>2. CASE \E r \in Refreshers : Refresh(r)
  BY <1>2, ClaimTypes, ReadTypes, CloneTypes, CallFailsTypes, FailTypes, RestTypes,
     StoreRefreshedTypes
     DEF Refresh
<1> QED BY <1>1, <1>2, RequestTypes, BeginTypes, LookTypes, RebuildTypes, CatalogTypes, TickTypes, StutterTypes
        DEF Next

\* Nothing is stored and nobody is at work to begin with.
LEMMA TypesInit == Init => Types
<1> SUFFICES ASSUME Init PROVE Types OBVIOUS
<1>1. heap = <<>> /\ Len(heap) = 0 /\ heap \in Seq(Auth) BY EmptySeq DEF Init
<1>2. HeapOK BY <1>1, ConductorAssumption DEF Init, HeapOK
<1>3. SchedOK BY <1>1, NilType DEF Init, SchedOK, Out
<1>4. /\ Idle \in ProcType(SvcPcs) /\ Idle \in ProcType({"idle", "upsert"})
      /\ Idle \in ProcType({"idle", "empty", "rebuild"})
      /\ Idle \in ProcType({"idle", "register", "latest", "withdraw", "confirm", "entry",
                            "refresh_entry"})
  BY ProcTypes DEF SvcPcs, Idle
<1>5. SvcOK BY <1>4 DEF Init, SvcOK, Idle, At
<1>6. ResultsOK
  <2> HIDE DEF ProcType
  <2> QED BY <1>4 DEF Init, ResultsOK
<1>7. RefreshesOK
  <2>1. refreshes = [r \in Refreshers |-> Resting] /\ now = 1 BY DEF Init
  <2> HIDE DEF RefreshType
  <2> QED BY <2>1, RestingType DEF RefreshesOK
<1>8. BackgroundOK BY <1>4 DEF Init, BackgroundOK
<1>9. OrderOK BY ConductorAssumption DEF Init, OrderOK
<1>10. ClockOK
  <2>1. 1 \in 1..MaxNow BY ConductorAssumption
  <2>2. /\ checks = [k \in Checkers |-> [pc |-> "idle", at |-> 0]]
        /\ now = 1 /\ offered = FALSE
    BY DEF Init
  <2>3. [pc |-> "idle", at |-> 0] \in CheckType BY DEF CheckType
  <2>4. ChecksOK
    <3> HIDE DEF CheckType
    <3>1. checks \in [Checkers -> CheckType] BY <2>2, <2>3
    <3>2. \A k \in Checkers : checks[k].at <= now BY <2>2
    <3> QED BY <3>1, <3>2 DEF ChecksOK
  <2> QED BY <2>1, <2>2, <2>4 DEF ClockOK
<1> QED BY <1>2, <1>3, <1>5, <1>6, <1>7, <1>8, <1>9, <1>10 DEF Types

-----------------------------------------------------------------------------
(* Refreshes stay apart. *)

\* A refresh under way has put off the next one of the object that is stored.
PutOff ==
  \A r \in Refreshers :
    Spending(r) /\ ~refreshes[r].overtaken /\ mgr # 0 =>
      heap[mgr].refreshAfter >= refreshes[r].at + Pending

Apart == RefreshesApart /\ PutOff

\* The next refresh of what is stored is at an instant.
LEMMA StoredInstant == Types => (mgr # 0 => heap[mgr].refreshAfter \in Nat)
BY StoredType DEF Auth

\* The numbers the arguments below compare.
LEMMA Instants ==
  ASSUME Types
  PROVE  /\ now \in Nat /\ Pending \in Nat \ {0}
         /\ \A r \in Refreshers : refreshes[r].at \in Nat /\ refreshes[r].at <= now
         /\ mgr # 0 => heap[mgr].refreshAfter \in Nat
<1>1. now \in Nat /\ Pending \in Nat \ {0} BY ConductorAssumption DEF Types, ClockOK
<1>2. \A r \in Refreshers : refreshes[r].at \in Nat /\ refreshes[r].at <= now
  BY DEF Types, RefreshesOK, RefreshType
<1>3. mgr # 0 => heap[mgr].refreshAfter \in Nat BY StoredType DEF Auth
<1> QED BY <1>1, <1>2, <1>3

\* Nothing but a claim starts a refresh, and what brings the next one forward
\* overtakes those under way.
LEMMA ApartKept ==
  ASSUME Types, Types', Apart,
         \A r \in Refreshers : Spending(r)' /\ ~refreshes'[r].overtaken =>
           Spending(r) /\ ~refreshes[r].overtaken /\ refreshes'[r].at = refreshes[r].at,
         mgr' # 0 =>
           \/ mgr' = mgr /\ heap'[mgr].refreshAfter >= heap[mgr].refreshAfter
           \/ \A r \in Refreshers : Spending(r)' => refreshes'[r].overtaken
  PROVE  Apart'
<1>1. PutOff'
  <2> SUFFICES ASSUME NEW r \in Refreshers, Spending(r)', ~refreshes'[r].overtaken, mgr' # 0
               PROVE  heap'[mgr'].refreshAfter >= refreshes'[r].at + Pending
    BY DEF PutOff
  <2>1. /\ Spending(r) /\ ~refreshes[r].overtaken /\ refreshes'[r].at = refreshes[r].at
        /\ mgr' = mgr /\ heap'[mgr].refreshAfter >= heap[mgr].refreshAfter
    OBVIOUS
  <2>2. heap[mgr].refreshAfter >= refreshes[r].at + Pending BY <2>1 DEF Apart, PutOff
  <2>3. /\ refreshes[r].at + Pending \in Nat /\ heap[mgr].refreshAfter \in Nat
        /\ heap'[mgr'].refreshAfter \in Nat
    <3>1. (mgr # 0 => heap[mgr].refreshAfter \in Nat)' BY StoredInstant, PTL
    <3> QED BY <2>1, <3>1, Instants
  <2>4. ASSUME NEW a \in Nat, NEW b \in Nat, NEW c \in Nat, a >= b, b >= c PROVE a >= c
    BY <2>4
  <2> QED BY <2>1, <2>2, <2>3, <2>4
<1>2. RefreshesApart'
  <2>1. TypeOK' BY TypesGive, PTL
  <2>2. ASSUME NEW r \in Refreshers, NEW s \in Refreshers, r # s, Spending(r)', Spending(s)',
               refreshes'[r].at <= refreshes'[s].at,
               ~refreshes'[r].overtaken, ~refreshes'[s].overtaken
        PROVE  refreshes'[s].at >= refreshes'[r].at + Pending
    BY <2>2 DEF Apart, RefreshesApart
  <2> QED BY <2>1, <2>2 DEF RefreshesApart
<1> QED BY <1>1, <1>2 DEF Apart

\* A claim follows the ones before it by the pending time, or they are overtaken.
LEMMA ClaimApart ==
  ASSUME Types, Types', Apart, NEW k \in Checkers, NEW r \in Refreshers, Claim(k, r),
         mgr # 0, Due(heap[mgr], checks[k].at)
  PROVE  Apart'
<1> DEFINE t == checks[k].at
<1>1. /\ refreshes'[r].at = t /\ refreshes'[r].pc = "read"
      /\ \A s \in Refreshers : s # r => refreshes'[s] = refreshes[s]
      /\ heap'[mgr].refreshAfter = t + Pending /\ mgr' = mgr
  BY Claimed
<1>2. t \in Nat /\ Pending \in Nat \ {0} BY CheckAt, Instants
<1>3. heap[mgr].refreshAfter <= t BY DEF Due
<1> HIDE DEF t
<1>4. ASSUME NEW s \in Refreshers, s # r, Spending(s), ~refreshes[s].overtaken
      PROVE  t >= refreshes[s].at + Pending
  <2>1. heap[mgr].refreshAfter >= refreshes[s].at + Pending BY <1>4 DEF Apart, PutOff
  <2>2. heap[mgr].refreshAfter \in Nat /\ refreshes[s].at \in Nat BY Instants
  <2> QED BY ONLY <1>2, <1>3, <2>1, <2>2
<1>5. PutOff'
  <2> SUFFICES ASSUME NEW s \in Refreshers, Spending(s)', ~refreshes'[s].overtaken
               PROVE  t + Pending >= refreshes'[s].at + Pending
    BY <1>1 DEF PutOff
  <2>1. CASE s = r BY <1>1, <1>2, <2>1
  <2>2. CASE s # r
    <3>1. Spending(s) /\ ~refreshes[s].overtaken /\ refreshes'[s].at = refreshes[s].at
      BY <1>1, <2>2 DEF Spending
    <3>2. t >= refreshes[s].at + Pending BY <1>4, <2>2, <3>1
    <3>3. refreshes[s].at \in Nat BY Instants
    <3>4. t + Pending >= refreshes[s].at + Pending BY ONLY <1>2, <3>2, <3>3
    <3> QED BY <3>1, <3>4
  <2> QED BY <2>1, <2>2
<1>6. ASSUME NEW x \in Refreshers, NEW y \in Refreshers, x # y, Spending(x)', Spending(y)',
             refreshes'[x].at <= refreshes'[y].at,
             ~refreshes'[x].overtaken, ~refreshes'[y].overtaken
      PROVE  refreshes'[y].at >= refreshes'[x].at + Pending
  <2>1. CASE x # r /\ y # r BY <1>1, <1>6, <2>1 DEF Apart, RefreshesApart, Spending
  <2>2. CASE y = r
    <3>1. Spending(x) /\ ~refreshes[x].overtaken /\ refreshes'[x] = refreshes[x]
      BY <1>1, <1>6, <2>2 DEF Spending
    <3> QED BY <1>1, <1>4, <1>6, <2>2, <3>1
  <2>3. CASE x = r
    <3>1. Spending(y) /\ ~refreshes[y].overtaken /\ refreshes'[y] = refreshes[y]
      BY <1>1, <1>6, <2>3 DEF Spending
    <3>2. t >= refreshes[y].at + Pending BY <1>4, <1>6, <2>3, <3>1
    <3>3. t <= refreshes[y].at BY <1>1, <1>6, <2>3, <3>1
    <3>4. refreshes[y].at \in Nat BY Instants
    <3>5. FALSE BY ONLY <1>2, <3>2, <3>3, <3>4
    <3> QED BY <3>5
  <2> QED BY <2>1, <2>2, <2>3
<1>7. RefreshesApart'
  <2>1. TypeOK' BY TypesGive, PTL
  <2> QED BY <1>6, <2>1 DEF RefreshesApart
<1> QED BY <1>5, <1>7 DEF Apart

\* An object of the service overtakes every refresh.
LEMMA StoreOvertakes ==
  ASSUME NEW a, StoreObject(a), Types
  PROVE  \A r \in Refreshers : refreshes'[r].overtaken = TRUE
BY DEF StoreObject, Types, RefreshesOK, RefreshType

\* Every step keeps refreshes apart.
LEMMA ApartStep == ASSUME Types, Types', Apart, [Next]_vars PROVE Apart'
<1>0. UNCHANGED <<mgr, heap>> =>
        (mgr' # 0 => mgr' = mgr /\ heap'[mgr].refreshAfter >= heap[mgr].refreshAfter)
  <2>1. mgr # 0 => heap[mgr].refreshAfter \in Nat BY Instants
  <2>2. \A n \in Nat : n >= n OBVIOUS
  <2> QED BY <2>1, <2>2
<1>1. CASE UNCHANGED <<mgr, heap, refreshes>>
  BY <1>0, <1>1, ApartKept DEF Spending
<1>2. CASE UNCHANGED refreshes /\ mgr' = 0
  BY <1>2, ApartKept DEF Spending
<1>3. CASE \E q \in Requests : MarkResult(q)
  <2>1. /\ mgr # 0 /\ mgr' = mgr /\ UNCHANGED refreshes
        /\ heap' = [heap EXCEPT ![mgr] = Marked(@)]
    BY <1>3 DEF MarkResult
  <2>2. heap'[mgr].refreshAfter >= heap[mgr].refreshAfter
    <3>1. heap'[mgr].refreshAfter = heap[mgr].refreshAfter BY <2>1, MarkedKept
    <3>2. heap[mgr].refreshAfter \in Nat BY <2>1, Instants
    <3>3. \A n \in Nat : n >= n OBVIOUS
    <3> QED BY <3>1, <3>2, <3>3
  <2> QED BY <2>1, <2>2, ApartKept DEF Spending
<1>4. CASE RegisterAuth \/ UpdateAuth
  <2>1. \A r \in Refreshers : refreshes'[r].overtaken = TRUE
    BY <1>4, SvcStoresTypes, StoreOvertakes
  <2> QED BY <2>1, ApartKept
<1>5. ASSUME NEW r \in Refreshers, Refresh(r) PROVE Apart'
  <2>1. CASE \E k \in Checkers : Claim(k, r) /\ mgr # 0 /\ Due(heap[mgr], checks[k].at)
    BY <2>1, ClaimApart
  <2>2. CASE \E k \in Checkers : Claim(k, r) /\ ~(mgr # 0 /\ Due(heap[mgr], checks[k].at))
    BY <2>2, <1>1 DEF Claim
  <2>3. CASE ReadForRefresh(r)
    <3>1. mgr' = mgr /\ heap' = heap BY <2>3 DEF ReadForRefresh, data
    <3>2. Spending(r) BY <2>3 DEF ReadForRefresh, Refreshing, Spending
    <3> QED BY <1>0, <2>3, <3>1, <3>2, ReadTypes, ApartKept DEF Spending
  <2>4. CASE CloneForRefresh(r)
    <3>1. mgr' = mgr /\ heap' = heap BY <2>4 DEF CloneForRefresh, data
    <3>2. Spending(r) BY <2>4 DEF CloneForRefresh, Refreshing, Spending
    <3> QED BY <1>0, <2>4, <3>1, <3>2, CloneTypes, ApartKept DEF Spending
  <2>5. CASE RefreshCancelled(r) \/ ScheduleRefreshed(r)
    <3>1. refreshes' = Rested(r) /\ mgr' = mgr /\ heap' = heap BY <2>5, RestTypes
    <3>2. /\ refreshes'[r].pc = "idle"
          /\ \A s \in Refreshers : s # r => refreshes'[s] = refreshes[s]
      BY <3>1, RestedType
    <3>3. ~Spending(r)' BY <3>2 DEF Spending
    <3> QED BY <1>0, <3>1, <3>2, <3>3, ApartKept DEF Spending
  <2>7. CASE CallFails(r)
    <3>1. mgr' = mgr /\ heap' = heap BY <2>7 DEF CallFails, data
    <3>2. /\ refreshes'[r].pc = "failed"
          /\ \A s \in Refreshers : s # r => refreshes'[s] = refreshes[s]
      BY <2>7, CallFailsTypes
    <3>3. ~Spending(r)' BY <3>2 DEF Spending
    <3> QED BY <1>0, <3>1, <3>2, <3>3, ApartKept DEF Spending
  <2>8. CASE RefreshFails(r)
    <3>1. /\ mgr' = mgr /\ refreshes'[r].pc = "idle"
          /\ \A s \in Refreshers : s # r =>
               /\ refreshes'[s].pc = refreshes[s].pc /\ refreshes'[s].at = refreshes[s].at
               /\ refreshes[s].overtaken => refreshes'[s].overtaken
          /\ mgr # 0 => \/ heap'[mgr].refreshAfter >= heap[mgr].refreshAfter
                        \/ \A s \in Refreshers : s # r => refreshes'[s].overtaken
      BY <2>8, FailTypes
    <3>2. ~Spending(r)' BY <3>1 DEF Spending
    <3>3. \A s \in Refreshers : Spending(s)' /\ ~refreshes'[s].overtaken =>
            Spending(s) /\ ~refreshes[s].overtaken /\ refreshes'[s].at = refreshes[s].at
      BY <3>1, <3>2 DEF Spending
    <3> QED BY <3>1, <3>2, <3>3, ApartKept
  <2>6. CASE StoreRefreshed(r)
    <3>1. /\ refreshes'[r].pc = "schedule"
          /\ \A s \in Refreshers : s # r => refreshes'[s].overtaken = TRUE
      BY <2>6, StoreRefreshedTypes
    <3>2. ~Spending(r)' BY <3>1 DEF Spending
    <3> QED BY <3>1, <3>2, ApartKept
  <2> QED BY <1>5, <2>1, <2>2, <2>3, <2>4, <2>5, <2>6, <2>7, <2>8 DEF Refresh
<1>6. CASE Service
  <2>1. CASE RegisterAuth \/ UpdateAuth BY <2>1, <1>4
  <2>2. CASE (\E disabled \in BOOLEAN : ReceiveUpdate(disabled)) \/ ReceiveDelete
    BY <2>2, <1>1 DEF ReceiveUpdate, ReceiveDelete, data
  <2>3. CASE DeleteAuth BY <2>3, <1>2 DEF DeleteAuth
  <2>4. CASE GetExisting \/ ScheduleStored \/ RegisterModels \/ CloneEntry \/ UpsertEntry
               \/ UnregisterModels \/ Unschedule
    BY <2>4, <1>1 DEF GetExisting, ScheduleStored, RegisterModels, CloneEntry, UpsertEntry,
                      UnregisterModels, Unschedule, data
  <2> QED BY <1>6, <2>1, <2>2, <2>3, <2>4 DEF Service
<1>7. CASE (\E q \in Requests : UpsertResult(q)) \/ (\E k \in Checkers : BeginCheck(k) \/ LookForDue(k))
             \/ SnapshotAuths \/ Rebuild \/ Tick \/ UNCHANGED vars
  BY <1>7, <1>1 DEF UpsertResult, BeginCheck, LookForDue, SnapshotAuths, Rebuild, Tick, vars, data, procs
<1>8. CASE Catalog
  BY <1>8, <1>1 DEF Catalog, ListForCatalog, RegisterListed, GetLatest, SettleLatest,
                    CatalogCloneEntry, CatalogUpsertEntry, CatalogUnchanged
<1> QED BY <1>3, <1>5, <1>6, <1>7, <1>8 DEF Next, Request

\* Two refreshes of one credential run at once only if the older one has outlasted the
\* pending time, counted from the instants the loops went by, or the credential was
\* replaced, or its next refresh brought forward, while they ran.
THEOREM RefreshesAlwaysApart == Spec => []RefreshesApart
<1>1. Init => Types /\ Apart
  <2> SUFFICES ASSUME Init PROVE Apart BY TypesInit
  <2>1. \A r \in Refreshers : ~Spending(r) BY DEF Init, Spending, Resting
  <2> QED BY <2>1, TypesInit, TypesGive DEF Apart, RefreshesApart, PutOff
<1>2. Types /\ Apart /\ [Next]_vars => Types' /\ Apart' BY TypesStep, ApartStep
<1>3. Apart => RefreshesApart BY DEF Apart
<1> QED BY <1>1, <1>2, <1>3, PTL DEF Spec

-----------------------------------------------------------------------------
(* What each part has of the last order. *)

\* What comes from the last order.
Ordered(a) == a.version = order.number /\ a.disabled = order.disabled
Wanted == order.kind = "update" /\ ~order.disabled

\* The service carries out the order it was given.
Follows ==
  svc.pc \in IF order.kind = "update"
             THEN {"idle", "get", "register", "update", "schedule", "models", "entry",
                   "refresh_entry"}
             ELSE {"idle", "unregister", "delete", "unschedule"}

\* Unless a refresh overlapped with the order, the manager has what the order said as
\* soon as the service has stored it, ...
ManagerSettled ==
  IF order.kind = "update"
  THEN /\ svc.pc \in {"schedule", "models", "entry", "refresh_entry", "idle"} =>
            mgr # 0 /\ Ordered(heap[mgr])
       /\ svc.pc = "refresh_entry" => Ordered(svc.copy)
  ELSE svc.pc \in {"unschedule", "idle"} => mgr = 0

\* ... and so has each refresh that read its object since.
RefreshSettled ==
  \A r \in Refreshers :
    /\ refreshes[r].pc \in {"clone", "call", "schedule"} =>
         svc.pc = "idle" /\ order.kind = "update"
    /\ refreshes[r].pc \in {"clone", "schedule"} => Ordered(heap[refreshes[r].obj])
    /\ refreshes[r].pc = "call" => Ordered(refreshes[r].copy)

ByManager == "refresh" \notin raced => ManagerSettled /\ RefreshSettled

\* Unless a catalog callback overlapped too, the registry has what the order said,
\* but for what a callback has registered and not checks at again.
OfferSettled ==
  catalog.pc \notin {"latest", "withdraw", "confirm"} =>
    /\ order.kind = "update" /\ svc.pc \in {"entry", "refresh_entry", "idle"} =>
         (offered <=> Wanted)
    /\ order.kind = "delete" /\ svc.pc \in {"delete", "unschedule", "idle"} => ~offered

CatalogSettled ==
  /\ catalog.pc \in {"withdraw", "confirm", "entry", "refresh_entry"} => svc.pc = "idle"
  /\ catalog.pc = "withdraw" => ~Wanted
  /\ catalog.pc = "confirm" => Wanted
  /\ catalog.pc = "refresh_entry" => order.kind = "update" /\ Ordered(catalog.copy)

ByRegistry == raced \cap {"refresh", "catalog"} = {} => OfferSettled /\ CatalogSettled

\* If nothing overlapped, the scheduler has what the order said, and so has what
\* requests and rebuilds are about to tell it.
SchedSettled == svc.pc = "idle" => (sched.in <=> Wanted) /\ (Wanted => Scheduled.version = order.number)
TellersSettled ==
  /\ \A q \in Requests : results[q].pc = "upsert" =>
       svc.pc = "idle" /\ order.kind = "update" /\ Ordered(results[q].copy)
  /\ rebuild.pc # "idle" => svc.pc = "idle"
  /\ rebuild.pc = "empty" => order.kind = "delete"
  /\ rebuild.pc = "rebuild" => order.kind = "update" /\ Ordered(rebuild.copy)

ByScheduler == raced = {} => SchedSettled /\ TellersSettled

OrderInv == Follows /\ ByManager /\ ByRegistry /\ ByScheduler

-----------------------------------------------------------------------------
(* What leaves a part alone, and what settles it. *)

\* At rest the stored object is the order's, if there is to be one.
LEMMA StoredOrdered ==
  ASSUME Types, ByManager, "refresh" \notin raced, svc.pc = "idle"
  PROVE  /\ mgr # 0 => order.kind = "update" /\ Ordered(heap[mgr])
         /\ mgr = 0 => order.kind = "delete"
BY DEF ByManager, ManagerSettled, Types, OrderOK

\* An object of the order stays the order's.
LEMMA KeptOrdered ==
  ASSUME Kept, UNCHANGED order, NEW o \in DOMAIN heap, Ordered(heap[o])
  PROVE  Ordered(heap[o])'
BY DEF Kept, Ordered

\* Steps that leave the manager and the refreshes alone keep what they have.
LEMMA ManagerFrame ==
  ASSUME Types, Kept, ByManager, UNCHANGED <<svc, order, mgr, refreshes>>, raced \subseteq raced'
  PROVE  ByManager'
<1> SUFFICES ASSUME "refresh" \notin raced' PROVE ManagerSettled' /\ RefreshSettled'
  BY DEF ByManager
<1>1. ManagerSettled /\ RefreshSettled BY DEF ByManager
<1>2. mgr # 0 /\ Ordered(heap[mgr]) => Ordered(heap[mgr])'
  <2>1. mgr # 0 => mgr \in DOMAIN heap BY StoredType
  <2> QED BY <2>1, KeptOrdered
<1>3. ManagerSettled' BY <1>1, <1>2 DEF ManagerSettled, Ordered
<1>4. RefreshSettled'
  <2> SUFFICES ASSUME NEW r \in Refreshers
      PROVE /\ refreshes[r].pc \in {"clone", "call", "schedule"} =>
                 svc.pc = "idle" /\ order.kind = "update"
            /\ refreshes[r].pc \in {"clone", "schedule"} => Ordered(heap[refreshes[r].obj])'
            /\ refreshes[r].pc = "call" => Ordered(refreshes[r].copy)
    BY DEF RefreshSettled, Ordered
  <2>1. refreshes[r].pc \in {"clone", "schedule"} => refreshes[r].obj \in DOMAIN heap
    BY DEF Types, RefreshesOK
  <2>2. refreshes[r].pc \in {"clone", "schedule"} => Ordered(heap[refreshes[r].obj])
    BY <1>1 DEF RefreshSettled
  <2>3. refreshes[r].pc \in {"clone", "schedule"} => heap'[refreshes[r].obj].version = order.number
           /\ heap'[refreshes[r].obj].disabled = order.disabled
    BY <2>1, <2>2 DEF Kept, Ordered
  <2> QED BY <1>1, <2>3 DEF RefreshSettled, Ordered
<1> QED BY <1>3, <1>4

\* Steps that leave the registry and its callback alone keep what they have.
LEMMA RegistryFrame ==
  ASSUME ByRegistry, UNCHANGED <<svc, order, catalog, offered>>, raced \subseteq raced'
  PROVE  ByRegistry'
BY DEF ByRegistry, OfferSettled, CatalogSettled, Ordered, Wanted

\* What the scheduler's entry shows stays the order's while its object is kept.
LEMMA SchedFrame ==
  ASSUME Types, Kept, SchedSettled, UNCHANGED <<svc, order, sched>>
  PROVE  SchedSettled'
<1>1. sched.obj # 0 => sched.obj \in DOMAIN heap BY DEF Types, SchedOK, HeapOK
<1>2. Scheduled'.version = Scheduled.version
  <2>1. CASE sched.obj = 0 BY <2>1 DEF Scheduled
  <2>2. CASE sched.obj # 0
    <3>1. Scheduled = heap[sched.obj] /\ Scheduled' = heap'[sched.obj] BY <2>2 DEF Scheduled
    <3> QED BY <1>1, <2>2, <3>1 DEF Kept
  <2> QED BY <2>1, <2>2
<1> QED BY <1>2 DEF SchedSettled, Wanted

\* Steps that leave the scheduler and those who tell it alone keep what they have.
LEMMA SchedulerFrame ==
  ASSUME Types, Kept, ByScheduler, UNCHANGED <<svc, order, sched, results, rebuild>>,
         raced \subseteq raced'
  PROVE  ByScheduler'
<1> SUFFICES ASSUME raced' = {} PROVE SchedSettled' /\ TellersSettled'
  BY DEF ByScheduler
<1>1. SchedSettled /\ TellersSettled BY DEF ByScheduler
<1>2. TellersSettled' BY <1>1 DEF TellersSettled, Ordered
<1> QED BY <1>1, <1>2, SchedFrame

\* Whoever tells the scheduler of the order's auth leaves it as the order said.
LEMMA CopySettles ==
  ASSUME Types, NEW a \in Auth, Ordered(a), order.kind = "update", sched' = UpsertCopy(a),
         UNCHANGED order
  PROVE  SchedSettled'
<1>1. order.disabled \in BOOLEAN BY DEF Types, OrderOK
<1>2. CASE a.disabled
  <2>1. sched' = Out BY <1>2 DEF UpsertCopy
  <2>2. ~Wanted' BY <1>2 DEF Wanted, Ordered
  <2> QED BY <2>1, <2>2 DEF SchedSettled, Out
<1>3. CASE ~a.disabled
  <2>1. sched' = [in |-> TRUE, obj |-> 0, copy |-> a] BY <1>3 DEF UpsertCopy
  <2>2. Wanted' BY <1>3 DEF Wanted, Ordered
  <2>3. sched'.in = TRUE /\ Scheduled' = a BY <2>1 DEF Scheduled
  <2> QED BY <2>2, <2>3 DEF SchedSettled, Ordered
<1> QED BY <1>2, <1>3

\* The same when it is told of the stored object itself.
LEMMA ObjectSettles ==
  ASSUME Types, NEW o \in DOMAIN heap, Ordered(heap[o]), order.kind = "update",
         sched' = UpsertObject(o), UNCHANGED <<order, heap>>
  PROVE  SchedSettled'
<1>2. CASE heap[o].disabled
  <2>1. sched' = Out BY <1>2 DEF UpsertObject
  <2>2. ~Wanted' BY <1>2 DEF Wanted, Ordered
  <2> QED BY <2>1, <2>2 DEF SchedSettled, Out
<1>3. CASE ~heap[o].disabled
  <2>1. sched' = [in |-> TRUE, obj |-> o, copy |-> Nil] BY <1>3 DEF UpsertObject
  <2>2. Wanted' BY <1>3 DEF Wanted, Ordered
  <2>3. o # 0 BY DEF Types, HeapOK
  <2>4. sched'.in = TRUE /\ Scheduled' = heap[o] BY <2>1, <2>3 DEF Scheduled
  <2> QED BY <2>2, <2>4 DEF SchedSettled, Ordered
<1> QED BY <1>2, <1>3

\* A removed credential is out of the scheduler.
LEMMA OutSettles == ASSUME order.kind = "delete", sched' = Out, UNCHANGED order PROVE SchedSettled'
BY DEF SchedSettled, Out, Wanted

-----------------------------------------------------------------------------
(* The last order: the service loop. *)

\* While the service carries out its order nothing that read the credential since is
\* under way.
LEMMA NoneUnderWay ==
  ASSUME OrderInv, svc.pc # "idle"
  PROVE  /\ "refresh" \notin raced =>
              \A r \in Refreshers : refreshes[r].pc \notin {"clone", "call", "schedule"}
         /\ raced \cap {"refresh", "catalog"} = {} =>
              catalog.pc \notin {"withdraw", "confirm", "entry", "refresh_entry"}
         /\ raced = {} => rebuild.pc = "idle" /\ \A q \in Requests : results[q].pc # "upsert"
BY DEF OrderInv, ByManager, RefreshSettled, ByRegistry, CatalogSettled, ByScheduler, TellersSettled

\* The service's step keeps what its goroutines' part says.
LEMMA SvcStep ==
  ASSUME Types, Types', OrderInv, svc.pc # "idle", SvcUnchanged,
         \A r \in Refreshers : refreshes'[r].pc = refreshes[r].pc,
         Follows', ManagerSettled /\ "refresh" \notin raced => ManagerSettled',
         raced \cap {"refresh", "catalog"} = {} /\ ManagerSettled /\ OfferSettled
           /\ catalog.pc \in {"idle", "register", "latest"} => OfferSettled',
         raced = {} /\ ManagerSettled => SchedSettled'
  PROVE  OrderInv'
<1>1. ByManager'
  <2> SUFFICES ASSUME "refresh" \notin raced' PROVE ManagerSettled' /\ RefreshSettled'
    BY DEF ByManager
  <2>1. "refresh" \notin raced BY DEF SvcUnchanged
  <2>2. ManagerSettled' BY <2>1 DEF OrderInv, ByManager
  <2>3. RefreshSettled' BY <2>1, NoneUnderWay DEF RefreshSettled
  <2> QED BY <2>2, <2>3
<1>2. ByRegistry'
  <2> SUFFICES ASSUME raced' \cap {"refresh", "catalog"} = {} PROVE OfferSettled' /\ CatalogSettled'
    BY DEF ByRegistry
  <2>1. raced \cap {"refresh", "catalog"} = {} /\ "refresh" \notin raced /\ UNCHANGED catalog
    BY DEF SvcUnchanged
  <2>2. catalog.pc \notin {"withdraw", "confirm", "entry", "refresh_entry"} BY <2>1, NoneUnderWay
  <2>3. catalog.pc \in {"idle", "register", "latest"}
    BY <2>2 DEF Types, BackgroundOK, ProcType
  <2>4. OfferSettled' BY <2>1, <2>3 DEF OrderInv, ByManager, ByRegistry
  <2>5. CatalogSettled' BY <2>1, <2>2, <2>3 DEF CatalogSettled
  <2> QED BY <2>4, <2>5
<1>3. ByScheduler'
  <2> SUFFICES ASSUME raced' = {} PROVE SchedSettled' /\ TellersSettled'
    BY DEF ByScheduler
  <2>1. raced = {} /\ UNCHANGED <<rebuild, results>> BY DEF SvcUnchanged
  <2>2. SchedSettled' BY <2>1 DEF OrderInv, ByManager
  <2>3. TellersSettled' BY <2>1, NoneUnderWay DEF TellersSettled
  <2> QED BY <2>2, <2>3
<1> QED BY <1>1, <1>2, <1>3 DEF OrderInv

\* A new order overlaps with what is under way, and with nothing else.
LEMMA ReceiveOrder ==
  ASSUME Types, OrderInv, (\E disabled \in BOOLEAN : ReceiveUpdate(disabled)) \/ ReceiveDelete
  PROVE  OrderInv'
<1>1. /\ raced' = Running
      /\ UNCHANGED <<data, results, checks, refreshes, rebuild, catalog, now>>
      /\ \/ svc'.pc = "get" /\ order'.kind = "update"
         \/ svc'.pc = "unregister" /\ order'.kind = "delete"
  BY DEF ReceiveUpdate, ReceiveDelete, At
<1>2. Follows' BY <1>1 DEF Follows
<1>3. ByManager'
  <2> SUFFICES ASSUME "refresh" \notin Running PROVE ManagerSettled' /\ RefreshSettled'
    BY <1>1 DEF ByManager
  <2>1. \A r \in Refreshers : refreshes[r].pc \notin {"clone", "call", "schedule"} BY DEF Running
  <2> QED BY <1>1, <2>1 DEF ManagerSettled, RefreshSettled
<1>4. ByRegistry'
  <2> SUFFICES ASSUME "catalog" \notin Running PROVE OfferSettled' /\ CatalogSettled'
    BY <1>1 DEF ByRegistry
  <2>1. catalog.pc \notin {"withdraw", "confirm", "entry", "refresh_entry"} BY DEF Running
  <2> QED BY <1>1, <2>1 DEF OfferSettled, CatalogSettled
<1>5. ByScheduler'
  <2> SUFFICES ASSUME Running = {} PROVE SchedSettled' /\ TellersSettled'
    BY <1>1 DEF ByScheduler
  <2>1. rebuild.pc = "idle" /\ \A q \in Requests : results[q].pc = "idle" BY DEF Running
  <2> QED BY <1>1, <2>1 DEF SchedSettled, TellersSettled
<1> QED BY <1>2, <1>3, <1>4, <1>5 DEF OrderInv

\* The service carries out its order, step by step.
LEMMA SvcOrder ==
  ASSUME Types, Types', OrderInv, Service,
         ~((\E disabled \in BOOLEAN : ReceiveUpdate(disabled)) \/ ReceiveDelete)
  PROVE  OrderInv'
<1>0. order.kind \in {"update", "delete"} BY DEF Types, OrderOK
<1>1. CASE GetExisting
  <2>1. /\ svc.pc = "get" /\ svc'.pc \in {"register", "update"} /\ SvcUnchanged
        /\ UNCHANGED <<heap, mgr, sched, offered, refreshes, order>>
    BY <1>1 DEF GetExisting, data, At, Keeping, SvcUnchanged
  <2>2. order.kind = "update" BY <2>1, <1>0 DEF OrderInv, Follows
  <2>3. Follows' BY <2>1, <2>2 DEF Follows
  <2>4. ManagerSettled' BY <2>1, <2>2 DEF ManagerSettled
  <2>5. OfferSettled' BY <2>1, <2>2 DEF OfferSettled
  <2>6. SchedSettled' BY <2>1 DEF SchedSettled
  <2> QED BY <2>1, <2>3, <2>4, <2>5, <2>6, SvcStep
<1>2. CASE RegisterAuth \/ UpdateAuth
  <2>1. /\ StoreObject(Made) /\ UNCHANGED <<sched, offered>> /\ SvcUnchanged
        /\ mgr' # 0 /\ heap'[mgr'] = Made /\ svc' = Holding("schedule", mgr')
    BY <1>2, SvcStoresTypes
  <2>2. Made.version = order.number /\ Made.disabled = order.disabled /\ UNCHANGED order
    BY <2>1, MadeType DEF SvcUnchanged
  <2>3. svc.pc \in {"register", "update"} /\ svc'.pc = "schedule"
    BY <1>2, <2>1 DEF RegisterAuth, UpdateAuth, Holding
  <2>4. order.kind = "update" BY <2>3, <1>0 DEF OrderInv, Follows
  <2>5. Follows' BY <2>2, <2>3, <2>4 DEF Follows
  <2>6. ManagerSettled' BY <2>1, <2>2, <2>3, <2>4 DEF ManagerSettled, Ordered
  <2>7. OfferSettled' BY <2>2, <2>3, <2>4 DEF OfferSettled
  <2>8. SchedSettled' BY <2>3 DEF SchedSettled
  <2>9. \A r \in Refreshers : refreshes'[r].pc = refreshes[r].pc
    BY <2>1 DEF StoreObject, Types, RefreshesOK, RefreshType
  <2> QED BY <2>1, <2>3, <2>5, <2>6, <2>7, <2>8, <2>9, SvcStep
<1>3. CASE ScheduleStored
  <2>1. /\ svc.pc = "schedule" /\ svc'.pc = "models" /\ SvcUnchanged
        /\ UNCHANGED <<heap, mgr, offered, refreshes, order>>
    BY <1>3 DEF ScheduleStored, At, SvcUnchanged
  <2>2. order.kind = "update" BY <2>1, <1>0 DEF OrderInv, Follows
  <2>3. Follows' BY <2>1, <2>2 DEF Follows
  <2>4. ManagerSettled => ManagerSettled' BY <2>1, <2>2 DEF ManagerSettled, Ordered
  <2>5. OfferSettled' BY <2>1, <2>2 DEF OfferSettled
  <2>6. SchedSettled' BY <2>1 DEF SchedSettled
  <2> QED BY <2>1, <2>3, <2>4, <2>5, <2>6, SvcStep
<1>4. CASE RegisterModels
  <2>1. /\ svc.pc = "models" /\ svc'.pc = "entry" /\ SvcUnchanged /\ offered' = ~order.disabled
        /\ UNCHANGED <<heap, mgr, sched, refreshes, order>>
    BY <1>4 DEF RegisterModels, At, SvcUnchanged
  <2>2. order.kind = "update" BY <2>1, <1>0 DEF OrderInv, Follows
  <2>3. Follows' BY <2>1, <2>2 DEF Follows
  <2>4. ManagerSettled => ManagerSettled' BY <2>1, <2>2 DEF ManagerSettled, Ordered
  <2>5. OfferSettled' BY <2>1, <2>2 DEF OfferSettled, Wanted
  <2>6. SchedSettled' BY <2>1 DEF SchedSettled
  <2> QED BY <2>1, <2>3, <2>4, <2>5, <2>6, SvcStep
<1>5. CASE CloneEntry
  <2>1. /\ svc.pc = "entry" /\ SvcUnchanged
        /\ \/ mgr = 0 /\ svc'.pc = "idle"
           \/ mgr # 0 /\ svc'.pc = "refresh_entry" /\ svc'.copy = heap[mgr]
        /\ UNCHANGED <<heap, mgr, sched, offered, refreshes, order>>
    BY <1>5 DEF CloneEntry, At, Idle, Keeping, SvcUnchanged, data
  <2>2. order.kind = "update" BY <2>1, <1>0 DEF OrderInv, Follows
  <2>3. Follows' BY <2>1, <2>2 DEF Follows
  <2>4. ManagerSettled => ManagerSettled' /\ mgr # 0
    BY <2>1, <2>2 DEF ManagerSettled, Ordered
  <2>5. OfferSettled /\ catalog.pc \in {"idle", "register", "latest"} => OfferSettled'
    BY <2>1, <2>2 DEF OfferSettled, Wanted, SvcUnchanged
  <2>6. ManagerSettled => SchedSettled' BY <2>1, <2>4 DEF SchedSettled
  <2> QED BY <2>1, <2>3, <2>4, <2>5, <2>6, SvcStep
<1>6. CASE UpsertEntry
  <2>1. /\ svc.pc = "refresh_entry" /\ svc'.pc = "idle" /\ SvcUnchanged
        /\ sched' = UpsertCopy(svc.copy)
        /\ UNCHANGED <<heap, mgr, offered, refreshes, order>>
    BY <1>6 DEF UpsertEntry, At, Idle, SvcUnchanged
  <2>2. order.kind = "update" BY <2>1, <1>0 DEF OrderInv, Follows
  <2>3. Follows' BY <2>1, <2>2 DEF Follows
  <2>4. ManagerSettled => ManagerSettled' /\ Ordered(svc.copy)
    BY <2>1, <2>2 DEF ManagerSettled, Ordered
  <2>5. OfferSettled /\ catalog.pc \in {"idle", "register", "latest"} => OfferSettled'
    BY <2>1, <2>2 DEF OfferSettled, Wanted, SvcUnchanged
  <2>6. svc.copy \in Auth BY DEF Types, SvcOK, ProcType
  <2>7. ManagerSettled => SchedSettled' BY <2>1, <2>2, <2>4, <2>6, CopySettles
  <2> QED BY <2>1, <2>3, <2>4, <2>5, <2>7, SvcStep
<1>7. CASE UnregisterModels
  <2>1. /\ svc.pc = "unregister" /\ svc'.pc = "delete" /\ SvcUnchanged /\ offered' = FALSE
        /\ UNCHANGED <<heap, mgr, sched, refreshes, order>>
    BY <1>7 DEF UnregisterModels, At, SvcUnchanged
  <2>2. order.kind = "delete" BY <2>1, <1>0 DEF OrderInv, Follows
  <2>3. Follows' BY <2>1, <2>2 DEF Follows
  <2>4. ManagerSettled' BY <2>1, <2>2 DEF ManagerSettled
  <2>5. OfferSettled' BY <2>1, <2>2 DEF OfferSettled
  <2>6. SchedSettled' BY <2>1 DEF SchedSettled
  <2> QED BY <2>1, <2>3, <2>4, <2>5, <2>6, SvcStep
<1>8. CASE DeleteAuth
  <2>1. /\ svc.pc = "delete" /\ svc'.pc = "unschedule" /\ SvcUnchanged /\ mgr' = 0
        /\ UNCHANGED <<heap, sched, offered, refreshes, order>>
    BY <1>8 DEF DeleteAuth, At, SvcUnchanged
  <2>2. order.kind = "delete" BY <2>1, <1>0 DEF OrderInv, Follows
  <2>3. Follows' BY <2>1, <2>2 DEF Follows
  <2>4. ManagerSettled' BY <2>1, <2>2 DEF ManagerSettled
  <2>5. OfferSettled /\ catalog.pc \in {"idle", "register", "latest"} => OfferSettled'
    BY <2>1, <2>2 DEF OfferSettled, SvcUnchanged
  <2>6. SchedSettled' BY <2>1 DEF SchedSettled
  <2> QED BY <2>1, <2>3, <2>4, <2>5, <2>6, SvcStep
<1>9. CASE Unschedule
  <2>1. /\ svc.pc = "unschedule" /\ svc'.pc = "idle" /\ SvcUnchanged /\ sched' = Out
        /\ UNCHANGED <<heap, mgr, offered, refreshes, order>>
    BY <1>9 DEF Unschedule, At, Idle, SvcUnchanged
  <2>2. order.kind = "delete" BY <2>1, <1>0 DEF OrderInv, Follows
  <2>3. Follows' BY <2>1, <2>2 DEF Follows
  <2>4. ManagerSettled => ManagerSettled' BY <2>1, <2>2 DEF ManagerSettled
  <2>5. OfferSettled /\ catalog.pc \in {"idle", "register", "latest"} => OfferSettled'
    BY <2>1, <2>2 DEF OfferSettled, SvcUnchanged
  <2>6. SchedSettled' BY <2>1, <2>2, OutSettles
  <2> QED BY <2>1, <2>3, <2>4, <2>5, <2>6, SvcStep
<1> QED BY <1>1, <1>2, <1>3, <1>4, <1>5, <1>6, <1>7, <1>8, <1>9 DEF Service

-----------------------------------------------------------------------------
(* The last order: the other goroutines. *)

\* Every other goroutine leaves the service and its order alone, and what it starts
\* at rest overlaps with no order.
Beside == UNCHANGED <<svc, order>> /\ raced \subseteq raced' /\ (svc.pc = "idle" => raced' = raced)

\* Nothing but the service changes where it stands.
LEMMA FollowsFrame == OrderInv /\ UNCHANGED <<svc, order>> => Follows'
BY DEF OrderInv, Follows

\* So what the others may spoil is spoiled before.
LEMMA BesideRest == OrderInv /\ Beside =>
  /\ ByManager /\ ByRegistry /\ ByScheduler /\ Follows'
BY FollowsFrame DEF OrderInv, Beside

\* A goroutine that starts counts as overlapping only if an order is under way.
LEMMA StartsBeside ==
  ASSUME NEW kind, UNCHANGED <<svc, order>>, raced' = raced \/ Starts(kind)
  PROVE  Beside
BY DEF Beside, Starts

\* A request's steps keep the order's results.
LEMMA RequestOrder ==
  ASSUME Types, Types', Kept, OrderInv, \E q \in Requests : Request(q)
  PROVE  OrderInv'
<1> PICK q \in Requests : Request(q) OBVIOUS
<1>1. Beside /\ UNCHANGED <<mgr, refreshes, catalog, offered, rebuild>>
  BY StartsBeside DEF Request, MarkResult, UpsertResult
<1>2. ByManager' /\ ByRegistry' /\ Follows'
  BY <1>1, ManagerFrame, RegistryFrame, BesideRest DEF Beside
<1>3. CASE MarkResult(q)
  <2>1. /\ mgr # 0 /\ heap' = [heap EXCEPT ![mgr] = Marked(@)] /\ UNCHANGED sched
        /\ results' = [results EXCEPT ![q] = Keeping("upsert", heap'[mgr])] /\ Starts("result")
    BY <1>3 DEF MarkResult
  <2> SUFFICES ASSUME raced' = {} PROVE SchedSettled' /\ TellersSettled'
    BY <1>2 DEF OrderInv, ByScheduler
  <2>2. raced = {} /\ svc.pc = "idle" BY <2>1 DEF Starts
  <2>3. SchedSettled /\ TellersSettled BY <2>2 DEF OrderInv, ByScheduler
  <2>4. order.kind = "update" /\ Ordered(heap[mgr])
    BY <2>1, <2>2, StoredOrdered DEF OrderInv
  <2>5. heap'[mgr].version = order.number /\ heap'[mgr].disabled = order.disabled
    BY <2>1, <2>4, MarkedKept DEF Ordered
  <2>6. \A x \in Requests : results'[x].pc = "upsert" =>
           \/ results'[x] = results[x]
           \/ results'[x].copy = heap'[mgr]
    BY <2>1 DEF Types, ResultsOK, Keeping
  <2>7. TellersSettled'
    BY <1>1, <2>2, <2>3, <2>4, <2>5, <2>6 DEF TellersSettled, Ordered, Beside
  <2> QED BY <1>1, <2>1, <2>3, <2>7, SchedFrame DEF Beside
<1>4. CASE UpsertResult(q)
  <2>1. /\ results[q].pc = "upsert" /\ sched' = UpsertCopy(results[q].copy)
        /\ results' = [results EXCEPT ![q] = Idle] /\ UNCHANGED <<raced, svc, order, rebuild>>
    BY <1>4 DEF UpsertResult
  <2> SUFFICES ASSUME raced' = {} PROVE SchedSettled' /\ TellersSettled'
    BY <1>2 DEF OrderInv, ByScheduler
  <2>2. TellersSettled BY <2>1 DEF OrderInv, ByScheduler
  <2>3. order.kind = "update" /\ Ordered(results[q].copy) BY <2>1, <2>2 DEF TellersSettled
  <2>4. results[q].copy \in Auth BY DEF Types, ResultsOK, ProcType
  <2>5. SchedSettled' BY <2>1, <2>3, <2>4, CopySettles
  <2>6. \A x \in Requests : results'[x].pc = "upsert" => results'[x] = results[x]
    BY <2>1 DEF Types, ResultsOK, Idle, At
  <2>7. TellersSettled' BY <2>1, <2>2, <2>6 DEF TellersSettled, Ordered
  <2> QED BY <2>5, <2>7
<1> QED BY <1>3, <1>4 DEF Request

\* A refresh's step keeps what the others have.
LEMMA RefreshStep ==
  ASSUME Types, Kept, OrderInv, Beside, UNCHANGED <<catalog, offered, results, rebuild>>,
         NEW r \in Refreshers,
         \A s \in Refreshers : s # r => /\ refreshes'[s].pc = refreshes[s].pc
                                        /\ refreshes'[s].obj = refreshes[s].obj
                                        /\ refreshes'[s].copy = refreshes[s].copy,
         "refresh" \notin raced' /\ ManagerSettled /\ RefreshSettled =>
           /\ ManagerSettled'
           /\ refreshes'[r].pc \in {"clone", "call", "schedule"} =>
                svc.pc = "idle" /\ order.kind = "update"
           /\ refreshes'[r].pc \in {"clone", "schedule"} => Ordered(heap[refreshes[r].obj])'
           /\ refreshes'[r].pc = "call" => Ordered(refreshes[r].copy)',
         raced = {} /\ SchedSettled => SchedSettled'
  PROVE  OrderInv'
<1>1. ByManager'
  <2> SUFFICES ASSUME "refresh" \notin raced' PROVE ManagerSettled' /\ RefreshSettled'
    BY DEF ByManager
  <2>1. ManagerSettled /\ RefreshSettled BY DEF OrderInv, ByManager, Beside
  <2>2. ASSUME NEW s \in Refreshers
        PROVE /\ refreshes'[s].pc \in {"clone", "call", "schedule"} =>
                   svc.pc = "idle" /\ order.kind = "update"
              /\ refreshes'[s].pc \in {"clone", "schedule"} => Ordered(heap[refreshes[s].obj])'
              /\ refreshes'[s].pc = "call" => Ordered(refreshes[s].copy)'
    <3>1. CASE s = r BY <2>1, <3>1
    <3>2. CASE s # r
      <4>1. /\ refreshes'[s].pc = refreshes[s].pc /\ refreshes'[s].obj = refreshes[s].obj
            /\ refreshes'[s].copy = refreshes[s].copy
        BY <3>2
      <4>2. refreshes[s].pc \in {"clone", "schedule"} => refreshes[s].obj \in DOMAIN heap
        BY DEF Types, RefreshesOK
      <4>3. refreshes[s].pc \in {"clone", "schedule"} => Ordered(heap[refreshes[s].obj])
        BY <2>1 DEF RefreshSettled
      <4>4. refreshes[s].pc \in {"clone", "schedule"} =>
              /\ heap'[refreshes[s].obj].version = order.number
              /\ heap'[refreshes[s].obj].disabled = order.disabled
        BY <4>2, <4>3 DEF Kept, Ordered
      <4>5. refreshes[s].pc = "call" =>
              /\ refreshes[s].copy.version = order.number
              /\ refreshes[s].copy.disabled = order.disabled
        BY <2>1 DEF RefreshSettled, Ordered
      <4>6. refreshes[s].pc \in {"clone", "call", "schedule"} =>
               svc.pc = "idle" /\ order.kind = "update"
        BY <2>1 DEF RefreshSettled
      <4> QED BY <4>1, <4>4, <4>5, <4>6 DEF Ordered, Beside
    <3> QED BY <3>1, <3>2
  <2> QED BY <2>1, <2>2 DEF RefreshSettled, Beside
<1>2. ByRegistry' BY RegistryFrame DEF OrderInv, Beside
<1>3. ByScheduler'
  <2> SUFFICES ASSUME raced' = {} PROVE SchedSettled' /\ TellersSettled'
    BY DEF ByScheduler
  <2>1. raced = {} /\ SchedSettled /\ TellersSettled BY DEF OrderInv, ByScheduler, Beside
  <2>2. TellersSettled' BY <2>1 DEF TellersSettled, Ordered, Beside
  <2> QED BY <2>1, <2>2
<1> QED BY <1>1, <1>2, <1>3, BesideRest DEF OrderInv

\* A refresh's steps do.
LEMMA RefreshOrder ==
  ASSUME Types, Types', Kept, OrderInv, NEW r \in Refreshers, Refresh(r)
  PROVE  OrderInv'
<1>0. UNCHANGED offered /\ RefreshUnchanged
      /\ (raced' = raced \/ Starts("refresh"))
  BY DEF Refresh, Claim, ReadForRefresh, CloneForRefresh, CallFails, RefreshFails, RefreshCancelled,
         StoreRefreshed, ScheduleRefreshed, data
<1>1. Beside /\ UNCHANGED <<catalog, offered, results, rebuild, svc, order>>
  BY <1>0, StartsBeside DEF RefreshUnchanged
<1>2. UNCHANGED mgr => (ManagerSettled => ManagerSettled')
  <2>1. UNCHANGED mgr /\ mgr # 0 /\ Ordered(heap[mgr]) => Ordered(heap[mgr])'
    <3>1. mgr # 0 => mgr \in DOMAIN heap BY StoredType
    <3> QED BY <1>1, <3>1, KeptOrdered
  <2> QED BY <1>1, <2>1 DEF ManagerSettled, Ordered
<1>3. UNCHANGED sched /\ SchedSettled => SchedSettled' BY <1>1, SchedFrame
<1>4. CASE \E k \in Checkers : Claim(k, r)
  <2>1. UNCHANGED <<mgr, sched, raced>> BY <1>4 DEF Claim
  <2>2. CASE UNCHANGED refreshes
    BY <1>1, <1>3, <2>1, <2>2, BesideRest, ManagerFrame, RegistryFrame, SchedulerFrame
       DEF OrderInv
  <2>3. CASE refreshes'[r].pc = "read" /\ \A s \in Refreshers : s # r => refreshes'[s] = refreshes[s]
    BY <1>1, <1>2, <1>3, <2>1, <2>3, RefreshStep
  <2> QED BY <1>4, <2>2, <2>3, Claimed DEF Claim
<1>5. CASE ReadForRefresh(r)
  <2>1. /\ \A s \in Refreshers : s # r => refreshes'[s] = refreshes[s]
        /\ \/ refreshes'[r].pc = "idle"
           \/ mgr # 0 /\ refreshes'[r].pc = "clone" /\ refreshes'[r].obj = mgr
    BY <1>5, ReadTypes
  <2>2. UNCHANGED <<heap, mgr, sched>> /\ Starts("refresh") BY <1>5 DEF ReadForRefresh, data
  <2>3. ASSUME "refresh" \notin raced', refreshes'[r].pc = "clone"
        PROVE  svc.pc = "idle" /\ order.kind = "update" /\ Ordered(heap[refreshes[r].obj])'
    <3>1. svc.pc = "idle" /\ "refresh" \notin raced BY <2>2, <2>3 DEF Starts
    <3>2. mgr # 0 /\ refreshes'[r].obj = mgr BY <2>1, <2>3
    <3>3. order.kind = "update" /\ Ordered(heap[mgr])
      BY <3>1, <3>2, StoredOrdered DEF OrderInv
    <3> QED BY <1>1, <2>2, <3>1, <3>2, <3>3 DEF Ordered
  <2>4. refreshes'[r].pc \in {"idle", "clone"} BY <2>1
  <2> QED BY <1>1, <1>2, <1>3, <2>1, <2>2, <2>3, <2>4, RefreshStep
<1>6. CASE CloneForRefresh(r)
  <2>1. /\ \A s \in Refreshers : s # r => refreshes'[s] = refreshes[s]
        /\ refreshes'[r].pc = "call" /\ refreshes'[r].copy = heap[refreshes[r].obj]
    BY <1>6, CloneTypes
  <2>2. UNCHANGED <<heap, mgr, sched, raced>> /\ refreshes[r].pc = "clone"
    BY <1>6 DEF CloneForRefresh, data, Refreshing
  <2>3. RefreshSettled => /\ svc.pc = "idle" /\ order.kind = "update"
                          /\ Ordered(refreshes[r].copy)'
    BY <1>1, <2>1, <2>2 DEF RefreshSettled, Ordered
  <2> QED BY <1>1, <1>2, <1>3, <2>1, <2>2, <2>3, RefreshStep
<1>7. CASE RefreshCancelled(r) \/ ScheduleRefreshed(r)
  <2>1. refreshes' = Rested(r) /\ UNCHANGED <<heap, mgr, raced>> BY <1>7, RestTypes
  <2>2. /\ refreshes'[r].pc = "idle"
        /\ \A s \in Refreshers : s # r => refreshes'[s] = refreshes[s]
    BY <2>1, RestedType
  <2>3. raced = {} /\ SchedSettled => SchedSettled'
    <3> SUFFICES ASSUME raced = {}, SchedSettled PROVE SchedSettled' OBVIOUS
    <3>1. RefreshSettled BY DEF OrderInv, ByManager
    <3>2. CASE UNCHANGED sched BY <3>2, <1>3
    <3>3. CASE ScheduleRefreshed(r)
      <4>1. refreshes[r].pc = "schedule" /\ sched' = UpsertObject(refreshes[r].obj)
        BY <3>3 DEF ScheduleRefreshed, Refreshing
      <4>2. order.kind = "update" /\ Ordered(heap[refreshes[r].obj])
        BY <3>1, <4>1 DEF RefreshSettled
      <4>3. refreshes[r].obj \in DOMAIN heap BY <4>1 DEF Types, RefreshesOK
      <4> QED BY <1>1, <2>1, <4>1, <4>2, <4>3, ObjectSettles
    <3> QED BY <1>7, <3>2, <3>3 DEF RefreshCancelled, data
  <2> QED BY <1>1, <1>2, <2>1, <2>2, <2>3, RefreshStep
<1>9. CASE CallFails(r)
  <2>1. /\ refreshes'[r].pc = "failed"
        /\ \A s \in Refreshers : s # r => refreshes'[s] = refreshes[s]
    BY <1>9, CallFailsTypes
  <2>2. UNCHANGED <<mgr, sched, raced>> BY <1>9 DEF CallFails, data
  <2> QED BY <1>1, <1>2, <1>3, <2>1, <2>2, RefreshStep
<1>10. CASE RefreshFails(r)
  <2>1. /\ refreshes'[r].pc = "idle" /\ mgr' = mgr /\ raced' = raced
        /\ \A s \in Refreshers : s # r =>
             /\ refreshes'[s].pc = refreshes[s].pc /\ refreshes'[s].obj = refreshes[s].obj
             /\ refreshes'[s].copy = refreshes[s].copy
    BY <1>10, FailTypes
  <2>2. raced = {} /\ SchedSettled => SchedSettled'
    <3> SUFFICES ASSUME raced = {}, SchedSettled PROVE SchedSettled' OBVIOUS
    <3>1. CASE mgr = 0 BY <1>3, <1>10, <3>1, FailTypes
    <3>2. CASE svc.pc # "idle" BY <1>1, <3>2 DEF SchedSettled
    <3>3. CASE mgr # 0 /\ svc.pc = "idle"
      <4>1. /\ sched' = UpsertCopy(heap'[mgr]) /\ heap'[mgr] \in Auth
            /\ heap'[mgr].version = heap[mgr].version
            /\ heap'[mgr].disabled = heap[mgr].disabled
        BY <1>10, <3>3, FailTypes
      <4>2. order.kind = "update" /\ Ordered(heap[mgr]) BY <3>3, StoredOrdered DEF OrderInv
      <4>3. Ordered(heap'[mgr]) BY <4>1, <4>2 DEF Ordered
      <4> QED BY <1>1, <4>1, <4>2, <4>3, CopySettles
    <3> QED BY <3>1, <3>2, <3>3
  <2> QED BY <1>1, <1>2, <2>1, <2>2, RefreshStep
<1>8. CASE StoreRefreshed(r)
  <2>1. /\ mgr' # 0 /\ refreshes[r].pc = "call"
        /\ heap'[mgr'].version = refreshes[r].copy.version
        /\ heap'[mgr'].disabled = refreshes[r].copy.disabled
        /\ refreshes'[r].pc = "schedule" /\ refreshes'[r].obj = mgr'
        /\ \A s \in Refreshers : s # r =>
              /\ refreshes'[s].pc = refreshes[s].pc /\ refreshes'[s].obj = refreshes[s].obj
              /\ refreshes'[s].copy = refreshes[s].copy
        /\ UNCHANGED <<sched, raced>>
    BY <1>8, StoreRefreshedTypes
  <2>2. RefreshSettled =>
          /\ svc.pc = "idle" /\ order.kind = "update"
          /\ heap'[mgr'].version = order.number /\ heap'[mgr'].disabled = order.disabled
    BY <2>1 DEF RefreshSettled, Ordered
  <2>3. RefreshSettled => ManagerSettled' BY <1>1, <2>1, <2>2 DEF ManagerSettled, Ordered
  <2>4. RefreshSettled => Ordered(heap[refreshes[r].obj])' BY <1>1, <2>1, <2>2 DEF Ordered
  <2> QED BY <1>1, <1>3, <2>1, <2>2, <2>3, <2>4, RefreshStep
<1> QED BY <1>4, <1>5, <1>6, <1>7, <1>8, <1>9, <1>10 DEF Refresh

\* The rebuild's steps do.
LEMMA RebuildOrder ==
  ASSUME Types, Types', Kept, OrderInv, SnapshotAuths \/ Rebuild
  PROVE  OrderInv'
<1>1. UNCHANGED <<heap, mgr, offered, svc, order, results, refreshes, catalog>>
      /\ (raced' = raced \/ Starts("rebuild"))
  BY DEF SnapshotAuths, Rebuild, data
<1>2. Beside BY <1>1, StartsBeside
<1>3. ByManager' /\ ByRegistry' /\ Follows'
  BY <1>1, <1>2, ManagerFrame, RegistryFrame, BesideRest DEF Beside
<1> SUFFICES ASSUME raced' = {} PROVE SchedSettled' /\ TellersSettled'
  BY <1>3 DEF OrderInv, ByScheduler
<1>4. SchedSettled /\ TellersSettled /\ raced = {} BY <1>2 DEF OrderInv, ByScheduler, Beside
<1>5. CASE SnapshotAuths
  <2>1. /\ UNCHANGED sched /\ Starts("rebuild")
        /\ \/ mgr = 0 /\ rebuild'.pc = "empty"
           \/ mgr # 0 /\ rebuild'.pc = "rebuild" /\ rebuild'.copy = heap[mgr]
    BY <1>5 DEF SnapshotAuths, data, At, Keeping
  <2>2. svc.pc = "idle" BY <1>4, <2>1 DEF Starts
  <2>3. /\ mgr # 0 => order.kind = "update" /\ Ordered(heap[mgr])
        /\ mgr = 0 => order.kind = "delete"
    BY <1>4, <2>2, StoredOrdered DEF OrderInv
  <2>4. TellersSettled'
    BY <1>1, <1>4, <2>1, <2>2, <2>3 DEF TellersSettled, Ordered
  <2> QED BY <1>1, <1>4, <2>1, <2>4, SchedFrame
<1>6. CASE Rebuild
  <2>1. /\ rebuild.pc # "idle" /\ rebuild'.pc = "idle"
        /\ sched' = IF rebuild.pc = "empty" THEN Out ELSE UpsertCopy(rebuild.copy)
    BY <1>6 DEF Rebuild, Idle, At
  <2>2. rebuild.copy \in Auth /\ rebuild.pc \in {"idle", "empty", "rebuild"}
    BY DEF Types, BackgroundOK, ProcType
  <2>3. SchedSettled'
    <3>1. CASE rebuild.pc = "empty"
      BY <1>1, <1>4, <2>1, <3>1, OutSettles DEF TellersSettled
    <3>2. CASE rebuild.pc = "rebuild"
      <4>1. order.kind = "update" /\ Ordered(rebuild.copy) BY <1>4, <3>2 DEF TellersSettled
      <4>2. sched' = UpsertCopy(rebuild.copy) BY <2>1, <3>2
      <4> QED BY <1>1, <2>2, <4>1, <4>2, CopySettles
    <3> QED BY <2>1, <2>2, <3>1, <3>2
  <2>4. TellersSettled' BY <1>1, <1>4, <2>1 DEF TellersSettled, Ordered
  <2> QED BY <2>3, <2>4
<1> QED BY <1>5, <1>6

\* The catalog callback's steps do.
LEMMA CatalogOrder ==
  ASSUME Types, Types', Kept, OrderInv, Catalog
  PROVE  OrderInv'
<1> USE DEF Catalog, ListForCatalog, RegisterListed, GetLatest, SettleLatest, CatalogCloneEntry,
            CatalogUpsertEntry
<1>1. UNCHANGED <<heap, mgr, svc, order, results, refreshes, rebuild>>
      /\ (raced' = raced \/ Starts("catalog"))
  BY DEF CatalogUnchanged
<1>2. Beside BY <1>1, StartsBeside
<1>3. ByManager' /\ Follows' BY <1>1, <1>2, ManagerFrame, BesideRest DEF Beside
<1>4. ByScheduler'
  <2>1. CASE UNCHANGED sched
    BY <1>1, <1>2, <2>1, SchedulerFrame DEF OrderInv, Beside
  <2>2. CASE CatalogUpsertEntry
    <3> SUFFICES ASSUME raced' = {} PROVE SchedSettled' /\ TellersSettled' BY DEF ByScheduler
    <3>1. raced = {} /\ TellersSettled /\ CatalogSettled
      BY <1>2 DEF OrderInv, ByScheduler, ByRegistry, Beside
    <3>2. order.kind = "update" /\ Ordered(catalog.copy) BY <2>2, <3>1 DEF CatalogSettled
    <3>3. catalog.copy \in Auth BY DEF Types, BackgroundOK, ProcType
    <3>4. SchedSettled' BY <1>1, <2>2, <3>2, <3>3, CopySettles
    <3>5. TellersSettled' BY <1>1, <3>1 DEF TellersSettled, Ordered
    <3> QED BY <3>4, <3>5
  <2> QED BY <2>1, <2>2
<1>5. ByRegistry'
  <2> SUFFICES ASSUME raced' \cap {"refresh", "catalog"} = {} PROVE OfferSettled' /\ CatalogSettled'
    BY DEF ByRegistry
  <2>1. OfferSettled /\ CatalogSettled /\ "refresh" \notin raced
    BY <1>2 DEF OrderInv, ByRegistry, Beside
  <2>2. CASE ListForCatalog
    <3>1. UNCHANGED offered /\ catalog.pc = "idle" /\ catalog'.pc = "register" BY <2>2 DEF At
    <3> QED BY <1>1, <2>1, <3>1 DEF OfferSettled, CatalogSettled, Wanted
  <2>3. CASE RegisterListed
    <3>1. catalog'.pc = "latest" BY <2>3 DEF At
    <3> QED BY <3>1 DEF OfferSettled, CatalogSettled
  <2>4. CASE GetLatest
    <3>1. /\ Starts("catalog")
          /\ catalog'.pc = IF mgr = 0 \/ heap[mgr].disabled THEN "withdraw" ELSE "confirm"
      BY <2>4 DEF At
    <3>2. svc.pc = "idle" BY <3>1 DEF Starts
    <3>3. /\ mgr # 0 => order.kind = "update" /\ Ordered(heap[mgr])
          /\ mgr = 0 => order.kind = "delete"
      BY <2>1, <3>2, StoredOrdered DEF OrderInv
    <3>4. IF mgr = 0 \/ heap[mgr].disabled THEN ~Wanted ELSE Wanted
      BY <3>3 DEF Wanted, Ordered
    <3> QED BY <1>1, <3>1, <3>2, <3>4 DEF OfferSettled, CatalogSettled, Wanted
  <2>5. CASE SettleLatest
    <3>1. /\ catalog.pc \in {"withdraw", "confirm"} /\ catalog'.pc = "entry"
          /\ offered' = (catalog.pc = "confirm")
      BY <2>5 DEF At
    <3>2. svc.pc = "idle" /\ (offered' <=> Wanted) BY <2>1, <3>1 DEF CatalogSettled
    <3> QED BY <1>1, <3>1, <3>2 DEF OfferSettled, CatalogSettled, Wanted
  <2>6. CASE CatalogCloneEntry
    <3>1. /\ UNCHANGED offered /\ catalog.pc = "entry"
          /\ \/ mgr = 0 /\ catalog'.pc = "idle"
             \/ mgr # 0 /\ catalog'.pc = "refresh_entry" /\ catalog'.copy = heap[mgr]
      BY <2>6 DEF At, Idle, Keeping
    <3>2. svc.pc = "idle" BY <2>1, <3>1 DEF CatalogSettled
    <3>3. mgr # 0 => order.kind = "update" /\ Ordered(heap[mgr])
      BY <2>1, <3>2, StoredOrdered DEF OrderInv
    <3>4. OfferSettled' BY <1>1, <2>1, <3>1 DEF OfferSettled, Wanted
    <3>5. CatalogSettled' BY <1>1, <3>1, <3>2, <3>3 DEF CatalogSettled, Ordered
    <3> QED BY <3>4, <3>5
  <2>7. CASE CatalogUpsertEntry
    <3>1. UNCHANGED offered /\ catalog.pc = "refresh_entry" /\ catalog'.pc = "idle"
      BY <2>7 DEF At, Idle
    <3> QED BY <1>1, <2>1, <3>1 DEF OfferSettled, CatalogSettled, Wanted
  <2> QED BY <2>2, <2>3, <2>4, <2>5, <2>6, <2>7
<1> QED BY <1>3, <1>4, <1>5 DEF OrderInv

\* What neither the service nor a goroutine of the credential does.
LEMMA ElseOrder ==
  ASSUME Types, Kept, OrderInv,
         (\E k \in Checkers : BeginCheck(k) \/ LookForDue(k)) \/ Tick \/ UNCHANGED vars
  PROVE  OrderInv'
<1>1. UNCHANGED <<heap, mgr, sched, offered, svc, order, raced, results, refreshes, rebuild, catalog>>
  BY DEF BeginCheck, LookForDue, RefreshUnchanged, Tick, vars, data, procs
<1> QED BY <1>1, FollowsFrame, ManagerFrame, RegistryFrame, SchedulerFrame DEF OrderInv

\* Every step does.
LEMMA OrderStep == ASSUME Types, Types', Kept, OrderInv, [Next]_vars PROVE OrderInv'
BY ReceiveOrder, SvcOrder, RequestOrder, RefreshOrder, RebuildOrder, CatalogOrder, ElseOrder
   DEF Next

\* To begin with there is nothing, as after a removal.
LEMMA OrderInit == Init => OrderInv
<1> SUFFICES ASSUME Init PROVE OrderInv OBVIOUS
<1>1. /\ svc.pc = "idle" /\ catalog.pc = "idle" /\ rebuild.pc = "idle"
      /\ \A q \in Requests : results[q].pc = "idle"
      /\ \A r \in Refreshers : refreshes[r].pc = "idle"
      /\ mgr = 0 /\ offered = FALSE /\ sched = Out /\ order.kind = "delete"
  BY DEF Init, Idle, At, Resting
<1>2. Follows BY <1>1 DEF Follows
<1>3. ManagerSettled /\ RefreshSettled BY <1>1 DEF ManagerSettled, RefreshSettled
<1>4. OfferSettled /\ CatalogSettled BY <1>1 DEF OfferSettled, CatalogSettled
<1>5. SchedSettled /\ TellersSettled BY <1>1 DEF SchedSettled, TellersSettled, Out, Wanted
<1> QED BY <1>2, <1>3, <1>4, <1>5 DEF OrderInv, ByManager, ByRegistry, ByScheduler

\* Once everything is at rest, what was said step by step is the whole.
LEMMA OrderStands == ASSUME Types, OrderInv PROVE LastOrderStands
<1> SUFFICES ASSUME Quiet, order.number > 0
             PROVE /\ "refresh" \notin raced =>
                        IF order.kind = "delete" THEN mgr = 0
                        ELSE /\ mgr # 0
                             /\ heap[mgr].version = order.number
                             /\ heap[mgr].disabled = order.disabled
                   /\ raced \intersect {"refresh", "catalog"} = {} => offered = Wanted
                   /\ raced = {} => /\ sched.in = Wanted
                                    /\ Wanted => Scheduled.version = order.number
  BY DEF LastOrderStands, Wanted
<1>1. svc.pc = "idle" /\ catalog.pc = "idle" BY DEF Quiet
<1>2. order.kind \in {"update", "delete"} /\ offered \in BOOLEAN /\ sched.in \in BOOLEAN
  BY DEF Types, OrderOK, ClockOK, SchedOK
<1>3. "refresh" \notin raced =>
        /\ mgr # 0 => order.kind = "update" /\ Ordered(heap[mgr])
        /\ mgr = 0 => order.kind = "delete"
  BY <1>1, StoredOrdered DEF OrderInv
<1>4. raced \intersect {"refresh", "catalog"} = {} => (offered <=> Wanted)
  BY <1>1, <1>2 DEF OrderInv, ByRegistry, OfferSettled, Wanted
<1>5. raced = {} => (sched.in <=> Wanted) /\ (Wanted => Scheduled.version = order.number)
  BY <1>1 DEF OrderInv, ByScheduler, SchedSettled
<1>6. Wanted \in BOOLEAN BY DEF Wanted
<1>7. raced \intersect {"refresh", "catalog"} = {} => offered = Wanted BY <1>2, <1>4, <1>6
<1>8. raced = {} => sched.in = Wanted BY <1>2, <1>5, <1>6
<1> QED BY <1>2, <1>3, <1>5, <1>7, <1>8 DEF Ordered

\* At rest, the manager, the registry and the scheduler agree with the service's last
\* order, unless a goroutine that can spoil them had its view from before it.
THEOREM LastOrderAlwaysStands == Spec => []LastOrderStands
<1>1. Init => Types /\ OrderInv BY TypesInit, OrderInit
<1>2. Types /\ OrderInv /\ [Next]_vars => Types' /\ OrderInv' BY TypesStep, OrderStep
<1>3. Types /\ OrderInv => LastOrderStands BY OrderStands
<1> QED BY <1>1, <1>2, <1>3, PTL DEF Spec

==============================================================================

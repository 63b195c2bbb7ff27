--------------------------- MODULE ModelRegistry ---------------------------
(***************************************************************************)
(* The global model registry (internal/registry/model_registry*.go).       *)
(*                                                                         *)
(* A client is one credential. RegisterClient says which models it offers  *)
(* and for which provider; the registry keeps, per model, reference counts *)
(* derived from those bindings, the clients over quota, the clients        *)
(* suspended, and a cached listing per handler type. Every operation runs  *)
(* under the registry mutex and is one action; GetAvailableModels releases *)
(* its read lock before it takes the write lock and is three.              *)
(*                                                                         *)
(* A registration with count 0 stands for an absent map entry: the code    *)
(* deletes the entry when the count reaches zero.                          *)
(***************************************************************************)
EXTENDS Integers, FiniteSets

CONSTANTS
  Clients,      (* Client (credential) ids.                                *)
  Models,       (* Model ids.                                              *)
  Providers,    (* Provider keys; the empty provider is not one of them.   *)
  Infos,        (* Model metadata records, up to equality.                 *)
  Handlers,     (* Handler types, the keys of the listing cache.           *)
  Readers,      (* Goroutines inside GetAvailableModels.                   *)
  NoProvider,   (* The empty provider: no clientProviders entry.           *)
  NoInfo,       (* A nil *ModelInfo.                                       *)
  MaxDup,       (* Bound: occurrences of one model in one RegisterClient.  *)
  QuotaWindow,  (* modelQuotaExceededWindow, in ticks.                     *)
  MaxNow        (* Bound: the last instant of the clock.                   *)

ASSUME ClientsFinite == IsFiniteSet(Clients)
ASSUME DupAssumption == MaxDup \in Nat \ {0}
ASSUME TimeAssumption == QuotaWindow \in Nat \ {0} /\ MaxNow \in Nat
ASSUME NullAssumption == NoProvider \notin Providers /\ NoInfo \notin Infos

VARIABLES
  models,           (* models[m]: the ModelRegistration of m               *)
  clientModels,     (* clientModels[c][m]: occurrences of m for client c   *)
  clientProviders,  (* clientProviders[c]: its provider, or NoProvider     *)
  cache,            (* availableModelsCache                                *)
  reader,           (* the goroutines in GetAvailableModels                *)
  now               (* the clock                                           *)

vars == <<models, clientModels, clientProviders, cache, reader, now>>

-----------------------------------------------------------------------------
(* Data *)

Never == -1                       \* no quota timestamp for that client
Times == 0..MaxNow
Expiries == 0..(MaxNow + QuotaWindow)
Reasons == {"none", "quota", "other"}   \* "none": not suspended
Occurrences == [Models -> 0..MaxDup]

Registration ==
  [count : Nat,
   providers : [Providers -> Nat],
   infoBy : [Providers -> Infos \cup {NoInfo}],
   info : Infos \cup {NoInfo},
   quotaAt : [Clients -> Times \cup {Never}],
   suspended : [Clients -> Reasons]]

Absent ==
  [count |-> 0,
   providers |-> [p \in Providers |-> 0],
   infoBy |-> [p \in Providers |-> NoInfo],
   info |-> NoInfo,
   quotaAt |-> [c \in Clients |-> Never],
   suspended |-> [c \in Clients |-> "none"]]

NoModels == [m \in Models |-> 0]
Registered(c) == clientModels[c] # NoModels

\* A listing is the set of (model, metadata) pairs shown to the user.
Listing == SUBSET (Models \X (Infos \cup {NoInfo}))
NoEntry == [valid |-> FALSE, models |-> {}, expires |-> Never]
CacheEntry == [valid : BOOLEAN, models : Listing, expires : Expiries \cup {Never}]

IdleReader == [pc |-> "idle", at |-> 0, models |-> {}]

-----------------------------------------------------------------------------
(* Reference counting, one model at a time: RegisterClient and             *)
(* UnregisterClient touch the registration of each model independently.    *)

\* n calls of addModelRegistration for provider p.
AddTimes(reg, p, info, n) ==
  IF n = 0 THEN reg
  ELSE [reg EXCEPT
          !.count = @ + n,
          !.info = info,
          !.providers = [q \in Providers |-> IF q = p THEN @[q] + n ELSE @[q]],
          !.infoBy = [q \in Providers |-> IF q = p THEN info ELSE @[q]]]

\* Take n from a provider's count; the entry goes when nothing is left of it.
DropProvider(reg, p, n) ==
  LET left(q) == IF q # p THEN reg.providers[q]
                 ELSE IF reg.providers[q] <= n THEN 0
                 ELSE reg.providers[q] - n
  IN  [reg EXCEPT
         !.providers = [q \in Providers |-> left(q)],
         !.infoBy = [q \in Providers |->
                       IF q = p /\ reg.providers[q] <= n /\ reg.providers[q] > 0
                       THEN NoInfo ELSE @[q]]]

\* Faulty variant: the emptied registration is kept.
RemoveTimesKeepingEmpty(reg, c, p, n) ==
  IF n = 0 \/ reg.count = 0 THEN reg
  ELSE [DropProvider(reg, p, n) EXCEPT !.count = IF @ <= n THEN 0 ELSE @ - n]

\* n calls of removeModelRegistration for client c under provider p.
RemoveTimes(reg, c, p, n) ==
  IF n = 0 \/ reg.count = 0 THEN reg
  ELSE IF reg.count <= n THEN Absent
  ELSE [DropProvider(reg, p, n) EXCEPT
          !.count = @ - n,
          !.quotaAt[c] = Never,
          !.suspended[c] = "none"]

MinOf(a, b) == IF a < b THEN a ELSE b

\* Faulty variant: the references kept are not moved to the new provider.
RefreshBindingUnmoved(reg, c, p, info, overlap) ==
  IF reg.count = 0 THEN reg
  ELSE [reg EXCEPT !.info = info, !.infoBy = [q \in Providers |-> IF q = p THEN info ELSE @[q]]]

\* Metadata refresh of a model that stays with the client. "overlap" is the
\* share of its references that moves from the old provider to the new one.
RefreshBinding(reg, c, p, info, overlap) ==
  IF reg.count = 0 THEN reg
  ELSE [reg EXCEPT
          !.info = info,
          !.infoBy = [q \in Providers |-> IF q = p THEN info ELSE @[q]],
          !.quotaAt[c] = Never,
          !.suspended[c] = "none",
          !.providers = [q \in Providers |-> IF q = p THEN @[q] + overlap ELSE @[q]]]

\* Faulty variant: a shorter list drops every reference of the old one.
ReconcileDroppingAll(reg, c, was, p, info, old, new) ==
  LET moved    == IF was # p THEN MinOf(old, new) ELSE 0
      released == IF was # NoProvider /\ moved > 0 THEN DropProvider(reg, was, moved) ELSE reg
      trimmed  == IF new < old THEN RemoveTimes(released, c, was, old) ELSE released
      grown    == IF new > old THEN AddTimes(trimmed, p, info, new - old) ELSE trimmed
  IN  IF new > 0 THEN RefreshBinding(grown, c, p, info, moved) ELSE grown

\* RegisterClient of a known client, seen by one model: from "old" to "new"
\* occurrences, from provider "was" to provider p.
Reconcile(reg, c, was, p, info, old, new) ==
  LET moved    == IF was # p THEN MinOf(old, new) ELSE 0
      released == IF was # NoProvider /\ moved > 0 THEN DropProvider(reg, was, moved) ELSE reg
      trimmed  == IF new < old THEN RemoveTimes(released, c, was, old - new) ELSE released
      grown    == IF new > old THEN AddTimes(trimmed, p, info, new - old) ELSE trimmed
  IN  IF new > 0 THEN RefreshBinding(grown, c, p, info, moved) ELSE grown

-----------------------------------------------------------------------------
(* Queries, at instant t over the registrations "regs". *)

OverQuota(reg, t) == {c \in Clients : reg.quotaAt[c] # Never /\ t < reg.quotaAt[c] + QuotaWindow}
CoolingDown(reg) == {c \in Clients : reg.suspended[c] = "quota"}
OtherSuspended(reg) == {c \in Clients : reg.suspended[c] = "other"}

\* buildAvailableModelsLocked: is the model listed?
Listed(reg, t) ==
  LET expired   == Cardinality(OverQuota(reg, t))
      other     == Cardinality(OtherSuspended(reg))
      effective == reg.count - expired - other
  IN  /\ reg.count > 0
      /\ \/ effective > 0
         \/ other = 0 /\ (expired > 0 \/ CoolingDown(reg) # {})

BuildListing(regs, t) == {<<m, regs[m].info>> : m \in {x \in Models : Listed(regs[x], t)}}

\* The listing expires when the first quota window ends; Never: it does not.
BuildExpiry(regs, t) ==
  LET ends == UNION {{regs[m].quotaAt[c] + QuotaWindow : c \in OverQuota(regs[m], t)} : m \in Models}
  IN  IF ends = {} THEN Never ELSE CHOOSE e \in ends : \A x \in ends : e <= x

GetModelCount(m) ==
  LET reg == models[m]
      result == reg.count - Cardinality(OverQuota(reg, now))
                          - Cardinality({c \in Clients : reg.suspended[c] # "none"})
  IN  IF result < 0 THEN 0 ELSE result

\* GetModelProviders, as a set: the order is by count, then by name.
GetModelProviders(m) == {p \in Providers : models[m].providers[p] > 0}

CacheValid(entry, t) == entry.valid /\ (entry.expires = Never \/ t < entry.expires)

-----------------------------------------------------------------------------
(* Actions *)

Init ==
  /\ models = [m \in Models |-> Absent]
  /\ clientModels = [c \in Clients |-> NoModels]
  /\ clientProviders = [c \in Clients |-> NoProvider]
  /\ cache = [h \in Handlers |-> NoEntry]
  /\ reader = [r \in Readers |-> IdleReader]
  /\ now = 0

InvalidateCache == cache' = [h \in Handlers |-> NoEntry]

\* unregisterClientInternal: returns early when the client has no models.
Forget(c) ==
  /\ models' = [m \in Models |->
                  RemoveTimes(models[m], c, clientProviders[c], clientModels[c][m])]
  /\ clientModels' = [clientModels EXCEPT ![c] = NoModels]
  /\ clientProviders' = [clientProviders EXCEPT ![c] = NoProvider]

\* RegisterClient(c, p, occ): no model means unregister, an unknown client is
\* pure addition, a known one is reconciled model by model.
RegisterClient(c, p, occ, info) ==
  /\ InvalidateCache
  /\ UNCHANGED <<reader, now>>
  /\ \/ /\ occ = NoModels
        /\ Forget(c)
     \/ /\ occ # NoModels
        /\ ~Registered(c)
        /\ models' = [m \in Models |-> AddTimes(models[m], p, info, occ[m])]
        /\ clientModels' = [clientModels EXCEPT ![c] = occ]
        /\ clientProviders' = [clientProviders EXCEPT ![c] = p]
     \/ /\ occ # NoModels
        /\ Registered(c)
        /\ models' = [m \in Models |->
                        Reconcile(models[m], c, clientProviders[c], p, info,
                                  clientModels[c][m], occ[m])]
        /\ clientModels' = [clientModels EXCEPT ![c] = occ]
        /\ clientProviders' = [clientProviders EXCEPT ![c] = p]

UnregisterClient(c) ==
  /\ Forget(c)
  /\ InvalidateCache
  /\ UNCHANGED <<reader, now>>

\* Neither call below asks whether c is a client of m, only whether m exists.
SetModelQuotaExceeded(c, m) ==
  /\ models[m].count > 0
  /\ models' = [models EXCEPT ![m].quotaAt[c] = now]
  /\ InvalidateCache
  /\ UNCHANGED <<clientModels, clientProviders, reader, now>>

ClearModelQuotaExceeded(c, m) ==
  /\ models[m].count > 0
  /\ models' = [models EXCEPT ![m].quotaAt[c] = Never]
  /\ InvalidateCache
  /\ UNCHANGED <<clientModels, clientProviders, reader, now>>

\* The first reason stays: a suspended client is not suspended again.
SuspendClientModel(c, m, reason) ==
  /\ models[m].count > 0
  /\ models[m].suspended[c] = "none"
  /\ models' = [models EXCEPT ![m].suspended[c] = reason]
  /\ InvalidateCache
  /\ UNCHANGED <<clientModels, clientProviders, reader, now>>

ResumeClientModel(c, m) ==
  /\ models[m].count > 0
  /\ models[m].suspended[c] # "none"
  /\ models' = [models EXCEPT ![m].suspended[c] = "none"]
  /\ InvalidateCache
  /\ UNCHANGED <<clientModels, clientProviders, reader, now>>

Stale(reg, c) == reg.quotaAt[c] # Never /\ now - reg.quotaAt[c] >= QuotaWindow

CleanupExpiredQuotas ==
  /\ \E m \in Models, c \in Clients : Stale(models[m], c)
  /\ models' = [m \in Models |->
                  [models[m] EXCEPT !.quotaAt =
                     [c \in Clients |-> IF Stale(models[m], c) THEN Never ELSE @[c]]]]
  /\ InvalidateCache
  /\ UNCHANGED <<clientModels, clientProviders, reader, now>>

(* GetAvailableModels reads the clock, looks in the cache under the read   *)
(* lock, and on a miss looks again and fills it under the write lock.      *)

CallGetAvailable(r) ==
  /\ reader[r].pc = "idle"
  /\ reader' = [reader EXCEPT ![r] = [pc |-> "called", at |-> now, models |-> {}]]
  /\ UNCHANGED <<models, clientModels, clientProviders, cache, now>>

ReadCache(r, h) ==
  /\ reader[r].pc = "called"
  /\ reader' = [reader EXCEPT ![r] =
                  IF CacheValid(cache[h], @.at)
                  THEN [@ EXCEPT !.pc = "returned", !.models = cache[h].models]
                  ELSE [@ EXCEPT !.pc = "missed"]]
  /\ UNCHANGED <<models, clientModels, clientProviders, cache, now>>

\* Faulty variant: the second look forgets that an entry may have expired.
FillCacheExpired(r, h) ==
  /\ reader[r].pc = "missed"
  /\ LET built == BuildListing(models, reader[r].at)
     IN  /\ cache' = IF cache[h].valid THEN cache
                     ELSE [cache EXCEPT ![h] =
                             [valid |-> TRUE, models |-> built,
                              expires |-> BuildExpiry(models, reader[r].at)]]
         /\ reader' = [reader EXCEPT ![r].pc = "returned",
                                     ![r].models = IF cache[h].valid THEN cache[h].models ELSE built]
  /\ UNCHANGED <<models, clientModels, clientProviders, now>>

FillCache(r, h) ==
  /\ reader[r].pc = "missed"
  /\ LET hit   == CacheValid(cache[h], reader[r].at)
         built == BuildListing(models, reader[r].at)
     IN  /\ cache' = IF hit THEN cache
                     ELSE [cache EXCEPT ![h] =
                             [valid |-> TRUE, models |-> built,
                              expires |-> BuildExpiry(models, reader[r].at)]]
         /\ reader' = [reader EXCEPT ![r].pc = "returned",
                                     ![r].models = IF hit THEN cache[h].models ELSE built]
  /\ UNCHANGED <<models, clientModels, clientProviders, now>>

Return(r) ==
  /\ reader[r].pc = "returned"
  /\ reader' = [reader EXCEPT ![r] = IdleReader]
  /\ UNCHANGED <<models, clientModels, clientProviders, cache, now>>

Tick ==
  /\ now < MaxNow
  /\ now' = now + 1
  /\ UNCHANGED <<models, clientModels, clientProviders, cache, reader>>

Next ==
  \/ \E c \in Clients, p \in Providers, occ \in Occurrences, info \in Infos :
       RegisterClient(c, p, occ, info)
  \/ \E c \in Clients : UnregisterClient(c)
  \/ \E c \in Clients, m \in Models :
       \/ SetModelQuotaExceeded(c, m)
       \/ ClearModelQuotaExceeded(c, m)
       \/ \E reason \in {"quota", "other"} : SuspendClientModel(c, m, reason)
       \/ ResumeClientModel(c, m)
  \/ CleanupExpiredQuotas
  \/ \E r \in Readers :
       \/ CallGetAvailable(r)
       \/ \E h \in Handlers : ReadCache(r, h) \/ FillCache(r, h)
       \/ Return(r)
  \/ Tick

Spec == Init /\ [][Next]_vars

-----------------------------------------------------------------------------
(* Properties *)

\* The type invariant: every map holds what its Go type allows, and an absent
\* registration carries nothing over.
TypeOK ==
  /\ models \in [Models -> Registration]
  /\ \A m \in Models : models[m].count = 0 => models[m] = Absent
  /\ clientModels \in [Clients -> Occurrences]
  /\ clientProviders \in [Clients -> Providers \cup {NoProvider}]
  /\ cache \in [Handlers -> CacheEntry]
  /\ reader \in [Readers -> [pc : {"idle", "called", "missed", "returned"},
                             at : Times, models : Listing]]
  /\ now \in Times

\* One slot per occurrence of model m in the list of a client.
Slots(m) == {s \in Clients \X (1..MaxDup) : s[2] <= clientModels[s[1]][m]}
ProviderSlots(m, p) == {s \in Slots(m) : clientProviders[s[1]] = p}

\* ModelRegistration.Count is the number of references the clients hold on the
\* model, whatever the sequence of registrations, reconciliations and provider
\* changes that led there (the increments and decrements of RegisterClient).
CountExact == \A m \in Models : models[m].count = Cardinality(Slots(m))

\* What is kept per provider: the count of its references, and a ModelInfo for as long as
\* there is one.
ProvidersCounted ==
  \A m \in Models, p \in Providers :
    models[m].providers[p] = Cardinality(ProviderSlots(m, p))

ProviderInfoTracked ==
  \A m \in Models, p \in Providers :
    models[m].infoBy[p] # NoInfo <=> models[m].providers[p] > 0

\* ModelRegistration.Providers[p] is the number of those references held under
\* provider p, so routing (GetModelProviders) names exactly the providers that
\* have a client for the model, and the provider's ModelInfo is there exactly as long:
\* the maps of a registration never disagree.
ProvidersExact == ProvidersCounted /\ ProviderInfoTracked

\* What GetAvailableModels returns is the listing at some instant between the
\* call and the return, although the clock is read before the locks are taken
\* and another reader may have filled the cache in between.
ReadIsFresh ==
  [][\A r \in Readers :
       reader[r].pc # "returned" /\ reader'[r].pc = "returned" =>
         \E t \in reader[r].at..now : reader'[r].models = BuildListing(models, t)]_vars

\* A client of m that can serve it now: it offers the model, is not within a
\* quota window and is not suspended.
AvailableClients(m) ==
  {c \in Clients : /\ clientModels[c][m] > 0
                   /\ c \notin OverQuota(models[m], now)
                   /\ models[m].suspended[c] = "none"}

\* Every client marked over quota or suspended for m still offers m. (A result
\* that arrives after UnregisterClient marks one that does not; the two claims
\* below are about the other states.)
MarkedAreClients(m) ==
  \A c \in Clients : models[m].quotaAt[c] # Never \/ models[m].suspended[c] # "none"
                      => clientModels[c][m] > 0

\* What the comment of GetAvailableModels says of it: it "returns all models that
\* have at least one available client".
ListsEveryAvailableModel ==
  \A m \in Models : MarkedAreClients(m) /\ AvailableClients(m) # {} => Listed(models[m], now)

\* What the comment of GetModelCount says of it: it "returns the number of
\* available clients for a specific model".
CountsAvailableClients ==
  \A m \in Models : MarkedAreClients(m) => GetModelCount(m) = Cardinality(AvailableClients(m))

=============================================================================

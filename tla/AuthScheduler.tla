---------------------------- MODULE AuthScheduler ----------------------------
(***************************************************************************)
(* The incremental scheduler that picks a credential for a request         *)
(* (sdk/cockpit/auth: scheduler*.go) and the manager that feeds it         *)
(* (conductor.go, conductor_result.go, conductor_selection.go).            *)
(*                                                                         *)
(* The manager owns the credentials; the scheduler owns one shard per      *)
(* provider and base model, built when first asked for and patched from    *)
(* then on. Credentials, the registry's offers and the clock change        *)
(* without the scheduler being told; Pick rebuilds it from the manager     *)
(* when it finds nothing. Here every call of the manager is one step;      *)
(* AuthConductor takes them apart at their locks.                          *)
(***************************************************************************)
EXTENDS AuthState, SequencesExt

CONSTANTS
  Auths,         (* Credential ids, ordered as their strings are.            *)
  Orders,        (* The provider lists a request may carry.                  *)
  Placements,    (* [provider, priority] a credential may be given.          *)
  Reports,       (* The [outcome, ra] an upstream may answer with.           *)
  Strategies,    (* Among "round_robin" and "fill_first".                    *)
  MaxNow         (* Bound: the last instant of the clock.                    *)

Providers  == UNION {Range(o) : o \in Orders}
Priorities == {p.priority : p \in Placements}

ASSUME SchedulerAssumption ==
  /\ Auths \subseteq Nat /\ IsFiniteSet(Auths)
  /\ Strategies \subseteq {"round_robin", "fill_first"}
  /\ Orders \subseteq Seq(Providers) /\ "" \notin Providers
  /\ \A p \in Placements : p.provider \in Providers
  /\ Priorities \subseteq Int /\ IsFiniteSet(Priorities)
  /\ \A report \in Reports : report.outcome \in Outcomes /\ report.ra \in Nat
  /\ MaxNow \in Nat \ {0}

Bases == {Base[n] : n \in Names}
None  == 0 - 1     (* nil: no credential *)

VARIABLES
  auths,     (* Manager.auths: what is placed, enabled, and its states        *)
  offers,    (* The registry: the base models registered for a credential     *)
  sched,     (* authScheduler: metas, home, shards, mixed cursors             *)
  strategy,  (* authScheduler.strategy                                        *)
  now        (* the clock                                                     *)

vars == <<auths, offers, sched, strategy, now>>

-----------------------------------------------------------------------------
(* One shard: its entries and the indexes over them. An entry's credential *)
(* is its provider's meta, so an entry keeps only what it adds.            *)

NoEntry == [state |-> "absent", nextAt |-> Zero]
NoMeta  == [known |-> FALSE, priority |-> 0, states |-> NoStates, supported |-> {}]
NoView  == [flat |-> <<>>, cursor |-> 0]

NoShard == [built |-> FALSE, entries |-> [a \in Auths |-> NoEntry],
            ready |-> [p \in Priorities |-> NoView], blocked |-> {}]

\* isAuthBlockedForModel at the shard's model, as the state of an entry.
Evaluate(meta, b, t) ==
  IF ~BlockedFor(meta.states, b, t) THEN [state |-> "ready", nextAt |-> Zero]
  ELSE [state  |-> IF IsCooldown(meta.states, b) THEN "cooldown" ELSE "blocked",
        nextAt |-> NextFor(meta.states, b, t)]

\* The ids of a set in their order.
InOrder(S) == CHOOSE s \in [1..Cardinality(S) -> S] : \A i, j \in 1..Cardinality(S) : i < j => s[i] < s[j]

\* rebuildIndexesLocked: every cursor starts over.
RebuildIndexes(entries, metas) ==
  [built   |-> TRUE,
   entries |-> entries,
   ready   |-> [p \in Priorities |->
                  [flat |-> InOrder({a \in Auths : /\ entries[a].state = "ready"
                                                   /\ metas[a].priority = p}),
                   cursor |-> 0]],
   blocked |-> {a \in Auths : entries[a].state \in {"cooldown", "blocked"}}]

\* Faulty variant: a changed priority is not a reason to rebuild.
UpsertEntrySameState(shard, a, old, metas, b, t) ==
  LET entry == Evaluate(metas[a], b, t)
  IN  IF shard.entries[a] = entry THEN shard
      ELSE RebuildIndexes([shard.entries EXCEPT ![a] = entry], metas)

\* upsertEntryLocked: nothing is rebuilt when nothing that orders it changed.
UpsertEntry(shard, a, old, metas, b, t) ==
  LET entry == Evaluate(metas[a], b, t)
  IN  IF shard.entries[a] = entry /\ old.priority = metas[a].priority THEN shard
      ELSE RebuildIndexes([shard.entries EXCEPT ![a] = entry], metas)

\* removeEntryLocked
RemoveEntry(shard, a, metas) ==
  IF shard.entries[a] = NoEntry THEN shard
  ELSE RebuildIndexes([shard.entries EXCEPT ![a] = NoEntry], metas)

\* promoteExpiredLocked
Promote(shard, metas, b, t) ==
  LET due == {a \in shard.blocked : /\ shard.entries[a].nextAt # Zero
                                    /\ shard.entries[a].nextAt <= t}
  IN  IF due = {} THEN shard
      ELSE RebuildIndexes([a \in Auths |-> IF a \in due THEN Evaluate(metas[a], b, t)
                                           ELSE shard.entries[a]], metas)

\* supportsModel: a credential with no registered model supports none.
Supports(meta, b) == meta.known /\ b \in meta.supported

\* ensureModelLocked: built on first use, promoted on every other.
EnsureModel(shard, metas, b, t) ==
  IF shard.built THEN Promote(shard, metas, b, t)
  ELSE RebuildIndexes([a \in Auths |-> IF Supports(metas[a], b) THEN Evaluate(metas[a], b, t)
                                       ELSE NoEntry], metas)

-----------------------------------------------------------------------------
(* The scheduler: s is its whole state, a map of it that has no provider   *)
(* being one with empty shards. auth and supported are the snapshot given  *)
(* to upsertAuth and what the registry offers at that instant.             *)

Empty ==
  [metas  |-> [p \in Providers |-> [a \in Auths |-> NoMeta]],
   home   |-> [a \in Auths |-> ""],
   shards |-> [p \in Providers |-> [b \in Bases |-> NoShard]],
   mixed  |-> [o \in Orders |-> [b \in Bases |-> 0]]]

BuildMeta(auth, supported) ==
  [known |-> TRUE, priority |-> auth.priority, states |-> auth.states, supported |-> supported]

\* The metas and the shards of one provider; the provider of one credential.
SetProvider(s, p, metas, shards) ==
  [s EXCEPT !.metas = [@ EXCEPT ![p] = metas], !.shards = [@ EXCEPT ![p] = shards]]
SetHome(s, a, p) == [s EXCEPT !.home = [@ EXCEPT ![a] = p]]

\* providerScheduler.removeAuthLocked
RemoveFrom(s, p, a) ==
  LET metas == [s.metas[p] EXCEPT ![a] = NoMeta]
  IN  SetProvider(s, p, metas, [b \in Bases |-> RemoveEntry(s.shards[p][b], a, metas)])

\* removeAuthLocked
RemoveAuth(s, a) ==
  IF s.home[a] = "" THEN s ELSE SetHome(RemoveFrom(s, s.home[a], a), a, "")

\* providerScheduler.upsertAuthLocked: only shards that were asked for exist.
UpsertInto(s, p, a, meta, t) ==
  LET old   == s.metas[p][a]
      metas == [s.metas[p] EXCEPT ![a] = meta]
      patched(shard, b) ==
        IF ~shard.built THEN shard
        ELSE IF Supports(meta, b) THEN UpsertEntry(shard, a, old, metas, b, t)
        ELSE RemoveEntry(shard, a, metas)
  IN  SetProvider(s, p, metas, [b \in Bases |-> patched(s.shards[p][b], b)])

\* upsertAuthLocked
UpsertAuth(s, a, auth, supported, t) ==
  LET left == IF s.home[a] \in {"", auth.provider} THEN s ELSE RemoveFrom(s, s.home[a], a)
  IN  IF auth.disabled THEN RemoveAuth(s, a)
      ELSE SetHome(UpsertInto(left, auth.provider, a, BuildMeta(auth, supported), t),
                   a, auth.provider)

\* syncScheduler: rebuild from a snapshot of the manager and of the registry.
Scheduled(as, a) == as[a].present /\ ~as[a].disabled
Sync(as, supported) ==
  [metas  |-> [p \in Providers |-> [a \in Auths |->
                 IF Scheduled(as, a) /\ as[a].provider = p
                   THEN BuildMeta(as[a], supported[a]) ELSE NoMeta]],
   home   |-> [a \in Auths |-> IF Scheduled(as, a) THEN as[a].provider ELSE ""],
   shards |-> Empty.shards,
   mixed  |-> Empty.mixed]

-----------------------------------------------------------------------------
(* Picking. A cursor is the position of the last pick (0: none), and the   *)
(* next search starts behind it.                                           *)

\* Faulty variant: the search starts at the cursor, not behind it.
RotateStuck(open, cursor, len) ==
  CHOOSE i \in open : \A j \in open : (i - cursor) % len <= (j - cursor) % len

\* pickRoundRobin, over the positions a predicate leaves open.
Rotate(open, cursor, len) ==
  CHOOSE i \in open : \A j \in open : (i - 1 - cursor) % len <= (j - 1 - cursor) % len

Take(fill, open, cursor, len) == IF fill THEN Min(open) ELSE Rotate(open, cursor, len)

\* The positions of a shard's bucket that this request has not tried.
Open(view, tried) == {i \in DOMAIN view.flat : view.flat[i] \notin tried}

Ensure(s, ps, b, t) ==
  [s EXCEPT !.shards = [p \in Providers |->
     IF p \in ps THEN [s.shards[p] EXCEPT ![b] = EnsureModel(@, s.metas[p], b, t)]
     ELSE s.shards[p]]]

\* Faulty variant: the priority is the first provider's, not the best one's.
BestPriorityFirst(s, order, b, tried) ==
  LET open(p) == {pr \in Priorities : Open(s.shards[p][b].ready[pr], tried) # {}}
      p == order[Min({i \in DOMAIN order : open(order[i]) # {}})]
  IN  Max(open(p))

\* The highest priority that some provider of the list can serve.
BestPriority(s, order, b, tried) ==
  Max({pr \in Priorities : \E p \in Range(order) : Open(s.shards[p][b].ready[pr], tried) # {}})

AnyOpen(s, order, b, tried) ==
  \E p \in Range(order), pr \in Priorities : Open(s.shards[p][b].ready[pr], tried) # {}

NoPick(s) == [sched |-> s, auth |-> None, at |-> 0]

Turned(shard, priority, i) ==
  [shard EXCEPT !.ready = [@ EXCEPT ![priority] = [flat   |-> shard.ready[priority].flat,
                                                   cursor |-> i]]]
SetShard(s, p, b, shard) ==
  [s EXCEPT !.shards = [@ EXCEPT ![p] = [s.shards[p] EXCEPT ![b] = shard]]]

\* pickReadyAtPriorityLocked: fill-first leaves the cursor alone.
PickReady(s, p, b, priority, tried, fill) ==
  LET view == s.shards[p][b].ready[priority]
      i    == Take(fill, Open(view, tried), view.cursor, Len(view.flat))
  IN  [sched |-> IF fill THEN s ELSE SetShard(s, p, b, Turned(s.shards[p][b], priority, i)),
       auth  |-> view.flat[i]]

\* Of the providers that have the best priority, the one whose turn it is: "at" is
\* its position in the order, for the caller's cursor.
PickBestOf(s, order, cursor, b, priority, tried, fill) ==
  LET serving == {i \in DOMAIN order : Open(s.shards[order[i]][b].ready[priority], tried) # {}}
      at      == Take(fill, serving, cursor, Len(order))
      pick    == PickReady(s, order[at], b, priority, tried, fill)
  IN  [sched |-> pick.sched, auth |-> pick.auth, at |-> at]

PickEnsured(s, order, cursor, b, tried, fill) ==
  IF AnyOpen(s, order, b, tried)
    THEN PickBestOf(s, order, cursor, b, BestPriority(s, order, b, tried), tried, fill)
  ELSE NoPick(s)

\* The common part of pickMixed and of its pinned case.
PickFrom(s, order, cursor, b, tried, fill, t) ==
  PickEnsured(Ensure(s, Range(order), b, t), order, cursor, b, tried, fill)

\* mixedCursors
SetMixed(s, order, b, at) ==
  [s EXCEPT !.mixed = [@ EXCEPT ![order] = [s.mixed[order] EXCEPT ![b] = at]]]
Advance(pick, order, b, fill) ==
  IF fill \/ pick.auth = None THEN pick
  ELSE [sched |-> SetMixed(pick.sched, order, b, pick.at), auth |-> pick.auth, at |-> pick.at]

\* pickMixed: pinned is a credential the request must use, or None.
PickMixed(s, order, b, tried, pinned, fill, t) ==
  IF pinned = None
    THEN Advance(PickFrom(s, order, s.mixed[order][b], b, tried, fill, t), order, b, fill)
  ELSE IF s.home[pinned] \notin Range(order) THEN NoPick(s)
  ELSE PickFrom(s, <<s.home[pinned]>>, 0, b, tried \union (Auths \ {pinned}), fill, t)

\* pickNextMixed: every failure of the scheduler is worth one rebuild.
PickNext(s, as, supported, order, n, tried, pinned, fill, t) ==
  LET first == PickMixed(s, order, Base[n], tried, pinned, fill, t)
  IN  IF first.auth # None THEN first
      ELSE PickMixed(Sync(as, supported), order, Base[n], tried, pinned, fill, t)

-----------------------------------------------------------------------------
(* The manager's operations. *)

\* A request that pins a credential tries no other; one that does not pin has tried
\* any set of them before.
Tries == {[tried |-> tried, pinned |-> None] : tried \in SUBSET Auths}
             \union {[tried |-> {}, pinned |-> a] : a \in Auths}

Absent == [present |-> FALSE, disabled |-> FALSE, provider |-> "", priority |-> 0,
           states |-> NoStates]

Init ==
  /\ auths = [a \in Auths |-> Absent]
  /\ offers = [a \in Auths |-> {}]
  /\ sched = Empty
  /\ strategy \in Strategies
  /\ now = 1

\* Register, or Update of a credential that is there: its states are kept.
Store(a, placement, disabled) ==
  LET auth == [present |-> TRUE, disabled |-> disabled, provider |-> placement.provider,
               priority |-> placement.priority, states |-> auths[a].states]
  IN  /\ auths' = [auths EXCEPT ![a] = auth]
      /\ sched' = UpsertAuth(sched, a, auth, offers[a], now)
      /\ UNCHANGED <<offers, strategy, now>>

Unregister(a) ==
  /\ auths[a].present
  /\ auths' = [auths EXCEPT ![a] = Absent]
  /\ sched' = RemoveAuth(sched, a)
  /\ UNCHANGED <<offers, strategy, now>>

\* MarkResult: a result is stored under the name that was requested.
MarkResult(a, n, report) ==
  LET auth == [auths[a] EXCEPT !.states = MarkStates(@, n, now, report.outcome, report.ra, TRUE)]
  IN  /\ auths[a].present
      /\ auths' = [auths EXCEPT ![a] = auth]
      /\ sched' = UpsertAuth(sched, a, auth, offers[a], now)
      /\ UNCHANGED <<offers, strategy, now>>

\* The service registers a credential's models (RegisterClient, UnregisterClient).
SetOffers(a, bs) ==
  /\ offers' = [offers EXCEPT ![a] = bs]
  /\ UNCHANGED <<auths, sched, strategy, now>>

\* RefreshSchedulerEntry, which follows the registration of models.
RefreshSchedulerEntry(a) ==
  /\ auths[a].present
  /\ sched' = UpsertAuth(sched, a, auths[a], offers[a], now)
  /\ UNCHANGED <<auths, offers, strategy, now>>

\* SetSelector clears the mixed cursors and rebuilds.
SetSelector(kind) ==
  /\ strategy' = kind
  /\ sched' = Sync(auths, offers)
  /\ UNCHANGED <<auths, offers, now>>

Pick(order, n, tried, pinned) ==
  /\ sched' = PickNext(sched, auths, offers, order, n, tried, pinned,
                       strategy = "fill_first", now).sched
  /\ UNCHANGED <<auths, offers, strategy, now>>

Tick ==
  /\ now < MaxNow
  /\ now' = now + 1
  /\ UNCHANGED <<auths, offers, sched, strategy>>

Next ==
  \/ \E a \in Auths :
       \/ \E placement \in Placements, disabled \in BOOLEAN : Store(a, placement, disabled)
       \/ Unregister(a)
       \/ \E n \in Names, report \in Reports : MarkResult(a, n, report)
       \/ \E bs \in SUBSET Bases : SetOffers(a, bs)
       \/ RefreshSchedulerEntry(a)
  \/ \E kind \in Strategies : SetSelector(kind)
  \/ \E order \in Orders, n \in Names, c \in Tries : Pick(order, n, c.tried, c.pinned)
  \/ Tick

Spec == Init /\ [][Next]_vars

-----------------------------------------------------------------------------
(* Properties *)

TypeOK ==
  /\ DOMAIN auths = Auths /\ DOMAIN offers = Auths
  /\ \A a \in Auths :
       /\ auths[a].present \in BOOLEAN /\ auths[a].disabled \in BOOLEAN
       /\ auths[a].provider \in Providers \union {""}
       /\ DOMAIN auths[a].states = Names
       /\ offers[a] \subseteq Bases
       /\ sched.home[a] \in Providers \union {""}
  /\ \A p \in Providers, b \in Bases : \A pr \in Priorities :
       LET view == sched.shards[p][b].ready[pr]
       IN  view.flat \in Seq(Auths) /\ view.cursor \in 0..Len(view.flat)
  /\ \A o \in Orders, b \in Bases : sched.mixed[o][b] \in 0..Len(o)
  /\ strategy \in Strategies
  /\ now \in 1..MaxNow

\* However a credential is moved, re-prioritised, disabled, cooled down and
\* re-registered, a shard that was patched all along is the shard a rebuild would
\* give: the credentials of its provider that support its model, each either in
\* the sorted bucket of its priority or among the blocked ones, and nowhere else.
IndexCoherent ==
  \A p \in Providers :
    /\ \A a \in Auths : sched.metas[p][a].known <=> sched.home[a] = p
    /\ \A b \in Bases :
         LET shard == sched.shards[p][b]
             metas == sched.metas[p]
             fresh == RebuildIndexes(shard.entries, metas)
         IN  shard.built =>
               /\ \A a \in Auths : shard.entries[a] # NoEntry <=> Supports(metas[a], b)
               /\ shard.blocked = fresh.blocked
               /\ \A pr \in Priorities : shard.ready[pr].flat = fresh.ready[pr].flat

\* A credential the manager no longer has, or has disabled, is in no shard, and
\* every other one is scheduled with the states, provider and priority the manager
\* holds: no operation of the manager forgets to tell the scheduler.
SchedulerTracksManager ==
  \A a \in Auths :
    /\ sched.home[a] = (IF Scheduled(auths, a) THEN auths[a].provider ELSE "")
    /\ Scheduled(auths, a) =>
         LET meta == sched.metas[auths[a].provider][a]
         IN  meta.states = auths[a].states /\ meta.priority = auths[a].priority

\* The type invariant and the two above: what the manager holds is what the shards
\* index, after any sequence of patches (upsertAuth, removeAuth, syncScheduler).
Coherent == TypeOK /\ IndexCoherent /\ SchedulerTracksManager

Fill == strategy = "fill_first"
Picked(order, n, tried, pinned) ==
  PickNext(sched, auths, offers, order, n, tried, pinned, Fill, now).auth

\* What the manager's own data say about a request.
Usable(a, order, n, tried, pinned) ==
  /\ Scheduled(auths, a)
  /\ auths[a].provider \in Range(order)
  /\ ~BlockedFor(auths[a].states, Base[n], now)
  /\ a \notin tried
  /\ pinned \in {a, None}

Known(a) == sched.metas[auths[a].provider][a].supported

\* Whatever the scheduler was through, the credential it picks is enabled, belongs
\* to a provider of the request, is not cooling down, was not tried by this
\* request, is the pinned one if there is one, and served the model when its entry
\* was last refreshed or serves it now.
PickSound(a, order, n, c) ==
  a # None => /\ Usable(a, order, n, c.tried, c.pinned)
              /\ n \in Known(a) \union offers[a]

\* A request fails for want of a credential only if no credential could serve it:
\* stale offers and entries that wait too long are made good by the rebuild.
PickComplete(a, order, n, c) ==
  a = None => ~\E other \in Auths : /\ Usable(other, order, n, c.tried, c.pinned)
                                    /\ n \in offers[other]

\* No usable credential has a higher priority than the picked one, whatever its
\* provider: but for one whose models were not refreshed yet, and for one whose
\* shard entry still waits for the end of a longer quota window.
PickBest(a, order, n, c) ==
  a # None =>
    \A other \in Auths :
      (/\ Usable(other, order, n, c.tried, c.pinned)
       /\ n \in Known(other) \intersect offers[other]
       /\ auths[other].states[Base[n]].recoverAt <= now)
      => auths[other].priority <= auths[a].priority

\* A pick is one the manager's own data allow, there is one whenever they allow one,
\* and none of a higher priority was left out (pickNextMixed).
PicksRight ==
  \A order \in Orders, n \in Bases, c \in Tries :
    LET a == Picked(order, n, c.tried, c.pinned)
    IN  /\ PickSound(a, order, n, c)
        /\ PickComplete(a, order, n, c)
        /\ PickBest(a, order, n, c)

\* Round robin: from any state, as many picks as the request's providers times the
\* credentials reach every credential that shares the best priority.
Round(order, n) ==
  LET run[k \in 0..(Len(order) * Cardinality(Auths))] ==
        IF k = 0 THEN [sched |-> sched, served |-> {}]
        ELSE LET r == PickNext(run[k - 1].sched, auths, offers, order, n, {}, None, FALSE, now)
             IN  [sched |-> r.sched, served |-> run[k - 1].served \union {r.auth}]
  IN  run[Len(order) * Cardinality(Auths)].served

RoundServesAll ==
  ~Fill =>
    \A order \in Orders, n \in Bases :
      LET served == Round(order, n)
      IN  served # {None} =>
            \A a \in Auths :
              (/\ Usable(a, order, n, {}, None)
               /\ n \in Known(a) \intersect offers[a]
               /\ auths[a].states[Base[n]].recoverAt <= now
               /\ \E other \in served : auths[other].priority = auths[a].priority)
              => a \in served

-----------------------------------------------------------------------------
(* What the tests and comments say, and the code does not do. *)

\* scheduler_test.go, TestManager_SchedulerTracksMarkResultCooldownAndRecovery: a
\* credential that answered 429 for a model is not picked for that model while
\* another one is ready.
CooledDownNotPicked ==
  \A order \in Orders, n \in Names :
    LET a == Picked(order, n, {}, None)
    IN  a # None /\ BlockedFor(auths[a].states, n, now) =>
          ~\E other \in Auths : /\ Usable(other, order, n, {}, None)
                                /\ Base[n] \in Known(other)
                                /\ ~BlockedFor(auths[other].states, n, now)

\* promoteExpiredLocked "reevaluates blocked auths whose retry time has elapsed".
ExpiredArePromoted ==
  \A p \in Providers, b \in Bases :
    LET shard == EnsureModel(sched.shards[p][b], sched.metas[p], b, now)
    IN  \A a \in shard.blocked : CoolingAt(StateFor(sched.metas[p][a].states, b), now)

=============================================================================

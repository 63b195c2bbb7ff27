----------------------------- MODULE AuthState -----------------------------
(***************************************************************************)
(* What the manager remembers of a credential's failures, and how a result *)
(* changes it (sdk/cockpit/auth: MarkResult in conductor_result.go, its    *)
(* helpers, and isAuthBlockedForModel in selector.go).                     *)
(*                                                                         *)
(* Time is counted in ticks from 1; 0 is the zero time.Time. A ModelStates *)
(* map is a function on the requested model names; a name without an entry *)
(* maps to Unknown. A requested name may carry a thinking suffix: Base     *)
(* gives the name without it.                                              *)
(***************************************************************************)
EXTENDS Integers, FiniteSets

CONSTANTS
  Names,         (* Requested model names, with or without a suffix.          *)
  Base,          (* Base[n]: canonicalModelKey(n), itself one of the names.   *)
  RetryAfters,   (* Retry-After values an upstream may send, in ticks; 0: none *)
  BackoffBase,   (* quotaBackoffBase                                          *)
  BackoffMax,    (* quotaBackoffMax                                           *)
  Transient,     (* The pause after a 408 or 5xx (1 minute).                  *)
  Rejected,      (* The pause after a 401, 402 or 403 (30 minutes).           *)
  NotFound       (* The pause after a 404 (12 hours).                         *)

ASSUME NamesAssumption ==
  /\ IsFiniteSet(Names)
  /\ Base \in [Names -> Names]
  /\ \A n \in Names : Base[Base[n]] = Base[n]
ASSUME CooldownAssumption ==
  /\ RetryAfters \subseteq Nat
  /\ {BackoffBase, BackoffMax, Transient, Rejected, NotFound} \subseteq Nat \ {0}
  /\ BackoffBase < BackoffMax /\ BackoffMax <= Rejected /\ Rejected <= NotFound

Zero == 0

\* How a request ended, by the status codes MarkResult tells apart. "other" is
\* every status without a case of its own, and a failure without a status.
Outcomes == {"success", "rejected", "not_found", "quota", "transient", "other"}

Unknown ==
  [known |-> FALSE, unavailable |-> FALSE, failed |-> FALSE, retryAt |-> Zero,
   exceeded |-> FALSE, recoverAt |-> Zero, level |-> 0]
\* ensureModelState's new entry, and what resetModelState leaves.
Active == [Unknown EXCEPT !.known = TRUE]

NoStates == [n \in Names |-> Unknown]

Pow2[k \in Nat] == IF k = 0 THEN 1 ELSE 2 * Pow2[k - 1]

\* Faulty variant: the level grows past the one that reaches the maximum.
NextQuotaCooldownUnbounded(level, cooling) ==
  LET pause == BackoffBase * Pow2[level]
  IN  IF ~cooling THEN [pause |-> 0, level |-> level]
      ELSE [pause |-> IF pause >= BackoffMax THEN BackoffMax ELSE pause, level |-> level + 1]

\* nextQuotaCooldown: the pause and the next level.
NextQuotaCooldown(level, cooling) ==
  LET pause == BackoffBase * Pow2[level]
  IN  IF ~cooling THEN [pause |-> 0, level |-> level]
      ELSE IF pause >= BackoffMax THEN [pause |-> BackoffMax, level |-> level]
      ELSE [pause |-> pause, level |-> level + 1]

-----------------------------------------------------------------------------
(* MarkResult on one model state: s, at instant t, with the Retry-After ra *)
(* the upstream sent and "cooling" false when the credential disables it.  *)

Quota(s, t, ra, cooling) ==
  LET backoff == NextQuotaCooldown(s.level, cooling)
      pause   == IF ra > 0 THEN ra ELSE backoff.pause
      next    == IF pause > 0 THEN t + pause ELSE Zero
  IN  [s EXCEPT !.retryAt = next, !.exceeded = TRUE, !.recoverAt = next,
                !.level = IF ra > 0 THEN s.level ELSE backoff.level]

Failure(s, t, outcome, ra, cooling) ==
  LET f == [s EXCEPT !.known = TRUE, !.unavailable = TRUE, !.failed = TRUE]
  IN  CASE outcome = "rejected"  -> [f EXCEPT !.retryAt = t + Rejected]
        [] outcome = "not_found" -> [f EXCEPT !.retryAt = t + NotFound]
        [] outcome = "quota"     -> Quota(f, t, ra, cooling)
        [] outcome = "transient" -> [f EXCEPT !.retryAt = IF cooling THEN t + Transient ELSE Zero]
        [] outcome = "other"     -> [f EXCEPT !.retryAt = Zero]

Settle(s, t, outcome, ra, cooling) ==
  IF outcome = "success" THEN Active ELSE Failure(s, t, outcome, ra, cooling)

\* updateAggregatedAvailability drops, on the way, the cooldowns that are over.
Expired(s, t) == s.unavailable /\ s.retryAt # Zero /\ s.retryAt <= t
Expire(s, t) == IF Expired(s, t) THEN [s EXCEPT !.unavailable = FALSE, !.retryAt = Zero] ELSE s

\* MarkResult on a credential's model states.
MarkStates(states, n, t, outcome, ra, cooling) ==
  LET settled == [states EXCEPT ![n] = Settle(@, t, outcome, ra, cooling)]
  IN  [x \in Names |-> Expire(settled[x], t)]

-----------------------------------------------------------------------------
(* Queries. *)

CoolingAt(s, t) == s.unavailable /\ s.retryAt > t

\* isAuthBlockedForModel for an enabled credential and the name n: the entry of
\* n, or that of its base when n has none.
StateFor(states, n) == IF states[n].known THEN states[n] ELSE states[Base[n]]
BlockedFor(states, n, t) == CoolingAt(StateFor(states, n), t)

\* The instant it reports for a blocked name, and whether it is a cooldown.
NextFor(states, n, t) ==
  LET s == StateFor(states, n) IN IF s.recoverAt > t THEN s.recoverAt ELSE s.retryAt
IsCooldown(states, n) == StateFor(states, n).exceeded

=============================================================================

-------------------------- MODULE AuthAvailability --------------------------
(***************************************************************************)
(* One credential through a sequence of results, in any order, for several *)
(* models: the state of each model and the aggregate that                  *)
(* updateAggregatedAvailability and hasModelError keep on the Auth itself, *)
(* which listings, refresh and model-less selection read.                  *)
(*                                                                         *)
(* Results reach MarkResult in the order in which requests END, so any     *)
(* outcome may follow any other for the same model.                        *)
(***************************************************************************)
EXTENDS AuthState

CONSTANT MaxNow      (* Bound: the last instant of the clock. *)

VARIABLES
  states,   (* auth.ModelStates                                              *)
  agg,      (* auth.Unavailable, NextRetryAfter, Quota, and Status/LastError *)
  cooling,  (* ~quotaCooldownDisabledForAuth(auth)                           *)
  now       (* the clock                                                     *)

vars == <<states, agg, cooling, now>>

MinOfTimes(S) == CHOOSE t \in S : \A u \in S : t <= u

\* A minimum over the nonzero times, zero if there is none.
Earliest(S) == IF S \ {Zero} = {} THEN Zero ELSE MinOfTimes(S \ {Zero})

KnownNames(ss) == {n \in Names : ss[n].known}

\* Faulty variant: one cooling model makes the credential unavailable.
AggregateAny(ss, t) ==
  LET cooled    == {n \in KnownNames(ss) : CoolingAt(ss[n], t)}
      exceeding == {n \in KnownNames(ss) : ss[n].exceeded}
  IN  [unavailable |-> cooled # {},
       retryAt     |-> Earliest({ss[n].retryAt : n \in cooled}),
       exceeded    |-> exceeding # {},
       recoverAt   |-> Earliest({ss[n].recoverAt : n \in exceeding})]

\* updateAggregatedAvailability, over model states already expired at t.
Aggregate(ss, t) ==
  LET known     == KnownNames(ss)
      all       == \A n \in known : CoolingAt(ss[n], t)
      exceeding == {n \in known : ss[n].exceeded}
  IN  [unavailable |-> all,
       retryAt     |-> IF all THEN Earliest({ss[n].retryAt : n \in known}) ELSE Zero,
       exceeded    |-> exceeding # {},
       recoverAt   |-> Earliest({ss[n].recoverAt : n \in exceeding})]

\* hasModelError: some result is still an error.
HasModelError(ss) == \E n \in KnownNames(ss) : ss[n].failed

Init ==
  /\ states = [n \in Names |-> Unknown]
  /\ agg = [unavailable |-> FALSE, retryAt |-> Zero, exceeded |-> FALSE,
            recoverAt |-> Zero, failed |-> FALSE]
  /\ cooling \in BOOLEAN
  /\ now = 1

\* MarkResult(n): a failure sets the credential's error, a success clears it when
\* no model has one.
MarkResult(n, outcome, ra) ==
  LET marked == MarkStates(states, n, now, outcome, ra, cooling)
      sums   == Aggregate(marked, now)
      failed == IF outcome # "success" THEN TRUE
                ELSE agg.failed /\ HasModelError(marked)
  IN  /\ states' = marked
      /\ agg' = [unavailable |-> sums.unavailable, retryAt |-> sums.retryAt,
                 exceeded |-> sums.exceeded, recoverAt |-> sums.recoverAt,
                 failed |-> failed]
      /\ UNCHANGED <<cooling, now>>

\* SetQuotaCooldownDisabled, on a configuration reload.
SetQuotaCooldownDisabled ==
  /\ cooling' = ~cooling
  /\ UNCHANGED <<states, agg, now>>

Tick ==
  /\ now < MaxNow
  /\ now' = now + 1
  /\ UNCHANGED <<states, agg, cooling>>

Next ==
  \/ \E n \in Names :
       \/ \E outcome \in Outcomes \ {"quota"} : MarkResult(n, outcome, 0)
       \/ \E ra \in RetryAfters : MarkResult(n, "quota", ra)
  \/ SetQuotaCooldownDisabled
  \/ Tick

Spec == Init /\ [][Next]_vars

-----------------------------------------------------------------------------
(* Properties *)

ModelState ==
  [known : BOOLEAN, unavailable : BOOLEAN, failed : BOOLEAN, retryAt : Nat,
   exceeded : BOOLEAN, recoverAt : Nat, level : Nat]

\* The type invariant; a name that was never marked carries nothing.
TypeOK ==
  /\ states \in [Names -> ModelState]
  /\ \A n \in Names : ~states[n].known => states[n] = Unknown
  /\ agg \in [unavailable : BOOLEAN, retryAt : Nat, exceeded : BOOLEAN,
              recoverAt : Nat, failed : BOOLEAN]
  /\ cooling \in BOOLEAN
  /\ now \in Nat \ {0}

\* The types hold, and however many 429s arrive, and in whatever order with successes and changes of
\* configuration, the backoff level never passes the one whose pause is the
\* maximum: the shift in nextQuotaCooldown cannot overflow.
BackoffBounded ==
  /\ TypeOK
  /\ \A n \in Names : states[n].level > 0 => BackoffBase * Pow2[states[n].level - 1] < BackoffMax

\* The aggregate says "unavailable until retryAt" at every later instant exactly
\* when every model that was ever tried is cooling down at that instant, although
\* it is computed only when a result arrives and time passes in between; and it
\* shows an error exactly while the last result of some model was one: a success
\* clears it only when it was the last failing model.
AggregateExact ==
  /\ KnownNames(states) # {} =>
       (agg.unavailable /\ agg.retryAt > now
          <=> \A n \in KnownNames(states) : CoolingAt(states[n], now))
  /\ agg.failed <=> \E n \in Names : states[n].failed

=============================================================================

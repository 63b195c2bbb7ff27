--------------------------- MODULE MCAuthScheduler ---------------------------
(* An instance of AuthScheduler for TLC, and next to it one of             *)
(* AuthAvailability: two machines that share no state, of which one moves. *)
EXTENDS AuthScheduler

CONSTANTS
  plain, other,
  Models,        (* The models of AuthAvailability's credential.             *)
  LastInstant    (* Bound: the last instant of its clock.                    *)

ASSUME AvailabilityAssumption == IsFiniteSet(Models) /\ LastInstant \in Nat

PlainOnly == {plain}
BaseOf == [n \in Names |-> n]

TwoProviders == {<<"codex", "openai">>}

\* Placements: two priorities at the first provider, the higher at the second.
At(p, pr) == [provider |-> p, priority |-> pr]
Moving == {At("codex", 0), At("codex", 1), At("openai", 1)}

\* Reports: a 429 with a short Retry-After.
Report(outcome, ra) == [outcome |-> outcome, ra |-> ra]
OneQuota == {Report("quota", 1)}

-----------------------------------------------------------------------------
(* One credential with two model names, four instants and every outcome.   *)

VARIABLES
  machine,                      (* the one that moves                         *)
  states, agg, cooling, clock   (* those of AuthAvailability                  *)

TwoModels == {plain, other}
Availability == INSTANCE AuthAvailability WITH
  Names <- Models, Base <- [n \in Models |-> n], MaxNow <- LastInstant, now <- clock

\* The invariants of each machine, where they can change.
BackoffBounded == machine = "availability" => Availability!BackoffBounded
AggregateExact == machine = "availability" => Availability!AggregateExact
MCCoherent == machine = "scheduler" => Coherent
MCRoundServesAll == machine = "scheduler" => RoundServesAll
MCPicksRight == machine = "scheduler" => PicksRight

MCInit ==
  /\ machine \in {"scheduler", "availability"}
  /\ Init
  /\ Availability!Init
  /\ machine = "scheduler" => cooling
  /\ machine = "availability" => strategy = "round_robin"

MCNext ==
  /\ UNCHANGED machine
  /\ \/ /\ machine = "scheduler" /\ Next
        /\ UNCHANGED <<states, agg, cooling, clock>>
     \/ /\ machine = "availability" /\ Availability!Next
        /\ UNCHANGED vars

MCSpec == MCInit /\ [][MCNext]_<<machine, vars, states, agg, cooling, clock>>

=============================================================================

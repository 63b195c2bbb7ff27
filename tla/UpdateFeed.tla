----------------------------- MODULE UpdateFeed ------------------------------
(***************************************************************************)
(* What the watcher promises the credential manager, without its map of    *)
(* pending updates, its loop and its channel: the updates of a credential  *)
(* are applied in the order in which they were handed over, a later one    *)
(* may take the place of one that has not been applied, and as long as the *)
(* service runs every credential reaches its last update.                  *)
(***************************************************************************)
EXTENDS Sequences, SequencesExt

CONSTANTS
  Ids,       (* Credentials.                                                 *)
  Content,   (* What a credential can be, Absent (a removal) included.       *)
  NoUpdate

VARIABLES
  due,       (* [Ids -> contents handed over and not applied, oldest first]  *)
  manager,   (* [Ids -> content the credential manager holds]                *)
  open       (* The service has not been stopped.                            *)

feed == <<due, manager, open>>

Init ==
  /\ due = [i \in Ids |-> <<>>] /\ open = TRUE
  /\ manager \in [Ids -> Content]

\* A new update waits behind the older ones or replaces the last of them.
Joined(s, u) ==
  IF u = NoUpdate THEN {s}
  ELSE {Append(s, u)} \cup (IF s = <<>> THEN {} ELSE {Append(Front(s), u)})

Hand ==
  \E updates \in [Ids -> Content \cup {NoUpdate}] :
    /\ \A i \in Ids : due'[i] \in Joined(due[i], updates[i])
    /\ due' = [i \in Ids |-> due'[i]]
    /\ UNCHANGED <<manager, open>>

Apply(i) ==
  /\ due[i] # <<>>
  /\ due' = [due EXCEPT ![i] = Tail(@)]
  /\ manager' = [manager EXCEPT ![i] = Head(due[i])]
  /\ UNCHANGED open

\* The manager is changed by others too.
Overwrite(i) ==
  /\ manager' \in {[manager EXCEPT ![i] = c] : c \in Content}
  /\ UNCHANGED <<due, open>>

\* Once it is stopped the service may forget updates.
Forget ==
  /\ open' = FALSE
  /\ \A i \in Ids : due'[i] \in {due[i]} \cup {RemoveAt(due[i], n) : n \in DOMAIN due[i]}
  /\ due' = [i \in Ids |-> due'[i]]
  /\ UNCHANGED manager

Next == Hand \/ Forget \/ \E i \in Ids : Apply(i) \/ Overwrite(i)

Spec == Init /\ [][Next]_feed /\ \A i \in Ids : WF_feed(open /\ Apply(i))
==============================================================================

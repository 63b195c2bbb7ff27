---------------------------- MODULE WatcherReload ----------------------------
(***************************************************************************)
(* The reloads of the watcher (internal/watcher/dispatcher.go, clients.go, *)
(* config_reload.go): the credentials of the store are compared with those *)
(* of the last reload under clientsMutex, and the differences are handed   *)
(* over under another lock. Reloads run in the goroutines of the store's   *)
(* listener, of the configuration's listener, and of Start. A credential   *)
(* is a version, or Absent. Those of the configuration file do not change  *)
(* here. UpdateDispatch continues with how updates reach the manager,      *)
(* AuthSync with where changes come from.                                  *)
(***************************************************************************)
EXTENDS Integers, Sequences, FiniteSets, SequencesExt

CONSTANTS
  Ids,         (* Credentials of the store.                                  *)
  Versions,    (* Contents of a credential.                                  *)
  Absent,
  NoUpdate

ASSUME ReloadAssumption ==
  /\ IsFiniteSet(Ids) /\ NoUpdate # Absent /\ {Absent, NoUpdate} \cap Versions = {}

Content == Versions \cup {Absent}
Reloaders == {"store", "config", "start"}

VARIABLES
  stored,    (* [Ids -> Content]: w.storeAuths                               *)
  current,   (* [Ids -> Content]: w.currentAuths                             *)
  reload,    (* [Reloaders -> the reload under way there]                    *)
  stage,     (* "running", "cancelled", "closed" (no queue), "stopped"       *)
  manager,   (* [Ids -> Content]: the credential manager, which the updates *)
             (* reach in ways the other modules describe.                    *)
  stale,     (* History: credentials whose last update was overtaken.        *)
  unknown    (* History: credentials the manager got from elsewhere (Load,   *)
             (* the management API) and no reload has compared since.        *)

histories == <<stale, unknown>>
reloadVars == <<stored, current, reload, stage, histories>>

HasQueue == stage \in {"running", "cancelled"}

Nothing == [i \in Ids |-> NoUpdate]
Touched(updates) == {i \in Ids : updates[i] # NoUpdate}
\* earlier: reloads that had been compared but not handed over at the time
\* this one was compared; overtaken: what later reloads handed over first.
Idle == [pc |-> "idle", force |-> FALSE, updates |-> Nothing, earlier |-> {}, overtaken |-> {}]

-----------------------------------------------------------------------------
(* Reloads. *)

\* A reload starts: reloadClients, up to the lock of refreshAuthState.
Begin(r, force) == reload' = [reload EXCEPT ![r] = [Idle EXCEPT !.pc = "loaded", !.force = force]]

\* reloadAuthsFromStore: the store's credentials are replaced, the reload is
\* always a forced one. The listener looks at stopped first.
StoreChanged(auths) ==
  /\ stage = "running" /\ reload["store"].pc = "idle"
  /\ stored' = auths
  /\ Begin("store", TRUE)
  /\ UNCHANGED <<current, stage, histories>>

\* reloadConfigFromSource: forced when the retry settings changed.
ConfigChanged(force) ==
  /\ stage = "running" /\ reload["config"].pc = "idle"
  /\ Begin("config", force)
  /\ UNCHANGED <<stored, current, stage, histories>>

\* Faulty variant: a forced reload looks only at what there is.
DifferenceForcedKeeps(force) ==
  [i \in Ids |-> IF stored[i] # Absent /\ (force \/ current[i] # stored[i]) THEN stored[i]
                 ELSE IF stored[i] = Absent /\ current[i] # Absent /\ ~force THEN Absent
                 ELSE NoUpdate]

\* prepareAuthUpdatesLocked: add, modify or delete.
Difference(force) ==
  [i \in Ids |-> IF stored[i] # Absent /\ (force \/ current[i] # stored[i]) THEN stored[i]
                 ELSE IF stored[i] = Absent /\ current[i] # Absent THEN Absent
                 ELSE NoUpdate]

\* Compared: without differences there is nothing to hand over.
Compared(r, updates) ==
  IF updates = Nothing THEN Idle
  ELSE [Idle EXCEPT !.pc = "compared", !.updates = updates,
                    !.earlier = {q \in Reloaders : reload[q].pc = "compared"}]

\* refreshAuthState, under clientsMutex. Without a queue there are no updates.
Compare(r) ==
  /\ reload[r].pc = "loaded"
  /\ reload' = [reload EXCEPT ![r] =
       Compared(r, IF HasQueue THEN Difference(reload[r].force) ELSE Nothing)]
  /\ current' = stored
  /\ unknown' = {i \in unknown : stored[i] = Absent}
  /\ UNCHANGED <<stored, stage, stale>>

\* A reload hands its updates over: what it overtakes, and whether it is late.
HandOver(r) ==
  /\ reload[r].pc = "compared"
  /\ reload' = [q \in Reloaders |->
       IF q = r THEN Idle
       ELSE [reload[q] EXCEPT
         !.earlier = @ \ {r},
         !.overtaken = @ \cup (IF q \in reload[r].earlier
                              THEN Touched(reload[q].updates) \cap Touched(reload[r].updates) ELSE {})]]
  /\ stale' = (stale \ Touched(reload[r].updates)) \cup
              (Touched(reload[r].updates) \cap reload[r].overtaken)
  /\ UNCHANGED <<stored, current, stage, unknown>>

-----------------------------------------------------------------------------
Updates == [Ids -> Content \cup {NoUpdate}]

\* The types of the variables.
ReloadTypeOK ==
  /\ stored \in [Ids -> Content] /\ current \in [Ids -> Content]
  /\ reload \in [Reloaders -> [pc : {"idle", "loaded", "compared"}, force : BOOLEAN, updates : Updates,
                              earlier : SUBSET Reloaders, overtaken : SUBSET Ids]]
  /\ stage \in {"running", "cancelled", "closed", "stopped"}
  /\ stale \subseteq Ids /\ unknown \subseteq Ids
==============================================================================

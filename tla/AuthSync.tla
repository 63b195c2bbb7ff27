------------------------------ MODULE AuthSync -------------------------------
(***************************************************************************)
(* One document in Nacos holds all credentials, and the credential manager *)
(* holds a copy that requests are served from. The document is changed     *)
(* from outside and by the process itself: the management API (create,     *)
(* patch, delete), token refreshes and the results of requests all read    *)
(* it, change one entry and publish it (internal/nacos/auth_store.go). The *)
(* watcher is told of changes it does not take for its own and reloads     *)
(* (WatcherReload); its updates reach the manager as UpdateFeed says, which *)
(* UpdateDispatch implements. This module composes store, watcher, writers *)
(* and the start of the service, to see when manager and document agree.   *)
(***************************************************************************)
EXTENDS WatcherReload

CONSTANTS
  Writers,       (* Goroutines that change credentials.                      *)
  None,
  Disabled,      (* Content of a credential that is switched off.            *)
  MaxChanges     (* Bound: changes from outside, writes of the process and   *)
                 (* reloads of the configuration, together.                  *)

ASSUME SyncAssumption ==
  /\ MaxChanges \in Nat
  /\ Versions = 1..(1 + MaxChanges) \cup {Disabled} /\ Disabled \notin Nat
  /\ None \notin Writers /\ IsFiniteSet(Writers)

VARIABLES
  due,         (* [Ids -> updates on their way to it, oldest first]          *)
  doc,         (* [Ids -> Content]: the document in Nacos                    *)
  heard,       (* The document as Nacos last told the listener.              *)
  lastEntries, (* s.lastEntries: the document as the store last knew it.     *)
  phase,       (* How far the start of the service is.                       *)
  writer,      (* [Writers -> the write under way]                           *)
  mu,          (* Holder of s.mu or None.                                    *)
  parted,      (* History: credentials on which manager and document part.   *)
  changes      (* Counter for the bound, and for new contents.              *)

storeVars == <<doc, heard, lastEntries, mu>>
syncVars == <<reloadVars, manager, due, storeVars, phase, writer, parted, changes>>

Delivery == INSTANCE UpdateFeed WITH open <- stage = "running"

\* A content that has not been before.
Fresh == 2 + changes
Empty == [i \in Ids |-> Absent]
Resting == [pc |-> "idle", kind |-> "none", id |-> None, content |-> Absent, loaded |-> Empty]

SyncInit ==
  /\ doc \in [Ids -> {Absent, 1}] /\ heard = doc /\ lastEntries = Empty
  /\ stored = Empty /\ current = Empty /\ manager = Empty
  /\ reload = [r \in Reloaders |-> Idle]
  /\ due = [i \in Ids |-> <<>>] /\ stage = "running"
  /\ stale = {} /\ unknown = {} /\ parted = {}
  /\ phase = "new" /\ writer = [w \in Writers |-> Resting] /\ mu = None
  /\ changes = 0

-----------------------------------------------------------------------------
(* What is under way. *)

Counted == changes < MaxChanges /\ changes' = changes + 1
Active(w) == writer[w].pc # "idle"
Working(i) == {w \in Writers : Active(w) /\ writer[w].id = i}
Saving == {w \in Writers : writer[w].pc \in {"publish", "record"}}
\* An update of the credential is on its way, or a reload that will make one.
UnderWay(i) ==
  \/ due[i] # <<>>
  \/ \E r \in Reloaders :
       reload[r].updates[i] # NoUpdate \/ (reload[r].pc = "loaded" /\ Difference(reload[r].force)[i] # NoUpdate)

\* MarkResult saves with the manager's lock held: nobody changes the manager.
ManagerFree == \A w \in Writers : writer[w].kind = "result" => ~Active(w)

-----------------------------------------------------------------------------
(* The start of the service (Service.Run, Watcher.Start). *)

\* Manager.Load.
Load ==
  /\ phase = "new"
  /\ phase' = "loaded" /\ manager' = doc /\ lastEntries' = doc
  /\ unknown' = {i \in Ids : doc[i] # Absent}
  /\ UNCHANGED <<stored, current, reload, stage, stale, due, doc, heard, mu, writer, changes>>

\* Watcher.Start lists the store ...
List ==
  /\ phase = "loaded"
  /\ phase' = "listed" /\ stored' = doc /\ lastEntries' = doc
  /\ UNCHANGED <<current, reload, stage, histories, manager, due, doc, heard, mu, writer, changes>>

\* ... then Watch reads it again, for the digest only, and listens ...
Watch ==
  /\ phase = "listed"
  /\ phase' = "watching" /\ lastEntries' = doc /\ heard' = doc
  /\ UNCHANGED <<reloadVars, manager, due, doc, mu, writer, changes>>

\* ... and Start reloads.
FirstReload ==
  /\ phase = "watching"
  /\ phase' = "running" /\ Begin("start", FALSE)
  /\ UNCHANGED <<stored, current, stage, histories, manager, due, storeVars, writer, changes>>

-----------------------------------------------------------------------------
(* Changes from outside, and what the listener makes of them. *)

Edit(i) ==
  /\ Counted
  /\ \E c \in {Absent, Fresh} \ {doc[i]} : doc' = [doc EXCEPT ![i] = c]
  /\ UNCHANGED <<reloadVars, manager, due, heard, lastEntries, mu, phase, writer>>

\* OnChange: a document equal to the last one known is not passed on. The
\* listener is called for one change at a time.
Notify ==
  /\ phase \in {"watching", "running"} /\ heard # doc /\ reload["store"].pc = "idle"
  /\ heard' = doc
  /\ IF doc = lastEntries
     THEN UNCHANGED <<reloadVars, lastEntries>>
     ELSE lastEntries' = doc /\ StoreChanged(doc)
  /\ UNCHANGED <<manager, due, doc, mu, phase, writer, changes>>

Reconfigure ==
  /\ phase # "new" /\ Counted
  /\ \E force \in BOOLEAN : ConfigChanged(force)
  /\ UNCHANGED <<manager, due, storeVars, phase, writer>>

-----------------------------------------------------------------------------
(* Writers. Save and Delete: read, publish, remember. *)

Start(w, i, kind, pc, c) ==
  /\ phase # "new" /\ ~Active(w) /\ Counted
  /\ writer' = [writer EXCEPT ![w] = [pc |-> pc, kind |-> kind, id |-> i, content |-> c, loaded |-> Empty]]
  /\ UNCHANGED <<reloadVars, manager, due, storeVars, phase>>

\* CreateAuthFile, PatchAuthFile.
StartPut(w, i) ==
  /\ Start(w, i, "put", "read", Fresh)

\* DeleteAuthFile finds the credential in the manager.
StartDelete(w, i) ==
  /\ manager[i] # Absent
  /\ Start(w, i, "delete", "read", Absent)

\* refreshAuth clones the credential and calls the token endpoint.
StartRefresh(w, i) ==
  /\ manager[i] \notin {Absent, Disabled}
  /\ Start(w, i, "refresh", "call", Fresh)

\* MarkResult, with the manager's lock.
StartResult(w, i) ==
  /\ manager[i] # Absent /\ ManagerFree
  /\ Start(w, i, "result", "read", manager[i])

At(w, pc) == writer[w].pc = pc
Goes(w, pc) == writer' = [writer EXCEPT ![w] = IF pc = "idle" THEN Resting ELSE [@ EXCEPT !.pc = pc]]

\* Manager.Update with what the token endpoint answered, or nothing on an error.
StoreRefreshed(w) ==
  /\ At(w, "call") /\ ManagerFree
  /\ manager' = [manager EXCEPT ![writer[w].id] = writer[w].content]
  /\ Goes(w, "read")
  /\ UNCHANGED <<reloadVars, due, storeVars, phase, changes>>

\* Faulty variant: what the store remembers is taken for the document.
ReadDocumentCached(w) ==
  /\ At(w, "read") /\ mu = None
  /\ mu' = w
  /\ writer' = [writer EXCEPT ![w].pc = "publish", ![w].loaded = lastEntries]
  /\ UNCHANGED <<reloadVars, manager, due, doc, heard, lastEntries, phase, changes>>

\* loadEntries, under s.mu.
ReadDocument(w) ==
  /\ At(w, "read") /\ mu = None
  /\ mu' = w
  /\ writer' = [writer EXCEPT ![w].pc = "publish", ![w].loaded = doc]
  /\ UNCHANGED <<reloadVars, manager, due, doc, heard, lastEntries, phase, changes>>

Changed(w) == [writer[w].loaded EXCEPT ![writer[w].id] = writer[w].content]

Publish(w) ==
  /\ At(w, "publish")
  /\ doc' = Changed(w)
  /\ Goes(w, "record")
  /\ UNCHANGED <<reloadVars, manager, due, heard, lastEntries, mu, phase, changes>>

\* A failure to read or to publish ends the call; the answer of a publication
\* that was made may be what is lost.
Fail(w) ==
  /\ At(w, "publish")
  /\ mu' = None /\ Goes(w, "idle") /\ doc' \in {doc, Changed(w)}
  /\ UNCHANGED <<reloadVars, manager, due, heard, lastEntries, phase, changes>>

\* The store takes the document it published for the last one known.
Record(w) ==
  /\ At(w, "record")
  /\ lastEntries' = Changed(w) /\ mu' = None
  /\ writer' = [writer EXCEPT ![w] = IF @.kind \in {"put", "delete"}
                                     THEN [@ EXCEPT !.pc = "apply", !.loaded = Empty] ELSE Resting]
  /\ UNCHANGED <<reloadVars, manager, due, doc, heard, phase, changes>>

\* Faulty variant: the manager is not told of a deletion.
ApplyOwnPutOnly(w) ==
  LET i == writer[w].id
  IN  /\ At(w, "apply") /\ ManagerFree
      /\ manager' = IF writer[w].kind = "put" THEN [manager EXCEPT ![i] = writer[w].content] ELSE manager
      /\ unknown' = IF manager'[i] # Absent /\ current[i] = Absent THEN unknown \cup {i} ELSE unknown
      /\ Goes(w, "idle")
      /\ UNCHANGED <<stored, current, reload, stage, stale, due, storeVars, phase, changes>>

\* upsertManagedAuth, disableAuth.
ApplyOwn(w) ==
  LET i == writer[w].id
  IN  /\ At(w, "apply") /\ ManagerFree
      /\ manager' = [manager EXCEPT ![i] = IF writer[w].kind = "put" THEN writer[w].content
                                          ELSE IF @ = Absent THEN Absent ELSE Disabled]
      /\ unknown' = IF manager'[i] # Absent /\ current[i] = Absent THEN unknown \cup {i} ELSE unknown
      /\ Goes(w, "idle")
      /\ UNCHANGED <<stored, current, reload, stage, stale, due, storeVars, phase, changes>>

-----------------------------------------------------------------------------
Starting == Load \/ List \/ Watch \/ FirstReload

Write(w) ==
  \/ \E i \in Ids : StartPut(w, i) \/ StartDelete(w, i) \/ StartRefresh(w, i) \/ StartResult(w, i)
  \/ StoreRefreshed(w) \/ ReadDocument(w) \/ Publish(w) \/ Fail(w) \/ Record(w) \/ ApplyOwn(w)

\* The updates join those that have not been applied.
HandOverDue(r) ==
  /\ HandOver(r)
  /\ due' \in [Ids -> UNION {Delivery!Joined(due[i], reload[r].updates[i]) : i \in Ids}]
  /\ \A i \in Ids : due'[i] \in Delivery!Joined(due[i], reload[r].updates[i])
  /\ UNCHANGED manager

Watching ==
  /\ \/ \E r \in Reloaders : Compare(r) /\ UNCHANGED <<manager, due>>
     \/ \E r \in Reloaders : HandOverDue(r)
     \/ ManagerFree /\ UNCHANGED reloadVars /\ \E i \in Ids : Delivery!Apply(i)
  /\ UNCHANGED <<storeVars, phase, writer, changes>>

Step == Starting \/ (\E i \in Ids : Edit(i)) \/ Notify \/ Reconfigure \/ (\E w \in Writers : Write(w)) \/ Watching

\* A change between List and Watch: Watch reads it and passes it to nobody.
MissedAtStart(i) == phase = "listed" /\ phase' = "watching" /\ stored[i] # doc[i]

\* What the store remembers after its own write includes a change from outside
\* that the listener has not passed on, and now never will.
Swallowed(i) ==
  \E w \in Writers : /\ At(w, "record") /\ writer'[w].pc # "record"
                    /\ writer[w].id # i /\ Changed(w)[i] # lastEntries[i]

\* The step is a change of this credential from outside.
Edited(i) == doc'[i] # doc[i] /\ writer' = writer

\* A change from outside while a write holds the document it will publish.
Undone(i) == Edited(i) /\ Saving # {}

\* A refreshed token is in the manager, and its publication fails.
Unsaved(i) ==
  \E w \in Writers : /\ At(w, "publish") /\ ~Active(w)' /\ doc' = doc
                    /\ writer[w].kind = "refresh" /\ writer[w].id = i

\* Two writes, a write and an update from the watcher, or a write and a change
\* from outside, at once.
Crossed(i) ==
  /\ Working(i) # {}
  /\ UnderWay(i) \/ Cardinality(Working(i)) > 1 \/ Edited(i)

\* A reload is made from what the watcher last heard, its own process's writes
\* not included.
Reverted(i) ==
  \E r \in Reloaders : /\ reload[r].pc = "loaded" /\ reload'[r].pc = "compared"
                      /\ reload'[r].updates[i] # NoUpdate /\ stored[i] # lastEntries[i]

\* After writes of the process that Nacos has not told the listener of, a change
\* from outside, or a publication whose answer is lost, brings back the document
\* it told last: it tells of nothing, and the store remembers another credential.
Untold(i) ==
  /\ phase \in {"watching", "running"} /\ doc' # doc /\ doc' = heard /\ doc'[i] # lastEntries[i]
  /\ \A w \in Writers : ~At(w, "record")'

Causes == {i \in Ids : \/ MissedAtStart(i) \/ Swallowed(i) \/ Undone(i) \/ Unsaved(i)
                       \/ Crossed(i) \/ Reverted(i) \/ Untold(i)}

SyncNext == Step /\ parted' = parted \cup Causes
SyncSpec == SyncInit /\ [][SyncNext]_syncVars

-----------------------------------------------------------------------------
(* Properties. *)

\* The types of the variables; who saves a document holds s.mu, and only he.
SyncTypeOK ==
  /\ ReloadTypeOK /\ {manager, doc, heard, lastEntries} \subseteq [Ids -> Content]
  /\ \A i \in Ids : due[i] \in Seq(Content)
  /\ phase \in {"new", "loaded", "listed", "watching", "running"}
  /\ writer \in [Writers -> [pc : {"idle", "call", "read", "publish", "record", "apply"},
                            kind : {"none", "put", "delete", "refresh", "result"},
                            id : Ids \cup {None}, content : Content, loaded : [Ids -> Content]]]
  /\ Saving = {mu} \ {None} /\ parted \subseteq Ids

\* What a write publishes differs from the document it replaces in its own
\* credential only: no two writers of the process undo each other's work. (A
\* change from outside, in between, is undone: Undone parts that credential.)
OwnWritesKept ==
  [][\A w \in Writers, i \in Ids \ parted :
       At(w, "publish") /\ At(w, "record")' /\ doc'[i] # doc[i] => i = writer[w].id]_syncVars

Quiet ==
  /\ phase = "running" /\ heard = doc /\ \A i \in Ids : due[i] = <<>>
  /\ \A r \in Reloaders : reload[r].pc = "idle"
  /\ \A w \in Writers : ~Active(w)

\* A deleted credential is kept, switched off, by a manager that deleted it.
Agree(i) == manager[i] = doc[i] \/ (doc[i] = Absent /\ manager[i] = Disabled)

\* Removed, and the watcher never had it in a comparison.
RemovedUnseen(i) == i \in unknown /\ doc[i] = Absent

\* The types hold, and when everything is delivered the manager serves what the
\* document says of a credential, unless one of the named causes parted them, its
\* last two updates were handed over in the wrong order, or its removal could not
\* be seen.
ManagerFollowsStore ==
  /\ SyncTypeOK
  /\ Quiet => \A i \in Ids \ (parted \cup stale) : Agree(i) \/ RemovedUnseen(i)
==============================================================================

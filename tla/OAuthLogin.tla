------------------------------ MODULE OAuthLogin ------------------------------
(***************************************************************************)
(* Logins through the management API (internal/api/handlers/management,    *)
(* auth_files_oauth.go, oauth_sessions.go, oauth_callback.go). A login     *)
(* opens a listener on the one port its provider redirects to, which sends *)
(* the browser on to the backend and stops itself; the backend's callback  *)
(* redeems the code, saves the credential and hands it to the manager. The *)
(* session of the login, which its page polls, forgets itself after a      *)
(* while. Requests to create logins, callbacks, redirects and timers run   *)
(* concurrently; one step is one critical section, or one call that        *)
(* another goroutine can see the effect of.                                *)
(***************************************************************************)
EXTENDS Integers, Sequences, FiniteSets

CONSTANTS
  MaxLogins,      (* Bound: calls of CreateOAuthSession.                      *)
  Account,        (* Account[s]: who logs in with the s-th.                   *)
  MaxCallbacks,   (* Bound: calls of GetOAuthCallback.                        *)
  MaxStops        (* Bound: goroutines at a time that begin to stop one       *)
                  (* listener.                                                *)

ASSUME LoginAssumption == {MaxLogins, MaxCallbacks, MaxStops} \subseteq Nat /\ DOMAIN Account = 1..MaxLogins

\* Logins by the order in which they begin. State parameter, listener and code
\* of a login have its number.
Logins == 1..MaxLogins
None == 0

Accounts == {Account[s] : s \in Logins}

VARIABLES
  create,      (* [Logins -> CreateOAuthSession: pc, and the listener it found] *)
  listener,    (* [Logins -> "none"; "listening"; "closing": somebody is      *)
               (* between the two halves of a stop; "closed"]                 *)
  registered,  (* callbackForwarders[codexCallbackPort]: a login or None.     *)
  stops,       (* [Logins -> goroutines that are about to stop its listener]  *)
  session,     (* [Logins -> oauthSessions: status, or where it has gone]     *)
  callback,    (* Callbacks as they came: the login, pc, what the page says.  *)
  redeemed,    (* Codes the provider has exchanged.                           *)
  saved,       (* [Accounts -> the login whose tokens are stored, or None]    *)
  active,      (* [Accounts -> the login whose tokens the manager has]        *)
  orphans      (* History: listeners that lost their registration to one that *)
               (* was closed before it was registered.                        *)

listeners == <<create, listener, registered, stops, orphans>>
credentials == <<redeemed, saved, active>>
vars == <<listeners, session, callback, credentials>>

Init ==
  /\ create = [s \in Logins |-> [pc |-> "idle", previous |-> None]]
  /\ listener = [s \in Logins |-> "none"] /\ registered = None
  /\ stops = [s \in Logins |-> 0]
  /\ session = [s \in Logins |-> "unknown"]
  /\ callback = <<>>
  /\ redeemed = {} /\ orphans = {}
  /\ saved = [a \in Accounts |-> None] /\ active = [a \in Accounts |-> None]

-----------------------------------------------------------------------------
(* oauthSessionStore. Every operation forgets what is overdue first: that a *)
(* session is overdue and that it is forgotten is one step, Expire.        *)

\* Overdue sessions leave a mark for as long again.
Expire(s) ==
  /\ session' = [session EXCEPT ![s] = IF @ = "expired" THEN "unknown" ELSE "expired"]
  /\ session[s] # "unknown"
  /\ UNCHANGED <<listeners, callback, credentials>>

Known(s) == session[s] \notin {"unknown", "expired"}

\* SetError and Complete, whatever the status was.
Becomes(s, status) == session' = IF Known(s) THEN [session EXCEPT ![s] = status] ELSE session

-----------------------------------------------------------------------------
(* The listener: startCallbackForwarder and stopCallbackForwarderInstance. *)

At(s, pc) == create[s].pc = pc
Goes(s, pc) == create' = [create EXCEPT ![s].pc = pc]

TakePrevious(s) ==
  /\ At(s, "idle") /\ \A r \in 1..(s - 1) : ~At(r, "idle")
  /\ create' = [create EXCEPT ![s] = [pc |-> IF registered = None THEN "binding" ELSE "clearing",
                                      previous |-> registered]]
  /\ registered' = None
  /\ UNCHANGED <<listener, stops, orphans, session, callback, credentials>>

\* Shutdown closes the listener at once, and waits for requests afterwards.
Closed(f) == listener' = [listener EXCEPT ![f] = "closed"]

StopPrevious(s) ==
  /\ At(s, "clearing")
  /\ Closed(create[s].previous) /\ Goes(s, "binding")
  /\ UNCHANGED <<registered, stops, orphans, session, callback, credentials>>

Open(f) == listener[f] \in {"listening", "closing"}
PortTaken == \E f \in Logins : Open(f)

Bind(s) ==
  /\ At(s, "binding")
  /\ IF PortTaken THEN Goes(s, "failed") /\ UNCHANGED listener
     ELSE Goes(s, "registering") /\ listener' = [listener EXCEPT ![s] = "listening"]
  /\ UNCHANGED <<registered, stops, orphans, session, callback, credentials>>

Register(s) ==
  /\ At(s, "registering")
  /\ registered' = s /\ Goes(s, "started")
  /\ orphans' = IF listener[s] = "closed" THEN orphans \cup ({registered} \ {None}) ELSE orphans
  /\ UNCHANGED <<listener, stops, session, callback, credentials>>

\* Faulty variant: the port's registration goes, whoever it belongs to.
UnregisteredAny(f) == registered' = None

\* Only one's own registration is taken back.
Unregistered(f) == registered' = IF registered = f THEN None ELSE registered

\* No PKCE codes, state or URL: the listener is stopped again.
CreateFails(s) ==
  /\ At(s, "started")
  /\ Unregistered(s) /\ Goes(s, "undoing")
  /\ UNCHANGED <<listener, stops, orphans, session, callback, credentials>>

Undo(s) ==
  /\ At(s, "undoing")
  /\ Closed(s) /\ Goes(s, "failed")
  /\ UNCHANGED <<registered, stops, orphans, session, callback, credentials>>

\* RegisterOAuthSessionWithRedirect, and the URL goes to the page.
CreateSession(s) ==
  /\ At(s, "started")
  /\ session' = [session EXCEPT ![s] = "pending"] /\ Goes(s, "answered")
  /\ UNCHANGED <<listener, registered, stops, orphans, callback, credentials>>

Stop(f) == Open(f) /\ stops[f] < MaxStops /\ stops' = [stops EXCEPT ![f] = @ + 1]

\* The goroutine that waits for the session's time to be over, or for the
\* listener's end. (When it fires during a stop, it is like another redirect.)
Timeout(f) ==
  /\ listener[f] = "listening" /\ Stop(f)
  /\ UNCHANGED <<create, listener, registered, orphans, session, callback, credentials>>

\* Faulty variant: a listener that is not registered is taken for stopped.
UnregisterStopOnlyCurrent(f) ==
  /\ stops[f] > 0
  /\ Unregistered(f) /\ stops' = [stops EXCEPT ![f] = @ - 1]
  /\ listener' = [listener EXCEPT ![f] = IF @ = "listening" /\ registered = f THEN "closing" ELSE @]
  /\ UNCHANGED <<create, orphans, session, callback, credentials>>

\* A stop takes the registration back ...
UnregisterStop(f) ==
  /\ stops[f] > 0
  /\ Unregistered(f) /\ stops' = [stops EXCEPT ![f] = @ - 1]
  /\ listener' = [listener EXCEPT ![f] = IF @ = "listening" THEN "closing" ELSE @]
  /\ UNCHANGED <<create, orphans, session, callback, credentials>>

\* ... and shuts the server down.
CloseStop(f) ==
  /\ listener[f] = "closing"
  /\ Closed(f)
  /\ UNCHANGED <<create, registered, stops, orphans, session, callback, credentials>>

-----------------------------------------------------------------------------
(* Browsers. *)

Arrives(s) ==
  /\ Len(callback) < MaxCallbacks
  /\ callback' = Append(callback, [pc |-> "loading", login |-> s, page |-> "none"])

\* Whoever listens redirects every request, of whichever login, to the backend.
Redirect(f) ==
  /\ Stop(f)
  /\ \/ \E s \in Logins : At(s, "answered") /\ Arrives(s)
     \/ UNCHANGED callback      \* no callback: another path
  /\ UNCHANGED <<create, listener, registered, orphans, session, credentials>>

\* The browser asks the backend again.
Reload(k) ==
  /\ Arrives(callback[k].login)
  /\ UNCHANGED <<listeners, session, credentials>>

-----------------------------------------------------------------------------
(* completeOAuthSession. A call that fails and the SetError after it are   *)
(* one step. A callback without code and error changes nothing.            *)

Login(k) == callback[k].login
Proceeds(k, pc) == callback' = [callback EXCEPT ![k].pc = pc]
Ends(k, page) == callback' = [callback EXCEPT ![k] = [@ EXCEPT !.pc = "over", !.page = page]]

\* A session that is not pending is not completed. One denied by the provider
\* is told so.
Load(k) ==
  /\ callback[k].pc = "loading"
  /\ IF session[Login(k)] = "pending"
       THEN \/ Proceeds(k, "exchanging")
            \/ Proceeds(k, "denied")
       ELSE Ends(k, "refused")
  /\ UNCHANGED <<listeners, session, credentials>>

Deny(k) ==
  /\ callback[k].pc = "denied"
  /\ Becomes(Login(k), "error") /\ Ends(k, "failed")
  /\ UNCHANGED <<listeners, credentials>>

\* A code can be redeemed once; the answer may be lost.
Exchange(k) ==
  /\ callback[k].pc = "exchanging" /\ Login(k) \notin redeemed
  /\ redeemed' = redeemed \cup {Login(k)} /\ Proceeds(k, "saving")
  /\ UNCHANGED <<listeners, session, saved, active>>

ExchangeFails(k) ==
  /\ callback[k].pc = "exchanging"
  /\ redeemed' \in {redeemed, redeemed \cup {Login(k)}}
  /\ Becomes(Login(k), "error") /\ Ends(k, "failed")
  /\ UNCHANGED <<listeners, saved, active>>

\* buildCodexOAuthRecord: the account names the credential, so a second login
\* of the account replaces the first one's tokens.
Record(s) == [id |-> Account[s], tokens |-> s]
Stored(s) == [saved EXCEPT ![Record(s).id] = Record(s).tokens]

Save(k) ==
  /\ callback[k].pc = "saving"
  /\ saved' = Stored(Login(k)) /\ Proceeds(k, "applying")
  /\ UNCHANGED <<listeners, session, redeemed, active>>

SaveFails(k) ==
  /\ callback[k].pc = "saving"
  /\ saved' \in {saved, Stored(Login(k))}
  /\ Becomes(Login(k), "error") /\ Ends(k, "failed")
  /\ UNCHANGED <<listeners, redeemed, active>>

\* upsertManagedAuth.
Apply(k) ==
  /\ callback[k].pc = "applying"
  /\ active' = [active EXCEPT ![Record(Login(k)).id] = Record(Login(k)).tokens]
  /\ Proceeds(k, "completing")
  /\ UNCHANGED <<listeners, session, redeemed, saved>>

\* Faulty variant: the failure is written down nowhere.
ApplyFailsUntold(k) ==
  /\ callback[k].pc = "applying"
  /\ Proceeds(k, "completing")
  /\ UNCHANGED <<listeners, session, credentials>>

ApplyFails(k) ==
  /\ callback[k].pc = "applying"
  /\ Becomes(Login(k), "error") /\ Ends(k, "failed")
  /\ UNCHANGED <<listeners, credentials>>

\* A session that is gone by now makes a page that says so.
Complete(k) ==
  /\ callback[k].pc = "completing"
  /\ Becomes(Login(k), "complete")
  /\ Ends(k, IF Known(Login(k)) THEN "success" ELSE "unfinished")
  /\ UNCHANGED <<listeners, credentials>>

-----------------------------------------------------------------------------
Creating(s) == \/ TakePrevious(s) \/ StopPrevious(s) \/ Bind(s) \/ Register(s)
               \/ CreateFails(s) \/ Undo(s) \/ CreateSession(s)
Handling(k) == \/ Load(k) \/ Deny(k) \/ Exchange(k) \/ ExchangeFails(k) \/ Save(k) \/ SaveFails(k)
               \/ Apply(k) \/ ApplyFails(k) \/ Complete(k)

Next ==
  \/ \E s \in Logins : Creating(s) \/ Timeout(s) \/ UnregisterStop(s) \/ CloseStop(s) \/ Redirect(s) \/ Expire(s)
  \/ \E k \in DOMAIN callback : Handling(k) \/ Reload(k)

\* Goroutines run and the timer fires. Nothing is assumed of browsers.
Spec == Init /\ [][Next]_vars
        /\ \A f \in Logins : WF_vars(Timeout(f)) /\ WF_vars(UnregisterStop(f)) /\ WF_vars(CloseStop(f))

-----------------------------------------------------------------------------
(* Properties. *)

TypeOK ==
  /\ \A s \in Logins : /\ listener[s] \in {"none", "listening", "closing", "closed"} /\ stops[s] \in 0..MaxStops
                       /\ session[s] \in {"unknown", "expired", "pending", "complete", "error"}
  /\ registered \in Logins \cup {None} /\ orphans \subseteq Logins
  /\ {saved[a] : a \in Accounts} \cup {active[a] : a \in Accounts} \subseteq Logins \cup {None}

\* GetOAuthSessionStatus.
Shown(s) == IF session[s] = "expired" THEN "gone" ELSE session[s]

Tried(s, page) == \E k \in DOMAIN callback : Login(k) = s /\ callback[k].page = page

\* The types hold, and what a login is told is what became of it: shown as
\* complete, its account has a credential in the store and in the manager; shown
\* as failed though a page said it had not, another callback of it failed
\* (completeOAuthSession stops at the first failure and completes last).
VerdictTrue ==
  /\ TypeOK
  /\ \A s \in Logins : Shown(s) = "complete" \/ Tried(s, "success") \/ Tried(s, "unfinished") =>
       saved[Account[s]] # None /\ active[Account[s]] # None
  /\ \A s \in Logins : Shown(s) = "error" => Tried(s, "failed")

\* Whoever occupies the port can be found by the next login, which stops it: it
\* is registered, about to be, or being stopped. (Unless its registration was
\* overwritten by a listener that was closed before it was registered.)
ListenerAccounted ==
  \A f \in Logins : listener[f] = "listening" =>
    \/ registered = f \/ f \in orphans
    \/ create[f].pc \in {"registering", "undoing"}
    \/ stops[f] > 0
    \/ \E s \in Logins : At(s, "clearing") /\ create[s].previous = f

\* The port is given back: no order of redirects, timers, failures and further
\* logins leaves a listener behind.
PortFreed == \A f \in Logins : Open(f) ~> (listener[f] = "closed")

\* What the repository says, and the code does not do.

\* "oauth flow is not pending" (oauth_callback.go): a login that was completed
\* is not decided again.
CompleteStands ==
  [][\A s \in Logins : session[s] = "complete" => session'[s] # "error"]_vars

\* "Failed to activate authentication tokens" (oauth_callback.go) is an error:
\* the manager has the tokens that are stored, once no callback is under way.
TokensAgree ==
  (\A k \in DOMAIN callback : callback[k].page \in {"refused", "success"})
    => saved = active

=============================================================================

--------------------------- MODULE OAuthLoginProofs ---------------------------
(***************************************************************************)
(* Proofs about OAuthLogin, for any number of logins, accounts and         *)
(* callbacks: a login is told what became of it, and the listener on the   *)
(* shared port can always be found by the next login.                      *)
(***************************************************************************)
EXTENDS OAuthLogin, SequenceTheorems, TLAPS

Places == {"idle", "clearing", "binding", "registering", "started", "undoing", "answered", "failed"}
Listening == {"none", "listening", "closing", "closed"}
Statuses == {"unknown", "expired", "pending", "complete", "error"}
Stages == {"loading", "denied", "exchanging", "saving", "applying", "completing", "over"}
Pages == {"none", "refused", "failed", "success", "unfinished"}
LoginOrNone == Logins \cup {None}
Callbacks == [pc : Stages, login : Logins, page : Pages]

-----------------------------------------------------------------------------
(* The listener on the port. *)

PortTypes ==
  /\ create \in [Logins -> [pc : Places, previous : LoginOrNone]]
  /\ listener \in [Logins -> Listening]
  /\ registered \in LoginOrNone
  /\ stops \in [Logins -> 0..MaxStops]
  /\ orphans \subseteq Logins

\* At most one login has the port, and who is about to register has had it.
OnePort ==
  /\ \A f, g \in Logins : Open(f) /\ Open(g) => f = g
  /\ \A s \in Logins : At(s, "registering") => listener[s] # "none"

PortInv == PortTypes /\ OnePort /\ ListenerAccounted

\* Initially nobody listens.
LEMMA PortInit == Init => PortInv
  BY LoginAssumption DEF LoginAssumption, Init, PortInv, PortTypes, OnePort, ListenerAccounted, Places, Listening,
     LoginOrNone, Open, At, None

\* The steps that leave the listeners alone.
LEMMA PortStutters == PortInv /\ UNCHANGED listeners => PortInv'
  BY DEF PortInv, PortTypes, OnePort, ListenerAccounted, listeners, Open, At

\* What a login's creation does to the port.
LEMMA CreatingKeepsPort ==
  ASSUME PortInv, NEW s \in Logins, Creating(s)
  PROVE  PortInv'
<1> USE DEF PortInv, PortTypes, OnePort, Open, At, Goes, Closed, Unregistered, LoginOrNone
<1>1. CASE TakePrevious(s)
  <2>1. PortTypes' /\ OnePort'
    BY <1>1 DEF TakePrevious, Places
  <2>2. ListenerAccounted'
    BY <1>1 DEF TakePrevious, Places, ListenerAccounted, None
  <2> QED BY <2>1, <2>2
<1>2. CASE StopPrevious(s)
  <2>1. PortTypes' /\ OnePort'
    BY <1>2 DEF StopPrevious, Places, Listening
  <2>2. ListenerAccounted'
    BY <1>2 DEF StopPrevious, Places, Listening, ListenerAccounted
  <2> QED BY <2>1, <2>2
<1>3. CASE Bind(s)
  <2>1. PortTypes' /\ OnePort'
    BY <1>3 DEF Bind, PortTaken, Places, Listening
  <2>2. ListenerAccounted'
    BY <1>3 DEF Bind, PortTaken, Places, Listening, ListenerAccounted
  <2> QED BY <2>1, <2>2
<1>4. CASE Register(s)
  <2>1. PortTypes' /\ OnePort'
    BY <1>4 DEF Register, Places
  <2>2. ASSUME NEW f \in Logins, listener[f] = "listening", f # s, registered = f
        PROVE  f \in orphans'
    <3>1. listener[s] = "closed"
      BY <1>4, <2>2 DEF Register, Listening
    <3> QED BY <1>4, <2>2, <3>1 DEF Register, None, Logins
  <2>3. ListenerAccounted'
    BY <1>4, <2>2 DEF Register, Places, ListenerAccounted
  <2> QED BY <2>1, <2>3
<1>5. CASE CreateFails(s)
  <2>1. PortTypes' /\ OnePort'
    BY <1>5 DEF CreateFails, Places
  <2>2. ListenerAccounted'
    BY <1>5 DEF CreateFails, Places, ListenerAccounted
  <2> QED BY <2>1, <2>2
<1>6. CASE Undo(s)
  <2>1. PortTypes' /\ OnePort'
    BY <1>6 DEF Undo, Places, Listening
  <2>2. ListenerAccounted'
    BY <1>6 DEF Undo, Places, Listening, ListenerAccounted
  <2> QED BY <2>1, <2>2
<1>7. CASE CreateSession(s)
  <2>1. PortTypes' /\ OnePort'
    BY <1>7 DEF CreateSession, Places
  <2>2. ListenerAccounted'
    BY <1>7 DEF CreateSession, Places, ListenerAccounted
  <2> QED BY <2>1, <2>2
<1> QED BY <1>1, <1>2, <1>3, <1>4, <1>5, <1>6, <1>7 DEF Creating

\* What begins a stop keeps it, and the stop itself.
LEMMA StoppingKeepsPort ==
  ASSUME PortInv, NEW f \in Logins, Timeout(f) \/ Redirect(f) \/ UnregisterStop(f) \/ CloseStop(f)
  PROVE  PortInv'
<1> USE DEF PortInv, PortTypes, OnePort, Open, At, Closed, Unregistered, LoginOrNone
<1>1. CASE Timeout(f) \/ Redirect(f)
  <2>1. Stop(f) /\ UNCHANGED <<create, listener, registered, orphans>>
    BY <1>1 DEF Timeout, Redirect
  <2>2. PortTypes' /\ OnePort'
    BY <2>1, LoginAssumption DEF Stop, LoginAssumption
  <2>3. ListenerAccounted'
    BY <2>1 DEF Stop, ListenerAccounted
  <2> QED BY <2>2, <2>3
<1>2. CASE UnregisterStop(f)
  <2>1. PortTypes' /\ OnePort'
    BY <1>2, LoginAssumption DEF UnregisterStop, Listening, LoginAssumption
  <2>2. ListenerAccounted'
    BY <1>2 DEF UnregisterStop, Listening, ListenerAccounted
  <2> QED BY <2>1, <2>2
<1>3. CASE CloseStop(f)
  <2>1. PortTypes' /\ OnePort'
    BY <1>3 DEF CloseStop, Listening
  <2>2. ListenerAccounted'
    BY <1>3 DEF CloseStop, Listening, ListenerAccounted
  <2> QED BY <2>1, <2>2
<1> QED BY <1>1, <1>2, <1>3

\* Requests of browsers and the forgetting of sessions do not touch the port.
LEMMA PortStep == PortInv /\ [Next]_vars => PortInv'
<1> SUFFICES ASSUME PortInv, [Next]_vars PROVE PortInv'
  OBVIOUS
<1>1. CASE \E s \in Logins : Creating(s)
  BY <1>1, CreatingKeepsPort
<1>2. CASE \E f \in Logins : Timeout(f) \/ Redirect(f) \/ UnregisterStop(f) \/ CloseStop(f)
  BY <1>2, StoppingKeepsPort
<1>3. CASE \E s \in Logins : Expire(s)
  BY <1>3, PortStutters DEF Expire
<1>4. CASE \E k \in DOMAIN callback : Handling(k) \/ Reload(k)
  <2>1. UNCHANGED listeners
    BY <1>4 DEF Handling, Reload, Load, Deny, Exchange, ExchangeFails, Save, SaveFails, Apply, ApplyFails, Complete
  <2> QED BY <2>1, PortStutters
<1>5. CASE UNCHANGED vars
  BY <1>5, PortStutters DEF vars
<1> QED BY <1>1, <1>2, <1>3, <1>4, <1>5 DEF Next

\* Whoever occupies the port can be found by the next login, which stops it
\* (startCallbackForwarder, stopCallbackForwarderInstance), in every
\* interleaving of any number of logins, redirects and timers.
THEOREM ListenerAlwaysAccounted == Spec => []ListenerAccounted
<1>1. PortInv => ListenerAccounted
  BY DEF PortInv
<1> QED BY <1>1, PortInit, PortStep, PTL DEF Spec

-----------------------------------------------------------------------------
(* What a login is told. *)

\* A store (or the manager) has a credential of the account of a login.
Kept(s, store) == store[Account[s]] # None

VerdictTypes ==
  /\ session \in [Logins -> Statuses]
  /\ callback \in Seq(Callbacks)
  /\ saved \in [Accounts -> LoginOrNone]
  /\ active \in [Accounts -> LoginOrNone]

\* A callback has a page when it is over, has stored the tokens when it applies
\* them, and has done both when it completes the session or told success.
Earned(c, sv, ac) ==
  /\ c.pc # "over" => c.page = "none"
  /\ c.pc \in {"applying", "completing"} \/ c.page \in {"success", "unfinished"} => Kept(c.login, sv)
  /\ c.pc = "completing" \/ c.page \in {"success", "unfinished"} => Kept(c.login, ac)

Told ==
  /\ \A k \in DOMAIN callback : Earned(callback[k], saved, active)
  /\ \A s \in Logins : session[s] = "complete" => Kept(s, saved) /\ Kept(s, active)
  /\ \A s \in Logins : session[s] = "error" => Tried(s, "failed")

VerdictInv == VerdictTypes /\ Told

\* Initially there are no callbacks and no sessions.
LEMMA VerdictInit == Init => VerdictInv
<1> SUFFICES ASSUME Init PROVE VerdictInv
  OBVIOUS
<1>1. callback = <<>> /\ callback \in Seq(Callbacks) /\ DOMAIN callback = {}
  BY EmptySeq DEF Init
<1> QED BY <1>1 DEF Init, VerdictInv, VerdictTypes, Told, Statuses, LoginOrNone

\* The account of a login.
LEMMA AccountOf == \A s \in Logins : Account[s] \in Accounts
  BY DEF Accounts

\* What a callback is, in every state.
LEMMA CallbackTypes ==
  ASSUME VerdictInv, NEW k \in DOMAIN callback
  PROVE  /\ callback[k] \in Callbacks /\ callback[k].pc \in Stages
         /\ callback[k].page \in Pages /\ Login(k) \in Logins
         /\ Earned(callback[k], saved, active)
<1>1. callback[k] \in Callbacks
  BY DEF VerdictInv, VerdictTypes
<1> QED BY <1>1 DEF VerdictInv, Told, Callbacks, Login

\* Nobody is told anything and no credential changes.
LEMMA VerdictStutters == VerdictInv /\ UNCHANGED <<session, callback, saved, active>> => VerdictInv'
  BY DEF VerdictInv, VerdictTypes, Told, Tried, Login

\* A session that is created or forgotten says nothing of the login.
LEMMA SessionKeepsVerdict ==
  ASSUME VerdictInv, NEW s \in Logins, NEW status \in Statuses \ {"complete", "error"},
         session' = [session EXCEPT ![s] = status], UNCHANGED <<callback, saved, active>>
  PROVE  VerdictInv'
  BY DEF VerdictInv, VerdictTypes, Told, Tried, Login

\* A new callback.
LEMMA ArrivesKeepsVerdict ==
  ASSUME VerdictInv, NEW s \in Logins, Arrives(s), UNCHANGED <<session, saved, active>>
  PROVE  VerdictInv'
<1> DEFINE c == [pc |-> "loading", login |-> s, page |-> "none"]
<1>1. c \in Callbacks
  BY DEF Callbacks, Stages, Pages
<1>2. callback \in Seq(Callbacks) /\ callback' = Append(callback, c)
  BY DEF VerdictInv, VerdictTypes, Arrives
<1>3. Earned(c, saved', active')
  BY DEF Earned
<1> HIDE DEF c
<1>4. callback' \in Seq(Callbacks) /\ DOMAIN callback' = (DOMAIN callback) \cup {Len(callback) + 1}
  BY <1>1, <1>2, AppendProperties
<1>5. \A k \in DOMAIN callback : k \in DOMAIN callback' /\ callback'[k] = callback[k]
  BY <1>1, <1>2, <1>4, AppendProperties
<1>6. callback'[Len(callback) + 1] = c
  BY <1>1, <1>2, AppendProperties
<1>7. \A k \in DOMAIN callback' : Earned(callback'[k], saved', active')
  BY <1>3, <1>4, <1>5, <1>6 DEF VerdictInv, Told
<1>8. \A t \in Logins : Tried(t, "failed") => Tried(t, "failed")'
  BY <1>5 DEF Tried, Login
<1>9. VerdictTypes' /\ (\A t \in Logins : session'[t] = "complete" => Kept(t, saved') /\ Kept(t, active'))
  BY <1>4 DEF VerdictInv, VerdictTypes, Told
<1>10. \A t \in Logins : session'[t] = "error" => Tried(t, "failed")'
  BY <1>8 DEF VerdictInv, Told
<1> QED BY <1>7, <1>9, <1>10 DEF VerdictInv, Told

\* A callback that goes on or ends: no credential is lost, what the callback
\* has earned it says, and no session becomes complete or failed without.
LEMMA HandledKeepsVerdict ==
  ASSUME VerdictInv, NEW k \in DOMAIN callback, callback[k].pc # "over",
         NEW c \in Callbacks, c.login = Login(k), callback' = [callback EXCEPT ![k] = c],
         VerdictTypes', Earned(c, saved', active'),
         \A s \in Logins : (Kept(s, saved) => Kept(s, saved')) /\ (Kept(s, active) => Kept(s, active')),
         \A s \in Logins : session'[s] = "complete" =>
            session[s] = "complete" \/ (Kept(s, saved') /\ Kept(s, active')),
         \A s \in Logins : session'[s] = "error" =>
            session[s] = "error" \/ (s = Login(k) /\ c.page = "failed")
  PROVE  VerdictInv'
<1>1. DOMAIN callback' = DOMAIN callback /\ callback'[k] = c
      /\ \A j \in DOMAIN callback : j # k => callback'[j] = callback[j]
  BY DEF VerdictInv, VerdictTypes
<1>2. \A j \in DOMAIN callback' : Earned(callback'[j], saved', active')
  <2> SUFFICES ASSUME NEW j \in DOMAIN callback, j # k PROVE Earned(callback[j], saved', active')
    BY <1>1
  <2>1. Earned(callback[j], saved, active) /\ callback[j].login \in Logins
    BY CallbackTypes DEF Login
  <2> QED BY <2>1 DEF Earned
<1>3. \A s \in Logins : Tried(s, "failed") => Tried(s, "failed")'
  <2> SUFFICES ASSUME NEW s \in Logins, NEW j \in DOMAIN callback,
                      callback[j].login = s, callback[j].page = "failed"
               PROVE  Tried(s, "failed")'
    BY DEF Tried, Login
  <2>1. j # k
    BY CallbackTypes DEF Earned
  <2> QED BY <1>1, <2>1 DEF Tried, Login
<1>4. \A s \in Logins : s = Login(k) /\ c.page = "failed" => Tried(s, "failed")'
  BY <1>1 DEF Tried, Login
<1>5. \A s \in Logins : session'[s] = "error" => Tried(s, "failed")'
  <2>1. \A s \in Logins : session[s] = "error" => Tried(s, "failed")
    BY DEF VerdictInv, Told
  <2> QED BY <1>3, <1>4, <2>1
<1>6. \A s \in Logins : session'[s] = "complete" => Kept(s, saved') /\ Kept(s, active')
  BY DEF VerdictInv, Told
<1> QED BY <1>2, <1>5, <1>6 DEF VerdictInv, Told

\* The record a callback becomes when it goes on or ends.
LEMMA NextCallback ==
  ASSUME VerdictInv, NEW k \in DOMAIN callback
  PROVE  /\ \A pc \in Stages : Proceeds(k, pc) =>
              \E c \in Callbacks : /\ c.pc = pc /\ c.login = Login(k) /\ c.page = callback[k].page
                                   /\ callback' = [callback EXCEPT ![k] = c]
         /\ \A page \in Pages : Ends(k, page) =>
              \E c \in Callbacks : /\ c.pc = "over" /\ c.login = Login(k) /\ c.page = page
                                   /\ callback' = [callback EXCEPT ![k] = c]
<1> DEFINE On(pc) == [callback[k] EXCEPT !.pc = pc]
           Over(page) == [callback[k] EXCEPT !.pc = "over", !.page = page]
<1>0. callback[k] \in Callbacks
  BY CallbackTypes
<1>1. \A pc \in Stages : /\ On(pc) \in Callbacks /\ On(pc).login = Login(k)
                         /\ On(pc).pc = pc /\ On(pc).page = callback[k].page
  BY <1>0 DEF Callbacks, Login
<1>2. \A page \in Pages : /\ Over(page) \in Callbacks /\ Over(page).login = Login(k)
                          /\ Over(page).pc = "over" /\ Over(page).page = page
  BY <1>0 DEF Callbacks, Login, Stages
<1>3. \A pc \in Stages : Proceeds(k, pc) => callback' = [callback EXCEPT ![k] = On(pc)]
  BY DEF Proceeds
<1>4. \A page \in Pages : Ends(k, page) => callback' = [callback EXCEPT ![k] = Over(page)]
  BY DEF Ends
<1> HIDE DEF On, Over
<1> QED BY <1>1, <1>2, <1>3, <1>4

\* A callback that fails, before or after the tokens were stored.
LEMMA FailureKeepsVerdict ==
  ASSUME VerdictInv, NEW k \in DOMAIN callback, callback[k].pc # "over",
         Becomes(Login(k), "error"), Ends(k, "failed"),
         saved' \in {saved, Stored(Login(k))}, active' = active
  PROVE  VerdictInv'
<1>1. PICK c \in Callbacks : /\ c.pc = "over" /\ c.login = Login(k) /\ c.page = "failed"
                             /\ callback' = [callback EXCEPT ![k] = c]
  BY NextCallback DEF Pages
<1>2. Login(k) \in Logins /\ Account[Login(k)] \in Accounts
  BY CallbackTypes, AccountOf
<1>3. session' \in [Logins -> Statuses] /\ \A s \in Logins : session'[s] # session[s] => s = Login(k) /\ session'[s] = "error"
  BY <1>2 DEF Becomes, Statuses, VerdictInv, VerdictTypes
<1>4. saved' \in [Accounts -> LoginOrNone] /\ \A s \in Logins : Kept(s, saved) => Kept(s, saved')
  BY <1>2, AccountOf DEF VerdictInv, VerdictTypes, Stored, Record, Kept, LoginOrNone, Logins, None
<1>5. callback' \in Seq(Callbacks)
  BY <1>1 DEF VerdictInv, VerdictTypes
<1>6. VerdictTypes'
  BY <1>3, <1>4, <1>5 DEF VerdictInv, VerdictTypes
<1>7. Earned(c, saved', active')
  BY <1>1 DEF Earned
<1> QED BY <1>1, <1>3, <1>4, <1>6, <1>7, HandledKeepsVerdict

\* A callback that goes on, with what it has earned.
LEMMA ProgressKeepsVerdict ==
  ASSUME VerdictInv, NEW k \in DOMAIN callback, callback[k].pc # "over",
         NEW pc \in Stages \ {"over"}, Proceeds(k, pc), session' = session,
         saved' \in {saved, Stored(Login(k))},
         active' \in {active, [active EXCEPT ![Record(Login(k)).id] = Record(Login(k)).tokens]},
         pc \in {"applying", "completing"} => Kept(Login(k), saved'),
         pc = "completing" => Kept(Login(k), active')
  PROVE  VerdictInv'
<1>1. PICK c \in Callbacks : /\ c.pc = pc /\ c.login = Login(k) /\ c.page = callback[k].page
                             /\ callback' = [callback EXCEPT ![k] = c]
  BY NextCallback
<1>2. Login(k) \in Logins /\ Account[Login(k)] \in Accounts /\ callback[k].page = "none"
  BY CallbackTypes, AccountOf DEF Earned
<1>3. saved' \in [Accounts -> LoginOrNone] /\ \A s \in Logins : Kept(s, saved) => Kept(s, saved')
  BY <1>2, AccountOf DEF VerdictInv, VerdictTypes, Stored, Record, Kept, LoginOrNone, Logins, None
<1>4. active' \in [Accounts -> LoginOrNone] /\ \A s \in Logins : Kept(s, active) => Kept(s, active')
  BY <1>2, AccountOf DEF VerdictInv, VerdictTypes, Record, Kept, LoginOrNone, Logins, None
<1>5. callback' \in Seq(Callbacks)
  BY <1>1 DEF VerdictInv, VerdictTypes
<1>6. VerdictTypes'
  BY <1>3, <1>4, <1>5 DEF VerdictInv, VerdictTypes
<1>7. Earned(c, saved', active')
  BY <1>1, <1>2 DEF Earned
<1> QED BY <1>1, <1>3, <1>4, <1>6, <1>7, HandledKeepsVerdict

\* What the callback does.
LEMMA HandlingKeepsVerdict ==
  ASSUME VerdictInv, NEW k \in DOMAIN callback, Handling(k)
  PROVE  VerdictInv'
<1>1. Login(k) \in Logins /\ Account[Login(k)] \in Accounts /\ Earned(callback[k], saved, active)
  BY CallbackTypes, AccountOf
<1>2. CASE Load(k)
  <2>1. CASE \E pc \in {"exchanging", "denied"} : Proceeds(k, pc)
    BY <1>2, <2>1, ProgressKeepsVerdict DEF Load, Stages, credentials
  <2>2. CASE Ends(k, "refused")
    <3>1. PICK c \in Callbacks : /\ c.pc = "over" /\ c.login = Login(k) /\ c.page = "refused"
                                 /\ callback' = [callback EXCEPT ![k] = c]
      BY <2>2, NextCallback DEF Pages
    <3>2. Earned(c, saved', active')
      BY <3>1 DEF Earned
    <3>3. VerdictTypes' /\ UNCHANGED <<session, saved, active>> /\ callback[k].pc # "over"
      BY <1>2, <3>1 DEF Load, credentials, VerdictInv, VerdictTypes
    <3> QED BY <3>1, <3>2, <3>3, HandledKeepsVerdict
  <2> QED BY <1>2, <2>1, <2>2 DEF Load
<1>3. CASE Deny(k)
  BY <1>3, FailureKeepsVerdict DEF Deny, credentials
<1>4. CASE Exchange(k)
  BY <1>4, ProgressKeepsVerdict DEF Exchange, Stages
<1>5. CASE ExchangeFails(k)
  BY <1>5, FailureKeepsVerdict DEF ExchangeFails
<1>6. CASE Save(k)
  <2>1. Kept(Login(k), saved')
    BY <1>1, <1>6 DEF Save, Stored, Record, Kept, VerdictInv, VerdictTypes, Logins, None
  <2> QED BY <1>6, <2>1, ProgressKeepsVerdict DEF Save, Stages
<1>7. CASE SaveFails(k)
  BY <1>7, FailureKeepsVerdict DEF SaveFails
<1>8. CASE Apply(k)
  <2>1. Kept(Login(k), active')
    BY <1>1, <1>8 DEF Apply, Record, Kept, VerdictInv, VerdictTypes, Logins, None
  <2>2. Kept(Login(k), saved')
    BY <1>1, <1>8 DEF Apply, Earned, Login
  <2> QED BY <1>8, <2>1, <2>2, ProgressKeepsVerdict DEF Apply, Stages
<1>9. CASE ApplyFails(k)
  BY <1>9, FailureKeepsVerdict DEF ApplyFails, credentials
<1>10. CASE Complete(k)
  <2>1. Kept(Login(k), saved) /\ Kept(Login(k), active)
    BY <1>1, <1>10 DEF Complete, Earned, Login
  <2>2. PICK page \in {"success", "unfinished"} : Ends(k, page)
    BY <1>10 DEF Complete
  <2>3. PICK c \in Callbacks : /\ c.pc = "over" /\ c.login = Login(k) /\ c.page = page
                               /\ callback' = [callback EXCEPT ![k] = c]
    BY <2>2, NextCallback DEF Pages
  <2>4. /\ session' \in [Logins -> Statuses]
        /\ \A s \in Logins : session'[s] # session[s] => s = Login(k) /\ session'[s] = "complete"
    BY <1>1, <1>10 DEF Complete, Becomes, Statuses, VerdictInv, VerdictTypes
  <2>5. UNCHANGED <<saved, active>> /\ callback[k].pc # "over"
    BY <1>10 DEF Complete, credentials
  <2>6. Earned(c, saved', active')
    BY <2>1, <2>3, <2>5 DEF Earned
  <2>7. callback' \in Seq(Callbacks)
    BY <2>3 DEF VerdictInv, VerdictTypes
  <2>8. VerdictTypes'
    BY <2>4, <2>5, <2>7 DEF VerdictInv, VerdictTypes
  <2> QED BY <2>1, <2>3, <2>4, <2>5, <2>6, <2>8, HandledKeepsVerdict
<1> QED BY <1>2, <1>3, <1>4, <1>5, <1>6, <1>7, <1>8, <1>9, <1>10 DEF Handling

\* The listener says nothing about a login, and its redirects only send callbacks.
LEMMA VerdictStep == VerdictInv /\ [Next]_vars => VerdictInv'
<1> SUFFICES ASSUME VerdictInv, [Next]_vars PROVE VerdictInv'
  OBVIOUS
<1>1. ASSUME NEW s \in Logins, Creating(s) PROVE VerdictInv'
  <2>1. CASE CreateSession(s)
    BY <2>1, SessionKeepsVerdict DEF CreateSession, Statuses, credentials
  <2>2. CASE ~CreateSession(s)
    <3>1. UNCHANGED <<session, callback, saved, active>>
      BY <1>1, <2>2 DEF Creating, TakePrevious, StopPrevious, Bind, Register, CreateFails, Undo, credentials
    <3> QED BY <3>1, VerdictStutters
  <2> QED BY <2>1, <2>2
<1>2. ASSUME NEW f \in Logins, Timeout(f) \/ UnregisterStop(f) \/ CloseStop(f) PROVE VerdictInv'
  BY <1>2, VerdictStutters DEF Timeout, UnregisterStop, CloseStop, credentials
<1>3. ASSUME NEW f \in Logins, Redirect(f) PROVE VerdictInv'
  <2>1. UNCHANGED <<session, saved, active>>
    BY <1>3 DEF Redirect, credentials
  <2>2. (\E s \in Logins : Arrives(s)) \/ UNCHANGED callback
    BY <1>3 DEF Redirect
  <2> QED BY <2>1, <2>2, ArrivesKeepsVerdict, VerdictStutters
<1>4. ASSUME NEW s \in Logins, Expire(s) PROVE VerdictInv'
  BY <1>4, SessionKeepsVerdict DEF Expire, Statuses, credentials
<1>5. ASSUME NEW k \in DOMAIN callback, Handling(k) PROVE VerdictInv'
  BY <1>5, HandlingKeepsVerdict
<1>6. ASSUME NEW k \in DOMAIN callback, Reload(k) PROVE VerdictInv'
  <2>1. callback[k].login \in Logins
    BY CallbackTypes DEF Login
  <2> QED BY <1>6, <2>1, ArrivesKeepsVerdict DEF Reload, credentials
<1>7. CASE UNCHANGED vars
  BY <1>7, VerdictStutters DEF vars, credentials
<1> QED BY <1>1, <1>2, <1>3, <1>4, <1>5, <1>6, <1>7 DEF Next

\* A login is told what became of it (completeOAuthSession, GetOAuthSessionStatus):
\* shown complete, or told success, its account has a credential in the store
\* and in the manager; shown as failed, a callback of it has failed. With the
\* types of the variables.
THEOREM VerdictAlwaysTrue == Spec => []VerdictTrue
<1>1. PortInv /\ VerdictInv => VerdictTrue
  <2> SUFFICES ASSUME PortInv, VerdictInv PROVE VerdictTrue
    OBVIOUS
  <2>1. TypeOK
    BY DEF PortInv, PortTypes, VerdictInv, VerdictTypes, TypeOK, Listening, Statuses, LoginOrNone
  <2>2. \A s \in Logins, page \in {"success", "unfinished"} : Tried(s, page) => Kept(s, saved) /\ Kept(s, active)
    BY CallbackTypes DEF Tried, Login, Earned
  <2>3. \A s \in Logins : (Shown(s) = "complete" => session[s] = "complete") /\ (Shown(s) = "error" => session[s] = "error")
    BY DEF Shown
  <2> QED BY <2>1, <2>2, <2>3 DEF VerdictTrue, VerdictInv, Told, Kept
<1> QED BY <1>1, PortInit, PortStep, VerdictInit, VerdictStep, PTL DEF Spec

=============================================================================

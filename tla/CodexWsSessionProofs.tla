------------------------- MODULE CodexWsSessionProofs -------------------------
(***************************************************************************)
(* Proofs about CodexWsSession, for any number of requests, connections,   *)
(* session objects and credentials, and any sizes of its channels.         *)
(*                                                                         *)
(* The invariant: Types and Located say that the identities requests and   *)
(* readers carry are real ones where they use them; Holders that a request *)
(* between Lock and Unlock is the holder of its session's lock, which is   *)
(* what makes ActiveHoldsLock inductive, as setActive runs under the lock; *)
(* ConnectionsKept needs no more than Located.                             *)
(***************************************************************************)
EXTENDS CodexWsSession, TLAPS

Events == {Event(r, t) : r \in Requests, t \in {"delta", "completed", "failed"}}
            \cup {Event(None, "broken")}

\* Between reqMu.Lock and reqMu.Unlock.
Inside == {"ensuring", "dialling", "installing", "activating", "sending", "reading", "ending"}

Object == [used : BOOLEAN, holder : Requests \cup {None}, conn : Conns \cup {None},
           auth : Auths \cup {None}, active : Requests \cup {None}]
Link == [stage : {"unused", "dialled", "up", "down", "closed"},
         obj : Objs \cup {None}, asked : Seq(Requests), deltas : Nat]
Reader == [pc : {"none", "reading", "delivering", "failing", "invalidating", "done"},
           ch : Requests \cup {None}, event : Events \cup {Event(None, "none")}]
Message == [conn : Conns, event : Events]
Channel == [queue : Seq(Message), closed : BOOLEAN]
Pcs == Inside \cup {"idle", "locking", "done"}
Outcomes == {"none", "refused", "unconnected", "unsent", "channel closed", "cancelled", "completed", "failed", "broken"}
Request == [pc : Pcs, kind : Kinds \cup {"none"},
            auth : Auths \cup {None}, obj : Objs \cup {None}, conn : Conns \cup {None},
            retrying : BOOLEAN, cancelled : BOOLEAN, got : SUBSET Requests, outcome : Outcomes]

Types ==
  /\ current \in Objs \cup {None} /\ closed \in BOOLEAN /\ panicked \in BOOLEAN
  /\ object \in [Objs -> Object]
  /\ link \in [Conns -> Link]
  /\ reader \in [Conns -> Reader]
  /\ chan \in [Requests -> Channel]
  /\ call \in [Requests -> Request]

RequestsLocated ==
  \A r \in Requests :
    /\ call[r].pc # "idle" => call[r].obj \in Objs
    /\ call[r].pc \in {"installing", "activating", "sending", "reading"} => call[r].conn \in Conns

ReadersLocated ==
  \A c \in Conns :
    /\ reader[c].pc \in {"delivering", "failing"} => reader[c].ch \in Requests
    /\ reader[c].pc = "delivering" => reader[c].event \in Events
    /\ reader[c].pc # "none" => link[c].obj \in Objs
    /\ link[c].stage \in {"up", "down"} => link[c].obj \in Objs

QueuesBounded == \A r \in Requests : Len(chan[r].queue) <= Buffer

Located == RequestsLocated /\ ReadersLocated /\ QueuesBounded

Holders ==
  \A r \in Requests : call[r].pc \in Inside => object[call[r].obj].holder = r

Typed == Types /\ Located
IInv == Typed /\ Holders /\ ActiveHoldsLock /\ ConnectionsKept

-----------------------------------------------------------------------------
(* What the helpers do to a well-typed state. *)

LEMMA ObjectUpdates ==
  ASSUME NEW x \in Object, NEW r \in Requests \cup {None}, NEW c \in Conns \cup {None}
  PROVE  /\ [x EXCEPT !.used = TRUE] \in Object
         /\ [x EXCEPT !.holder = r] \in Object
         /\ [x EXCEPT !.active = r] \in Object
         /\ [x EXCEPT !.conn = c] \in Object
         /\ \A a \in Auths \cup {None} : [x EXCEPT !.conn = c, !.auth = a] \in Object
  BY DEF Object

LEMMA LinkUpdates ==
  ASSUME NEW x \in Link, NEW t \in {"unused", "dialled", "up", "down", "closed"}
  PROVE  /\ [x EXCEPT !.stage = t] \in Link
         /\ \A o \in Objs : [x EXCEPT !.stage = t, !.obj = o] \in Link
         /\ \A q \in Seq(Requests) : [x EXCEPT !.asked = q] \in Link
         /\ \A d \in Nat, q \in Seq(Requests) : [x EXCEPT !.deltas = d, !.asked = q] \in Link
  BY DEF Link

LEMMA RequestUpdates ==
  ASSUME NEW x \in Request, NEW p \in Pcs
  PROVE  /\ [x EXCEPT !.pc = p] \in Request
         /\ [x EXCEPT !.cancelled = TRUE] \in Request
         /\ [x EXCEPT !.pc = p, !.retrying = TRUE] \in Request
         /\ \A c \in Conns \cup {None} : [x EXCEPT !.pc = p, !.conn = c] \in Request
         /\ \A out \in Outcomes : [x EXCEPT !.pc = p, !.outcome = out] \in Request
         /\ \A g \in SUBSET Requests, out \in Outcomes :
              [x EXCEPT !.pc = p, !.got = g, !.outcome = out] \in Request
         /\ \A k \in Kinds, a \in Auths, o \in Objs :
              [x EXCEPT !.pc = p, !.kind = k, !.auth = a, !.obj = o] \in Request
  BY DEF Request

LEMMA ReleasedTyped ==
  ASSUME NEW obj \in [Objs -> Object], NEW o \in Objs
  PROVE  /\ Released(obj, o) \in [Objs -> Object]
         /\ \A p \in Objs : /\ Released(obj, o)[p].holder = IF p = o THEN None ELSE obj[p].holder
                            /\ Released(obj, o)[p].active = obj[p].active
                            /\ Released(obj, o)[p].conn = obj[p].conn
<1>1. [obj[o] EXCEPT !.holder = None] \in Object
  BY ObjectUpdates
<1>2. Released(obj, o) \in [Objs -> Object]
  BY <1>1 DEF Released
<1>3. ASSUME NEW p \in Objs
      PROVE  /\ Released(obj, o)[p].holder = IF p = o THEN None ELSE obj[p].holder
             /\ Released(obj, o)[p].active = obj[p].active
             /\ Released(obj, o)[p].conn = obj[p].conn
  BY DEF Released, Object
<1> QED BY <1>2, <1>3

LEMMA ClearedTyped ==
  ASSUME NEW obj \in [Objs -> Object], NEW o \in Objs, NEW r \in Requests
  PROVE  /\ Cleared(obj, o, r) \in [Objs -> Object]
         /\ \A p \in Objs : /\ Cleared(obj, o, r)[p].active
                                 = IF p = o /\ obj[p].active = r THEN None ELSE obj[p].active
                            /\ Cleared(obj, o, r)[p].holder = obj[p].holder
                            /\ Cleared(obj, o, r)[p].conn = obj[p].conn
<1> DEFINE x == [obj[o] EXCEPT !.active = IF @ = r THEN None ELSE @]
<1>1. x \in Object
  BY DEF Object
<1>2. Cleared(obj, o, r) \in [Objs -> Object]
  BY <1>1 DEF Cleared
<1>3. ASSUME NEW p \in Objs
      PROVE  /\ Cleared(obj, o, r)[p].active
                  = IF p = o /\ obj[p].active = r THEN None ELSE obj[p].active
             /\ Cleared(obj, o, r)[p].holder = obj[p].holder
             /\ Cleared(obj, o, r)[p].conn = obj[p].conn
  BY DEF Cleared, Object
<1> QED BY <1>2, <1>3

LEMMA InvalidatedTyped ==
  ASSUME Types, NEW o \in Objs, NEW c \in Conns
  PROVE  /\ Invalidated(o, c) \in [Objs -> Object]
         /\ \A p \in Objs : /\ Invalidated(o, c)[p].holder = object[p].holder
                            /\ Invalidated(o, c)[p].active = object[p].active
                            /\ Invalidated(o, c)[p].conn
                                 = IF p = o /\ object[p].conn = c THEN None ELSE object[p].conn
<1>1. object \in [Objs -> Object]
  BY DEF Types
<1>2. [object[o] EXCEPT !.conn = IF @ = c THEN None ELSE @] \in Object
  BY <1>1 DEF Object
<1>3. Invalidated(o, c) \in [Objs -> Object]
  BY <1>1, <1>2 DEF Invalidated
<1>4. ASSUME NEW p \in Objs
      PROVE  /\ Invalidated(o, c)[p].holder = object[p].holder
             /\ Invalidated(o, c)[p].active = object[p].active
             /\ Invalidated(o, c)[p].conn
                  = IF p = o /\ object[p].conn = c THEN None ELSE object[p].conn
  BY <1>1 DEF Invalidated, Object
<1> QED BY <1>3, <1>4

LEMMA ClosedLinkTyped ==
  ASSUME Types, NEW o \in Objs, NEW c \in Conns
  PROVE  /\ ClosedLink(o, c) \in [Conns -> Link]
         /\ \A d \in Conns :
              /\ ClosedLink(o, c)[d].obj = link[d].obj
              /\ ClosedLink(o, c)[d].stage
                   = IF d = c /\ object[o].conn = c THEN "closed" ELSE link[d].stage
<1>1. link \in [Conns -> Link]
  BY DEF Types
<1>2. [link[c] EXCEPT !.stage = "closed"] \in Link
  BY <1>1 DEF Link
<1>3. ClosedLink(o, c) \in [Conns -> Link]
  BY <1>1, <1>2 DEF ClosedLink
<1>4. ASSUME NEW d \in Conns
      PROVE  /\ ClosedLink(o, c)[d].obj = link[d].obj
             /\ ClosedLink(o, c)[d].stage
                  = IF d = c /\ object[o].conn = c THEN "closed" ELSE link[d].stage
  BY <1>1 DEF ClosedLink, Link
<1> QED BY <1>3, <1>4

LEMMA OfferedTyped ==
  ASSUME Types, Located, SessionAssumption, NEW r \in Requests, NEW c \in Conns, NEW e \in Events
  PROVE  /\ Offered(r, c, e) \in [Requests -> Channel]
         /\ \A q \in Requests : Len(Offered(r, c, e)[q].queue) <= Buffer
<1> DEFINE m == [conn |-> c, event |-> e]
<1>1. m \in Message
  BY DEF Message
<1>2. chan \in [Requests -> Channel] /\ chan[r].queue \in Seq(Message)
  BY DEF Types, Channel
<1>3. CASE chan[r].closed \/ Len(chan[r].queue) = Buffer
  BY <1>2, <1>3 DEF Offered, Located, RequestsLocated, ReadersLocated, QueuesBounded
<1>4. CASE ~(chan[r].closed \/ Len(chan[r].queue) = Buffer)
  <2>1. Append(chan[r].queue, m) \in Seq(Message)
    BY <1>1, <1>2
  <2>2. Len(Append(chan[r].queue, m)) <= Buffer
    BY <1>1, <1>2, <1>4 DEF Located, RequestsLocated, ReadersLocated, QueuesBounded, SessionAssumption
  <2>3. Offered(r, c, e) = [chan EXCEPT ![r].queue = Append(@, m)]
    BY <1>4 DEF Offered
  <2>4. [chan[r] EXCEPT !.queue = Append(@, m)] \in Channel
    BY <1>2, <2>1 DEF Channel
  <2>5. Offered(r, c, e) \in [Requests -> Channel]
    BY <1>2, <2>3, <2>4
  <2>6. ASSUME NEW q \in Requests
        PROVE  Len(Offered(r, c, e)[q].queue) <= Buffer
    BY <1>2, <2>2, <2>3 DEF Located, RequestsLocated, ReadersLocated, QueuesBounded, Channel
  <2> QED BY <2>5, <2>6
<1> QED BY <1>3, <1>4

LEMMA TypesStep ==
  ASSUME SessionAssumption, Typed, Next
  PROVE  Types'
<1>0. Types /\ Located
  BY DEF Typed
<1>1. ASSUME NEW r \in Requests, NEW k \in Kinds, NEW a \in Auths, Call(r, k, a)
      PROVE  Types'
  <2>1. PICK o \in Objs : /\ current' = o
                        /\ object' = [object EXCEPT ![o].used = TRUE]
                        /\ call' = [call EXCEPT ![r].pc = "locking", ![r].kind = k, ![r].auth = a, ![r].obj = o]
    BY <1>1 DEF Call
  <2>2. call[r] \in Request /\ object[o] \in Object
    BY <1>0 DEF Types
  <2>3. [object[o] EXCEPT !.used = TRUE] \in Object
    BY <2>2, ObjectUpdates
  <2> DEFINE x == [call[r] EXCEPT !.pc = "locking", !.kind = k, !.auth = a, !.obj = o]
  <2>4. x \in Request
    BY <2>2, RequestUpdates DEF Pcs
  <2>5. call' = [call EXCEPT ![r] = x]
    BY <2>1
  <2> HIDE DEF x
  <2>6. call' \in [Requests -> Request]
    BY <1>0, <2>4, <2>5 DEF Types
  <2>7. object' \in [Objs -> Object]
    BY <1>0, <2>1, <2>3 DEF Types
  <2> QED BY <1>0, <1>1, <2>1, <2>6, <2>7 DEF Call, Types
<1>2. ASSUME NEW r \in Requests, Lock(r)
      PROVE  Types'
  BY <1>0, <1>2, RequestUpdates, ObjectUpdates DEF Lock, Obj, Types, Located, RequestsLocated, ReadersLocated, QueuesBounded, Pcs, Inside
<1>3. ASSUME NEW r \in Requests, Ensure(r)
      PROVE  Types'
  <2> DEFINE c == object[Obj(r)].conn
             p == IF c = None THEN "dialling" ELSE Ensured(r)
             x == [call[r] EXCEPT !.pc = p, !.conn = c]
  <2>1. call[r] \in Request /\ Obj(r) \in Objs
    BY <1>0, <1>3 DEF Types, Located, RequestsLocated, ReadersLocated, QueuesBounded, Ensure, Obj
  <2>2. c \in Conns \cup {None}
    BY <1>0, <2>1 DEF Types, Object
  <2>3. p \in Pcs
    BY DEF Ensured, Pcs, Inside
  <2>4. call' = [call EXCEPT ![r] = x]
    BY <1>3 DEF Ensure
  <2> HIDE DEF p, c
  <2>5. x \in Request
    BY <2>1, <2>2, <2>3, RequestUpdates
  <2>6. call' \in [Requests -> Request]
    <3> HIDE DEF x
    <3> QED BY <1>0, <2>4, <2>5 DEF Types
  <2>7. UNCHANGED <<current, closed, object, link, reader, chan, panicked>>
    BY <1>3 DEF Ensure
  <2> QED BY <1>0, <2>6, <2>7 DEF Types
<1>4. ASSUME NEW r \in Requests, NEW c \in Conns, Dial(r, c)
      PROVE  Types'
  BY <1>0, <1>4, RequestUpdates, LinkUpdates DEF Dial, Types, Located, RequestsLocated, ReadersLocated, QueuesBounded, Pcs, Inside
<1>5. ASSUME NEW r \in Requests, NEW how \in Refusals \cup {"plain"}, DialFails(r, how)
      PROVE  Types'
  <2> DEFINE end == IF how = "plain" THEN "unconnected" ELSE "refused"
             x == [call[r] EXCEPT !.pc = "done", !.outcome = end]
  <2>0. end \in Outcomes
    BY DEF Outcomes
  <2>1. call[r] \in Request /\ Obj(r) \in Objs
    BY <1>0, <1>5 DEF Types, Located, RequestsLocated, ReadersLocated, QueuesBounded, DialFails, Obj
  <2>2. x \in Request
    <3> HIDE DEF end
    <3> QED BY <2>0, <2>1, RequestUpdates DEF Pcs
  <2>3. call' = [call EXCEPT ![r] = x]
    BY <1>5 DEF DialFails
  <2>4. object' \in [Objs -> Object]
    BY <1>0, <1>5, <2>1, ClearedTyped, ReleasedTyped DEF DialFails, Types
  <2>5. call' \in [Requests -> Request]
    <3> HIDE DEF x
    <3> QED BY <1>0, <2>2, <2>3 DEF Types
  <2>6. UNCHANGED <<current, closed, link, reader, chan, panicked>>
    BY <1>5 DEF DialFails
  <2> QED BY <1>0, <2>4, <2>5, <2>6 DEF Types
<1>6. ASSUME NEW r \in Requests, Install(r)
      PROVE  Types'
  <2> DEFINE o == Obj(r)
             c == Conn(r)
             d == IF object[o].conn = None THEN c ELSE object[o].conn
             x == [call[r] EXCEPT !.pc = Ensured(r), !.conn = d]
             y == [object[o] EXCEPT !.conn = c, !.auth = call[r].auth]
  <2>1. call[r] \in Request /\ o \in Objs /\ c \in Conns
    BY <1>0, <1>6 DEF Types, Located, RequestsLocated, ReadersLocated, QueuesBounded, Install, Obj, Conn
  <2>2. call[r].auth \in Auths \cup {None}
    BY <2>1 DEF Request
  <2>3. object[o] \in Object /\ link[c] \in Link /\ reader[c] \in Reader
    BY <1>0, <2>1 DEF Types
  <2>4. d \in Conns \cup {None}
    BY <2>1, <2>3 DEF Object
  <2>5. call' = [call EXCEPT ![r] = x]
    BY <1>6 DEF Install
  <2>6. x \in Request
    <3> HIDE DEF d
    <3> QED BY <2>1, <2>4, RequestUpdates DEF Ensured, Pcs, Inside
  <2>7. y \in Object
    BY <2>1, <2>2, <2>3, ObjectUpdates
  <2>8. [reader[c] EXCEPT !.pc = "reading"] \in Reader
    BY <2>3 DEF Reader
  <2>9. /\ [link[c] EXCEPT !.stage = "up", !.obj = o] \in Link
        /\ [link[c] EXCEPT !.stage = "closed"] \in Link
    BY <2>1, <2>3, LinkUpdates
  <2>10. call' \in [Requests -> Request]
    <3> HIDE DEF x
    <3> QED BY <1>0, <2>5, <2>6 DEF Types
  <2>11. UNCHANGED <<current, closed, chan, panicked>>
    BY <1>6 DEF Install
  <2>12. CASE object[o].conn = None
    <3>1. /\ object' = [object EXCEPT ![o] = y]
          /\ link' = [link EXCEPT ![c] = [link[c] EXCEPT !.stage = "up", !.obj = o]]
          /\ reader' = [reader EXCEPT ![c] = [reader[c] EXCEPT !.pc = "reading"]]
      BY <1>6, <2>12 DEF Install
    <3>2. object' \in [Objs -> Object] /\ link' \in [Conns -> Link] /\ reader' \in [Conns -> Reader]
      <4> HIDE DEF y
      <4> QED BY <1>0, <2>1, <2>7, <2>8, <2>9, <3>1 DEF Types
    <3> QED BY <1>0, <2>10, <2>11, <3>2 DEF Types
  <2>13. CASE object[o].conn # None
    <3>1. /\ object' = object /\ reader' = reader
          /\ link' = [link EXCEPT ![c] = [link[c] EXCEPT !.stage = "closed"]]
      BY <1>6, <2>13 DEF Install
    <3>2. link' \in [Conns -> Link]
      BY <1>0, <2>1, <2>9, <3>1 DEF Types
    <3> QED BY <1>0, <2>10, <2>11, <3>1, <3>2 DEF Types
  <2> QED BY <2>12, <2>13
<1>7. ASSUME NEW r \in Requests, Activate(r)
      PROVE  Types'
  BY <1>0, <1>7, RequestUpdates, ObjectUpdates DEF Activate, Obj, Types, Located, RequestsLocated, ReadersLocated, QueuesBounded, Pcs, Inside
<1>8. ASSUME NEW r \in Requests, Sent(r)
      PROVE  Types'
  <2> DEFINE c == Conn(r)
             q == IF link[c].stage = "up" THEN Append(link[c].asked, r) ELSE link[c].asked
  <2>1. call[r] \in Request /\ c \in Conns /\ link[c] \in Link
    BY <1>0, <1>8 DEF Types, Located, RequestsLocated, ReadersLocated, QueuesBounded, Sent, Conn
  <2>2. q \in Seq(Requests)
    BY <2>1 DEF Link
  <2>3. link' = [link EXCEPT ![c] = [link[c] EXCEPT !.asked = q]]
    BY <1>8 DEF Sent
  <2>4. [link[c] EXCEPT !.asked = q] \in Link
    <3> HIDE DEF q
    <3> QED BY <2>1, <2>2, LinkUpdates
  <2>5. link' \in [Conns -> Link]
    <3> HIDE DEF q
    <3> QED BY <1>0, <2>1, <2>3, <2>4 DEF Types
  <2>6. [call[r] EXCEPT !.pc = "reading"] \in Request
    BY <2>1, RequestUpdates DEF Pcs, Inside, Outcomes
  <2> QED BY <1>0, <1>8, <2>5, <2>6 DEF Sent, Types
<1>9. ASSUME NEW r \in Requests, SendFails(r)
      PROVE  Types'
  <2> DEFINE o == Obj(r)
             c == Conn(r)
             x == IF call[r].retrying THEN [call[r] EXCEPT !.pc = "done", !.outcome = "unsent"]
                  ELSE [call[r] EXCEPT !.pc = "ensuring", !.retrying = TRUE]
  <2>1. call[r] \in Request /\ o \in Objs /\ c \in Conns
    BY <1>0, <1>9 DEF Types, Located, RequestsLocated, ReadersLocated, QueuesBounded, SendFails, Obj, Conn
  <2>2. x \in Request
    BY <2>1, RequestUpdates DEF Pcs, Inside, Outcomes
  <2>3. call' = [call EXCEPT ![r] = x]
    BY <1>9 DEF SendFails
  <2>4. object' \in [Objs -> Object]
    <3>1. Invalidated(o, c) \in [Objs -> Object]
      BY <1>0, <2>1, InvalidatedTyped
    <3>2. Cleared(Invalidated(o, c), o, r) \in [Objs -> Object]
      BY <2>1, <3>1, ClearedTyped
    <3>3. Released(Cleared(Invalidated(o, c), o, r), o) \in [Objs -> Object]
      BY <2>1, <3>2, ReleasedTyped
    <3> QED BY <1>9, <3>1, <3>3 DEF SendFails
  <2>5. link' \in [Conns -> Link]
    BY <1>0, <1>9, <2>1, ClosedLinkTyped DEF SendFails
  <2> HIDE DEF x
  <2> QED BY <1>0, <1>9, <2>2, <2>3, <2>4, <2>5 DEF SendFails, Types
<1>10. ASSUME NEW r \in Requests, Skip(r)
      PROVE  Types'
  <2>1. chan[r] \in Channel /\ chan[r].queue \in Seq(Message) /\ chan[r].queue # <<>>
    BY <1>0, <1>10 DEF Types, Channel, Skip
  <2>2. Tail(chan[r].queue) \in Seq(Message)
    BY <2>1
  <2>3. [chan[r] EXCEPT !.queue = Tail(@)] \in Channel
    BY <2>1, <2>2 DEF Channel
  <2> QED BY <1>0, <1>10, <2>3 DEF Skip, Types
<1>11. ASSUME NEW r \in Requests, Read(r)
      PROVE  Types'
  <2> DEFINE o == Obj(r)
             c == Conn(r)
             m == Head(chan[r].queue)
             p == IF m.event.type = "delta" THEN "reading" ELSE "ending"
             g == IF m.event.type = "broken" THEN call[r].got ELSE call[r].got \cup {m.event.of}
             out == IF m.event.type = "delta" THEN call[r].outcome ELSE m.event.type
             x == [call[r] EXCEPT !.pc = p, !.got = g, !.outcome = out]
  <2>1. /\ call[r] \in Request /\ o \in Objs /\ c \in Conns
        /\ chan[r] \in Channel /\ chan[r].queue \in Seq(Message) /\ chan[r].queue # <<>>
    BY <1>0, <1>11 DEF Types, Located, RequestsLocated, ReadersLocated, QueuesBounded, Read, Obj, Conn, Channel
  <2>2. m \in Message /\ Tail(chan[r].queue) \in Seq(Message)
    BY <2>1
  <2>3. [chan[r] EXCEPT !.queue = Tail(@)] \in Channel
    BY <2>1, <2>2 DEF Channel
  <2>4. m.event \in Events
    BY <2>2 DEF Message
  <2>5. /\ m.event.type # "delta" => m.event.type \in Outcomes
        /\ m.event.type # "broken" => m.event.of \in Requests
    <3> HIDE DEF m
    <3>1. CASE m.event = Event(None, "broken")
      BY <3>1 DEF Event, Outcomes
    <3>2. ASSUME NEW q \in Requests, NEW t \in {"delta", "completed", "failed"}, m.event = Event(q, t)
          PROVE  /\ m.event.type # "delta" => m.event.type \in Outcomes
                 /\ m.event.type # "broken" => m.event.of \in Requests
      <4>1. m.event.type = t /\ m.event.of = q
        BY <3>2 DEF Event
      <4> QED BY <3>2, <4>1 DEF Outcomes
    <3> QED BY <2>4, <3>1, <3>2 DEF Events
  <2>6. call[r].got \in SUBSET Requests /\ call[r].outcome \in Outcomes
    BY <2>1 DEF Request
  <2>7. p \in Pcs /\ g \in SUBSET Requests /\ out \in Outcomes
    BY <2>5, <2>6 DEF Pcs, Inside
  <2>8. x \in Request
    <3> HIDE DEF p, g, out
    <3> QED BY <2>1, <2>7, RequestUpdates
  <2>9. call' = [call EXCEPT ![r] = x]
    BY <1>11 DEF Read
  <2>10. object' \in [Objs -> Object] /\ link' \in [Conns -> Link]
    BY <1>0, <1>11, <2>1, InvalidatedTyped, ClosedLinkTyped DEF Read, Types
  <2>11. chan' \in [Requests -> Channel]
    BY <1>0, <1>11, <2>3 DEF Read, Types
  <2>12. call' \in [Requests -> Request]
    <3> HIDE DEF x
    <3> QED BY <1>0, <2>8, <2>9 DEF Types
  <2>13. UNCHANGED <<current, closed, reader, panicked>>
    BY <1>11 DEF Read
  <2> QED BY <1>0, <2>10, <2>11, <2>12, <2>13 DEF Types
<1>12. ASSUME NEW r \in Requests, ReadClosed(r)
      PROVE  Types'
  <2> DEFINE x == [call[r] EXCEPT !.pc = "ending", !.outcome = "channel closed"]
  <2>1. call[r] \in Request
    BY <1>0 DEF Types
  <2>2. x \in Request
    BY <2>1, RequestUpdates DEF Pcs, Inside, Outcomes
  <2>3. call' = [call EXCEPT ![r] = x]
    BY <1>12 DEF ReadClosed, End
  <2> HIDE DEF x
  <2> QED BY <1>0, <1>12, <2>2, <2>3 DEF ReadClosed, Types
<1>13. ASSUME NEW r \in Requests, ReadCancelled(r)
      PROVE  Types'
  <2> DEFINE x == [call[r] EXCEPT !.pc = "ending", !.outcome = "cancelled"]
  <2>1. call[r] \in Request
    BY <1>0 DEF Types
  <2>2. x \in Request
    BY <2>1, RequestUpdates DEF Pcs, Inside, Outcomes
  <2>3. call' = [call EXCEPT ![r] = x]
    BY <1>13 DEF ReadCancelled, End
  <2> HIDE DEF x
  <2> QED BY <1>0, <1>13, <2>2, <2>3 DEF ReadCancelled, Types
<1>14. ASSUME NEW r \in Requests, Finish(r)
      PROVE  Types'
  BY <1>0, <1>14, RequestUpdates, ReleasedTyped, ClearedTyped DEF Finish, Obj, Types, Located, RequestsLocated, ReadersLocated, QueuesBounded, Pcs, Inside
<1>15. ASSUME NEW r \in Requests, Cancel(r)
      PROVE  Types'
  BY <1>0, <1>15, RequestUpdates DEF Cancel, Types, Located, RequestsLocated, ReadersLocated, QueuesBounded, Pcs, Inside
<1>16. ASSUME NEW c \in Conns, Receive(c)
      PROVE  Types'
  <2>1. PICK a \in Answers(c) :
          /\ link' = [link EXCEPT ![c].deltas = a.deltas,
                                  ![c].asked = IF a.event.type = "delta" THEN @ ELSE Tail(@)]
          /\ LET ch == object[link[c].obj].active
             IN  IF ch = None THEN UNCHANGED reader
                 ELSE reader' = [reader EXCEPT ![c] = [pc |-> "delivering", ch |-> ch, event |-> a.event]]
    BY <1>16 DEF Receive
  <2> DEFINE q == IF a.event.type = "delta" THEN link[c].asked ELSE Tail(link[c].asked)
             ch == object[link[c].obj].active
  <2>2. link[c] \in Link /\ link[c].obj \in Objs /\ link[c].asked # <<>>
    BY <1>0, <1>16 DEF Types, Located, RequestsLocated, ReadersLocated, QueuesBounded, Receive
  <2>3. link[c].asked \in Seq(Requests) /\ link[c].deltas \in Nat
    BY <2>2 DEF Link
  <2>4. Head(link[c].asked) \in Requests /\ Tail(link[c].asked) \in Seq(Requests)
    BY <2>2, <2>3
  <2>5. a.deltas \in Nat /\ a.event \in Events
    BY <2>3, <2>4, SessionAssumption DEF Answers, Events, SessionAssumption
  <2>6. q \in Seq(Requests)
    BY <2>3, <2>4
  <2>7. link' = [link EXCEPT ![c] = [link[c] EXCEPT !.deltas = a.deltas, !.asked = q]]
    BY <2>1
  <2>8. [link[c] EXCEPT !.deltas = a.deltas, !.asked = q] \in Link
    <3> HIDE DEF q
    <3> QED BY <2>2, <2>5, <2>6, LinkUpdates
  <2>9. link' \in [Conns -> Link]
    <3> HIDE DEF q
    <3> QED BY <1>0, <2>7, <2>8 DEF Types
  <2>10. ch \in Requests \cup {None}
    BY <1>0, <2>2 DEF Types, Object
  <2>11. [pc |-> "delivering", ch |-> ch, event |-> a.event] \in Reader
    <3> HIDE DEF ch
    <3> QED BY <2>5, <2>10 DEF Reader
  <2>12. reader' \in [Conns -> Reader]
    BY <1>0, <2>1, <2>11 DEF Types
  <2> QED BY <1>0, <1>16, <2>9, <2>12 DEF Receive, Types
<1>17. ASSUME NEW c \in Conns, Deliver(c)
      PROVE  Types'
  <2> DEFINE ch == reader[c].ch
             e == reader[c].event
  <2>1. reader[c] \in Reader /\ ch \in Requests /\ e \in Events
    BY <1>0, <1>17 DEF Types, Located, RequestsLocated, ReadersLocated, QueuesBounded, Deliver
  <2>2. chan' \in [Requests -> Channel]
    <3>1. chan' = Offered(ch, c, e)
      BY <1>17 DEF Deliver
    <3> HIDE DEF ch, e
    <3> QED BY <1>0, <2>1, <3>1, OfferedTyped, SessionAssumption
  <2>3. chan[ch].closed \in BOOLEAN
    BY <1>0, <2>1 DEF Types, Channel
  <2>4. [reader[c] EXCEPT !.pc = "reading", !.ch = None] \in Reader
    BY <2>1 DEF Reader
  <2>5. reader' = [reader EXCEPT ![c] = [reader[c] EXCEPT !.pc = "reading", !.ch = None]]
    BY <1>17 DEF Deliver
  <2>6. reader' \in [Conns -> Reader]
    BY <1>0, <2>4, <2>5 DEF Types
  <2> QED BY <1>0, <1>17, <2>2, <2>3, <2>6 DEF Deliver, Types
<1>18. ASSUME NEW c \in Conns, GiveUp(c)
      PROVE  Types'
  BY <1>0, <1>18 DEF GiveUp, Reader, Types, Located, RequestsLocated, ReadersLocated, QueuesBounded, Pcs, Inside
<1>19. ASSUME NEW c \in Conns, ReadFails(c)
      PROVE  Types'
  <2> DEFINE ch == object[link[c].obj].active
             p == IF ch = None THEN "invalidating" ELSE "failing"
             x == [reader[c] EXCEPT !.pc = p, !.ch = ch]
  <2>1. reader[c] \in Reader /\ link[c].obj \in Objs
    BY <1>0, <1>19 DEF Types, Located, RequestsLocated, ReadersLocated, QueuesBounded, ReadFails
  <2>2. ch \in Requests \cup {None}
    BY <1>0, <2>1 DEF Types, Object
  <2>3. p \in {"invalidating", "failing"}
    OBVIOUS
  <2>4. reader' = [reader EXCEPT ![c] = x]
    BY <1>19 DEF ReadFails
  <2>5. x \in Reader
    <3> HIDE DEF ch, p
    <3> QED BY <2>1, <2>2, <2>3 DEF Reader
  <2>6. reader' \in [Conns -> Reader]
    <3> HIDE DEF x
    <3> QED BY <1>0, <2>4, <2>5 DEF Types
  <2>7. UNCHANGED <<current, closed, object, link, chan, call, panicked>>
    BY <1>19 DEF ReadFails
  <2> QED BY <1>0, <2>6, <2>7 DEF Types
<1>20. ASSUME NEW c \in Conns, FailActive(c)
      PROVE  Types'
  <2> DEFINE ch == reader[c].ch
             e == Event(None, "broken")
             o == link[c].obj
             sent == Offered(ch, c, e)
  <2>1. reader[c] \in Reader /\ ch \in Requests /\ e \in Events /\ o \in Objs
    BY <1>0, <1>20 DEF Types, Located, RequestsLocated, ReadersLocated, QueuesBounded, FailActive, Events
  <2>2. sent \in [Requests -> Channel]
    <3> HIDE DEF ch, e
    <3> QED BY <1>0, <2>1, OfferedTyped, SessionAssumption
  <2>3. [sent[ch] EXCEPT !.closed = TRUE] \in Channel
    <3> HIDE DEF sent
    <3> QED BY <2>1, <2>2 DEF Channel
  <2>4. chan' = [sent EXCEPT ![ch] = [sent[ch] EXCEPT !.closed = TRUE]]
    BY <1>20 DEF FailActive
  <2>5. chan' \in [Requests -> Channel]
    <3> HIDE DEF sent
    <3> QED BY <2>1, <2>2, <2>3, <2>4
  <2>6. object' \in [Objs -> Object]
    BY <1>0, <1>20, <2>1, ClearedTyped DEF FailActive, Types
  <2>7. panicked' \in BOOLEAN
    BY <1>0, <1>20, <2>1 DEF FailActive, Types, Channel
  <2>8. [reader[c] EXCEPT !.pc = "invalidating", !.ch = None] \in Reader
    BY <2>1 DEF Reader
  <2>9. reader' \in [Conns -> Reader]
    BY <1>0, <1>20, <2>8 DEF FailActive, Types
  <2>10. UNCHANGED <<current, closed, link, call>>
    BY <1>20 DEF FailActive
  <2> QED BY <1>0, <2>5, <2>6, <2>7, <2>9, <2>10 DEF Types
<1>21. ASSUME NEW c \in Conns, Leave(c)
      PROVE  Types'
  <2>1. link[c].obj \in Objs /\ reader[c] \in Reader
    BY <1>0, <1>21 DEF Types, Located, RequestsLocated, ReadersLocated, QueuesBounded, Leave
  <2>2. object' \in [Objs -> Object] /\ link' \in [Conns -> Link]
    BY <1>0, <1>21, <2>1, InvalidatedTyped, ClosedLinkTyped DEF Leave
  <2>3. [reader[c] EXCEPT !.pc = "done"] \in Reader
    BY <2>1 DEF Reader
  <2> QED BY <1>0, <1>21, <2>2, <2>3 DEF Leave, Types
<1>22. ASSUME NEW c \in Conns, Break(c)
      PROVE  Types'
  BY <1>0, <1>22, LinkUpdates DEF Break, Types, Located, RequestsLocated, ReadersLocated, QueuesBounded, Pcs, Inside
<1>23. CASE Close
  <2>1. CASE current = None
    BY <1>0, <1>23, <2>1 DEF Close, Types
  <2>2. CASE current # None
    <3> DEFINE c == object[current].conn
    <3>1. current \in Objs /\ object[current] \in Object
      BY <1>0, <2>2 DEF Types
    <3>2. c \in Conns \cup {None}
      BY <3>1 DEF Object
    <3>3. [object[current] EXCEPT !.conn = None] \in Object
      BY <3>1, ObjectUpdates
    <3>4. object' \in [Objs -> Object]
      BY <1>0, <1>23, <2>2, <3>1, <3>3 DEF Close, Types
    <3>5. link' \in [Conns -> Link]
      <4>1. CASE c = None
        BY <1>0, <1>23, <2>2, <4>1 DEF Close, Types
      <4>2. CASE c # None
        <5>1. [link[c] EXCEPT !.stage = "closed"] \in Link
          BY <1>0, <3>2, <4>2, LinkUpdates DEF Types
        <5>2. link' = [link EXCEPT ![c] = [link[c] EXCEPT !.stage = "closed"]]
          BY <1>23, <2>2, <4>2 DEF Close
        <5> QED BY <1>0, <5>1, <5>2 DEF Types
      <4> QED BY <4>1, <4>2
    <3> QED BY <1>0, <1>23, <3>4, <3>5 DEF Close, Types
  <2> QED BY <2>1, <2>2
<1> QED
  BY <1>1, <1>2, <1>3, <1>4, <1>5, <1>6, <1>7, <1>8, <1>9, <1>10, <1>11, <1>12, <1>13, <1>14, <1>15, <1>16, <1>17, <1>18, <1>19, <1>20, <1>21, <1>22, <1>23
  DEF Next, RequestStep, ReaderStep

\* A request has its object from getOrCreateSession on, and a connection from
\* ensureUpstreamConn on.
LEMMA RequestsLocatedStep ==
  ASSUME SessionAssumption, Types, RequestsLocated, Next
  PROVE  RequestsLocated'
<1>1. ASSUME NEW r \in Requests, NEW k \in Kinds, NEW a \in Auths, Call(r, k, a)
      PROVE  RequestsLocated'
  BY <1>1 DEF Call, Types, Request, RequestsLocated, Obj, Conn
<1>2. ASSUME NEW r \in Requests, Lock(r)
      PROVE  RequestsLocated'
  BY <1>2 DEF Lock, Types, Request, RequestsLocated, Obj, Conn
<1>3. ASSUME NEW r \in Requests, Ensure(r)
      PROVE  RequestsLocated'
  BY <1>3 DEF Ensure, Ensured, Types, Request, Object, RequestsLocated, Obj
<1>4. ASSUME NEW r \in Requests, NEW c \in Conns, Dial(r, c)
      PROVE  RequestsLocated'
  BY <1>4 DEF Dial, Types, Request, RequestsLocated, Obj, Conn
<1>5. ASSUME NEW r \in Requests, NEW how \in Refusals \cup {"plain"}, DialFails(r, how)
      PROVE  RequestsLocated'
  BY <1>5 DEF DialFails, Types, Request, RequestsLocated, Obj, Conn
<1>6. ASSUME NEW r \in Requests, Install(r)
      PROVE  RequestsLocated'
  BY <1>6 DEF Install, Ensured, Types, Request, Object, RequestsLocated, Obj, Conn
<1>7. ASSUME NEW r \in Requests, Activate(r)
      PROVE  RequestsLocated'
  BY <1>7 DEF Activate, Types, Request, RequestsLocated, Obj, Conn
<1>8. ASSUME NEW r \in Requests, Sent(r)
      PROVE  RequestsLocated'
  BY <1>8 DEF Sent, Types, Request, RequestsLocated, Obj, Conn
<1>9. ASSUME NEW r \in Requests, SendFails(r)
      PROVE  RequestsLocated'
  BY <1>9 DEF SendFails, Types, Request, RequestsLocated, Obj, Conn
<1>10. ASSUME NEW r \in Requests, Skip(r)
      PROVE  RequestsLocated'
  BY <1>10 DEF Skip, Types, Request, RequestsLocated, Obj, Conn
<1>11. ASSUME NEW r \in Requests, Read(r)
      PROVE  RequestsLocated'
  <2> DEFINE m == Head(chan[r].queue)
             p == IF m.event.type = "delta" THEN "reading" ELSE "ending"
             g == IF m.event.type = "broken" THEN call[r].got ELSE call[r].got \cup {m.event.of}
             out == IF m.event.type = "delta" THEN call[r].outcome ELSE m.event.type
  <2>1. call' = [call EXCEPT ![r].pc = p, ![r].got = g, ![r].outcome = out]
    BY <1>11 DEF Read
  <2>2. call[r].pc = "reading" /\ p \in {"reading", "ending"}
    BY <1>11 DEF Read
  <2> HIDE DEF p, g, out
  <2> QED BY <2>1, <2>2 DEF Types, Request, RequestsLocated
<1>12. ASSUME NEW r \in Requests, ReadClosed(r)
      PROVE  RequestsLocated'
  <2> DEFINE out == "channel closed"
  <2>1. call[r].pc = "reading" /\ call' = [call EXCEPT ![r].pc = "ending", ![r].outcome = out]
    BY <1>12 DEF ReadClosed, End
  <2> HIDE DEF out
  <2> QED BY <2>1 DEF Types, Request, RequestsLocated
<1>13. ASSUME NEW r \in Requests, ReadCancelled(r)
      PROVE  RequestsLocated'
  BY <1>13 DEF ReadCancelled, Types, Request, RequestsLocated, Obj, Conn, End
<1>14. ASSUME NEW r \in Requests, Finish(r)
      PROVE  RequestsLocated'
  BY <1>14 DEF Finish, Types, Request, RequestsLocated, Obj, Conn
<1>15. ASSUME NEW r \in Requests, Cancel(r)
      PROVE  RequestsLocated'
  BY <1>15 DEF Cancel, Types, Request, RequestsLocated, Obj, Conn
<1>16. CASE Close
  BY <1>16 DEF Close, RequestsLocated
<1>17. ASSUME NEW c \in Conns, ReaderStep(c) \/ Break(c)
      PROVE  RequestsLocated'
  BY <1>17 DEF RequestsLocated, ReaderStep, Receive, Deliver, GiveUp, ReadFails, FailActive, Leave, Break
<1> QED
  BY <1>1, <1>2, <1>3, <1>4, <1>5, <1>6, <1>7, <1>8, <1>9, <1>10, <1>11, <1>12, <1>13, <1>14, <1>15, <1>16, <1>17 DEF Next, RequestStep

\* A reader belongs to an object, and what it holds is a request's event.
LEMMA ReadersLocatedStep ==
  ASSUME SessionAssumption, Types, RequestsLocated, ReadersLocated, Next
  PROVE  ReadersLocated'
<1>1. ASSUME NEW r \in Requests, NEW k \in Kinds, NEW a \in Auths, Call(r, k, a)
      PROVE  ReadersLocated'
  BY <1>1 DEF Call, ReadersLocated
<1>2. ASSUME NEW r \in Requests, Lock(r)
      PROVE  ReadersLocated'
  BY <1>2 DEF Lock, ReadersLocated
<1>3. ASSUME NEW r \in Requests, Ensure(r)
      PROVE  ReadersLocated'
  BY <1>3 DEF Ensure, ReadersLocated
<1>4. ASSUME NEW r \in Requests, NEW c \in Conns, Dial(r, c)
      PROVE  ReadersLocated'
  BY <1>4 DEF Dial, Types, Link, Reader, ReadersLocated
<1>5. ASSUME NEW r \in Requests, NEW how \in Refusals \cup {"plain"}, DialFails(r, how)
      PROVE  ReadersLocated'
  BY <1>5 DEF DialFails, ReadersLocated
<1>6. ASSUME NEW r \in Requests, Install(r)
      PROVE  ReadersLocated'
  <2> DEFINE o == Obj(r)
             c == Conn(r)
  <2>1. o \in Objs /\ c \in Conns
    BY <1>6 DEF Install, RequestsLocated, Obj, Conn
  <2>2. CASE object[o].conn = None
    <3>1. /\ link' = [link EXCEPT ![c].stage = "up", ![c].obj = o]
          /\ reader' = [reader EXCEPT ![c].pc = "reading"]
      BY <1>6, <2>2 DEF Install
    <3> HIDE DEF o, c
    <3> QED BY <2>1, <3>1 DEF Types, Link, Reader, ReadersLocated
  <2>3. CASE object[o].conn # None
    <3>1. link' = [link EXCEPT ![c].stage = "closed"] /\ reader' = reader
      BY <1>6, <2>3 DEF Install
    <3> HIDE DEF o, c
    <3> QED BY <2>1, <3>1 DEF Types, Link, ReadersLocated
  <2> QED BY <2>2, <2>3
<1>7. ASSUME NEW r \in Requests, Activate(r)
      PROVE  ReadersLocated'
  BY <1>7 DEF Activate, ReadersLocated
<1>8. ASSUME NEW r \in Requests, Sent(r)
      PROVE  ReadersLocated'
  BY <1>8 DEF Sent, Types, Link, Reader, ReadersLocated
<1>9. ASSUME NEW r \in Requests, SendFails(r)
      PROVE  ReadersLocated'
  BY <1>9, ClosedLinkTyped DEF SendFails, ReadersLocated, RequestsLocated, Obj, Conn
<1>10. ASSUME NEW r \in Requests, Skip(r)
      PROVE  ReadersLocated'
  BY <1>10 DEF Skip, ReadersLocated
<1>11. ASSUME NEW r \in Requests, Read(r)
      PROVE  ReadersLocated'
  <2>1. reader' = reader /\ Obj(r) \in Objs /\ Conn(r) \in Conns
           /\ link' \in {link, ClosedLink(Obj(r), Conn(r))}
    BY <1>11 DEF Read, RequestsLocated, Obj, Conn
  <2>2. \A d \in Conns : /\ link'[d].obj = link[d].obj
                        /\ link'[d].stage \in {link[d].stage, "closed"}
    BY <2>1, ClosedLinkTyped
  <2> QED BY <2>1, <2>2 DEF ReadersLocated
<1>12. ASSUME NEW r \in Requests, ReadClosed(r)
      PROVE  ReadersLocated'
  BY <1>12 DEF ReadClosed, ReadersLocated
<1>13. ASSUME NEW r \in Requests, ReadCancelled(r)
      PROVE  ReadersLocated'
  BY <1>13 DEF ReadCancelled, ReadersLocated
<1>14. ASSUME NEW r \in Requests, Finish(r)
      PROVE  ReadersLocated'
  BY <1>14 DEF Finish, ReadersLocated
<1>15. ASSUME NEW r \in Requests, Cancel(r)
      PROVE  ReadersLocated'
  BY <1>15 DEF Cancel, ReadersLocated
<1>16. ASSUME NEW c \in Conns, Receive(c)
      PROVE  ReadersLocated'
  <2>1. PICK a \in Answers(c) :
          /\ link' = [link EXCEPT ![c].deltas = a.deltas,
                                  ![c].asked = IF a.event.type = "delta" THEN @ ELSE Tail(@)]
          /\ LET ch == object[link[c].obj].active
             IN  IF ch = None THEN UNCHANGED reader
                 ELSE reader' = [reader EXCEPT ![c] = [pc |-> "delivering", ch |-> ch, event |-> a.event]]
    BY <1>16 DEF Receive
  <2> DEFINE ch == object[link[c].obj].active
  <2>2. link[c].obj \in Objs /\ link[c].asked \in Seq(Requests) /\ link[c].asked # <<>>
    BY <1>16 DEF Types, Link, Receive, ReadersLocated
  <2>3. a.event \in Events
    BY <2>2, SessionAssumption DEF Answers, Events, SessionAssumption
  <2>4. \A d \in Conns : link'[d].obj = link[d].obj /\ link'[d].stage = link[d].stage
    BY <2>1 DEF Types, Link
  <2>5. ch \in Requests \cup {None}
    BY <2>2 DEF Types, Object
  <2>6. CASE ch = None
    BY <2>1, <2>4, <2>6 DEF ReadersLocated
  <2>7. CASE ch # None
    <3>1. reader' = [reader EXCEPT ![c] = [pc |-> "delivering", ch |-> ch, event |-> a.event]]
      BY <2>1, <2>7
    <3> HIDE DEF ch
    <3> QED BY <2>2, <2>3, <2>4, <2>5, <2>7, <3>1 DEF Types, ReadersLocated
  <2> QED BY <2>6, <2>7
<1>17. ASSUME NEW c \in Conns, Deliver(c)
      PROVE  ReadersLocated'
  BY <1>17 DEF Deliver, Types, Link, Reader, ReadersLocated
<1>18. ASSUME NEW c \in Conns, GiveUp(c)
      PROVE  ReadersLocated'
  BY <1>18 DEF GiveUp, Types, Link, Reader, ReadersLocated
<1>19. ASSUME NEW c \in Conns, ReadFails(c)
      PROVE  ReadersLocated'
  BY <1>19 DEF ReadFails, Types, Link, Reader, ReadersLocated
<1>20. ASSUME NEW c \in Conns, FailActive(c)
      PROVE  ReadersLocated'
  BY <1>20 DEF FailActive, Types, Link, Reader, ReadersLocated
<1>21. ASSUME NEW c \in Conns, Leave(c)
      PROVE  ReadersLocated'
  <2>1. link[c].obj \in Objs /\ reader' = [reader EXCEPT ![c].pc = "done"] /\ link' = ClosedLink(link[c].obj, c)
    BY <1>21 DEF Leave, ReadersLocated
  <2>2. \A d \in Conns : /\ link'[d].obj = link[d].obj
                        /\ link'[d].stage \in {link[d].stage, "closed"}
    BY <2>1, ClosedLinkTyped
  <2> QED BY <2>1, <2>2 DEF Types, Reader, ReadersLocated
<1>22. ASSUME NEW c \in Conns, Break(c)
      PROVE  ReadersLocated'
  BY <1>22 DEF Break, Types, Link, Reader, ReadersLocated
<1>23. CASE Close
  <2>1. reader' = reader
    BY <1>23 DEF Close
  <2>2. \A d \in Conns : /\ link'[d].obj = link[d].obj
                        /\ link'[d].stage \in {link[d].stage, "closed"}
    <3>1. CASE current = None
      BY <1>23, <3>1 DEF Close
    <3>2. CASE current # None
      <4> DEFINE c == object[current].conn
      <4>1. link' = IF c = None THEN link ELSE [link EXCEPT ![c].stage = "closed"]
        BY <1>23, <3>2 DEF Close
      <4> HIDE DEF c
      <4> QED BY <4>1 DEF Types, Link
    <3> QED BY <3>1, <3>2
  <2> QED BY <2>1, <2>2 DEF ReadersLocated
<1> QED
  BY <1>1, <1>2, <1>3, <1>4, <1>5, <1>6, <1>7, <1>8, <1>9, <1>10, <1>11, <1>12, <1>13, <1>14, <1>15, <1>16, <1>17, <1>18, <1>19, <1>20, <1>21, <1>22, <1>23
  DEF Next, RequestStep, ReaderStep

\* Every send to a read channel respects its capacity.
LEMMA QueuesBoundedStep ==
  ASSUME SessionAssumption, Typed, Next
  PROVE  QueuesBounded'
<1>0. Types /\ Located /\ QueuesBounded
  BY DEF Typed, Located
<1>1. ASSUME chan' = chan
      PROVE  QueuesBounded'
  BY <1>0, <1>1 DEF QueuesBounded
<1>2. ASSUME NEW r \in Requests, chan[r].queue # <<>>, chan' = [chan EXCEPT ![r].queue = Tail(@)]
      PROVE  QueuesBounded'
  <2>1. chan[r].queue \in Seq(Message)
    BY <1>0 DEF Types, Channel
  <2>2. Len(Tail(chan[r].queue)) <= Len(chan[r].queue)
    BY <1>2, <2>1
  <2>3. \A q \in Requests : chan'[q].queue = IF q = r THEN Tail(chan[r].queue) ELSE chan[q].queue
    BY <1>0, <1>2 DEF Types, Channel
  <2>4. Len(chan[r].queue) \in Nat /\ Len(Tail(chan[r].queue)) \in Nat /\ Buffer \in Nat
    BY <1>2, <2>1, SessionAssumption DEF SessionAssumption
  <2>5. Len(Tail(chan[r].queue)) <= Buffer
    BY <1>0, <2>2, <2>4 DEF QueuesBounded
  <2> QED BY <1>0, <2>3, <2>5 DEF QueuesBounded
<1>3. ASSUME NEW c \in Conns, Deliver(c)
      PROVE  QueuesBounded'
  BY <1>0, <1>3, OfferedTyped, SessionAssumption DEF Deliver, Located, ReadersLocated, QueuesBounded
<1>4. ASSUME NEW c \in Conns, FailActive(c)
      PROVE  QueuesBounded'
  <2> DEFINE ch == reader[c].ch
             e == Event(None, "broken")
             sent == Offered(ch, c, e)
  <2>1. ch \in Requests /\ e \in Events
    BY <1>0, <1>4 DEF FailActive, Located, ReadersLocated, Events
  <2>2. sent \in [Requests -> Channel] /\ \A q \in Requests : Len(sent[q].queue) <= Buffer
    <3> HIDE DEF ch, e
    <3> QED BY <1>0, <2>1, OfferedTyped, SessionAssumption
  <2>3. chan' = [sent EXCEPT ![ch].closed = TRUE]
    BY <1>4 DEF FailActive
  <2>4. \A q \in Requests : chan'[q].queue = sent[q].queue
    <3> HIDE DEF sent, ch
    <3> QED BY <2>1, <2>2, <2>3 DEF Channel
  <2> HIDE DEF sent
  <2> QED BY <2>2, <2>4 DEF QueuesBounded
<1>5. ASSUME NEW r \in Requests, RequestStep(r), ~Skip(r), ~Read(r)
      PROVE  chan' = chan
  BY <1>5 DEF RequestStep, Lock, Ensure, Dial, DialFails, Install, Activate, Sent, SendFails,
              ReadClosed, ReadCancelled, Finish
<1>6. ASSUME NEW r \in Requests, Skip(r) \/ Read(r)
      PROVE  QueuesBounded'
  BY <1>2, <1>6 DEF Skip, Read
<1>7. ASSUME NEW c \in Conns, ReaderStep(c), ~Deliver(c), ~FailActive(c)
      PROVE  chan' = chan
  BY <1>7 DEF ReaderStep, Receive, GiveUp, ReadFails, Leave
<1>8. ASSUME NEW r \in Requests, Cancel(r) \/ \E k \in Kinds, a \in Auths : Call(r, k, a)
      PROVE  chan' = chan
  BY <1>8 DEF Cancel, Call
<1>9. ASSUME Close \/ \E c \in Conns : Break(c)
      PROVE  chan' = chan
  BY <1>9 DEF Break, Close
<1> QED BY <1>1, <1>3, <1>4, <1>5, <1>6, <1>7, <1>8, <1>9 DEF Next

-----------------------------------------------------------------------------
(* The lock and the active channel. Only Lock gives the lock away, only      *)
(* Activate sets a channel, and both under the lock.                         *)

\* What a step of request r does to the holders when r is inside and either stays,
\* or leaves and at most lets its own lock go.
LEMMA HoldersAfter ==
  ASSUME RequestsLocated, Holders, NEW r \in Requests, call[r].pc \in Inside,
         \A q \in Requests \ {r} : call'[q].pc = call[q].pc /\ call'[q].obj = call[q].obj,
         \/ /\ call'[r].pc \notin Inside
            /\ \A o \in Objs \ {call[r].obj} : object'[o].holder = object[o].holder
         \/ /\ call'[r].obj = call[r].obj
            /\ \A o \in Objs : object'[o].holder = object[o].holder
  PROVE  Holders'
<1>1. ASSUME NEW q \in Requests, q # r, call'[q].pc \in Inside
      PROVE  object'[call'[q].obj].holder = q
  <2>1. call[q].pc \in Inside /\ call'[q].obj = call[q].obj
    BY <1>1
  <2>2. object[call[q].obj].holder = q /\ object[call[r].obj].holder = r
    BY <2>1 DEF Holders
  <2>3. call[q].obj # call[r].obj /\ call[q].obj \in Objs
    BY <1>1, <2>1, <2>2 DEF RequestsLocated, Inside
  <2> QED BY <2>1, <2>2, <2>3
<1>2. ASSUME call'[r].pc \in Inside
      PROVE  object'[call'[r].obj].holder = r
  <2>1. object[call[r].obj].holder = r /\ call[r].obj \in Objs
    BY DEF Holders, RequestsLocated, Inside
  <2> QED BY <1>2, <2>1
<1> QED BY <1>1, <1>2 DEF Holders

\* Readers, the peer and the owner of the session never touch the lock, and at
\* most take a channel away.
LEMMA OthersLeaveLock ==
  ASSUME Types, ReadersLocated, (\E c \in Conns : ReaderStep(c) \/ Break(c)) \/ Close
  PROVE  /\ call' = call
         /\ \A o \in Objs : /\ object'[o].holder = object[o].holder
                            /\ object'[o].active \in {object[o].active, None}
<1>1. CASE Close
  <2>1. CASE current = None
    BY <1>1, <2>1 DEF Close
  <2>2. CASE current # None
    <3>1. object' = [object EXCEPT ![current].conn = None] /\ call' = call
      BY <1>1, <2>2 DEF Close
    <3> QED BY <3>1 DEF Types, Object
  <2> QED BY <2>1, <2>2
<1>2. ASSUME NEW c \in Conns, Leave(c)
      PROVE  /\ call' = call
             /\ \A o \in Objs : /\ object'[o].holder = object[o].holder
                                /\ object'[o].active \in {object[o].active, None}
  <2>1. link[c].obj \in Objs /\ object' = Invalidated(link[c].obj, c) /\ call' = call
    BY <1>2 DEF Leave, ReadersLocated
  <2> QED BY <2>1, InvalidatedTyped
<1>3. ASSUME NEW c \in Conns, FailActive(c)
      PROVE  /\ call' = call
             /\ \A o \in Objs : /\ object'[o].holder = object[o].holder
                                /\ object'[o].active \in {object[o].active, None}
  <2>1. /\ link[c].obj \in Objs /\ reader[c].ch \in Requests
        /\ object' = Cleared(object, link[c].obj, reader[c].ch) /\ call' = call
    BY <1>3 DEF FailActive, ReadersLocated
  <2>2. object \in [Objs -> Object]
    BY DEF Types
  <2> QED BY <2>1, <2>2, ClearedTyped
<1>4. ASSUME NEW c \in Conns, Receive(c) \/ Deliver(c) \/ GiveUp(c) \/ ReadFails(c) \/ Break(c)
      PROVE  call' = call /\ object' = object
  BY <1>4 DEF Receive, Deliver, GiveUp, ReadFails, Break
<1> QED BY <1>1, <1>2, <1>3, <1>4 DEF ReaderStep

\* A request inside has the lock of its object.
LEMMA HoldersStep ==
  ASSUME SessionAssumption, Types, RequestsLocated, ReadersLocated, Holders, Next
  PROVE  Holders'
<1>1. ASSUME NEW r \in Requests, NEW k \in Kinds, NEW a \in Auths, Call(r, k, a)
      PROVE  Holders'
  <2>1. \A o \in Objs : object'[o].holder = object[o].holder
    BY <1>1 DEF Call, Types, Object
  <2>2. /\ call'[r].pc \notin Inside
        /\ \A q \in Requests \ {r} : call'[q] = call[q]
    BY <1>1 DEF Call, Types, Request, Inside
  <2>3. \A q \in Requests : call[q].pc \in Inside => call[q].obj \in Objs
    BY DEF RequestsLocated, Inside
  <2> QED BY <2>1, <2>2, <2>3 DEF Holders
<1>2. ASSUME NEW r \in Requests, Lock(r)
      PROVE  Holders'
  <2> DEFINE o == Obj(r)
  <2>1. o \in Objs /\ object[o].holder = None /\ o = call[r].obj
    BY <1>2 DEF Lock, RequestsLocated, Obj
  <2>2. \A p \in Objs : object'[p].holder = IF p = o THEN r ELSE object[p].holder
    <3> HIDE DEF o
    <3> QED BY <1>2, <2>1 DEF Lock, Types, Object, Obj, o
  <2>3. /\ call'[r].obj = o
        /\ \A q \in Requests \ {r} : call'[q].pc = call[q].pc /\ call'[q].obj = call[q].obj
    BY <1>2 DEF Lock, Types, Request, Obj
  <2>4. \A q \in Requests : call[q].pc \in Inside => call[q].obj \in Objs /\ q # None
    BY SessionAssumption DEF RequestsLocated, Inside, SessionAssumption
  <2> QED BY <2>1, <2>2, <2>3, <2>4 DEF Holders
<1>3. ASSUME NEW r \in Requests, Ensure(r)
      PROVE  Holders'
  <2>1. /\ call[r].pc \in Inside /\ object' = object /\ call'[r].obj = call[r].obj
        /\ \A q \in Requests \ {r} : call'[q].pc = call[q].pc /\ call'[q].obj = call[q].obj
    BY <1>3 DEF Ensure, Types, Request, RequestsLocated, Obj, Inside, Ensured
  <2> QED BY <2>1, HoldersAfter
<1>4. ASSUME NEW r \in Requests, NEW c \in Conns, Dial(r, c)
      PROVE  Holders'
  <2>1. /\ call[r].pc \in Inside /\ object' = object /\ call'[r].obj = call[r].obj
        /\ \A q \in Requests \ {r} : call'[q].pc = call[q].pc /\ call'[q].obj = call[q].obj
    BY <1>4 DEF Dial, Types, Request, RequestsLocated, Obj, Inside, Ensured
  <2> QED BY <2>1, HoldersAfter
<1>5. ASSUME NEW r \in Requests, NEW how \in Refusals \cup {"plain"}, DialFails(r, how)
      PROVE  Holders'
  <2>1. /\ call[r].pc \in Inside /\ call[r].obj \in Objs /\ call'[r].pc \notin Inside
        /\ \A q \in Requests \ {r} : call'[q].pc = call[q].pc /\ call'[q].obj = call[q].obj
    BY <1>5 DEF DialFails, Types, Request, RequestsLocated, Inside
  <2>2. \A o \in Objs \ {call[r].obj} : object'[o].holder = object[o].holder
    <3>1. Cleared(object, Obj(r), r) \in [Objs -> Object]
      BY <2>1, ClearedTyped DEF Types, Obj
    <3>2. object' \in {object, Released(Cleared(object, Obj(r), r), Obj(r))}
      BY <1>5 DEF DialFails
    <3>3. \A o \in Objs : Cleared(object, Obj(r), r)[o].holder = object[o].holder
      BY <2>1, ClearedTyped DEF Types, Obj
    <3> QED BY <2>1, <3>1, <3>2, <3>3, ReleasedTyped DEF Obj
  <2> QED BY <2>1, <2>2, HoldersAfter
<1>6. ASSUME NEW r \in Requests, Install(r)
      PROVE  Holders'
  <2> DEFINE d == IF object[Obj(r)].conn = None THEN Conn(r) ELSE object[Obj(r)].conn
  <2>1. call' = [call EXCEPT ![r].pc = Ensured(r), ![r].conn = d]
    BY <1>6 DEF Install
  <2>2. call[r].pc \in Inside /\ Obj(r) \in Objs
    BY <1>6 DEF Install, RequestsLocated, Inside, Obj
  <2>3. /\ call'[r].obj = call[r].obj
        /\ \A q \in Requests \ {r} : call'[q].pc = call[q].pc /\ call'[q].obj = call[q].obj
    <3> HIDE DEF d
    <3> QED BY <2>1 DEF Types, Request
  <2>4. \A o \in Objs : object'[o].holder = object[o].holder
    BY <1>6, <2>2 DEF Install, Types, Object
  <2> QED BY <2>2, <2>3, <2>4, HoldersAfter
<1>7. ASSUME NEW r \in Requests, Activate(r)
      PROVE  Holders'
  <2>1. /\ call[r].pc \in Inside /\ call'[r].obj = call[r].obj /\ Obj(r) \in Objs
        /\ \A q \in Requests \ {r} : call'[q].pc = call[q].pc /\ call'[q].obj = call[q].obj
    BY <1>7 DEF Activate, Types, Request, RequestsLocated, Inside, Obj
  <2>2. \A o \in Objs : object'[o].holder = object[o].holder
    BY <1>7, <2>1 DEF Activate, Types, Object
  <2> QED BY <2>1, <2>2, HoldersAfter
<1>8. ASSUME NEW r \in Requests, Sent(r)
      PROVE  Holders'
  <2>1. /\ call[r].pc \in Inside /\ object' = object /\ call'[r].obj = call[r].obj
        /\ \A q \in Requests \ {r} : call'[q].pc = call[q].pc /\ call'[q].obj = call[q].obj
    BY <1>8 DEF Sent, Types, Request, RequestsLocated, Obj, Inside
  <2> QED BY <2>1, HoldersAfter
<1>9. ASSUME NEW r \in Requests, SendFails(r)
      PROVE  Holders'
  <2>1. /\ call[r].pc \in Inside /\ Obj(r) \in Objs /\ Conn(r) \in Conns
        /\ \A q \in Requests \ {r} : call'[q].pc = call[q].pc /\ call'[q].obj = call[q].obj
    BY <1>9 DEF SendFails, Types, Request, RequestsLocated, Inside, Obj, Conn
  <2>2. CASE call[r].retrying
    <3>1. call'[r].pc \notin Inside
      BY <1>9, <2>2 DEF SendFails, Types, Request, Inside
    <3>2. object' = Released(Cleared(Invalidated(Obj(r), Conn(r)), Obj(r), r), Obj(r))
      BY <1>9, <2>2 DEF SendFails
    <3>3. Invalidated(Obj(r), Conn(r)) \in [Objs -> Object]
      BY <2>1, InvalidatedTyped
    <3>4. Cleared(Invalidated(Obj(r), Conn(r)), Obj(r), r) \in [Objs -> Object]
      BY <2>1, <3>3, ClearedTyped
    <3>5. \A o \in Objs \ {call[r].obj} : object'[o].holder = object[o].holder
      BY <2>1, <3>2, <3>3, <3>4, InvalidatedTyped, ClearedTyped, ReleasedTyped DEF Obj
    <3> QED BY <2>1, <3>1, <3>5, HoldersAfter
  <2>3. CASE ~call[r].retrying
    <3>1. call'[r].obj = call[r].obj /\ object' = Invalidated(Obj(r), Conn(r))
      BY <1>9, <2>3 DEF SendFails, Types, Request
    <3>2. \A o \in Objs : object'[o].holder = object[o].holder
      BY <2>1, <3>1, InvalidatedTyped
    <3> QED BY <2>1, <3>1, <3>2, HoldersAfter
  <2> QED BY <2>2, <2>3
<1>10. ASSUME NEW r \in Requests, Skip(r)
      PROVE  Holders'
  <2>1. /\ call[r].pc \in Inside /\ object' = object /\ call'[r].obj = call[r].obj
        /\ \A q \in Requests \ {r} : call'[q].pc = call[q].pc /\ call'[q].obj = call[q].obj
    BY <1>10 DEF Skip, Types, Request, RequestsLocated, Obj, Inside
  <2> QED BY <2>1, HoldersAfter
<1>11. ASSUME NEW r \in Requests, Read(r)
      PROVE  Holders'
  <2> DEFINE m == Head(chan[r].queue)
             p == IF m.event.type = "delta" THEN "reading" ELSE "ending"
             g == IF m.event.type = "broken" THEN call[r].got ELSE call[r].got \cup {m.event.of}
             out == IF m.event.type = "delta" THEN call[r].outcome ELSE m.event.type
  <2>1. call' = [call EXCEPT ![r].pc = p, ![r].got = g, ![r].outcome = out]
    BY <1>11 DEF Read
  <2>2. /\ call[r].pc \in Inside /\ Obj(r) \in Objs /\ Conn(r) \in Conns
        /\ object' \in {object, Invalidated(Obj(r), Conn(r))}
    BY <1>11 DEF Read, RequestsLocated, Inside, Obj, Conn
  <2>3. /\ call'[r].obj = call[r].obj
        /\ \A q \in Requests \ {r} : call'[q].pc = call[q].pc /\ call'[q].obj = call[q].obj
    <3> HIDE DEF p, g, out
    <3> QED BY <2>1 DEF Types, Request
  <2>4. \A o \in Objs : object'[o].holder = object[o].holder
    BY <2>2, InvalidatedTyped
  <2> QED BY <2>2, <2>3, <2>4, HoldersAfter
<1>12. ASSUME NEW r \in Requests, ReadClosed(r)
      PROVE  Holders'
  <2> DEFINE out == "channel closed"
  <2>1. /\ call[r].pc = "reading" /\ object' = object
        /\ call' = [call EXCEPT ![r].pc = "ending", ![r].outcome = out]
    BY <1>12 DEF ReadClosed, End
  <2>2. /\ call'[r].obj = call[r].obj
        /\ \A q \in Requests \ {r} : call'[q].pc = call[q].pc /\ call'[q].obj = call[q].obj
    <3> HIDE DEF out
    <3> QED BY <2>1 DEF Types, Request
  <2> QED BY <2>1, <2>2, HoldersAfter DEF Inside
<1>13. ASSUME NEW r \in Requests, ReadCancelled(r)
      PROVE  Holders'
  <2> DEFINE out == "cancelled"
  <2>1. /\ call[r].pc = "reading" /\ object' = object
        /\ call' = [call EXCEPT ![r].pc = "ending", ![r].outcome = out]
    BY <1>13 DEF ReadCancelled, End
  <2>2. /\ call'[r].obj = call[r].obj
        /\ \A q \in Requests \ {r} : call'[q].pc = call[q].pc /\ call'[q].obj = call[q].obj
    <3> HIDE DEF out
    <3> QED BY <2>1 DEF Types, Request
  <2> QED BY <2>1, <2>2, HoldersAfter DEF Inside
<1>14. ASSUME NEW r \in Requests, Finish(r)
      PROVE  Holders'
  <2>1. /\ call[r].pc \in Inside /\ call[r].obj \in Objs /\ call'[r].pc \notin Inside
        /\ \A q \in Requests \ {r} : call'[q].pc = call[q].pc /\ call'[q].obj = call[q].obj
    BY <1>14 DEF Finish, Types, Request, RequestsLocated, Inside
  <2>2. \A o \in Objs \ {call[r].obj} : object'[o].holder = object[o].holder
    <3>1. Cleared(object, Obj(r), r) \in [Objs -> Object]
      BY <2>1, ClearedTyped DEF Types, Obj
    <3>2. object' \in {object, Released(Cleared(object, Obj(r), r), Obj(r))}
      BY <1>14 DEF Finish
    <3>3. \A o \in Objs : Cleared(object, Obj(r), r)[o].holder = object[o].holder
      BY <2>1, ClearedTyped DEF Types, Obj
    <3> QED BY <2>1, <3>1, <3>2, <3>3, ReleasedTyped DEF Obj
  <2> QED BY <2>1, <2>2, HoldersAfter
<1>15. ASSUME NEW r \in Requests, Cancel(r)
      PROVE  Holders'
  <2>1. object' = object /\ \A q \in Requests : call'[q].pc = call[q].pc /\ call'[q].obj = call[q].obj
    BY <1>15 DEF Cancel, Types, Request
  <2> QED BY <2>1 DEF Holders
<1>16. CASE Close
  <2>1. call' = call /\ \A o \in Objs : object'[o].holder = object[o].holder
    BY <1>16, OthersLeaveLock
  <2> QED BY <2>1 DEF Holders, RequestsLocated, Inside
<1>17. ASSUME NEW c \in Conns, ReaderStep(c) \/ Break(c)
      PROVE  Holders'
  <2>1. call' = call /\ \A o \in Objs : object'[o].holder = object[o].holder
    BY <1>17, OthersLeaveLock
  <2> QED BY <2>1 DEF Holders, RequestsLocated, Inside
<1> QED
  BY <1>1, <1>2, <1>3, <1>4, <1>5, <1>6, <1>7, <1>8, <1>9, <1>10, <1>11, <1>12, <1>13, <1>14, <1>15, <1>16, <1>17 DEF Next, RequestStep

\* ActiveHoldsLock: Lock finds no channel, Activate sets the holder's, and every
\* release clears it first.
LEMMA ActiveStep ==
  ASSUME SessionAssumption, Types, RequestsLocated, ReadersLocated, Holders, ActiveHoldsLock, Next
  PROVE  ActiveHoldsLock'
<1>1. ASSUME \A o \in Objs : /\ object'[o].holder = object[o].holder
                             /\ object'[o].active \in {object[o].active, None}
      PROVE  ActiveHoldsLock'
  BY <1>1 DEF ActiveHoldsLock
<1>2. CASE Close \/ \E c \in Conns : ReaderStep(c) \/ Break(c)
  BY <1>1, <1>2, OthersLeaveLock
<1>3. ASSUME NEW r \in Requests, NEW k \in Kinds, NEW a \in Auths, Call(r, k, a)
      PROVE  ActiveHoldsLock'
  BY <1>3 DEF Call, Types, Object, ActiveHoldsLock
<1>4. ASSUME NEW r \in Requests, Cancel(r)
      PROVE  ActiveHoldsLock'
  BY <1>4 DEF Cancel, ActiveHoldsLock
<1>5. ASSUME NEW r \in Requests, RequestStep(r)
      PROVE  ActiveHoldsLock'
  <2> DEFINE o == Obj(r)
  <2>0. o \in Objs /\ r # None
    BY <1>5, SessionAssumption DEF RequestStep, Lock, Ensure, Dial, DialFails, Install, Activate, Sent,
       SendFails, Skip, Read, ReadClosed, ReadCancelled, Finish, RequestsLocated, Obj, SessionAssumption
  <2>1. CASE Lock(r)
    <3>1. object[o].holder = None /\ object' = [object EXCEPT ![o].holder = r]
      BY <2>1 DEF Lock
    <3>2. object[o].active = None
      BY <2>0, <3>1, SessionAssumption DEF ActiveHoldsLock, Types, Object, SessionAssumption
    <3> HIDE DEF o
    <3> QED BY <2>0, <3>1, <3>2 DEF Types, Object, ActiveHoldsLock
  <2>2. CASE Activate(r)
    <3>1. object[o].holder = r
      BY <2>2 DEF Activate, Holders, Inside, Obj
    <3>2. object' = [object EXCEPT ![o].active = r]
      BY <2>2 DEF Activate
    <3> HIDE DEF o
    <3> QED BY <2>0, <3>1, <3>2 DEF Types, Object, ActiveHoldsLock
  <2>3. ASSUME NEW obj \in [Objs -> Object], object[o].holder = r,
               \A p \in Objs : obj[p].holder = object[p].holder /\ obj[p].active = object[p].active,
               object' = Released(Cleared(obj, o, r), o)
        PROVE  ActiveHoldsLock'
    <3>1. Cleared(obj, o, r) \in [Objs -> Object]
      BY <2>0, ClearedTyped
    <3>2. \A p \in Objs : object'[p].holder = IF p = o THEN None ELSE object[p].holder
      BY <2>0, <2>3, <3>1, ClearedTyped, ReleasedTyped
    <3>3. \A p \in Objs : object'[p].active
                            = IF p = o /\ object[p].active = r THEN None ELSE object[p].active
      BY <2>0, <2>3, <3>1, ClearedTyped, ReleasedTyped
    <3>4. object[o].active \in {r, None}
      BY <2>0, <2>3 DEF ActiveHoldsLock
    <3> HIDE DEF o
    <3> QED BY <3>2, <3>3, <3>4 DEF ActiveHoldsLock
  <2>4. object \in [Objs -> Object]
    BY DEF Types
  <2>5. CASE Finish(r)
    <3>1. object[o].holder = r /\ object' = Released(Cleared(object, o, r), o)
      BY <2>5 DEF Finish, Holders, Inside, Obj
    <3> QED BY <2>3, <2>4, <3>1
  <2>6. ASSUME NEW how \in Refusals \cup {"plain"}, DialFails(r, how)
        PROVE  ActiveHoldsLock'
    <3>1. object[o].holder = r /\ object' \in {object, Released(Cleared(object, o, r), o)}
      BY <2>6 DEF DialFails, Holders, Inside, Obj
    <3>2. CASE object' = object
      BY <3>2 DEF ActiveHoldsLock
    <3> QED BY <2>3, <2>4, <3>1, <3>2
  <2>7. CASE SendFails(r)
    <3> DEFINE inv == Invalidated(o, Conn(r))
    <3>1. object[o].holder = r /\ object' \in {inv, Released(Cleared(inv, o, r), o)} /\ Conn(r) \in Conns
      BY <2>7 DEF SendFails, Holders, Inside, RequestsLocated, Obj, Conn
    <3>2. /\ inv \in [Objs -> Object]
          /\ \A p \in Objs : inv[p].holder = object[p].holder /\ inv[p].active = object[p].active
      BY <2>0, <3>1, InvalidatedTyped
    <3> HIDE DEF inv, o
    <3>3. CASE object' = inv
      BY <1>1, <3>2, <3>3
    <3> QED BY <2>3, <3>1, <3>2, <3>3
  <2>8. CASE Read(r)
    <3>1. object' \in {object, Invalidated(o, Conn(r))} /\ Conn(r) \in Conns
      BY <2>8 DEF Read, RequestsLocated, Conn
    <3>2. \A p \in Objs : object'[p].holder = object[p].holder /\ object'[p].active = object[p].active
      BY <2>0, <3>1, InvalidatedTyped
    <3> QED BY <1>1, <3>2
  <2>9. CASE Install(r)
    <3>1. \A p \in Objs : object'[p].holder = object[p].holder /\ object'[p].active = object[p].active
      BY <2>0, <2>9 DEF Install, Types, Object
    <3> QED BY <1>1, <3>1
  <2>10. CASE Ensure(r) \/ (\E c \in Conns : Dial(r, c)) \/ Sent(r) \/ Skip(r)
              \/ ReadClosed(r) \/ ReadCancelled(r)
    <3>1. object' = object
      BY <2>10 DEF Ensure, Dial, Sent, Skip, ReadClosed, ReadCancelled
    <3> QED BY <3>1 DEF ActiveHoldsLock
  <2> QED BY <1>5, <2>1, <2>2, <2>5, <2>6, <2>7, <2>8, <2>9, <2>10 DEF RequestStep
<1> QED BY <1>2, <1>3, <1>4, <1>5 DEF Next

-----------------------------------------------------------------------------
(* The connection: whoever takes it out of the object closes it.             *)

LEMMA ConnectionsStep ==
  ASSUME SessionAssumption, Types, RequestsLocated, ReadersLocated, ConnectionsKept, Next
  PROVE  ConnectionsKept'
\* It is enough that what is up after the step was up before, at an object that
\* kept its connection; or that invalidateUpstreamConn took place.
<1>1. ASSUME \A d \in Conns : link'[d].stage \in {"up", "down"} =>
                /\ link[d].stage \in {"up", "down"}
                /\ link'[d].obj = link[d].obj
                /\ object'[link[d].obj].conn = object[link[d].obj].conn
      PROVE  ConnectionsKept'
  BY <1>1 DEF ConnectionsKept
<1>2. ASSUME NEW o \in Objs, NEW c \in Conns, NEW obj, link' = ClosedLink(o, c), object' = obj,
             \A p \in Objs : obj[p].conn = Invalidated(o, c)[p].conn
      PROVE  ConnectionsKept'
  <2>1. \A d \in Conns : /\ link'[d].obj = link[d].obj
                         /\ link'[d].stage = IF d = c /\ object[o].conn = c THEN "closed" ELSE link[d].stage
    BY <1>2, ClosedLinkTyped
  <2>2. \A p \in Objs : object'[p].conn = IF p = o /\ object[p].conn = c THEN None ELSE object[p].conn
    BY <1>2, InvalidatedTyped
  <2>3. \A d \in Conns : link[d].stage \in {"up", "down"} => link[d].obj \in Objs
    BY DEF ReadersLocated
  <2> QED BY <2>1, <2>2, <2>3 DEF ConnectionsKept
<1>3. ASSUME NEW r \in Requests, RequestStep(r)
      PROVE  ConnectionsKept'
  <2> DEFINE o == Obj(r)
             c == Conn(r)
  <2>0. o \in Objs
    BY <1>3 DEF RequestStep, Lock, Ensure, Dial, DialFails, Install, Activate, Sent,
       SendFails, Skip, Read, ReadClosed, ReadCancelled, Finish, RequestsLocated, Obj
  <2>1. CASE Install(r)
    <3>1. c \in Conns
      BY <2>1 DEF Install, RequestsLocated, Conn
    <3>2. CASE object[o].conn = None
      <4>1. /\ object' = [object EXCEPT ![o].conn = c, ![o].auth = call[r].auth]
            /\ link' = [link EXCEPT ![c].stage = "up", ![c].obj = o]
        BY <2>1, <3>2 DEF Install
      <4>2. \A p \in Objs : object'[p].conn = IF p = o THEN c ELSE object[p].conn
        <5> HIDE DEF o, c
        <5> QED BY <2>0, <4>1 DEF Types, Object
      <4>3. /\ \A d \in Conns : d # c => link'[d] = link[d]
            /\ link'[c].obj = o
        <5> HIDE DEF o, c
        <5> QED BY <3>1, <4>1 DEF Types, Link
      <4>4. \A d \in Conns : link[d].stage \in {"up", "down"} => link[d].obj \in Objs /\ link[d].obj # o
        BY <3>2, SessionAssumption DEF ReadersLocated, ConnectionsKept, SessionAssumption
      <4> HIDE DEF o, c
      <4> QED BY <2>0, <4>2, <4>3, <4>4 DEF ConnectionsKept
    <3>3. CASE object[o].conn # None
      <4>1. object' = object /\ link' = [link EXCEPT ![c].stage = "closed"]
        BY <2>1, <3>3 DEF Install
      <4>2. \A d \in Conns : link'[d].obj = link[d].obj /\ link'[d].stage \in {link[d].stage, "closed"}
        <5> HIDE DEF c
        <5> QED BY <4>1 DEF Types, Link
      <4> QED BY <1>1, <4>1, <4>2
    <3> QED BY <3>2, <3>3
  <2>2. CASE SendFails(r)
    <3> DEFINE inv == Invalidated(o, c)
    <3>1. link' = ClosedLink(o, c) /\ object' \in {inv, Released(Cleared(inv, o, r), o)} /\ c \in Conns
      BY <2>2 DEF SendFails, RequestsLocated, Conn
    <3>2. inv \in [Objs -> Object]
      BY <2>0, <3>1, InvalidatedTyped
    <3>3. \A p \in Objs : object'[p].conn = inv[p].conn
      <4> HIDE DEF inv, o
      <4>1. Cleared(inv, o, r) \in [Objs -> Object]
        BY <2>0, <3>2, ClearedTyped
      <4> QED BY <2>0, <3>1, <3>2, <4>1, ClearedTyped, ReleasedTyped
    <3> QED BY <1>2, <2>0, <3>1, <3>3
  <2>3. CASE Read(r)
    <3>1. /\ c \in Conns
          /\ \/ link' = link /\ object' = object
             \/ link' = ClosedLink(o, c) /\ object' = Invalidated(o, c)
      BY <2>3 DEF Read, RequestsLocated, Conn
    <3> QED BY <1>1, <1>2, <2>0, <3>1
  <2>4. CASE Finish(r) \/ \E how \in Refusals \cup {"plain"} : DialFails(r, how)
    <3>1. link' = link /\ object' \in {object, Released(Cleared(object, o, r), o)}
      BY <2>4 DEF Finish, DialFails
    <3>2. \A p \in Objs : object'[p].conn = object[p].conn
      <4> HIDE DEF o
      <4>1. object \in [Objs -> Object]
        BY DEF Types
      <4>2. Cleared(object, o, r) \in [Objs -> Object]
        BY <2>0, <4>1, ClearedTyped
      <4> QED BY <2>0, <3>1, <4>1, <4>2, ClearedTyped, ReleasedTyped
    <3> QED BY <1>1, <3>1, <3>2 DEF ReadersLocated
  <2>5. CASE Lock(r) \/ Activate(r)
    <3>1. link' = link
      BY <2>5 DEF Lock, Activate
    <3>2. \A p \in Objs : object'[p].conn = object[p].conn
      BY <2>0, <2>5 DEF Lock, Activate, Types, Object
    <3> QED BY <1>1, <3>1, <3>2 DEF ReadersLocated
  <2>6. ASSUME NEW d \in Conns, Dial(r, d)
        PROVE  ConnectionsKept'
    <3>1. object' = object /\ \A e \in Conns : link'[e] = link[e] \/ link'[e].stage = "dialled"
      BY <2>6 DEF Dial, Types, Link
    <3> QED BY <1>1, <3>1
  <2>7. CASE Sent(r)
    <3>1. object' = object /\ \A e \in Conns : link'[e].stage = link[e].stage /\ link'[e].obj = link[e].obj
      BY <2>7 DEF Sent, Types, Link
    <3> QED BY <1>1, <3>1
  <2>8. CASE Ensure(r) \/ Skip(r) \/ ReadClosed(r) \/ ReadCancelled(r)
    <3>1. object' = object /\ link' = link
      BY <2>8 DEF Ensure, Skip, ReadClosed, ReadCancelled
    <3> QED BY <1>1, <3>1
  <2> QED BY <1>3, <2>1, <2>2, <2>3, <2>4, <2>5, <2>6, <2>7, <2>8 DEF RequestStep
<1>4. ASSUME NEW r \in Requests, NEW k \in Kinds, NEW a \in Auths, Call(r, k, a)
      PROVE  ConnectionsKept'
  <2>1. link' = link /\ \A p \in Objs : object'[p].conn = object[p].conn
    BY <1>4 DEF Call, Types, Object
  <2> QED BY <1>1, <2>1 DEF ReadersLocated
<1>5. ASSUME NEW r \in Requests, Cancel(r)
      PROVE  ConnectionsKept'
  BY <1>5 DEF Cancel, ConnectionsKept
<1>6. ASSUME NEW c \in Conns, ReaderStep(c) \/ Break(c)
      PROVE  ConnectionsKept'
  <2>1. CASE Receive(c)
    <3>1. object' = object /\ \A e \in Conns : link'[e].stage = link[e].stage /\ link'[e].obj = link[e].obj
      BY <2>1 DEF Receive, Types, Link
    <3> QED BY <1>1, <3>1
  <2>2. CASE Deliver(c) \/ GiveUp(c) \/ ReadFails(c)
    BY <2>2 DEF Deliver, GiveUp, ReadFails, ConnectionsKept
  <2>3. CASE FailActive(c)
    <3>1. /\ link[c].obj \in Objs /\ reader[c].ch \in Requests /\ link' = link
          /\ object' = Cleared(object, link[c].obj, reader[c].ch)
      BY <2>3 DEF FailActive, ReadersLocated
    <3>2. object \in [Objs -> Object]
      BY DEF Types
    <3>3. \A p \in Objs : object'[p].conn = object[p].conn
      BY <3>1, <3>2, ClearedTyped
    <3> QED BY <1>1, <3>1, <3>3 DEF ReadersLocated
  <2>4. CASE Leave(c)
    <3>1. /\ link[c].obj \in Objs /\ link' = ClosedLink(link[c].obj, c)
          /\ object' = Invalidated(link[c].obj, c)
      BY <2>4 DEF Leave, ReadersLocated
    <3> QED BY <1>2, <3>1
  <2>5. CASE Break(c)
    <3>1. /\ object' = object
          /\ \A e \in Conns : /\ link'[e].obj = link[e].obj
                              /\ link'[e].stage \in {"up", "down"} => link[e].stage \in {"up", "down"}
      BY <2>5 DEF Break, Types, Link
    <3> QED BY <1>1, <3>1
  <2> QED BY <1>6, <2>1, <2>2, <2>3, <2>4, <2>5 DEF ReaderStep
<1>7. CASE Close
  <2>1. CASE current = None
    BY <1>7, <2>1 DEF Close, ConnectionsKept
  <2>2. CASE current # None
    <3> DEFINE c == object[current].conn
    <3>1. /\ current \in Objs
          /\ object' = [object EXCEPT ![current].conn = None]
          /\ link' = IF c = None THEN link ELSE [link EXCEPT ![c].stage = "closed"]
      BY <1>7, <2>2 DEF Close, Types
    <3>2. c \in Conns \cup {None}
      BY <3>1 DEF Types, Object
    <3>3. \A p \in Objs : object'[p].conn = IF p = current THEN None ELSE object[p].conn
      BY <3>1 DEF Types, Object
    <3>4. \A d \in Conns : /\ link'[d].obj = link[d].obj
                           /\ link'[d].stage = IF d = c THEN "closed" ELSE link[d].stage
      <4> HIDE DEF c
      <4> QED BY <3>1, <3>2, SessionAssumption DEF Types, Link, SessionAssumption
    <3> QED BY <3>1, <3>3, <3>4 DEF ConnectionsKept, ReadersLocated
  <2> QED BY <2>1, <2>2
<1> QED BY <1>3, <1>4, <1>5, <1>6, <1>7 DEF Next

-----------------------------------------------------------------------------
LEMMA InitInv == SessionAssumption /\ Init => IInv
<1> SUFFICES ASSUME SessionAssumption, Init
             PROVE  IInv
  OBVIOUS
<1>1. object \in [Objs -> Object] /\ link \in [Conns -> Link]
  BY DEF Init, Object, Link
<1>2. reader \in [Conns -> Reader]
  BY DEF Init, Reader
<1>3. chan \in [Requests -> Channel] /\ QueuesBounded
  <2>1. <<>> \in Seq(Message) /\ Len(<<>>) = 0 /\ Buffer \in Nat
    BY DEF SessionAssumption
  <2> QED BY <2>1 DEF Init, Channel, QueuesBounded
<1>4. call \in [Requests -> Request]
  BY DEF Init, Request, Pcs, Outcomes
<1>5. Types
  BY <1>1, <1>2, <1>3, <1>4 DEF Init, Types
<1>6. RequestsLocated /\ ReadersLocated
  BY DEF Init, RequestsLocated, ReadersLocated
<1>7. Holders /\ ActiveHoldsLock /\ ConnectionsKept
  BY DEF Init, Holders, Inside, ActiveHoldsLock, ConnectionsKept
<1> QED BY <1>3, <1>5, <1>6, <1>7 DEF IInv, Typed, Located

LEMMA NextInv == SessionAssumption /\ IInv /\ [Next]_vars => IInv'
<1> SUFFICES ASSUME SessionAssumption, IInv, [Next]_vars
             PROVE  IInv'
  OBVIOUS
<1>1. CASE Next
  <2>1. Types /\ RequestsLocated /\ ReadersLocated /\ QueuesBounded
    BY DEF IInv, Typed, Located
  <2>2. Types' /\ QueuesBounded'
    BY <1>1, TypesStep, QueuesBoundedStep DEF IInv
  <2>3. RequestsLocated' /\ ReadersLocated'
    BY <1>1, <2>1, RequestsLocatedStep, ReadersLocatedStep
  <2>4. Holders' /\ ActiveHoldsLock' /\ ConnectionsKept'
    BY <1>1, <2>1, HoldersStep, ActiveStep, ConnectionsStep DEF IInv
  <2> QED BY <2>2, <2>3, <2>4 DEF IInv, Typed, Located
<1>2. CASE UNCHANGED vars
  BY <1>2 DEF vars, IInv, Typed, Types, Located, RequestsLocated, ReadersLocated, QueuesBounded,
              Holders, ActiveHoldsLock, ConnectionsKept
<1> QED BY <1>1, <1>2

LEMMA Invariant == Spec => []IInv
<1>1. SessionAssumption
  BY SessionAssumption
<1> QED BY <1>1, InitInv, NextInv, PTL DEF Spec

\* Every variable keeps its type, and no channel ever holds more than its
\* buffer, with any number of late readers (TypeOK).
THEOREM TypeCorrect == Spec => []TypeOK
<1>1. IInv => TypeOK
  <2> SUFFICES ASSUME IInv
               PROVE  TypeOK
    OBVIOUS
  <2>1. Types /\ QueuesBounded
    BY DEF IInv, Typed, Located
  <2>2. \A o \in Objs : /\ object[o].holder \in Requests \cup {None} /\ object[o].conn \in Conns \cup {None}
                        /\ object[o].active \in Requests \cup {None} /\ object[o].auth \in Auths \cup {None}
    BY <2>1 DEF Types, Object
  <2>3. \A c \in Conns : link[c].stage \in {"unused", "dialled", "up", "down", "closed"}
    BY <2>1 DEF Types, Link
  <2>4. \A c \in Conns : /\ reader[c].pc \in {"none", "reading", "delivering", "failing", "invalidating", "done"}
                         /\ reader[c].ch \in Requests \cup {None}
    BY <2>1 DEF Types, Reader
  <2>5. \A r \in Requests : call[r].got \subseteq Requests
    BY <2>1 DEF Types, Request
  <2>6. current \in Objs \cup {None} /\ closed \in BOOLEAN /\ panicked \in BOOLEAN
    BY <2>1 DEF Types
  <2> QED BY <2>1, <2>2, <2>3, <2>4, <2>5, <2>6 DEF TypeOK, QueuesBounded
<1> QED BY <1>1, Invariant, PTL

\* The active channel belongs to the request that has the lock, however requests,
\* readers and the closing of the session interleave (ActiveHoldsLock).
THEOREM TurnsKept == Spec => []ActiveHoldsLock
<1>1. IInv => ActiveHoldsLock
  BY DEF IInv
<1> QED BY <1>1, Invariant, PTL

\* The session never loses sight of an open connection (ConnectionsKept).
THEOREM ConnectionsNeverLost == Spec => []ConnectionsKept
<1>1. IInv => ConnectionsKept
  BY DEF IInv
<1> QED BY <1>1, Invariant, PTL

===============================================================================

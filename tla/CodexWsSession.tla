--------------------------- MODULE CodexWsSession ---------------------------
(***************************************************************************)
(* The upstream websocket of one execution session (internal/runtime/      *)
(* executor, codex_websocket*.go). Requests of the session take turns on   *)
(* reqMu and share one connection, which outlives them. Each connection    *)
(* has a reader goroutine that hands what it reads to whichever channel is *)
(* active. Requests, readers, the peer and the owner of the session (who   *)
(* closes it) run concurrently; one step is one critical section, one      *)
(* channel operation or one network operation.                             *)
(***************************************************************************)
EXTENDS Integers, Sequences, FiniteSets

CONSTANTS
  Requests,   (* Executor calls for the session id, the retries with another
                 credential included. Each makes one read channel.           *)
  Conns,      (* Upstream connections, each dialled once.                    *)
  Objs,       (* Session objects the id can stand for, one after another.    *)
  Auths,      (* Credentials.                                                *)
  Kinds,      (* "execute", "stream".                                        *)
  Refusals,   (* Answers other than 101 to the handshake: "status", "upgrade".
                 A dial can always fail with none: "plain".                  *)
  Buffer,     (* Slots of a read channel (4096 in the code).                 *)
  MaxDeltas,  (* Bound: events of one response before its last.              *)
  None

ASSUME SessionAssumption ==
  /\ IsFiniteSet(Requests) /\ IsFiniteSet(Conns) /\ IsFiniteSet(Objs)
  /\ Kinds \subseteq {"execute", "stream"}
  /\ Refusals \subseteq {"status", "upgrade"}
  /\ Buffer \in Nat \ {0} /\ MaxDeltas \in Nat
  /\ None \notin Requests \cup Conns \cup Objs \cup Auths

VARIABLES
  current,   (* e.sessions[id]: an object or None.                           *)
  closed,    (* The owner has closed the session.                            *)
  object,    (* [Objs -> used, reqMu, conn, auth of the conn, activeCh]      *)
  link,      (* [Conns -> the connection and what its peer still owes]       *)
  reader,    (* [Conns -> its readUpstreamLoop]                              *)
  chan,      (* [Requests -> the request's read channel]                     *)
  call,      (* [Requests -> the request]                                    *)
  panicked   (* A goroutine panicked. The process ends there.                *)

vars == <<current, closed, object, link, reader, chan, call, panicked>>

Event(r, t) == [of |-> r, type |-> t]

Init ==
  /\ current = None /\ closed = FALSE /\ panicked = FALSE
  /\ object = [o \in Objs |-> [used |-> FALSE, holder |-> None, conn |-> None, auth |-> None, active |-> None]]
  /\ link = [c \in Conns |-> [stage |-> "unused", obj |-> None, asked |-> <<>>, deltas |-> 0]]
  /\ reader = [c \in Conns |-> [pc |-> "none", ch |-> None, event |-> Event(None, "none")]]
  /\ chan = [r \in Requests |-> [queue |-> <<>>, closed |-> FALSE]]
  /\ call = [r \in Requests |-> [pc |-> "idle", kind |-> "none", auth |-> None, obj |-> None, conn |-> None,
                                 retrying |-> FALSE, cancelled |-> FALSE, got |-> {}, outcome |-> "none"]]

Obj(r)  == call[r].obj
Conn(r) == call[r].conn

-----------------------------------------------------------------------------
(* Operations on the session object. *)

\* Faulty variant: whatever connection the object has is dropped.
InvalidatedAny(o, c) == [object EXCEPT ![o].conn = None]

\* invalidateUpstreamConn: only the connection the object still has.
Invalidated(o, c) == [object EXCEPT ![o].conn = IF @ = c THEN None ELSE @]

\* ... and it is closed by the caller who took it out.
ClosedLink(o, c) == IF object[o].conn = c THEN [link EXCEPT ![c].stage = "closed"] ELSE link

\* clearActive: only the caller's own channel.
Cleared(obj, o, r) == [obj EXCEPT ![o].active = IF @ = r THEN None ELSE @]

Released(obj, o) == [obj EXCEPT ![o].holder = None]

-----------------------------------------------------------------------------
(* A request: Execute and ExecuteStream. *)

\* getOrCreateSession.
Call(r, k, a) ==
  /\ call[r].pc = "idle"
  /\ \E o \in Objs :
       /\ IF current # None THEN o = current ELSE ~object[o].used
       /\ current' = o
       /\ object' = [object EXCEPT ![o].used = TRUE]
       /\ call' = [call EXCEPT ![r].pc = "locking", ![r].kind = k, ![r].auth = a, ![r].obj = o]
  /\ UNCHANGED <<closed, link, reader, chan, panicked>>

\* reqMu.Lock does not look at the context.
Lock(r) ==
  /\ call[r].pc = "locking" /\ object[Obj(r)].holder = None
  /\ object' = [object EXCEPT ![Obj(r)].holder = r]
  /\ call' = [call EXCEPT ![r].pc = "ensuring"]
  /\ UNCHANGED <<current, closed, link, reader, chan, panicked>>

\* After ensureUpstreamConn: the channel is made before the first send only.
Ensured(r) == IF call[r].retrying THEN "sending" ELSE "activating"

\* ensureUpstreamConn takes the connection there is, whoever it was dialled for.
Ensure(r) ==
  LET c == object[Obj(r)].conn
  IN  /\ call[r].pc = "ensuring"
      /\ call' = [call EXCEPT ![r].pc = IF c = None THEN "dialling" ELSE Ensured(r), ![r].conn = c]
      /\ UNCHANGED <<current, closed, object, link, reader, chan, panicked>>

Dial(r, c) ==
  /\ call[r].pc = "dialling" /\ link[c].stage = "unused" /\ ~call[r].cancelled
  /\ link' = [link EXCEPT ![c].stage = "dialled"]
  /\ call' = [call EXCEPT ![r].pc = "installing", ![r].conn = c]
  /\ UNCHANGED <<current, closed, object, reader, chan, panicked>>

\* Faulty variant: a plain failure of the dial keeps the lock as well.
KeepsLockAlways(r, how) == call[r].kind = "stream" /\ ~call[r].retrying

\* ExecuteStream returns the answer to a refused handshake, or what the HTTP
\* executor gives instead, before it gets to reqMu.Unlock.
KeepsLock(r, how) == call[r].kind = "stream" /\ ~call[r].retrying /\ how # "plain"

DialFails(r, how) ==
  LET o == Obj(r)
  IN  /\ call[r].pc = "dialling"
      /\ object' = IF KeepsLock(r, how) THEN object ELSE Released(Cleared(object, o, r), o)
      /\ call' = [call EXCEPT ![r].pc = "done", ![r].outcome = IF how = "plain" THEN "unconnected" ELSE "refused"]
      /\ UNCHANGED <<current, closed, link, reader, chan, panicked>>

\* The dialled connection becomes the session's, whose reader starts, unless
\* there is one by now.
Install(r) ==
  LET o == Obj(r)  c == Conn(r)  other == object[o].conn
  IN  /\ call[r].pc = "installing"
      /\ call' = [call EXCEPT ![r].pc = Ensured(r), ![r].conn = IF other = None THEN c ELSE other]
      /\ IF other = None
         THEN /\ object' = [object EXCEPT ![o].conn = c, ![o].auth = call[r].auth]
              /\ link' = [link EXCEPT ![c].stage = "up", ![c].obj = o]
              /\ reader' = [reader EXCEPT ![c].pc = "reading"]
         ELSE /\ link' = [link EXCEPT ![c].stage = "closed"]
              /\ UNCHANGED <<object, reader>>
      /\ UNCHANGED <<current, closed, chan, panicked>>

\* setActive.
Activate(r) ==
  /\ call[r].pc = "activating"
  /\ object' = [object EXCEPT ![Obj(r)].active = r]
  /\ call' = [call EXCEPT ![r].pc = "sending"]
  /\ UNCHANGED <<current, closed, link, reader, chan, panicked>>

\* A write to a connection the peer has left may succeed, and is lost.
Sent(r) ==
  LET c == Conn(r)
  IN  /\ call[r].pc = "sending" /\ link[c].stage \in {"up", "down"}
      /\ link' = [link EXCEPT ![c].asked = IF link[c].stage = "up" THEN Append(@, r) ELSE @]
      /\ call' = [call EXCEPT ![r].pc = "reading"]
      /\ UNCHANGED <<current, closed, object, reader, chan, panicked>>

\* The first failure drops the connection and tries another one, the second
\* ends the request.
SendFails(r) ==
  LET o == Obj(r)  c == Conn(r)
  IN  /\ call[r].pc = "sending" /\ link[c].stage \in {"down", "closed"}
      /\ link' = ClosedLink(o, c)
      /\ IF call[r].retrying
         THEN /\ object' = Released(Cleared(Invalidated(o, c), o, r), o)
              /\ call' = [call EXCEPT ![r].pc = "done", ![r].outcome = "unsent"]
         ELSE /\ object' = Invalidated(o, c)
              /\ call' = [call EXCEPT ![r].pc = "ensuring", ![r].retrying = TRUE]
      /\ UNCHANGED <<current, closed, reader, chan, panicked>>

\* readCodexWebsocketMessage: messages of other connections are skipped.
Skip(r) ==
  /\ call[r].pc = "reading" /\ chan[r].queue # <<>> /\ Head(chan[r].queue).conn # Conn(r)
  /\ chan' = [chan EXCEPT ![r].queue = Tail(@)]
  /\ UNCHANGED <<current, closed, object, link, reader, call, panicked>>

End(r, outcome) == call' = [call EXCEPT ![r].pc = "ending", ![r].outcome = outcome]

Read(r) ==
  LET m == Head(chan[r].queue)
      o == Obj(r)
      c == Conn(r)
  IN  /\ call[r].pc = "reading" /\ chan[r].queue # <<>> /\ m.conn = c
      /\ chan' = [chan EXCEPT ![r].queue = Tail(@)]
      /\ call' = [call EXCEPT ![r].pc = IF m.event.type = "delta" THEN "reading" ELSE "ending",
                              ![r].got = IF m.event.type = "broken" THEN @ ELSE @ \cup {m.event.of},
                              ![r].outcome = IF m.event.type = "delta" THEN @ ELSE m.event.type]
      /\ object' = IF m.event.type = "failed" THEN Invalidated(o, c) ELSE object
      /\ link' = IF m.event.type = "failed" THEN ClosedLink(o, c) ELSE link
      /\ UNCHANGED <<current, closed, reader, panicked>>

ReadClosed(r) ==
  /\ call[r].pc = "reading" /\ chan[r].queue = <<>> /\ chan[r].closed
  /\ End(r, "channel closed")
  /\ UNCHANGED <<current, closed, object, link, reader, chan, panicked>>

\* The context is seen while waiting for an event or for the consumer.
ReadCancelled(r) ==
  /\ call[r].pc = "reading" /\ call[r].cancelled
  /\ End(r, "cancelled")
  /\ UNCHANGED <<current, closed, object, link, reader, chan, panicked>>

\* Faulty variant: the channel stays the active one.
FinishUncleared(r) ==
  /\ call[r].pc = "ending"
  /\ object' = Released(object, Obj(r))
  /\ call' = [call EXCEPT ![r].pc = "done"]
  /\ UNCHANGED <<current, closed, link, reader, chan, panicked>>

\* The deferred clearActive and Unlock.
Finish(r) ==
  /\ call[r].pc = "ending"
  /\ object' = Released(Cleared(object, Obj(r), r), Obj(r))
  /\ call' = [call EXCEPT ![r].pc = "done"]
  /\ UNCHANGED <<current, closed, link, reader, chan, panicked>>

\* The caller gives up.
Cancel(r) ==
  /\ call[r].pc \notin {"idle", "ending", "done"} /\ ~call[r].cancelled
  /\ call' = [call EXCEPT ![r].cancelled = TRUE]
  /\ UNCHANGED <<current, closed, object, link, reader, chan, panicked>>

-----------------------------------------------------------------------------
(* readUpstreamLoop. What a reader does to a captured channel uses the     *)
(* channel it captured, whatever is active by then.                        *)

\* The peer answers its requests in turn.
Answers(c) ==
  LET d == link[c].deltas
  IN  {[event |-> Event(Head(link[c].asked), "delta"), deltas |-> n] : n \in {d + 1} \cap 1..MaxDeltas}
      \cup {[event |-> Event(Head(link[c].asked), t), deltas |-> 0] : t \in {"completed", "failed"}}

\* A text message arrives, and the active channel is looked up.
Receive(c) ==
  /\ reader[c].pc = "reading" /\ link[c].stage = "up" /\ link[c].asked # <<>>
  /\ \E a \in Answers(c) :
       LET ch == object[link[c].obj].active
       IN  /\ link' = [link EXCEPT ![c].deltas = a.deltas,
                                   ![c].asked = IF a.event.type = "delta" THEN @ ELSE Tail(@)]
           /\ IF ch = None THEN UNCHANGED reader
              ELSE reader' = [reader EXCEPT ![c] = [pc |-> "delivering", ch |-> ch, event |-> a.event]]
  /\ UNCHANGED <<current, closed, object, chan, call, panicked>>

Sendable(r) == chan[r].closed \/ Len(chan[r].queue) < Buffer

\* Faulty variant: the message is queued even when the channel is full.
OfferedAlways(r, c, e) ==
  IF chan[r].closed THEN chan ELSE [chan EXCEPT ![r].queue = Append(@, [conn |-> c, event |-> e])]

Offered(r, c, e) ==
  IF chan[r].closed \/ Len(chan[r].queue) = Buffer THEN chan
  ELSE [chan EXCEPT ![r].queue = Append(@, [conn |-> c, event |-> e])]

\* Sending on a closed channel panics.
Deliver(c) ==
  LET ch == reader[c].ch
  IN  /\ reader[c].pc = "delivering" /\ Sendable(ch)
      /\ chan' = Offered(ch, c, reader[c].event)
      /\ panicked' = chan[ch].closed
      /\ reader' = [reader EXCEPT ![c].pc = "reading", ![c].ch = None]
      /\ UNCHANGED <<current, closed, object, link, call>>

\* <-done: the channel is no longer the active one.
GiveUp(c) ==
  /\ reader[c].pc = "delivering" /\ object[link[c].obj].active # reader[c].ch
  /\ reader' = [reader EXCEPT ![c].pc = "reading", ![c].ch = None]
  /\ UNCHANGED <<current, closed, object, link, chan, call, panicked>>

\* The connection ends, at the peer or by our Close, or says something that
\* ends it. The active channel is looked up.
ReadFails(c) ==
  LET ch == object[link[c].obj].active
  IN  /\ reader[c].pc = "reading" /\ link[c].stage \in {"down", "closed"}
      /\ reader' = [reader EXCEPT ![c].pc = IF ch = None THEN "invalidating" ELSE "failing", ![c].ch = ch]
      /\ UNCHANGED <<current, closed, object, link, chan, call, panicked>>

\* The error is offered, the channel cleared and closed. Closing a closed
\* channel panics.
FailActive(c) ==
  LET ch == reader[c].ch
  IN  /\ reader[c].pc = "failing"
      /\ panicked' = chan[ch].closed
      /\ chan' = [Offered(ch, c, Event(None, "broken")) EXCEPT ![ch].closed = TRUE]
      /\ object' = Cleared(object, link[c].obj, ch)
      /\ reader' = [reader EXCEPT ![c].pc = "invalidating", ![c].ch = None]
      /\ UNCHANGED <<current, closed, link, call>>

Leave(c) ==
  /\ reader[c].pc = "invalidating"
  /\ object' = Invalidated(link[c].obj, c)
  /\ link' = ClosedLink(link[c].obj, c)
  /\ reader' = [reader EXCEPT ![c].pc = "done"]
  /\ UNCHANGED <<current, closed, chan, call, panicked>>

\* The peer leaves, is silent for too long or sends a binary message.
Break(c) ==
  /\ link[c].stage = "up"
  /\ link' = [link EXCEPT ![c].stage = "down"]
  /\ UNCHANGED <<current, closed, object, reader, chan, call, panicked>>

-----------------------------------------------------------------------------
\* CloseExecutionSession: the id is forgotten, the object's connection closed.
Close ==
  /\ ~closed
  /\ closed' = TRUE /\ current' = None
  /\ IF current = None THEN UNCHANGED <<object, link>>
     ELSE LET c == object[current].conn
          IN  /\ object' = [object EXCEPT ![current].conn = None]
              /\ link' = IF c = None THEN link ELSE [link EXCEPT ![c].stage = "closed"]
  /\ UNCHANGED <<reader, chan, call, panicked>>

RequestStep(r) ==
  \/ Lock(r) \/ Ensure(r) \/ (\E c \in Conns : Dial(r, c)) \/ (\E how \in Refusals \cup {"plain"} : DialFails(r, how))
  \/ Install(r) \/ Activate(r) \/ Sent(r) \/ SendFails(r)
  \/ Skip(r) \/ Read(r) \/ ReadClosed(r) \/ ReadCancelled(r) \/ Finish(r)

ReaderStep(c) == Receive(c) \/ Deliver(c) \/ GiveUp(c) \/ ReadFails(c) \/ FailActive(c) \/ Leave(c)

Next ==
  /\ ~panicked
  /\ \/ \E r \in Requests : RequestStep(r) \/ Cancel(r) \/ \E k \in Kinds, a \in Auths : Call(r, k, a)
     \/ \E c \in Conns : ReaderStep(c) \/ Break(c)
     \/ Close

Spec == Init /\ [][Next]_vars

\* Go schedules every goroutine. The peer sends something within the idle
\* timeout, or the read deadline of readUpstreamLoop breaks the connection.
Runs(r) == ~panicked /\ RequestStep(r)
Served(c) == ~panicked /\ (ReaderStep(c) \/ Break(c))
FairSpec == Spec /\ (\A r \in Requests : WF_vars(Runs(r))) /\ (\A c \in Conns : WF_vars(Served(c)))

\* ... and no client waits for ever: it disconnects in the end.
GivesUp(r) == ~panicked /\ Cancel(r)
ImpatientSpec == FairSpec /\ \A r \in Requests : WF_vars(GivesUp(r))

-----------------------------------------------------------------------------
TypeOK ==
  /\ current \in Objs \cup {None} /\ closed \in BOOLEAN /\ panicked \in BOOLEAN
  /\ \A o \in Objs : /\ object[o].holder \in Requests \cup {None} /\ object[o].conn \in Conns \cup {None}
                     /\ object[o].active \in Requests \cup {None} /\ object[o].auth \in Auths \cup {None}
  /\ \A c \in Conns : /\ link[c].stage \in {"unused", "dialled", "up", "down", "closed"}
                      /\ reader[c].pc \in {"none", "reading", "delivering", "failing", "invalidating", "done"}
                      /\ reader[c].ch \in Requests \cup {None}
  /\ \A r \in Requests : Len(chan[r].queue) <= Buffer /\ call[r].got \subseteq Requests

\* The active channel is that of the request that has the lock: a request that
\* ends, in whichever way, takes its channel back before the next one may set
\* its own (setActive, clearActive, reqMu).
ActiveHoldsLock ==
  \A o \in Objs : object[o].active # None => object[o].holder = object[o].active

\* A connection that is installed is closed or still the session's: a reader, a
\* failed send or an upstream error that is late never makes the session lose
\* sight of the connection that replaced its own (invalidateUpstreamConn).
ConnectionsKept ==
  \A c \in Conns : link[c].stage \in {"up", "down"} => object[link[c].obj].conn = c

LockLost ==
  \E r \in Requests, o \in Objs : object[o].holder = r /\ call[r].pc = "done" /\ call[r].outcome = "refused"

\* A request whose client has given up ends, and so the lock comes round to all
\* who wait for it, unless a refused handshake has lost it (LockReleased).
CancelledEnd ==
  \A r \in Requests : call[r].cancelled ~> (call[r].pc = "done" \/ panicked \/ LockLost)

\* What the repository says, and the code does not do.

\* "preserves the existing CodexExecutor HTTP implementation as a fallback ...
\* for websocket upgrade failures" (codex_websockets_executor.go): a request
\* that is over does not keep the next one of its session out.
LockReleased ==
  \A r \in Requests, o \in Objs : call[r].pc = "done" => object[o].holder # r

\* "Retry once with a fresh websocket connection ... to handle upstream closing
\* the socket" (codex_websockets_execute.go): the loss of the old connection
\* does not end a request that has been sent on a new one.
RetryOutlivesOld ==
  \A r \in Requests : call[r].retrying /\ call[r].outcome = "channel closed" => link[Conn(r)].stage # "up"

\* The same comment: a request that was sent gets an answer or an error when
\* the upstream closes the socket between two requests.
SentIsSettled ==
  \A r \in Requests : (call[r].pc = "reading") ~> (call[r].pc # "reading" \/ panicked)

\* "streams response events back" (openai_responses_websocket.go): a request
\* gets the events of its own response, when no client has left.
OwnEvents ==
  (\A q \in Requests : ~call[q].cancelled) => \A r \in Requests : call[r].got \subseteq {r}

\* "upstream execution session closed" (openai_responses_websocket.go): once the
\* session is closed and its requests are over, no connection of it is open.
SessionReleased ==
  closed /\ (\A r \in Requests : call[r].pc \in {"idle", "done"})
    => \A c \in Conns : link[c].stage \notin {"up", "down"}

\* "Retry once with a new websocket connection for the same execution session"
\* (codex_websockets_stream.go): the readers of both may be there at once.
RetryDoesNotCrash == ~panicked

=============================================================================

----------------------- MODULE RequestExecutionProofs -----------------------
(***************************************************************************)
(* Proofs about RequestExecution, for any finite set of credentials and    *)
(* any settings: the bound on a request's upstream calls, what MarkResult  *)
(* learns of them, and what a client with bytes of a stream may rely on.   *)
(***************************************************************************)
EXTENDS RequestExecution, FiniteSetTheorems, WellFoundedInduction, TLAPS

Failures == Errors \cup {"empty"}

Req == [pc : {"idle", "picking", "calling", "bootstrap", "failed", "waiting", "returned"}, attempt : Nat,
        tried : SUBSET Auths, err : Errors \cup {"none", "unavailable", "cancelled"},
        auth : Auths \cup {"none"}, wait : 0..MaxWait, passed : BOOLEAN]
Wrap == [pc : {"off", "reading", "holding", "closed"}, chunk : Failures \cup {"none", "payload"},
         source : Failures \cup {"none", "upstream", "closed"}, payloads : 0..MaxPayloads]
Fwd == [pc : {"off", "reading", "retrying", "sending", "erred", "over"}, sentPayload : BOOLEAN,
        retries : 0..BootstrapRetries, outcome : {"none", "clean", "error", "refused", "cancelled"},
        headers : Nat, taken : Nat]
Client == [pc : {"idle", "asking", "peeking", "forwarding", "over"}, kind : Kinds \cup {"none"}, gone : BOOLEAN,
           told : {"nothing", "response", "done", "error"}, got : Nat, headers : Nat]

TypeInv ==
  /\ cooling \in [Auths -> 0..MaxCooling]
  /\ req \in Req
  /\ calls \in [made : Nat, auths : SUBSET Auths]
  /\ verdict \in [ok : Nat, bad : Nat]
  /\ wrap \in Wrap
  /\ fwd \in Fwd
  /\ errs \in BOOLEAN
  /\ conv \in {"off", "reading", "holding", "closed"}
  /\ client \in Client
  /\ panicked \in BOOLEAN

\* Of finitely many numbers one is the least and one the greatest.
LEMMA Extremes ==
  ASSUME NEW S, IsFiniteSet(S), NEW f \in [S -> Nat], S # {}
  PROVE  /\ \E x \in S : \A y \in S : f[x] <= f[y]
         /\ \E x \in S : \A y \in S : f[x] >= f[y]
<1> DEFINE Good(U) == (\E x \in U : \A y \in U : f[x] <= f[y]) /\ (\E x \in U : \A y \in U : f[x] >= f[y])
           Bad == {U \in SUBSET S : U # {} /\ ~Good(U)}
           F == FiniteSubsetsOf(S)
<1>1. Bad \subseteq F
  BY FS_Subset DEF FiniteSubsetsOf
<1>2. IsWellFoundedOn(StrictSubsetOrdering(S), F)
  BY FS_StrictSubsetOrderingWellFounded
<1>3. SUFFICES ASSUME Bad # {} PROVE FALSE
  BY <1>3
<1>4. PICK U \in Bad : \A V \in Bad : <<V, U>> \notin StrictSubsetOrdering(S)
  BY <1>1, <1>2, <1>3, WFMin
<1>5. U \subseteq S /\ U # {} /\ ~Good(U)
  BY <1>4
<1>6. PICK a \in U : TRUE
  BY <1>5
<1>7. CASE U = {a}
  <2>1. Good(U)
    BY <1>5, <1>7
  <2> QED BY <1>5, <2>1
<1>8. CASE U # {a}
  <2> DEFINE V == U \ {a}
  <2>1. V \subseteq S /\ V # {} /\ V \subseteq U /\ V # U
    BY <1>5, <1>6, <1>8
  <2>2. <<V, U>> \in StrictSubsetOrdering(S)
    BY <1>5, <2>1 DEF StrictSubsetOrdering
  <2>3. Good(V)
    BY <1>4, <2>1, <2>2
  <2>4. PICK m \in V, n \in V : (\A y \in V : f[m] <= f[y]) /\ (\A y \in V : f[n] >= f[y])
    BY <2>3
  <2>5. U = V \cup {a} /\ a \in S /\ m \in S /\ n \in S
    BY <1>5, <1>6, <2>1
  <2>6. \A y \in U : f[y] \in Nat
    BY <1>5
  <2>7. \E x \in U : \A y \in U : f[x] <= f[y]
    <3>1. CASE f[m] <= f[a]
      BY <2>4, <2>5, <2>6, <3>1
    <3>2. CASE f[a] <= f[m]
      BY <2>4, <2>5, <2>6, <3>2
    <3> QED BY <2>5, <3>1, <3>2
  <2>8. \E x \in U : \A y \in U : f[x] >= f[y]
    <3>1. CASE f[n] >= f[a]
      BY <2>4, <2>5, <2>6, <3>1
    <3>2. CASE f[a] >= f[n]
      BY <2>4, <2>5, <2>6, <3>2
    <3> QED BY <2>5, <3>1, <3>2
  <2> QED BY <1>5, <2>7, <2>8
<1> QED BY <1>7, <1>8

-----------------------------------------------------------------------------
(* Types. *)

\* A new round is a well-formed one.
LEMMA RoundTyped == \A n \in Nat : Round(n) \in Req
  BY SettingsAssumption DEF SettingsAssumption, Round, Req

\* Numbers that grow by one.
LEMMA Increments ==
  ASSUME TypeInv
  PROVE  /\ calls.made + 1 \in Nat /\ fwd.taken + 1 \in Nat /\ client.got + 1 \in Nat /\ req.attempt + 1 \in Nat
         /\ fwd.retries < BootstrapRetries => fwd.retries + 1 \in 0..BootstrapRetries
         /\ wrap.payloads < MaxPayloads => wrap.payloads + 1 \in 0..MaxPayloads
  BY SettingsAssumption DEF SettingsAssumption, TypeInv, Fwd, Client, Wrap, Req

\* The types hold at the start.
LEMMA TypeInit == Init => TypeInv
<1> SUFFICES ASSUME Init PROVE TypeInv
  OBVIOUS
<1>1. req \in Req
  <2>1. Round(0) \in Req
    BY RoundTyped
  <2> QED BY <2>1 DEF Init, Req
<1>2. wrap \in Wrap /\ fwd \in Fwd /\ client \in Client
  BY SettingsAssumption DEF SettingsAssumption, Init, Wrap, Fwd, Client
<1> QED BY <1>1, <1>2 DEF Init, TypeInv, NoVerdict

\* What is reported changes the credential's cooldown and counts.
LEMMA Marks ==
  ASSUME TypeInv
  PROVE  /\ \A e : MarkFailure(e) =>
               /\ cooling' \in [Auths -> 0..MaxCooling]
               /\ verdict' \in [ok : Nat, bad : Nat]
               /\ verdict'.ok = verdict.ok /\ verdict'.bad = verdict.bad + 1
         /\ MarkSuccess =>
               /\ cooling' \in [Auths -> 0..MaxCooling]
               /\ verdict' \in [ok : Nat, bad : Nat]
               /\ verdict'.ok = verdict.ok + 1 /\ verdict'.bad = verdict.bad
<1>1. verdict \in [ok : Nat, bad : Nat] /\ verdict.ok + 1 \in Nat /\ verdict.bad + 1 \in Nat
  BY DEF TypeInv
<1>2. MaxCooling \in Nat /\ 0 \in 0..MaxCooling /\ \A e : Cooldowns(e) \subseteq 0..MaxCooling
  BY SettingsAssumption DEF SettingsAssumption, Cooldowns
<1>3. ASSUME NEW e, MarkFailure(e)
      PROVE  /\ cooling' \in [Auths -> 0..MaxCooling]
             /\ verdict' \in [ok : Nat, bad : Nat]
             /\ verdict'.ok = verdict.ok /\ verdict'.bad = verdict.bad + 1
  <2>1. cooling' \in [Auths -> 0..MaxCooling]
    BY <1>2, <1>3 DEF MarkFailure, TypeInv
  <2>2. verdict' = [verdict EXCEPT !.bad = @ + 1]
    BY <1>3 DEF MarkFailure
  <2> QED BY <1>1, <2>1, <2>2
<1>4. ASSUME MarkSuccess
      PROVE  /\ cooling' \in [Auths -> 0..MaxCooling]
             /\ verdict' \in [ok : Nat, bad : Nat]
             /\ verdict'.ok = verdict.ok + 1 /\ verdict'.bad = verdict.bad
  <2>1. cooling' \in [Auths -> 0..MaxCooling]
    BY <1>2, <1>4 DEF MarkSuccess, TypeInv
  <2>2. verdict' = [verdict EXCEPT !.ok = @ + 1]
    BY <1>4 DEF MarkSuccess
  <2> QED BY <1>1, <2>1, <2>2
<1> QED BY <1>3, <1>4

\* The cooldown a round waits for, and how many rounds there can be.
LEMMA WaitBounds ==
  ASSUME TypeInv, ShouldRetry
  PROVE  /\ Min(Waits(req.attempt)) \in 0..MaxWait
         /\ \E b \in Auths : req.attempt < RetryOf[b]
<1> DEFINE U == {b \in Auths : req.attempt < RetryOf[b] /\ cooling[b] > 0}
           W == {cooling[a] : a \in U}
<1>1. W = Waits(req.attempt) /\ W # {} /\ Min(W) <= MaxWait
  BY DEF ShouldRetry, Waits
<1>2. U \subseteq Auths /\ U # {} /\ IsFiniteSet(U)
  <2>1. U \in SUBSET Auths /\ U # {}
    BY <1>1
  <2> QED BY <2>1, SettingsAssumption, FS_Subset DEF SettingsAssumption
<1>3. [a \in U |-> cooling[a]] \in [U -> Nat]
  BY SettingsAssumption, <1>2 DEF SettingsAssumption, TypeInv
<1>4. PICK x \in U : \A y \in U : [a \in U |-> cooling[a]][x] <= [a \in U |-> cooling[a]][y]
  BY <1>2, <1>3, Extremes
<1>5. \E v \in W : \A w \in W : v <= w
  BY <1>4
<1>6. Min(W) \in W
  BY <1>5 DEF Min
<1>7. Min(W) \in Nat
  BY <1>2, <1>3, <1>6, SettingsAssumption DEF TypeInv, SettingsAssumption
<1>8. Min(W) \in 0..MaxWait
  BY <1>1, <1>7, SettingsAssumption DEF SettingsAssumption
<1> QED BY <1>1, <1>2, <1>8

\* Every step keeps the types.
LEMMA TypeStep == TypeInv /\ [Next]_vars => TypeInv'
<1> SUFFICES ASSUME TypeInv, [Next]_vars PROVE TypeInv'
  OBVIOUS
<1>1. CASE CallFails
  <2>1. req' \in Req
    BY <1>1 DEF CallFails, Cancelled, Errors, Failures, TypeInv, Req
  <2>2. cooling' \in [Auths -> 0..MaxCooling]
    BY <1>1, Marks DEF CallFails, Cancelled, Errors, Failures, TypeInv
  <2>3. verdict' \in [ok : Nat, bad : Nat]
    BY <1>1, Marks DEF CallFails, Cancelled, Errors, Failures, TypeInv
  <2> QED BY <1>1, <2>1, <2>2, <2>3 DEF CallFails, TypeInv
<1>2. CASE CallReturns
  <2>1. req' \in Req
    BY <1>2 DEF CallReturns, TypeInv, Req
  <2>2. cooling' \in [Auths -> 0..MaxCooling]
    BY <1>2, Marks DEF CallReturns, TypeInv
  <2>3. verdict' \in [ok : Nat, bad : Nat]
    BY <1>2, Marks DEF CallReturns, TypeInv
  <2> QED BY <1>2, <2>1, <2>2, <2>3 DEF CallReturns, TypeInv
<1>3. CASE StreamOpens
  <2>1. req' \in Req
    <3>1. PICK p \in Passed : req' = [req EXCEPT !.pc = "bootstrap", !.passed = p]
      BY <1>3 DEF StreamOpens
    <3>2. p \in BOOLEAN
      BY <3>1, SettingsAssumption DEF SettingsAssumption
    <3> QED BY <3>1, <3>2 DEF TypeInv, Req
  <2> QED BY <1>3, <2>1 DEF StreamOpens, TypeInv
<1>4. CASE BootstrapPayload
  <2>1. req' \in Req
    BY <1>4 DEF BootstrapPayload, StreamStarts, TypeInv, Req
  <2>2. wrap' \in Wrap
    BY <1>4, SettingsAssumption DEF BootstrapPayload, StreamStarts, TypeInv, Wrap, SettingsAssumption
  <2> QED BY <1>4, <2>1, <2>2 DEF BootstrapPayload, StreamStarts, TypeInv
<1>5. CASE BootstrapError
  <2>1. req' \in Req
    BY <1>5 DEF BootstrapError, StreamStarts, Cancelled, Errors, Failures, TypeInv, Req
  <2>2. wrap' \in Wrap
    BY <1>5 DEF BootstrapError, StreamStarts, Cancelled, Errors, Failures, TypeInv, Wrap
  <2> QED BY <1>5, <2>1, <2>2 DEF BootstrapError, StreamStarts, TypeInv
<1>6. CASE BootstrapBlank
  <2>1. req' \in Req
    BY <1>6 DEF BootstrapBlank, StreamStarts, TypeInv, Req
  <2>2. wrap' \in Wrap
    BY <1>6 DEF BootstrapBlank, StreamStarts, TypeInv, Wrap
  <2> QED BY <1>6, <2>1, <2>2 DEF BootstrapBlank, StreamStarts, TypeInv
<1>7. CASE BootstrapEmpty
  <2>1. req' \in Req
    BY <1>7 DEF BootstrapEmpty, StreamStarts, Failures, TypeInv, Req
  <2>2. wrap' \in Wrap
    BY <1>7 DEF BootstrapEmpty, StreamStarts, Failures, TypeInv, Wrap
  <2>3. cooling' \in [Auths -> 0..MaxCooling]
    BY <1>7, Marks DEF BootstrapEmpty, StreamStarts, Failures, TypeInv
  <2>4. verdict' \in [ok : Nat, bad : Nat]
    BY <1>7, Marks DEF BootstrapEmpty, StreamStarts, Failures, TypeInv
  <2> QED BY <1>7, <2>1, <2>2, <2>3, <2>4 DEF BootstrapEmpty, StreamStarts, TypeInv
<1>8. CASE WrapPayload
  <2>1. wrap' \in Wrap
    BY <1>8, Increments DEF WrapPayload, TypeInv, Wrap
  <2> QED BY <1>8, <2>1 DEF WrapPayload, manager, TypeInv
<1>9. CASE WrapError
  <2>1. wrap' \in Wrap
    BY <1>9 DEF WrapError, Errors, Failures, TypeInv, Wrap
  <2>2. cooling' \in [Auths -> 0..MaxCooling]
    BY <1>9, Marks DEF WrapError, Errors, Failures, TypeInv
  <2>3. verdict' \in [ok : Nat, bad : Nat]
    BY <1>9, Marks DEF WrapError, Errors, Failures, TypeInv
  <2> QED BY <1>9, <2>1, <2>2, <2>3 DEF WrapError, TypeInv
<1>10. CASE WrapEnds
  <2>1. wrap' \in Wrap
    BY <1>10 DEF WrapEnds, TypeInv, Wrap
  <2>2. cooling' \in [Auths -> 0..MaxCooling]
    BY <1>10, Marks DEF WrapEnds, TypeInv
  <2>3. verdict' \in [ok : Nat, bad : Nat]
    BY <1>10, Marks DEF WrapEnds, TypeInv
  <2> QED BY <1>10, <2>1, <2>2, <2>3 DEF WrapEnds, TypeInv
<1>11. CASE Pick
  <2>1. req' \in Req
    <3>1. PICK a \in Pickable : req' = [req EXCEPT !.pc = "calling", !.auth = a, !.tried = @ \cup {a}]
      BY <1>11 DEF Pick
    <3>2. a \in Auths /\ req.tried \cup {a} \in SUBSET Auths
      BY <3>1 DEF Pickable, TypeInv, Req
    <3> QED BY <3>1, <3>2 DEF TypeInv, Req
  <2>2. calls' \in [made : Nat, auths : SUBSET Auths]
    BY <1>11 DEF Pick, Pickable, NoVerdict, TypeInv
  <2>3. verdict' \in [ok : Nat, bad : Nat]
    BY <1>11 DEF Pick, Pickable, NoVerdict, TypeInv
  <2> QED BY <1>11, <2>1, <2>2, <2>3 DEF Pick, TypeInv
<1>12. CASE PickFails
  <2>1. req' \in Req
    BY <1>12 DEF PickFails, TypeInv, Req
  <2> QED BY <1>12, <2>1 DEF PickFails, TypeInv
<1>13. CASE CallCancelled
  <2>1. req' \in Req
    BY <1>13 DEF CallCancelled, Cancelled, TypeInv, Req
  <2> QED BY <1>13, <2>1 DEF CallCancelled, TypeInv
<1>14. CASE WaitForCooldown
  <2>1. req' \in Req
    BY <1>14, SettingsAssumption, WaitBounds DEF WaitForCooldown, TypeInv, Req, SettingsAssumption
  <2> QED BY <1>14, <2>1 DEF WaitForCooldown, TypeInv
<1>15. CASE GiveUp
  <2>1. req' \in Req
    BY <1>15 DEF GiveUp, TypeInv, Req
  <2> QED BY <1>15, <2>1 DEF GiveUp, TypeInv
<1>16. CASE NextRound
  <2>1. req' \in Req
    BY <1>16, SettingsAssumption DEF NextRound, Round, TypeInv, Req, SettingsAssumption
  <2> QED BY <1>16, <2>1 DEF NextRound, TypeInv
<1>17. CASE WaitCancelled
  <2>1. req' \in Req
    BY <1>17, SettingsAssumption DEF WaitCancelled, Cancelled, TypeInv, Req, SettingsAssumption
  <2> QED BY <1>17, <2>1 DEF WaitCancelled, TypeInv
<1>18. CASE WrapGivesUp
  <2>1. wrap' \in Wrap
    BY <1>18 DEF WrapGivesUp, Cancelled, TypeInv, Wrap
  <2> QED BY <1>18, <2>1 DEF WrapGivesUp, manager, TypeInv
<1>19. CASE ReadPayload
  <2>1. wrap' \in Wrap
    BY <1>19, SettingsAssumption DEF ReadPayload, TypeInv, Wrap, SettingsAssumption
  <2>2. fwd' \in Fwd
    BY <1>19 DEF ReadPayload, TypeInv, Fwd
  <2> QED BY <1>19, <2>1, <2>2 DEF ReadPayload, manager, TypeInv
<1>20. CASE RefusePayload
  <2>1. wrap' \in Wrap
    BY <1>20, SettingsAssumption DEF RefusePayload, SendErr, Cancelled, TypeInv, Wrap, SettingsAssumption
  <2>2. fwd' \in Fwd
    BY <1>20 DEF RefusePayload, SendErr, Cancelled, TypeInv, Fwd
  <2>3. errs' \in BOOLEAN
    BY <1>20 DEF RefusePayload, SendErr, Cancelled, TypeInv
  <2> QED BY <1>20, <2>1, <2>2, <2>3 DEF RefusePayload, manager, TypeInv
<1>21. CASE ReadError
  <2>1. req' \in Req
    BY <1>21, RoundTyped DEF ReadError, TypeInv
  <2>2. wrap' \in Wrap
    BY <1>21, SettingsAssumption DEF ReadError, Round, SendErr, Cancelled, TypeInv, Wrap, SettingsAssumption
  <2>3. fwd' \in Fwd
    <3>1. CASE MayRetry(wrap.chunk)
      BY <1>21, <3>1, Increments DEF ReadError, MayRetry, TypeInv, Fwd
    <3>2. CASE ~MayRetry(wrap.chunk)
      BY <1>21, <3>2 DEF ReadError, SendErr, TypeInv, Fwd
    <3> QED BY <3>1, <3>2
  <2>4. errs' \in BOOLEAN
    BY <1>21 DEF ReadError, Round, SendErr, Cancelled, TypeInv
  <2> QED BY <1>21, <2>1, <2>2, <2>3, <2>4 DEF ReadError, TypeInv
<1>22. CASE ReadEnd
  <2>1. fwd' \in Fwd
    BY <1>22 DEF ReadEnd, Cancelled, TypeInv, Fwd
  <2> QED BY <1>22, <2>1 DEF ReadEnd, manager, TypeInv
<1>23. CASE RetryStarted
  <2>1. fwd' \in Fwd
    BY <1>23 DEF RetryStarted, TypeInv, Fwd
  <2>2. panicked' \in BOOLEAN
    BY <1>23 DEF RetryStarted, TypeInv
  <2> QED BY <1>23, <2>1, <2>2 DEF RetryStarted, manager, TypeInv
<1>24. CASE RetryFailed
  <2>1. fwd' \in Fwd
    BY <1>24 DEF RetryFailed, SendErr, Cancelled, TypeInv, Fwd
  <2>2. errs' \in BOOLEAN
    BY <1>24 DEF RetryFailed, SendErr, Cancelled, TypeInv
  <2> QED BY <1>24, <2>1, <2>2 DEF RetryFailed, manager, TypeInv
<1>25. CASE ForwardingCancelled
  <2>1. fwd' \in Fwd
    BY <1>25 DEF ForwardingCancelled, Cancelled, TypeInv, Fwd
  <2> QED BY <1>25, <2>1 DEF ForwardingCancelled, manager, TypeInv
<1>26. CASE CloseChannels
  <2>1. fwd' \in Fwd
    BY <1>26 DEF CloseChannels, TypeInv, Fwd
  <2> QED BY <1>26, <2>1 DEF CloseChannels, manager, TypeInv
<1>27. CASE Answered
  <2>1. client' \in Client
    BY <1>27 DEF Answered, Told, TypeInv, Client
  <2> QED BY <1>27, <2>1 DEF Answered, manager, TypeInv
<1>28. CASE StreamAnswered
  <2>1. fwd' \in Fwd
    BY <1>28 DEF StreamAnswered, TypeInv, Fwd
  <2>2. client' \in Client
    BY <1>28 DEF StreamAnswered, TypeInv, Client
  <2> QED BY <1>28, <2>1, <2>2 DEF StreamAnswered, manager, TypeInv
<1>29. CASE PeekChunk
  <2>1. fwd' \in Fwd
    BY <1>29, Increments DEF PeekChunk, TypeInv, Fwd
  <2>2. conv' \in {"off", "reading", "holding", "closed"}
    BY <1>29 DEF PeekChunk, TypeInv
  <2>3. client' \in Client
    <3>1. client.got + 1 \in Nat /\ fwd.headers \in Nat
      BY Increments DEF TypeInv, Fwd
    <3> QED BY <1>29, <3>1 DEF PeekChunk, TypeInv, Client
  <2> QED BY <1>29, <2>1, <2>2, <2>3 DEF PeekChunk, manager, TypeInv
<1>30. CASE PeekClosed
  <2>1. client' \in Client
    <3>1. fwd.headers \in Nat
      BY DEF TypeInv, Fwd
    <3>2. Told("done") \in Client
      BY DEF Told, TypeInv, Client
    <3>3. client' = [Told("done") EXCEPT !.headers = fwd.headers]
      BY <1>30 DEF PeekClosed
    <3> QED BY <3>1, <3>2, <3>3 DEF Client
  <2> QED BY <1>30, <2>1 DEF PeekClosed, manager, TypeInv
<1>31. CASE TakeError
  <2>1. errs' \in BOOLEAN
    BY <1>31 DEF TakeError, Told, TypeInv
  <2>2. client' \in Client
    BY <1>31 DEF TakeError, Told, TypeInv, Client
  <2> QED BY <1>31, <2>1, <2>2 DEF TakeError, manager, TypeInv
<1>32. CASE ForwardChunk
  <2>1. fwd' \in Fwd
    BY <1>32, Increments DEF ForwardChunk, ChunkReady, TypeInv, Fwd
  <2>2. conv' \in {"off", "reading", "holding", "closed"}
    BY <1>32 DEF ForwardChunk, ChunkReady, TypeInv
  <2>3. client' \in Client
    BY <1>32 DEF ForwardChunk, ChunkReady, TypeInv, Client
  <2> QED BY <1>32, <2>1, <2>2, <2>3 DEF ForwardChunk, manager, TypeInv
<1>33. CASE ForwardEnd
  <2>1. errs' \in BOOLEAN
    BY <1>33 DEF ForwardEnd, Told, DataClosed, TypeInv
  <2>2. client' \in Client
    BY <1>33 DEF ForwardEnd, Told, DataClosed, TypeInv, Client
  <2> QED BY <1>33, <2>1, <2>2 DEF ForwardEnd, manager, TypeInv
<1>34. CASE HandlerLeaves
  <2>1. client' \in Client
    BY <1>34 DEF HandlerLeaves, TypeInv, Client
  <2> QED BY <1>34, <2>1 DEF HandlerLeaves, manager, TypeInv
<1>35. CASE ConvertChunk
  <2>1. fwd' \in Fwd
    BY <1>35, Increments DEF ConvertChunk, TypeInv, Fwd
  <2>2. conv' \in {"off", "reading", "holding", "closed"}
    BY <1>35 DEF ConvertChunk, TypeInv
  <2> QED BY <1>35, <2>1, <2>2 DEF ConvertChunk, manager, TypeInv
<1>36. CASE ConverterEnds
  <2>1. conv' \in {"off", "reading", "holding", "closed"}
    BY <1>36 DEF ConverterEnds, TypeInv
  <2> QED BY <1>36, <2>1 DEF ConverterEnds, manager, TypeInv
<1>37. CASE Tick
  <2>1. req' \in Req
    BY <1>37, SettingsAssumption DEF Tick, Less, TypeInv, Req, SettingsAssumption
  <2>2. cooling' \in [Auths -> 0..MaxCooling]
    BY <1>37, SettingsAssumption DEF Tick, Less, TypeInv, SettingsAssumption
  <2> QED BY <1>37, <2>1, <2>2 DEF Tick, TypeInv
<1>38. CASE TickWaiting
  <2>1. req' \in Req
    BY <1>38, SettingsAssumption DEF TickWaiting, Less, TypeInv, Req, SettingsAssumption
  <2> QED BY <1>38, <2>1 DEF TickWaiting, TypeInv
<1>39. CASE Ask
  <2>1. req' \in Req
    BY <1>39, SettingsAssumption DEF Ask, Round, TypeInv, Req, SettingsAssumption
  <2>2. client' \in Client
    BY <1>39 DEF Ask, Round, TypeInv, Client
  <2> QED BY <1>39, <2>1, <2>2 DEF Ask, TypeInv
<1>40. CASE Disconnect
  <2>1. client' \in Client
    BY <1>40 DEF Disconnect, TypeInv, Client
  <2> QED BY <1>40, <2>1 DEF Disconnect, manager, TypeInv
<1>41. CASE OtherTraffic
  <2>1. cooling' \in [Auths -> 0..MaxCooling]
    BY <1>41, SettingsAssumption DEF OtherTraffic, TypeInv, SettingsAssumption
  <2> QED BY <1>41, <2>1 DEF OtherTraffic, TypeInv
<1>42. CASE UNCHANGED vars
  BY <1>42 DEF vars, TypeInv
<1> QED
  BY <1>1, <1>2, <1>3, <1>4, <1>5, <1>6, <1>7, <1>8, <1>9, <1>10, <1>11, <1>12, <1>13, <1>14, <1>15, <1>16,
     <1>17, <1>18, <1>19, <1>20, <1>21, <1>22, <1>23, <1>24, <1>25, <1>26, <1>27, <1>28, <1>29, <1>30,
     <1>31, <1>32, <1>33, <1>34, <1>35, <1>36, <1>37, <1>38, <1>39, <1>40, <1>41, <1>42 DEF Next, Upstream,
     ManagerStep, StreamStep, HandlerStep, Time

-----------------------------------------------------------------------------
(* Who waits for whom: the forwarding goroutine works on a stream that has *)
(* been opened, and starts another only while it has sent no payload.      *)

Flow ==
  /\ client.pc = "idle" => req.pc = "idle"
  /\ client.pc \in {"idle", "asking"} => fwd.pc = "off"
  /\ client.pc \in {"idle", "asking", "peeking"} => client.got = 0 /\ conv = "off"
  /\ client.told # "nothing" => client.pc = "over"
  /\ req.pc = "failed" => req.err # "none"
  /\ fwd.pc = "off" => ~fwd.sentPayload /\ fwd.outcome = "none" /\ fwd.retries = 0
  /\ fwd.pc \in {"reading", "sending"} => req.pc = "returned" /\ req.err = "none"
  /\ fwd.pc \in {"erred", "over"} => req.pc = "returned"
  /\ fwd.outcome # "none" => fwd.pc \in {"erred", "over"}
  /\ fwd.sentPayload => fwd.pc # "retrying"
  /\ client.got > 0 \/ fwd.pc = "sending" \/ conv = "holding" => fwd.sentPayload

\* No goroutine runs at the start.
LEMMA FlowInit == Init => Flow
  BY DEF Init, Flow

\* Every step keeps the goroutines of a request in phase.
LEMMA FlowStep == TypeInv /\ TypeInv' /\ Flow /\ [Next]_vars => Flow'
<1> SUFFICES ASSUME TypeInv, TypeInv', Flow, [Next]_vars PROVE Flow'
  OBVIOUS
<1>1. CASE CallFails
  BY <1>1 DEF Errors, CallFails, Cancelled, TypeInv, Flow, Req, Fwd, Client
<1>2. CASE CallReturns
  BY <1>2 DEF CallReturns, TypeInv, Flow, Req, Fwd, Client
<1>3. CASE StreamOpens
  BY <1>3 DEF StreamOpens, TypeInv, Flow, Req, Fwd, Client
<1>4. CASE BootstrapPayload
  BY <1>4 DEF BootstrapPayload, StreamStarts, TypeInv, Flow, Req, Fwd, Client
<1>5. CASE BootstrapError
  BY <1>5 DEF BootstrapError, StreamStarts, Cancelled, TypeInv, Flow, Req, Fwd, Client
<1>6. CASE BootstrapBlank
  BY <1>6 DEF BootstrapBlank, StreamStarts, TypeInv, Flow, Req, Fwd, Client
<1>7. CASE BootstrapEmpty
  BY <1>7 DEF BootstrapEmpty, StreamStarts, TypeInv, Flow, Req, Fwd, Client
<1>8. CASE Pick
  BY <1>8 DEF Pick, Pickable, TypeInv, Flow, Req, Fwd, Client
<1>9. CASE PickFails
  BY <1>9 DEF PickFails, TypeInv, Flow, Req, Fwd, Client
<1>10. CASE CallCancelled
  BY <1>10 DEF CallCancelled, Cancelled, TypeInv, Flow, Req, Fwd, Client
<1>11. CASE WaitForCooldown
  BY <1>11 DEF WaitForCooldown, TypeInv, Flow, Req, Fwd, Client
<1>12. CASE GiveUp
  BY <1>12 DEF GiveUp, TypeInv, Flow, Req, Fwd, Client
<1>13. CASE NextRound
  BY <1>13 DEF NextRound, Round, TypeInv, Flow, Req, Fwd, Client
<1>14. CASE WaitCancelled
  BY <1>14 DEF WaitCancelled, Cancelled, TypeInv, Flow, Req, Fwd, Client
<1>15. CASE ReadPayload
  BY <1>15 DEF ReadPayload, manager, TypeInv, Flow, Req, Fwd, Client
<1>16. CASE RefusePayload
  BY <1>16 DEF RefusePayload, SendErr, manager, Cancelled, TypeInv, Flow, Req, Fwd, Client
<1>17. CASE ReadError
  <2>1. CASE MayRetry(wrap.chunk)
    <3>1. fwd' = [fwd EXCEPT !.pc = "retrying", !.retries = @ + 1] /\ ~fwd.sentPayload /\ fwd.pc = "reading"
          /\ client' = client /\ conv' = conv /\ req' = Round(0)
      BY <1>17, <2>1 DEF ReadError, MayRetry
    <3> QED BY <3>1 DEF TypeInv, Flow, Fwd, Round
  <2>2. CASE ~MayRetry(wrap.chunk)
    <3>1. fwd' = [fwd EXCEPT !.pc = "erred", !.outcome = "error"] /\ fwd.pc = "reading"
          /\ client' = client /\ conv' = conv /\ req' = req
      BY <1>17, <2>2 DEF ReadError, SendErr
    <3> QED BY <3>1 DEF TypeInv, Flow, Fwd
  <2> QED BY <2>1, <2>2
<1>18. CASE ReadEnd
  BY <1>18 DEF ReadEnd, Cancelled, manager, TypeInv, Flow, Req, Fwd, Client
<1>19. CASE RetryStarted
  BY <1>19 DEF RetryStarted, manager, TypeInv, Flow, Req, Fwd, Client
<1>20. CASE RetryFailed
  BY <1>20 DEF RetryFailed, SendErr, manager, Cancelled, TypeInv, Flow, Req, Fwd, Client
<1>21. CASE ForwardingCancelled
  BY <1>21 DEF ForwardingCancelled, Cancelled, manager, TypeInv, Flow, Req, Fwd, Client
<1>22. CASE CloseChannels
  BY <1>22 DEF CloseChannels, manager, TypeInv, Flow, Req, Fwd, Client
<1>23. CASE Answered
  BY <1>23 DEF Answered, Told, manager, TypeInv, Flow, Req, Fwd, Client
<1>24. CASE StreamAnswered
  BY <1>24 DEF StreamAnswered, manager, TypeInv, Flow, Req, Fwd, Client
<1>25. CASE PeekChunk
  BY <1>25 DEF PeekChunk, manager, TypeInv, Flow, Req, Fwd, Client
<1>26. CASE PeekClosed
  BY <1>26 DEF PeekClosed, Told, manager, TypeInv, Flow, Req, Fwd, Client
<1>27. CASE TakeError
  BY <1>27 DEF TakeError, Told, manager, TypeInv, Flow, Req, Fwd, Client
<1>28. CASE ForwardChunk
  <2>1. client'.pc = "forwarding" /\ client'.told = client.told /\ client.pc = "forwarding" /\ req' = req
    BY <1>28 DEF ForwardChunk, manager, TypeInv, Client
  <2>2. CASE conv = "off"
    <3>1. fwd.pc = "sending" /\ conv' = conv /\ fwd' = [fwd EXCEPT !.pc = "reading", !.taken = @ + 1]
      BY <1>28, <2>2 DEF ForwardChunk, ChunkReady
    <3> QED BY <2>1, <2>2, <3>1 DEF TypeInv, Flow, Fwd
  <2>3. CASE conv # "off"
    <3>1. conv = "holding" /\ conv' = "reading" /\ fwd' = fwd
      BY <1>28, <2>3 DEF ForwardChunk, ChunkReady
    <3> QED BY <2>1, <3>1 DEF Flow
  <2> QED BY <2>2, <2>3
<1>29. CASE ForwardEnd
  BY <1>29 DEF ForwardEnd, Told, manager, DataClosed, TypeInv, Flow, Req, Fwd, Client
<1>30. CASE HandlerLeaves
  BY <1>30 DEF HandlerLeaves, manager, TypeInv, Flow, Req, Fwd, Client
<1>31. CASE ConvertChunk
  BY <1>31 DEF ConvertChunk, manager, TypeInv, Flow, Req, Fwd, Client
<1>32. CASE ConverterEnds
  BY <1>32 DEF ConverterEnds, manager, TypeInv, Flow, Req, Fwd, Client
<1>33. CASE Tick
  BY <1>33 DEF Tick, Less, TypeInv, Flow, Req, Fwd, Client
<1>34. CASE TickWaiting
  BY <1>34 DEF TickWaiting, Less, TypeInv, Flow, Req, Fwd, Client
<1>35. CASE Ask
  BY <1>35 DEF Ask, Round, TypeInv, Flow, Req, Fwd, Client
<1>36. CASE Disconnect
  BY <1>36 DEF Disconnect, manager, TypeInv, Flow, Req, Fwd, Client
<1>37. CASE UNCHANGED vars \/ WrapPayload \/ WrapError \/ WrapEnds \/ WrapGivesUp \/ OtherTraffic
  BY <1>37 DEF vars, manager, Cancelled, WrapPayload, WrapError, WrapEnds, WrapGivesUp, OtherTraffic, Flow,
     Req, Fwd, Client
<1> QED
  BY <1>1, <1>2, <1>3, <1>4, <1>5, <1>6, <1>7, <1>8, <1>9, <1>10, <1>11, <1>12, <1>13, <1>14, <1>15, <1>16,
     <1>17, <1>18, <1>19, <1>20, <1>21, <1>22, <1>23, <1>24, <1>25, <1>26, <1>27, <1>28, <1>29, <1>30,
     <1>31, <1>32, <1>33, <1>34, <1>35, <1>36, <1>37 DEF Next, Upstream, ManagerStep, StreamStep,
     HandlerStep, Time

-----------------------------------------------------------------------------
(* A failed stream has its error in the slot until the client is told.     *)

Late ==
  /\ fwd.outcome \in {"error", "refused"} /\ client.pc \in {"peeking", "forwarding"} /\ ~client.gone => errs
  /\ conv = "closed" /\ client.pc = "forwarding" => fwd.pc = "over"
  /\ client.told = "done" /\ client.got > 0 /\ ~client.gone =>
       fwd.pc = "over" /\ fwd.outcome \notin {"error", "refused"}

\* Nothing has been told at the start.
LEMMA LateInit == Init => Late
  BY DEF Init, Late

\* Every step keeps a late error in the channel the handler still reads.
LEMMA LateStep == TypeInv /\ TypeInv' /\ Flow /\ Late /\ [Next]_vars => Late'
<1> SUFFICES ASSUME TypeInv, TypeInv', Flow, Late, [Next]_vars PROVE Late'
  OBVIOUS
<1>1. CASE ReadPayload
  BY <1>1 DEF ReadPayload, manager, TypeInv, Late, Flow, Fwd, Client
<1>2. CASE RefusePayload
  BY <1>2 DEF RefusePayload, SendErr, manager, Cancelled, TypeInv, Late, Flow, Fwd, Client
<1>3. CASE ReadError
  BY <1>3 DEF ReadError, Round, SendErr, Cancelled, MayRetry, TypeInv, Late, Flow, Fwd, Client
<1>4. CASE ReadEnd
  BY <1>4 DEF ReadEnd, Cancelled, manager, TypeInv, Late, Flow, Fwd, Client
<1>5. CASE RetryStarted
  BY <1>5 DEF RetryStarted, manager, TypeInv, Late, Flow, Fwd, Client
<1>6. CASE RetryFailed
  BY <1>6 DEF RetryFailed, SendErr, manager, Cancelled, TypeInv, Late, Flow, Fwd, Client
<1>7. CASE ForwardingCancelled
  BY <1>7 DEF ForwardingCancelled, Cancelled, manager, TypeInv, Late, Flow, Fwd, Client
<1>8. CASE CloseChannels
  BY <1>8 DEF CloseChannels, manager, TypeInv, Late, Flow, Fwd, Client
<1>9. CASE Answered
  BY <1>9 DEF Answered, Told, manager, TypeInv, Late, Flow, Fwd, Client
<1>10. CASE StreamAnswered
  BY <1>10 DEF StreamAnswered, manager, TypeInv, Late, Flow, Fwd, Client
<1>11. CASE PeekChunk
  BY <1>11 DEF PeekChunk, manager, TypeInv, Late, Flow, Fwd, Client
<1>12. CASE PeekClosed
  BY <1>12 DEF PeekClosed, Told, manager, TypeInv, Late, Flow, Fwd, Client
<1>13. CASE TakeError
  BY <1>13 DEF TakeError, Told, manager, TypeInv, Late, Flow, Fwd, Client
<1>14. CASE ForwardChunk
  BY <1>14 DEF ForwardChunk, manager, ChunkReady, TypeInv, Late, Flow, Fwd, Client
<1>15. CASE ForwardEnd
  BY <1>15 DEF ForwardEnd, Told, manager, DataClosed, TypeInv, Late, Flow, Fwd, Client
<1>16. CASE HandlerLeaves
  BY <1>16 DEF HandlerLeaves, manager, TypeInv, Late, Flow, Fwd, Client
<1>17. CASE ConvertChunk
  BY <1>17 DEF ConvertChunk, manager, TypeInv, Late, Flow, Fwd, Client
<1>18. CASE ConverterEnds
  BY <1>18 DEF ConverterEnds, manager, TypeInv, Late, Flow, Fwd, Client
<1>19. CASE Ask
  BY <1>19 DEF Ask, Round, TypeInv, Late, Flow, Fwd, Client
<1>20. CASE Disconnect
  BY <1>20 DEF Disconnect, manager, TypeInv, Late, Flow, Fwd, Client
<1>21. CASE \/ UNCHANGED vars
            \/ CallFails \/ CallReturns \/ StreamOpens
            \/ BootstrapPayload \/ BootstrapError \/ BootstrapBlank \/ BootstrapEmpty
            \/ WrapPayload \/ WrapError \/ WrapEnds \/ WrapGivesUp
            \/ Pick \/ PickFails \/ CallCancelled \/ WaitForCooldown \/ GiveUp \/ NextRound \/ WaitCancelled
            \/ Tick \/ TickWaiting \/ OtherTraffic
  <2>1. UNCHANGED <<client, errs, conv, fwd>>
    BY <1>21 DEF vars, manager, StreamStarts, CallFails, CallReturns, StreamOpens, BootstrapPayload,
       BootstrapError, BootstrapBlank, BootstrapEmpty, WrapPayload, WrapError, WrapEnds, Pick, PickFails,
       CallCancelled, WaitForCooldown, GiveUp, NextRound, WaitCancelled, WrapGivesUp, Tick, TickWaiting,
       OtherTraffic
  <2> QED BY <2>1 DEF Late
<1> QED
  BY <1>1, <1>2, <1>3, <1>4, <1>5, <1>6, <1>7, <1>8, <1>9, <1>10, <1>11, <1>12, <1>13, <1>14, <1>15, <1>16,
     <1>17, <1>18, <1>19, <1>20, <1>21 DEF Next, Upstream, ManagerStep, StreamStep, HandlerStep, Time

-----------------------------------------------------------------------------
(* What has been reported of the latest call.                              *)

Nothing == verdict.ok = 0 /\ verdict.bad = 0
OneSuccess == verdict.ok = 1 /\ verdict.bad = 0
Opened == req.pc = "returned" /\ req.err = "none"

Reported ==
  /\ ~Opened => verdict.ok = 0 /\ wrap.pc \in {"off", "closed"}
  /\ req.pc \in {"calling", "bootstrap"} => Nothing
  /\ wrap.pc = "reading" => IF wrap.source = "empty" THEN verdict.ok = 0 /\ verdict.bad = 1 ELSE Nothing
  /\ wrap.pc = "holding" => IF wrap.chunk = "payload" THEN Nothing /\ wrap.source = "upstream" ELSE verdict.ok = 0
  /\ verdict.bad <= 2 /\ (verdict.ok > 0 => OneSuccess)
  /\ req.pc = "picking" /\ req.tried # {} /\ client.kind # "count" => verdict.bad > 0
  /\ wrap.pc = "closed" /\ Opened /\ client.kind = "stream" /\ fwd.pc \notin {"erred", "over"} =>
       OneSuccess \/ Cancelled
  /\ fwd.outcome = "clean" => OneSuccess /\ wrap.pc = "closed"
  /\ fwd.outcome = "error" => verdict.ok = 0 /\ wrap.pc \in {"off", "closed"}
  /\ req.pc = "bootstrap" \/ fwd.pc # "off" => client.kind = "stream"

\* Nothing has been reported at the start.
LEMMA ReportedInit == Init => Reported
  BY DEF Init, Reported, NoVerdict, Nothing, OneSuccess, Opened, Round

\* Every step keeps the count of reports in line with the calls.
LEMMA ReportedStep == TypeInv /\ TypeInv' /\ Flow /\ Flow' /\ Reported /\ [Next]_vars => Reported'
<1> SUFFICES ASSUME TypeInv, TypeInv', Flow, Flow', Reported, [Next]_vars PROVE Reported'
  OBVIOUS
<1> USE DEF Nothing, OneSuccess, Opened
<1>1. CASE CallFails
  BY <1>1, Marks DEF CallFails, Cancelled, Errors, TypeInv, Reported, Flow, Req, Wrap, Fwd, Client
<1>2. CASE CallReturns
  BY <1>2, Marks DEF CallReturns, TypeInv, Reported, Flow, Cancelled, Req, Wrap, Fwd, Client
<1>3. CASE StreamOpens
  BY <1>3 DEF StreamOpens, TypeInv, Reported, Flow, Cancelled, Req, Wrap, Fwd, Client
<1>4. CASE BootstrapPayload
  BY <1>4 DEF BootstrapPayload, StreamStarts, TypeInv, Reported, Flow, Cancelled, Req, Wrap, Fwd, Client
<1>5. CASE BootstrapError
  <2>1. PICK e \in Errors \ {"invalid"} : StreamStarts(e, "none")
    BY <1>5 DEF BootstrapError
  <2>2. wrap'.pc = "reading" /\ wrap'.source = e /\ e # "empty"
    BY <2>1 DEF StreamStarts, Errors
  <2>3. req'.pc = "returned" /\ req'.err = "none" /\ UNCHANGED <<fwd, client>>
    BY <2>1 DEF StreamStarts, TypeInv, Req
  <2>4. UNCHANGED verdict /\ req.pc = "bootstrap"
    BY <1>5 DEF BootstrapError
  <2> QED BY <2>2, <2>3, <2>4 DEF Reported, Flow, TypeInv
<1>6. CASE BootstrapBlank
  BY <1>6 DEF BootstrapBlank, StreamStarts, TypeInv, Reported, Flow, Cancelled, Req, Wrap, Fwd, Client
<1>7. CASE BootstrapEmpty
  BY <1>7, Marks DEF BootstrapEmpty, StreamStarts, TypeInv, Reported, Flow, Cancelled, Req, Wrap, Fwd, Client
<1>8. CASE WrapPayload
  BY <1>8 DEF WrapPayload, manager, TypeInv, Reported, Flow, Cancelled, Req, Wrap, Fwd, Client
<1>9. CASE WrapError
  <2>1. PICK e : MarkFailure(e) /\ wrap' = [wrap EXCEPT !.pc = "holding", !.chunk = e] /\ e # "payload"
    BY <1>9 DEF WrapError, Errors, Failures, TypeInv, Wrap
  <2>2. wrap'.pc = "holding" /\ wrap'.chunk = e /\ wrap.pc = "reading" /\ UNCHANGED <<req, fwd, client>>
    BY <1>9, <2>1 DEF WrapError, TypeInv, Wrap
  <2>3. verdict'.ok = verdict.ok /\ verdict'.bad = verdict.bad + 1
    BY <2>1, Marks
  <2> QED BY <2>1, <2>2, <2>3 DEF Reported, TypeInv
<1>10. CASE WrapEnds
  BY <1>10, Marks DEF WrapEnds, TypeInv, Reported, Flow, Cancelled, Req, Wrap, Fwd, Client
<1>11. CASE Pick
  BY <1>11 DEF Pick, NoVerdict, Pickable, TypeInv, Reported, Flow, Cancelled, Req, Wrap, Fwd, Client
<1>12. CASE PickFails
  BY <1>12 DEF PickFails, TypeInv, Reported, Flow, Cancelled, Req, Wrap, Fwd, Client
<1>13. CASE CallCancelled
  BY <1>13 DEF CallCancelled, Cancelled, TypeInv, Reported, Flow, Req, Wrap, Fwd, Client
<1>14. CASE WaitForCooldown
  BY <1>14 DEF WaitForCooldown, TypeInv, Reported, Flow, Cancelled, Req, Wrap, Fwd, Client
<1>15. CASE GiveUp
  BY <1>15 DEF GiveUp, TypeInv, Reported, Flow, Cancelled, Req, Wrap, Fwd, Client
<1>16. CASE NextRound
  BY <1>16 DEF NextRound, Round, TypeInv, Reported, Flow, Cancelled, Req, Wrap, Fwd, Client
<1>17. CASE WaitCancelled
  BY <1>17 DEF WaitCancelled, Cancelled, TypeInv, Reported, Flow, Req, Wrap, Fwd, Client
<1>18. CASE WrapGivesUp
  BY <1>18 DEF WrapGivesUp, Cancelled, manager, TypeInv, Reported, Flow, Req, Wrap, Fwd, Client
<1>19. CASE ReadPayload
  BY <1>19 DEF ReadPayload, manager, TypeInv, Reported, Flow, Cancelled, Req, Wrap, Fwd, Client
<1>20. CASE RefusePayload
  BY <1>20 DEF RefusePayload, SendErr, manager, Cancelled, TypeInv, Reported, Flow, Req, Wrap, Fwd, Client
<1>21. CASE ReadError
  <2>1. UNCHANGED <<verdict, client>> /\ wrap.pc = "holding" /\ wrap.chunk # "payload" /\ fwd.pc = "reading"
    BY <1>21 DEF ReadError
  <2>2. wrap'.pc = "closed"
    BY <1>21 DEF ReadError, TypeInv, Wrap
  <2>3. CASE MayRetry(wrap.chunk)
    <3>1. fwd'.pc = "retrying" /\ fwd'.outcome = fwd.outcome /\ req' = Round(0)
      BY <1>21, <2>3 DEF ReadError, TypeInv, Fwd
    <3> QED BY <2>1, <2>2, <3>1 DEF Reported, Round, Flow
  <2>4. CASE ~MayRetry(wrap.chunk)
    <3>1. fwd'.pc = "erred" /\ fwd'.outcome = "error" /\ req' = req
      BY <1>21, <2>4 DEF ReadError, SendErr, TypeInv, Fwd
    <3> QED BY <2>1, <2>2, <3>1 DEF Reported, Flow
  <2> QED BY <2>3, <2>4
<1>22. CASE ReadEnd
  BY <1>22 DEF ReadEnd, Cancelled, manager, TypeInv, Reported, Flow, Req, Wrap, Fwd, Client
<1>23. CASE RetryStarted
  BY <1>23 DEF RetryStarted, manager, TypeInv, Reported, Flow, Cancelled, Req, Wrap, Fwd, Client
<1>24. CASE RetryFailed
  BY <1>24 DEF RetryFailed, SendErr, manager, Cancelled, TypeInv, Reported, Flow, Req, Wrap, Fwd, Client
<1>25. CASE ForwardingCancelled
  BY <1>25 DEF ForwardingCancelled, Cancelled, manager, TypeInv, Reported, Flow, Req, Wrap, Fwd, Client
<1>26. CASE CloseChannels
  BY <1>26 DEF CloseChannels, manager, TypeInv, Reported, Flow, Cancelled, Req, Wrap, Fwd, Client
<1>27. CASE Answered
  BY <1>27 DEF Answered, Told, manager, TypeInv, Reported, Flow, Cancelled, Req, Wrap, Fwd, Client
<1>28. CASE StreamAnswered
  BY <1>28 DEF StreamAnswered, manager, TypeInv, Reported, Flow, Cancelled, Req, Wrap, Fwd, Client
<1>29. CASE PeekChunk
  BY <1>29 DEF PeekChunk, manager, TypeInv, Reported, Flow, Cancelled, Req, Wrap, Fwd, Client
<1>30. CASE PeekClosed
  BY <1>30 DEF PeekClosed, Told, manager, TypeInv, Reported, Flow, Cancelled, Req, Wrap, Fwd, Client
<1>31. CASE TakeError
  BY <1>31 DEF TakeError, Told, manager, TypeInv, Reported, Flow, Cancelled, Req, Wrap, Fwd, Client
<1>32. CASE ForwardChunk
  <2>1. UNCHANGED <<verdict, req, wrap>>
    BY <1>32 DEF ForwardChunk, manager
  <2>2. client'.pc = client.pc /\ client'.kind = client.kind /\ client'.gone = client.gone
    BY <1>32 DEF ForwardChunk, TypeInv, Client
  <2>3. fwd' = fwd \/ (fwd.pc = "sending" /\ fwd'.pc = "reading" /\ fwd'.outcome = fwd.outcome)
    BY <1>32 DEF ForwardChunk, ChunkReady, TypeInv, Fwd
  <2> QED BY <2>1, <2>2, <2>3 DEF Reported, Cancelled
<1>33. CASE ForwardEnd
  BY <1>33 DEF ForwardEnd, Told, manager, DataClosed, TypeInv, Reported, Flow, Cancelled, Req, Wrap, Fwd, Client
<1>34. CASE HandlerLeaves
  BY <1>34 DEF HandlerLeaves, manager, TypeInv, Reported, Flow, Cancelled, Req, Wrap, Fwd, Client
<1>35. CASE ConvertChunk
  BY <1>35 DEF ConvertChunk, manager, TypeInv, Reported, Flow, Cancelled, Req, Wrap, Fwd, Client
<1>36. CASE Tick
  BY <1>36 DEF Tick, Less, TypeInv, Reported, Flow, Cancelled, Req, Wrap, Fwd, Client
<1>37. CASE TickWaiting
  BY <1>37 DEF TickWaiting, Less, TypeInv, Reported, Flow, Cancelled, Req, Wrap, Fwd, Client
<1>38. CASE Ask
  BY <1>38 DEF Ask, Round, TypeInv, Reported, Flow, Cancelled, Req, Wrap, Fwd, Client
<1>39. CASE Disconnect
  BY <1>39 DEF Disconnect, manager, TypeInv, Reported, Flow, Cancelled, Req, Wrap, Fwd, Client
<1>40. CASE UNCHANGED vars \/ ConverterEnds \/ OtherTraffic
  BY <1>40 DEF vars, manager, Cancelled, ConverterEnds, OtherTraffic, Reported, Flow, Cancelled, Req, Wrap,
     Fwd, Client
<1> QED
  BY <1>1, <1>2, <1>3, <1>4, <1>5, <1>6, <1>7, <1>8, <1>9, <1>10, <1>11, <1>12, <1>13, <1>14, <1>15, <1>16,
     <1>17, <1>18, <1>19, <1>20, <1>21, <1>22, <1>23, <1>24, <1>25, <1>26, <1>27, <1>28, <1>29, <1>30,
     <1>31, <1>32, <1>33, <1>34, <1>35, <1>36, <1>37, <1>38, <1>39, <1>40 DEF Next, Upstream, ManagerStep,
     StreamStep, HandlerStep, Time

-----------------------------------------------------------------------------
(* Upstream calls.                                                         *)

PerStart == (1 + MaxRetry) * RoundLimit

Counted ==
  /\ calls.made <= fwd.retries * PerStart + req.attempt * RoundLimit + Cardinality(req.tried)
  /\ req.attempt <= MaxRetry /\ (req.pc = "waiting" => req.attempt < MaxRetry)
  /\ Cardinality(req.tried) <= RoundLimit
  /\ client.pc = "idle" => calls.made = 0

\* The limits are numbers, and a credential is tried at most RoundLimit times.
LEMMA Limits ==
  /\ MaxRetry \in Nat /\ \A a \in Auths : RetryOf[a] <= MaxRetry
  /\ RoundLimit \in Nat /\ PerStart \in Nat
  /\ RoundLimit <= Cardinality(Auths)
  /\ MaxRetryCredentials > 0 => RoundLimit <= MaxRetryCredentials
  /\ RoundLimit = Cardinality(Auths) \/ (MaxRetryCredentials > 0 /\ RoundLimit = MaxRetryCredentials)
<1>1. IsFiniteSet(Auths) /\ Auths # {} /\ RetryOf \in [Auths -> Nat] /\ MaxRetryCredentials \in Nat
  BY SettingsAssumption DEF SettingsAssumption
<1>2. MaxRetry \in Nat /\ \A a \in Auths : RetryOf[a] <= MaxRetry
  <2> DEFINE T == {RetryOf[a] : a \in Auths}
  <2>1. PICK x \in Auths : \A y \in Auths : RetryOf[x] >= RetryOf[y]
    BY <1>1, Extremes
  <2>2. \E v \in T : \A w \in T : v >= w
    BY <2>1
  <2>3. MaxRetry \in T /\ \A w \in T : MaxRetry >= w
    BY <2>2 DEF MaxRetry, Max
  <2> QED BY <1>1, <2>3
<1>3. Cardinality(Auths) \in Nat
  BY <1>1, FS_CardinalityType
<1>4. MaxRetryCredentials # 0 =>
        Min({Cardinality(Auths), MaxRetryCredentials}) \in {Cardinality(Auths), MaxRetryCredentials} /\
        \A v \in {Cardinality(Auths), MaxRetryCredentials} : Min({Cardinality(Auths), MaxRetryCredentials}) <= v
  <2> DEFINE T == {Cardinality(Auths), MaxRetryCredentials}
  <2>1. \E v \in T : \A w \in T : v <= w
    BY <1>1, <1>3
  <2> QED BY <2>1 DEF Min
<1>5. RoundLimit \in Nat /\ RoundLimit <= Cardinality(Auths)
      /\ (MaxRetryCredentials > 0 => RoundLimit <= MaxRetryCredentials)
      /\ (RoundLimit = Cardinality(Auths) \/ (MaxRetryCredentials > 0 /\ RoundLimit = MaxRetryCredentials))
  BY <1>1, <1>3, <1>4 DEF RoundLimit
<1>6. PerStart \in Nat
  BY <1>2, <1>5 DEF PerStart
<1> QED BY <1>2, <1>5, <1>6

\* No call has been made at the start.
LEMMA CountedInit == Init => Counted
<1> SUFFICES ASSUME Init PROVE Counted
  OBVIOUS
<1>1. req.tried = {} /\ req.attempt = 0 /\ req.pc = "idle" /\ calls.made = 0 /\ fwd.retries = 0
  BY DEF Init, Round
<1>2. Cardinality({}) = 0
  BY FS_EmptySet
<1> QED BY <1>1, <1>2, Limits DEF Counted

\* The numbers that Counted adds up.
LEMMA Numbers ==
  ASSUME TypeInv
  PROVE  /\ calls.made \in Nat /\ fwd.retries \in Nat /\ req.attempt \in Nat
         /\ IsFiniteSet(req.tried) /\ Cardinality(req.tried) \in Nat
         /\ fwd.retries * PerStart \in Nat /\ req.attempt * RoundLimit \in Nat
<1>1. calls.made \in Nat /\ fwd.retries \in Nat /\ req.attempt \in Nat /\ req.tried \in SUBSET Auths
  BY SettingsAssumption DEF SettingsAssumption, TypeInv, Fwd, Req
<1>2. IsFiniteSet(req.tried)
  BY <1>1, SettingsAssumption, FS_Subset DEF SettingsAssumption
<1>3. Cardinality(req.tried) \in Nat
  BY <1>2, FS_CardinalityType
<1> QED BY <1>1, <1>2, <1>3, Limits

\* A round that begins.
LEMMA RoundBegins ==
  ASSUME TypeInv, TypeInv', Counted, NEW n \in Nat, req' = Round(n), calls' = calls, n <= MaxRetry,
         client'.pc # "idle",
         calls.made <= fwd'.retries * PerStart + n * RoundLimit
  PROVE  Counted'
<1>1. req'.tried = {} /\ req'.attempt = n /\ req'.pc = "picking"
  BY DEF Round
<1>2. Cardinality({}) = 0
  BY FS_EmptySet
<1>3. fwd'.retries \in Nat /\ fwd'.retries * PerStart \in Nat /\ n * RoundLimit \in Nat
  BY SettingsAssumption, Limits DEF SettingsAssumption, TypeInv, Fwd
<1> QED BY <1>1, <1>2, <1>3, Limits DEF Counted

\* Every step spends a call only from the room its round and retry leave.
LEMMA CountedStep == TypeInv /\ TypeInv' /\ Flow /\ Counted /\ [Next]_vars => Counted'
<1> SUFFICES ASSUME TypeInv, TypeInv', Flow, Counted, [Next]_vars PROVE Counted'
  OBVIOUS
<1>1. CASE Pick
  <2>1. PICK a \in Pickable : req' = [req EXCEPT !.pc = "calling", !.auth = a, !.tried = @ \cup {a}]
                              /\ calls' = [made |-> calls.made + 1, auths |-> calls.auths \cup {a}]
    BY <1>1 DEF Pick
  <2>2. a \in Auths /\ a \notin req.tried /\ req.tried \cup {a} \in SUBSET Auths
    BY <2>1 DEF Pickable, TypeInv, Req
  <2>3. /\ req'.tried = req.tried \cup {a} /\ req'.attempt = req.attempt
        /\ req'.pc = "calling" /\ calls'.made = calls.made + 1
    BY <2>1 DEF TypeInv, Req
  <2>4. Cardinality(req'.tried) = Cardinality(req.tried) + 1
    BY <2>2, <2>3, Numbers, FS_AddElement
  <2>5. Cardinality(req'.tried) <= Cardinality(Auths)
    BY <2>2, <2>3, SettingsAssumption, FS_Subset DEF SettingsAssumption
  <2>6. MaxRetryCredentials > 0 => Cardinality(req.tried) < MaxRetryCredentials
    BY <1>1, Numbers, SettingsAssumption DEF Pick, LimitReached, SettingsAssumption
  <2>7. Cardinality(req'.tried) <= RoundLimit
    BY <2>4, <2>5, <2>6, Numbers, Limits, SettingsAssumption DEF SettingsAssumption
  <2>8. UNCHANGED <<fwd, client>> /\ client.pc # "idle"
    BY <1>1 DEF Pick, Flow
  <2> QED BY <2>3, <2>4, <2>7, <2>8, Numbers, Limits DEF Counted
<1>2. CASE NextRound
  <2>1. req' = Round(req.attempt + 1) /\ UNCHANGED <<calls, fwd,
     client>> /\ req.attempt < MaxRetry /\ client.pc # "idle"
    BY <1>2 DEF NextRound, Counted, Flow
  <2>2. req.attempt + 1 \in Nat /\ req.attempt + 1 <= MaxRetry
        /\ (req.attempt + 1) * RoundLimit = req.attempt * RoundLimit + RoundLimit
    BY <2>1, Numbers, Limits
  <2>3. calls.made <= fwd.retries * PerStart + (req.attempt + 1) * RoundLimit
    BY <2>2, Numbers, Limits DEF Counted
  <2> QED BY <2>1, <2>2, <2>3, RoundBegins
<1>3. CASE ReadError
  <2>1. UNCHANGED <<calls, client>> /\ client.pc # "idle" /\ fwd.pc = "reading"
    BY <1>3 DEF ReadError, Flow
  <2>2. CASE MayRetry(wrap.chunk)
    <3>1. req' = Round(0) /\ fwd'.retries = fwd.retries + 1
      BY <1>3, <2>2 DEF ReadError, TypeInv, Fwd
    <3>2. req.attempt * RoundLimit <= MaxRetry * RoundLimit
      BY Numbers, Limits DEF Counted
    <3>3. (fwd.retries + 1) * PerStart = fwd.retries * PerStart + PerStart
          /\ PerStart = RoundLimit + MaxRetry * RoundLimit /\ MaxRetry * RoundLimit \in Nat
      BY Numbers, Limits DEF PerStart
    <3>4. calls.made <= fwd'.retries * PerStart + 0 * RoundLimit
      BY <3>1, <3>2, <3>3, Numbers, Limits DEF Counted
    <3> QED BY <2>1, <3>1, <3>4, Limits, RoundBegins
  <2>3. CASE ~MayRetry(wrap.chunk)
    <3>1. req' = req /\ fwd'.retries = fwd.retries
      BY <1>3, <2>3 DEF ReadError, SendErr, TypeInv, Fwd
    <3> QED BY <2>1, <3>1 DEF Counted
  <2> QED BY <2>2, <2>3
<1>4. CASE Ask
  <2>1. req' = Round(0) /\ UNCHANGED <<calls, fwd>> /\ client'.pc # "idle" /\ calls.made = 0
    BY <1>4 DEF Ask, Counted, TypeInv, Client
  <2>2. calls.made <= fwd'.retries * PerStart + 0 * RoundLimit
    BY <2>1, Numbers, Limits
  <2> QED BY <2>1, <2>2, Limits, RoundBegins
<1>5. CASE WaitForCooldown
  <2>1. req'.attempt = req.attempt /\ req'.tried = req.tried /\ UNCHANGED <<calls, fwd, client>>
    BY <1>5 DEF WaitForCooldown, TypeInv, Req
  <2>2. PICK b \in Auths : req.attempt < RetryOf[b]
    BY <1>5, WaitBounds DEF WaitForCooldown
  <2>3. req.attempt < MaxRetry
    BY <2>2, Numbers, Limits, SettingsAssumption DEF SettingsAssumption
  <2> QED BY <2>1, <2>3 DEF Counted
<1>6. CASE CallFails
  BY <1>6 DEF CallFails, Cancelled, TypeInv, Counted, Req, Fwd, Client
<1>7. CASE CallReturns
  BY <1>7 DEF CallReturns, TypeInv, Counted, Req, Fwd, Client
<1>8. CASE StreamOpens
  BY <1>8 DEF StreamOpens, TypeInv, Counted, Req, Fwd, Client
<1>9. CASE BootstrapPayload
  BY <1>9 DEF BootstrapPayload, StreamStarts, TypeInv, Counted, Req, Fwd, Client
<1>10. CASE BootstrapError
  BY <1>10 DEF BootstrapError, StreamStarts, Cancelled, TypeInv, Counted, Req, Fwd, Client
<1>11. CASE BootstrapBlank
  BY <1>11 DEF BootstrapBlank, StreamStarts, TypeInv, Counted, Req, Fwd, Client
<1>12. CASE BootstrapEmpty
  BY <1>12 DEF BootstrapEmpty, StreamStarts, TypeInv, Counted, Req, Fwd, Client
<1>13. CASE PickFails
  BY <1>13 DEF PickFails, TypeInv, Counted, Req, Fwd, Client
<1>14. CASE CallCancelled
  BY <1>14 DEF CallCancelled, Cancelled, TypeInv, Counted, Req, Fwd, Client
<1>15. CASE GiveUp
  BY <1>15 DEF GiveUp, TypeInv, Counted, Req, Fwd, Client
<1>16. CASE WaitCancelled
  BY <1>16 DEF WaitCancelled, Cancelled, TypeInv, Counted, Req, Fwd, Client
<1>17. CASE ReadPayload
  BY <1>17 DEF ReadPayload, manager, TypeInv, Counted, Req, Fwd, Client
<1>18. CASE RefusePayload
  BY <1>18 DEF RefusePayload, SendErr, manager, Cancelled, TypeInv, Counted, Req, Fwd, Client
<1>19. CASE ReadEnd
  BY <1>19 DEF ReadEnd, Cancelled, manager, TypeInv, Counted, Req, Fwd, Client
<1>20. CASE RetryStarted
  BY <1>20 DEF RetryStarted, manager, TypeInv, Counted, Req, Fwd, Client
<1>21. CASE RetryFailed
  BY <1>21 DEF RetryFailed, SendErr, manager, Cancelled, TypeInv, Counted, Req, Fwd, Client
<1>22. CASE ForwardingCancelled
  BY <1>22 DEF ForwardingCancelled, Cancelled, manager, TypeInv, Counted, Req, Fwd, Client
<1>23. CASE CloseChannels
  BY <1>23 DEF CloseChannels, manager, TypeInv, Counted, Req, Fwd, Client
<1>24. CASE Answered
  BY <1>24 DEF Answered, Told, manager, TypeInv, Counted, Req, Fwd, Client
<1>25. CASE StreamAnswered
  BY <1>25 DEF StreamAnswered, manager, TypeInv, Counted, Req, Fwd, Client
<1>26. CASE PeekChunk
  BY <1>26 DEF PeekChunk, manager, TypeInv, Counted, Req, Fwd, Client
<1>27. CASE PeekClosed
  BY <1>27 DEF PeekClosed, Told, manager, TypeInv, Counted, Req, Fwd, Client
<1>28. CASE TakeError
  BY <1>28 DEF TakeError, Told, manager, TypeInv, Counted, Req, Fwd, Client
<1>29. CASE ForwardChunk
  <2>1. UNCHANGED <<calls, req>>
    BY <1>29 DEF ForwardChunk, manager
  <2>2. client'.pc = client.pc
    BY <1>29 DEF ForwardChunk, TypeInv, Client
  <2>3. fwd'.retries = fwd.retries
    BY <1>29 DEF ForwardChunk, TypeInv, Fwd
  <2> QED BY <2>1, <2>2, <2>3 DEF Counted
<1>30. CASE ForwardEnd
  BY <1>30 DEF ForwardEnd, Told, manager, DataClosed, TypeInv, Counted, Req, Fwd, Client
<1>31. CASE HandlerLeaves
  BY <1>31 DEF HandlerLeaves, manager, TypeInv, Counted, Req, Fwd, Client
<1>32. CASE ConvertChunk
  BY <1>32 DEF ConvertChunk, manager, TypeInv, Counted, Req, Fwd, Client
<1>33. CASE Tick
  BY <1>33 DEF Tick, Less, TypeInv, Counted, Req, Fwd, Client
<1>34. CASE TickWaiting
  BY <1>34 DEF TickWaiting, Less, TypeInv, Counted, Req, Fwd, Client
<1>35. CASE Disconnect
  BY <1>35 DEF Disconnect, manager, TypeInv, Counted, Req, Fwd, Client
<1>36. CASE UNCHANGED vars \/ WrapPayload \/ WrapError \/ WrapEnds \/ WrapGivesUp \/ ConverterEnds \/ OtherTraffic
  BY <1>36 DEF vars, manager, WrapPayload, WrapError, WrapEnds, WrapGivesUp, ConverterEnds, OtherTraffic,
     Counted
<1> QED
  BY <1>1, <1>2, <1>3, <1>4, <1>5, <1>6, <1>7, <1>8, <1>9, <1>10, <1>11, <1>12, <1>13, <1>14, <1>15, <1>16,
     <1>17, <1>18, <1>19, <1>20, <1>21, <1>22, <1>23, <1>24, <1>25, <1>26, <1>27, <1>28, <1>29, <1>30,
     <1>31, <1>32, <1>33, <1>34, <1>35, <1>36
  DEF Next, Upstream, ManagerStep, StreamStep, HandlerStep, Time

-----------------------------------------------------------------------------
Inv == TypeInv /\ Flow /\ Late /\ Reported /\ Counted

\* The five parts together are inductive.
THEOREM Inductive == Spec => []Inv
<1>1. Init => Inv
  BY TypeInit, FlowInit, LateInit, ReportedInit, CountedInit DEF Inv
<1>2. Inv /\ [Next]_vars => Inv'
  BY TypeStep, FlowStep, LateStep, ReportedStep, CountedStep DEF Inv
<1> QED BY <1>1, <1>2, PTL DEF Spec

\* The types hold, and a request makes at most (1 + request-retry) times the
\* credentials of a round times (1 + bootstrap-retries) upstream calls, for any
\* settings (Execute, executeMixedOnce, ExecuteStreamWithAuthManager).
THEOREM CallsAlwaysBounded == Spec => []CallsBounded
<1>1. Inv => CallsBounded
  <2> SUFFICES ASSUME Inv PROVE CallsBounded
    OBVIOUS
  <2>1. TypeOK
    <3>1. verdict.ok \in 0..2 /\ verdict.bad \in 0..2
      BY DEF Inv, TypeInv, Reported, OneSuccess
    <3>2. {errs, panicked} \subseteq BOOLEAN
      BY DEF Inv, TypeInv
    <3> QED BY <3>1, <3>2 DEF Inv, TypeInv, TypeOK, Req, Wrap, Fwd, Client
  <2>2. req.attempt * RoundLimit <= MaxRetry * RoundLimit
    BY Numbers, Limits DEF Inv, Counted
  <2>3. calls.made <= fwd.retries * PerStart + PerStart
    <3>1. PerStart = RoundLimit + MaxRetry * RoundLimit /\ MaxRetry * RoundLimit \in Nat
      BY Limits DEF PerStart
    <3> QED BY <2>2, <3>1, Numbers, Limits DEF Inv, Counted
  <2>4. fwd.retries <= BootstrapRetries /\ BootstrapRetries \in Nat
    BY SettingsAssumption DEF SettingsAssumption, Inv, TypeInv, Fwd
  <2>5. fwd.retries * PerStart + PerStart <= PerStart * (1 + BootstrapRetries)
    <3>1. fwd.retries * PerStart <= BootstrapRetries * PerStart
      BY <2>4, Numbers, Limits DEF Inv
    <3> QED BY <2>4, <3>1, Numbers, Limits DEF Inv
  <2>6. PerStart * (1 + BootstrapRetries) \in Nat
    BY <2>4, Limits
  <2>7. calls.made <= PerStart * (1 + BootstrapRetries)
    BY <2>3, <2>4, <2>5, <2>6, Numbers, Limits DEF Inv
  <2> QED BY <2>1, <2>7 DEF CallsBounded, PerStart
<1> QED BY <1>1, Inductive, PTL

\* What MarkResult learns of a call agrees with how it ended
\* (wrapStreamResult, executeMixedOnce).
THEOREM VerdictAlwaysMatches == Spec => []VerdictMatchesEnd
<1>1. Inv => VerdictMatchesEnd
  <2> SUFFICES ASSUME Inv PROVE VerdictMatchesEnd
    OBVIOUS
  <2>1. OneSuccess => verdict = [ok |-> 1, bad |-> 0]
    BY DEF OneSuccess, Inv, TypeInv
  <2> QED BY <2>1 DEF VerdictMatchesEnd, Inv, Reported
<1> QED BY <1>1, Inductive, PTL

\* A stream that failed after its first chunk is never closed as if it were
\* complete (ForwardStream).
THEOREM LateErrorsAlwaysTold == Spec => []LateErrorsTold
<1>1. Inv => LateErrorsTold
  BY DEF LateErrorsTold, Inv, Late
<1> QED BY <1>1, Inductive, PTL

\* Once the client has bytes of a stream, no other upstream call is made for it
\* (the sentPayload guard of ExecuteStreamWithAuthManager).
THEOREM NeverCallsAfterPayload == Spec => NoCallAfterPayload
<1>1. Inv /\ [Next]_vars => [client.got > 0 => calls'.made = calls.made]_vars
  <2> SUFFICES ASSUME Inv, Next, client.got > 0 PROVE calls'.made = calls.made
    BY DEF vars
  <2>1. req.pc # "picking"
    BY DEF Inv, Flow, TypeInv, Fwd
  <2>2. calls' = calls
    BY <2>1 DEF Next, Upstream, ManagerStep, StreamStep, HandlerStep, Time, manager, StreamStarts,
       CallFails, CallReturns, StreamOpens, BootstrapPayload, BootstrapError, BootstrapBlank,
       BootstrapEmpty, WrapPayload, WrapError, WrapEnds, Pick, PickFails,
       CallCancelled, WaitForCooldown, GiveUp, NextRound, WaitCancelled, WrapGivesUp,
       ReadPayload, RefusePayload, ReadError, ReadEnd, RetryStarted, RetryFailed,
       ForwardingCancelled, CloseChannels, Answered, StreamAnswered, PeekChunk, PeekClosed,
       TakeError, ForwardChunk, ForwardEnd, HandlerLeaves, ConvertChunk, ConverterEnds,
       Tick, TickWaiting, Ask, Disconnect, OtherTraffic
  <2> QED BY <2>2
<1> QED BY <1>1, Inductive, PTL DEF Spec, NoCallAfterPayload

=============================================================================

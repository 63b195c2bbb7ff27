---------------------------- MODULE WatcherProofs -----------------------------
(***************************************************************************)
(* Proofs about the way of a credential from the store to the manager, for *)
(* any credentials and contents of them.                                   *)
(*                                                                         *)
(* UpdateDispatch, with a channel of any size: what the manager holds once *)
(* everything has been delivered is what the watcher saw last, and every   *)
(* step of the dispatcher is a step of the feed it implements (UpdateFeed) *)
(* or none.                                                                *)
(*                                                                         *)
(* AuthSync, with any number of writers and of changes: a write publishes  *)
(* its own change and no other, and when nothing is under way the manager  *)
(* holds what the document says, of every credential that none of the      *)
(* named causes has parted. The lemmas about reloads serve both.           *)
(***************************************************************************)
EXTENDS UpdateDispatch, AuthSync, SequenceTheorems, WellFoundedInduction, FiniteSetTheorems, TLAPS

(* Numbers. *)

\* A set of numbers has a least one.
LEMMA LeastNumber ==
  ASSUME NEW T, T \subseteq Nat, T # {}
  PROVE  \E x \in T : \A y \in T : x <= y
<1>1. PICK x \in T : \A y \in T : <<y, x>> \notin OpToRel(<, Nat)
  BY NatLessThanWellFounded, WFMin
<1>2. ASSUME NEW y \in T PROVE x <= y
  <2>1. x \in Nat /\ y \in Nat /\ ~(y < x)
    BY <1>1, <1>2 DEF OpToRel
  <2> QED BY <2>1
<1> QED BY <1>1, <1>2

\* A set with 0 and every successor has all numbers.
LEMMA ClosedSet ==
  ASSUME NEW T, 0 \in T, \A n \in Nat : n \in T => n + 1 \in T
  PROVE  Nat \subseteq T
<1> SUFFICES ASSUME Nat \ T # {} PROVE FALSE
  OBVIOUS
<1>1. PICK x \in Nat \ T : \A y \in Nat \ T : x <= y
  BY LeastNumber
<1>2. x # 0 /\ x \in Nat
  BY <1>1
<1>3. x - 1 \in Nat /\ x = (x - 1) + 1 /\ ~(x <= x - 1)
  BY <1>2
<1>4. x - 1 \in T
  BY <1>1, <1>3
<1> QED BY <1>1, <1>3, <1>4

-----------------------------------------------------------------------------
(* What SentIn collects: it is a recursive function, shown to exist and then
   used by what it does at either end of a sequence. *)

\* Updates on their way.
Sent == [id : Ids, content : Content]
Mine(u, i) == IF u.id = i THEN <<u.content>> ELSE <<>>

\* f counts up what SentIn collects.
Collects(f, updates, i) ==
  /\ f \in [0..Len(updates) -> Seq(Content)]
  /\ f[0] = <<>>
  /\ \A n \in 1..Len(updates) : f[n] = f[n - 1] \o Mine(updates[n], i)

\* There is such a function.
LEMMA CollectsExists ==
  ASSUME NEW updates \in Seq(Sent), NEW i
  PROVE  \E f \in [0..Len(updates) -> Seq(Content)] : Collects(f, updates, i)
<1> DEFINE L == Len(updates)
           Up(f, k) == /\ f \in [0..k -> Seq(Content)] /\ f[0] = <<>>
                       /\ \A n \in 1..k : f[n] = f[n - 1] \o Mine(updates[n], i)
           T == {k \in Nat : k <= L => \E f \in [0..k -> Seq(Content)] : Up(f, k)}
<1>1. L \in Nat
  OBVIOUS
<1> HIDE DEF L
<1>2. 0 \in T
  <2> DEFINE f == [n \in 0..0 |-> <<>>]
  <2>1. <<>> \in Seq(Content)
    OBVIOUS
  <2>2. f \in [0..0 -> Seq(Content)] /\ f[0] = <<>>
    BY <2>1
  <2>3. 1..0 = {}
    OBVIOUS
  <2> HIDE DEF f
  <2>4. Up(f, 0)
    BY <2>2, <2>3
  <2> QED BY <2>2, <2>4
<1>3. ASSUME NEW k \in Nat, k \in T PROVE k + 1 \in T
  <2> SUFFICES ASSUME k + 1 <= L PROVE \E f \in [0..(k + 1) -> Seq(Content)] : Up(f, k + 1)
    <3> HIDE DEF Up
    <3> QED OBVIOUS
  <2>1. k <= L /\ k + 1 \in 1..L /\ k \in 0..k
    BY <1>1
  <2>2. PICK g \in [0..k -> Seq(Content)] : Up(g, k)
    <3> HIDE DEF Up
    <3> QED BY <1>3, <2>1
  <2> DEFINE x == g[k] \o Mine(updates[k + 1], i)
             f == [n \in 0..(k + 1) |-> IF n = k + 1 THEN x ELSE g[n]]
  <2>3. x \in Seq(Content)
    <3>1. updates[k + 1] \in Sent
      BY <2>1 DEF L
    <3>2. Mine(updates[k + 1], i) \in Seq(Content)
      BY <3>1 DEF Mine, Sent
    <3>3. g[k] \in Seq(Content)
      BY <2>1
    <3> QED BY <3>2, <3>3
  <2> HIDE DEF x
  <2>4. \A n \in 0..(k + 1) : n # k + 1 => n \in 0..k
    OBVIOUS
  <2>5. f \in [0..(k + 1) -> Seq(Content)]
    BY <2>3, <2>4
  <2>6. f[0] = <<>>
    BY <2>2
  <2>7. ASSUME NEW n \in 1..(k + 1) PROVE f[n] = f[n - 1] \o Mine(updates[n], i)
    <3>1. n \in 0..(k + 1) /\ n - 1 \in 0..k /\ n - 1 \in 0..(k + 1) /\ n - 1 # k + 1
      OBVIOUS
    <3>2. f[n - 1] = g[n - 1]
      BY <3>1
    <3>3. CASE n = k + 1
      <4>1. f[n] = x /\ n - 1 = k
        BY <3>1, <3>3
      <4> QED BY <3>2, <3>3, <4>1 DEF x
    <3>4. CASE n # k + 1
      <4>1. n \in 1..k
        BY <3>4
      <4>2. f[n] = g[n]
        BY <3>1, <3>4
      <4>3. g[n] = g[n - 1] \o Mine(updates[n], i)
        BY <2>2, <4>1
      <4> QED BY <3>2, <4>2, <4>3
    <3> QED BY <3>3, <3>4
  <2> HIDE DEF f
  <2>8. Up(f, k + 1)
    BY <2>5, <2>6, <2>7
  <2> HIDE DEF Up
  <2> QED BY <2>5, <2>8
<1>4. L \in T
  <2> HIDE DEF T
  <2> QED BY <1>1, <1>2, <1>3, ClosedSet
<1>5. PICK f \in [0..L -> Seq(Content)] : Up(f, L)
  <2> HIDE DEF Up
  <2> QED BY <1>1, <1>4
<1>6. Collects(f, updates, i)
  BY <1>5 DEF Collects, L
<1> QED BY <1>6 DEF L, Collects

\* Two functions agree from 1 to m.
SameTo(a, b, m) == \A n \in 1..m : a[n] = b[n]

\* They agree at every index that both have.
LEMMA CollectsAgree ==
  ASSUME NEW a \in Seq(Sent), NEW b \in Seq(Sent), NEW i, NEW f, NEW g, Collects(f, a, i), Collects(g, b, i),
         NEW m \in Nat, m <= Len(a), m <= Len(b), SameTo(a, b, m)
  PROVE  f[m] = g[m]
<1> DEFINE T == {k \in Nat : k <= m => f[k] = g[k]}
<1>1. Len(a) \in Nat /\ Len(b) \in Nat
  OBVIOUS
<1>2. 0 \in T
  BY DEF Collects
<1>3. ASSUME NEW k \in Nat, k \in T PROVE k + 1 \in T
  <2> SUFFICES ASSUME k + 1 <= m PROVE f[k + 1] = g[k + 1]
    OBVIOUS
  <2>1. k + 1 \in 1..Len(a) /\ k + 1 \in 1..Len(b) /\ k + 1 \in 1..m /\ k <= m /\ (k + 1) - 1 = k
    BY <1>1
  <2>2. f[k + 1] = f[(k + 1) - 1] \o Mine(a[k + 1], i)
    BY <2>1 DEF Collects
  <2>3. g[k + 1] = g[(k + 1) - 1] \o Mine(b[k + 1], i)
    BY <2>1 DEF Collects
  <2>4. f[k] = g[k] /\ a[k + 1] = b[k + 1]
    BY <1>3, <2>1 DEF SameTo
  <2> QED BY <2>1, <2>2, <2>3, <2>4
<1>4. m \in T
  <2> HIDE DEF T
  <2> QED BY <1>2, <1>3, ClosedSet
<1> QED BY <1>4

\* SentIn is what is collected to the end.
LEMMA SentCollected ==
  ASSUME NEW updates \in Seq(Sent), NEW i
  PROVE  \E f \in [0..Len(updates) -> Seq(Content)] : Collects(f, updates, i) /\ SentIn(updates, i) = f[Len(updates)]
<1> DEFINE L == Len(updates)
           F(f) == [n \in 0..L |-> IF n = 0 THEN <<>>
                                   ELSE IF updates[n].id = i THEN Append(f[n - 1], updates[n].content)
                                   ELSE f[n - 1]]
           h == CHOOSE f : f = F(f)
<1>1. SentIn(updates, i) = h[L]
  BY DEF SentIn
<1>2. L \in Nat
  OBVIOUS
<1>3. PICK g \in [0..L -> Seq(Content)] : Collects(g, updates, i)
  BY CollectsExists
<1>4. ASSUME NEW f \in [0..L -> Seq(Content)], NEW n \in 1..L
      PROVE  f[n - 1] \o Mine(updates[n], i)
               = IF updates[n].id = i THEN Append(f[n - 1], updates[n].content) ELSE f[n - 1]
  <2>1. n - 1 \in 0..L
    BY <1>2
  <2>2. f[n - 1] \in Seq(Content) /\ updates[n] \in Sent
    BY <2>1
  <2>3. updates[n].content \in Content
    BY <2>2 DEF Sent
  <2>4. f[n - 1] \o <<updates[n].content>> = Append(f[n - 1], updates[n].content)
    BY <2>2, <2>3
  <2>5. f[n - 1] \o <<>> = f[n - 1]
    BY <2>2
  <2> QED BY <2>4, <2>5 DEF Mine
<1>5. g = F(g)
  <2>1. ASSUME NEW n \in 0..L PROVE g[n] = F(g)[n]
    <3>1. CASE n = 0
      BY <1>3, <3>1 DEF Collects
    <3>2. CASE n # 0
      <4>1. n \in 1..L
        BY <3>2
      <4>2. g[n] = g[n - 1] \o Mine(updates[n], i)
        BY <1>3, <4>1 DEF Collects
      <4> QED BY <1>4, <3>2, <4>1, <4>2
    <3> QED BY <3>1, <3>2
  <2>2. g = [n \in 0..L |-> g[n]]
    OBVIOUS
  <2> QED BY <2>1, <2>2
<1>6. h = F(h)
  <2> HIDE DEF F
  <2> QED BY <1>5
<1>7. Collects(h, updates, i) /\ h \in [0..L -> Seq(Content)]
  <2> DEFINE T == {k \in Nat : k <= L => h[k] = g[k]}
  <2>1. \A n \in 0..L : h[n] = IF n = 0 THEN <<>>
                                   ELSE IF updates[n].id = i THEN Append(h[n - 1], updates[n].content)
                                   ELSE h[n - 1]
    <3> HIDE DEF h
    <3> QED BY <1>6
  <2>2. \A n \in 0..L : g[n] = IF n = 0 THEN <<>>
                                   ELSE IF updates[n].id = i THEN Append(g[n - 1], updates[n].content)
                                   ELSE g[n - 1]
    BY <1>5
  <2> HIDE DEF h
  <2>3. 0 \in T
    <3>1. 0 \in 0..L
      BY <1>2
    <3> QED BY <2>1, <2>2, <3>1
  <2>4. ASSUME NEW k \in Nat, k \in T PROVE k + 1 \in T
    <3> SUFFICES ASSUME k + 1 <= L PROVE h[k + 1] = g[k + 1]
      OBVIOUS
    <3>1. k + 1 \in 0..L /\ k + 1 # 0 /\ (k + 1) - 1 = k /\ h[k] = g[k]
      BY <1>2, <2>4
    <3>2. h[k + 1] = IF updates[k + 1].id = i THEN Append(h[k], updates[k + 1].content) ELSE h[k]
      BY <2>1, <3>1
    <3>3. g[k + 1] = IF updates[k + 1].id = i THEN Append(g[k], updates[k + 1].content) ELSE g[k]
      BY <2>2, <3>1
    <3> QED BY <3>1, <3>2, <3>3
  <2>5. Nat \subseteq T
    <3> HIDE DEF T
    <3> QED BY <2>3, <2>4, ClosedSet
  <2>6. \A n \in 0..L : h[n] = g[n]
    BY <1>2, <2>5
  <2>7. h = [n \in 0..L |-> g[n]]
    <3>1. h = [n \in 0..L |-> h[n]]
      BY <1>6
    <3> QED BY <2>6, <3>1
  <2>8. h = g
    BY <2>7
  <2> QED BY <1>3, <2>8
<1> HIDE DEF h
<1> QED BY <1>1, <1>7


\* What SentIn collects, from either end.
LEMMA SentEmpty == ASSUME NEW i PROVE SentIn(<<>>, i) = <<>>
<1>1. <<>> \in Seq(Sent) /\ Len(<<>>) = 0
  OBVIOUS
<1>2. PICK f \in [0..0 -> Seq(Content)] : Collects(f, <<>>, i) /\ SentIn(<<>>, i) = f[0]
  BY <1>1, SentCollected
<1> QED BY <1>2 DEF Collects

\* It collects contents.
LEMMA SentTyped ==
  ASSUME NEW updates \in Seq(Sent), NEW i PROVE SentIn(updates, i) \in Seq(Content)
<1>1. PICK f \in [0..Len(updates) -> Seq(Content)] :
        Collects(f, updates, i) /\ SentIn(updates, i) = f[Len(updates)]
  BY SentCollected
<1>2. Len(updates) \in 0..Len(updates)
  OBVIOUS
<1> QED BY <1>1, <1>2

\* One more update comes last.
LEMMA SentAppend ==
  ASSUME NEW updates \in Seq(Sent), NEW u \in Sent, NEW i
  PROVE  SentIn(Append(updates, u), i) = SentIn(updates, i) \o Mine(u, i)
<1> DEFINE all == Append(updates, u)
           L == Len(updates)
<1>1. /\ all \in Seq(Sent) /\ Len(all) = L + 1 /\ L \in Nat
      /\ all[L + 1] = u /\ \A n \in 1..L : all[n] = updates[n]
  OBVIOUS
<1> HIDE DEF all
<1>2. PICK f \in [0..L -> Seq(Content)] : Collects(f, updates, i) /\ SentIn(updates, i) = f[L]
  BY SentCollected
<1>3. PICK g \in [0..Len(all) -> Seq(Content)] : Collects(g, all, i) /\ SentIn(all, i) = g[Len(all)]
  BY <1>1, SentCollected
<1>4. g[L] = f[L]
  <2>1. L <= Len(all) /\ L <= Len(updates) /\ Collects(f, updates, i) /\ Collects(g, all, i)
    BY <1>1, <1>2, <1>3
  <2>2. SameTo(all, updates, L) /\ all \in Seq(Sent) /\ L \in Nat
    BY <1>1 DEF SameTo
  <2> HIDE DEF L
  <2> QED BY <2>1, <2>2, CollectsAgree
<1>5. L + 1 \in 1..Len(all) /\ (L + 1) - 1 = L
  BY <1>1
<1>6. g[L + 1] = g[L] \o Mine(u, i)
  <2>1. g[L + 1] = g[(L + 1) - 1] \o Mine(all[L + 1], i)
    BY <1>3, <1>5 DEF Collects
  <2> QED BY <1>1, <1>5, <2>1
<1> QED BY <1>1, <1>2, <1>3, <1>4, <1>6 DEF all

\* What one update adds is a sequence of contents.
LEMMA MineTyped == ASSUME NEW u \in Sent, NEW i PROVE Mine(u, i) \in Seq(Content)
BY DEF Mine, Sent

\* The first update's content comes first.
LEMMA SentTail ==
  ASSUME NEW updates \in Seq(Sent), updates # <<>>, NEW i
  PROVE  SentIn(updates, i) = Mine(Head(updates), i) \o SentIn(Tail(updates), i)
<1> DEFINE rest == Tail(updates)
           L == Len(rest)
           first == Mine(Head(updates), i)
<1>1. /\ rest \in Seq(Sent) /\ L \in Nat /\ Len(updates) = L + 1
      /\ Head(updates) = updates[1] /\ Head(updates) \in Sent
      /\ \A n \in 1..L : rest[n] = updates[n + 1]
  BY HeadTailProperties
<1> HIDE DEF rest
<1>2. PICK f \in [0..Len(updates) -> Seq(Content)] :
        Collects(f, updates, i) /\ SentIn(updates, i) = f[Len(updates)]
  BY SentCollected
<1>3. PICK g \in [0..L -> Seq(Content)] : Collects(g, rest, i) /\ SentIn(rest, i) = g[L]
  BY <1>1, SentCollected
<1>4. first \in Seq(Content)
  BY <1>1, MineTyped
<1>41. Mine(updates[1], i) = first
  BY <1>1
<1> HIDE DEF first
<1> DEFINE T == {k \in Nat : k <= L => f[k + 1] = first \o g[k]}
<1>5. 0 \in T
  <2>1. f[1] = f[0] \o Mine(updates[1], i)
    <3>1. 1 \in 1..Len(updates) /\ 1 - 1 = 0
      BY <1>1
    <3>2. f[1] = f[1 - 1] \o Mine(updates[1], i)
      BY <1>2, <3>1 DEF Collects
    <3> QED BY <3>1, <3>2
  <2>2. f[0] = <<>> /\ g[0] = <<>>
    BY <1>2, <1>3 DEF Collects
  <2>3. <<>> \o first = first /\ first \o <<>> = first
    BY <1>4
  <2>4. f[1] = first
    BY <1>41, <2>1, <2>2, <2>3
  <2> QED BY <2>2, <2>3, <2>4
<1>6. ASSUME NEW k \in Nat, k \in T PROVE k + 1 \in T
  <2> SUFFICES ASSUME k + 1 <= L PROVE f[(k + 1) + 1] = first \o g[k + 1]
    OBVIOUS
  <2>1. /\ k + 2 \in 1..Len(updates) /\ k + 1 \in 1..L /\ (k + 2) - 1 = k + 1 /\ (k + 1) + 1 = k + 2
        /\ (k + 1) - 1 = k /\ k \in 0..L /\ k <= L
    BY <1>1
  <2>2. f[k + 2] = f[(k + 2) - 1] \o Mine(updates[k + 2], i)
    BY <1>2, <2>1 DEF Collects
  <2>3. g[k + 1] = g[(k + 1) - 1] \o Mine(rest[k + 1], i)
    BY <1>3, <2>1 DEF Collects
  <2>4. rest[k + 1] = updates[k + 2]
    BY <1>1, <2>1
  <2>5. f[k + 1] = first \o g[k]
    BY <1>6, <2>1
  <2>6. g[k] \in Seq(Content)
    BY <2>1
  <2>7. Mine(rest[k + 1], i) \in Seq(Content)
    <3>1. rest[k + 1] \in Sent
      BY <1>1, <2>1
    <3> QED BY <3>1, MineTyped
  <2>8. (first \o g[k]) \o Mine(rest[k + 1], i) = first \o (g[k] \o Mine(rest[k + 1], i))
    <3> DEFINE a == g[k]
               b == Mine(rest[k + 1], i)
    <3>1. first \in Seq(Content) /\ a \in Seq(Content) /\ b \in Seq(Content)
      BY <1>4, <2>6, <2>7
    <3> HIDE DEF a, b
    <3>2. (first \o a) \o b = first \o (a \o b)
      BY <3>1, ConcatAssociative
    <3> QED BY <3>2 DEF a, b
  <2> QED BY <2>1, <2>2, <2>3, <2>4, <2>5, <2>8
<1>7. L \in T
  <2> HIDE DEF T
  <2> QED BY <1>1, <1>5, <1>6, ClosedSet
<1>8. SentIn(updates, i) = f[L + 1] /\ f[L + 1] = first \o g[L] /\ SentIn(rest, i) = g[L]
  BY <1>1, <1>2, <1>3, <1>7
<1>9. SentIn(updates, i) = first \o SentIn(rest, i)
  BY <1>8
<1> QED BY <1>9 DEF rest, first

-----------------------------------------------------------------------------
(* Sequences. *)

\* Sequences, put together and taken apart.
LEMMA Ends ==
  ASSUME NEW C, NEW s \in Seq(C), NEW u \in C
  PROVE  /\ s \o <<u>> = Append(s, u) /\ Append(s, u) \in Seq(C)
         /\ Append(s, u) # <<>> /\ Front(Append(s, u)) = s /\ Last(Append(s, u)) = u
<1>1. s \o <<u>> = Append(s, u) /\ Append(s, u) \in Seq(C) /\ Append(s, u) # <<>>
  OBVIOUS
<1>2. Len(Append(s, u)) = Len(s) + 1 /\ Len(s) \in Nat /\ Append(s, u)[Len(s) + 1] = u
      /\ \A n \in 1..Len(s) : Append(s, u)[n] = s[n]
  OBVIOUS
<1>3. Last(Append(s, u)) = u
  BY <1>2 DEF Last
<1>4. Front(Append(s, u)) = s
  <2> DEFINE f == SubSeq(Append(s, u), 1, Len(s))
  <2>1. Front(Append(s, u)) = f
    <3>1. (Len(s) + 1) - 1 = Len(s)
      BY <1>2
    <3> QED BY <1>2, <3>1 DEF Front
  <2>2. f \in Seq(C) /\ Len(f) = Len(s) /\ \A n \in 1..Len(s) : f[n] = Append(s, u)[n]
    BY <1>1, <1>2
  <2>3. f = s
    <3> HIDE DEF f
    <3> QED BY <1>2, <2>2
  <2> QED BY <2>1, <2>3
<1> QED BY <1>1, <1>3, <1>4

\* The first element of a sequence, and the last.
LEMMA First ==
  ASSUME NEW C, NEW s \in Seq(C), NEW u \in C
  PROVE  /\ <<u>> \o s # <<>> /\ Head(<<u>> \o s) = u /\ Tail(<<u>> \o s) = s
         /\ <<u>> \o s \in Seq(C) /\ (s # <<>> => Last(<<u>> \o s) = Last(s))
         /\ (s = <<>> => Last(<<u>> \o s) = u)
<1> DEFINE w == <<u>> \o s
<1>1. /\ w \in Seq(C) /\ Len(w) = 1 + Len(s) /\ w[1] = u /\ Len(s) \in Nat
      /\ \A n \in 1..Len(s) : w[n + 1] = s[n]
  OBVIOUS
<1> HIDE DEF w
<1>2. w # <<>> /\ Head(w) = u
  BY <1>1
<1>3. Tail(w) = s
  <2>1. /\ Tail(w) \in Seq(C) /\ Len(Tail(w)) = Len(w) - 1
        /\ \A n \in 1..Len(Tail(w)) : Tail(w)[n] = w[n + 1]
    BY <1>1, <1>2, HeadTailProperties
  <2> QED BY <1>1, <2>1
<1>4. s # <<>> => Last(w) = Last(s)
  <2> SUFFICES ASSUME s # <<>> PROVE w[Len(w)] = s[Len(s)]
    BY DEF Last
  <2>1. Len(s) \in 1..Len(s) /\ Len(w) = Len(s) + 1
    BY <1>1
  <2> QED BY <1>1, <2>1
<1>5. s = <<>> => Last(w) = u
  <2> SUFFICES ASSUME s = <<>> PROVE w[Len(w)] = u
    BY DEF Last
  <2>1. Len(s) = 0
    OBVIOUS
  <2> QED BY <1>1, <2>1
<1> QED BY <1>1, <1>2, <1>3, <1>4, <1>5 DEF w

\* An element is taken out of the middle.
LEMMA Dropped ==
  ASSUME NEW C, NEW s \in Seq(C), NEW u \in C, NEW t \in Seq(C)
  PROVE  /\ Len(s) + 1 \in DOMAIN ((s \o <<u>>) \o t)
         /\ RemoveAt((s \o <<u>>) \o t, Len(s) + 1) = s \o t
<1> DEFINE w == (s \o <<u>>) \o t
           L == Len(s)
           M == Len(t)
<1>1. /\ w \in Seq(C) /\ Len(w) = L + 1 + M /\ L \in Nat /\ M \in Nat
      /\ \A n \in 1..L : w[n] = s[n]
      /\ \A n \in 1..M : w[n + L + 1] = t[n]
  OBVIOUS
<1>2. /\ s \in [1..L -> C] /\ t \in [1..M -> C] /\ s \o t \in Seq(C) /\ Len(s \o t) = L + M
      /\ \A n \in 1..L : (s \o t)[n] = s[n]
      /\ \A n \in 1..M : (s \o t)[n + L] = t[n]
  OBVIOUS
<1> HIDE DEF w
<1> DEFINE a == SubSeq(w, 1, L)
           b == SubSeq(w, L + 2, L + 1 + M)
<1>3. RemoveAt(w, L + 1) = a \o b
  <2>1. (L + 1) - 1 = L /\ (L + 1) + 1 = L + 2
    BY <1>1
  <2> QED BY <1>1, <2>1 DEF RemoveAt
<1>4. a = s
  <2>1. a \in Seq(C) /\ Len(a) = L /\ \A n \in 1..L : a[n] = w[n]
    BY <1>1
  <2> HIDE DEF a
  <2> QED BY <1>1, <1>2, <2>1
<1>5. b = t
  <2>1. b \in Seq(C) /\ Len(b) = M
    BY <1>1
  <2>2. ASSUME NEW n \in 1..M PROVE b[n] = t[n]
    <3>1. b[n] = w[L + 2 + n - 1]
      BY <1>1
    <3>2. L + 2 + n - 1 = n + L + 1
      BY <1>1
    <3> QED BY <1>1, <3>1, <3>2
  <2> HIDE DEF b
  <2> QED BY <1>2, <2>1, <2>2
<1>6. L + 1 \in DOMAIN w
  BY <1>1
<1> QED BY <1>3, <1>4, <1>5, <1>6 DEF w

-----------------------------------------------------------------------------
(* What waits for a credential, and how each step of the delivery changes it. *)

\* An update of the batch or of the map, as a sequence.
One(u) == IF u = NoUpdate THEN <<>> ELSE <<u>>

\* The types of what follows a hand-over.
DeliveryOK ==
  /\ manager \in [Ids -> Content]
  /\ pending \in Updates /\ loop \in [runs : BOOLEAN, batch : Updates]
  /\ queue \in Seq(Sent) /\ Len(queue) <= QueueSize
  /\ consuming \in BOOLEAN

\* The type invariant has two parts.
LEMMA TypeParts == TypeOK <=> ReloadTypeOK /\ DeliveryOK
BY DEF TypeOK, DeliveryOK, Sent

\* The three places an update waits in.
LEMMA WaitingIs ==
  ASSUME NEW i PROVE Waiting(i) = (SentIn(queue, i) \o One(loop.batch[i])) \o One(pending[i])
BY DEF Waiting, One

\* One is a sequence of contents.
LEMMA OneTyped == ASSUME NEW u \in Content \cup {NoUpdate} PROVE One(u) \in Seq(Content)
BY DEF One

\* No content is taken for the absence of an update.
LEMMA NoUpdateIsNone == NoUpdate \notin Content
BY ReloadAssumption DEF Content

\* So are all three.
LEMMA PartsTyped ==
  ASSUME DeliveryOK, NEW i \in Ids
  PROVE  /\ SentIn(queue, i) \in Seq(Content) /\ One(loop.batch[i]) \in Seq(Content)
         /\ One(pending[i]) \in Seq(Content)
         /\ loop.batch[i] \in Content \cup {NoUpdate} /\ pending[i] \in Content \cup {NoUpdate}
         /\ Waiting(i) \in Seq(Content)
<1>1. SentIn(queue, i) \in Seq(Content)
  BY SentTyped DEF DeliveryOK
<1>2. loop.batch[i] \in Content \cup {NoUpdate} /\ pending[i] \in Content \cup {NoUpdate}
  BY DEF DeliveryOK, Updates
<1>3. One(loop.batch[i]) \in Seq(Content) /\ One(pending[i]) \in Seq(Content)
  BY <1>2, OneTyped
<1>4. (SentIn(queue, i) \o One(loop.batch[i])) \o One(pending[i]) \in Seq(Content)
  BY <1>1, <1>3
<1> QED BY <1>1, <1>2, <1>3, <1>4, WaitingIs

\* What the manager will hold of a credential once all that waits has been applied.
Final(i) == IF Waiting(i) = <<>> THEN manager[i] ELSE Last(Waiting(i))

\* Where the queue, the batch and the map stay, so does what waits.
LEMMA WaitingSame ==
  ASSUME UNCHANGED <<queue, loop, pending>>, NEW i PROVE Waiting(i)' = Waiting(i)
BY WaitingIs DEF Waiting

\* And what the manager will hold.
LEMMA FinalSame ==
  ASSUME UNCHANGED manager, NEW i, Waiting(i)' = Waiting(i) PROVE Final(i)' = Final(i)
BY DEF Final

\* dispatchAuthUpdates: what is handed over waits behind the rest, or replaces the last.
LEMMA DispatchHands ==
  ASSUME DeliveryOK, ReloadTypeOK, NEW r \in Reloaders, Dispatch(r), HasQueue, NEW i \in Ids
  PROVE  LET u == reload[r].updates[i]
         IN  /\ Waiting(i)' \in Feed!Joined(Waiting(i), u)
             /\ u = NoUpdate => Waiting(i)' = Waiting(i)
             /\ u # NoUpdate => Waiting(i)' # <<>> /\ Last(Waiting(i)') = u
<1> DEFINE u == reload[r].updates[i]
           s == SentIn(queue, i) \o One(loop.batch[i])
<1>1. /\ SentIn(queue, i) \in Seq(Content) /\ One(loop.batch[i]) \in Seq(Content)
      /\ pending[i] \in Content \cup {NoUpdate}
  BY PartsTyped
<1>2. s \in Seq(Content)
  BY <1>1
<1>3. u \in Content \cup {NoUpdate}
  BY DEF ReloadTypeOK, Updates
<1>4. pending'[i] = IF u = NoUpdate THEN pending[i] ELSE u
  BY DEF Dispatch, Merged
<1>5. Waiting(i) = s \o One(pending[i])
  BY WaitingIs
<1>6. Waiting(i)' = s \o One(pending'[i])
  <2>1. UNCHANGED <<queue, loop>>
    BY DEF Dispatch
  <2> QED BY <2>1 DEF Waiting, One
<1> HIDE DEF s, u
<1>7. CASE u = NoUpdate
  BY <1>4, <1>5, <1>6, <1>7 DEF Feed!Joined, u
<1>8. CASE u # NoUpdate
  <2>1. u \in Content /\ pending'[i] = u
    BY <1>3, <1>4, <1>8
  <2>2. Waiting(i)' = Append(s, u) /\ Waiting(i)' # <<>> /\ Last(Waiting(i)') = u
    <3>1. One(pending'[i]) = <<u>>
      BY <1>8, <2>1 DEF One
    <3>2. s \o <<u>> = Append(s, u) /\ Append(s, u) # <<>> /\ Last(Append(s, u)) = u
      BY <1>2, <2>1, Ends
    <3> QED BY <1>6, <3>1, <3>2
  <2>3. CASE pending[i] = NoUpdate
    <3>1. Waiting(i) = s
      BY <1>2, <1>5, <2>3 DEF One
    <3> QED BY <1>8, <2>2, <3>1 DEF Feed!Joined, u
  <2>4. CASE pending[i] # NoUpdate
    <3>1. pending[i] \in Content
      BY <1>1, <2>4
    <3> DEFINE c == pending[i]
    <3>2. Waiting(i) = s \o <<c>>
      BY <1>5, <2>4 DEF One
    <3> HIDE DEF c
    <3>3. s \o <<c>> = Append(s, c) /\ Append(s, c) # <<>> /\ Front(Append(s, c)) = s
      BY <1>2, <3>1, Ends DEF c
    <3>4. Waiting(i) # <<>> /\ Front(Waiting(i)) = s
      BY <3>2, <3>3
    <3>5. Feed!Front(Waiting(i)) = Front(Waiting(i))
      BY DEF Feed!Front, Front
    <3> QED BY <1>8, <2>2, <3>4, <3>5 DEF Feed!Joined, u
  <2> QED BY <2>3, <2>4
<1> QED BY <1>7, <1>8

\* A hand-over keeps the types of what follows it.
LEMMA DispatchTyped ==
  ASSUME DeliveryOK, ReloadTypeOK, NEW r \in Reloaders, Dispatch(r) PROVE DeliveryOK'
<1>1. reload[r].updates \in Updates
  BY DEF ReloadTypeOK
<1>2. Merged(reload[r].updates) \in Updates
  BY <1>1 DEF Merged, Updates, DeliveryOK
<1>3. pending' \in Updates
  BY <1>2 DEF Dispatch, DeliveryOK
<1> QED BY <1>3 DEF Dispatch, DeliveryOK

\* nextPendingBatch: the map becomes the batch.
LEMMA TakeBatchKeeps ==
  ASSUME DeliveryOK, TakeBatch
  PROVE  DeliveryOK' /\ \A i \in Ids : Waiting(i)' = Waiting(i)
<1>1. loop' = [runs |-> loop.runs, batch |-> pending] /\ pending' = Nothing /\ UNCHANGED <<queue, manager, consuming>>
  BY DEF TakeBatch, DeliveryOK
<1>2. Nothing \in Updates
  BY DEF Nothing, Updates
<1>3. DeliveryOK'
  BY <1>1, <1>2 DEF DeliveryOK
<1>4. ASSUME NEW i \in Ids PROVE Waiting(i)' = Waiting(i)
  <2> DEFINE s == SentIn(queue, i)
             p == One(pending[i])
  <2>1. s \in Seq(Content) /\ p \in Seq(Content)
    BY PartsTyped
  <2>2. One(loop.batch[i]) = <<>> /\ One(pending'[i]) = <<>> /\ One(loop'.batch[i]) = p
    BY <1>1 DEF TakeBatch, Nothing, One
  <2>3. Waiting(i) = (s \o One(loop.batch[i])) \o p
    BY WaitingIs
  <2>4. Waiting(i)' = (s \o One(loop'.batch[i])) \o One(pending'[i])
    BY <1>1 DEF Waiting, One
  <2> HIDE DEF s, p
  <2>5. (s \o <<>>) \o p = s \o p /\ (s \o p) \o <<>> = s \o p
    BY <2>1
  <2> QED BY <2>2, <2>3, <2>4, <2>5
<1> QED BY <1>3, <1>4

\* A send moves an update from the batch to the end of the channel.
LEMMA SendKeeps ==
  ASSUME DeliveryOK, NEW j \in Ids, Send(j)
  PROVE  DeliveryOK' /\ \A i \in Ids : Waiting(i)' = Waiting(i)
<1> DEFINE c == loop.batch[j]
           m == [id |-> j, content |-> c]
<1>1. /\ loop' = [runs |-> loop.runs, batch |-> [loop.batch EXCEPT ![j] = NoUpdate]]
      /\ queue' = Append(queue, m) /\ UNCHANGED <<pending, manager, consuming>>
      /\ c # NoUpdate /\ Len(queue) < QueueSize
  BY DEF Send, DeliveryOK
<1>2. c \in Content /\ m \in Sent
  BY <1>1, PartsTyped DEF Sent
<1>3. DeliveryOK'
  <2>1. loop.batch \in Updates /\ loop.runs \in BOOLEAN
    BY DEF DeliveryOK
  <2>2. [loop.batch EXCEPT ![j] = NoUpdate] \in Updates
    BY <2>1 DEF Updates
  <2>3. queue' \in Seq(Sent) /\ Len(queue') <= QueueSize
    <3> HIDE DEF m
    <3>1. queue \in Seq(Sent) /\ QueueSize \in Nat
      BY DispatchAssumption DEF DeliveryOK
    <3> QED BY <1>1, <1>2, <3>1
  <2> QED BY <1>1, <2>1, <2>2, <2>3 DEF DeliveryOK
<1>4. ASSUME NEW i \in Ids PROVE Waiting(i)' = Waiting(i)
  <2> DEFINE s == SentIn(queue, i)
             p == One(pending[i])
             b == One(loop.batch[i])
  <2>1. s \in Seq(Content) /\ p \in Seq(Content) /\ b \in Seq(Content)
    BY PartsTyped
  <2>2. SentIn(queue', i) = s \o Mine(m, i)
    <3>1. queue \in Seq(Sent)
      BY DEF DeliveryOK
    <3> HIDE DEF m
    <3> QED BY <1>1, <1>2, <3>1, SentAppend
  <2>3. Waiting(i) = (s \o b) \o p
    BY WaitingIs
  <2>4. Waiting(i)' = (SentIn(queue', i) \o One(loop'.batch[i])) \o p
    BY <1>1 DEF Waiting, One
  <2>5. SentIn(queue', i) \o One(loop'.batch[i]) = s \o b
    <3>0. loop.batch \in [Ids -> Content \cup {NoUpdate}]
      BY DEF DeliveryOK, Updates
    <3>1. CASE i = j
      <4>1. Mine(m, i) = b /\ One(loop'.batch[i]) = <<>>
        BY <1>1, <3>0, <3>1 DEF Mine, One
      <4>2. (s \o b) \o <<>> = s \o b
        <5> HIDE DEF s, b
        <5> QED BY <2>1
      <4> QED BY <2>2, <4>1, <4>2
    <3>2. CASE i # j
      <4>1. Mine(m, i) = <<>> /\ One(loop'.batch[i]) = b
        BY <1>1, <3>0, <3>2 DEF Mine, One
      <4>2. s \o <<>> = s
        <5> HIDE DEF s, b
        <5> QED BY <2>1
      <4> QED BY <2>2, <4>1, <4>2
    <3> QED BY <3>1, <3>2
  <2> QED BY <2>3, <2>4, <2>5
<1> QED BY <1>3, <1>4

\* The loop returns and forgets the rest of its batch.
LEMMA EndLoopForgets ==
  ASSUME DeliveryOK, EndLoop
  PROVE  /\ DeliveryOK'
         /\ \A i \in Ids : Waiting(i)' \in {Waiting(i)} \cup {RemoveAt(Waiting(i), n) : n \in DOMAIN Waiting(i)}
<1>1. loop' = [runs |-> FALSE, batch |-> Nothing] /\ UNCHANGED <<pending, queue, manager, consuming>>
  BY DEF EndLoop
<1>2. Nothing \in Updates
  BY DEF Nothing, Updates
<1>3. DeliveryOK'
  BY <1>1, <1>2 DEF DeliveryOK
<1>4. ASSUME NEW i \in Ids
      PROVE  Waiting(i)' \in {Waiting(i)} \cup {RemoveAt(Waiting(i), n) : n \in DOMAIN Waiting(i)}
  <2> DEFINE s == SentIn(queue, i)
             p == One(pending[i])
             c == loop.batch[i]
  <2>1. s \in Seq(Content) /\ p \in Seq(Content) /\ c \in Content \cup {NoUpdate}
    BY PartsTyped
  <2>2. Waiting(i) = (s \o One(c)) \o p
    BY WaitingIs
  <2>3. Waiting(i)' = (s \o <<>>) \o p
    BY <1>1 DEF Waiting, One, Nothing
  <2> HIDE DEF s, p, c
  <2>4. s \o <<>> = s
    BY <2>1
  <2>5. CASE c = NoUpdate
    BY <2>2, <2>3, <2>5 DEF One
  <2>6. CASE c # NoUpdate
    <3>1. c \in Content /\ One(c) = <<c>>
      BY <2>1, <2>6 DEF One
    <3> DEFINE w == (s \o <<c>>) \o p
               n == Len(s) + 1
    <3>2. n \in DOMAIN w /\ RemoveAt(w, n) = s \o p
      BY <2>1, <3>1, Dropped
    <3>3. Waiting(i) = w /\ Waiting(i)' = s \o p
      BY <2>2, <2>3, <2>4, <3>1
    <3> HIDE DEF w, n
    <3> QED BY <3>2, <3>3
  <2> QED BY <2>5, <2>6
<1> QED BY <1>3, <1>4

\* stopDispatch forgets the map.
LEMMA CancelForgets ==
  ASSUME DeliveryOK, CancelDispatch
  PROVE  /\ DeliveryOK'
         /\ \A i \in Ids : Waiting(i)' \in {Waiting(i)} \cup {RemoveAt(Waiting(i), n) : n \in DOMAIN Waiting(i)}
<1>1. pending' = Nothing /\ UNCHANGED <<loop, queue, manager, consuming>>
  BY DEF CancelDispatch
<1>2. Nothing \in Updates
  BY DEF Nothing, Updates
<1>3. DeliveryOK'
  BY <1>1, <1>2 DEF DeliveryOK
<1>4. ASSUME NEW i \in Ids
      PROVE  Waiting(i)' \in {Waiting(i)} \cup {RemoveAt(Waiting(i), n) : n \in DOMAIN Waiting(i)}
  <2> DEFINE s == SentIn(queue, i) \o One(loop.batch[i])
             c == pending[i]
  <2>1. s \in Seq(Content) /\ c \in Content \cup {NoUpdate}
    BY PartsTyped
  <2>2. Waiting(i) = s \o One(c)
    BY WaitingIs
  <2>3. Waiting(i)' = s \o <<>>
    BY <1>1 DEF Waiting, One, Nothing
  <2> HIDE DEF s, c
  <2>4. s \o <<>> = s
    BY <2>1
  <2>5. CASE c = NoUpdate
    BY <2>2, <2>3, <2>5 DEF One
  <2>6. CASE c # NoUpdate
    <3>1. c \in Content /\ One(c) = <<c>>
      BY <2>1, <2>6 DEF One
    <3> DEFINE w == (s \o <<c>>) \o <<>>
               n == Len(s) + 1
    <3>2. n \in DOMAIN w /\ RemoveAt(w, n) = s \o <<>>
      <4>1. <<>> \in Seq(Content)
        OBVIOUS
      <4> QED BY <2>1, <3>1, <4>1, Dropped
    <3>3. w = s \o <<c>>
      BY <2>1, <3>1
    <3>4. Waiting(i) = w /\ Waiting(i)' = s \o <<>>
      BY <2>2, <2>3, <3>1, <3>3
    <3> HIDE DEF w, n
    <3> QED BY <3>2, <3>4
  <2> QED BY <2>5, <2>6
<1> QED BY <1>3, <1>4

\* consumeAuthUpdates applies the oldest update in the channel.
LEMMA ApplyTakes ==
  ASSUME DeliveryOK, Apply, NEW j \in Ids, j = Head(queue).id
  PROVE  /\ DeliveryOK'
         /\ \A i \in Ids : i # j => Waiting(i)' = Waiting(i) /\ manager'[i] = manager[i]
         /\ Waiting(j) # <<>> /\ Waiting(j)' = Tail(Waiting(j))
         /\ manager' = [manager EXCEPT ![j] = Head(Waiting(j))]
         /\ \A i \in Ids : Final(i)' = Final(i)
<1> DEFINE h == Head(queue)
<1>1. /\ queue # <<>> /\ queue \in Seq(Sent)
      /\ manager' = [manager EXCEPT ![j] = h.content] /\ queue' = Tail(queue)
      /\ UNCHANGED <<pending, loop, consuming>>
  BY DEF Apply, DeliveryOK
<1>2. h \in Sent /\ queue' \in Seq(Sent) /\ Len(queue') = Len(queue) - 1 /\ Len(queue) \in Nat
  BY <1>1, HeadTailProperties
<1>3. h.id = j /\ h.content \in Content
  BY <1>2 DEF Sent
<1> HIDE DEF h
<1>4. DeliveryOK'
  <2>1. Len(queue') <= QueueSize
    BY <1>2, DispatchAssumption DEF DeliveryOK
  <2> QED BY <1>1, <1>2, <1>3, <2>1 DEF DeliveryOK
<1>5. ASSUME NEW i \in Ids PROVE SentIn(queue, i) = Mine(h, i) \o SentIn(queue', i)
  BY <1>1, SentTail DEF h
<1>6. ASSUME NEW i \in Ids, i # j PROVE Waiting(i)' = Waiting(i) /\ manager'[i] = manager[i]
  <2> DEFINE s == SentIn(queue', i)
  <2>1. Mine(h, i) = <<>>
    BY <1>3, <1>6 DEF Mine
  <2>2. s \in Seq(Content)
    BY <1>2, SentTyped
  <2>3. SentIn(queue, i) = <<>> \o s
    BY <1>5, <2>1
  <2>4. SentIn(queue, i) = s
    <3> HIDE DEF s
    <3> QED BY <2>2, <2>3
  <2>5. Waiting(i)' = Waiting(i)
    BY <1>1, <2>4 DEF Waiting
  <2> QED BY <1>1, <1>6, <2>5 DEF DeliveryOK
<1>7. Waiting(j) # <<>> /\ Waiting(j)' = Tail(Waiting(j)) /\ Head(Waiting(j)) = h.content /\ Final(j)' = Final(j)
  <2> DEFINE s == SentIn(queue', j)
             b == One(loop.batch[j])
             p == One(pending[j])
             c == h.content
             w == (s \o b) \o p
  <2>1. s \in Seq(Content) /\ b \in Seq(Content) /\ p \in Seq(Content) /\ c \in Content
    BY <1>2, <1>3, SentTyped, PartsTyped
  <2>2. Mine(h, j) = <<c>>
    BY <1>3 DEF Mine
  <2>3. Waiting(j) = ((<<c>> \o s) \o b) \o p
    BY <1>5, <2>2, WaitingIs
  <2>4. Waiting(j)' = w
    BY <1>1 DEF Waiting, One
  <2>5. manager'[j] = c
    BY <1>1, <1>3 DEF DeliveryOK
  <2> HIDE DEF s, b, p, c
  <2>6. w \in Seq(Content)
    BY <2>1
  <2>7. ((<<c>> \o s) \o b) \o p = <<c>> \o w
    <3>1. <<c>> \in Seq(Content) /\ <<c>> \o s \in Seq(Content) /\ s \o b \in Seq(Content)
      BY <2>1
    <3>2. (<<c>> \o s) \o b = <<c>> \o (s \o b)
      BY <2>1, <3>1, ConcatAssociative
    <3>3. (<<c>> \o (s \o b)) \o p = <<c>> \o ((s \o b) \o p)
      BY <2>1, <3>1, ConcatAssociative
    <3> QED BY <3>2, <3>3
  <2> HIDE DEF w
  <2>8. /\ <<c>> \o w # <<>> /\ w = Tail(<<c>> \o w) /\ Head(<<c>> \o w) = c
        /\ (w # <<>> => Last(<<c>> \o w) = Last(w)) /\ (w = <<>> => Last(<<c>> \o w) = c)
    BY <2>1, <2>6, First
  <2>9. Waiting(j) = <<c>> \o w
    BY <2>3, <2>7
  <2>10. Final(j)' = Final(j)
    BY <2>4, <2>5, <2>8, <2>9 DEF Final
  <2>11. Waiting(j) # <<>> /\ Waiting(j)' = Tail(Waiting(j)) /\ Head(Waiting(j)) = c
    BY <2>4, <2>8, <2>9
  <2> QED BY <2>10, <2>11 DEF c
<1>8. ASSUME NEW i \in Ids PROVE Final(i)' = Final(i)
  BY <1>6, <1>7 DEF Final
<1> QED BY <1>1, <1>4, <1>6, <1>7, <1>8

-----------------------------------------------------------------------------
(* How what the reloads carry relates to what the watcher saw last. *)

\* Reloads that have an update of a credential to hand over.
Carriers(i) == {r \in Reloaders : reload[r].updates[i] # NoUpdate}

\* Reloads that wait for their hand-over know those before them.
Ordered ==
  \A q \in Reloaders :
    /\ reload[q].pc # "compared" => reload[q].updates = Nothing /\ reload[q].earlier = {} /\ reload[q].overtaken = {}
    /\ \A r \in reload[q].earlier : r # q /\ reload[r].pc = "compared" /\ reload[r].earlier \subseteq reload[q].earlier

\* A reload that was overtaken has been overtaken with all those before it.
OvertakenWith ==
  \A q \in Reloaders : \A r \in reload[q].earlier : \A i \in reload[q].overtaken :
    q \in Carriers(i) /\ r \in Carriers(i) => i \in reload[r].overtaken

\* A reload's update that nothing newer follows or has overtaken.
Newest(r, i) ==
  r \in Carriers(i) /\ i \notin reload[r].overtaken /\ \A q \in Carriers(i) : r \notin reload[q].earlier

\* The newest update is what the last comparison saw; and so is what was handed over last,
\* unless it should have been handed over before.
Follows(i) ==
  /\ \A r \in Reloaders : Newest(r, i) => reload[r].updates[i] = current[i]
  /\ i \notin stale /\ (\A r \in Carriers(i) : i \in reload[r].overtaken) => Final(i) = current[i]
Following == \A i \in Ids \ unknown : Follows(i)

\* What no reload has compared is not in the watcher's last set.
Unseen == \A i \in unknown : current[i] = Absent

-----------------------------------------------------------------------------
(* The types of the reloads. *)

\* Reloads as they are kept.
Reload1 == [pc : {"idle", "loaded", "compared"}, force : BOOLEAN, updates : Updates,
            earlier : SUBSET Reloaders, overtaken : SUBSET Ids]

\* A reload that is not under way.
LEMMA IdleTyped == Nothing \in Updates /\ Idle \in Reload1 /\ Idle.updates = Nothing
                   /\ Idle.earlier = {} /\ Idle.overtaken = {} /\ Idle.pc = "idle"
<1>1. Nothing \in Updates
  BY DEF Nothing, Updates
<1> QED BY <1>1 DEF Idle, Reload1

\* The differences a comparison finds.
LEMMA DifferenceTyped ==
  ASSUME stored \in [Ids -> Content], NEW force \in BOOLEAN
  PROVE  Difference(force) \in Updates
<1>1. ASSUME NEW i \in Ids
      PROVE  (IF stored[i] # Absent /\ (force \/ current[i] # stored[i]) THEN stored[i]
              ELSE IF stored[i] = Absent /\ current[i] # Absent THEN Absent
              ELSE NoUpdate) \in Content \cup {NoUpdate}
  BY DEF Content
<1> QED BY <1>1 DEF Difference, Updates

\* A reload starts where none was under way.
LEMMA BeginTyped ==
  ASSUME NEW r \in Reloaders, NEW force \in BOOLEAN, reload \in [Reloaders -> Reload1], Begin(r, force)
  PROVE  /\ reload' \in [Reloaders -> Reload1]
         /\ reload'[r] = [Idle EXCEPT !.pc = "loaded", !.force = force]
         /\ reload'[r].pc = "loaded" /\ reload'[r].updates = Nothing
         /\ reload'[r].earlier = {} /\ reload'[r].overtaken = {}
         /\ \A q \in Reloaders : q # r => reload'[q] = reload[q]
<1> DEFINE u == [Idle EXCEPT !.pc = "loaded", !.force = force]
<1>1. /\ u \in Reload1 /\ u.pc = "loaded" /\ u.updates = Nothing
      /\ u.earlier = {} /\ u.overtaken = {}
  BY IdleTyped DEF Reload1
<1>2. reload' = [reload EXCEPT ![r] = u]
  BY DEF Begin
<1> HIDE DEF u
<1>3. reload'[r] = u /\ \A q \in Reloaders : q # r => reload'[q] = reload[q]
  BY <1>2
<1>4. reload' \in [Reloaders -> Reload1]
  BY <1>1, <1>2
<1> QED BY <1>1, <1>3, <1>4 DEF u

\* Compared reloads.
LEMMA ComparedTyped ==
  ASSUME NEW r \in Reloaders, NEW updates \in Updates
  PROVE  LET u == Compared(r, updates)
         IN  /\ u \in Reload1 /\ u.updates = updates /\ u.overtaken = {}
             /\ u.pc # "compared" => u = Idle /\ updates = Nothing
             /\ u.pc = "compared" => u.earlier = {q \in Reloaders : reload[q].pc = "compared"}
<1>1. CASE updates = Nothing
  BY <1>1, IdleTyped DEF Compared
<1>2. CASE updates # Nothing
  <2> DEFINE e == {q \in Reloaders : reload[q].pc = "compared"}
             u == [Idle EXCEPT !.pc = "compared", !.updates = updates, !.earlier = e]
  <2>1. Compared(r, updates) = u
    BY <1>2 DEF Compared
  <2>2. e \in SUBSET Reloaders
    OBVIOUS
  <2> HIDE DEF e
  <2>3. u \in Reload1 /\ u.updates = updates /\ u.overtaken = {} /\ u.pc = "compared" /\ u.earlier = e
    BY <2>2, IdleTyped DEF Reload1
  <2> HIDE DEF u
  <2> QED BY <2>1, <2>3 DEF e
<1> QED BY <1>1, <1>2

\* A comparison keeps the types.
LEMMA CompareTyped ==
  ASSUME ReloadTypeOK, NEW r \in Reloaders, Compare(r)
  PROVE  /\ reload' \in [Reloaders -> Reload1]
         /\ reload'[r] = Compared(r, IF HasQueue THEN Difference(reload[r].force) ELSE Nothing)
         /\ reload'[r].updates = IF HasQueue THEN Difference(reload[r].force) ELSE Nothing
         /\ reload'[r].overtaken = {}
         /\ reload'[r].pc # "compared" => reload'[r] = Idle
         /\ reload'[r].pc = "compared" => reload'[r].earlier = {q \in Reloaders : reload[q].pc = "compared"}
         /\ \A q \in Reloaders : q # r => reload'[q] = reload[q]
<1> DEFINE updates == IF HasQueue THEN Difference(reload[r].force) ELSE Nothing
           u == Compared(r, updates)
<1>1. reload \in [Reloaders -> Reload1] /\ stored \in [Ids -> Content]
  BY DEF ReloadTypeOK, Reload1
<1>2. updates \in Updates
  <2>1. reload[r].force \in BOOLEAN
    BY <1>1 DEF Reload1
  <2> QED BY <1>1, <2>1, DifferenceTyped, IdleTyped
<1>3. reload' = [reload EXCEPT ![r] = u]
  BY DEF Compare
<1> HIDE DEF updates
<1>4. /\ u \in Reload1 /\ u.updates = updates /\ u.overtaken = {}
      /\ u.pc # "compared" => u = Idle
      /\ u.pc = "compared" => u.earlier = {q \in Reloaders : reload[q].pc = "compared"}
  BY <1>2, ComparedTyped
<1> HIDE DEF u
<1>5. reload' \in [Reloaders -> Reload1] /\ reload'[r] = u /\ \A q \in Reloaders : q # r => reload'[q] = reload[q]
  BY <1>1, <1>3, <1>4
<1> QED BY <1>4, <1>5 DEF u, updates

\* What a hand-over leaves of the others.
LEMMA HandOverTyped ==
  ASSUME ReloadTypeOK, NEW r \in Reloaders, HandOver(r)
  PROVE  /\ reload' \in [Reloaders -> Reload1]
         /\ reload'[r] = Idle
         /\ \A q \in Reloaders : q # r =>
              /\ reload'[q].pc = reload[q].pc /\ reload'[q].force = reload[q].force
              /\ reload'[q].updates = reload[q].updates /\ reload'[q].earlier = reload[q].earlier \ {r}
              /\ reload'[q].overtaken = reload[q].overtaken \cup
                   (IF q \in reload[r].earlier THEN Touched(reload[q].updates) \cap Touched(reload[r].updates) ELSE {})
<1> DEFINE more(q) == IF q \in reload[r].earlier
                        THEN Touched(reload[q].updates) \cap Touched(reload[r].updates) ELSE {}
           u(q) == [reload[q] EXCEPT !.earlier = @ \ {r}, !.overtaken = @ \cup more(q)]
<1>1. reload \in [Reloaders -> Reload1]
  BY DEF ReloadTypeOK, Reload1
<1>2. reload' = [q \in Reloaders |-> IF q = r THEN Idle ELSE u(q)]
  BY DEF HandOver
<1>3. \A q \in Reloaders : more(q) \subseteq Ids
  BY DEF Touched
<1> HIDE DEF more
<1>4. ASSUME NEW q \in Reloaders
      PROVE  /\ u(q) \in Reload1 /\ u(q).pc = reload[q].pc /\ u(q).force = reload[q].force
             /\ u(q).updates = reload[q].updates /\ u(q).earlier = reload[q].earlier \ {r}
             /\ u(q).overtaken = reload[q].overtaken \cup more(q)
  <2>1. reload[q] \in Reload1
    BY <1>1
  <2>2. more(q) \in SUBSET Ids
    BY <1>3
  <2> QED BY <2>1, <2>2 DEF Reload1
<1> HIDE DEF u
<1>5. reload'[r] = Idle /\ \A q \in Reloaders : q # r => reload'[q] = u(q)
  BY <1>2
<1>6. reload' \in [Reloaders -> Reload1]
  BY <1>2, <1>4, IdleTyped
<1> QED BY <1>4, <1>5, <1>6 DEF more

-----------------------------------------------------------------------------
(* Each step of a reload keeps the order of those that wait. *)

\* What every reload step keeps: the types, and the order of those that wait.
ReloadsOK == ReloadTypeOK /\ Ordered /\ OvertakenWith

\* A reload that waits for nothing knows nothing of the others.
LEMMA OrderedWhen ==
  ASSUME NEW r \in Reloaders, ReloadsOK, reload' \in [Reloaders -> Reload1],
         reload'[r].pc # "compared", reload'[r].updates = Nothing, reload'[r].earlier = {}, reload'[r].overtaken = {},
         reload[r].pc # "compared",
         \A q \in Reloaders : q # r => reload'[q] = reload[q]
  PROVE  Ordered' /\ OvertakenWith'
<1>1. \A q \in Reloaders : \A p \in reload[q].earlier : p # r /\ p \in Reloaders
  BY DEF ReloadsOK, Ordered, ReloadTypeOK
<1>2. Ordered'
  BY <1>1 DEF ReloadsOK, Ordered
<1>3. OvertakenWith'
  BY <1>1 DEF ReloadsOK, OvertakenWith, Carriers
<1> QED BY <1>2, <1>3

\* A reload that starts.
LEMMA BeginKeeps ==
  ASSUME ReloadsOK, NEW r \in Reloaders, NEW force \in BOOLEAN, reload[r].pc = "idle", Begin(r, force)
  PROVE  reload' \in [Reloaders -> Reload1] /\ Ordered' /\ OvertakenWith'
<1>1. reload \in [Reloaders -> Reload1]
  BY DEF ReloadsOK, ReloadTypeOK, Reload1
<1> QED BY <1>1, BeginTyped, OrderedWhen

\* reloadAuthsFromStore
LEMMA StoreChangedKeeps ==
  ASSUME ReloadsOK, NEW auths \in [Ids -> Content], StoreChanged(auths) PROVE ReloadsOK'
<1>1. "store" \in Reloaders
  BY DEF Reloaders
<1>2. reload' \in [Reloaders -> Reload1] /\ Ordered' /\ OvertakenWith'
  BY <1>1, BeginKeeps DEF StoreChanged
<1> QED BY <1>2 DEF ReloadsOK, ReloadTypeOK, Reload1, StoreChanged, histories

\* reloadConfigFromSource
LEMMA ConfigChangedKeeps ==
  ASSUME ReloadsOK, NEW force \in BOOLEAN, ConfigChanged(force) PROVE ReloadsOK'
<1>1. "config" \in Reloaders
  BY DEF Reloaders
<1>2. reload' \in [Reloaders -> Reload1] /\ Ordered' /\ OvertakenWith'
  BY <1>1, BeginKeeps DEF ConfigChanged
<1> QED BY <1>2 DEF ReloadsOK, ReloadTypeOK, Reload1, ConfigChanged, histories

\* refreshAuthState: a comparison comes after all that wait.
LEMMA CompareKeeps ==
  ASSUME ReloadsOK, NEW r \in Reloaders, Compare(r) PROVE ReloadsOK'
<1>1. reload[r].pc = "loaded" /\ UNCHANGED <<stored, stage, stale>> /\ current' = stored
      /\ unknown' = {i \in unknown : stored[i] = Absent}
  BY DEF Compare
<1>2. /\ reload' \in [Reloaders -> Reload1]
      /\ reload'[r].overtaken = {}
      /\ reload'[r].pc # "compared" => reload'[r] = Idle
      /\ reload'[r].pc = "compared" => reload'[r].earlier = {q \in Reloaders : reload[q].pc = "compared"}
      /\ \A q \in Reloaders : q # r => reload'[q] = reload[q]
  BY CompareTyped DEF ReloadsOK
<1>3. Ordered' /\ OvertakenWith'
  <2>1. CASE reload'[r].pc # "compared"
    BY <1>1, <1>2, <2>1, OrderedWhen, IdleTyped
  <2>2. CASE reload'[r].pc = "compared"
    <3>1. \A q \in Reloaders : \A p \in reload[q].earlier : p # r /\ p \in Reloaders /\ reload[p].pc = "compared"
      BY <1>1 DEF ReloadsOK, Ordered, ReloadTypeOK
    <3>2. \A p \in reload'[r].earlier : p # r /\ p \in Reloaders /\ reload'[p] = reload[p] /\ reload[p].pc = "compared"
      BY <1>1, <1>2, <2>2
    <3>3. \A p \in reload'[r].earlier : reload'[p].earlier \subseteq reload'[r].earlier
      BY <1>2, <2>2, <3>1, <3>2
    <3>4. ASSUME NEW q \in Reloaders
          PROVE  /\ reload'[q].pc # "compared" => reload'[q].updates = Nothing /\ reload'[q].earlier = {} /\ reload'[q].overtaken = {}
                 /\ \A p \in reload'[q].earlier : p # q /\ reload'[p].pc = "compared" /\ reload'[p].earlier \subseteq reload'[q].earlier
      <4>1. CASE q = r
        BY <2>2, <3>2, <3>3, <4>1
      <4>2. CASE q # r
        BY <1>2, <3>1, <4>2 DEF ReloadsOK, Ordered
      <4> QED BY <4>1, <4>2
    <3>5. Ordered'
      BY <3>4 DEF Ordered
    <3>6. OvertakenWith'
      BY <1>2, <3>1 DEF ReloadsOK, OvertakenWith, Carriers
    <3> QED BY <3>5, <3>6
  <2> QED BY <2>1, <2>2
<1>4. ReloadTypeOK'
  BY <1>1, <1>2 DEF ReloadsOK, ReloadTypeOK, Reload1
<1> QED BY <1>3, <1>4 DEF ReloadsOK

\* A hand-over overtakes those before it, with all that are before them.
LEMMA HandOverKeeps ==
  ASSUME ReloadsOK, NEW r \in Reloaders, HandOver(r) PROVE ReloadsOK'
<1>1. reload[r].pc = "compared" /\ UNCHANGED <<stored, current, stage, unknown>>
      /\ stale' = (stale \ Touched(reload[r].updates)) \cup (Touched(reload[r].updates) \cap reload[r].overtaken)
  BY DEF HandOver
<1> DEFINE more(q) == IF q \in reload[r].earlier
                        THEN Touched(reload[q].updates) \cap Touched(reload[r].updates) ELSE {}
<1>2. /\ reload' \in [Reloaders -> Reload1]
      /\ reload'[r] = Idle
      /\ \A q \in Reloaders : q # r =>
           /\ reload'[q].pc = reload[q].pc
           /\ reload'[q].updates = reload[q].updates /\ reload'[q].earlier = reload[q].earlier \ {r}
           /\ reload'[q].overtaken = reload[q].overtaken \cup more(q)
  BY HandOverTyped DEF ReloadsOK
<1>3. \A q \in Reloaders : \A p \in reload[q].earlier :
        p \in Reloaders /\ p # q /\ reload[p].pc = "compared" /\ reload[p].earlier \subseteq reload[q].earlier
  BY DEF ReloadsOK, Ordered, ReloadTypeOK
<1>4. Ordered'
  <2>1. ASSUME NEW q \in Reloaders
        PROVE  /\ reload'[q].pc # "compared" => reload'[q].updates = Nothing /\ reload'[q].earlier = {} /\ reload'[q].overtaken = {}
               /\ \A p \in reload'[q].earlier : p # q /\ reload'[p].pc = "compared" /\ reload'[p].earlier \subseteq reload'[q].earlier
    <3>1. CASE q = r
      BY <1>2, <3>1, IdleTyped
    <3>2. CASE q # r
      <4>1. reload[q].pc # "compared" => reload[q].updates = Nothing /\ reload[q].earlier = {} /\ reload[q].overtaken = {}
        BY DEF ReloadsOK, Ordered
      <4>2. reload[q].pc # "compared" => more(q) = {}
        BY <1>3
      <4>3. \A p \in reload'[q].earlier : p \in Reloaders /\ p # r /\ p \in reload[q].earlier
        BY <1>2, <1>3, <3>2
      <4> HIDE DEF more
      <4> QED BY <1>2, <1>3, <3>2, <4>1, <4>2, <4>3
    <3> QED BY <3>1, <3>2
  <2> QED BY <2>1 DEF Ordered
<1>5. OvertakenWith'
  <2> SUFFICES ASSUME NEW q \in Reloaders, NEW p \in reload'[q].earlier, NEW i \in reload'[q].overtaken,
                      q \in Carriers(i)', p \in Carriers(i)'
               PROVE  i \in reload'[p].overtaken
    BY DEF OvertakenWith
  <2>1. q # r
    BY <1>2, IdleTyped
  <2>2. p \in Reloaders /\ p # r /\ p \in reload[q].earlier
    BY <1>2, <1>3, <2>1
  <2>3. reload[q].updates[i] # NoUpdate /\ reload[p].updates[i] # NoUpdate
    BY <1>2, <2>1, <2>2 DEF Carriers
  <2>4. CASE i \in reload[q].overtaken
    <3>1. i \in reload[p].overtaken
      BY <2>2, <2>3, <2>4 DEF ReloadsOK, OvertakenWith, Carriers
    <3> QED BY <1>2, <2>2, <3>1
  <2>5. CASE i \in more(q)
    <3>1. q \in reload[r].earlier /\ i \in Ids /\ reload[r].updates[i] # NoUpdate
      BY <2>5 DEF Touched
    <3>2. p \in reload[r].earlier
      BY <1>3, <2>2, <3>1
    <3>3. i \in more(p)
      BY <2>3, <3>1, <3>2 DEF Touched
    <3> HIDE DEF more
    <3> QED BY <1>2, <2>2, <3>3
  <2> HIDE DEF more
  <2> QED BY <1>2, <2>1, <2>4, <2>5
<1>6. stale' \subseteq Ids
  BY <1>1 DEF Touched, ReloadsOK, ReloadTypeOK
<1>7. ReloadTypeOK'
  BY <1>1, <1>2, <1>6 DEF ReloadsOK, ReloadTypeOK, Reload1
<1> QED BY <1>4, <1>5, <1>7 DEF ReloadsOK

-----------------------------------------------------------------------------
(* What the manager will hold follows what the watcher saw last. *)

\* The inductive invariant: as long as the service runs, what the manager will hold
\* follows the watcher.
DispatchInv ==
  /\ ReloadsOK /\ DeliveryOK /\ Unseen
  /\ stage = "running" => Following

\* Nobody carries an update but those that wait for their hand-over.
LEMMA CarriersWait ==
  ASSUME ReloadsOK, NEW r \in Reloaders, NEW i \in Ids, r \in Carriers(i) PROVE reload[r].pc = "compared"
BY DEF ReloadsOK, Ordered, Carriers, Nothing

\* Where a reload that carries nothing changes, and nothing else does.
LEMMA BesideFollows ==
  ASSUME ReloadsOK, NEW r \in Reloaders, NEW i \in Ids, r \notin Carriers(i), r \notin Carriers(i)',
         \A q \in Reloaders : q # r => reload'[q] = reload[q],
         current'[i] = current[i], UNCHANGED stale, Final(i)' = Final(i), Follows(i)
  PROVE  Follows(i)'
<1>1. Carriers(i)' = Carriers(i)
  BY DEF Carriers
<1>2. ASSUME NEW q \in Carriers(i) PROVE reload'[q] = reload[q] /\ q \in Reloaders
  BY DEF Carriers
<1>3. ASSUME NEW q \in Reloaders PROVE Newest(q, i)' <=> Newest(q, i)
  BY <1>1, <1>2 DEF Newest
<1>4. \A q \in Reloaders : Newest(q, i) => reload'[q].updates[i] = reload[q].updates[i]
  BY <1>2 DEF Newest
<1> QED BY <1>1, <1>2, <1>3, <1>4 DEF Follows

\* reloadAuthsFromStore, reloadConfigFromSource
LEMMA BeginFollows ==
  ASSUME DispatchInv, NEW r \in Reloaders, NEW force \in BOOLEAN, reload[r].pc = "idle", Begin(r, force),
         UNCHANGED <<current, stale, feedVars>>, NEW i \in Ids, Follows(i)
  PROVE  Follows(i)'
<1>1. reload \in [Reloaders -> Reload1]
  BY DEF DispatchInv, ReloadsOK, ReloadTypeOK, Reload1
<1>2. reload'[r].updates = Nothing /\ \A q \in Reloaders : q # r => reload'[q] = reload[q]
  BY <1>1, BeginTyped
<1>3. reload[r].updates = Nothing
  BY DEF DispatchInv, ReloadsOK, Ordered
<1>4. r \notin Carriers(i) /\ r \notin Carriers(i)'
  BY <1>2, <1>3 DEF Carriers, Nothing
<1>5. Final(i)' = Final(i)
  BY WaitingSame, FinalSame DEF feedVars
<1> QED BY <1>2, <1>4, <1>5, BesideFollows DEF DispatchInv

\* refreshAuthState: what is found different is the newest, and it is what is current.
LEMMA CompareFollows ==
  ASSUME DispatchInv, NEW r \in Reloaders, Compare(r), UNCHANGED feedVars, stage = "running",
         NEW i \in Ids, i \notin unknown'
  PROVE  Follows(i)'
<1>1. /\ reload[r].pc = "loaded" /\ UNCHANGED <<stored, stage, stale>> /\ current' = stored
      /\ unknown' = {j \in unknown : stored[j] = Absent} /\ HasQueue
  BY DEF Compare, HasQueue
<1> DEFINE u == Difference(reload[r].force)
<1>2. /\ reload'[r].updates = u /\ reload'[r].overtaken = {}
      /\ reload'[r].pc # "compared" => reload'[r] = Idle
      /\ reload'[r].pc = "compared" => reload'[r].earlier = {q \in Reloaders : reload[q].pc = "compared"}
      /\ \A q \in Reloaders : q # r => reload'[q] = reload[q]
  BY <1>1, CompareTyped DEF DispatchInv, ReloadsOK
<1>3. stored \in [Ids -> Content] /\ current \in [Ids -> Content]
  BY DEF DispatchInv, ReloadsOK, ReloadTypeOK
<1>4. Final(i)' = Final(i)
  BY WaitingSame, FinalSame DEF feedVars
<1>5. r \notin Carriers(i)
  BY <1>1, CarriersWait DEF DispatchInv
<1>6. stored[i] # NoUpdate
  BY <1>3, NoUpdateIsNone
<1>7. u[i] = IF stored[i] # Absent /\ (reload[r].force \/ current[i] # stored[i]) THEN stored[i]
             ELSE IF stored[i] = Absent /\ current[i] # Absent THEN Absent
             ELSE NoUpdate
  BY DEF Difference
<1> HIDE DEF u
<1>8. CASE u[i] # NoUpdate
  <2>1. u[i] = stored[i]
    BY <1>7, <1>8
  <2>2. reload'[r].pc = "compared"
    BY <1>2, <1>8, IdleTyped DEF Nothing
  <2>3. r \in Carriers(i)'
    BY <1>2, <1>8 DEF Carriers
  <2>4. ASSUME NEW q \in Reloaders, Newest(q, i)' PROVE q = r
    <3> SUFFICES ASSUME q # r PROVE FALSE
      OBVIOUS
    <3>1. q \in Carriers(i)' /\ q \notin reload'[r].earlier
      BY <2>3, <2>4 DEF Newest
    <3>2. q \in Carriers(i)
      BY <1>2, <3>1 DEF Carriers
    <3>3. reload[q].pc = "compared"
      BY <3>2, CarriersWait DEF DispatchInv
    <3> QED BY <1>2, <2>2, <3>1, <3>3
  <2>5. i \notin reload'[r].overtaken
    BY <1>2
  <2> QED BY <1>1, <1>2, <2>1, <2>3, <2>4, <2>5 DEF Follows
<1>9. CASE u[i] = NoUpdate
  <2>1. current[i] = stored[i]
    BY <1>6, <1>7, <1>9, NoUpdateIsNone, ReloadAssumption DEF Content
  <2>2. i \notin unknown
    BY <1>1, <2>1 DEF DispatchInv, Unseen
  <2>3. Follows(i)
    BY <2>2 DEF DispatchInv, Following
  <2>4. r \notin Carriers(i)'
    BY <1>2, <1>9 DEF Carriers
  <2> QED BY <1>1, <1>2, <1>4, <1>5, <2>1, <2>3, <2>4, BesideFollows DEF DispatchInv
<1> QED BY <1>8, <1>9

\* A hand-over is what is current, or something newer is still to come, or it is stale.
LEMMA DispatchFollows ==
  ASSUME DispatchInv, NEW r \in Reloaders, Dispatch(r), stage = "running", NEW i \in Ids, Follows(i)
  PROVE  Follows(i)'
<1>0. ReloadsOK /\ ReloadTypeOK /\ DeliveryOK /\ HandOver(r) /\ HasQueue
  BY DEF DispatchInv, ReloadsOK, Dispatch, HasQueue
<1>1. reload[r].pc = "compared" /\ UNCHANGED <<stored, current, stage, unknown>>
      /\ stale' = (stale \ Touched(reload[r].updates)) \cup (Touched(reload[r].updates) \cap reload[r].overtaken)
  BY <1>0 DEF HandOver
<1> DEFINE more(q) == IF q \in reload[r].earlier
                        THEN Touched(reload[q].updates) \cap Touched(reload[r].updates) ELSE {}
<1>2. /\ reload'[r] = Idle
      /\ \A q \in Reloaders : q # r =>
           /\ reload'[q].updates = reload[q].updates /\ reload'[q].earlier = reload[q].earlier \ {r}
           /\ reload'[q].overtaken = reload[q].overtaken \cup more(q)
  BY <1>0, HandOverTyped
<1>3. \A q \in Reloaders : \A p \in reload[q].earlier :
        p \in Reloaders /\ p # q /\ reload[p].earlier \subseteq reload[q].earlier
  BY <1>0 DEF ReloadsOK, Ordered, ReloadTypeOK
<1>4. \A q \in Reloaders : q \in Carriers(i)' <=> q # r /\ q \in Carriers(i)
  BY <1>2, IdleTyped DEF Carriers, Nothing
<1>5. ASSUME NEW q \in Reloaders, q # r
      PROVE  i \in more(q) <=> q \in reload[r].earlier /\ q \in Carriers(i) /\ r \in Carriers(i)
  BY DEF Touched, Carriers
<1> HIDE DEF more
<1>6. ASSUME NEW q \in Reloaders, Newest(q, i)'
      PROVE  Newest(q, i) /\ reload'[q].updates[i] = reload[q].updates[i]
  <2>1. q # r /\ q \in Carriers(i) /\ i \notin reload'[q].overtaken
    BY <1>4, <1>6 DEF Newest
  <2>2. i \notin reload[q].overtaken /\ i \notin more(q)
    BY <1>2, <2>1
  <2>3. ASSUME NEW p \in Carriers(i) PROVE q \notin reload[p].earlier
    <3>1. p \in Reloaders
      BY DEF Carriers
    <3>2. CASE p = r
      BY <1>5, <2>1, <2>2, <2>3, <3>2
    <3>3. CASE p # r
      <4>1. p \in Carriers(i)'
        BY <1>4, <2>3, <3>1, <3>3
      <4>2. q \notin reload'[p].earlier
        BY <1>6, <4>1 DEF Newest
      <4> QED BY <1>2, <2>1, <3>1, <3>3, <4>2
    <3> QED BY <3>2, <3>3
  <2> QED BY <1>2, <2>1, <2>2, <2>3 DEF Newest
<1>7. \A q \in Reloaders : Newest(q, i)' => reload'[q].updates[i] = current'[i]
  BY <1>1, <1>6 DEF Follows
<1>8. ASSUME i \notin stale', \A q \in Carriers(i)' : i \in reload'[q].overtaken PROVE Final(i)' = current'[i]
  <2> DEFINE u == reload[r].updates[i]
  <2>1. CASE u = NoUpdate
    <3>1. r \notin Carriers(i) /\ i \notin Touched(reload[r].updates)
      BY <2>1 DEF Carriers, Touched
    <3>2. i \notin stale
      BY <1>1, <1>8, <3>1
    <3>3. ASSUME NEW q \in Carriers(i) PROVE i \in reload[q].overtaken
      <4>1. q \in Reloaders /\ q # r
        BY <3>1 DEF Carriers
      <4>2. i \in reload'[q].overtaken /\ i \notin more(q)
        BY <1>4, <1>5, <1>8, <3>1, <4>1
      <4> QED BY <1>2, <4>1, <4>2
    <3>4. Final(i) = current[i]
      BY <3>2, <3>3 DEF Follows
    <3>5. Waiting(i)' = Waiting(i) /\ manager' = manager
      BY <1>0, <2>1, DispatchHands DEF Dispatch
    <3>6. Final(i)' = Final(i)
      BY <3>5 DEF Final
    <3> QED BY <1>1, <3>4, <3>6
  <2>2. CASE u # NoUpdate
    <3>1. r \in Carriers(i) /\ i \in Touched(reload[r].updates)
      BY <2>2 DEF Carriers, Touched
    <3>2. i \notin reload[r].overtaken
      BY <1>1, <1>8, <3>1
    <3>3. ASSUME NEW q \in Carriers(i), r \in reload[q].earlier PROVE FALSE
      <4>1. q \in Reloaders /\ q # r
        BY <1>3, <3>3 DEF Carriers
      <4>2. i \in reload'[q].overtaken
        BY <1>4, <1>8, <3>3, <4>1
      <4>3. q \notin reload[r].earlier
        BY <1>3, <3>3, <4>1
      <4>4. i \in reload[q].overtaken
        BY <1>2, <1>5, <4>1, <4>2, <4>3
      <4>5. i \in reload[r].overtaken
        BY <1>0, <3>1, <3>3, <4>1, <4>4 DEF ReloadsOK, OvertakenWith
      <4> QED BY <3>2, <4>5
    <3>4. Newest(r, i)
      BY <3>1, <3>2, <3>3 DEF Newest
    <3>5. u = current[i]
      BY <3>4 DEF Follows
    <3>6. Waiting(i)' # <<>> /\ Last(Waiting(i)') = u
      BY <1>0, <2>2, DispatchHands
    <3>7. Final(i)' = u
      BY <3>6 DEF Final
    <3> QED BY <1>1, <3>5, <3>7
  <2> QED BY <2>1, <2>2
<1> QED BY <1>7, <1>8 DEF Follows

-----------------------------------------------------------------------------
(* The whole service. *)

\* Nothing waits where the channel, the batch and the map are empty.
LEMMA EmptyWaits ==
  ASSUME queue = <<>>, pending = Nothing, loop.batch = Nothing, NEW i \in Ids PROVE Waiting(i) = <<>>
<1>1. SentIn(queue, i) = <<>>
  BY SentEmpty
<1>2. One(loop.batch[i]) = <<>> /\ One(pending[i]) = <<>>
  BY DEF One, Nothing
<1>3. (<<>> \o <<>>) \o <<>> = <<>>
  OBVIOUS
<1> QED BY <1>1, <1>2, <1>3, WaitingIs

\* Nothing has been compared when the service starts.
LEMMA DispatchInit == Init => DispatchInv
<1> SUFFICES ASSUME Init PROVE DispatchInv
  OBVIOUS
<1>1. Absent \in Content /\ Nothing \in Updates
  BY DEF Content, Nothing, Updates
<1> DEFINE l == [Idle EXCEPT !.pc = "loaded"]
<1>2. ASSUME NEW r \in Reloaders
      PROVE  /\ reload[r] \in Reload1 /\ reload[r].pc # "compared" /\ reload[r].updates = Nothing
             /\ reload[r].earlier = {} /\ reload[r].overtaken = {}
  <2> DEFINE k(pc) == [Idle EXCEPT !.pc = pc]
  <2>1. ASSUME NEW pc \in {"idle", "loaded"}
        PROVE  k(pc) \in Reload1 /\ k(pc).pc = pc /\ k(pc).updates = Nothing /\ k(pc).earlier = {} /\ k(pc).overtaken = {}
    BY IdleTyped DEF Reload1
  <2>2. reload[r] = k(IF r = "start" THEN "loaded" ELSE "idle")
    BY DEF Init
  <2> HIDE DEF k
  <2> QED BY <2>1, <2>2
<1>3. reload \in [Reloaders -> Reload1]
  <2>1. reload = [r \in Reloaders |-> reload[r]]
    BY DEF Init
  <2> QED BY <1>2, <2>1
<1>4. ReloadTypeOK
  BY <1>1, <1>3 DEF Init, ReloadTypeOK, Reload1
<1>5. Ordered /\ OvertakenWith
  BY <1>2 DEF Ordered, OvertakenWith
<1>6. DeliveryOK
  <2>1. <<>> \in Seq(Sent) /\ Len(<<>>) = 0 /\ 0 <= QueueSize
    BY DispatchAssumption
  <2> QED BY <1>1, <2>1 DEF Init, DeliveryOK
<1>7. Unseen
  BY DEF Init, Unseen
<1>8. Following
  <2> SUFFICES ASSUME NEW i \in Ids \ unknown PROVE Follows(i)
    BY DEF Following
  <2>1. Carriers(i) = {}
    BY <1>2 DEF Carriers, Nothing
  <2>2. Waiting(i) = <<>>
    BY EmptyWaits DEF Init
  <2>3. manager[i] = Absent /\ current[i] = Absent
    BY DEF Init
  <2> QED BY <2>1, <2>2, <2>3 DEF Follows, Newest, Final
<1> QED BY <1>4, <1>5, <1>6, <1>7, <1>8 DEF DispatchInv, ReloadsOK

\* What leaves the reloads alone, and what the manager will hold.
LEMMA DeliveryKeeps ==
  ASSUME DispatchInv, UNCHANGED reloadVars, DeliveryOK', \A i \in Ids : Final(i)' = Final(i)
  PROVE  DispatchInv'
<1>1. UNCHANGED <<stored, current, reload, stage, stale, unknown>>
  BY DEF reloadVars, histories
<1>2. ReloadsOK' /\ Unseen'
  BY <1>1 DEF DispatchInv, ReloadsOK, ReloadTypeOK, Ordered, OvertakenWith, Carriers, Unseen
<1>3. ASSUME NEW i \in Ids, Follows(i) PROVE Follows(i)'
  BY <1>1, <1>3 DEF Follows, Newest, Carriers
<1>4. Following => Following'
  BY <1>1, <1>3 DEF Following
<1> QED BY <1>1, <1>2, <1>4 DEF DispatchInv

\* What happens when the service is no longer running.
LEMMA StoppedKeeps ==
  ASSUME DispatchInv, UNCHANGED <<stored, current, reload, stale, unknown>>, DeliveryOK',
         stage' \in {"cancelled", "closed", "stopped"}
  PROVE  DispatchInv'
BY DEF DispatchInv, ReloadsOK, ReloadTypeOK, Ordered, OvertakenWith, Carriers, Unseen

\* Every step keeps the invariant.
LEMMA DispatchStep == DispatchInv /\ [Next]_vars => DispatchInv'
<1> SUFFICES ASSUME DispatchInv, [Next]_vars PROVE DispatchInv'
  OBVIOUS
<1>0. ReloadsOK /\ ReloadTypeOK /\ DeliveryOK
  BY DEF DispatchInv, ReloadsOK
<1>1. ASSUME UNCHANGED feedVars PROVE DeliveryOK'
  BY <1>0, <1>1 DEF DeliveryOK, feedVars
<1>2. ASSUME NEW auths \in [Ids -> Content], StoreChanged(auths), UNCHANGED feedVars PROVE DispatchInv'
  <2>1. ReloadsOK' /\ DeliveryOK'
    BY <1>0, <1>1, <1>2, StoreChangedKeeps
  <2>2. UNCHANGED <<current, stage, stale, unknown>>
    BY <1>2 DEF StoreChanged, histories
  <2>3. Unseen'
    BY <2>2 DEF DispatchInv, Unseen
  <2>4. "store" \in Reloaders /\ TRUE \in BOOLEAN /\ reload["store"].pc = "idle" /\ Begin("store", TRUE)
    BY <1>2 DEF StoreChanged, Reloaders
  <2>5. ASSUME NEW i \in Ids, Follows(i) PROVE Follows(i)'
    <3>1. UNCHANGED <<current, stale, feedVars>>
      BY <1>2, <2>2
    <3> QED BY <2>4, <2>5, <3>1, BeginFollows
  <2> QED BY <2>1, <2>2, <2>3, <2>5 DEF DispatchInv, Following
<1>3. ASSUME NEW force \in BOOLEAN, ConfigChanged(force), UNCHANGED feedVars PROVE DispatchInv'
  <2>1. ReloadsOK' /\ DeliveryOK'
    BY <1>0, <1>1, <1>3, ConfigChangedKeeps
  <2>2. UNCHANGED <<current, stage, stale, unknown>>
    BY <1>3 DEF ConfigChanged, histories
  <2>3. Unseen'
    BY <2>2 DEF DispatchInv, Unseen
  <2>4. "config" \in Reloaders /\ reload["config"].pc = "idle" /\ Begin("config", force)
    BY <1>3 DEF ConfigChanged, Reloaders
  <2>5. ASSUME NEW i \in Ids, Follows(i) PROVE Follows(i)'
    <3>1. UNCHANGED <<current, stale, feedVars>>
      BY <1>3, <2>2
    <3> QED BY <2>4, <2>5, <3>1, BeginFollows
  <2> QED BY <2>1, <2>2, <2>3, <2>5 DEF DispatchInv, Following
<1>4. ASSUME NEW r \in Reloaders, Compare(r), UNCHANGED feedVars PROVE DispatchInv'
  <2>1. ReloadsOK' /\ DeliveryOK'
    BY <1>0, <1>1, <1>4, CompareKeeps
  <2>2. Unseen' /\ stage' = stage
    BY <1>4 DEF Compare, Unseen
  <2>3. stage = "running" => Following'
    BY <1>4, CompareFollows DEF Following
  <2> QED BY <2>1, <2>2, <2>3 DEF DispatchInv
<1>5. ASSUME NEW r \in Reloaders, Dispatch(r) PROVE DispatchInv'
  <2>1. HandOver(r) /\ UNCHANGED <<stored, current, stage, unknown>>
    BY <1>5 DEF Dispatch, HandOver
  <2>2. ReloadsOK' /\ DeliveryOK'
    BY <1>0, <1>5, <2>1, HandOverKeeps, DispatchTyped
  <2>3. Unseen'
    BY <2>1 DEF DispatchInv, Unseen
  <2>4. stage = "running" => Following'
    BY <1>5, <2>1, DispatchFollows DEF DispatchInv, Following
  <2> QED BY <2>1, <2>2, <2>3, <2>4 DEF DispatchInv
<1>6. CASE TakeBatch
  <2>1. UNCHANGED reloadVars /\ UNCHANGED manager
    BY <1>6 DEF TakeBatch
  <2>2. DeliveryOK' /\ \A i \in Ids : Final(i)' = Final(i)
    BY <1>0, <1>6, <2>1, TakeBatchKeeps, FinalSame
  <2> QED BY <2>1, <2>2, DeliveryKeeps
<1>7. ASSUME NEW j \in Ids, Send(j) PROVE DispatchInv'
  <2>1. UNCHANGED reloadVars /\ UNCHANGED manager
    BY <1>7 DEF Send
  <2>2. DeliveryOK' /\ \A i \in Ids : Final(i)' = Final(i)
    BY <1>0, <1>7, <2>1, SendKeeps, FinalSame
  <2> QED BY <2>1, <2>2, DeliveryKeeps
<1>8. CASE Apply
  <2>1. UNCHANGED reloadVars
    BY <1>8 DEF Apply
  <2>2. PICK j \in Ids : j = Head(queue).id
    <3>1. queue # <<>> /\ queue \in Seq(Sent)
      BY <1>0, <1>8 DEF Apply, DeliveryOK
    <3>2. Head(queue) \in Sent
      BY <3>1
    <3> QED BY <3>2 DEF Sent
  <2>3. DeliveryOK' /\ \A i \in Ids : Final(i)' = Final(i)
    BY <1>0, <1>8, <2>2, ApplyTakes
  <2> QED BY <2>1, <2>3, DeliveryKeeps
<1>9. CASE EndLoop
  <2>1. /\ UNCHANGED <<stored, current, reload, stale, unknown>> /\ stage' = stage /\ stage # "running"
        /\ stage \in {"running", "cancelled", "closed", "stopped"}
    BY <1>0, <1>9 DEF EndLoop, reloadVars, histories, ReloadTypeOK
  <2>2. DeliveryOK'
    BY <1>0, <1>9, EndLoopForgets
  <2> QED BY <2>1, <2>2, StoppedKeeps
<1>10. CASE EndConsumer
  <2>1. UNCHANGED <<stored, current, reload, stale, unknown>> /\ stage' = "stopped"
    BY <1>10 DEF EndConsumer, reloadVars, histories
  <2>2. DeliveryOK'
    BY <1>0, <1>10 DEF EndConsumer, DeliveryOK
  <2> QED BY <2>1, <2>2, StoppedKeeps
<1>11. CASE CancelDispatch
  <2>1. UNCHANGED <<stored, current, reload, stale, unknown>> /\ stage' = "cancelled"
    BY <1>11 DEF CancelDispatch, histories
  <2>2. DeliveryOK'
    BY <1>0, <1>11, CancelForgets
  <2> QED BY <2>1, <2>2, StoppedKeeps
<1>12. CASE CloseQueue \/ StopConsumer
  <2>1. UNCHANGED <<stored, current, reload, stale, unknown>> /\ stage' \in {"closed", "stopped"}
    BY <1>12 DEF CloseQueue, StopConsumer, histories
  <2>2. DeliveryOK'
    BY <1>0, <1>12 DEF CloseQueue, StopConsumer, DeliveryOK
  <2> QED BY <2>1, <2>2, StoppedKeeps
<1>13. CASE UNCHANGED vars
  <2>1. UNCHANGED reloadVars /\ UNCHANGED feedVars
    BY <1>13 DEF vars
  <2>2. \A i \in Ids : Final(i)' = Final(i)
    BY <2>1, WaitingSame, FinalSame DEF feedVars
  <2> QED BY <1>1, <2>1, <2>2, DeliveryKeeps
<1> QED BY <1>2, <1>3, <1>4, <1>5, <1>6, <1>7, <1>8, <1>9, <1>10, <1>11, <1>12, <1>13
     DEF Next, Reload, Deliver, Stop

\* Once all has been delivered, what the manager will hold is what it holds.
LEMMA SettledWhenDelivered == DispatchInv => SettlesOnCurrent
<1> SUFFICES ASSUME DispatchInv PROVE SettlesOnCurrent
  OBVIOUS
<1>1. TypeOK
  BY TypeParts DEF DispatchInv, ReloadsOK
<1>2. ASSUME Delivered, NEW i \in Ids \ (stale \cup unknown) PROVE manager[i] = current[i]
  <2>1. Carriers(i) = {}
    BY <1>2, CarriersWait DEF DispatchInv, Delivered, Carriers
  <2>2. Follows(i)
    BY <1>2 DEF DispatchInv, Delivered, Following
  <2>3. Final(i) = current[i]
    BY <1>2, <2>1, <2>2 DEF Follows
  <2>4. Waiting(i) = <<>>
    BY <1>2, EmptyWaits DEF Delivered
  <2> QED BY <2>3, <2>4 DEF Final
<1> QED BY <1>1, <1>2 DEF SettlesOnCurrent

\* However the three reloads, their hand-overs, the batches of the loop and the channel interleave,
\* once everything has been delivered the manager holds what the watcher saw last of a credential,
\* except where a later reload's update went first (refreshAuthState), or the watcher never had
\* the credential in a comparison (prepareAuthUpdatesLocked).
THEOREM AlwaysSettlesOnCurrent == Spec => []SettlesOnCurrent
BY DispatchInit, DispatchStep, SettledWhenDelivered, PTL DEF Spec

\* The steps of the dispatcher are steps of the feed.
LEMMA FeedInit == Init => Feed!Init
<1> SUFFICES ASSUME Init PROVE Feed!Init
  OBVIOUS
<1>1. \A i \in Ids : Waiting(i) = <<>>
  BY EmptyWaits DEF Init
<1>2. manager \in [Ids -> Content] /\ stage = "running"
  BY DEF Init
<1> QED BY <1>1, <1>2 DEF Feed!Init

\* A step the feed does not see.
LEMMA FeedSame ==
  ASSUME UNCHANGED manager, stage' = "running" <=> stage = "running", \A i \in Ids : Waiting(i)' = Waiting(i)
  PROVE  UNCHANGED Feed!feed
BY DEF Feed!feed

\* A step that only forgets, when the service is being stopped.
LEMMA FeedForgets ==
  ASSUME UNCHANGED manager, stage' # "running",
         \A i \in Ids : Waiting(i)' \in {Waiting(i)} \cup {RemoveAt(Waiting(i), n) : n \in DOMAIN Waiting(i)}
  PROVE  Feed!Forget
<1>1. \A i \in Ids : \A n \in DOMAIN Waiting(i) : Feed!RemoveAt(Waiting(i), n) = RemoveAt(Waiting(i), n)
  BY DEF Feed!RemoveAt, RemoveAt
<1> QED BY <1>1 DEF Feed!Forget

\* Every step maps to a step of the feed, or to none.
LEMMA FeedStep == DispatchInv /\ [Next]_vars => [Feed!Next]_(Feed!feed)
<1> SUFFICES ASSUME DispatchInv, [Next]_vars PROVE [Feed!Next]_(Feed!feed)
  OBVIOUS
<1>0. ReloadsOK /\ ReloadTypeOK /\ DeliveryOK
  BY DEF DispatchInv, ReloadsOK
<1>1. ASSUME UNCHANGED <<queue, loop, pending, manager>>, stage' = "running" <=> stage = "running"
      PROVE  UNCHANGED Feed!feed
  BY <1>1, WaitingSame, FeedSame
<1>2. ASSUME NEW auths \in [Ids -> Content], StoreChanged(auths), UNCHANGED feedVars PROVE UNCHANGED Feed!feed
  BY <1>1, <1>2 DEF StoreChanged, feedVars
<1>3. ASSUME NEW force \in BOOLEAN, ConfigChanged(force), UNCHANGED feedVars PROVE UNCHANGED Feed!feed
  BY <1>1, <1>3 DEF ConfigChanged, feedVars
<1>4. ASSUME NEW r \in Reloaders, Compare(r), UNCHANGED feedVars PROVE UNCHANGED Feed!feed
  BY <1>1, <1>4 DEF Compare, feedVars
<1>5. ASSUME NEW r \in Reloaders, Dispatch(r) PROVE [Feed!Next]_(Feed!feed)
  <2>1. UNCHANGED <<loop, queue, manager, consuming>> /\ stage' = stage
    BY <1>5 DEF Dispatch, HandOver
  <2>2. CASE ~HasQueue
    BY <1>1, <1>5, <2>1, <2>2 DEF Dispatch
  <2>3. CASE HasQueue
    <3> DEFINE u == reload[r].updates
    <3>1. u \in [Ids -> Content \cup {NoUpdate}]
      BY <1>0 DEF ReloadTypeOK, Updates
    <3>2. \A i \in Ids : Waiting(i)' \in Feed!Joined(Waiting(i), u[i])
      BY <1>0, <1>5, <2>3, DispatchHands
    <3> HIDE DEF u
    <3>3. Feed!Hand
      BY <2>1, <3>1, <3>2 DEF Feed!Hand
    <3> QED BY <3>3 DEF Feed!Next
  <2> QED BY <2>2, <2>3
<1>6. CASE TakeBatch
  <2>1. UNCHANGED <<manager, stage>>
    BY <1>6 DEF TakeBatch, reloadVars
  <2> QED BY <1>0, <1>6, <2>1, TakeBatchKeeps, FeedSame
<1>7. ASSUME NEW j \in Ids, Send(j) PROVE UNCHANGED Feed!feed
  <2>1. UNCHANGED <<manager, stage>>
    BY <1>7 DEF Send, reloadVars
  <2> QED BY <1>0, <1>7, <2>1, SendKeeps, FeedSame
<1>8. CASE Apply
  <2>1. UNCHANGED stage
    BY <1>8 DEF Apply, reloadVars
  <2>2. PICK j \in Ids : j = Head(queue).id
    <3>1. queue # <<>> /\ queue \in Seq(Sent)
      BY <1>0, <1>8 DEF Apply, DeliveryOK
    <3>2. Head(queue) \in Sent
      BY <3>1
    <3> QED BY <3>2 DEF Sent
  <2>3. /\ \A i \in Ids : i # j => Waiting(i)' = Waiting(i)
        /\ Waiting(j) # <<>> /\ Waiting(j)' = Tail(Waiting(j))
        /\ manager' = [manager EXCEPT ![j] = Head(Waiting(j))]
    BY <1>0, <1>8, <2>2, ApplyTakes
  <2>4. Feed!Apply(j)
    BY <2>1, <2>3 DEF Feed!Apply
  <2> QED BY <2>4 DEF Feed!Next
<1>9. CASE EndLoop
  <2>1. UNCHANGED <<manager, stage>> /\ stage # "running"
    BY <1>9 DEF EndLoop, reloadVars
  <2> QED BY <1>0, <1>9, <2>1, EndLoopForgets, FeedForgets DEF Feed!Next
<1>10. CASE EndConsumer
  BY <1>1, <1>10 DEF EndConsumer, reloadVars
<1>11. CASE CancelDispatch
  <2>1. UNCHANGED manager /\ stage' # "running"
    BY <1>11 DEF CancelDispatch
  <2> QED BY <1>0, <1>11, <2>1, CancelForgets, FeedForgets DEF Feed!Next
<1>12. CASE CloseQueue \/ StopConsumer
  BY <1>1, <1>12 DEF CloseQueue, StopConsumer
<1>13. CASE UNCHANGED vars
  BY <1>1, <1>13 DEF vars, feedVars, reloadVars
<1> QED BY <1>2, <1>3, <1>4, <1>5, <1>6, <1>7, <1>8, <1>9, <1>10, <1>11, <1>12, <1>13
     DEF Next, Reload, Deliver, Stop, Feed!Next

\* The pending map, the loop's batches, the bounded channel and the consumer
\* (dispatchAuthUpdates, dispatchLoop, consumeAuthUpdates) do what UpdateFeed allows and nothing
\* else: a newer update waits behind an older one or replaces it, and none is lost before Stop.
\* That each is applied in the end (UpdateFeed's fairness) is left to the run.
THEOREM ImplementsFeedSafely == Spec => Feed!Init /\ [][Feed!Next]_(Feed!feed)
BY DispatchInit, DispatchStep, FeedInit, FeedStep, PTL DEF Spec

-----------------------------------------------------------------------------
\* Contents there have been so far.
Known == {Absent, Disabled} \cup 1..(1 + changes)

Writes == [pc : {"idle", "call", "read", "publish", "record", "apply"},
           kind : {"none", "put", "delete", "refresh", "result"},
           id : Ids \cup {None}, content : Known, loaded : [Ids -> Known]]

\* Nothing holds a content that has not been yet.
Aged ==
  /\ changes \in 0..MaxChanges
  /\ {manager, doc, heard, lastEntries, stored, current} \subseteq [Ids -> Known]
  /\ due \in [Ids -> Seq(Known)]
  /\ \A r \in Reloaders : \A i \in Ids : reload[r].updates[i] \in Known \cup {NoUpdate}
  /\ writer \in [Writers -> Writes]

\* The rest of the types, and who saves holds s.mu.
Placed ==
  /\ phase \in {"new", "loaded", "listed", "watching", "running"}
  /\ Saving = {mu} \ {None} /\ parted \subseteq Ids /\ stage = "running"

\* What a write at its place is about.
Duty(w) ==
  Active(w) => /\ writer[w].id \in Ids /\ writer[w].kind # "none"
               /\ writer[w].kind = "delete" => writer[w].content = Absent
               /\ writer[w].kind \in {"put", "refresh"} => writer[w].content \notin {Absent, Disabled}
               /\ At(w, "call") => writer[w].kind = "refresh"
               /\ At(w, "apply") => writer[w].kind \in {"put", "delete"}

\* What a write has read is still in the document, and what it published as well.
Held(w) ==
  \A i \in Ids \ parted :
    /\ At(w, "publish") => writer[w].loaded[i] = doc[i]
    /\ At(w, "record") => Changed(w)[i] = doc[i]

WritersOK == \A w \in Writers : Duty(w) /\ Held(w)

\* How far the start is.
Phases ==
  /\ phase = "new" => /\ stored = Empty /\ current = Empty /\ manager = Empty /\ unknown = {}
                      /\ \A w \in Writers : ~Active(w)
                      /\ \A r \in Reloaders : reload[r].pc = "idle"
  /\ phase \in {"new", "loaded"} => /\ stored = Empty /\ current = Empty
                                    /\ \A i \in Ids : Carriers(i) = {} /\ due[i] = <<>>
  /\ phase \in {"new", "loaded", "listed"} => reload["store"].pc = "idle"
  /\ phase # "running" => reload["start"].pc = "idle"

Always == Aged /\ Placed /\ ReloadsOK /\ Unseen /\ WritersOK /\ Phases

-----------------------------------------------------------------------------
LEMMA Counts == ASSUME NEW m \in Nat, NEW n \in Nat, m <= n PROVE 1..(1 + m) \subseteq 1..(1 + n)
OBVIOUS

LEMMA KnownIs ==
  ASSUME changes \in 0..MaxChanges
  PROVE  /\ Known \subseteq Content /\ Absent \in Known /\ Disabled \in Known
         /\ NoUpdate \notin Known /\ Disabled # Absent
<1>0. changes \in Nat /\ MaxChanges \in Nat /\ changes <= MaxChanges
  BY SyncAssumption
<1>1. 1..(1 + changes) \subseteq 1..(1 + MaxChanges)
  BY <1>0
<1>2. Known \subseteq Content
  BY <1>1, SyncAssumption DEF Known, Content
<1> QED BY <1>1, <1>2, SyncAssumption, NoUpdateIsNone, ReloadAssumption DEF Known

LEMMA KnownGrows ==
  ASSUME changes \in 0..MaxChanges, changes' \in {changes, changes + 1}
  PROVE  Known \subseteq Known'
<1>1. changes \in Nat /\ changes' \in Nat /\ changes <= changes'
  BY SyncAssumption
<1>2. 1..(1 + changes) \subseteq 1..(1 + changes')
  BY <1>1, Counts
<1> QED BY <1>2 DEF Known

LEMMA FreshIsNew ==
  ASSUME changes \in 0..MaxChanges, Counted
  PROVE  /\ changes' \in 0..MaxChanges /\ changes' \in {changes, changes + 1}
         /\ Fresh \in Known' /\ Fresh \notin Known /\ Fresh \notin {Absent, Disabled}
<1>1. changes \in Nat /\ MaxChanges \in Nat /\ changes < MaxChanges /\ changes' = changes + 1
  BY SyncAssumption DEF Counted
<1>2. Fresh \in Nat /\ Fresh \in 1..(1 + MaxChanges) /\ Fresh \in 1..(1 + changes') /\ Fresh \notin 1..(1 + changes)
  BY <1>1 DEF Fresh
<1>3. Fresh \notin {Absent, Disabled}
  BY <1>2, SyncAssumption, ReloadAssumption
<1> QED BY <1>1, <1>2, <1>3 DEF Known

\* Aged, where the contents known grow.
LEMMA AgedGrows ==
  ASSUME Known \subseteq Known'
  PROVE  /\ \A f \in [Ids -> Known] : f \in [Ids -> Known']
         /\ \A s \in Seq(Known) : s \in Seq(Known')
         /\ \A x \in Writes : x \in Writes'
<1>1. \A f \in [Ids -> Known] : f \in [Ids -> Known']
  OBVIOUS
<1>2. \A s \in Seq(Known) : s \in Seq(Known')
  OBVIOUS
<1>3. \A x \in Writes : x \in Writes'
  BY <1>1 DEF Writes
<1> QED BY <1>1, <1>2, <1>3

-----------------------------------------------------------------------------
\* What a step leaves known, or makes known.
LEMMA AgedWhen ==
  ASSUME Aged, changes' \in {changes, changes + 1}, changes' \in 0..MaxChanges,
         manager' = manager \/ manager' \in [Ids -> Known'],
         doc' = doc \/ doc' \in [Ids -> Known'],
         heard' = heard \/ heard' \in [Ids -> Known'],
         lastEntries' = lastEntries \/ lastEntries' \in [Ids -> Known'],
         stored' = stored \/ stored' \in [Ids -> Known'],
         current' = current \/ current' \in [Ids -> Known'],
         due' = due \/ due' \in [Ids -> Seq(Known')],
         reload' = reload \/ \A r \in Reloaders : \A i \in Ids : reload'[r].updates[i] \in Known' \cup {NoUpdate},
         writer' = writer \/ writer' \in [Writers -> Writes']
  PROVE  Aged'
<1>1. Known \subseteq Known'
  BY KnownGrows DEF Aged
<1>2. /\ \A f \in [Ids -> Known] : f \in [Ids -> Known']
      /\ \A s \in Seq(Known) : s \in Seq(Known')
      /\ \A x \in Writes : x \in Writes'
  BY <1>1, AgedGrows
<1>3. {manager, doc, heard, lastEntries, stored, current}' \subseteq [Ids -> Known']
  BY <1>2 DEF Aged
<1>4. due' \in [Ids -> Seq(Known')]
  BY <1>2 DEF Aged
<1>5. \A r \in Reloaders : \A i \in Ids : reload'[r].updates[i] \in Known' \cup {NoUpdate}
  BY <1>1 DEF Aged
<1>6. writer' \in [Writers -> Writes']
  BY <1>2 DEF Aged
<1> QED BY <1>3, <1>4, <1>5, <1>6 DEF Aged

\* The watcher is left alone.
LEMMA WatcherSame ==
  ASSUME Always, UNCHANGED reloadVars PROVE ReloadsOK' /\ Unseen' /\ stage' = "running"
BY DEF Always, Placed, ReloadsOK, ReloadTypeOK, Ordered, OvertakenWith, Carriers, Unseen, reloadVars, histories

\* A write goes on.
LEMMA GoesOn ==
  ASSUME Aged, NEW w \in Writers, NEW pc \in {"read", "publish", "record", "apply"}, Goes(w, pc)
  PROVE  /\ writer' \in [Writers -> Writes] /\ writer'[w].pc = pc
         /\ writer'[w].kind = writer[w].kind /\ writer'[w].id = writer[w].id
         /\ writer'[w].content = writer[w].content /\ writer'[w].loaded = writer[w].loaded
         /\ \A v \in Writers : v # w => writer'[v] = writer[v]
<1>1. writer \in [Writers -> Writes]
  BY DEF Aged
<1> DEFINE u == [writer[w] EXCEPT !.pc = pc]
<1>2. writer' = [writer EXCEPT ![w] = u]
  BY DEF Goes
<1>3. writer[w] \in Writes
  BY <1>1
<1>4. /\ u \in Writes /\ u.pc = pc /\ u.kind = writer[w].kind /\ u.id = writer[w].id
      /\ u.content = writer[w].content /\ u.loaded = writer[w].loaded
  BY <1>3 DEF Writes
<1> HIDE DEF u
<1>5. writer'[w] = u /\ \A v \in Writers : v # w => writer'[v] = writer[v]
  BY <1>1, <1>2
<1>6. writer' \in [Writers -> Writes]
  BY <1>1, <1>2, <1>4
<1> QED BY <1>4, <1>5, <1>6

LEMMA RestingTyped == ASSUME Aged PROVE Resting \in Writes /\ Resting.pc = "idle" /\ Resting.kind = "none"
<1>1. Absent \in Known /\ Empty \in [Ids -> Known]
  BY KnownIs DEF Aged, Empty
<1> QED BY <1>1 DEF Resting, Writes

\* A write ends.
LEMMA GoesIdle ==
  ASSUME Aged, NEW w \in Writers, Goes(w, "idle")
  PROVE  /\ writer' \in [Writers -> Writes] /\ writer'[w].pc = "idle"
         /\ \A v \in Writers : v # w => writer'[v] = writer[v]
<1>1. writer \in [Writers -> Writes]
  BY DEF Aged
<1>2. writer' = [writer EXCEPT ![w] = Resting]
  BY DEF Goes
<1>3. Resting \in Writes /\ Resting.pc = "idle"
  BY RestingTyped
<1> HIDE DEF Resting
<1> QED BY <1>1, <1>2, <1>3

\* Who has read or published the document holds s.mu, and only he.
LEMMA OneSaver ==
  ASSUME Placed, NEW v \in Writers, NEW w \in Writers, At(v, "publish") \/ At(v, "record"), At(w, "publish") \/ At(w, "record")
  PROVE  v = w /\ mu = w
BY DEF Placed, Saving, At

LEMMA SavingThen ==
  ASSUME NEW w \in Writers, \A v \in Writers : v # w => writer'[v] = writer[v]
  PROVE  Saving' = IF writer'[w].pc \in {"publish", "record"} THEN Saving \cup {w} ELSE Saving \ {w}
BY DEF Saving

\* The writers, where one of them goes on.
LEMMA WritersWhen ==
  ASSUME Always, NEW w \in Writers, \A v \in Writers : v # w => writer'[v] = writer[v],
         parted \subseteq parted', Duty(w)', Held(w)',
         doc' = doc \/ At(w, "publish")
  PROVE  WritersOK'
<1> SUFFICES ASSUME NEW v \in Writers, v # w PROVE Duty(v)' /\ Held(v)'
  BY DEF WritersOK
<1>1. Duty(v) /\ Held(v) /\ writer'[v] = writer[v] /\ Changed(v)' = Changed(v)
  BY DEF Always, WritersOK, Changed
<1>2. Duty(v)'
  BY <1>1 DEF Duty, Active, At
<1>3. Held(v)'
  <2>1. CASE At(v, "publish") \/ At(v, "record")
    <3>1. doc' = doc
      BY <2>1, OneSaver DEF Always
    <3> QED BY <1>1, <3>1 DEF Held, At
  <2>2. CASE ~(At(v, "publish") \/ At(v, "record"))
    BY <1>1, <2>2 DEF Held, At
  <2> QED BY <2>1, <2>2
<1> QED BY <1>2, <1>3

LEMMA WritersSame ==
  ASSUME WritersOK, UNCHANGED <<doc, writer>>, parted \subseteq parted' PROVE WritersOK'
BY DEF WritersOK, Duty, Held, Active, At, Changed

LEMMA SavingSame == ASSUME Placed, UNCHANGED <<writer, mu>> PROVE (Saving = {mu} \ {None})'
BY DEF Placed, Saving

LEMMA PhasesSame ==
  ASSUME Phases, phase # "new", UNCHANGED <<phase, stored, current, due, reload>> PROVE Phases'
BY DEF Phases, Carriers

LEMMA PartedGrows ==
  ASSUME Placed, parted' = parted \cup Causes PROVE parted \subseteq parted' /\ parted' \subseteq Ids
BY DEF Placed, Causes

LEMMA BeginAged ==
  ASSUME Aged, NEW p \in Reloaders, reload'[p].updates = Nothing,
         \A q \in Reloaders : q # p => reload'[q] = reload[q], Known \subseteq Known'
  PROVE  \A r \in Reloaders : \A i \in Ids : reload'[r].updates[i] \in Known' \cup {NoUpdate}
<1> SUFFICES ASSUME NEW r \in Reloaders, NEW i \in Ids PROVE reload'[r].updates[i] \in Known' \cup {NoUpdate}
  OBVIOUS
<1>1. CASE r = p
  BY <1>1 DEF Nothing
<1>2. CASE r # p
  <2>1. reload[r].updates[i] \in Known \cup {NoUpdate}
    BY DEF Aged
  <2> QED BY <1>2, <2>1
<1> QED BY <1>1, <1>2

-----------------------------------------------------------------------------
LEMMA AlwaysInit == SyncInit => Always
<1> SUFFICES ASSUME SyncInit PROVE Always
  OBVIOUS
<1>1. changes = 0 /\ changes \in 0..MaxChanges
  BY SyncAssumption DEF SyncInit
<1>2. Absent \in Known /\ 1 \in Known /\ Absent \in Content /\ Known \subseteq Content
  <2>1. 1 \in 1..(1 + 0)
    OBVIOUS
  <2> QED BY <1>1, <2>1, KnownIs DEF Known
<1>3. Empty \in [Ids -> Known] /\ Empty \in [Ids -> Content] /\ doc \in [Ids -> Known]
  BY <1>2 DEF Empty, SyncInit
<1>4. reload \in [Reloaders -> Reload1] /\ \A r \in Reloaders : reload[r] = Idle
  BY IdleTyped DEF SyncInit
<1>5. writer \in [Writers -> Writes] /\ \A w \in Writers : writer[w] = Resting /\ writer[w].pc = "idle"
  <2>1. Resting \in Writes /\ Resting.pc = "idle"
    BY <1>2, <1>3 DEF Resting, Writes
  <2> HIDE DEF Resting
  <2> QED BY <2>1 DEF SyncInit
<1>6. \A r \in Reloaders : \A i \in Ids : reload[r].updates[i] = NoUpdate
  BY <1>4, IdleTyped DEF Nothing
<1>7. Aged
  <2>1. due \in [Ids -> Seq(Known)]
    BY DEF SyncInit
  <2> HIDE DEF Empty
  <2> QED BY <1>1, <1>3, <1>5, <1>6, <2>1 DEF Aged, SyncInit
<1>8. Placed
  BY <1>5 DEF Placed, SyncInit, Saving
<1>9. ReloadsOK
  <2>1. ReloadTypeOK
    BY <1>3, <1>4 DEF ReloadTypeOK, SyncInit, Reload1
  <2>2. Ordered /\ OvertakenWith
    BY <1>4, IdleTyped DEF Ordered, OvertakenWith
  <2> QED BY <2>1, <2>2 DEF ReloadsOK
<1>10. Unseen
  BY DEF Unseen, SyncInit
<1>11. WritersOK
  BY <1>5 DEF WritersOK, Duty, Held, Active, At
<1>12. Phases
  <2>1. \A i \in Ids : Carriers(i) = {} /\ due[i] = <<>>
    BY <1>6 DEF Carriers, SyncInit
  <2>2. \A r \in Reloaders : reload[r].pc = "idle"
    BY <1>4, IdleTyped
  <2>3. "store" \in Reloaders /\ "start" \in Reloaders
    BY DEF Reloaders
  <2> QED BY <1>5, <2>1, <2>2, <2>3 DEF Phases, SyncInit, Active
<1> QED BY <1>7, <1>8, <1>9, <1>10, <1>11, <1>12 DEF Always

\* The start of the service.
LEMMA AlwaysLoad == ASSUME Always, Load, parted' = parted \cup Causes PROVE Always'
<1>0. Aged /\ Placed /\ ReloadsOK /\ Unseen /\ WritersOK /\ Phases
  BY DEF Always
<1>1. Aged'
  <2>1. changes' = changes /\ UNCHANGED <<stored, current, due, reload, writer, heard, doc>>
    BY DEF Load
  <2>2. doc \in [Ids -> Known'] /\ manager' = doc /\ lastEntries' = doc
    BY <1>0, <2>1, KnownGrows DEF Aged, Load, Known
  <2> QED BY <1>0, <2>1, <2>2, AgedWhen DEF Aged
<1>2. Placed'
  BY <1>0, SavingSame, PartedGrows DEF Placed, Load
<1>3. ReloadsOK'
  BY <1>0 DEF ReloadsOK, ReloadTypeOK, Ordered, OvertakenWith, Carriers, Load
<1>4. \A i \in Ids : current[i] = Absent
  BY <1>0 DEF Phases, Load, Empty
<1>5. Unseen'
  BY <1>4 DEF Unseen, Load
<1>6. WritersOK'
  BY <1>0, WritersSame, PartedGrows DEF Load
<1>7. Phases'
  <2>1. "store" \in Reloaders /\ "start" \in Reloaders
    BY DEF Reloaders
  <2> QED BY <1>0, <2>1 DEF Phases, Load, Carriers
<1> QED BY <1>1, <1>2, <1>3, <1>5, <1>6, <1>7 DEF Always

LEMMA AlwaysList == ASSUME Always, List, parted' = parted \cup Causes PROVE Always'
<1>0. Aged /\ Placed /\ ReloadsOK /\ Unseen /\ WritersOK /\ Phases
  BY DEF Always
<1>1. Aged'
  <2>1. changes' = changes /\ UNCHANGED <<manager, current, due, reload, writer, heard, doc>>
    BY DEF List
  <2>2. doc \in [Ids -> Known'] /\ stored' = doc /\ lastEntries' = doc
    BY <1>0, <2>1 DEF Aged, List, Known
  <2> QED BY <1>0, <2>1, <2>2, AgedWhen DEF Aged
<1>2. Placed'
  BY <1>0, SavingSame, PartedGrows DEF Placed, List
<1>3. ReloadsOK'
  <2>1. stored' \in [Ids -> Content]
    BY <1>0, KnownIs DEF Aged, List
  <2> QED BY <1>0, <2>1 DEF ReloadsOK, ReloadTypeOK, Ordered, OvertakenWith, Carriers, List, histories
<1>5. Unseen'
  BY <1>0 DEF Unseen, List, histories
<1>6. WritersOK'
  BY <1>0, WritersSame, PartedGrows DEF List
<1>7. Phases'
  BY <1>0 DEF Phases, List
<1> QED BY <1>1, <1>2, <1>3, <1>5, <1>6, <1>7 DEF Always

LEMMA AlwaysWatch == ASSUME Always, Watch, parted' = parted \cup Causes PROVE Always'
<1>0. Aged /\ Placed /\ ReloadsOK /\ Unseen /\ WritersOK /\ Phases
  BY DEF Always
<1>1. Aged'
  <2>1. changes' = changes /\ UNCHANGED <<manager, stored, current, due, reload, writer, doc>>
    BY DEF Watch, reloadVars
  <2>2. doc \in [Ids -> Known'] /\ heard' = doc /\ lastEntries' = doc
    BY <1>0, <2>1 DEF Aged, Watch, Known
  <2> QED BY <1>0, <2>1, <2>2, AgedWhen DEF Aged
<1>2. Placed'
  BY <1>0, SavingSame, PartedGrows DEF Placed, Watch, reloadVars
<1>3. ReloadsOK' /\ Unseen'
  BY WatcherSame DEF Watch
<1>6. WritersOK'
  BY <1>0, WritersSame, PartedGrows DEF Watch
<1>7. Phases'
  BY <1>0 DEF Phases, Watch, reloadVars
<1> QED BY <1>1, <1>2, <1>3, <1>6, <1>7 DEF Always

LEMMA AlwaysFirstReload == ASSUME Always, FirstReload, parted' = parted \cup Causes PROVE Always'
<1>0. Aged /\ Placed /\ ReloadsOK /\ Unseen /\ WritersOK /\ Phases
  BY DEF Always
<1>01. "start" \in Reloaders /\ reload["start"].pc = "idle" /\ Begin("start", FALSE)
  BY <1>0 DEF Reloaders, Phases, FirstReload
<1>02. /\ changes' = changes
       /\ UNCHANGED <<stored, current, stage, stale, unknown, manager, due, doc, heard, lastEntries, mu, writer>>
  BY DEF FirstReload, histories, storeVars
<1>03. reload \in [Reloaders -> Reload1]
  BY <1>0 DEF ReloadsOK, ReloadTypeOK, Reload1
<1>04. /\ reload'["start"].updates = Nothing
       /\ \A q \in Reloaders : q # "start" => reload'[q] = reload[q]
  BY <1>01, <1>03, BeginTyped
<1>1. Aged'
  <2>1. Known' = Known
    BY <1>02 DEF Known
  <2>2. \A r \in Reloaders : \A i \in Ids : reload'[r].updates[i] \in Known' \cup {NoUpdate}
    BY <1>0, <1>04, <2>1 DEF Nothing, Aged
  <2> QED BY <1>0, <1>02, <2>2, AgedWhen DEF Aged
<1>2. Placed'
  BY <1>0, <1>02, SavingSame, PartedGrows DEF Placed, FirstReload
<1>3. ReloadsOK'
  <2>1. reload' \in [Reloaders -> Reload1] /\ Ordered' /\ OvertakenWith'
    BY <1>0, <1>01, BeginKeeps
  <2> QED BY <1>0, <1>02, <2>1 DEF ReloadsOK, ReloadTypeOK, Reload1
<1>5. Unseen'
  BY <1>0, <1>02 DEF Unseen
<1>6. WritersOK'
  BY <1>0, <1>02, WritersSame, PartedGrows
<1>7. Phases'
  BY DEF Phases, FirstReload
<1> QED BY <1>1, <1>2, <1>3, <1>5, <1>6, <1>7 DEF Always

-----------------------------------------------------------------------------
\* A change from outside parts what a write has read from the document.
LEMMA AlwaysEdit ==
  ASSUME Always, NEW j \in Ids, Edit(j), parted' = parted \cup Causes PROVE Always'
<1>0. Aged /\ Placed /\ ReloadsOK /\ Unseen /\ WritersOK /\ Phases
  BY DEF Always
<1>01. PICK c \in {Absent, Fresh} \ {doc[j]} : doc' = [doc EXCEPT ![j] = c]
  BY DEF Edit
<1>02. /\ UNCHANGED <<stored, current, reload, stage, stale, unknown, manager, due, heard, lastEntries, mu, phase, writer>>
       /\ Counted
  BY DEF Edit, reloadVars, histories
<1>03. /\ changes' \in 0..MaxChanges /\ changes' \in {changes, changes + 1} /\ Known \subseteq Known'
       /\ c \in Known'
  BY <1>0, <1>02, FreshIsNew, KnownGrows DEF Aged, Known
<1>04. doc \in [Ids -> Known] /\ doc'[j] = c /\ \A i \in Ids : i # j => doc'[i] = doc[i]
  BY <1>0, <1>01 DEF Aged
<1>1. Aged'
  <2>1. doc' \in [Ids -> Known']
    BY <1>01, <1>03, <1>04
  <2> QED BY <1>0, <1>02, <1>03, <2>1, AgedWhen
<1>2. Placed'
  BY <1>0, <1>02, SavingSame, PartedGrows DEF Placed
<1>3. ReloadsOK' /\ Unseen'
  BY <1>02, WatcherSame DEF reloadVars, histories
<1>4. WritersOK'
  <2> SUFFICES ASSUME NEW w \in Writers PROVE Duty(w)' /\ Held(w)'
    BY DEF WritersOK
  <2>1. Duty(w) /\ Held(w)
    BY <1>0 DEF WritersOK
  <2>2. Duty(w)'
    BY <1>02, <2>1 DEF Duty, Active, At
  <2>3. Held(w)'
    <3> SUFFICES ASSUME NEW i \in Ids \ parted', At(w, "publish") \/ At(w, "record")
                 PROVE  doc'[i] = doc[i]
      BY <1>0, <1>02, <2>1, PartedGrows DEF Held, At, Changed
    <3>1. Saving # {}
      BY DEF Saving, At
    <3>2. i # j
      <4>1. doc'[j] # doc[j]
        BY <1>01, <1>04
      <4>2. Undone(j)
        BY <1>02, <3>1, <4>1 DEF Undone, Edited
      <4> QED BY <4>2 DEF Causes
    <3> QED BY <1>04, <3>2
  <2> QED BY <2>2, <2>3
<1>5. Phases'
  BY <1>0, <1>02 DEF Phases, Carriers, Active
<1> QED BY <1>1, <1>2, <1>3, <1>4, <1>5 DEF Always

\* The listener.
LEMMA AlwaysNotify == ASSUME Always, Notify, parted' = parted \cup Causes PROVE Always'
<1>0. Aged /\ Placed /\ ReloadsOK /\ Unseen /\ WritersOK /\ Phases
  BY DEF Always
<1>01. /\ changes' = changes /\ UNCHANGED <<manager, due, doc, mu, phase, writer>>
       /\ heard' = doc /\ phase \in {"watching", "running"}
  BY DEF Notify
<1>02. Known' = Known /\ doc \in [Ids -> Known'] /\ doc \in [Ids -> Content]
  BY <1>0, <1>01, KnownIs DEF Known, Aged
<1>2. (Saving = {mu} \ {None})' /\ WritersOK'
  BY <1>0, <1>01, SavingSame, WritersSame, PartedGrows
<1>3. CASE UNCHANGED <<reloadVars, lastEntries>>
  <2>1. Aged'
    BY <1>0, <1>01, <1>02, <1>3, AgedWhen DEF Aged, reloadVars
  <2>2. ReloadsOK' /\ Unseen' /\ Placed'
    BY <1>0, <1>01, <1>2, <1>3, WatcherSame, PartedGrows DEF Placed
  <2>3. Phases'
    BY <1>0, <1>01, <1>3, PhasesSame DEF reloadVars
  <2> QED BY <1>2, <2>1, <2>2, <2>3 DEF Always
<1>4. CASE lastEntries' = doc /\ StoreChanged(doc)
  <2>1. /\ stored' = doc /\ UNCHANGED <<current, stage, stale, unknown>>
        /\ "store" \in Reloaders /\ Begin("store", TRUE) /\ reload["store"].pc = "idle"
    BY <1>4 DEF StoreChanged, histories, Reloaders
  <2>2. reload \in [Reloaders -> Reload1]
    BY <1>0 DEF ReloadsOK, ReloadTypeOK, Reload1
  <2>3. /\ reload'["store"].updates = Nothing
        /\ \A q \in Reloaders : q # "store" => reload'[q] = reload[q]
    BY <2>1, <2>2, BeginTyped
  <2>4. Aged'
    <3>1. \A r \in Reloaders : \A i \in Ids : reload'[r].updates[i] \in Known' \cup {NoUpdate}
      BY <1>0, <1>02, <2>1, <2>3, BeginAged
    <3> QED BY <1>0, <1>01, <1>02, <1>4, <2>1, <3>1, AgedWhen DEF Aged
  <2>5. ReloadsOK' /\ Unseen'
    <3>1. ReloadsOK'
      BY <1>0, <1>02, <1>4, StoreChangedKeeps
    <3> QED BY <1>0, <2>1, <3>1 DEF Unseen
  <2>6. Placed'
    BY <1>0, <1>01, <1>2, <2>1, PartedGrows DEF Placed
  <2>7. Phases'
    <3>1. "start" \in Reloaders /\ reload'["start"] = reload["start"]
      BY <2>3 DEF Reloaders
    <3> QED BY <1>0, <1>01, <3>1 DEF Phases
  <2> QED BY <1>2, <2>4, <2>5, <2>6, <2>7 DEF Always
<1> QED BY <1>3, <1>4 DEF Notify

LEMMA AlwaysReconfigure == ASSUME Always, Reconfigure, parted' = parted \cup Causes PROVE Always'
<1>0. Aged /\ Placed /\ ReloadsOK /\ Unseen /\ WritersOK /\ Phases
  BY DEF Always
<1>01. PICK force \in BOOLEAN : ConfigChanged(force)
  BY DEF Reconfigure
<1>02. /\ UNCHANGED <<stored, current, stage, stale, unknown, manager, due, doc, heard, lastEntries, mu, phase, writer>>
       /\ Counted /\ phase # "new"
       /\ "config" \in Reloaders /\ reload["config"].pc = "idle" /\ Begin("config", force)
  BY <1>01 DEF Reconfigure, ConfigChanged, storeVars, histories, Reloaders
<1>03. /\ changes' \in 0..MaxChanges /\ changes' \in {changes, changes + 1} /\ Known \subseteq Known'
  BY <1>0, <1>02, FreshIsNew, KnownGrows DEF Aged
<1>04. reload \in [Reloaders -> Reload1]
  BY <1>0 DEF ReloadsOK, ReloadTypeOK, Reload1
<1>05. /\ reload'["config"].updates = Nothing
       /\ \A q \in Reloaders : q # "config" => reload'[q] = reload[q]
  BY <1>02, <1>04, BeginTyped
<1>1. Aged'
  <2>1. \A r \in Reloaders : \A i \in Ids : reload'[r].updates[i] \in Known' \cup {NoUpdate}
    BY <1>0, <1>02, <1>03, <1>05, BeginAged
  <2> QED BY <1>0, <1>02, <1>03, <2>1, AgedWhen
<1>2. Placed'
  BY <1>0, <1>02, SavingSame, PartedGrows DEF Placed
<1>3. ReloadsOK' /\ Unseen'
  BY <1>0, <1>01, <1>02, ConfigChangedKeeps DEF Unseen
<1>4. WritersOK'
  BY <1>0, <1>02, WritersSame, PartedGrows
<1>5. Phases'
  <2>1. "start" \in Reloaders /\ "store" \in Reloaders /\ reload'["start"] = reload["start"] /\ reload'["store"] = reload["store"]
    BY <1>05 DEF Reloaders
  <2>2. ASSUME NEW i \in Ids, Carriers(i) = {} PROVE (Carriers(i) = {})'
    BY <1>05, <2>2 DEF Carriers, Nothing
  <2> QED BY <1>0, <1>02, <2>1, <2>2 DEF Phases
<1> QED BY <1>1, <1>2, <1>3, <1>4, <1>5 DEF Always

-----------------------------------------------------------------------------
LEMMA AlwaysStart ==
  ASSUME Always, NEW w \in Writers, NEW j \in Ids, NEW kind \in {"put", "delete", "refresh", "result"},
         NEW pc \in {"call", "read"}, NEW c, Start(w, j, kind, pc, c), c \in Known \cup {Fresh},
         kind = "delete" => c = Absent, kind \in {"put", "refresh"} => c = Fresh, pc = "call" => kind = "refresh",
         parted' = parted \cup Causes
  PROVE  Always'
<1>0. Aged /\ Placed /\ ReloadsOK /\ Unseen /\ WritersOK /\ Phases
  BY DEF Always
<1> DEFINE x == [pc |-> pc, kind |-> kind, id |-> j, content |-> c, loaded |-> Empty]
<1>01. /\ UNCHANGED <<stored, current, reload, stage, stale, unknown, manager, due, doc, heard, lastEntries, mu, phase>>
       /\ Counted /\ phase # "new" /\ ~Active(w) /\ writer' = [writer EXCEPT ![w] = x]
  BY DEF Start, reloadVars, histories, storeVars
<1>02. /\ changes' \in 0..MaxChanges /\ changes' \in {changes, changes + 1} /\ Known \subseteq Known'
       /\ c \in Known' /\ Fresh \notin {Absent, Disabled} /\ Absent \in Known
  BY <1>0, <1>01, FreshIsNew, KnownGrows, KnownIs DEF Aged
<1>03. writer \in [Writers -> Writes]
  BY <1>0 DEF Aged
<1>04. writer'[w] = x /\ \A v \in Writers : v # w => writer'[v] = writer[v]
  BY <1>01, <1>03
<1>05. /\ x.pc = pc /\ x.kind = kind /\ x.id = j /\ x.content = c
       /\ x \in Writes'
  <2>1. Empty \in [Ids -> Known']
    BY <1>02 DEF Empty
  <2> QED BY <1>02, <2>1 DEF Writes
<1> HIDE DEF x
<1>1. Aged'
  <2>1. writer' \in [Writers -> Writes']
    <3>1. \A y \in Writes : y \in Writes'
      BY <1>02, AgedGrows
    <3> QED BY <1>01, <1>03, <1>05, <3>1
  <2> QED BY <1>0, <1>01, <1>02, <2>1, AgedWhen
<1>2. Placed'
  <2>1. Saving' = Saving
    BY <1>01, <1>04, <1>05 DEF Saving, Active
  <2> QED BY <1>0, <1>01, <2>1, PartedGrows DEF Placed
<1>3. ReloadsOK' /\ Unseen'
  BY <1>01, WatcherSame DEF reloadVars, histories
<1>4. WritersOK'
  <2>1. Duty(w)'
    BY <1>02, <1>04, <1>05 DEF Duty, At
  <2>2. Held(w)'
    BY <1>04, <1>05 DEF Held, At
  <2> QED BY <1>0, <1>01, <1>04, <2>1, <2>2, WritersWhen, PartedGrows
<1>5. Phases'
  BY <1>0, <1>01, PhasesSame
<1> QED BY <1>1, <1>2, <1>3, <1>4, <1>5 DEF Always

\* A write at work, and the service has started.
LEMMA WriterThere ==
  ASSUME Always, NEW w \in Writers, Active(w)
  PROVE  phase # "new" /\ writer[w] \in Writes /\ writer[w].id \in Ids /\ writer[w].content \in Known
BY DEF Always, Phases, WritersOK, Duty, Aged, Writes

LEMMA AlwaysStoreRefreshed ==
  ASSUME Always, NEW w \in Writers, StoreRefreshed(w), parted' = parted \cup Causes PROVE Always'
<1>0. Aged /\ Placed /\ ReloadsOK /\ Unseen /\ WritersOK /\ Phases
  BY DEF Always
<1>01. /\ UNCHANGED <<stored, current, reload, stage, stale, unknown, due, doc, heard, lastEntries, mu, phase, changes>>
       /\ At(w, "call") /\ Active(w) /\ manager' = [manager EXCEPT ![writer[w].id] = writer[w].content] /\ Goes(w, "read")
  BY DEF StoreRefreshed, reloadVars, histories, storeVars, At, Active
<1>02. phase # "new" /\ writer[w].content \in Known /\ Known' = Known
  BY <1>01, WriterThere DEF Known
<1>03. /\ writer' \in [Writers -> Writes] /\ writer'[w].pc = "read"
       /\ writer'[w].kind = writer[w].kind /\ writer'[w].id = writer[w].id
       /\ writer'[w].content = writer[w].content
       /\ \A v \in Writers : v # w => writer'[v] = writer[v]
  BY <1>0, <1>01, GoesOn
<1>1. Aged'
  <2>1. manager' \in [Ids -> Known']
    BY <1>0, <1>01, <1>02 DEF Aged
  <2>2. writer' \in [Writers -> Writes']
    BY <1>02, <1>03 DEF Writes
  <2> QED BY <1>0, <1>01, <2>1, <2>2, AgedWhen DEF Aged
<1>2. Placed'
  <2>1. Saving' = Saving
    BY <1>01, <1>03 DEF Saving, At
  <2> QED BY <1>0, <1>01, <2>1, PartedGrows DEF Placed
<1>3. ReloadsOK' /\ Unseen'
  BY <1>01, WatcherSame DEF reloadVars, histories
<1>4. WritersOK'
  <2>1. Duty(w)'
    BY <1>0, <1>01, <1>03 DEF WritersOK, Duty, At
  <2>2. Held(w)'
    BY <1>03 DEF Held, At
  <2> QED BY <1>0, <1>01, <1>03, <2>1, <2>2, WritersWhen, PartedGrows
<1>5. Phases'
  BY <1>0, <1>01, <1>02, PhasesSame
<1> QED BY <1>1, <1>2, <1>3, <1>4, <1>5 DEF Always

LEMMA AlwaysReadDocument ==
  ASSUME Always, NEW w \in Writers, ReadDocument(w), parted' = parted \cup Causes PROVE Always'
<1>0. Aged /\ Placed /\ ReloadsOK /\ Unseen /\ WritersOK /\ Phases
  BY DEF Always
<1>01. /\ UNCHANGED <<stored, current, reload, stage, stale, unknown, manager, due, doc, heard, lastEntries, phase, changes>>
       /\ At(w, "read") /\ Active(w) /\ mu = None /\ mu' = w
       /\ writer' = [writer EXCEPT ![w].pc = "publish", ![w].loaded = doc]
  BY DEF ReadDocument, reloadVars, histories, At, Active
<1>02. phase # "new" /\ Known' = Known /\ writer[w] \in Writes /\ doc \in [Ids -> Known] /\ writer \in [Writers -> Writes]
  BY <1>0, <1>01, WriterThere DEF Known, Aged
<1> DEFINE x == [writer[w] EXCEPT !.pc = "publish", !.loaded = doc]
<1>03. /\ x \in Writes /\ x.pc = "publish" /\ x.loaded = doc
       /\ x.kind = writer[w].kind /\ x.id = writer[w].id /\ x.content = writer[w].content
  BY <1>02 DEF Writes
<1>04. writer' = [writer EXCEPT ![w] = x]
  BY <1>01, <1>02
<1> HIDE DEF x
<1>05. writer' \in [Writers -> Writes] /\ writer'[w] = x /\ \A v \in Writers : v # w => writer'[v] = writer[v]
  BY <1>02, <1>03, <1>04
<1>1. Aged'
  <2>2. writer' \in [Writers -> Writes']
    BY <1>02, <1>05 DEF Writes
  <2> QED BY <1>0, <1>01, <2>2, AgedWhen DEF Aged
<1>2. Placed'
  <2>1. Saving' = Saving \cup {w}
    BY <1>03, <1>05, SavingThen
  <2>2. w # None
    BY SyncAssumption
  <2> QED BY <1>0, <1>01, <2>1, <2>2, PartedGrows DEF Placed
<1>3. ReloadsOK' /\ Unseen'
  BY <1>01, WatcherSame DEF reloadVars, histories
<1>4. WritersOK'
  <2>1. Duty(w)'
    BY <1>0, <1>01, <1>03, <1>05 DEF WritersOK, Duty, At
  <2>2. Held(w)'
    BY <1>01, <1>03, <1>05 DEF Held, At
  <2> QED BY <1>0, <1>01, <1>05, <2>1, <2>2, WritersWhen, PartedGrows
<1>5. Phases'
  BY <1>0, <1>01, <1>02, PhasesSame
<1> QED BY <1>1, <1>2, <1>3, <1>4, <1>5 DEF Always

\* What a write makes of the document it has read.
LEMMA ChangedTyped ==
  ASSUME Always, NEW w \in Writers, Active(w)
  PROVE  /\ Changed(w) \in [Ids -> Known] /\ Changed(w)[writer[w].id] = writer[w].content
         /\ \A i \in Ids : i # writer[w].id => Changed(w)[i] = writer[w].loaded[i]
<1>1. writer[w].loaded \in [Ids -> Known] /\ writer[w].id \in Ids /\ writer[w].content \in Known
  BY WriterThere DEF Writes
<1> QED BY <1>1 DEF Changed

LEMMA AlwaysPublish ==
  ASSUME Always, NEW w \in Writers, Publish(w), parted' = parted \cup Causes PROVE Always'
<1>0. Aged /\ Placed /\ ReloadsOK /\ Unseen /\ WritersOK /\ Phases
  BY DEF Always
<1>01. /\ UNCHANGED <<stored, current, reload, stage, stale, unknown, manager, due, heard, lastEntries, mu, phase, changes>>
       /\ At(w, "publish") /\ Active(w) /\ doc' = Changed(w) /\ Goes(w, "record")
  BY DEF Publish, reloadVars, histories, At, Active
<1>02. phase # "new" /\ Known' = Known
  BY <1>01, WriterThere DEF Known
<1>03. /\ writer' \in [Writers -> Writes] /\ writer'[w].pc = "record"
       /\ writer'[w].kind = writer[w].kind /\ writer'[w].id = writer[w].id
       /\ writer'[w].content = writer[w].content /\ writer'[w].loaded = writer[w].loaded
       /\ \A v \in Writers : v # w => writer'[v] = writer[v]
  BY <1>0, <1>01, GoesOn
<1>1. Aged'
  <2>1. doc' \in [Ids -> Known']
    BY <1>01, <1>02, ChangedTyped
  <2>2. writer' \in [Writers -> Writes']
    BY <1>02, <1>03 DEF Writes
  <2> QED BY <1>0, <1>01, <2>1, <2>2, AgedWhen DEF Aged
<1>2. Placed'
  <2>1. Saving' = Saving
    BY <1>01, <1>03 DEF Saving, At
  <2> QED BY <1>0, <1>01, <2>1, PartedGrows DEF Placed
<1>3. ReloadsOK' /\ Unseen'
  BY <1>01, WatcherSame DEF reloadVars, histories
<1>4. WritersOK'
  <2>1. Duty(w)'
    BY <1>0, <1>01, <1>03 DEF WritersOK, Duty, At
  <2>2. Held(w)'
    <3>1. Changed(w)' = Changed(w)
      BY <1>03 DEF Changed
    <3> QED BY <1>01, <1>03, <3>1 DEF Held, At
  <2> QED BY <1>0, <1>01, <1>03, <2>1, <2>2, WritersWhen, PartedGrows
<1>5. Phases'
  BY <1>0, <1>01, <1>02, PhasesSame
<1> QED BY <1>1, <1>2, <1>3, <1>4, <1>5 DEF Always

LEMMA AlwaysFail ==
  ASSUME Always, NEW w \in Writers, Fail(w), parted' = parted \cup Causes PROVE Always'
<1>0. Aged /\ Placed /\ ReloadsOK /\ Unseen /\ WritersOK /\ Phases
  BY DEF Always
<1>01. /\ UNCHANGED <<stored, current, reload, stage, stale, unknown, manager, due, heard, lastEntries, phase, changes>>
       /\ At(w, "publish") /\ Active(w) /\ doc' \in {doc, Changed(w)} /\ mu' = None /\ Goes(w, "idle")
  BY DEF Fail, reloadVars, histories, At, Active
<1>02. phase # "new" /\ Known' = Known
  BY <1>01, WriterThere DEF Known
<1>03. /\ writer' \in [Writers -> Writes] /\ writer'[w].pc = "idle"
       /\ \A v \in Writers : v # w => writer'[v] = writer[v]
  BY <1>0, <1>01, GoesIdle
<1>1. Aged'
  <2>1. doc' \in [Ids -> Known']
    BY <1>0, <1>01, <1>02, ChangedTyped DEF Aged
  <2>2. writer' \in [Writers -> Writes']
    BY <1>02, <1>03 DEF Writes
  <2> QED BY <1>0, <1>01, <2>1, <2>2, AgedWhen DEF Aged
<1>2. Placed'
  <2>1. Saving' = Saving \ {w}
    BY <1>03, SavingThen
  <2>2. mu = w
    BY <1>0, <1>01, OneSaver
  <2> QED BY <1>0, <1>01, <2>1, <2>2, PartedGrows DEF Placed
<1>3. ReloadsOK' /\ Unseen'
  BY <1>01, WatcherSame DEF reloadVars, histories
<1>4. WritersOK'
  <2>1. Duty(w)' /\ Held(w)'
    BY <1>03 DEF Duty, Held, Active, At
  <2> QED BY <1>0, <1>01, <1>03, <2>1, WritersWhen, PartedGrows
<1>5. Phases'
  BY <1>0, <1>01, <1>02, PhasesSame
<1> QED BY <1>1, <1>2, <1>3, <1>4, <1>5 DEF Always

\* What is left of a write whose document is recorded.
LEMMA RecordGoes ==
  ASSUME Always, NEW w \in Writers, Record(w)
  PROVE  /\ writer' \in [Writers -> Writes]
         /\ \A v \in Writers : v # w => writer'[v] = writer[v]
         /\ writer[w].kind \notin {"put", "delete"} => writer'[w] = Resting /\ writer'[w].pc = "idle"
         /\ writer[w].kind \in {"put", "delete"} =>
              /\ writer'[w].pc = "apply" /\ writer'[w].kind = writer[w].kind
              /\ writer'[w].id = writer[w].id /\ writer'[w].content = writer[w].content
<1>1. writer \in [Writers -> Writes] /\ Aged
  BY DEF Aged, Always
<1> DEFINE y == [writer[w] EXCEPT !.pc = "apply", !.loaded = Empty]
           x == IF writer[w].kind \in {"put", "delete"} THEN y ELSE Resting
<1>2. writer' = [writer EXCEPT ![w] = x]
  BY DEF Record
<1>3. /\ y \in Writes /\ y.pc = "apply" /\ y.kind = writer[w].kind /\ y.id = writer[w].id
      /\ y.content = writer[w].content
  <2>1. Empty \in [Ids -> Known] /\ writer[w] \in Writes
    BY <1>1, KnownIs DEF Empty, Aged
  <2> QED BY <2>1 DEF Writes
<1>4. Resting \in Writes /\ Resting.pc = "idle"
  BY <1>1, RestingTyped
<1> HIDE DEF y, Resting
<1>5. x \in Writes
  BY <1>3, <1>4
<1>6. writer'[w] = x /\ \A v \in Writers : v # w => writer'[v] = writer[v]
  BY <1>1, <1>2
<1>7. writer' \in [Writers -> Writes]
  BY <1>1, <1>2, <1>5
<1> QED BY <1>3, <1>4, <1>6, <1>7

LEMMA AlwaysRecord ==
  ASSUME Always, NEW w \in Writers, Record(w), parted' = parted \cup Causes PROVE Always'
<1>0. Aged /\ Placed /\ ReloadsOK /\ Unseen /\ WritersOK /\ Phases
  BY DEF Always
<1>01. /\ UNCHANGED <<stored, current, reload, stage, stale, unknown, manager, due, doc, heard, phase, changes>>
       /\ At(w, "record") /\ Active(w) /\ mu' = None /\ lastEntries' = Changed(w)
  BY DEF Record, reloadVars, histories, At, Active
<1>02. phase # "new" /\ Known' = Known /\ writer[w].id \in Ids
  BY <1>01, WriterThere DEF Known
<1>03. /\ writer' \in [Writers -> Writes]
       /\ \A v \in Writers : v # w => writer'[v] = writer[v]
       /\ writer[w].kind \notin {"put", "delete"} => writer'[w].pc = "idle"
       /\ writer[w].kind \in {"put", "delete"} =>
              /\ writer'[w].pc = "apply" /\ writer'[w].kind = writer[w].kind
              /\ writer'[w].id = writer[w].id /\ writer'[w].content = writer[w].content
  BY RecordGoes
<1>1. Aged'
  <2>1. lastEntries' \in [Ids -> Known']
    BY <1>01, <1>02, ChangedTyped
  <2>2. writer' \in [Writers -> Writes']
    BY <1>02, <1>03 DEF Writes
  <2> QED BY <1>0, <1>01, <2>1, <2>2, AgedWhen DEF Aged
<1>2. Placed'
  <2>1. Saving' = Saving \ {w}
    BY <1>03, SavingThen
  <2>2. mu = w
    BY <1>0, <1>01, OneSaver
  <2> QED BY <1>0, <1>01, <2>1, <2>2, PartedGrows DEF Placed
<1>3. ReloadsOK' /\ Unseen'
  BY <1>01, WatcherSame DEF reloadVars, histories
<1>4. WritersOK'
  <2>1. Duty(w)'
    BY <1>0, <1>01, <1>02, <1>03 DEF WritersOK, Duty, Active, At
  <2>2. Held(w)'
    BY <1>03 DEF Held, At
  <2> QED BY <1>0, <1>01, <1>03, <2>1, <2>2, WritersWhen, PartedGrows
<1>5. Phases'
  BY <1>0, <1>01, <1>02, PhasesSame
<1> QED BY <1>1, <1>2, <1>3, <1>4, <1>5 DEF Always

LEMMA AlwaysApplyOwn ==
  ASSUME Always, NEW w \in Writers, ApplyOwn(w), parted' = parted \cup Causes PROVE Always'
<1>0. Aged /\ Placed /\ ReloadsOK /\ Unseen /\ WritersOK /\ Phases
  BY DEF Always
<1> DEFINE j == writer[w].id
           m == IF writer[w].kind = "put" THEN writer[w].content ELSE IF manager[j] = Absent THEN Absent ELSE Disabled
<1>01. /\ UNCHANGED <<stored, current, reload, stage, stale, due, doc, heard, lastEntries, mu, phase, changes>>
       /\ At(w, "apply") /\ Active(w) /\ Goes(w, "idle") /\ manager' = [manager EXCEPT ![j] = m]
       /\ unknown' = IF manager'[j] # Absent /\ current[j] = Absent THEN unknown \cup {j} ELSE unknown
  BY DEF ApplyOwn, storeVars, At, Active
<1>02. phase # "new" /\ Known' = Known /\ j \in Ids /\ m \in Known
  BY <1>0, <1>01, WriterThere, KnownIs DEF Known, Aged
<1>03. /\ writer' \in [Writers -> Writes] /\ writer'[w].pc = "idle"
       /\ \A v \in Writers : v # w => writer'[v] = writer[v]
  BY <1>0, <1>01, GoesIdle
<1> HIDE DEF j, m
<1>1. Aged'
  <2>1. manager' \in [Ids -> Known']
    BY <1>0, <1>01, <1>02 DEF Aged
  <2>2. writer' \in [Writers -> Writes']
    BY <1>02, <1>03 DEF Writes
  <2> QED BY <1>0, <1>01, <2>1, <2>2, AgedWhen DEF Aged
<1>2. Placed'
  <2>1. Saving' = Saving
    BY <1>01, <1>03 DEF Saving, At
  <2> QED BY <1>0, <1>01, <2>1, PartedGrows DEF Placed
<1>3. ReloadsOK'
  BY <1>0, <1>01, <1>02 DEF ReloadsOK, ReloadTypeOK, Ordered, OvertakenWith, Carriers
<1>4. Unseen'
  BY <1>0, <1>01 DEF Unseen
<1>5. WritersOK'
  <2>1. Duty(w)' /\ Held(w)'
    BY <1>03 DEF Duty, Held, Active, At
  <2> QED BY <1>0, <1>01, <1>03, <2>1, WritersWhen, PartedGrows
<1>6. Phases'
  BY <1>0, <1>01, <1>02, PhasesSame
<1> QED BY <1>1, <1>2, <1>3, <1>4, <1>5, <1>6 DEF Always

-----------------------------------------------------------------------------
\* The differences a comparison finds.
LEMMA ComparedWith ==
  ASSUME Aged, ReloadsOK, stage = "running", NEW r \in Reloaders, Compare(r)
  PROVE  /\ reload[r].pc = "loaded" /\ current' = stored /\ UNCHANGED <<stored, stage, stale>>
         /\ unknown' = {i \in unknown : stored[i] = Absent}
         /\ reload'[r].updates = Difference(reload[r].force) /\ reload'[r].overtaken = {}
         /\ reload'[r].pc # "compared" => reload'[r] = Idle
         /\ reload'[r].pc = "compared" => reload'[r].earlier = {q \in Reloaders : reload[q].pc = "compared"}
         /\ \A q \in Reloaders : q # r => reload'[q] = reload[q]
         /\ \A i \in Ids : /\ reload'[r].updates[i] \in {stored[i], NoUpdate}
                           /\ reload'[r].updates[i] = NoUpdate => current[i] = stored[i]
                           /\ current[i] = Absent /\ stored[i] = Absent => reload'[r].updates[i] = NoUpdate
<1>1. ReloadTypeOK /\ HasQueue
  BY DEF ReloadsOK, HasQueue
<1> DEFINE u == Difference(reload[r].force)
<1>2. /\ reload'[r].updates = u /\ reload'[r].overtaken = {}
      /\ reload'[r].pc # "compared" => reload'[r] = Idle
      /\ reload'[r].pc = "compared" => reload'[r].earlier = {q \in Reloaders : reload[q].pc = "compared"}
      /\ \A q \in Reloaders : q # r => reload'[q] = reload[q]
  BY <1>1, CompareTyped
<1>3. ASSUME NEW i \in Ids
      PROVE  /\ u[i] \in {stored[i], NoUpdate} /\ (u[i] = NoUpdate => current[i] = stored[i])
             /\ (current[i] = Absent /\ stored[i] = Absent => u[i] = NoUpdate)
  <2>1. stored[i] # NoUpdate /\ Absent # NoUpdate
    BY KnownIs DEF Aged
  <2>2. u[i] = IF stored[i] # Absent /\ (reload[r].force \/ current[i] # stored[i]) THEN stored[i]
               ELSE IF stored[i] = Absent /\ current[i] # Absent THEN Absent
               ELSE NoUpdate
    BY DEF Difference
  <2> HIDE DEF u
  <2> QED BY <2>1, <2>2
<1> HIDE DEF u
<1> QED BY <1>2, <1>3 DEF u, Compare

LEMMA AlwaysCompare ==
  ASSUME Always, NEW r \in Reloaders, Compare(r), UNCHANGED <<manager, due, storeVars, phase, writer, changes>>,
         parted' = parted \cup Causes
  PROVE  Always'
<1>0. Aged /\ Placed /\ ReloadsOK /\ Unseen /\ WritersOK /\ Phases /\ stage = "running"
  BY DEF Always, Placed
<1>01. /\ UNCHANGED <<manager, due, doc, heard, lastEntries, mu, phase, writer, changes>> /\ Known' = Known
  BY DEF storeVars, Known
<1>02. /\ reload[r].pc = "loaded" /\ current' = stored /\ UNCHANGED <<stored, stage>>
       /\ unknown' = {i \in unknown : stored[i] = Absent}
       /\ reload'[r].pc # "compared" => reload'[r] = Idle
       /\ \A q \in Reloaders : q # r => reload'[q] = reload[q]
       /\ \A i \in Ids : /\ reload'[r].updates[i] \in {stored[i], NoUpdate}
                         /\ current[i] = Absent /\ stored[i] = Absent => reload'[r].updates[i] = NoUpdate
  BY <1>0, ComparedWith
<1>1. Aged'
  <2>1. ASSUME NEW q \in Reloaders, NEW i \in Ids PROVE reload'[q].updates[i] \in Known' \cup {NoUpdate}
    <3>1. stored[i] \in Known /\ reload[q].updates[i] \in Known \cup {NoUpdate}
      BY <1>0 DEF Aged
    <3> QED BY <1>01, <1>02, <3>1
  <2> QED BY <1>0, <1>01, <1>02, <2>1, AgedWhen DEF Aged
<1>2. Placed'
  BY <1>0, <1>01, <1>02, SavingSame, PartedGrows DEF Placed
<1>3. ReloadsOK' /\ Unseen'
  BY <1>0, <1>02, CompareKeeps DEF Unseen
<1>4. WritersOK'
  BY <1>0, <1>01, WritersSame, PartedGrows
<1>5. Phases'
  <2>1. phase # "new"
    BY <1>0, <1>02 DEF Phases
  <2>2. phase \in {"new", "loaded"} => stored = Empty /\ current = Empty /\ \A i \in Ids : Carriers(i) = {} /\ due[i] = <<>>
    BY <1>0 DEF Phases
  <2>3. ASSUME phase = "loaded", NEW i \in Ids PROVE (Carriers(i) = {})'
    <3>1. current[i] = Absent /\ stored[i] = Absent
      BY <2>2, <2>3 DEF Empty
    <3>2. reload'[r].updates[i] = NoUpdate
      BY <1>02, <3>1
    <3> QED BY <1>02, <2>2, <2>3, <3>2 DEF Carriers
  <2>4. \A q \in Reloaders : reload[q].pc = "idle" => reload'[q].pc = "idle"
    BY <1>02
  <2>5. "store" \in Reloaders /\ "start" \in Reloaders
    BY DEF Reloaders
  <2>6. phase' \in {"new", "loaded"} => /\ stored' = Empty /\ current' = Empty
                                        /\ \A i \in Ids : (Carriers(i) = {})' /\ due'[i] = <<>>
    BY <1>01, <1>02, <2>1, <2>2, <2>3
  <2>7. /\ phase' \in {"new", "loaded", "listed"} => reload'["store"].pc = "idle"
        /\ phase' # "running" => reload'["start"].pc = "idle"
    BY <1>0, <1>01, <2>4, <2>5 DEF Phases
  <2> QED BY <1>01, <2>1, <2>6, <2>7 DEF Phases
<1> QED BY <1>1, <1>2, <1>3, <1>4, <1>5 DEF Always

\* What is handed over of a credential comes last.
LEMMA HandedOver ==
  ASSUME Aged, NEW r \in Reloaders, HandOverDue(r)
  PROVE  /\ due' \in [Ids -> Seq(Known)]
         /\ \A i \in Ids : /\ r \notin Carriers(i) => due'[i] = due[i]
                           /\ r \in Carriers(i) => due'[i] # <<>> /\ Last(due'[i]) = reload[r].updates[i]
<1>1. ASSUME NEW i \in Ids
      PROVE  /\ due'[i] \in Seq(Known) /\ (r \notin Carriers(i) => due'[i] = due[i])
             /\ (r \in Carriers(i) => due'[i] # <<>> /\ Last(due'[i]) = reload[r].updates[i])
  <2>1. due'[i] \in Delivery!Joined(due[i], reload[r].updates[i]) /\ due[i] \in Seq(Known)
    BY DEF HandOverDue, Aged
  <2>2. CASE reload[r].updates[i] = NoUpdate
    <3>1. r \notin Carriers(i)
      BY <2>2 DEF Carriers
    <3>2. due'[i] = due[i]
      BY <2>1, <2>2 DEF Delivery!Joined
    <3> QED BY <2>1, <3>1, <3>2
  <2>3. CASE reload[r].updates[i] # NoUpdate
    <3> DEFINE u == reload[r].updates[i]
    <3>1. u \in Known
      BY <2>3 DEF Aged
    <3>2. due'[i] = Append(due[i], u) \/ (due[i] # <<>> /\ due'[i] = Append(Front(due[i]), u))
      BY <2>1, <2>3 DEF Delivery!Joined, Delivery!Front, Front
    <3>3. due[i] # <<>> => Front(due[i]) \in Seq(Known)
      BY <2>1 DEF Front
    <3>4. r \in Carriers(i)
      BY <2>3 DEF Carriers
    <3> HIDE DEF u
    <3>5. PICK s \in Seq(Known) : due'[i] = Append(s, u)
      BY <2>1, <3>2, <3>3
    <3>6. Append(s, u) \in Seq(Known) /\ Append(s, u) # <<>> /\ Last(Append(s, u)) = u
      BY <3>1, Ends
    <3>7. due'[i] \in Seq(Known) /\ due'[i] # <<>> /\ Last(due'[i]) = u
      BY <3>5, <3>6
    <3> QED BY <3>4, <3>7 DEF u
  <2> QED BY <2>2, <2>3
<1>2. \E T : due' \in [Ids -> T]
  BY DEF HandOverDue
<1> QED BY <1>1, <1>2

LEMMA AlwaysHandOver ==
  ASSUME Always, NEW r \in Reloaders, HandOverDue(r), UNCHANGED <<storeVars, phase, writer, changes>>,
         parted' = parted \cup Causes
  PROVE  Always'
<1>0. Aged /\ Placed /\ ReloadsOK /\ ReloadTypeOK /\ Unseen /\ WritersOK /\ Phases
  BY DEF Always, ReloadsOK
<1>01. /\ UNCHANGED <<manager, stored, current, stage, unknown, doc, heard, lastEntries, mu, phase, writer, changes>>
       /\ Known' = Known /\ HandOver(r) /\ reload[r].pc = "compared"
  BY DEF storeVars, Known, HandOverDue, HandOver
<1>02. /\ reload'[r] = Idle
       /\ \A q \in Reloaders : q # r => reload'[q].pc = reload[q].pc /\ reload'[q].updates = reload[q].updates
  BY <1>0, <1>01, HandOverTyped
<1>03. /\ due' \in [Ids -> Seq(Known)]
       /\ \A i \in Ids : r \notin Carriers(i) => due'[i] = due[i]
  BY <1>0, HandedOver
<1>1. Aged'
  <2>1. ASSUME NEW q \in Reloaders, NEW i \in Ids PROVE reload'[q].updates[i] \in Known' \cup {NoUpdate}
    <3>1. reload[q].updates[i] \in Known \cup {NoUpdate}
      BY <1>0 DEF Aged
    <3> QED BY <1>01, <1>02, <3>1, IdleTyped DEF Nothing
  <2> QED BY <1>0, <1>01, <1>03, <2>1, AgedWhen DEF Aged
<1>2. Placed'
  BY <1>0, <1>01, SavingSame, PartedGrows DEF Placed
<1>3. ReloadsOK' /\ Unseen'
  BY <1>0, <1>01, HandOverKeeps DEF Unseen
<1>4. WritersOK'
  BY <1>0, <1>01, WritersSame, PartedGrows
<1>5. Phases'
  <2>1. phase # "new"
    BY <1>0, <1>01 DEF Phases
  <2>2. phase \in {"new", "loaded"} => stored = Empty /\ current = Empty /\ \A i \in Ids : Carriers(i) = {} /\ due[i] = <<>>
    BY <1>0 DEF Phases
  <2>3. ASSUME phase = "loaded", NEW i \in Ids PROVE (Carriers(i) = {})' /\ due'[i] = <<>>
    BY <1>02, <1>03, <2>2, <2>3, IdleTyped DEF Carriers, Nothing
  <2>4. \A q \in Reloaders : reload[q].pc = "idle" => reload'[q].pc = "idle"
    BY <1>02, IdleTyped
  <2>5. "store" \in Reloaders /\ "start" \in Reloaders
    BY DEF Reloaders
  <2>6. phase' \in {"new", "loaded"} => /\ stored' = Empty /\ current' = Empty
                                        /\ \A i \in Ids : (Carriers(i) = {})' /\ due'[i] = <<>>
    BY <1>01, <1>02, <2>1, <2>2, <2>3
  <2>7. /\ phase' \in {"new", "loaded", "listed"} => reload'["store"].pc = "idle"
        /\ phase' # "running" => reload'["start"].pc = "idle"
    BY <1>0, <1>01, <2>4, <2>5 DEF Phases
  <2> QED BY <1>01, <2>1, <2>6, <2>7 DEF Phases
<1> QED BY <1>1, <1>2, <1>3, <1>4, <1>5 DEF Always

\* An update that reaches the manager.
LEMMA Reached ==
  ASSUME Aged, NEW j \in Ids, Delivery!Apply(j)
  PROVE  /\ manager' \in [Ids -> Known] /\ due' \in [Ids -> Seq(Known)]
         /\ due[j] # <<>> /\ due'[j] = Tail(due[j]) /\ manager'[j] = Head(due[j])
         /\ \A i \in Ids : i # j => due'[i] = due[i] /\ manager'[i] = manager[i]
<1>1. /\ due \in [Ids -> Seq(Known)] /\ manager \in [Ids -> Known]
      /\ due[j] # <<>> /\ due' = [due EXCEPT ![j] = Tail(due[j])] /\ manager' = [manager EXCEPT ![j] = Head(due[j])]
  BY DEF Delivery!Apply, Aged
<1>2. Tail(due[j]) \in Seq(Known) /\ Head(due[j]) \in Known
  BY <1>1, HeadTailProperties
<1> QED BY <1>1, <1>2

LEMMA AlwaysApply ==
  ASSUME Always, NEW j \in Ids, Delivery!Apply(j), UNCHANGED <<reloadVars, storeVars, phase, writer, changes>>,
         parted' = parted \cup Causes
  PROVE  Always'
<1>0. Aged /\ Placed /\ ReloadsOK /\ Unseen /\ WritersOK /\ Phases
  BY DEF Always
<1>01. /\ UNCHANGED <<stored, current, stage, reload, unknown, doc, heard, lastEntries, mu, phase, writer, changes>>
       /\ Known' = Known
  BY DEF storeVars, Known, reloadVars, histories
<1>02. /\ manager' \in [Ids -> Known] /\ due' \in [Ids -> Seq(Known)] /\ due[j] # <<>>
  BY <1>0, Reached
<1>1. Aged'
  BY <1>0, <1>01, <1>02, AgedWhen DEF Aged
<1>2. Placed'
  BY <1>0, <1>01, SavingSame, PartedGrows DEF Placed
<1>3. ReloadsOK' /\ Unseen'
  BY WatcherSame
<1>4. WritersOK'
  BY <1>0, <1>01, WritersSame, PartedGrows
<1>5. Phases'
  <2>1. phase \notin {"new", "loaded"}
    BY <1>0, <1>02 DEF Phases
  <2> QED BY <1>0, <1>01, <2>1 DEF Phases
<1> QED BY <1>1, <1>2, <1>3, <1>4, <1>5 DEF Always

\* The goroutine a writer is begins a write of one of four kinds.
LEMMA StartKinds ==
  ASSUME Always, NEW w \in Writers, NEW j \in Ids,
         StartPut(w, j) \/ StartDelete(w, j) \/ StartRefresh(w, j) \/ StartResult(w, j)
  PROVE  \E kind \in {"put", "delete", "refresh", "result"} : \E pc \in {"call", "read"} : \E c \in Known \cup {Fresh} :
           /\ Start(w, j, kind, pc, c) /\ (kind = "delete" => c = Absent) /\ (kind \in {"put", "refresh"} => c = Fresh)
           /\ (pc = "call" <=> kind = "refresh") /\ (kind = "refresh" => manager[j] \notin {Absent, Disabled})
           /\ (kind = "result" => c = manager[j])
<1>1. Absent \in Known /\ manager[j] \in Known
  BY KnownIs DEF Always, Aged
<1>2. CASE StartPut(w, j)
  BY <1>2 DEF StartPut
<1>3. CASE StartDelete(w, j)
  BY <1>1, <1>3 DEF StartDelete
<1>4. CASE StartRefresh(w, j)
  BY <1>4 DEF StartRefresh
<1>5. CASE StartResult(w, j)
  BY <1>1, <1>5 DEF StartResult
<1> QED BY <1>2, <1>3, <1>4, <1>5

LEMMA AlwaysStep == Always /\ [SyncNext]_syncVars => Always'
<1> SUFFICES ASSUME Always, [SyncNext]_syncVars PROVE Always'
  OBVIOUS
<1>1. CASE UNCHANGED syncVars
  BY <1>1 DEF syncVars, reloadVars, histories, storeVars, Always, Aged, Placed, ReloadsOK, ReloadTypeOK, Ordered, OvertakenWith,
       Carriers, Unseen, WritersOK, Duty, Held, Active, At, Changed, Phases, Saving, Known, Writes
<1>2. CASE SyncNext
  <2> SUFFICES ASSUME Step, parted' = parted \cup Causes PROVE Always'
    BY <1>2 DEF SyncNext
  <2>1. CASE Starting
    BY <2>1, AlwaysLoad, AlwaysList, AlwaysWatch, AlwaysFirstReload DEF Starting
  <2>2. ASSUME NEW i \in Ids, Edit(i) PROVE Always'
    BY <2>2, AlwaysEdit
  <2>3. CASE Notify
    BY <2>3, AlwaysNotify
  <2>4. CASE Reconfigure
    BY <2>4, AlwaysReconfigure
  <2>5. ASSUME NEW w \in Writers, Write(w) PROVE Always'
    <3>1. ASSUME NEW i \in Ids, StartPut(w, i) \/ StartDelete(w, i) \/ StartRefresh(w, i) \/ StartResult(w, i) PROVE Always'
      BY <3>1, StartKinds, AlwaysStart
    <3> QED BY <2>5, <3>1, AlwaysStoreRefreshed, AlwaysReadDocument, AlwaysPublish, AlwaysFail, AlwaysRecord, AlwaysApplyOwn
         DEF Write
  <2>6. CASE Watching
    BY <2>6, AlwaysCompare, AlwaysHandOver, AlwaysApply DEF Watching
  <2> QED BY <2>1, <2>2, <2>3, <2>4, <2>5, <2>6 DEF Step
<1> QED BY <1>1, <1>2

LEMMA AlwaysTyped == Always => SyncTypeOK
<1> SUFFICES ASSUME Always PROVE SyncTypeOK
  OBVIOUS
<1>1. Known \subseteq Content
  BY KnownIs DEF Always, Aged
<1>2. Writes \subseteq [pc : {"idle", "call", "read", "publish", "record", "apply"},
                        kind : {"none", "put", "delete", "refresh", "result"},
                        id : Ids \cup {None}, content : Content, loaded : [Ids -> Content]]
  BY <1>1 DEF Writes
<1>3. {manager, doc, heard, lastEntries} \subseteq [Ids -> Content] /\ \A i \in Ids : due[i] \in Seq(Content)
  BY <1>1 DEF Always, Aged
<1> QED BY <1>2, <1>3 DEF Always, Aged, Placed, ReloadsOK, SyncTypeOK

\* A write publishes what it has read, but for its own credential.
LEMMA PublishesOwn ==
  Always /\ [SyncNext]_syncVars =>
    \A w \in Writers, i \in Ids \ parted :
      At(w, "publish") /\ At(w, "record")' /\ doc'[i] # doc[i] => i = writer[w].id
<1> SUFFICES ASSUME Always, [SyncNext]_syncVars, NEW w \in Writers, NEW i \in Ids \ parted,
                    At(w, "publish"), At(w, "record")', doc'[i] # doc[i], i # writer[w].id
             PROVE  FALSE
  OBVIOUS
<1>1. writer'[w] # writer[w] /\ writer'[w].pc = "record"
  BY DEF At
<1>2. doc' # doc
  OBVIOUS
<1>3. Aged
  BY DEF Always
<1>4. ~UNCHANGED syncVars
  BY <1>2 DEF syncVars, storeVars
<1>5. ~Starting /\ ~Notify /\ ~Reconfigure /\ ~Watching /\ ~(\E j \in Ids : Edit(j))
  BY <1>1, <1>2 DEF Starting, Load, List, Watch, FirstReload, Notify, Reconfigure, Watching, Edit, storeVars
<1>6. PICK v \in Writers : Write(v)
  BY <1>4, <1>5 DEF SyncNext, Step
<1>7. Publish(v)
  <2>1. ~Fail(v)
    BY <1>1, <1>3, GoesIdle, OneSaver DEF Fail, At, Always
  <2> QED BY <1>2, <1>6, <2>1
       DEF Write, StartPut, StartDelete, StartRefresh, StartResult, Start, StoreRefreshed, ReadDocument, Record, ApplyOwn, storeVars
<1>8. v = w
  BY <1>7, OneSaver DEF Publish, Always
<1>9. doc'[i] = writer[w].loaded[i]
  BY <1>7, <1>8, ChangedTyped DEF Publish, Active, At
<1>10. writer[w].loaded[i] = doc[i]
  BY DEF Always, WritersOK, Held
<1> QED BY <1>9, <1>10

LEMMA SyncInvariant == SyncSpec => []Always
BY AlwaysInit, AlwaysStep, PTL DEF SyncSpec

\* Save and Delete (internal/nacos/auth_store.go) read the document, change one entry and publish
\* the whole of it: whatever else the process writes meanwhile, what they publish changes the entry
\* of their own credential only, s.mu held from the reading to the remembering. Of a credential that
\* somebody outside changed in between this cannot be said, and such a credential is parted.
THEOREM OwnWritesAlwaysKept == SyncSpec => OwnWritesKept
BY SyncInvariant, PublishesOwn, PTL DEF SyncSpec, OwnWritesKept

-----------------------------------------------------------------------------
\* What the manager will hold of a credential, and whether nothing handed over is late.
LastDue(i) == IF due[i] = <<>> THEN manager[i] ELSE Last(due[i])
Settled(i) == i \notin stale /\ \A r \in Carriers(i) : i \in reload[r].overtaken

Refreshing(i) ==
  \E w \in Writers : writer[w].id = i /\ writer[w].kind = "refresh" /\ writer[w].pc \in {"read", "publish", "record"}
Applying(i) == \E w \in Writers : writer[w].id = i /\ At(w, "apply")

\* A write that nothing else is under way with.
Alone(w, i) == Working(i) = {w} /\ ~UnderWay(i)

\* A document that the store does not know of is one the listener will be told of.
Told(i) ==
  phase \in {"watching", "running"} /\ doc[i] # lastEntries[i] /\ (\A w \in Writers : ~At(w, "record")) => heard # doc

\* What was stored and has not been compared is about to be.
Loading(i) ==
  current[i] # stored[i] =>
    \/ reload["store"].pc = "loaded"
    \/ current[i] = Absent /\ (phase \in {"loaded", "listed", "watching"} \/ reload["start"].pc = "loaded")

\* The newest update is what the last comparison saw.
FollowsNew(i) == \A r \in Reloaders : Newest(r, i) => reload[r].updates[i] = current[i]

\* What the watcher does not have the manager has not, unless it never had it.
GoneUnseen(i) == phase # "new" /\ current[i] = Absent /\ Settled(i) => LastDue(i) = Absent \/ i \in unknown

\* The manager will hold what the watcher has and the document says.
Heard(i) ==
  current[i] = stored[i] /\ current[i] # Absent /\ Settled(i) /\ doc[i] = current[i] /\ ~Refreshing(i)
    => LastDue(i) = current[i]

\* What the process wrote and the watcher does not know of is in the manager.
Own(i) ==
  phase \in {"watching", "running"} /\ lastEntries[i] # stored[i] =>
    /\ Carriers(i) = {} /\ due[i] = <<>>
    /\ lastEntries[i] = Absent /\ ~Applying(i) => manager[i] \in {Absent, Disabled} \/ i \in unknown
    /\ lastEntries[i] # Absent /\ doc[i] = lastEntries[i] /\ ~Applying(i) /\ ~Refreshing(i) => manager[i] = lastEntries[i]

\* A write that is alone writes something new, or what the manager holds.
Lonely(w, i) ==
  /\ At(w, "call") => manager[i] \notin {Absent, Disabled}
  /\ writer[w].kind \in {"put", "refresh"} =>
       /\ writer[w].pc \in {"call", "read", "publish"} =>
            writer[w].content \notin {current[i], stored[i], doc[i], lastEntries[i]}
       /\ At(w, "record") => writer[w].content # current[i]
  /\ writer[w].kind \in {"refresh", "result"} /\ writer[w].pc \in {"read", "publish", "record"} =>
       manager[i] = writer[w].content
  /\ At(w, "record") => doc[i] = writer[w].content
  /\ At(w, "apply") => doc[i] = writer[w].content /\ lastEntries[i] = writer[w].content
Writing(i) == \A w \in Writers : Alone(w, i) => Lonely(w, i)

Kept(i) == Loading(i) /\ FollowsNew(i) /\ GoneUnseen(i) /\ Heard(i) /\ Own(i) /\ Writing(i)
Tracks(i) == Told(i) /\ Kept(i)
InStep == \A i \in Ids \ parted : Tracks(i)

\* A credential that follows, and that the step does not part.
Spared(i) == i \in Ids /\ i \notin parted /\ i \notin Causes /\ Tracks(i)

-----------------------------------------------------------------------------
\* A step that does not part a credential meets no write of it that is not alone.
LEMMA OnlyAlone ==
  ASSUME NEW i \in Ids, Spared(i), NEW w \in Writers, Active(w), writer[w].id = i
  PROVE  Alone(w, i) /\ ~Edited(i)
<1>1. ~Crossed(i)
  BY DEF Spared, Causes
<1>2. w \in Working(i) /\ IsFiniteSet(Working(i))
  <2>1. Working(i) \subseteq Writers
    BY DEF Working
  <2>2. IsFiniteSet(Writers)
    BY SyncAssumption
  <2> QED BY <2>1, <2>2, FS_Subset DEF Working
<1>3. ~UnderWay(i) /\ ~(Cardinality(Working(i)) > 1) /\ ~Edited(i)
  BY <1>1, <1>2 DEF Crossed
<1>4. Working(i) = {w}
  <2> DEFINE rest == Working(i) \ {w}
  <2>1. IsFiniteSet(rest) /\ Cardinality(rest) = Cardinality(Working(i)) - 1
    BY <1>2, FS_RemoveElement
  <2>2. Cardinality(rest) \in Nat /\ Cardinality(Working(i)) \in Nat
    BY <1>2, <2>1, FS_CardinalityType
  <2>3. Cardinality(rest) = 0
    BY <1>3, <2>1, <2>2
  <2>4. rest = {}
    BY <2>1, <2>3, FS_EmptySet
  <2> QED BY <1>2, <2>4
<1> QED BY <1>3, <1>4 DEF Alone

\* A credential that a step does not touch.
Untouched(i) ==
  /\ UNCHANGED <<reload, stale, phase>>
  /\ stored'[i] = stored[i] /\ current'[i] = current[i] /\ doc'[i] = doc[i] /\ lastEntries'[i] = lastEntries[i]
  /\ manager'[i] = manager[i] /\ due'[i] = due[i] /\ (i \in unknown <=> i \in unknown')

WritersUntouched(i) ==
  \A w \in Writers : \/ writer'[w] = writer[w]
                     \/ (Active(w) => writer[w].id # i) /\ (Active(w)' => writer'[w].id # i)

LEMMA UnderWaySame ==
  ASSUME NEW i \in Ids, UNCHANGED reload, stored'[i] = stored[i], current'[i] = current[i], due'[i] = due[i]
  PROVE  UnderWay(i)' <=> UnderWay(i)
<1>1. \A force : Difference(force)'[i] = Difference(force)[i]
  BY DEF Difference
<1> QED BY <1>1 DEF UnderWay

LEMMA CarriersSame ==
  ASSUME UNCHANGED <<reload, stale>>, NEW i
  PROVE  Carriers(i)' = Carriers(i) /\ (Settled(i)' <=> Settled(i)) /\ \A r : Newest(r, i)' <=> Newest(r, i)
BY DEF Carriers, Settled, Newest

LEMMA WorkingSame ==
  ASSUME NEW i, WritersUntouched(i)
  PROVE  /\ Working(i)' = Working(i) /\ (Refreshing(i)' <=> Refreshing(i)) /\ (Applying(i)' <=> Applying(i))
         /\ \A w \in Working(i) : writer'[w] = writer[w]
<1>1. Working(i)' = Working(i)
  BY DEF WritersUntouched, Working, Active
<1>2. Refreshing(i)' <=> Refreshing(i)
  BY DEF WritersUntouched, Refreshing, Active
<1>3. Applying(i)' <=> Applying(i)
  BY DEF WritersUntouched, Applying, Active, At
<1>4. \A w \in Working(i) : writer'[w] = writer[w]
  BY DEF WritersUntouched, Working
<1> QED BY <1>1, <1>2, <1>3, <1>4

LEMMA Beside ==
  ASSUME NEW i \in Ids, Kept(i), Untouched(i), WritersUntouched(i) PROVE Kept(i)'
<1>1. Carriers(i)' = Carriers(i) /\ (Settled(i)' <=> Settled(i)) /\ \A r : Newest(r, i)' <=> Newest(r, i)
  BY CarriersSame DEF Untouched
<1>2. /\ Working(i)' = Working(i) /\ (Refreshing(i)' <=> Refreshing(i)) /\ (Applying(i)' <=> Applying(i))
      /\ \A w \in Working(i) : writer'[w] = writer[w]
  BY WorkingSame
<1>3. UnderWay(i)' <=> UnderWay(i)
  BY UnderWaySame DEF Untouched
<1>4. LastDue(i)' = LastDue(i)
  BY DEF LastDue, Untouched
<1>5. Loading(i)' /\ FollowsNew(i)' /\ GoneUnseen(i)'
  BY <1>1, <1>4 DEF Kept, Loading, FollowsNew, GoneUnseen, Untouched
<1>6. Heard(i)'
  BY <1>1, <1>2, <1>4 DEF Kept, Heard, Untouched
<1>7. Own(i)'
  BY <1>1, <1>2 DEF Kept, Own, Untouched
<1>8. Writing(i)'
  <2> SUFFICES ASSUME NEW w \in Writers, Alone(w, i)' PROVE Lonely(w, i)'
    BY DEF Writing
  <2>1. Alone(w, i) /\ w \in Working(i) /\ writer'[w] = writer[w]
    BY <1>2, <1>3 DEF Alone
  <2>2. Lonely(w, i)
    BY <2>1 DEF Kept, Writing
  <2> QED BY <2>1, <2>2 DEF Lonely, At, Untouched
<1> QED BY <1>5, <1>6, <1>7, <1>8 DEF Kept

-----------------------------------------------------------------------------
\* The start of the service: the manager and the watcher read the document.
LEMMA LoadStays == ASSUME Always, NEW i \in Ids, Spared(i), Load PROVE Tracks(i)'
<1>1. /\ UNCHANGED <<stored, current, reload, stale, due, doc, writer>>
      /\ phase' = "loaded" /\ manager' = doc /\ unknown' = {k \in Ids : doc[k] # Absent}
      /\ phase = "new" /\ current = Empty /\ stored = Empty /\ \A w \in Writers : ~Active(w)
      /\ Carriers(i) = {} /\ due[i] = <<>>
  BY DEF Load, Always, Phases
<1>2. Told(i)' /\ Own(i)'
  BY <1>1 DEF Told, Own
<1>3. Loading(i)' /\ current'[i] = Absent
  BY <1>1 DEF Loading, Empty
<1>4. FollowsNew(i)'
  BY <1>1 DEF FollowsNew, Newest, Carriers
<1>5. GoneUnseen(i)'
  BY <1>1 DEF GoneUnseen, LastDue
<1>6. Heard(i)'
  BY <1>3 DEF Heard
<1>7. Writing(i)'
  BY <1>1 DEF Writing, Alone, Working, Active
<1> QED BY <1>2, <1>3, <1>4, <1>5, <1>6, <1>7 DEF Kept, Tracks

\* Where no write changes, those that are alone were.
LEMMA WasAlone ==
  ASSUME NEW i \in Ids, Spared(i), UNCHANGED writer, NEW w \in Writers, Alone(w, i)'
  PROVE  /\ Alone(w, i) /\ Lonely(w, i) /\ ~Edited(i) /\ Active(w) /\ writer[w].id = i
<1>1. Active(w) /\ writer[w].id = i
  BY DEF Alone, Working, Active
<1> QED BY <1>1, OnlyAlone DEF Spared, Tracks, Kept, Writing

LEMMA ListStays == ASSUME Always, NEW i \in Ids, Spared(i), List PROVE Tracks(i)'
<1>1. /\ UNCHANGED <<current, reload, stale, unknown, manager, due, doc, writer>>
      /\ phase' = "listed" /\ phase = "loaded" /\ stored' = doc /\ lastEntries' = doc /\ current = Empty
  BY DEF List, histories, Always, Phases
<1>0. Kept(i) /\ current[i] = Absent
  BY <1>1 DEF Spared, Tracks, Empty
<1>01. Carriers(i)' = Carriers(i) /\ (Settled(i)' <=> Settled(i)) /\ \A r : Newest(r, i)' <=> Newest(r, i)
  BY <1>1, CarriersSame
<1>2. Told(i)' /\ Own(i)'
  BY <1>1 DEF Told, Own
<1>3. Loading(i)' /\ Heard(i)'
  BY <1>0, <1>1 DEF Loading, Heard
<1>4. FollowsNew(i)'
  BY <1>0, <1>01, <1>1 DEF FollowsNew, Kept
<1>5. GoneUnseen(i)'
  BY <1>0, <1>01, <1>1 DEF GoneUnseen, LastDue, Kept
<1>7. Writing(i)'
  <2> SUFFICES ASSUME NEW w \in Writers, Alone(w, i)' PROVE Lonely(w, i)'
    BY DEF Writing
  <2>1. Lonely(w, i)
    BY <1>1, WasAlone
  <2> QED BY <1>1, <2>1 DEF Lonely, At
<1> QED BY <1>2, <1>3, <1>4, <1>5, <1>7 DEF Kept, Tracks

LEMMA WatchStays == ASSUME Always, NEW i \in Ids, Spared(i), Watch PROVE Tracks(i)'
<1>1. /\ UNCHANGED <<stored, current, reload, stale, unknown, manager, due, doc, writer>>
      /\ phase' = "watching" /\ phase = "listed" /\ heard' = doc /\ lastEntries' = doc
  BY DEF Watch, reloadVars, histories
<1>0. Kept(i) /\ doc[i] = stored[i]
  BY <1>1 DEF Spared, Tracks, Causes, MissedAtStart
<1>01. Carriers(i)' = Carriers(i) /\ (Settled(i)' <=> Settled(i)) /\ \A r : Newest(r, i)' <=> Newest(r, i)
  BY <1>1, CarriersSame
<1>2. Told(i)' /\ Own(i)'
  BY <1>0, <1>1 DEF Told, Own
<1>3. Loading(i)'
  BY <1>0, <1>1 DEF Loading, Kept
<1>4. FollowsNew(i)'
  BY <1>0, <1>01, <1>1 DEF FollowsNew, Kept
<1>5. GoneUnseen(i)'
  BY <1>0, <1>01, <1>1 DEF GoneUnseen, LastDue, Kept
<1>6. Heard(i)'
  BY <1>0, <1>01, <1>1 DEF Heard, LastDue, Kept, Refreshing
<1>7. Writing(i)'
  <2> SUFFICES ASSUME NEW w \in Writers, Alone(w, i)' PROVE Lonely(w, i)'
    BY DEF Writing
  <2>1. Lonely(w, i)
    BY <1>1, WasAlone
  <2> QED BY <1>1, <2>1 DEF Lonely, At
<1> QED BY <1>2, <1>3, <1>4, <1>5, <1>6, <1>7 DEF Kept, Tracks

\* A reload begins and carries nothing yet.
LEMMA BeginSame ==
  ASSUME Always, NEW r \in Reloaders, NEW force \in BOOLEAN, reload[r].pc = "idle", Begin(r, force), UNCHANGED stale, NEW i \in Ids
  PROVE  /\ reload'[r].pc = "loaded" /\ \A q \in Reloaders : q # r => reload'[q] = reload[q]
         /\ Carriers(i)' = Carriers(i) /\ (Settled(i)' <=> Settled(i))
         /\ \A q \in Reloaders : Newest(q, i)' => Newest(q, i) /\ reload'[q].updates[i] = reload[q].updates[i]
<1>1. reload \in [Reloaders -> Reload1] /\ reload[r].updates = Nothing
  BY DEF Always, ReloadsOK, ReloadTypeOK, Reload1, Ordered
<1>2. /\ reload'[r].pc = "loaded" /\ reload'[r].updates = Nothing
      /\ \A q \in Reloaders : q # r => reload'[q] = reload[q]
  BY <1>1, BeginTyped
<1>3. r \notin Carriers(i) /\ r \notin Carriers(i)'
  BY <1>1, <1>2 DEF Carriers, Nothing
<1>4. Carriers(i)' = Carriers(i) /\ \A q \in Carriers(i) : q \in Reloaders /\ reload'[q] = reload[q]
  BY <1>2, <1>3 DEF Carriers
<1>5. Settled(i)' <=> Settled(i)
  BY <1>4 DEF Settled
<1>6. \A q \in Reloaders : Newest(q, i)' => Newest(q, i) /\ reload'[q].updates[i] = reload[q].updates[i]
  BY <1>4 DEF Newest
<1> QED BY <1>2, <1>4, <1>5, <1>6

\* Where a reload begins, and nothing of the credential changes.
LEMMA BeginBeside ==
  ASSUME Always, NEW i \in Ids, Spared(i), NEW r \in Reloaders, NEW force \in BOOLEAN, reload[r].pc = "idle", Begin(r, force),
         UNCHANGED <<stale, unknown, current, stored, doc, manager, due, lastEntries, writer>>,
         phase' = phase \/ (phase = "watching" /\ phase' = "running" /\ r = "start")
  PROVE  Kept(i)'
<1>0. Kept(i)
  BY DEF Spared, Tracks
<1>1. /\ reload'[r].pc = "loaded" /\ \A q \in Reloaders : q # r => reload'[q] = reload[q]
      /\ Carriers(i)' = Carriers(i) /\ (Settled(i)' <=> Settled(i))
      /\ \A q \in Reloaders : Newest(q, i)' => Newest(q, i) /\ reload'[q].updates[i] = reload[q].updates[i]
  BY BeginSame
<1>2. Loading(i)'
  <2>1. \A q \in Reloaders : reload[q].pc = "loaded" => reload'[q].pc = "loaded"
    BY <1>1
  <2>2. "start" \in Reloaders /\ "store" \in Reloaders
    BY DEF Reloaders
  <2> QED BY <1>0, <1>1, <2>1, <2>2 DEF Loading, Kept
<1>3. FollowsNew(i)'
  BY <1>0, <1>1 DEF FollowsNew, Kept
<1>4. GoneUnseen(i)'
  BY <1>0, <1>1 DEF GoneUnseen, LastDue, Kept
<1>5. Heard(i)'
  BY <1>0, <1>1 DEF Heard, LastDue, Kept, Refreshing
<1>6. Own(i)'
  <2>1. phase' \in {"watching", "running"} => phase \in {"watching", "running"}
    OBVIOUS
  <2> QED BY <1>0, <1>1, <2>1 DEF Own, Kept, Refreshing, Applying, At
<1>7. Writing(i)'
  <2> SUFFICES ASSUME NEW w \in Writers, Alone(w, i)' PROVE Lonely(w, i)'
    BY DEF Writing
  <2>1. Lonely(w, i)
    BY WasAlone
  <2> QED BY <2>1 DEF Lonely, At
<1> QED BY <1>2, <1>3, <1>4, <1>5, <1>6, <1>7 DEF Kept

LEMMA FirstReloadStays == ASSUME Always, NEW i \in Ids, Spared(i), FirstReload PROVE Tracks(i)'
<1>1. /\ UNCHANGED <<stale, unknown, current, stored, doc, heard, manager, due, lastEntries, writer>>
      /\ phase = "watching" /\ phase' = "running" /\ "start" \in Reloaders /\ reload["start"].pc = "idle"
      /\ Begin("start", FALSE) /\ FALSE \in BOOLEAN
  BY DEF FirstReload, histories, storeVars, Always, Phases, Reloaders
<1>2. Kept(i)'
  BY <1>1, BeginBeside
<1>3. Told(i)'
  BY <1>1 DEF Spared, Tracks, Told, At
<1> QED BY <1>2, <1>3 DEF Tracks

LEMMA ReconfigureStays == ASSUME Always, NEW i \in Ids, Spared(i), Reconfigure PROVE Tracks(i)'
<1>0. PICK force \in BOOLEAN : ConfigChanged(force)
  BY DEF Reconfigure
<1>1. /\ UNCHANGED <<stale, unknown, current, stored, doc, heard, manager, due, lastEntries, writer, phase>>
      /\ "config" \in Reloaders /\ reload["config"].pc = "idle" /\ Begin("config", force)
  BY <1>0 DEF Reconfigure, ConfigChanged, histories, storeVars, Reloaders
<1>2. Kept(i)'
  BY <1>1, BeginBeside
<1>3. Told(i)'
  BY <1>1 DEF Spared, Tracks, Told, At
<1> QED BY <1>2, <1>3 DEF Tracks

\* A change from outside meets no write, and is new or a removal.
LEMMA EditStays ==
  ASSUME Always, NEW i \in Ids, Spared(i), NEW j \in Ids, Edit(j) PROVE Tracks(i)'
<1>01. PICK c \in {Absent, Fresh} \ {doc[j]} : doc' = [doc EXCEPT ![j] = c]
  BY DEF Edit
<1>02. /\ UNCHANGED <<stored, current, reload, stage, stale, unknown, manager, due, heard, lastEntries, mu, phase, writer>>
       /\ Fresh \notin Known
  BY FreshIsNew DEF Edit, reloadVars, histories, Always, Aged
<1>03. /\ doc'[j] = c /\ doc'[j] # doc[j] /\ \A k \in Ids : k # j => doc'[k] = doc[k]
       /\ current[j] \in Known /\ lastEntries[j] \in Known
  BY <1>01 DEF Always, Aged
<1>04. Kept(i) /\ ~Untold(i)
  BY DEF Spared, Tracks, Causes
<1>1. Told(i)'
  BY <1>02, <1>03, <1>04 DEF Untold, Told
<1>2. CASE i # j
  <2>1. Untouched(i) /\ WritersUntouched(i)
    BY <1>02, <1>03, <1>2 DEF Untouched, WritersUntouched
  <2> QED BY <1>04, <1>1, <2>1, Beside DEF Tracks
<1>3. CASE i = j
  <2>1. \A w \in Writers : ~(Active(w) /\ writer[w].id = i)
    BY <1>02, <1>03, <1>3, OnlyAlone DEF Edited
  <2>2. Carriers(i)' = Carriers(i) /\ (Settled(i)' <=> Settled(i)) /\ \A r : Newest(r, i)' <=> Newest(r, i)
    BY <1>02, CarriersSame
  <2>3. Loading(i)' /\ FollowsNew(i)' /\ GoneUnseen(i)'
    BY <1>02, <1>04, <2>2 DEF Kept, Loading, FollowsNew, GoneUnseen, LastDue
  <2>4. Heard(i)'
    BY <1>02, <1>03, <1>3 DEF Heard
  <2>5. Own(i)'
    <3>1. ~Applying(i) /\ ~Refreshing(i)
      BY <2>1 DEF Applying, Refreshing, At, Active
    <3> QED BY <1>02, <1>03, <1>04, <1>3, <2>2, <3>1 DEF Own, Kept
  <2>6. Writing(i)'
    BY <1>02, <2>1 DEF Writing, Alone, Working, Active
  <2> QED BY <1>1, <2>3, <2>4, <2>5, <2>6 DEF Kept, Tracks
<1> QED BY <1>2, <1>3

\* The listener hears of the document: what it passes on is compared before anything is done about it.
LEMMA NotifyStays == ASSUME Always, NEW i \in Ids, Spared(i), Notify PROVE Tracks(i)'
<1>01. /\ UNCHANGED <<manager, due, doc, mu, phase, writer>>
       /\ heard' = doc /\ reload["store"].pc = "idle"
  BY DEF Notify
<1>1. CASE doc = lastEntries
  <2>1. UNCHANGED <<reload, stale, unknown, stored, current, lastEntries>>
    BY <1>1 DEF Notify, reloadVars, histories
  <2>2. Told(i)'
    BY <1>01, <1>1, <2>1 DEF Told
  <2>3. Untouched(i) /\ WritersUntouched(i)
    BY <1>01, <2>1 DEF Untouched, WritersUntouched
  <2> QED BY <2>2, <2>3, Beside DEF Spared, Tracks
<1>2. CASE doc # lastEntries
  <2>1. /\ UNCHANGED <<stale, unknown, current>> /\ stored' = doc /\ lastEntries' = doc
        /\ "store" \in Reloaders /\ TRUE \in BOOLEAN /\ Begin("store", TRUE)
    BY <1>2 DEF Notify, StoreChanged, histories, Reloaders
  <2>2. Told(i)'
    BY <1>01, <2>1 DEF Told
  <2>3. Kept(i)'
    <3>0. Kept(i)
      BY DEF Spared, Tracks
    <3>1. /\ reload'["store"].pc = "loaded"
          /\ Carriers(i)' = Carriers(i) /\ (Settled(i)' <=> Settled(i))
          /\ \A q \in Reloaders : Newest(q, i)' => Newest(q, i) /\ reload'[q].updates[i] = reload[q].updates[i]
      BY <1>01, <2>1, BeginSame
    <3>2. Loading(i)' /\ Own(i)'
      BY <2>1, <3>1 DEF Loading, Own
    <3>3. FollowsNew(i)'
      BY <2>1, <3>0, <3>1 DEF FollowsNew, Kept
    <3>4. GoneUnseen(i)'
      BY <1>01, <2>1, <3>0, <3>1 DEF GoneUnseen, LastDue, Kept
    <3>5. Heard(i)'
      <4>1. current[i] # stored[i] => current[i] = Absent
        BY <1>01, <3>0 DEF Kept, Loading
      <4>2. Heard(i)
        BY <3>0 DEF Kept
      <4> QED BY <1>01, <2>1, <3>1, <4>1, <4>2 DEF Heard, LastDue, Refreshing
    <3>6. Writing(i)'
      <4> SUFFICES ASSUME NEW w \in Writers, Alone(w, i)' PROVE Lonely(w, i)'
        BY DEF Writing
      <4>1. Lonely(w, i)
        BY <1>01, WasAlone
      <4> QED BY <1>01, <2>1, <4>1 DEF Lonely, At
    <3> QED BY <3>2, <3>3, <3>4, <3>5, <3>6 DEF Kept
  <2> QED BY <2>2, <2>3 DEF Tracks
<1> QED BY <1>1, <1>2

-----------------------------------------------------------------------------
\* A write begins.
LEMMA StartStays ==
  ASSUME Always, NEW i \in Ids, Spared(i), NEW w \in Writers, NEW j \in Ids, NEW kind \in {"put", "delete", "refresh", "result"},
         NEW pc \in {"call", "read"}, NEW c, Start(w, j, kind, pc, c),
         kind \in {"put", "refresh"} => c = Fresh, pc = "call" <=> kind = "refresh",
         kind = "refresh" => manager[j] \notin {Absent, Disabled}, kind = "result" => c = manager[j]
  PROVE  Tracks(i)'
<1> DEFINE x == [pc |-> pc, kind |-> kind, id |-> j, content |-> c, loaded |-> Empty]
<1>01. /\ UNCHANGED <<stored, current, reload, stage, stale, unknown, manager, due, doc, heard, lastEntries, mu, phase>>
       /\ Counted /\ ~Active(w) /\ writer' = [writer EXCEPT ![w] = x]
  BY DEF Start, reloadVars, histories, storeVars
<1>02. writer \in [Writers -> Writes] /\ Fresh \notin Known
  BY <1>01, FreshIsNew DEF Always, Aged
<1>03. /\ writer'[w].pc = pc /\ writer'[w].kind = kind /\ writer'[w].id = j /\ writer'[w].content = c
       /\ \A v \in Writers : v # w => writer'[v] = writer[v]
  BY <1>01, <1>02
<1>04. Told(i) /\ Kept(i)
  BY DEF Spared, Tracks
<1>1. Told(i)'
  <2>1. \A v \in Writers : At(v, "record") => At(v, "record")'
    BY <1>01, <1>03 DEF At, Active
  <2> QED BY <1>01, <1>04, <2>1 DEF Told
<1>2. CASE i # j
  <2>1. Untouched(i) /\ WritersUntouched(i)
    BY <1>01, <1>03, <1>2 DEF Untouched, WritersUntouched
  <2> QED BY <1>04, <1>1, <2>1, Beside DEF Tracks
<1>3. CASE i = j
  <2>2. Carriers(i)' = Carriers(i) /\ (Settled(i)' <=> Settled(i)) /\ \A r : Newest(r, i)' <=> Newest(r, i)
    BY <1>01, CarriersSame
  <2>3. Loading(i)' /\ FollowsNew(i)' /\ GoneUnseen(i)'
    BY <1>01, <1>04, <2>2 DEF Kept, Loading, FollowsNew, GoneUnseen, LastDue
  <2>4. (Refreshing(i) => Refreshing(i)') /\ (Applying(i) => Applying(i)')
    BY <1>01, <1>03 DEF Refreshing, Applying, At, Active
  <2>5. Heard(i)' /\ Own(i)'
    BY <1>01, <1>04, <2>2, <2>4 DEF Heard, Own, Kept, LastDue
  <2>6. Writing(i)'
    <3> SUFFICES ASSUME NEW v \in Writers, Alone(v, i)' PROVE Lonely(v, i)'
      BY DEF Writing
    <3>1. w \in Working(i)'
      BY <1>03, <1>3 DEF Working, Active
    <3>2. v = w
      BY <3>1 DEF Alone
    <3>3. {current[i], stored[i], doc[i], lastEntries[i]} \subseteq Known
      BY DEF Always, Aged
    <3> QED BY <1>01, <1>02, <1>03, <1>3, <3>2, <3>3 DEF Lonely, At
  <2> QED BY <1>1, <2>3, <2>5, <2>6 DEF Kept, Tracks
<1> QED BY <1>2, <1>3

\* What a write at work finds of its credential, where the step does not part it.
LEMMA AtWork ==
  ASSUME Always, NEW w \in Writers, Active(w), NEW i \in Ids, Spared(i), writer[w].id = i
  PROVE  /\ Duty(w) /\ Alone(w, i) /\ Lonely(w, i) /\ due[i] = <<>> /\ Carriers(i) = {}
         /\ \A v \in Writers : v # w /\ Active(v) => writer[v].id # i
<1>1. Duty(w)
  BY DEF Always, WritersOK
<1>2. Kept(i)
  BY DEF Spared, Tracks
<1>3. Alone(w, i)
  BY OnlyAlone
<1>4. Lonely(w, i)
  BY <1>2, <1>3 DEF Kept, Writing
<1>5. due[i] = <<>> /\ Carriers(i) = {}
  BY <1>3 DEF Alone, UnderWay, Carriers
<1>6. \A v \in Writers : v # w /\ Active(v) => writer[v].id # i
  BY <1>3 DEF Alone, Working
<1> QED BY <1>1, <1>3, <1>4, <1>5, <1>6

\* Writes that are not the one that goes on.
LEMMA OthersWrite ==
  ASSUME NEW w \in Writers, NEW j, writer[w].id = j, Active(w)' => writer'[w].id = j,
         \A v \in Writers : v # w => writer'[v] = writer[v], NEW i, i # j
  PROVE  WritersUntouched(i)
BY DEF WritersUntouched

LEMMA NobodyElse ==
  ASSUME NEW w \in Writers, NEW j, \A v \in Writers : v # w /\ Active(v) => writer[v].id # j,
         \A v \in Writers : v # w => writer'[v] = writer[v]
  PROVE  /\ Refreshing(j) => writer[w].kind = "refresh" /\ writer[w].pc \in {"read", "publish", "record"}
         /\ Applying(j) => At(w, "apply")
         /\ Refreshing(j)' => writer'[w].kind = "refresh" /\ writer'[w].pc \in {"read", "publish", "record"}
         /\ Applying(j)' => writer'[w].pc = "apply"
         /\ ~Active(w)' => Working(j)' = {}
         /\ \A v \in Writers : Alone(v, j)' => v = w
BY DEF Refreshing, Applying, At, Active, Working, Alone

LEMMA StoreRefreshedStays ==
  ASSUME Always, NEW i \in Ids, Spared(i), NEW w \in Writers, StoreRefreshed(w) PROVE Tracks(i)'
<1>01. /\ UNCHANGED <<stored, current, reload, stage, stale, unknown, due, doc, heard, lastEntries, mu, phase>>
       /\ At(w, "call") /\ Active(w) /\ manager' = [manager EXCEPT ![writer[w].id] = writer[w].content] /\ Goes(w, "read")
       /\ manager \in [Ids -> Known]
  BY DEF StoreRefreshed, reloadVars, histories, storeVars, At, Active, Always, Aged
<1>02. PICK j \in Ids : j = writer[w].id
  BY <1>01, WriterThere
<1>021. PICK x \in Known : x = writer[w].content
  BY <1>01, WriterThere
<1>022. Duty(w)
  BY <1>01 DEF Always, WritersOK
<1>03. /\ writer'[w].pc = "read" /\ writer'[w].kind = "refresh" /\ writer[w].kind = "refresh" /\ writer'[w].id = j
       /\ writer'[w].content = x
       /\ \A v \in Writers : v # w => writer'[v] = writer[v]
  BY <1>01, <1>02, <1>021, <1>022, GoesOn DEF Always, Duty
<1>04. manager'[j] = x /\ \A k \in Ids : k # j => manager'[k] = manager[k]
  BY <1>01, <1>02, <1>021
<1>05. Told(i) /\ Kept(i)
  BY DEF Spared, Tracks
<1>1. Told(i)'
  <2>1. \A v \in Writers : At(v, "record") => At(v, "record")'
    BY <1>01, <1>03 DEF At
  <2> QED BY <1>01, <1>05, <2>1 DEF Told
<1>2. CASE i # j
  <2>1. Untouched(i)
    BY <1>01, <1>04, <1>2 DEF Untouched
  <2>2. WritersUntouched(i)
    BY <1>02, <1>03, <1>2, OthersWrite
  <2> QED BY <1>05, <1>1, <2>1, <2>2, Beside DEF Tracks
<1>3. CASE i = j
  <2>0. /\ Lonely(w, i) /\ due[i] = <<>> /\ Carriers(i) = {} /\ writer[w].id = i
        /\ \A v \in Writers : v # w /\ Active(v) => writer[v].id # i
    BY <1>01, <1>02, <1>3, AtWork
  <2>1. Carriers(i)' = Carriers(i) /\ (Settled(i)' <=> Settled(i)) /\ \A r : Newest(r, i)' <=> Newest(r, i)
    BY <1>01, CarriersSame
  <2>2. Loading(i)' /\ FollowsNew(i)'
    BY <1>01, <1>05, <2>1 DEF Kept, Loading, FollowsNew
  <2>3. manager[i] \notin {Absent, Disabled}
    BY <1>01, <2>0 DEF Lonely
  <2>4. GoneUnseen(i)'
    BY <1>01, <1>05, <2>0, <2>1, <2>3 DEF Kept, GoneUnseen, LastDue
  <2>5. Refreshing(i)' /\ (Applying(i)' <=> Applying(i))
    BY <1>01, <1>03, <1>3 DEF Refreshing, Applying, At
  <2>6. Heard(i)'
    BY <2>5 DEF Heard
  <2>7. Own(i)'
    BY <1>01, <1>05, <2>1, <2>3, <2>5 DEF Own, Kept
  <2>8. Writing(i)'
    <3> SUFFICES Lonely(w, i)'
      BY <1>03, <2>0, NobodyElse DEF Writing
    <3>1. x \notin {current[i], stored[i], doc[i], lastEntries[i]}
      BY <1>01, <1>021, <1>03, <2>0 DEF Lonely, At
    <3> QED BY <1>01, <1>03, <1>04, <1>3, <3>1 DEF Lonely, At
  <2> QED BY <1>1, <2>2, <2>4, <2>6, <2>7, <2>8 DEF Kept, Tracks
<1> QED BY <1>2, <1>3

LEMMA ReadDocumentStays ==
  ASSUME Always, NEW i \in Ids, Spared(i), NEW w \in Writers, ReadDocument(w) PROVE Tracks(i)'
<1>01. /\ UNCHANGED <<stored, current, reload, stage, stale, unknown, manager, due, doc, heard, lastEntries, phase>>
       /\ At(w, "read") /\ Active(w)
       /\ writer' = [writer EXCEPT ![w].pc = "publish", ![w].loaded = doc] /\ writer \in [Writers -> Writes]
  BY DEF ReadDocument, reloadVars, histories, At, Active, Always, Aged
<1>02. PICK j \in Ids : j = writer[w].id
  BY <1>01, WriterThere
<1>03. /\ writer'[w].pc = "publish" /\ writer'[w].kind = writer[w].kind /\ writer'[w].id = j
       /\ writer'[w].content = writer[w].content
       /\ \A v \in Writers : v # w => writer'[v] = writer[v]
  BY <1>01, <1>02 DEF Writes
<1>05. Told(i) /\ Kept(i)
  BY DEF Spared, Tracks
<1>1. Told(i)'
  <2>1. \A v \in Writers : At(v, "record") => At(v, "record")'
    BY <1>01, <1>03 DEF At
  <2> QED BY <1>01, <1>05, <2>1 DEF Told
<1>2. CASE i # j
  <2>1. Untouched(i)
    BY <1>01 DEF Untouched
  <2>2. WritersUntouched(i)
    BY <1>02, <1>03, <1>2, OthersWrite
  <2> QED BY <1>05, <1>1, <2>1, <2>2, Beside DEF Tracks
<1>3. CASE i = j
  <2>0. /\ Lonely(w, i) /\ due[i] = <<>> /\ Carriers(i) = {} /\ writer[w].id = i
        /\ \A v \in Writers : v # w /\ Active(v) => writer[v].id # i
    BY <1>01, <1>02, <1>3, AtWork
  <2>1. Carriers(i)' = Carriers(i) /\ (Settled(i)' <=> Settled(i)) /\ \A r : Newest(r, i)' <=> Newest(r, i)
    BY <1>01, CarriersSame
  <2>2. Loading(i)' /\ FollowsNew(i)' /\ GoneUnseen(i)'
    BY <1>01, <1>05, <2>1 DEF Kept, Loading, FollowsNew, GoneUnseen, LastDue
  <2>5. (Refreshing(i) => Refreshing(i)') /\ (Applying(i)' <=> Applying(i))
    BY <1>01, <1>02, <1>03 DEF Refreshing, Applying, At
  <2>6. Heard(i)' /\ Own(i)'
    BY <1>01, <1>05, <2>1, <2>5 DEF Own, Heard, LastDue, Kept
  <2>8. Writing(i)'
    <3> SUFFICES Lonely(w, i)'
      BY <1>03, <2>0, NobodyElse DEF Writing
    <3> QED BY <1>01, <1>03, <2>0 DEF Lonely, At
  <2> QED BY <1>1, <2>2, <2>6, <2>8 DEF Kept, Tracks
<1> QED BY <1>2, <1>3

-----------------------------------------------------------------------------
\* A write changes only its own credential, of those that are not parted.
LEMMA OwnChange ==
  ASSUME Always, NEW w \in Writers, Active(w), NEW j \in Ids, j = writer[w].id
  PROVE  /\ Changed(w)[j] = writer[w].content
         /\ At(w, "publish") => \A i \in Ids \ parted : i # j => Changed(w)[i] = doc[i]
         /\ At(w, "record") => \A i \in Ids \ parted : Changed(w)[i] = doc[i]
<1>1. /\ Changed(w) \in [Ids -> Known] /\ Changed(w)[j] = writer[w].content
      /\ \A i \in Ids : i # j => Changed(w)[i] = writer[w].loaded[i]
  BY ChangedTyped
<1>2. Held(w)
  BY DEF Always, WritersOK
<1> QED BY <1>1, <1>2 DEF Held

LEMMA PublishStays ==
  ASSUME Always, NEW i \in Ids, Spared(i), NEW w \in Writers, Publish(w) PROVE Tracks(i)'
<1>01. /\ UNCHANGED <<stored, current, reload, stage, stale, unknown, manager, due, heard, lastEntries, phase>>
       /\ At(w, "publish") /\ Active(w) /\ doc' = Changed(w) /\ Goes(w, "record")
  BY DEF Publish, reloadVars, histories, At, Active
<1>02. PICK j \in Ids : j = writer[w].id
  BY <1>01, WriterThere
<1>021. PICK x \in Known : x = writer[w].content
  BY <1>01, WriterThere
<1>03. /\ writer'[w].pc = "record" /\ writer'[w].kind = writer[w].kind /\ writer'[w].id = j /\ writer'[w].content = x
       /\ \A v \in Writers : v # w => writer'[v] = writer[v]
  BY <1>01, <1>02, <1>021, GoesOn DEF Always
<1>04. doc'[j] = x /\ (i # j => doc'[i] = doc[i])
  BY <1>01, <1>02, <1>021, OwnChange DEF Spared
<1>05. Kept(i)
  BY DEF Spared, Tracks
<1>1. Told(i)'
  <2>1. At(w, "record")'
    BY <1>03 DEF At
  <2> QED BY <2>1 DEF Told
<1>2. CASE i # j
  <2>1. Untouched(i)
    BY <1>01, <1>04, <1>2 DEF Untouched
  <2>2. WritersUntouched(i)
    BY <1>02, <1>03, <1>2, OthersWrite
  <2> QED BY <1>05, <1>1, <2>1, <2>2, Beside DEF Tracks
<1>3. CASE i = j
  <2>0. /\ Duty(w) /\ Lonely(w, i) /\ due[i] = <<>> /\ Carriers(i) = {} /\ writer[w].id = i /\ doc'[i] = x
        /\ \A v \in Writers : v # w /\ Active(v) => writer[v].id # i
    BY <1>01, <1>02, <1>04, <1>3, AtWork
  <2>1. Carriers(i)' = Carriers(i) /\ (Settled(i)' <=> Settled(i)) /\ \A r : Newest(r, i)' <=> Newest(r, i)
    BY <1>01, CarriersSame
  <2>2. Loading(i)' /\ FollowsNew(i)' /\ GoneUnseen(i)'
    BY <1>01, <1>05, <2>1 DEF Kept, Loading, FollowsNew, GoneUnseen, LastDue
  <2>3. /\ writer[w].kind \in {"put", "refresh"} => x \notin {current[i], stored[i], doc[i], lastEntries[i]}
        /\ writer[w].kind \in {"refresh", "result"} => manager[i] = x
        /\ writer[w].kind = "delete" => x = Absent
    BY <1>01, <1>021, <2>0 DEF Lonely, At, Duty
  <2>4. writer[w].kind \in {"put", "delete", "refresh", "result"}
    BY <1>01, <2>0, WriterThere DEF Writes, Duty
  <2>6. (writer[w].kind = "refresh" => Refreshing(i)') /\ (Applying(i)' <=> Applying(i))
    BY <1>01, <1>03, <1>3 DEF Refreshing, Applying, At
  <2>7. Heard(i)'
    BY <1>01, <2>0, <2>3, <2>4, <2>6 DEF Heard, LastDue
  <2>8. Own(i)'
    BY <1>01, <1>05, <2>0, <2>1, <2>3, <2>4, <2>6 DEF Own, Kept
  <2>9. Writing(i)'
    <3> SUFFICES Lonely(w, i)'
      BY <1>03, <2>0, NobodyElse DEF Writing
    <3> QED BY <1>01, <1>03, <2>0, <2>3 DEF Lonely, At
  <2> QED BY <1>1, <2>2, <2>7, <2>8, <2>9 DEF Kept, Tracks
<1> QED BY <1>2, <1>3

\* A publication fails, and has been made or not.
LEMMA FailStays ==
  ASSUME Always, NEW i \in Ids, Spared(i), NEW w \in Writers, Fail(w) PROVE Tracks(i)'
<1>01. /\ UNCHANGED <<stored, current, reload, stage, stale, unknown, manager, due, heard, lastEntries, phase>>
       /\ At(w, "publish") /\ Active(w) /\ doc' \in {doc, Changed(w)} /\ Goes(w, "idle")
  BY DEF Fail, reloadVars, histories, At, Active
<1>02. PICK j \in Ids : j = writer[w].id
  BY <1>01, WriterThere
<1>021. PICK x \in Known : x = writer[w].content
  BY <1>01, WriterThere
<1>03. /\ writer'[w].pc = "idle" /\ ~Active(w)'
       /\ \A v \in Writers : v # w => writer'[v] = writer[v]
  BY <1>01, GoesIdle DEF Always, Active
<1>04. (doc' # doc => doc'[j] = x) /\ (i # j => doc'[i] = doc[i])
  BY <1>01, <1>02, <1>021, OwnChange DEF Spared
<1>05. Told(i) /\ Kept(i) /\ ~Untold(i) /\ ~Unsaved(i)
  BY DEF Spared, Tracks, Causes
<1>1. Told(i)'
  <2>2. \A v \in Writers : ~At(v, "record")
    BY <1>01, OneSaver DEF Always, At
  <2>3. CASE doc' = doc
    BY <1>01, <1>05, <2>2, <2>3 DEF Told
  <2>4. CASE doc' # doc
    BY <1>01, <1>05, <2>4 DEF Told, Untold
  <2> QED BY <2>3, <2>4
<1>2. CASE i # j
  <2>1. Untouched(i)
    BY <1>01, <1>04, <1>2 DEF Untouched
  <2>2. WritersUntouched(i)
    BY <1>02, <1>03, <1>2, OthersWrite
  <2> QED BY <1>05, <1>1, <2>1, <2>2, Beside DEF Tracks
<1>3. CASE i = j
  <2>0. /\ Duty(w) /\ Lonely(w, i) /\ due[i] = <<>> /\ Carriers(i) = {} /\ writer[w].id = i /\ (doc' # doc => doc'[i] = x)
        /\ \A v \in Writers : v # w /\ Active(v) => writer[v].id # i
    BY <1>01, <1>02, <1>04, <1>3, AtWork
  <2>1. Carriers(i)' = Carriers(i) /\ (Settled(i)' <=> Settled(i)) /\ \A r : Newest(r, i)' <=> Newest(r, i)
    BY <1>01, CarriersSame
  <2>2. Loading(i)' /\ FollowsNew(i)' /\ GoneUnseen(i)'
    BY <1>01, <1>05, <2>1 DEF Kept, Loading, FollowsNew, GoneUnseen, LastDue
  <2>3. /\ writer[w].kind \in {"put", "refresh"} => x \notin {current[i], stored[i], doc[i], lastEntries[i]}
        /\ writer[w].kind \in {"refresh", "result"} => manager[i] = x
        /\ writer[w].kind = "delete" => x = Absent
    BY <1>01, <1>021, <2>0 DEF Lonely, At, Duty
  <2>4. writer[w].kind \in {"put", "delete", "refresh", "result"}
    BY <1>01, <2>0, WriterThere DEF Writes, Duty
  <2>5. /\ ~Applying(i) /\ Working(i)' = {}
        /\ Refreshing(i) => writer[w].kind = "refresh"
    BY <1>01, <1>03, <2>0, NobodyElse DEF At
  <2>6. writer[w].kind = "refresh" => doc' # doc
    BY <1>01, <1>03, <1>05, <2>0 DEF Unsaved
  <2>61. CASE doc' = doc
    <3>1. writer[w].kind # "refresh" /\ ~Refreshing(i)
      BY <2>5, <2>6, <2>61
    <3>2. Heard(i)' /\ Own(i)' /\ Writing(i)'
      BY <1>01, <1>05, <2>0, <2>1, <2>5, <2>61, <3>1 DEF Heard, Own, LastDue, Kept, Writing, Alone
    <3> QED BY <1>1, <2>2, <3>2 DEF Kept, Tracks
  <2>62. CASE doc' # doc
    <3>0. doc'[i] = x
      BY <2>0, <2>62
    <3>1. Heard(i)'
      BY <1>01, <2>0, <2>3, <2>4, <3>0 DEF Heard, LastDue
    <3>2. Own(i)'
      BY <1>01, <1>05, <2>0, <2>1, <2>3, <2>4, <2>5, <3>0 DEF Own, Kept
    <3>3. Writing(i)'
      BY <2>5 DEF Writing, Alone
    <3> QED BY <1>1, <2>2, <3>1, <3>2, <3>3 DEF Kept, Tracks
  <2> QED BY <2>61, <2>62
<1> QED BY <1>2, <1>3

\* The store remembers what it published.
LEMMA RecordStays ==
  ASSUME Always, NEW i \in Ids, Spared(i), NEW w \in Writers, Record(w) PROVE Tracks(i)'
<1>01. /\ UNCHANGED <<stored, current, reload, stage, stale, unknown, manager, due, doc, heard, phase>>
       /\ At(w, "record") /\ Active(w) /\ lastEntries' = Changed(w)
  BY DEF Record, reloadVars, histories, At, Active
<1>02. PICK j \in Ids : j = writer[w].id
  BY <1>01, WriterThere
<1>021. PICK x \in Known : x = writer[w].content
  BY <1>01, WriterThere
<1>03. /\ \A v \in Writers : v # w => writer'[v] = writer[v]
       /\ writer[w].kind \notin {"put", "delete"} => writer'[w].pc = "idle"
       /\ writer[w].kind \in {"put", "delete"} =>
              /\ writer'[w].pc = "apply" /\ writer'[w].kind = writer[w].kind
              /\ writer'[w].id = j /\ writer'[w].content = x
  BY <1>02, <1>021, RecordGoes
<1>04. lastEntries'[i] = doc[i]
  BY <1>01, <1>02, OwnChange DEF Spared
<1>05. Kept(i) /\ ~Swallowed(i)
  BY DEF Spared, Tracks, Causes
<1>1. Told(i)'
  BY <1>01, <1>04 DEF Told
<1>2. CASE i # j
  <2>0. lastEntries'[i] = lastEntries[i]
    <3>1. writer'[w].pc # "record"
      BY <1>03
    <3> QED BY <1>01, <1>02, <1>05, <1>2, <3>1 DEF Swallowed
  <2>1. Untouched(i)
    BY <1>01, <2>0 DEF Untouched
  <2>2. WritersUntouched(i)
    <3>1. Active(w)' => writer'[w].id = j
      BY <1>03 DEF Active
    <3> QED BY <1>02, <1>03, <1>2, <3>1, OthersWrite
  <2> QED BY <1>05, <1>1, <2>1, <2>2, Beside DEF Tracks
<1>3. CASE i = j
  <2>0. /\ Duty(w) /\ Lonely(w, i) /\ due[i] = <<>> /\ Carriers(i) = {} /\ writer[w].id = i
        /\ \A v \in Writers : v # w /\ Active(v) => writer[v].id # i
    BY <1>01, <1>02, <1>3, AtWork
  <2>1. Carriers(i)' = Carriers(i) /\ (Settled(i)' <=> Settled(i)) /\ \A r : Newest(r, i)' <=> Newest(r, i)
    BY <1>01, CarriersSame
  <2>2. Loading(i)' /\ FollowsNew(i)' /\ GoneUnseen(i)'
    BY <1>01, <1>05, <2>1 DEF Kept, Loading, FollowsNew, GoneUnseen, LastDue
  <2>3. /\ writer[w].kind \in {"put", "refresh"} => x # current[i]
        /\ writer[w].kind \in {"refresh", "result"} => manager[i] = x
        /\ writer[w].kind = "delete" => x = Absent
        /\ doc[i] = x
    BY <1>01, <1>021, <2>0 DEF Lonely, At, Duty
  <2>4. writer[w].kind \in {"put", "delete", "refresh", "result"}
    BY <1>01, <2>0, WriterThere DEF Writes, Duty
  <2>5. writer[w].kind \in {"put", "delete"} => Applying(i)'
    BY <1>03, <1>3 DEF Applying, At
  <2>7. Heard(i)'
    BY <1>01, <1>04, <2>0, <2>3, <2>4 DEF Heard, LastDue
  <2>8. Own(i)'
    BY <1>01, <1>04, <2>0, <2>1, <2>3, <2>4, <2>5 DEF Own, Kept
  <2>9. Writing(i)'
    <3> SUFFICES Alone(w, i)' => Lonely(w, i)'
      BY <1>03, <2>0, NobodyElse DEF Writing
    <3>1. Alone(w, i)' => writer'[w].pc = "apply"
      BY <1>03, <2>4 DEF Alone, Working, Active
    <3> QED BY <1>01, <1>03, <1>04, <2>3, <2>4, <3>1 DEF Lonely, At
  <2> QED BY <1>1, <2>2, <2>7, <2>8, <2>9 DEF Kept, Tracks
<1> QED BY <1>2, <1>3

LEMMA ApplyOwnStays ==
  ASSUME Always, NEW i \in Ids, Spared(i), NEW w \in Writers, ApplyOwn(w) PROVE Tracks(i)'
<1>01. At(w, "apply") /\ Active(w)
  BY DEF ApplyOwn, At, Active
<1>02. PICK j \in Ids : j = writer[w].id
  BY <1>01, WriterThere
<1>021. PICK x \in Known : x = writer[w].content
  BY <1>01, WriterThere
<1>022. /\ UNCHANGED <<stored, current, reload, stage, stale, due, doc, heard, lastEntries, mu, phase>>
        /\ Goes(w, "idle")
        /\ manager' = [manager EXCEPT ![j] = IF writer[w].kind = "put" THEN x
                                            ELSE IF manager[j] = Absent THEN Absent ELSE Disabled]
        /\ unknown' = IF manager'[j] # Absent /\ current[j] = Absent THEN unknown \cup {j} ELSE unknown
        /\ manager \in [Ids -> Known]
  BY <1>02, <1>021 DEF ApplyOwn, storeVars, Always, Aged
<1>03. /\ writer'[w].pc = "idle" /\ ~Active(w)'
       /\ \A v \in Writers : v # w => writer'[v] = writer[v]
  BY <1>022, GoesIdle DEF Always, Active
<1>04. /\ manager'[j] = IF writer[w].kind = "put" THEN x ELSE IF manager[j] = Absent THEN Absent ELSE Disabled
       /\ \A k \in Ids : k # j => manager'[k] = manager[k]
  BY <1>022
<1>05. Told(i) /\ Kept(i)
  BY DEF Spared, Tracks
<1>1. Told(i)'
  <2>1. \A v \in Writers : At(v, "record") => At(v, "record")'
    BY <1>01, <1>03 DEF At
  <2> QED BY <1>022, <1>05, <2>1 DEF Told
<1>2. CASE i # j
  <2>1. Untouched(i)
    BY <1>022, <1>04, <1>2 DEF Untouched
  <2>2. WritersUntouched(i)
    BY <1>02, <1>03, <1>2, OthersWrite
  <2> QED BY <1>05, <1>1, <2>1, <2>2, Beside DEF Tracks
<1>3. CASE i = j
  <2>0. /\ Duty(w) /\ Lonely(w, i) /\ due[i] = <<>> /\ Carriers(i) = {} /\ writer[w].id = i
        /\ \A v \in Writers : v # w /\ Active(v) => writer[v].id # i
    BY <1>01, <1>02, <1>3, AtWork
  <2>1. Carriers(i)' = Carriers(i) /\ (Settled(i)' <=> Settled(i)) /\ \A r : Newest(r, i)' <=> Newest(r, i)
    BY <1>022, CarriersSame
  <2>2. Loading(i)' /\ FollowsNew(i)'
    BY <1>022, <1>05, <2>1 DEF Kept, Loading, FollowsNew
  <2>3. /\ writer[w].kind \in {"put", "delete"} /\ doc[i] = x /\ lastEntries[i] = x
        /\ writer[w].kind = "delete" => x = Absent
        /\ writer[w].kind = "put" => x # Absent
    BY <1>01, <1>021, <2>0 DEF Lonely, At, Duty
  <2>4. GoneUnseen(i)'
    BY <1>022, <1>3, <2>0 DEF GoneUnseen, LastDue
  <2>7. Heard(i)'
    BY <1>022, <1>04, <1>3, <2>0, <2>3 DEF Heard, LastDue
  <2>8. Own(i)'
    BY <1>022, <1>04, <1>3, <2>0, <2>1, <2>3 DEF Own
  <2>9. Writing(i)'
    <3>1. Working(i)' = {}
      BY <1>03, <2>0, NobodyElse
    <3> QED BY <3>1 DEF Writing, Alone
  <2> QED BY <1>1, <2>2, <2>4, <2>7, <2>8, <2>9 DEF Kept, Tracks
<1> QED BY <1>2, <1>3

-----------------------------------------------------------------------------
\* A comparison: what it finds different is the newest, and it is what is current.
LEMMA CompareStays ==
  ASSUME Always, NEW i \in Ids, Spared(i), NEW r \in Reloaders, Compare(r), UNCHANGED <<manager, due, storeVars, phase, writer>>
  PROVE  Tracks(i)'
<1>0. Aged /\ ReloadsOK /\ stage = "running" /\ Unseen
  BY DEF Always, Placed
<1>01. UNCHANGED <<manager, due, doc, heard, lastEntries, mu, phase, writer>>
  BY DEF storeVars
<1>02. /\ reload[r].pc = "loaded" /\ current' = stored /\ UNCHANGED <<stored, stale>>
       /\ unknown' = {k \in unknown : stored[k] = Absent}
       /\ reload'[r].updates = Difference(reload[r].force) /\ reload'[r].overtaken = {}
       /\ reload'[r].pc # "compared" => reload'[r] = Idle
       /\ reload'[r].pc = "compared" => reload'[r].earlier = {q \in Reloaders : reload[q].pc = "compared"}
       /\ \A q \in Reloaders : q # r => reload'[q] = reload[q]
       /\ reload'[r].updates[i] \in {stored[i], NoUpdate}
       /\ reload'[r].updates[i] = NoUpdate => current[i] = stored[i]
  BY <1>0, ComparedWith
<1>1. Told(i)'
  <2>1. Told(i)
    BY DEF Spared, Tracks
  <2> QED BY <1>01, <2>1 DEF Told, At
<1>2. Kept(i)'
  <2> DEFINE u == reload'[r].updates[i]
  <2>0. Kept(i) /\ stored[i] # NoUpdate
    BY <1>0, KnownIs DEF Spared, Tracks, Aged
  <2>1. Loading(i)'
    BY <1>02 DEF Loading
  <2>2. r \notin Carriers(i)
    BY <1>0, <1>02, CarriersWait
  <2>3. CASE u # NoUpdate
    <3>1. reload'[r].pc = "compared"
      BY <1>02, <2>3, IdleTyped DEF Nothing
    <3>2. r \in Carriers(i)' /\ ~Settled(i)'
      BY <1>02, <2>3 DEF Carriers, Settled
    <3>3. ASSUME NEW q \in Reloaders, Newest(q, i)' PROVE reload'[q].updates[i] = current'[i]
      <4>1. q \in Carriers(i)' /\ q \notin reload'[r].earlier
        BY <3>2, <3>3 DEF Newest
      <4>2. CASE q # r
        <5>1. q \in Carriers(i)
          BY <1>02, <4>1, <4>2 DEF Carriers
        <5>2. reload[q].pc = "compared"
          BY <1>0, <5>1, CarriersWait
        <5> QED BY <1>02, <3>1, <4>1, <5>2
      <4> QED BY <1>02, <2>3, <4>2
    <3>4. FollowsNew(i)' /\ GoneUnseen(i)' /\ Heard(i)'
      BY <3>2, <3>3 DEF FollowsNew, GoneUnseen, Heard
    <3>5. stored[i] = lastEntries[i]
      <4>1. ~Reverted(i)
        BY DEF Spared, Causes
      <4> QED BY <1>02, <2>3, <3>1, <4>1 DEF Reverted
    <3>6. Own(i)'
      BY <1>01, <1>02, <3>5 DEF Own
    <3>7. Writing(i)'
      BY <3>2 DEF Writing, Alone, UnderWay, Carriers
    <3> QED BY <2>1, <3>4, <3>6, <3>7 DEF Kept
  <2>4. CASE u = NoUpdate
    <3>1. r \notin Carriers(i)' /\ current[i] = stored[i] /\ current'[i] = current[i]
      BY <1>02, <2>4 DEF Carriers
    <3>2. Carriers(i)' = Carriers(i) /\ \A q \in Carriers(i) : q \in Reloaders /\ q # r /\ reload'[q] = reload[q]
      BY <1>02, <2>2, <3>1 DEF Carriers
    <3>3. (Settled(i)' <=> Settled(i)) /\ \A q \in Reloaders : Newest(q, i)' => Newest(q, i) /\ reload'[q].updates[i] = reload[q].updates[i]
      BY <1>02, <3>2 DEF Settled, Newest
    <3>4. FollowsNew(i)'
      BY <2>0, <3>1, <3>3 DEF Kept, FollowsNew
    <3>5. GoneUnseen(i)'
      BY <1>01, <1>02, <2>0, <3>1, <3>3 DEF Kept, GoneUnseen, LastDue
    <3>6. Heard(i)'
      BY <1>01, <1>02, <2>0, <3>1, <3>3 DEF Kept, Heard, LastDue, Refreshing
    <3>7. Own(i)'
      <4>1. i \in unknown => stored[i] = Absent
        BY <1>0, <3>1 DEF Unseen
      <4>2. i \in unknown => i \in unknown'
        BY <1>02, <4>1
      <4>3. (Refreshing(i)' <=> Refreshing(i)) /\ (Applying(i)' <=> Applying(i))
        BY <1>01 DEF Refreshing, Applying, At
      <4>4. Own(i)
        BY <2>0 DEF Kept
      <4> QED BY <1>01, <1>02, <3>2, <4>2, <4>3, <4>4 DEF Own
    <3>8. Writing(i)'
      <4> SUFFICES ASSUME NEW w \in Writers, Alone(w, i)' PROVE Lonely(w, i)'
        BY DEF Writing
      <4>1. Lonely(w, i)
        BY <1>01, WasAlone
      <4> QED BY <1>01, <1>02, <3>1, <4>1 DEF Lonely, At
    <3> QED BY <2>1, <3>4, <3>5, <3>6, <3>7, <3>8 DEF Kept
  <2> QED BY <2>3, <2>4
<1> QED BY <1>1, <1>2 DEF Tracks

\* A hand-over leaves the newest the newest; what is handed over last is the newest, or late.
LEMMA HandOverSettles ==
  ASSUME ReloadsOK, NEW r \in Reloaders, HandOver(r), NEW i \in Ids
  PROVE  /\ Carriers(i)' = Carriers(i) \ {r}
         /\ \A q \in Reloaders : Newest(q, i)' => Newest(q, i) /\ reload'[q].updates[i] = reload[q].updates[i]
         /\ Settled(i)' => IF r \in Carriers(i) THEN Newest(r, i) ELSE Settled(i)
<1>1. reload[r].pc = "compared" /\ UNCHANGED <<stored, current, stage, unknown>> /\ ReloadTypeOK
      /\ stale' = (stale \ Touched(reload[r].updates)) \cup (Touched(reload[r].updates) \cap reload[r].overtaken)
  BY DEF HandOver, ReloadsOK
<1> DEFINE more(q) == IF q \in reload[r].earlier
                        THEN Touched(reload[q].updates) \cap Touched(reload[r].updates) ELSE {}
<1>2. /\ reload'[r] = Idle
      /\ \A q \in Reloaders : q # r =>
           /\ reload'[q].updates = reload[q].updates /\ reload'[q].earlier = reload[q].earlier \ {r}
           /\ reload'[q].overtaken = reload[q].overtaken \cup more(q)
  BY <1>1, HandOverTyped
<1>3. \A q \in Reloaders : \A p \in reload[q].earlier :
        p \in Reloaders /\ p # q /\ reload[p].earlier \subseteq reload[q].earlier
  BY <1>1 DEF ReloadsOK, Ordered, ReloadTypeOK
<1>4. \A q \in Reloaders : q \in Carriers(i)' <=> q # r /\ q \in Carriers(i)
  BY <1>2, IdleTyped DEF Carriers, Nothing
<1>41. Carriers(i)' = Carriers(i) \ {r}
  <2>1. Carriers(i)' \subseteq Reloaders /\ Carriers(i) \subseteq Reloaders
    BY DEF Carriers
  <2> QED BY <1>4, <2>1
<1>5. ASSUME NEW q \in Reloaders, q # r
      PROVE  i \in more(q) <=> q \in reload[r].earlier /\ q \in Carriers(i) /\ r \in Carriers(i)
  BY DEF Touched, Carriers
<1> HIDE DEF more
<1>6. ASSUME NEW q \in Reloaders, Newest(q, i)'
      PROVE  Newest(q, i) /\ reload'[q].updates[i] = reload[q].updates[i]
  <2>1. q # r /\ q \in Carriers(i) /\ i \notin reload'[q].overtaken
    BY <1>4, <1>6 DEF Newest
  <2>2. i \notin reload[q].overtaken /\ i \notin more(q)
    BY <1>2, <2>1
  <2>3. ASSUME NEW p \in Carriers(i) PROVE q \notin reload[p].earlier
    <3>1. p \in Reloaders
      BY DEF Carriers
    <3>2. CASE p = r
      BY <1>5, <2>1, <2>2, <2>3, <3>2
    <3>3. CASE p # r
      <4>1. p \in Carriers(i)'
        BY <1>4, <2>3, <3>1, <3>3
      <4>2. q \notin reload'[p].earlier
        BY <1>6, <4>1 DEF Newest
      <4> QED BY <1>2, <2>1, <3>1, <3>3, <4>2
    <3> QED BY <3>2, <3>3
  <2> QED BY <1>2, <2>1, <2>2, <2>3 DEF Newest
<1>7. ASSUME Settled(i)', r \notin Carriers(i) PROVE Settled(i)
  <2>1. i \notin stale
    BY <1>1, <1>7 DEF Settled, Carriers, Touched
  <2>2. ASSUME NEW q \in Carriers(i) PROVE i \in reload[q].overtaken
    <3>1. q \in Reloaders /\ q # r
      BY <1>7 DEF Carriers
    <3>2. i \in reload'[q].overtaken /\ i \notin more(q)
      BY <1>4, <1>5, <1>7, <3>1 DEF Settled
    <3> QED BY <1>2, <3>1, <3>2
  <2> QED BY <2>1, <2>2 DEF Settled
<1>8. ASSUME Settled(i)', r \in Carriers(i) PROVE Newest(r, i)
  <2>1. i \in Touched(reload[r].updates)
    BY <1>8 DEF Carriers, Touched
  <2>2. i \notin reload[r].overtaken
    BY <1>1, <1>8, <2>1 DEF Settled
  <2>3. ASSUME NEW q \in Carriers(i), r \in reload[q].earlier PROVE FALSE
    <3>1. q \in Reloaders /\ q # r
      BY <1>3, <2>3 DEF Carriers
    <3>2. i \in reload'[q].overtaken
      BY <1>4, <1>8, <2>3, <3>1 DEF Settled
    <3>3. q \notin reload[r].earlier
      BY <1>3, <2>3, <3>1
    <3>4. i \in reload[q].overtaken
      BY <1>2, <1>5, <3>1, <3>2, <3>3
    <3>5. i \in reload[r].overtaken
      BY <1>8, <2>3, <3>1, <3>4 DEF ReloadsOK, OvertakenWith
    <3> QED BY <2>2, <3>5
  <2> QED BY <1>8, <2>2, <2>3 DEF Newest
<1> QED BY <1>41, <1>6, <1>7, <1>8

LEMMA HandOverStays ==
  ASSUME Always, NEW i \in Ids, Spared(i), NEW r \in Reloaders, HandOverDue(r), UNCHANGED <<storeVars, phase, writer>>
  PROVE  Tracks(i)'
<1>0. Aged /\ ReloadsOK /\ ReloadTypeOK /\ HandOver(r)
  BY DEF Always, ReloadsOK, HandOverDue
<1>01. UNCHANGED <<stored, current, unknown, manager, doc, heard, lastEntries, phase, writer>> /\ reload[r].pc = "compared"
  BY DEF storeVars, HandOverDue, HandOver
<1>02. \A q \in Reloaders : reload[q].pc = "loaded" => reload'[q].pc = "loaded"
  BY <1>0, <1>01, HandOverTyped
<1>1. Told(i)'
  <2>1. Told(i)
    BY DEF Spared, Tracks
  <2> QED BY <1>01, <2>1 DEF Told, At
<1>2. Kept(i)'
  <2>0. Kept(i)
    BY DEF Spared, Tracks
  <2>1. /\ r \notin Carriers(i) => due'[i] = due[i]
        /\ r \in Carriers(i) => due'[i] # <<>> /\ Last(due'[i]) = reload[r].updates[i]
    BY <1>0, HandedOver
  <2>2. /\ Carriers(i)' = Carriers(i) \ {r}
        /\ \A q \in Reloaders : Newest(q, i)' => Newest(q, i) /\ reload'[q].updates[i] = reload[q].updates[i]
        /\ Settled(i)' => IF r \in Carriers(i) THEN Newest(r, i) ELSE Settled(i)
    BY <1>0, HandOverSettles
  <2>3. Loading(i)'
    BY <1>01, <1>02, <2>0 DEF Loading, Kept, Reloaders
  <2>4. FollowsNew(i)'
    BY <1>01, <2>0, <2>2 DEF FollowsNew, Kept
  <2>5. Settled(i)' => \/ LastDue(i)' = current[i]
                       \/ Settled(i) /\ LastDue(i)' = LastDue(i)
    <3>1. CASE r \in Carriers(i)
      BY <2>0, <2>1, <2>2, <3>1 DEF Kept, FollowsNew, LastDue
    <3>2. CASE r \notin Carriers(i)
      BY <1>01, <2>1, <2>2, <3>2 DEF LastDue
    <3> QED BY <3>1, <3>2
  <2>6. GoneUnseen(i)'
    BY <1>01, <2>0, <2>5 DEF GoneUnseen, Kept
  <2>7. Heard(i)'
    BY <1>01, <2>0, <2>5 DEF Heard, Kept, Refreshing
  <2>8. Own(i)'
    BY <1>01, <2>0, <2>1, <2>2 DEF Own, Kept, Refreshing, Applying, At
  <2>9. Writing(i)'
    <3> SUFFICES ASSUME NEW w \in Writers, Alone(w, i)' PROVE Lonely(w, i)'
      BY DEF Writing
    <3>1. Lonely(w, i)
      BY <1>01, WasAlone
    <3> QED BY <1>01, <3>1 DEF Lonely, At
  <2> QED BY <2>3, <2>4, <2>6, <2>7, <2>8, <2>9 DEF Kept
<1> QED BY <1>1, <1>2 DEF Tracks

LEMMA LastOfTail ==
  ASSUME NEW C, NEW s \in Seq(C), s # <<>>
  PROVE  /\ Tail(s) = <<>> => Head(s) = Last(s)
         /\ Tail(s) # <<>> => Last(Tail(s)) = Last(s)
<1>1. /\ Len(s) \in Nat /\ Len(s) # 0 /\ Head(s) = s[1] /\ Tail(s) \in Seq(C) /\ Len(Tail(s)) = Len(s) - 1
      /\ \A n \in 1..Len(Tail(s)) : Tail(s)[n] = s[n + 1]
  BY HeadTailProperties
<1>2. CASE Len(s) = 1
  <2>1. Len(Tail(s)) = 0
    BY <1>1, <1>2
  <2>2. Tail(s) = <<>>
    BY <1>1, <2>1, EmptySeq
  <2>3. Last(s) = Head(s)
    BY <1>1, <1>2 DEF Last
  <2> QED BY <2>2, <2>3
<1>3. CASE Len(s) # 1
  <2>1. Len(Tail(s)) \in 1..Len(Tail(s)) /\ Len(Tail(s)) + 1 = Len(s) /\ Len(Tail(s)) # 0
    BY <1>1, <1>3
  <2>2. Tail(s)[Len(Tail(s))] = s[Len(s)]
    BY <1>1, <2>1
  <2>3. Tail(s) # <<>>
    BY <2>1, EmptySeq
  <2> QED BY <2>2, <2>3 DEF Last
<1> QED BY <1>2, <1>3

LEMMA ApplyStays ==
  ASSUME Always, NEW i \in Ids, Spared(i), NEW j \in Ids, Delivery!Apply(j), UNCHANGED <<reloadVars, storeVars, phase, writer>>
  PROVE  Tracks(i)'
<1>01. UNCHANGED <<stored, current, reload, stale, unknown, doc, heard, lastEntries, mu, phase, writer>>
  BY DEF storeVars, reloadVars, histories
<1>02. /\ due[j] # <<>> /\ due'[j] = Tail(due[j]) /\ manager'[j] = Head(due[j])
       /\ \A k \in Ids : k # j => due'[k] = due[k] /\ manager'[k] = manager[k]
       /\ due[j] \in Seq(Known)
  BY Reached DEF Always, Aged
<1>1. Told(i)'
  <2>1. Told(i)
    BY DEF Spared, Tracks
  <2> QED BY <1>01, <2>1 DEF Told, At
<1>2. CASE i # j
  <2>1. Untouched(i) /\ WritersUntouched(i)
    BY <1>01, <1>02, <1>2 DEF Untouched, WritersUntouched
  <2> QED BY <1>1, <2>1, Beside DEF Spared, Tracks
<1>3. CASE i = j
  <2>0. Kept(i)
    BY DEF Spared, Tracks
  <2>1. Carriers(i)' = Carriers(i) /\ (Settled(i)' <=> Settled(i)) /\ \A r : Newest(r, i)' <=> Newest(r, i)
    BY <1>01, CarriersSame
  <2>2. LastDue(i)' = LastDue(i)
    <3>1. /\ Tail(due[i]) = <<>> => Head(due[i]) = Last(due[i])
          /\ Tail(due[i]) # <<>> => Last(Tail(due[i])) = Last(due[i])
      BY <1>02, <1>3, LastOfTail
    <3>2. LastDue(i) = Last(due[i])
      BY <1>02, <1>3 DEF LastDue
    <3>3. LastDue(i)' = IF Tail(due[i]) = <<>> THEN Head(due[i]) ELSE Last(Tail(due[i]))
      BY <1>02, <1>3 DEF LastDue
    <3> QED BY <3>1, <3>2, <3>3
  <2>3. Loading(i)' /\ FollowsNew(i)' /\ GoneUnseen(i)'
    BY <1>01, <2>0, <2>1, <2>2 DEF Loading, FollowsNew, GoneUnseen, Kept
  <2>4. Heard(i)'
    BY <1>01, <2>0, <2>1, <2>2 DEF Heard, Kept, Refreshing
  <2>5. Own(i)'
    BY <1>01, <1>02, <1>3, <2>0 DEF Own, Kept
  <2>6. Writing(i)'
    <3> SUFFICES ASSUME NEW w \in Writers, Alone(w, i)' PROVE FALSE
      BY DEF Writing
    <3>1. Alone(w, i)
      BY <1>01, WasAlone
    <3> QED BY <1>02, <1>3, <3>1 DEF Alone, UnderWay
  <2> QED BY <1>1, <2>3, <2>4, <2>5, <2>6 DEF Kept, Tracks
<1> QED BY <1>2, <1>3

-----------------------------------------------------------------------------
LEMMA InStepInit == SyncInit => InStep
<1> SUFFICES ASSUME SyncInit, NEW i \in Ids PROVE Told(i) /\ Kept(i)
  BY DEF InStep, Tracks
<1>1. current[i] = Absent /\ stored[i] = Absent /\ phase = "new"
  BY DEF SyncInit, Empty
<1>2. Carriers(i) = {}
  BY IdleTyped DEF SyncInit, Carriers, Nothing
<1>3. Working(i) = {}
  BY DEF SyncInit, Working, Active, Resting
<1> QED BY <1>1, <1>2, <1>3 DEF Told, Kept, Loading, FollowsNew, Newest, GoneUnseen, Heard, Own, Writing, Alone

LEMMA InStepStays ==
  ASSUME Always, InStep, [SyncNext]_syncVars PROVE InStep'
<1>1. CASE UNCHANGED syncVars
  <2>1. UNCHANGED <<stored, current, reload, stale, unknown, manager, due, doc, heard, lastEntries, phase, writer, parted>>
    BY <1>1 DEF syncVars, reloadVars, histories, storeVars
  <2>2. ASSUME NEW i \in Ids \ parted PROVE Tracks(i)'
    <3>1. Told(i) /\ Kept(i)
      BY DEF InStep, Tracks
    <3>2. Untouched(i) /\ WritersUntouched(i)
      BY <2>1 DEF Untouched, WritersUntouched
    <3>3. Told(i)'
      BY <2>1, <3>1 DEF Told, At
    <3> QED BY <3>1, <3>2, <3>3, Beside DEF Tracks
  <2> QED BY <2>1, <2>2 DEF InStep
<1>2. CASE SyncNext
  <2>0. Step /\ parted' = parted \cup Causes
    BY <1>2 DEF SyncNext
  <2> SUFFICES ASSUME NEW i \in Ids, i \notin parted, i \notin Causes PROVE Tracks(i)'
    BY <2>0 DEF InStep
  <2>00. Spared(i)
    BY DEF Spared, InStep
  <2> HIDE <1>2
  <2>1. CASE Starting
    BY <2>00, <2>1, LoadStays, ListStays, WatchStays, FirstReloadStays DEF Starting
  <2>2. ASSUME NEW j \in Ids, Edit(j) PROVE Tracks(i)'
    BY <2>00, <2>2, EditStays
  <2>3. CASE Notify
    BY <2>00, <2>3, NotifyStays
  <2>4. CASE Reconfigure
    BY <2>00, <2>4, ReconfigureStays
  <2>5. ASSUME NEW w \in Writers, Write(w) PROVE Tracks(i)'
    <3>1. ASSUME NEW j \in Ids, StartPut(w, j) \/ StartDelete(w, j) \/ StartRefresh(w, j) \/ StartResult(w, j) PROVE Tracks(i)'
      BY <2>00, <3>1, StartKinds, StartStays
    <3> QED BY <2>00, <2>5, <3>1, StoreRefreshedStays, ReadDocumentStays, PublishStays, FailStays, RecordStays, ApplyOwnStays
         DEF Write
  <2>6. CASE Watching
    BY <2>00, <2>6, CompareStays, HandOverStays, ApplyStays DEF Watching
  <2> QED BY <2>0, <2>1, <2>2, <2>3, <2>4, <2>5, <2>6 DEF Step
<1> QED BY <1>1, <1>2

\* Nothing under way: manager and document agree.
LEMMA AgreesWhenQuiet ==
  ASSUME Always, InStep, Quiet, NEW i \in Ids \ (parted \cup stale) PROVE Agree(i) \/ RemovedUnseen(i)
<1>0. Told(i) /\ Kept(i)
  BY DEF InStep, Tracks
<1>1. /\ phase = "running" /\ heard = doc /\ due[i] = <<>>
      /\ \A r \in Reloaders : reload[r].pc = "idle"
      /\ \A w \in Writers : writer[w].pc = "idle"
  BY DEF Quiet, Active
<1>2. doc[i] = lastEntries[i]
  BY <1>0, <1>1 DEF Told, At
<1>3. current[i] = stored[i]
  <2>1. "store" \in Reloaders /\ "start" \in Reloaders
    BY DEF Reloaders
  <2> QED BY <1>0, <1>1, <2>1 DEF Kept, Loading
<1>4. Carriers(i) = {}
  <2>1. \A r \in Reloaders : reload[r].updates = Nothing
    BY <1>1 DEF Always, ReloadsOK, Ordered
  <2> QED BY <2>1 DEF Carriers, Nothing
<1>5. Settled(i) /\ LastDue(i) = manager[i] /\ ~Refreshing(i) /\ ~Applying(i)
  BY <1>1, <1>4 DEF Settled, LastDue, Refreshing, Applying, At
<1>6. CASE lastEntries[i] = stored[i]
  <2>1. CASE current[i] = Absent
    BY <1>0, <1>1, <1>2, <1>3, <1>5, <1>6, <2>1 DEF Kept, GoneUnseen, Agree, RemovedUnseen
  <2>2. CASE current[i] # Absent
    BY <1>0, <1>1, <1>2, <1>3, <1>5, <1>6, <2>2 DEF Kept, Heard, Agree
  <2> QED BY <2>1, <2>2
<1>7. CASE lastEntries[i] # stored[i]
  BY <1>0, <1>1, <1>2, <1>5, <1>7 DEF Kept, Own, Agree, RemovedUnseen
<1> QED BY <1>6, <1>7

SyncInv == Always /\ InStep

LEMMA SyncInvInit == SyncInit => SyncInv
BY AlwaysInit, InStepInit DEF SyncInv

LEMMA SyncInvStep == SyncInv /\ [SyncNext]_syncVars => SyncInv'
BY AlwaysStep, InStepStays DEF SyncInv

LEMMA SyncInvShows == SyncInv => ManagerFollowsStore
BY AlwaysTyped, AgreesWhenQuiet DEF SyncInv, ManagerFollowsStore

\* However the start, the listener (Watch), the reloads, the writes of the management API, of token
\* refreshes and of results, and changes from outside interleave: once nothing is under way the
\* manager serves what the document says of every credential, except one that a named cause parted
\* from it, one whose updates were handed over in the wrong order, or one whose removal the watcher
\* could not see.
THEOREM ManagerAlwaysFollowsStore == SyncSpec => []ManagerFollowsStore
BY SyncInvInit, SyncInvStep, SyncInvShows, PTL DEF SyncSpec

==============================================================================

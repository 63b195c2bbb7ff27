------------------------- MODULE AuthSchedulerProofs -------------------------
(***************************************************************************)
(* Proofs about AuthScheduler and AuthAvailability, for any credentials,   *)
(* providers, priorities, models, reports and cooldowns: the scheduler's   *)
(* shards are what a rebuild would give, what it picks is what the         *)
(* manager's data allow, a round robin passes nobody over, the backoff is  *)
(* bounded and the aggregate exact.                                        *)
(*                                                                         *)
(* The argument goes from the inside out: entry, shard, scheduler, the     *)
(* calls that patch it, a pick, the manager's calls.                       *)
(***************************************************************************)
EXTENDS MCAuthScheduler, FiniteSetTheorems, WellFoundedInduction, TLAPS

-----------------------------------------------------------------------------
(* Numbers, lists and the turn of a cursor.                                *)

\* A set of numbers has a least one.
LEMMA LeastNumber ==
  ASSUME NEW T, T \subseteq Nat, T # {}
  PROVE  \E x \in T : \A y \in T : x <= y
<1>1. PICK x \in T : \A y \in T : <<y, x>> \notin OpToRel(<, Nat)
  BY NatLessThanWellFounded, WFMin
<1>2. ASSUME NEW y \in T PROVE x <= y
  <2>1. x \in Nat /\ y \in Nat /\ ~(y < x)
    BY <1>1, <1>2 DEF OpToRel
  <2> QED BY <2>1
<1> QED BY <1>1, <1>2

\* A set of numbers closed under successor holds every number.
LEMMA ClosedSet ==
  ASSUME NEW T, 0 \in T, \A n \in Nat : n \in T => n + 1 \in T
  PROVE  Nat \subseteq T
<1> SUFFICES ASSUME Nat \ T # {} PROVE FALSE
  OBVIOUS
<1>1. PICK x \in Nat \ T : \A y \in Nat \ T : x <= y
  BY LeastNumber
<1>2. x # 0 /\ x \in Nat
  BY <1>1
<1>3. x - 1 \in Nat /\ x = (x - 1) + 1 /\ ~(x <= x - 1)
  BY <1>2
<1>4. x - 1 \in T
  BY <1>1, <1>3
<1> QED BY <1>1, <1>3, <1>4

\* Of finitely many numbers one is the greatest.
LEMMA Greatest ==
  ASSUME NEW S, IsFiniteSet(S), S # {}, S \subseteq Int
  PROVE  \E x \in S : \A y \in S : x >= y
<1> DEFINE Good(U) == \E x \in U : \A y \in U : x >= y
           Bad == {U \in SUBSET S : U # {} /\ ~Good(U)}
           F == FiniteSubsetsOf(S)
<1>1. Bad \subseteq F
  BY FS_Subset DEF FiniteSubsetsOf
<1>2. IsWellFoundedOn(StrictSubsetOrdering(S), F)
  BY FS_StrictSubsetOrderingWellFounded
<1>3. SUFFICES ASSUME Bad # {} PROVE FALSE
  BY <1>3
<1>4. PICK U \in Bad : \A V \in Bad : <<V, U>> \notin StrictSubsetOrdering(S)
  BY <1>1, <1>2, <1>3, WFMin
<1>5. U \subseteq S /\ U # {} /\ ~Good(U)
  BY <1>4
<1>6. PICK a \in U : TRUE
  BY <1>5
<1>7. CASE U = {a}
  <2>1. Good(U)
    BY <1>5, <1>7
  <2> QED BY <1>5, <2>1
<1>8. CASE U # {a}
  <2> DEFINE V == U \ {a}
  <2>1. V \subseteq S /\ V # {} /\ V \subseteq U /\ V # U
    BY <1>5, <1>6, <1>8
  <2>2. <<V, U>> \in StrictSubsetOrdering(S)
    BY <1>5, <2>1 DEF StrictSubsetOrdering
  <2>3. Good(V)
    BY <1>4, <2>1, <2>2
  <2>4. PICK m \in V : \A y \in V : m >= y
    BY <2>3
  <2>5. U = V \cup {a} /\ a \in Int /\ m \in Int /\ \A y \in U : y \in Int
    BY <1>5, <1>6, <2>1
  <2>6. CASE m >= a
    BY <1>5, <2>4, <2>5, <2>6
  <2>7. CASE a >= m
    BY <1>5, <2>4, <2>5, <2>7
  <2> QED BY <2>5, <2>6, <2>7
<1> QED BY <1>7, <1>8

\* Max gives it.
LEMMA MaxOf ==
  ASSUME NEW S, IsFiniteSet(S), S # {}, S \subseteq Int
  PROVE  Max(S) \in S /\ \A y \in S : Max(S) >= y
BY Greatest DEF Max

\* s lists S in its order.
Lists(s, S) ==
  /\ s \in [1..Cardinality(S) -> S]
  /\ \A i, j \in 1..Cardinality(S) : i < j => s[i] < s[j]

\* A finite set of numbers can be listed in its order.
LEMMA Listed ==
  ASSUME NEW S, IsFiniteSet(S), S \subseteq Nat
  PROVE  \E s \in [1..Cardinality(S) -> S] : Lists(s, S)
<1> DEFINE Fine(U) == \E s \in [1..Cardinality(U) -> U] : Lists(s, U)
           T == {n \in Nat : \A U \in SUBSET S : Cardinality(U) = n => Fine(U)}
<1>1. \A U \in SUBSET S : IsFiniteSet(U) /\ Cardinality(U) \in Nat
  BY FS_Subset, FS_CardinalityType
<1>2. 0 \in T
  <2>1. ASSUME NEW U \in SUBSET S, Cardinality(U) = 0 PROVE Fine(U)
    <3>1. U = {}
      BY <1>1, <2>1, FS_EmptySet
    <3> DEFINE s == [i \in 1..0 |-> 0]
    <3>2. 1..0 = {}
      OBVIOUS
    <3>3. s \in [1..Cardinality(U) -> U]
      BY <2>1, <3>2
    <3>4. Lists(s, U)
      BY <2>1, <3>2, <3>3 DEF Lists
    <3> QED BY <3>3, <3>4
  <2> QED BY <2>1
<1>3. ASSUME NEW n \in Nat, n \in T PROVE n + 1 \in T
  <2>1. ASSUME NEW U \in SUBSET S, Cardinality(U) = n + 1 PROVE Fine(U)
    <3>1. U # {} /\ IsFiniteSet(U) /\ U \subseteq Int
      BY <1>1, <2>1, FS_EmptySet
    <3>2. PICK m \in U : \A y \in U : m >= y
      BY <3>1, Greatest
    <3> DEFINE V == U \ {m}
    <3>3. V \in SUBSET S /\ Cardinality(V) = n
      <4>1. Cardinality(V) = Cardinality(U) - 1
        BY <3>1, <3>2, FS_RemoveElement
      <4> QED BY <2>1, <4>1
    <3>4. PICK v \in [1..n -> V] : Lists(v, V)
      BY <1>3, <3>3
    <3> DEFINE s == [i \in 1..(n + 1) |-> IF i = n + 1 THEN m ELSE v[i]]
    <3>5. ASSUME NEW i \in 1..(n + 1) PROVE s[i] \in U /\ (i # n + 1 => i \in 1..n /\ s[i] = v[i] /\ v[i] \in V)
      <4>1. i # n + 1 => i \in 1..n
        OBVIOUS
      <4>2. i # n + 1 => s[i] = v[i] /\ v[i] \in V
        <5> HIDE DEF V
        <5> QED BY <4>1, <3>4
      <4> QED BY <4>1, <4>2
    <3>6. s \in [1..(n + 1) -> U]
      <4> HIDE DEF V
      <4> QED BY <3>5
    <3>7. ASSUME NEW i \in 1..(n + 1), NEW j \in 1..(n + 1), i < j PROVE s[i] < s[j]
      <4>1. i # n + 1
        BY <3>7
      <4>2. i \in 1..n /\ s[i] = v[i] /\ v[i] \in V
        BY <3>5, <4>1
      <4>3. CASE j = n + 1
        <5>1. s[j] = m
          BY <4>3
        <5>2. v[i] \in Nat /\ m \in Nat /\ v[i] # m /\ m >= v[i]
          BY <3>2, <4>2
        <5> HIDE DEF s
        <5> QED BY <4>2, <5>1, <5>2
      <4>4. CASE j # n + 1
        <5>1. j \in 1..n /\ s[j] = v[j]
          BY <3>5, <4>4
        <5>2. v[i] < v[j]
          BY <3>3, <3>4, <3>7, <4>2, <5>1 DEF Lists
        <5> HIDE DEF s
        <5> QED BY <4>2, <5>1, <5>2
      <4> QED BY <4>3, <4>4
    <3> HIDE DEF s
    <3> QED BY <2>1, <3>6, <3>7 DEF Lists
  <2> HIDE DEF Fine
  <2> QED BY <2>1
<1>4. Nat \subseteq T
  <2> HIDE DEF T
  <2> QED BY <1>2, <1>3, ClosedSet
<1>5. Cardinality(S) \in T
  BY <1>1, <1>4
<1> HIDE DEF Fine
<1>6. Fine(S)
  BY <1>5
<1> QED BY <1>6 DEF Fine

\* InOrder lists every element once.
LEMMA InOrderOf ==
  ASSUME NEW S, IsFiniteSet(S), S \subseteq Nat
  PROVE  /\ InOrder(S) \in Seq(S)
         /\ \A a \in S : \E i \in DOMAIN InOrder(S) : InOrder(S)[i] = a
         /\ \A i \in DOMAIN InOrder(S) : InOrder(S)[i] \in S
<1> DEFINE s == InOrder(S)
           n == Cardinality(S)
<1>1. n \in Nat
  BY FS_CardinalityType
<1>2. s \in [1..n -> S] /\ \A i, j \in 1..n : i < j => s[i] < s[j]
  <2>1. \E r \in [1..n -> S] : \A i, j \in 1..n : i < j => r[i] < r[j]
    BY Listed DEF Lists
  <2> QED BY <2>1 DEF InOrder
<1> HIDE DEF s
<1>3. \A i, j \in 1..n : s[i] = s[j] => i = j
  <2>1. ASSUME NEW i \in 1..n, NEW j \in 1..n, i # j PROVE s[i] # s[j]
    <3>1. s[i] \in S /\ s[j] \in S
      BY <1>2
    <3>2. s[i] \in Nat /\ s[j] \in Nat
      BY ONLY <3>1, S \subseteq Nat
    <3>3. i \in Nat /\ j \in Nat
      BY <1>1
    <3>4. i < j \/ j < i
      BY <2>1, <3>3
    <3>5. s[i] < s[j] \/ s[j] < s[i]
      BY <1>2, <3>4
    <3> QED BY <3>2, <3>5
  <2> QED BY <2>1
<1>4. s \in Injection(1..n, S)
  BY <1>2, <1>3 DEF Injection, IsInjective
<1>5. IsFiniteSet(1..n) /\ Cardinality(1..n) = n
  BY <1>1, FS_Interval
<1>6. s \in Surjection(1..n, S)
  BY <1>4, <1>5, FS_Injection
<1>7. \A a \in S : \E i \in 1..n : s[i] = a
  BY <1>6 DEF Surjection
<1>8. DOMAIN s = 1..n /\ s \in Seq(S)
  <2>1. s \in [1..n -> S]
    BY <1>2
  <2> HIDE DEF n
  <2> QED BY <1>1, <2>1
<1>9. \A i \in DOMAIN s : s[i] \in S
  BY <1>2, <1>8
<1> QED BY <1>7, <1>8, <1>9 DEF s

\* The remainder of a division.
LEMMA Modulus == ASSUME NEW x \in Int, NEW n \in Nat, n > 0 PROVE x % n \in Nat
OBVIOUS

\* pickRoundRobin and fill-first take a position that is open.
LEMMA TakeOpen ==
  ASSUME NEW fill \in BOOLEAN, NEW len \in Nat, NEW open, open \subseteq 1..len, open # {}, NEW cursor \in Nat
  PROVE  Take(fill, open, cursor, len) \in open
<1>1. CASE fill
  <2>1. open \subseteq Nat
    OBVIOUS
  <2>2. \E x \in open : \A y \in open : x <= y
    BY <2>1, LeastNumber
  <2> QED BY <1>1, <2>2 DEF Take, Min
<1>2. CASE ~fill
  <2> DEFINE f(i) == (i - 1 - cursor) % len
             T == {f(i) : i \in open}
  <2>1. ASSUME NEW i \in open PROVE f(i) \in Nat
    <3>1. i \in Nat /\ len > 0
      OBVIOUS
    <3>2. i - 1 - cursor \in Int
      BY <3>1
    <3> QED BY <3>1, <3>2, Modulus
  <2>2. \E x \in T : \A y \in T : x <= y
    <3>1. T \subseteq Nat /\ T # {}
      BY <2>1
    <3> HIDE DEF T
    <3> QED BY <3>1, LeastNumber
  <2>3. \E i \in open : \A j \in open : f(i) <= f(j)
    BY <2>2
  <2>4. Rotate(open, cursor, len) \in open
    BY <2>3 DEF Rotate
  <2> QED BY <1>2, <2>4 DEF Take
<1> QED BY <1>1, <1>2

\* How many positions a cursor passes before it comes to position j.
Before(j, cursor, len) == (j - 1 - cursor) % len

\* A remainder, one length to either side of zero.
LEMMA Remainder ==
  ASSUME NEW len \in Nat, len > 0, NEW x \in Int, -len <= x, x < len
  PROVE  x % len = IF x >= 0 THEN x ELSE x + len
OBVIOUS

LEMMA BeforeOf ==
  ASSUME NEW len \in Nat, NEW j \in 1..len, NEW cursor \in 0..len
  PROVE  /\ Before(j, cursor, len) = IF j > cursor THEN j - 1 - cursor ELSE j - 1 - cursor + len
         /\ Before(j, cursor, len) \in 0..(len - 1) /\ Before(j, cursor, len) \in Nat
<1> DEFINE x == j - 1 - cursor
<1>1. len > 0 /\ x \in Int /\ -len <= x /\ x < len /\ (x >= 0 <=> j > cursor)
  OBVIOUS
<1> HIDE DEF x
<1>2. x % len = IF x >= 0 THEN x ELSE x + len
  BY <1>1, Remainder
<1>3. x % len \in 0..(len - 1) /\ x % len \in Nat
  BY <1>1, <1>2
<1> QED BY <1>1, <1>2, <1>3 DEF Before, x

\* pickRoundRobin takes an open position, and every other one comes nearer to its turn.
LEMMA Nearer ==
  ASSUME NEW len \in Nat, NEW open, open \subseteq 1..len, NEW j \in open, NEW cursor \in 0..len
  PROVE  LET i == Rotate(open, cursor, len)
         IN  i \in open /\ (i # j => Before(j, i, len) < Before(j, cursor, len))
<1> DEFINE i == Rotate(open, cursor, len)
<1>1. \A k \in open : /\ Before(k, cursor, len) = IF k > cursor THEN k - 1 - cursor ELSE k - 1 - cursor + len
                      /\ Before(k, cursor, len) \in 0..(len - 1)
  BY BeforeOf
<1>2. i \in open /\ \A k \in open : Before(i, cursor, len) <= Before(k, cursor, len)
  <2> DEFINE T == {Before(k, cursor, len) : k \in open}
  <2>1. T \subseteq Nat /\ T # {}
    BY <1>1
  <2> HIDE DEF T
  <2>2. \E x \in T : \A y \in T : x <= y
    BY <2>1, LeastNumber
  <2>3. \E k \in open : \A l \in open : Before(k, cursor, len) <= Before(l, cursor, len)
    BY <2>2 DEF T
  <2> QED BY <2>3 DEF Rotate, Before
<1> HIDE DEF i
<1>3. ASSUME i # j PROVE Before(j, i, len) < Before(j, cursor, len)
  <2>1. i \in 1..len /\ j \in 1..len /\ i \in 0..len
    BY <1>2
  <2>2. Before(j, i, len) = IF j > i THEN j - 1 - i ELSE j - 1 - i + len
    BY <2>1, BeforeOf
  <2>3. Before(i, cursor, len) <= Before(j, cursor, len)
    BY <1>2
  <2>4. /\ Before(i, cursor, len) = IF i > cursor THEN i - 1 - cursor ELSE i - 1 - cursor + len
        /\ Before(j, cursor, len) = IF j > cursor THEN j - 1 - cursor ELSE j - 1 - cursor + len
    BY <1>1, <1>2
  <2> QED BY <1>3, <2>1, <2>2, <2>3, <2>4
<1> QED BY <1>2, <1>3 DEF i

\* Two distances of which the first counts for a whole length of the other.
LEMMA Lexicographic ==
  ASSUME NEW len \in Nat, NEW c \in Nat, NEW d \in Nat, NEW x \in 0..(len - 1), NEW y \in Nat, c < d
  PROVE  c * len + x < d * len + y
<1>1. (c + 1) * len <= d * len
  <2>1. \E k \in Nat : d = c + 1 + k
    <3>1. d - c - 1 \in Nat /\ d = c + 1 + (d - c - 1)
      OBVIOUS
    <3> QED BY <3>1
  <2>2. PICK k \in Nat : d = c + 1 + k
    BY <2>1
  <2>3. d * len = (c + 1) * len + k * len /\ k * len \in Nat /\ (c + 1) * len \in Nat
    BY <2>2
  <2> QED BY <2>3
<1>2. (c + 1) * len = c * len + len /\ c * len \in Nat /\ d * len \in Nat
  OBVIOUS
<1> QED BY <1>1, <1>2

\* The greatest such distance.
LEMMA Farthest ==
  ASSUME NEW len \in Nat, NEW n \in Nat, NEW c \in 0..(n - 1), NEW x \in 0..(len - 1)
  PROVE  c * len + x \in Nat /\ c * len + x < len * n
<1>1. c \in Nat /\ c < n /\ 0 \in Nat
  OBVIOUS
<1>2. c * len + x < n * len + 0
  BY <1>1, Lexicographic
<1>3. n * len = len * n /\ c * len \in Nat /\ n * len \in Nat
  BY <1>1
<1> QED BY <1>2, <1>3

\* f has the powers of two up to n.
PowersTo(f, n) == f \in [0..n -> Nat] /\ \A k \in 0..n : f[k] = IF k = 0 THEN 1 ELSE 2 * f[k - 1]

\* Such a function exists for every n.
LEMMA PowersExist == \A n \in Nat : \E f \in [0..n -> Nat] : PowersTo(f, n)
<1> DEFINE T == {n \in Nat : \E f \in [0..n -> Nat] : PowersTo(f, n)}
<1>1. 0 \in T
  <2> DEFINE f == [k \in 0..0 |-> 1]
  <2>1. f \in [0..0 -> Nat] /\ PowersTo(f, 0)
    BY DEF PowersTo
  <2> QED BY <2>1
<1>2. ASSUME NEW n \in Nat, n \in T PROVE n + 1 \in T
  <2>1. PICK f \in [0..n -> Nat] : PowersTo(f, n)
    BY <1>2
  <2> DEFINE g == [k \in 0..(n + 1) |-> IF k = n + 1 THEN 2 * f[n] ELSE f[k]]
  <2>2. g \in [0..(n + 1) -> Nat]
    BY <2>1
  <2>3. ASSUME NEW k \in 0..(n + 1) PROVE g[k] = IF k = 0 THEN 1 ELSE 2 * g[k - 1]
    <3>1. CASE k = n + 1
      <4>1. k - 1 = n /\ k - 1 \in 0..(n + 1) /\ k # 0 /\ k - 1 # n + 1
        BY <3>1
      <4>2. g[k] = 2 * f[n] /\ g[k - 1] = f[n]
        BY <3>1, <4>1
      <4> QED BY <4>1, <4>2
    <3>2. CASE k # n + 1
      <4>1. k \in 0..n /\ g[k] = f[k] /\ (k # 0 => k - 1 \in 0..(n + 1) /\ g[k - 1] = f[k - 1])
        BY <3>2
      <4> HIDE DEF g
      <4>2. f[k] = IF k = 0 THEN 1 ELSE 2 * f[k - 1]
        BY <2>1, <4>1 DEF PowersTo
      <4> QED BY <4>1, <4>2
    <3> QED BY <3>1, <3>2
  <2>4. PowersTo(g, n + 1)
    BY <2>2, <2>3 DEF PowersTo
  <2> HIDE DEF g
  <2> QED BY <2>2, <2>4
<1>3. Nat \subseteq T
  <2> HIDE DEF T
  <2> QED BY <1>1, <1>2, ClosedSet
<1> QED BY <1>3

\* Two of them agree where both are defined.
LEMMA PowersAgree ==
  ASSUME NEW m \in Nat, NEW n \in Nat, NEW f, NEW g, PowersTo(f, m), PowersTo(g, n)
  PROVE  \A k \in Nat : k <= m /\ k <= n => f[k] = g[k]
<1> DEFINE T == {k \in Nat : k <= m /\ k <= n => f[k] = g[k]}
<1>1. 0 \in T
  <2>1. 0 \in 0..m /\ 0 \in 0..n
    OBVIOUS
  <2> QED BY <2>1 DEF PowersTo
<1>2. ASSUME NEW k \in Nat, k \in T PROVE k + 1 \in T
  <2>1. SUFFICES ASSUME k + 1 <= m, k + 1 <= n PROVE f[k + 1] = g[k + 1]
    OBVIOUS
  <2>2. k + 1 \in 0..m /\ k + 1 \in 0..n /\ k + 1 # 0 /\ (k + 1) - 1 = k /\ k <= m /\ k <= n
    BY <2>1
  <2>3. f[k] = g[k]
    BY <1>2, <2>2
  <2>4. f[k + 1] = 2 * f[k] /\ g[k + 1] = 2 * g[k]
    BY <2>2 DEF PowersTo
  <2> QED BY <2>3, <2>4
<1>3. Nat \subseteq T
  <2> HIDE DEF T
  <2> QED BY <1>1, <1>2, ClosedSet
<1> QED BY <1>3

\* The recursive definition of Pow2 defines a function, and its values are numbers.
LEMMA PowersOfTwo == Pow2 = [k \in Nat |-> IF k = 0 THEN 1 ELSE 2 * Pow2[k - 1]] /\ Pow2 \in [Nat -> Nat]
<1> DEFINE P(n) == CHOOSE f \in [0..n -> Nat] : PowersTo(f, n)
           h == [n \in Nat |-> P(n)[n]]
<1>1. \A n \in Nat : P(n) \in [0..n -> Nat] /\ PowersTo(P(n), n)
  BY PowersExist
<1>2. h \in [Nat -> Nat]
  BY <1>1
<1>3. h = [k \in Nat |-> IF k = 0 THEN 1 ELSE 2 * h[k - 1]]
  <2>1. ASSUME NEW k \in Nat PROVE h[k] = IF k = 0 THEN 1 ELSE 2 * h[k - 1]
    <3>1. CASE k = 0
      <4>1. 0 \in 0..0 /\ 0 \in Nat
        OBVIOUS
      <4>2. h[0] = P(0)[0]
        <5> HIDE DEF P
        <5> QED BY <4>1
      <4>3. PowersTo(P(0), 0)
        BY <1>1
      <4> HIDE DEF P, h
      <4> QED BY <3>1, <4>1, <4>3, <4>2 DEF PowersTo
    <3>2. CASE k # 0
      <4>1. k - 1 \in Nat /\ k \in 0..k /\ k - 1 <= k /\ k - 1 <= k - 1
        BY <3>2
      <4>2. h[k] = P(k)[k] /\ h[k - 1] = P(k - 1)[k - 1]
        BY <4>1
      <4>3. PowersTo(P(k), k) /\ PowersTo(P(k - 1), k - 1)
        BY <1>1, <4>1
      <4> HIDE DEF P, h
      <4>4. P(k)[k - 1] = P(k - 1)[k - 1]
        BY <4>1, <4>3, PowersAgree
      <4>5. P(k)[k] = 2 * P(k)[k - 1]
        BY <3>2, <4>1, <4>3 DEF PowersTo
      <4> QED BY <3>2, <4>2, <4>4, <4>5
    <3> QED BY <3>1, <3>2
  <2> DEFINE b == [k \in Nat |-> IF k = 0 THEN 1 ELSE 2 * h[k - 1]]
  <2>2. \A k \in Nat : h[k] = b[k]
    BY <2>1
  <2>3. h = [k \in Nat |-> h[k]] /\ b = [k \in Nat |-> b[k]]
    OBVIOUS
  <2> QED
    <3> HIDE DEF h, b
    <3>1. h = b BY <2>2, <2>3
    <3> QED BY <3>1 DEF b
<1> HIDE DEF h
<1>4. Pow2 = [k \in Nat |-> IF k = 0 THEN 1 ELSE 2 * Pow2[k - 1]]
  BY <1>3 DEF Pow2
<1>5. \A k \in Nat : Pow2[k] \in Nat
  <2> DEFINE T == {k \in Nat : Pow2[k] \in Nat}
  <2>1. 0 \in T
    BY <1>4
  <2>2. ASSUME NEW k \in Nat, k \in T PROVE k + 1 \in T
    <3>1. k + 1 \in Nat /\ k + 1 # 0 /\ (k + 1) - 1 = k
      OBVIOUS
    <3>2. Pow2[k + 1] = 2 * Pow2[k]
      BY <1>4, <3>1
    <3> QED BY <2>2, <3>1, <3>2
  <2>3. Nat \subseteq T
    <3> HIDE DEF T
    <3> QED BY <2>1, <2>2, ClosedSet
  <2> QED BY <2>3
<1> QED BY <1>4, <1>5

-----------------------------------------------------------------------------
(* One result on the state of one model.                                   *)

Bounded(s) == s.level > 0 => BackoffBase * Pow2[s.level - 1] < BackoffMax

ModelState ==
  [known : BOOLEAN, unavailable : BOOLEAN, failed : BOOLEAN, retryAt : Nat,
   exceeded : BOOLEAN, recoverAt : Nat, level : Nat]

\* A 429 raises the level at most to the first one whose pause is the maximum.
LEMMA CooldownGrows ==
  ASSUME NEW level \in Nat, NEW c \in BOOLEAN, level > 0 => BackoffBase * Pow2[level - 1] < BackoffMax
  PROVE  LET r == NextQuotaCooldown(level, c)
         IN  r.pause \in Nat /\ r.level \in Nat
             /\ (r.level > 0 => BackoffBase * Pow2[r.level - 1] < BackoffMax)
<1> DEFINE pause == BackoffBase * Pow2[level]
<1>1. BackoffBase \in Nat /\ BackoffMax \in Nat /\ Pow2[level] \in Nat
  BY CooldownAssumption, PowersOfTwo DEF CooldownAssumption
<1>2. pause \in Nat
  BY <1>1
<1>3. level + 1 \in Nat /\ (level + 1) - 1 = level
  OBVIOUS
<1>4. CASE ~c
  BY <1>4 DEF NextQuotaCooldown
<1>5. CASE c /\ pause >= BackoffMax
  BY <1>1, <1>5 DEF NextQuotaCooldown
<1>6. CASE c /\ ~(pause >= BackoffMax)
  <2>1. pause < BackoffMax
    <3> HIDE DEF pause
    <3> QED BY <1>1, <1>2, <1>6
  <2>2. NextQuotaCooldown(level, c) = [pause |-> pause, level |-> level + 1]
    BY <1>6 DEF NextQuotaCooldown
  <2> QED BY <1>2, <1>3, <2>1, <2>2
<1> QED BY <1>4, <1>5, <1>6

\* A result makes a known state with a bounded level, which has failed unless the
\* result is a success.
LEMMA SettleKeeps ==
  ASSUME NEW s \in ModelState, NEW t \in Nat, NEW outcome \in Outcomes, NEW ra \in Nat,
         NEW c \in BOOLEAN, Bounded(s)
  PROVE  LET r == Settle(s, t, outcome, ra, c)
         IN  r \in ModelState /\ r.known /\ Bounded(r) /\ (r.failed <=> outcome # "success")
<1>1. {Rejected, NotFound, Transient} \subseteq Nat
  BY CooldownAssumption DEF CooldownAssumption
<1>2. t + Rejected \in Nat /\ t + NotFound \in Nat /\ t + Transient \in Nat /\ Zero \in Nat
  BY <1>1 DEF Zero
<1>3. Active \in ModelState /\ Active.known /\ ~Active.failed /\ Bounded(Active)
  <2>1. Unknown \in ModelState /\ ~Unknown.failed /\ Unknown.level = 0
    BY DEF Unknown, ModelState, Zero
  <2>2. ASSUME NEW u \in ModelState, ~u.failed, u.level = 0
        PROVE  LET v == [u EXCEPT !.known = TRUE] IN v \in ModelState /\ v.known /\ ~v.failed /\ v.level = 0
    BY <2>2 DEF ModelState
  <2>3. Active \in ModelState /\ Active.known /\ ~Active.failed /\ Active.level = 0
    BY <2>1, <2>2 DEF Active
  <2> QED BY <2>3 DEF Bounded
<1> DEFINE f == [s EXCEPT !.known = TRUE, !.unavailable = TRUE, !.failed = TRUE]
<1>4. f \in ModelState /\ f.known /\ f.failed /\ f.level = s.level /\ Bounded(f)
  BY DEF ModelState, Bounded
<1>5. CASE outcome = "success"
  BY <1>3, <1>5 DEF Settle
<1>6. CASE outcome = "quota"
  <2> DEFINE b == NextQuotaCooldown(f.level, c)
             pause == IF ra > 0 THEN ra ELSE b.pause
             next == IF pause > 0 THEN t + pause ELSE Zero
             level == IF ra > 0 THEN f.level ELSE b.level
  <2>1. /\ b.pause \in Nat /\ b.level \in Nat
        /\ b.level > 0 => BackoffBase * Pow2[b.level - 1] < BackoffMax
    <3>1. f.level \in Nat /\ (f.level > 0 => BackoffBase * Pow2[f.level - 1] < BackoffMax)
      BY <1>4 DEF ModelState, Bounded
    <3> QED BY <3>1, CooldownGrows
  <2>2. pause \in Nat /\ next \in Nat
    BY <2>1, <1>2
  <2>3. level \in Nat /\ (level > 0 => BackoffBase * Pow2[level - 1] < BackoffMax)
    <3>1. CASE ra > 0
      BY <3>1, <1>4 DEF ModelState, Bounded
    <3>2. CASE ~(ra > 0)
      BY <3>2, <2>1
    <3> QED BY <3>1, <3>2
  <2>4. Settle(s, t, outcome, ra, c) = [f EXCEPT !.retryAt = next, !.exceeded = TRUE, !.recoverAt = next, !.level = level]
    BY <1>6 DEF Settle, Failure, Quota
  <2> HIDE DEF f, next, level
  <2> QED BY <1>4, <1>6, <2>2, <2>3, <2>4 DEF ModelState, Bounded
<1>7. CASE outcome \in {"rejected", "not_found", "transient", "other"}
  <2>1. PICK r \in Nat : Settle(s, t, outcome, ra, c) = [f EXCEPT !.retryAt = r]
    <3>1. CASE outcome = "rejected"
      BY <3>1, <1>2 DEF Settle, Failure
    <3>2. CASE outcome = "not_found"
      BY <3>2, <1>2 DEF Settle, Failure
    <3>3. CASE outcome = "transient"
      BY <3>3, <1>2 DEF Settle, Failure
    <3>4. CASE outcome = "other"
      BY <3>4, <1>2 DEF Settle, Failure
    <3> QED BY <1>7, <3>1, <3>2, <3>3, <3>4
  <2> HIDE DEF f
  <2> QED BY <1>4, <1>7, <2>1 DEF ModelState, Bounded
<1> QED BY <1>5, <1>6, <1>7 DEF Outcomes

\* Dropping a cooldown that is over leaves the rest of the state.
LEMMA ExpireKeeps ==
  ASSUME NEW s \in ModelState, NEW t \in Nat
  PROVE  LET r == Expire(s, t)
         IN  r \in ModelState /\ r.known = s.known /\ r.failed = s.failed /\ r.level = s.level
             /\ (s = Unknown => r = Unknown)
<1>1. Zero \in Nat
  BY DEF Zero
<1>2. CASE Expired(s, t)
  <2>1. Expire(s, t) = [s EXCEPT !.unavailable = FALSE, !.retryAt = Zero] /\ s.unavailable
    BY <1>2 DEF Expire, Expired
  <2>2. s # Unknown
    BY <2>1 DEF Unknown
  <2> QED BY <1>1, <2>1, <2>2 DEF ModelState
<1>3. CASE ~Expired(s, t)
  BY <1>3 DEF Expire
<1> QED BY <1>2, <1>3

-----------------------------------------------------------------------------
(* The aggregate.                                                          *)

\* The machine of AuthAvailability counts and pauses as the scheduler's does.
LEMMA Same ==
  /\ \A s, t, outcome, ra, c : Availability!Settle(s, t, outcome, ra, c) = Settle(s, t, outcome, ra, c)
  /\ \A s, t : Availability!Expire(s, t) = Expire(s, t)
  /\ \A s, t : Availability!CoolingAt(s, t) <=> CoolingAt(s, t)
  /\ Availability!Pow2 = Pow2
  /\ Availability!ModelState = ModelState
  /\ Availability!Unknown = Unknown
  /\ Availability!Zero = Zero
  /\ Availability!Outcomes = Outcomes
<1>1. Availability!Pow2 = Pow2
  BY DEF Availability!Pow2, Pow2
<1>2. ASSUME NEW level, NEW cool
      PROVE  Availability!NextQuotaCooldown(level, cool) = NextQuotaCooldown(level, cool)
  BY <1>1 DEF Availability!NextQuotaCooldown, NextQuotaCooldown
<1>3. ASSUME NEW s, NEW t, NEW outcome, NEW ra, NEW c
      PROVE  Availability!Settle(s, t, outcome, ra, c) = Settle(s, t, outcome, ra, c)
  BY <1>2 DEF Availability!Settle, Settle, Availability!Failure, Failure, Availability!Quota, Quota,
              Availability!Active, Active, Availability!Unknown, Unknown, Availability!Zero, Zero
<1>4. ASSUME NEW s, NEW t PROVE Availability!Expire(s, t) = Expire(s, t)
  BY DEF Availability!Expire, Expire, Availability!Expired, Expired, Availability!Zero, Zero
<1>5. ASSUME NEW s, NEW t PROVE Availability!CoolingAt(s, t) <=> CoolingAt(s, t)
  BY DEF Availability!CoolingAt, CoolingAt
<1>6. /\ Availability!ModelState = ModelState
      /\ Availability!Unknown = Unknown
      /\ Availability!Zero = Zero
      /\ Availability!Outcomes = Outcomes
  BY DEF Availability!ModelState, ModelState, Availability!Unknown, Unknown, Availability!Zero, Zero,
         Availability!Outcomes, Outcomes
<1> QED BY <1>1, <1>3, <1>4, <1>5, <1>6

\* The least of the nonzero times, or zero.
LEMMA EarliestOf ==
  ASSUME NEW S, S \subseteq Nat
  PROVE  /\ Availability!Earliest(S) \in Nat
         /\ S # {} /\ Zero \notin S => Availability!Earliest(S) \in S /\ \A t \in S : Availability!Earliest(S) <= t
<1>1. CASE S \ {Zero} = {}
  <2>1. Availability!Earliest(S) = Zero /\ Zero \in Nat
    BY <1>1, Same DEF Availability!Earliest, Zero
  <2> QED BY <1>1, <2>1
<1>2. CASE S \ {Zero} # {}
  <2> DEFINE T == S \ {Zero}
  <2>1. \E t \in T : \A u \in T : t <= u
    <3>1. T \subseteq Nat /\ T # {}
      BY <1>2
    <3> HIDE DEF T
    <3> QED BY <3>1, LeastNumber
  <2>2. Availability!MinOfTimes(T) \in T /\ \A u \in T : Availability!MinOfTimes(T) <= u
    <3> HIDE DEF T
    <3> QED BY <2>1, Same DEF Availability!MinOfTimes
  <2>3. Availability!Earliest(S) = Availability!MinOfTimes(T)
    BY <1>2, Same DEF Availability!Earliest, Zero
  <2>4. Availability!Earliest(S) \in T /\ \A u \in T : Availability!Earliest(S) <= u
    BY <2>2, <2>3
  <2>5. Zero \notin S => T = S
    OBVIOUS
  <2> QED BY <2>4, <2>5
<1> QED BY <1>1, <1>2

\* The aggregate of the last result, seen clock: it names the first of the cooldowns
\* if it says unavailable, and some model was free ever since if it does not.
Summed ==
  /\ Availability!KnownNames(states) # {} /\ agg.unavailable =>
       /\ \A n \in Availability!KnownNames(states) : states[n].unavailable /\ agg.retryAt <= states[n].retryAt
       /\ \E n \in Availability!KnownNames(states) : agg.retryAt = states[n].retryAt
  /\ Availability!KnownNames(states) # {} /\ ~agg.unavailable => \E n \in Availability!KnownNames(states) : ~CoolingAt(states[n], clock)
  /\ agg.failed <=> \E n \in Models : states[n].failed

AvailabilityInv == Availability!BackoffBounded /\ Summed

\* Initially no model is known.
LEMMA AvailabilityInit == Availability!Init => AvailabilityInv
<1> SUFFICES ASSUME Availability!Init PROVE AvailabilityInv
  OBVIOUS
<1>1. Unknown \in ModelState /\ ~Unknown.known /\ ~Unknown.failed /\ Unknown.level = 0 /\ Zero \in Nat
  BY DEF Unknown, ModelState, Zero
<1>2. \A n \in Models : states[n] = Unknown
  BY Same DEF Availability!Init
<1>3. Availability!KnownNames(states) = {} /\ \A n \in Models : ~states[n].failed
  BY <1>1, <1>2, Same DEF Availability!KnownNames
<1>4. Availability!TypeOK
  <2>1. states \in [Models -> ModelState]
    BY <1>1, Same DEF Availability!Init
  <2>2. agg \in [unavailable : BOOLEAN, retryAt : Nat, exceeded : BOOLEAN, recoverAt : Nat, failed : BOOLEAN]
    BY <1>1, Same DEF Availability!Init
  <2>3. clock = 1 /\ cooling \in BOOLEAN
    BY Same DEF Availability!Init
  <2> QED BY <1>2, <2>1, <2>2, <2>3, Same DEF Availability!TypeOK
<1>5. ~agg.failed
  BY Same DEF Availability!Init
<1>6. Availability!BackoffBounded
  BY <1>1, <1>2, <1>4, Same DEF Availability!BackoffBounded
<1> QED BY <1>3, <1>5, <1>6 DEF AvailabilityInv, Summed

\* A result makes the aggregate anew from states that have dropped what is over.
LEMMA MarkKeeps ==
  ASSUME AvailabilityInv, NEW n \in Models, NEW outcome \in Outcomes, NEW ra \in Nat, Availability!MarkResult(n, outcome, ra)
  PROVE  AvailabilityInv'
<1> DEFINE settled == [states EXCEPT ![n] = Settle(states[n], clock, outcome, ra, cooling)]
           A == Availability!Aggregate(states', clock)
<1>1. /\ states \in [Models -> ModelState] /\ clock \in Nat \ {0} /\ cooling \in BOOLEAN
      /\ \A x \in Models : Bounded(states[x])
      /\ \A x \in Models : ~states[x].known => states[x] = Unknown
  BY Same DEF AvailabilityInv, Availability!BackoffBounded, Availability!TypeOK, Bounded
<1>2. /\ settled[n] \in ModelState /\ settled[n].known /\ Bounded(settled[n])
      /\ settled[n].failed <=> outcome # "success"
  <2>1. settled[n] = Settle(states[n], clock, outcome, ra, cooling)
    BY <1>1
  <2>2. states[n] \in ModelState /\ clock \in Nat /\ Bounded(states[n])
    BY <1>1
  <2> QED BY <1>1, <2>1, <2>2, SettleKeeps
<1>3. \A x \in Models : x # n => settled[x] = states[x]
  BY <1>1
<1>4. /\ states' = [x \in Models |-> Expire(settled[x], clock)]
      /\ UNCHANGED <<cooling, clock>>
  BY Same DEF Availability!MarkResult, Availability!MarkStates
<1>5. \A x \in Models : states'[x] = Expire(settled[x], clock)
  <2> HIDE DEF settled
  <2> QED BY <1>4
<1>6. \A x \in Models : settled[x] \in ModelState /\ Bounded(settled[x]) /\ (~settled[x].known => settled[x] = Unknown)
  <2> HIDE DEF settled
  <2> QED BY <1>1, <1>2, <1>3
<1> HIDE DEF settled
<1>7. \A x \in Models : /\ states'[x] \in ModelState /\ states'[x].known = settled[x].known
                        /\ states'[x].failed = settled[x].failed /\ states'[x].level = settled[x].level
                        /\ (settled[x] = Unknown => states'[x] = Unknown)
  <2> TAKE x \in Models
  <2>1. settled[x] \in ModelState /\ clock \in Nat /\ states'[x] = Expire(settled[x], clock)
    BY <1>1, <1>5, <1>6
  <2> QED BY <2>1, ExpireKeeps
<1>8. /\ agg' = [unavailable |-> A.unavailable, retryAt |-> A.retryAt, exceeded |-> A.exceeded,
                 recoverAt |-> A.recoverAt,
                 failed |-> IF outcome # "success" THEN TRUE ELSE agg.failed /\ Availability!HasModelError(states')]
  BY <1>4, Same DEF Availability!MarkResult
<1>9. n \in Availability!KnownNames(states)'
  BY <1>2, <1>7, Same DEF Availability!KnownNames
<1>10. /\ A.unavailable = (\A x \in Availability!KnownNames(states') : CoolingAt(states'[x], clock))
       /\ A.retryAt = IF A.unavailable THEN Availability!Earliest({states'[x].retryAt : x \in Availability!KnownNames(states')}) ELSE Zero
       /\ A.exceeded \in BOOLEAN
       /\ A.recoverAt = Availability!Earliest({states'[x].recoverAt : x \in {y \in Availability!KnownNames(states') : states'[y].exceeded}})
  BY Same DEF Availability!Aggregate
<1> HIDE DEF A
<1>11. Availability!TypeOK'
  <2>1. states' \in [Models -> ModelState]
    BY <1>4, <1>7
  <2>2. A.retryAt \in Nat
    <3>1. {states'[x].retryAt : x \in Availability!KnownNames(states')} \subseteq Nat
      BY <1>7, Same DEF ModelState, Availability!KnownNames
    <3>2. Availability!Earliest({states'[x].retryAt : x \in Availability!KnownNames(states')}) \in Nat
      BY <3>1, EarliestOf
    <3> QED BY <1>10, <3>2 DEF Zero
  <2>3. A.recoverAt \in Nat
    <3>1. {states'[x].recoverAt : x \in {y \in Availability!KnownNames(states') : states'[y].exceeded}} \subseteq Nat
      BY <1>7, Same DEF ModelState, Availability!KnownNames
    <3> QED BY <1>10, <3>1, EarliestOf
  <2>4. A.unavailable \in BOOLEAN
    BY <1>10
  <2>5. agg.failed \in BOOLEAN /\ Availability!HasModelError(states') \in BOOLEAN
    BY Same DEF AvailabilityInv, Availability!BackoffBounded, Availability!TypeOK, Availability!HasModelError
  <2>6. agg' \in [unavailable : BOOLEAN, retryAt : Nat, exceeded : BOOLEAN, recoverAt : Nat, failed : BOOLEAN]
    BY <1>8, <1>10, <2>2, <2>3, <2>4, <2>5
  <2>7. \A x \in Models : ~states'[x].known => states'[x] = Unknown
    BY <1>6, <1>7
  <2> QED BY <1>1, <1>4, <2>1, <2>6, <2>7, Same DEF Availability!TypeOK
<1>12. Availability!BackoffBounded'
  <2>1. \A x \in Models : Bounded(settled[x])
    BY <1>6
  <2> QED BY <1>7, <1>11, <2>1, Same DEF Availability!BackoffBounded, Bounded
<1>13. Summed'
  <2>1. ASSUME agg'.unavailable
        PROVE  /\ \A x \in Availability!KnownNames(states') : states'[x].unavailable /\ agg'.retryAt <= states'[x].retryAt
               /\ \E x \in Availability!KnownNames(states') : agg'.retryAt = states'[x].retryAt
    <3> DEFINE S == {states'[x].retryAt : x \in Availability!KnownNames(states')}
    <3>1. \A x \in Availability!KnownNames(states') : states'[x].unavailable /\ states'[x].retryAt > clock
      BY <1>8, <1>10, <2>1 DEF CoolingAt
    <3>2. S \subseteq Nat /\ S # {} /\ Zero \notin S
      <4>1. \A x \in Availability!KnownNames(states') : states'[x].retryAt \in Nat /\ states'[x].retryAt # 0
        BY <1>1, <1>7, <3>1, Same DEF ModelState, Availability!KnownNames
      <4> QED BY <1>9, <4>1 DEF Zero
    <3>3. agg'.retryAt = Availability!Earliest(S)
      BY <1>8, <1>10, <2>1
    <3>4. agg'.retryAt \in S /\ \A t \in S : agg'.retryAt <= t
      <4> HIDE DEF S
      <4> QED BY <3>2, <3>3, EarliestOf
    <3> QED BY <3>1, <3>4
  <2>2. ASSUME ~agg'.unavailable PROVE \E x \in Availability!KnownNames(states') : ~CoolingAt(states'[x], clock')
    BY <1>4, <1>8, <1>10, <2>2
  <2>3. agg'.failed <=> \E x \in Models : states'[x].failed
    <3>1. CASE outcome # "success"
      BY <1>2, <1>7, <1>8, <3>1
    <3>2. CASE outcome = "success"
      <4>1. agg.failed <=> \E x \in Models : states[x].failed
        BY DEF AvailabilityInv, Summed
      <4>2. Availability!HasModelError(states') <=> \E x \in Models : states'[x].failed
        <5>1. ~Unknown.failed
          BY DEF Unknown
        <5>2. \A x \in Models : states'[x].failed => states'[x].known
          BY <1>6, <1>7, <5>1
        <5> QED BY <5>2, Same DEF Availability!HasModelError, Availability!KnownNames
      <4>3. \A x \in Models : states'[x].failed => states[x].failed
        BY <1>2, <1>3, <1>7, <3>2
      <4> QED BY <1>8, <3>2, <4>1, <4>2, <4>3
    <3> QED BY <3>1, <3>2
  <2> QED BY <2>1, <2>2, <2>3 DEF Summed
<1> QED BY <1>12, <1>13 DEF AvailabilityInv

\* Time alone only ends cooldowns.
LEMMA AvailabilityStep == AvailabilityInv /\ [Availability!Next]_(Availability!vars) => AvailabilityInv'
<1> SUFFICES ASSUME AvailabilityInv, [Availability!Next]_(Availability!vars) PROVE AvailabilityInv'
  OBVIOUS
<1>1. CASE \E n \in Models : \E outcome \in Outcomes \ {"quota"} : Availability!MarkResult(n, outcome, 0)
  BY <1>1, MarkKeeps
<1>2. CASE \E n \in Models : \E ra \in RetryAfters : Availability!MarkResult(n, "quota", ra)
  <2>1. "quota" \in Outcomes /\ RetryAfters \subseteq Nat
    BY CooldownAssumption DEF CooldownAssumption, Outcomes
  <2> QED BY <1>2, <2>1, MarkKeeps
<1>3. CASE Availability!SetQuotaCooldownDisabled
  BY <1>3, Same DEF Availability!SetQuotaCooldownDisabled, AvailabilityInv, Availability!BackoffBounded, Availability!TypeOK, Summed, Availability!KnownNames
<1>4. CASE Availability!Tick
  <2>1. clock' = clock + 1 /\ clock \in Nat \ {0} /\ UNCHANGED <<states, agg, cooling>>
    BY <1>4, Same DEF Availability!Tick, AvailabilityInv, Availability!BackoffBounded, Availability!TypeOK
  <2>2. Availability!BackoffBounded'
    BY <2>1, Same DEF AvailabilityInv, Availability!BackoffBounded, Availability!TypeOK
  <2>3. \A n \in Models : ~CoolingAt(states[n], clock) => ~CoolingAt(states'[n], clock')
    BY <2>1, Same DEF CoolingAt, AvailabilityInv, Availability!BackoffBounded, Availability!TypeOK, ModelState
  <2>4. Summed'
    BY <2>1, <2>3, Same DEF AvailabilityInv, Summed, Availability!KnownNames
  <2> QED BY <2>2, <2>4 DEF AvailabilityInv
<1>5. CASE UNCHANGED Availability!vars
  BY <1>5, Same DEF Availability!vars, AvailabilityInv, Availability!BackoffBounded, Availability!TypeOK, Summed, Availability!KnownNames, CoolingAt
<1> QED BY <1>1, <1>2, <1>3, <1>4, <1>5, Same DEF Availability!Next

-----------------------------------------------------------------------------
(* Entries and shards.                                                     *)

States == [Names -> ModelState]
Meta   == [known : BOOLEAN, priority : Int, states : States, supported : SUBSET Bases]
Metas  == {m \in [Auths -> Meta] : \A a \in Auths : m[a].known => m[a].priority \in Priorities}
Entry  == [state : {"absent", "ready", "cooldown", "blocked"}, nextAt : Nat]
View   == {v \in [flat : Seq(Auths), cursor : Nat] : v.cursor \in 0..Len(v.flat)}
Shard  == [built : BOOLEAN, entries : [Auths -> Entry], ready : [Priorities -> View],
           blocked : SUBSET Auths]

\* A base has no other name; a known state is its own, and the states of a base decide alone.
LEMMA BaseStates ==
  ASSUME NEW st \in States, NEW b \in Bases
  PROVE  b \in Names /\ StateFor(st, b) = st[b] /\ st[b] \in ModelState
<1>1. b \in Names /\ Base[b] = b
  BY NamesAssumption DEF NamesAssumption, Bases
<1> QED BY <1>1 DEF StateFor, States

\* What an entry says of the states it was made from, at any later instant.
Matches(e, meta, b, t) ==
  /\ e \in Entry
  /\ Supports(meta, b) <=> e # NoEntry
  /\ e.state = "absent" => e = NoEntry
  /\ e.state = "ready" => ~CoolingAt(meta.states[b], t)
  /\ e.state \in {"cooldown", "blocked"} =>
       /\ meta.states[b].unavailable
       /\ e.nextAt # Zero
       /\ e.nextAt = meta.states[b].recoverAt \/ e.nextAt = meta.states[b].retryAt

\* An entry is ready exactly when its credential is not cooling down.
LEMMA EvaluateTyped ==
  ASSUME NEW meta \in Meta, NEW b \in Bases, NEW t \in Nat
  PROVE  /\ Evaluate(meta, b, t) \in Entry
         /\ CoolingAt(meta.states[b], t) =>
              /\ Evaluate(meta, b, t).state \in {"cooldown", "blocked"}
              /\ Evaluate(meta, b, t).nextAt # Zero
              /\ \/ Evaluate(meta, b, t).nextAt = meta.states[b].recoverAt
                 \/ Evaluate(meta, b, t).nextAt = meta.states[b].retryAt
         /\ ~CoolingAt(meta.states[b], t) => Evaluate(meta, b, t).state = "ready"
<1> DEFINE s == meta.states[b]
           e == Evaluate(meta, b, t)
<1>1. meta.states \in States
  BY DEF Meta
<1>2. s \in ModelState /\ StateFor(meta.states, b) = s
  BY <1>1, BaseStates
<1>3. s.retryAt \in Nat /\ s.recoverAt \in Nat
  BY <1>2 DEF ModelState
<1>4. CASE ~CoolingAt(s, t)
  <2>1. e = [state |-> "ready", nextAt |-> Zero]
    BY <1>2, <1>4 DEF Evaluate, BlockedFor
  <2> QED BY <1>4, <2>1 DEF Entry, Zero
<1>5. CASE CoolingAt(s, t)
  <2> DEFINE n == IF s.recoverAt > t THEN s.recoverAt ELSE s.retryAt
             k == IF s.exceeded THEN "cooldown" ELSE "blocked"
  <2>1. e = [state |-> k, nextAt |-> n]
    BY <1>2, <1>5 DEF Evaluate, BlockedFor, NextFor, IsCooldown
  <2>2. n \in Nat /\ n # Zero /\ (n = s.recoverAt \/ n = s.retryAt)
    BY <1>3, <1>5 DEF CoolingAt, Zero
  <2>3. k \in {"cooldown", "blocked"}
    OBVIOUS
  <2> HIDE DEF n, k
  <2> QED BY <1>5, <2>1, <2>2, <2>3 DEF Entry
<1> QED BY <1>4, <1>5

\* A fresh entry matches.
LEMMA Evaluated ==
  ASSUME NEW meta \in Meta, NEW b \in Bases, NEW t \in Nat, Supports(meta, b)
  PROVE  Matches(Evaluate(meta, b, t), meta, b, t)
<1> DEFINE e == Evaluate(meta, b, t)
<1>1. e.state # "absent" /\ e # NoEntry
  BY EvaluateTyped DEF NoEntry
<1>2. meta.states[b] \in ModelState
  BY BaseStates DEF Meta
<1>3. CoolingAt(meta.states[b], t) => meta.states[b].unavailable
  BY DEF CoolingAt
<1>4. CASE CoolingAt(meta.states[b], t)
  <2>1. e.state # "ready"
    BY <1>4, EvaluateTyped
  <2> QED BY <1>1, <1>3, <1>4, <2>1, EvaluateTyped DEF Matches
<1>5. CASE ~CoolingAt(meta.states[b], t)
  <2>1. e.state = "ready"
    BY <1>5, EvaluateTyped
  <2> QED BY <1>1, <1>5, <2>1, EvaluateTyped DEF Matches
<1> QED BY <1>4, <1>5

\* No entry matches a credential that does not support the model.
LEMMA AbsentMatches ==
  ASSUME NEW meta, NEW b, NEW t, ~Supports(meta, b)
  PROVE  Matches(NoEntry, meta, b, t)
BY DEF Matches, NoEntry, Entry, Zero

\* Time alone makes no entry wrong.
LEMMA MatchesLater ==
  ASSUME NEW e, NEW meta \in Meta, NEW b \in Bases, NEW t \in Nat, NEW u \in Nat, t <= u,
         Matches(e, meta, b, t)
  PROVE  Matches(e, meta, b, u)
<1>1. meta.states[b] \in ModelState
  BY BaseStates DEF Meta
<1>2. ~CoolingAt(meta.states[b], t) => ~CoolingAt(meta.states[b], u)
  BY <1>1 DEF CoolingAt, ModelState
<1> QED BY <1>2 DEF Matches

ReadyAt(entries, metas, pr) == {a \in Auths : entries[a].state = "ready" /\ metas[a].priority = pr}
Waiting(entries) == {a \in Auths : entries[a].state \in {"cooldown", "blocked"}}

\* A shard at instant t, given its provider's metas.
ShardOK(shard, metas, b, t) ==
  /\ shard \in Shard
  /\ ~shard.built => shard = NoShard
  /\ shard.built =>
       /\ \A a \in Auths : Matches(shard.entries[a], metas[a], b, t)
       /\ shard.blocked = Waiting(shard.entries)
       /\ \A pr \in Priorities : shard.ready[pr].flat = InOrder(ReadyAt(shard.entries, metas, pr))

\* Credentials are finitely many numbers.
LEMMA AuthsFinite ==
  ASSUME NEW S, S \subseteq Auths PROVE IsFiniteSet(S) /\ S \subseteq Nat
BY SchedulerAssumption, FS_Subset DEF SchedulerAssumption

\* A bucket lists its credentials.
LEMMA FlatOf ==
  ASSUME NEW S, S \subseteq Auths
  PROVE  /\ InOrder(S) \in Seq(Auths)
         /\ \A a \in S : \E i \in DOMAIN InOrder(S) : InOrder(S)[i] = a
         /\ \A i \in DOMAIN InOrder(S) : InOrder(S)[i] \in S
<1>1. IsFiniteSet(S) /\ S \subseteq Nat
  BY AuthsFinite
<1>2. InOrder(S) \in Seq(S)
  BY <1>1, InOrderOf
<1>3. InOrder(S) \in Seq(Auths)
  BY <1>2
<1> QED BY <1>1, <1>3, InOrderOf

\* What RebuildIndexes makes of matching entries.
LEMMA Rebuilt ==
  ASSUME NEW entries \in [Auths -> Entry], NEW metas \in Metas, NEW b, NEW t,
         \A a \in Auths : Matches(entries[a], metas[a], b, t)
  PROVE  LET r == RebuildIndexes(entries, metas)
         IN  ShardOK(r, metas, b, t) /\ r.built /\ r.entries = entries
<1> DEFINE r == RebuildIndexes(entries, metas)
           v(pr) == [flat |-> InOrder(ReadyAt(entries, metas, pr)), cursor |-> 0]
<1>1. r = [built |-> TRUE, entries |-> entries, ready |-> [pr \in Priorities |-> v(pr)],
           blocked |-> Waiting(entries)]
  BY DEF RebuildIndexes, ReadyAt, Waiting
<1>2. ASSUME NEW pr \in Priorities PROVE v(pr) \in View
  <2> DEFINE f == InOrder(ReadyAt(entries, metas, pr))
  <2>1. f \in Seq(Auths)
    BY FlatOf DEF ReadyAt
  <2> HIDE DEF f
  <2>2. [flat |-> f, cursor |-> 0] \in View
    <3>1. 0 \in 0..Len(f)
      BY <2>1
    <3> QED BY <2>1, <3>1 DEF View
  <2> QED BY <2>2 DEF f
<1>3. [pr \in Priorities |-> v(pr)] \in [Priorities -> View]
  <2> HIDE DEF v
  <2> QED BY <1>2
<1>4. Waiting(entries) \subseteq Auths
  BY DEF Waiting
<1>5. r \in Shard
  BY <1>1, <1>3, <1>4 DEF Shard
<1>6. r.built /\ r.entries = entries /\ r.blocked = Waiting(entries)
  BY <1>1
<1>7. \A pr \in Priorities : r.ready[pr].flat = InOrder(ReadyAt(entries, metas, pr))
  BY <1>1
<1> HIDE DEF r
<1>8. ShardOK(r, metas, b, t)
  BY <1>5, <1>6, <1>7 DEF ShardOK
<1> QED BY <1>6, <1>8 DEF r

\* Replacing the meta of one credential.
LEMMA MetasWith ==
  ASSUME NEW metas \in Metas, NEW a \in Auths, NEW m \in Meta, m.known => m.priority \in Priorities
  PROVE  LET new == [metas EXCEPT ![a] = m]
         IN  new \in Metas /\ new[a] = m /\ \A c \in Auths : c # a => new[c] = metas[c]
BY DEF Metas

\* A shard outlives a change of one meta that its entries and their order do not show.
LEMMA ShardKept ==
  ASSUME NEW shard, NEW metas \in Metas, NEW new \in Metas, NEW a \in Auths, NEW b, NEW t,
         ShardOK(shard, metas, b, t), shard.built,
         \A c \in Auths : c # a => new[c] = metas[c],
         Matches(shard.entries[a], new[a], b, t),
         shard.entries[a].state = "ready" => new[a].priority = metas[a].priority
  PROVE  ShardOK(shard, new, b, t)
<1>1. \A c \in Auths : Matches(shard.entries[c], new[c], b, t)
  BY DEF ShardOK
<1>2. \A pr \in Priorities : ReadyAt(shard.entries, new, pr) = ReadyAt(shard.entries, metas, pr)
  BY DEF ReadyAt
<1> QED BY <1>1, <1>2 DEF ShardOK

\* removeEntryLocked, for a credential that supports the model no more.
LEMMA RemoveEntryKeeps ==
  ASSUME NEW shard, NEW metas \in Metas, NEW a \in Auths, NEW m \in Meta, NEW b, NEW t,
         ShardOK(shard, metas, b, t), m.known => m.priority \in Priorities, ~Supports(m, b)
  PROVE  LET new == [metas EXCEPT ![a] = m] IN ShardOK(RemoveEntry(shard, a, new), new, b, t)
<1> DEFINE new == [metas EXCEPT ![a] = m]
<1>1. new \in Metas /\ new[a] = m /\ \A c \in Auths : c # a => new[c] = metas[c]
  BY MetasWith
<1> HIDE DEF new
<1>2. shard.entries \in [Auths -> Entry]
  BY DEF ShardOK, Shard
<1>3. Matches(NoEntry, new[a], b, t)
  BY <1>1, AbsentMatches
<1>4. CASE ~shard.built
  <2>1. shard = NoShard
    BY <1>4 DEF ShardOK
  <2>2. RemoveEntry(shard, a, new) = shard
    BY <2>1 DEF NoShard, RemoveEntry
  <2> QED BY <1>4, <2>2 DEF ShardOK, new
<1>5. CASE shard.built /\ shard.entries[a] = NoEntry
  <2>1. RemoveEntry(shard, a, new) = shard
    BY <1>5 DEF RemoveEntry
  <2>2. shard.entries[a].state # "ready"
    BY <1>5 DEF NoEntry
  <2>3. ShardOK(shard, new, b, t)
    BY <1>1, <1>3, <1>5, <2>2, ShardKept
  <2> QED BY <2>1, <2>3 DEF new
<1>6. CASE shard.built /\ shard.entries[a] # NoEntry
  <2> DEFINE entries == [shard.entries EXCEPT ![a] = NoEntry]
  <2>1. RemoveEntry(shard, a, new) = RebuildIndexes(entries, new)
    BY <1>6 DEF RemoveEntry
  <2>2. entries \in [Auths -> Entry]
    BY <1>2, <1>3 DEF Matches
  <2>3. \A c \in Auths : Matches(entries[c], new[c], b, t)
    BY <1>1, <1>2, <1>3, <1>6 DEF ShardOK
  <2> HIDE DEF entries
  <2>4. ShardOK(RebuildIndexes(entries, new), new, b, t)
    BY <1>1, <2>2, <2>3, Rebuilt
  <2> QED BY <2>1, <2>4 DEF new
<1> QED BY <1>4, <1>5, <1>6

\* upsertEntryLocked, for a credential that supports the model: a shard that is kept
\* would not have been rebuilt differently.
LEMMA UpsertEntryKeeps ==
  ASSUME NEW shard, NEW metas \in Metas, NEW a \in Auths, NEW m \in Meta, NEW b \in Bases, NEW t \in Nat,
         ShardOK(shard, metas, b, t), shard.built, m.known => m.priority \in Priorities, Supports(m, b)
  PROVE  LET new == [metas EXCEPT ![a] = m] IN ShardOK(UpsertEntry(shard, a, metas[a], new, b, t), new, b, t)
<1> DEFINE new == [metas EXCEPT ![a] = m]
           e == Evaluate(new[a], b, t)
<1>1. new \in Metas /\ new[a] = m /\ \A c \in Auths : c # a => new[c] = metas[c]
  BY MetasWith
<1> HIDE DEF new
<1>2. shard.entries \in [Auths -> Entry]
  BY DEF ShardOK, Shard
<1>3. Matches(e, new[a], b, t)
  BY <1>1, Evaluated
<1> HIDE DEF e
<1>4. CASE shard.entries[a] = e /\ metas[a].priority = new[a].priority
  <2>1. UpsertEntry(shard, a, metas[a], new, b, t) = shard
    BY <1>4 DEF UpsertEntry, e
  <2>2. ShardOK(shard, new, b, t)
    BY <1>1, <1>3, <1>4, ShardKept
  <2> QED BY <2>1, <2>2 DEF new
<1>5. CASE ~(shard.entries[a] = e /\ metas[a].priority = new[a].priority)
  <2> DEFINE entries == [shard.entries EXCEPT ![a] = e]
  <2>1. UpsertEntry(shard, a, metas[a], new, b, t) = RebuildIndexes(entries, new)
    BY <1>5 DEF UpsertEntry, e
  <2>2. entries \in [Auths -> Entry]
    BY <1>2, <1>3 DEF Matches
  <2>3. \A c \in Auths : Matches(entries[c], new[c], b, t)
    BY <1>1, <1>2, <1>3 DEF ShardOK
  <2> HIDE DEF entries
  <2>4. ShardOK(RebuildIndexes(entries, new), new, b, t)
    BY <1>1, <2>2, <2>3, Rebuilt
  <2> QED BY <2>1, <2>4 DEF new
<1> QED BY <1>4, <1>5

\* A credential that could serve the model at t by its states.
Free(meta, b, t) == Supports(meta, b) /\ ~CoolingAt(meta.states[b], t)

\* promoteExpiredLocked and ensureModelLocked: a credential whose pauses are over is
\* ready, and in a new shard every one that is not cooling down.
LEMMA EnsureModelKeeps ==
  ASSUME NEW shard, NEW metas \in Metas, NEW b \in Bases, NEW t \in Nat, ShardOK(shard, metas, b, t)
  PROVE  LET r == EnsureModel(shard, metas, b, t)
         IN  /\ ShardOK(r, metas, b, t) /\ r.built
             /\ \A a \in Auths :
                  Free(metas[a], b, t) /\ (shard.built => metas[a].states[b].recoverAt <= t)
                    => r.entries[a].state = "ready"
<1> DEFINE r == EnsureModel(shard, metas, b, t)
<1>1. \A a \in Auths : metas[a] \in Meta /\ metas[a].states[b] \in ModelState
  BY BaseStates DEF Metas, Meta
<1>2. shard.entries \in [Auths -> Entry]
  BY DEF ShardOK, Shard
<1>3. CASE ~shard.built
  <2> DEFINE entries == [a \in Auths |-> IF Supports(metas[a], b) THEN Evaluate(metas[a], b, t) ELSE NoEntry]
  <2>1. \A a \in Auths : Matches(entries[a], metas[a], b, t)
    BY <1>1, Evaluated, AbsentMatches
  <2>2. \A a \in Auths : Free(metas[a], b, t) => entries[a].state = "ready"
    BY <1>1, EvaluateTyped DEF Free
  <2>3. r = RebuildIndexes(entries, metas)
    BY <1>3 DEF EnsureModel
  <2> HIDE DEF r
  <2>4. entries \in [Auths -> Entry]
    BY <2>1 DEF Matches
  <2> HIDE DEF entries
  <2>5. ShardOK(r, metas, b, t) /\ r.built /\ r.entries = entries
    BY <2>1, <2>3, <2>4, Rebuilt
  <2> QED BY <2>2, <2>5 DEF r
<1>4. CASE shard.built
  <2> DEFINE due == {a \in shard.blocked : /\ shard.entries[a].nextAt # Zero
                                           /\ shard.entries[a].nextAt <= t}
             entries == [a \in Auths |-> IF a \in due THEN Evaluate(metas[a], b, t) ELSE shard.entries[a]]
  <2>1. \A a \in Auths : Matches(shard.entries[a], metas[a], b, t)
    BY <1>4 DEF ShardOK
  <2>2. shard.blocked = Waiting(shard.entries)
    BY <1>4 DEF ShardOK
  <2>3. r = IF due = {} THEN shard ELSE RebuildIndexes(entries, metas)
    BY <1>4 DEF EnsureModel, Promote
  <2>4. ASSUME NEW a \in Auths, Free(metas[a], b, t), metas[a].states[b].recoverAt <= t
        PROVE  /\ a \in due \/ shard.entries[a].state = "ready"
               /\ entries[a].state = "ready"
    <3>1. /\ shard.entries[a] # NoEntry /\ shard.entries[a].state # "absent"
      BY <2>1, <2>4 DEF Matches, Free
    <3>2. CASE shard.entries[a].state = "ready"
      <4>1. a \notin due
        BY <2>2, <3>2 DEF Waiting
      <4> QED BY <3>2, <4>1
    <3>3. CASE shard.entries[a].state \in {"cooldown", "blocked"}
      <4>1. a \in shard.blocked
        BY <2>2, <3>3 DEF Waiting
      <4>2. metas[a].states[b].retryAt <= t
        BY <1>1, <2>1, <2>4, <3>3 DEF Matches, Free, CoolingAt, ModelState
      <4>3. shard.entries[a].nextAt # Zero /\ shard.entries[a].nextAt <= t
        BY <2>1, <2>4, <3>3, <4>2 DEF Matches
      <4>4. a \in due
        BY <4>1, <4>3
      <4>5. Evaluate(metas[a], b, t).state = "ready"
        BY <1>1, <2>4, EvaluateTyped DEF Free
      <4> QED BY <4>4, <4>5
    <3>4. shard.entries[a].state \in {"absent", "ready", "cooldown", "blocked"}
      BY <1>2 DEF Entry
    <3> QED BY <3>1, <3>2, <3>3, <3>4
  <2>5. \A a \in Auths : Matches(entries[a], metas[a], b, t)
    <3> TAKE a \in Auths
    <3>1. CASE a \in due
      <4>1. shard.entries[a].state # "absent"
        BY <2>2, <3>1 DEF Waiting
      <4>2. Supports(metas[a], b)
        BY <2>1, <4>1 DEF Matches, NoEntry
      <4>3. Matches(Evaluate(metas[a], b, t), metas[a], b, t)
        BY <1>1, <4>2, Evaluated
      <4> QED BY <3>1, <4>3
    <3>2. CASE a \notin due
      BY <2>1, <3>2
    <3> QED BY <3>1, <3>2
  <2> HIDE DEF r
  <2>6. CASE due = {}
    <3>1. r = shard
      BY <2>3, <2>6
    <3>2. ASSUME NEW a \in Auths, Free(metas[a], b, t), metas[a].states[b].recoverAt <= t
          PROVE  r.entries[a].state = "ready"
      <4> HIDE DEF entries, due
      <4> QED BY <2>4, <2>6, <3>1, <3>2
    <3> QED BY <1>4, <3>1, <3>2 DEF r
  <2>7. CASE due # {}
    <3>1. r = RebuildIndexes(entries, metas)
      BY <2>3, <2>7
    <3>2. entries \in [Auths -> Entry]
      BY <2>5 DEF Matches
    <3> HIDE DEF entries, due
    <3>3. ShardOK(r, metas, b, t) /\ r.built /\ r.entries = entries
      BY <2>5, <3>1, <3>2, Rebuilt
    <3>4. ASSUME NEW a \in Auths, Free(metas[a], b, t), metas[a].states[b].recoverAt <= t
          PROVE  r.entries[a].state = "ready"
      BY <2>4, <3>3, <3>4
    <3> QED BY <1>4, <3>3, <3>4 DEF r
  <2> QED BY <2>6, <2>7
<1> QED BY <1>3, <1>4

\* Time alone makes no shard wrong.
LEMMA ShardLater ==
  ASSUME NEW shard, NEW metas \in Metas, NEW b \in Bases, NEW t \in Nat, NEW u \in Nat, t <= u,
         ShardOK(shard, metas, b, t)
  PROVE  ShardOK(shard, metas, b, u)
<1>1. \A a \in Auths : metas[a] \in Meta
  BY DEF Metas
<1>2. shard.built => \A a \in Auths : Matches(shard.entries[a], metas[a], b, u)
  BY <1>1, MatchesLater DEF ShardOK
<1> QED BY <1>2 DEF ShardOK

\* A shard that was not asked for is empty.
LEMMA NoShardOK ==
  ASSUME NEW metas, NEW b, NEW t PROVE ShardOK(NoShard, metas, b, t)
<1>1. NoEntry \in Entry
  BY DEF NoEntry, Entry, Zero
<1>2. NoView \in View
  <2>1. <<>> \in Seq(Auths) /\ 0 \in 0..Len(<<>>)
    OBVIOUS
  <2> QED BY <2>1 DEF NoView, View
<1>3. NoShard \in Shard /\ ~NoShard.built
  BY <1>1, <1>2 DEF NoShard, Shard
<1> QED BY <1>3 DEF ShardOK

-----------------------------------------------------------------------------
(* The whole scheduler.                                                    *)

\* Where a credential may be: with a provider, or nowhere.
Homes == Providers \union {""}

Sched == [metas : [Providers -> Metas], home : [Auths -> Homes],
          shards : [Providers -> [Bases -> Shard]], mixed : [Orders -> [Bases -> Nat]]]

\* The scheduler's shards and cursors at instant t.
SchedOK(s, t) ==
  /\ s \in Sched
  /\ \A p \in Providers, b \in Bases : ShardOK(s.shards[p][b], s.metas[p], b, t)
  /\ \A o \in Orders, b \in Bases : s.mixed[o][b] \in 0..Len(o)

AtHome(s) == \A p \in Providers, a \in Auths : s.metas[p][a].known <=> s.home[a] = p

\* The fields of the scheduler, and what replacing one of them leaves alone.
LEMMA SchedTyped ==
  ASSUME NEW s \in Sched
  PROVE  /\ s.metas \in [Providers -> Metas] /\ s.home \in [Auths -> Homes]
         /\ s.shards \in [Providers -> [Bases -> Shard]] /\ s.mixed \in [Orders -> [Bases -> Nat]]
<1> DEFINE M == [Providers -> Metas]
           H == [Auths -> Homes]
           G == [Providers -> [Bases -> Shard]]
           X == [Orders -> [Bases -> Nat]]
<1>1. Sched = [metas : M, home : H, shards : G, mixed : X]
  BY DEF Sched
<1> HIDE DEF M, H, G, X
<1>2. s.metas \in M /\ s.home \in H /\ s.shards \in G /\ s.mixed \in X
  BY <1>1
<1> QED BY <1>2 DEF M, H, G, X

\* The shards are replaced (Ensure, SetShard).
LEMMA WithShards ==
  ASSUME NEW s \in Sched, NEW sh \in [Providers -> [Bases -> Shard]]
  PROVE  LET r == [s EXCEPT !.shards = sh]
         IN  r \in Sched /\ r.metas = s.metas /\ r.shards = sh /\ r.home = s.home /\ r.mixed = s.mixed
<1> DEFINE M == [Providers -> Metas]
           H == [Auths -> Homes]
           G == [Providers -> [Bases -> Shard]]
           X == [Orders -> [Bases -> Nat]]
<1>1. Sched = [metas : M, home : H, shards : G, mixed : X]
  BY DEF Sched
<1>2. sh \in G
  OBVIOUS
<1> HIDE DEF M, H, G, X
<1> QED BY <1>1, <1>2

\* The homes are replaced (SetHome).
LEMMA WithHome ==
  ASSUME NEW s \in Sched, NEW h \in [Auths -> Homes]
  PROVE  LET r == [s EXCEPT !.home = h]
         IN  r \in Sched /\ r.metas = s.metas /\ r.shards = s.shards /\ r.home = h /\ r.mixed = s.mixed
<1> DEFINE M == [Providers -> Metas]
           H == [Auths -> Homes]
           G == [Providers -> [Bases -> Shard]]
           X == [Orders -> [Bases -> Nat]]
<1>1. Sched = [metas : M, home : H, shards : G, mixed : X]
  BY DEF Sched
<1>2. h \in H
  OBVIOUS
<1> HIDE DEF M, H, G, X
<1> QED BY <1>1, <1>2

\* The cursors are replaced (SetMixed).
LEMMA WithMixed ==
  ASSUME NEW s \in Sched, NEW m \in [Orders -> [Bases -> Nat]]
  PROVE  LET r == [s EXCEPT !.mixed = m]
         IN  r \in Sched /\ r.metas = s.metas /\ r.shards = s.shards /\ r.home = s.home /\ r.mixed = m
<1> DEFINE M == [Providers -> Metas]
           H == [Auths -> Homes]
           G == [Providers -> [Bases -> Shard]]
           X == [Orders -> [Bases -> Nat]]
<1>1. Sched = [metas : M, home : H, shards : G, mixed : X]
  BY DEF Sched
<1>2. m \in X
  OBVIOUS
<1> HIDE DEF M, H, G, X
<1> QED BY <1>1, <1>2

\* The parts of one provider are replaced, and nothing else.
LEMMA SetProviderKeeps ==
  ASSUME NEW s, NEW t, SchedOK(s, t), NEW p \in Providers, NEW metas \in Metas,
         NEW shards \in [Bases -> Shard], \A b \in Bases : ShardOK(shards[b], metas, b, t)
  PROVE  LET r == SetProvider(s, p, metas, shards)
         IN  /\ SchedOK(r, t) /\ r.home = s.home /\ r.mixed = s.mixed
             /\ r.metas[p] = metas
             /\ \A q \in Providers : q # p => r.metas[q] = s.metas[q]
<1> DEFINE ms == [s.metas EXCEPT ![p] = metas]
           sh == [s.shards EXCEPT ![p] = shards]
           r == SetProvider(s, p, metas, shards)
<1>1. s \in Sched
  BY DEF SchedOK
<1>2. s.metas \in [Providers -> Metas] /\ s.shards \in [Providers -> [Bases -> Shard]]
  BY <1>1, SchedTyped
<1>3. /\ ms \in [Providers -> Metas] /\ ms[p] = metas
      /\ \A q \in Providers : q # p => ms[q] = s.metas[q]
  BY <1>2
<1>4. /\ sh \in [Providers -> [Bases -> Shard]] /\ sh[p] = shards
      /\ \A q \in Providers : q # p => sh[q] = s.shards[q]
  BY <1>2
<1>5. r = [s EXCEPT !.metas = ms, !.shards = sh]
  BY DEF SetProvider
<1> HIDE DEF r, ms, sh
<1>6. r \in Sched /\ r.metas = ms /\ r.shards = sh /\ r.home = s.home /\ r.mixed = s.mixed
  <2> DEFINE M == [Providers -> Metas]
             H == [Auths -> Homes]
             G == [Providers -> [Bases -> Shard]]
             X == [Orders -> [Bases -> Nat]]
  <2>1. Sched = [metas : M, home : H, shards : G, mixed : X]
    BY DEF Sched
  <2>2. ms \in M /\ sh \in G
    BY <1>3, <1>4
  <2> HIDE DEF M, H, G, X
  <2> QED BY <1>1, <1>5, <2>1, <2>2
<1>7. ASSUME NEW q \in Providers, NEW b \in Bases PROVE ShardOK(r.shards[q][b], r.metas[q], b, t)
  BY <1>3, <1>4, <1>6 DEF SchedOK
<1>8. SchedOK(r, t)
  BY <1>6, <1>7 DEF SchedOK
<1> QED BY <1>3, <1>6, <1>8 DEF r

\* One credential gets another home, and nothing else changes.
LEMMA SetHomeKeeps ==
  ASSUME NEW s, NEW t, SchedOK(s, t), NEW a \in Auths, NEW p \in Homes
  PROVE  LET r == SetHome(s, a, p)
         IN  /\ SchedOK(r, t) /\ r.metas = s.metas
             /\ r.home[a] = p /\ \A c \in Auths : c # a => r.home[c] = s.home[c]
<1> DEFINE h == [s.home EXCEPT ![a] = p]
           r == SetHome(s, a, p)
<1>1. s \in Sched
  BY DEF SchedOK
<1>2. h \in [Auths -> Homes] /\ h[a] = p /\ \A c \in Auths : c # a => h[c] = s.home[c]
  BY <1>1, SchedTyped
<1>3. r = [s EXCEPT !.home = h]
  BY DEF SetHome
<1> HIDE DEF r, h
<1>4. r \in Sched /\ r.metas = s.metas /\ r.shards = s.shards /\ r.home = h /\ r.mixed = s.mixed
  BY <1>1, <1>2, <1>3, WithHome
<1>5. SchedOK(r, t)
  BY <1>4 DEF SchedOK
<1> QED BY <1>2, <1>4, <1>5 DEF r

\* The shard of one provider and model.
LEMMA ShardOfSched ==
  ASSUME NEW s, NEW t, SchedOK(s, t), NEW p \in Providers, NEW b \in Bases
  PROVE  /\ s.metas[p] \in Metas /\ s.shards[p][b] \in Shard
         /\ ShardOK(s.shards[p][b], s.metas[p], b, t)
<1>1. s.metas \in [Providers -> Metas]
  BY SchedTyped DEF SchedOK
<1> QED BY <1>1 DEF SchedOK, ShardOK

\* A credential that is not scheduled supports nothing.
LEMMA NoMetaTyped == NoMeta \in Meta /\ ~NoMeta.known /\ \A b : ~Supports(NoMeta, b)
<1>1. Unknown \in ModelState
  BY DEF Unknown, ModelState, Zero
<1>2. NoStates \in States
  BY <1>1 DEF NoStates, States
<1> QED BY <1>2 DEF NoMeta, Meta, Supports

\* One meta of one provider is replaced, and the shards that need it are patched: the
\* common part of providerScheduler.removeAuthLocked and upsertAuthLocked.
LEMMA PatchKeeps ==
  ASSUME NEW s, NEW t, SchedOK(s, t), NEW p \in Providers, NEW a \in Auths,
         NEW m \in Meta, m.known => m.priority \in Priorities,
         NEW shards, shards = [b \in Bases |-> shards[b]],
         \A b \in Bases : ShardOK(shards[b], [s.metas[p] EXCEPT ![a] = m], b, t)
  PROVE  LET r == SetProvider(s, p, [s.metas[p] EXCEPT ![a] = m], shards)
         IN  /\ SchedOK(r, t) /\ r.home = s.home /\ r.metas[p][a] = m
             /\ \A q \in Providers, c \in Auths : q # p \/ c # a => r.metas[q][c] = s.metas[q][c]
<1> DEFINE new == [s.metas[p] EXCEPT ![a] = m]
<1>1. s.metas[p] \in Metas
  BY SchedTyped DEF SchedOK
<1>2. new \in Metas /\ new[a] = m /\ \A c \in Auths : c # a => new[c] = s.metas[p][c]
  BY <1>1, MetasWith
<1>3. shards \in [Bases -> Shard]
  BY DEF ShardOK
<1> HIDE DEF new
<1>4. \A b \in Bases : ShardOK(shards[b], new, b, t)
  BY DEF new
<1> DEFINE r == SetProvider(s, p, new, shards)
<1>5. /\ SchedOK(r, t) /\ r.home = s.home /\ r.mixed = s.mixed /\ r.metas[p] = new
      /\ \A q \in Providers : q # p => r.metas[q] = s.metas[q]
  BY <1>2, <1>3, <1>4, SetProviderKeeps
<1> HIDE DEF r
<1>6. \A q \in Providers, c \in Auths : q # p \/ c # a => r.metas[q][c] = s.metas[q][c]
  BY <1>2, <1>5
<1> QED BY <1>2, <1>5, <1>6 DEF r, new

\* providerScheduler.removeAuthLocked
LEMMA RemoveFromKeeps ==
  ASSUME NEW s, NEW t, SchedOK(s, t), NEW p \in Providers, NEW a \in Auths
  PROVE  LET r == RemoveFrom(s, p, a)
         IN  /\ SchedOK(r, t) /\ r.home = s.home /\ r.metas[p][a] = NoMeta
             /\ \A q \in Providers, c \in Auths : q # p \/ c # a => r.metas[q][c] = s.metas[q][c]
<1> DEFINE new == [s.metas[p] EXCEPT ![a] = NoMeta]
           shards == [b \in Bases |-> RemoveEntry(s.shards[p][b], a, new)]
<1>1. \A b \in Bases : ShardOK(shards[b], new, b, t)
  <2> TAKE b \in Bases
  <2>1. s.metas[p] \in Metas /\ ShardOK(s.shards[p][b], s.metas[p], b, t)
    BY ShardOfSched
  <2>2. ShardOK(RemoveEntry(s.shards[p][b], a, new), new, b, t)
    BY <2>1, NoMetaTyped, RemoveEntryKeeps
  <2> QED BY <2>2
<1>2. shards = [b \in Bases |-> shards[b]]
  OBVIOUS
<1>3. RemoveFrom(s, p, a) = SetProvider(s, p, new, shards)
  BY DEF RemoveFrom
<1> HIDE DEF shards
<1> QED BY <1>1, <1>2, <1>3, NoMetaTyped, PatchKeeps

\* providerScheduler.upsertAuthLocked
LEMMA UpsertIntoKeeps ==
  ASSUME NEW s, NEW t \in Nat, SchedOK(s, t), NEW p \in Providers, NEW a \in Auths,
         NEW m \in Meta, m.known => m.priority \in Priorities
  PROVE  LET r == UpsertInto(s, p, a, m, t)
         IN  /\ SchedOK(r, t) /\ r.home = s.home /\ r.metas[p][a] = m
             /\ \A q \in Providers, c \in Auths : q # p \/ c # a => r.metas[q][c] = s.metas[q][c]
<1> DEFINE old == s.metas[p][a]
           new == [s.metas[p] EXCEPT ![a] = m]
           patched(shard, b) ==
             IF ~shard.built THEN shard
             ELSE IF Supports(m, b) THEN UpsertEntry(shard, a, old, new, b, t)
             ELSE RemoveEntry(shard, a, new)
           shards == [b \in Bases |-> patched(s.shards[p][b], b)]
<1>1. \A b \in Bases : ShardOK(shards[b], new, b, t)
  <2> TAKE b \in Bases
  <2> DEFINE shard == s.shards[p][b]
  <2>1. s.metas[p] \in Metas /\ ShardOK(shard, s.metas[p], b, t)
    BY ShardOfSched
  <2>2. CASE ~shard.built
    BY <2>1, <2>2 DEF ShardOK
  <2>3. CASE shard.built /\ Supports(m, b)
    <3>1. ShardOK(UpsertEntry(shard, a, old, new, b, t), new, b, t)
      BY <2>1, <2>3, UpsertEntryKeeps
    <3> QED BY <2>3, <3>1
  <2>4. CASE shard.built /\ ~Supports(m, b)
    <3>1. ShardOK(RemoveEntry(shard, a, new), new, b, t)
      BY <2>1, <2>4, RemoveEntryKeeps
    <3> QED BY <2>4, <3>1
  <2> QED BY <2>2, <2>3, <2>4
<1>2. shards = [b \in Bases |-> shards[b]]
  OBVIOUS
<1>3. UpsertInto(s, p, a, m, t) = SetProvider(s, p, new, shards)
  BY DEF UpsertInto
<1> HIDE DEF shards
<1> QED BY <1>1, <1>2, <1>3, PatchKeeps

\* r is s but for one credential.
OthersKept(s, r, a) ==
  /\ \A c \in Auths : c # a => r.home[c] = s.home[c]
  /\ \A q \in Providers, c \in Auths : c # a => r.metas[q][c] = s.metas[q][c]

\* A credential leaves the provider that is its home.
LEMMA LeaveKeeps ==
  ASSUME NEW s, NEW t, SchedOK(s, t), AtHome(s), NEW a \in Auths, NEW p \in Providers, s.home[a] = p
  PROVE  LET r == SetHome(RemoveFrom(s, p, a), a, "")
         IN  /\ SchedOK(r, t) /\ AtHome(r) /\ r.home[a] = ""
             /\ OthersKept(s, r, a)
<1> DEFINE u == RemoveFrom(s, p, a)
           r == SetHome(u, a, "")
<1>1. /\ SchedOK(u, t) /\ u.home = s.home /\ u.metas[p][a] = NoMeta
      /\ \A q \in Providers, c \in Auths : q # p \/ c # a => u.metas[q][c] = s.metas[q][c]
  BY RemoveFromKeeps
<1> HIDE DEF u
<1>2. "" \in Homes
  BY DEF Homes
<1>3. /\ SchedOK(r, t) /\ r.metas = u.metas
      /\ r.home[a] = "" /\ \A c \in Auths : c # a => r.home[c] = u.home[c]
  BY <1>1, <1>2, SetHomeKeeps
<1> HIDE DEF r
<1>4. "" \notin Providers
  BY SchedulerAssumption DEF SchedulerAssumption
<1>5. ASSUME NEW q \in Providers, NEW c \in Auths PROVE r.metas[q][c].known <=> r.home[c] = q
  <2>1. r.metas[q][c] = u.metas[q][c] /\ (s.metas[q][c].known <=> s.home[c] = q)
    BY <1>3 DEF AtHome
  <2>2. CASE c # a
    <3>1. u.metas[q][c] = s.metas[q][c] /\ r.home[c] = s.home[c]
      BY <1>1, <1>3, <2>2
    <3> QED BY <2>1, <3>1
  <2>3. CASE c = a /\ q = p
    BY <1>1, <1>3, <1>4, <2>3, NoMetaTyped
  <2>4. CASE c = a /\ q # p
    <3>1. u.metas[q][c] = s.metas[q][c] /\ r.home[c] # q /\ s.home[c] # q
      BY <1>1, <1>3, <1>4, <2>4
    <3> QED BY <2>1, <3>1
  <2> QED BY <2>2, <2>3, <2>4
<1>6. AtHome(r)
  BY <1>5 DEF AtHome
<1>7. OthersKept(s, r, a)
  BY <1>1, <1>3 DEF OthersKept
<1> QED BY <1>3, <1>6, <1>7 DEF r, u

\* removeAuthLocked
LEMMA RemoveAuthKeeps ==
  ASSUME NEW s, NEW t, SchedOK(s, t), AtHome(s), NEW a \in Auths
  PROVE  LET r == RemoveAuth(s, a)
         IN  /\ SchedOK(r, t) /\ AtHome(r) /\ r.home[a] = ""
             /\ OthersKept(s, r, a)
<1>1. s.home[a] \in Homes
  BY SchedTyped DEF SchedOK
<1>2. CASE s.home[a] = ""
  BY <1>2 DEF RemoveAuth, OthersKept
<1>3. CASE s.home[a] # ""
  <2>1. PICK p \in Providers : s.home[a] = p
    BY <1>1, <1>3 DEF Homes
  <2> DEFINE u == SetHome(RemoveFrom(s, p, a), a, "")
  <2>2. RemoveAuth(s, a) = u
    BY <1>3, <2>1 DEF RemoveAuth
  <2>3. /\ SchedOK(u, t) /\ AtHome(u) /\ u.home[a] = ""
        /\ OthersKept(s, u, a)
    BY <2>1, LeaveKeeps
  <2> HIDE DEF u
  <2> QED BY <2>2, <2>3
<1> QED BY <1>2, <1>3

-----------------------------------------------------------------------------
(* The calls that change a credential.                                     *)

Auth == [present : BOOLEAN, disabled : BOOLEAN, provider : Homes, priority : Int,
         states : States]

\* A credential that is there was placed.
Placed(auth) == auth \in Auth /\ auth.provider \in Providers /\ auth.priority \in Priorities

\* The meta that buildScheduledAuthMeta makes of a placed credential.
LEMMA MetaBuilt ==
  ASSUME NEW auth, Placed(auth), NEW supported \in SUBSET Bases
  PROVE  /\ BuildMeta(auth, supported) \in Meta /\ BuildMeta(auth, supported).known
         /\ BuildMeta(auth, supported).priority = auth.priority
         /\ BuildMeta(auth, supported).states = auth.states
         /\ BuildMeta(auth, supported).supported = supported
BY DEF BuildMeta, Meta, Placed, Auth

\* What upsertAuthLocked leaves of a credential that may have moved: nothing outside p.
LEMMA LeftKeeps ==
  ASSUME NEW s, NEW t, SchedOK(s, t), AtHome(s), NEW a \in Auths, NEW p \in Providers
  PROVE  LET left == IF s.home[a] \in {"", p} THEN s ELSE RemoveFrom(s, s.home[a], a)
         IN  /\ SchedOK(left, t) /\ OthersKept(s, left, a)
             /\ \A q \in Providers : q # p => ~left.metas[q][a].known
<1>1. s.home[a] \in Homes
  BY SchedTyped DEF SchedOK
<1>2. "" \notin Providers
  BY SchedulerAssumption DEF SchedulerAssumption
<1>3. CASE s.home[a] \in {"", p}
  <2>1. ASSUME NEW q \in Providers, q # p PROVE ~s.metas[q][a].known
    <3>1. s.home[a] # q
      BY <1>2, <1>3, <2>1
    <3> QED BY <3>1 DEF AtHome
  <2> QED BY <1>3, <2>1 DEF OthersKept
<1>4. CASE s.home[a] \notin {"", p}
  <2>1. PICK h \in Providers : s.home[a] = h
    BY <1>1, <1>4 DEF Homes
  <2> DEFINE u == RemoveFrom(s, h, a)
  <2>2. /\ SchedOK(u, t) /\ u.home = s.home /\ u.metas[h][a] = NoMeta
        /\ \A q \in Providers, c \in Auths : q # h \/ c # a => u.metas[q][c] = s.metas[q][c]
    BY RemoveFromKeeps
  <2> HIDE DEF u
  <2>3. OthersKept(s, u, a)
    BY <2>2 DEF OthersKept
  <2>4. ASSUME NEW q \in Providers PROVE ~u.metas[q][a].known
    <3>1. CASE q = h
      BY <2>2, <3>1, NoMetaTyped
    <3>2. CASE q # h
      <4>1. u.metas[q][a] = s.metas[q][a] /\ ~s.metas[q][a].known
        BY <2>1, <2>2, <3>2 DEF AtHome
      <4> QED BY <4>1
    <3> QED BY <3>1, <3>2
  <2> QED BY <1>4, <2>1, <2>2, <2>3, <2>4 DEF u
<1> QED BY <1>3, <1>4

\* A credential enters the provider that is to be its home.
LEMMA EnterKeeps ==
  ASSUME NEW s, NEW t \in Nat, SchedOK(s, t), NEW a \in Auths, NEW p \in Providers,
         \A q \in Providers, c \in Auths : c # a => (s.metas[q][c].known <=> s.home[c] = q),
         \A q \in Providers : q # p => ~s.metas[q][a].known,
         NEW m \in Meta, m.known, m.priority \in Priorities
  PROVE  LET r == SetHome(UpsertInto(s, p, a, m, t), a, p)
         IN  SchedOK(r, t) /\ AtHome(r) /\ OthersKept(s, r, a) /\ r.home[a] = p /\ r.metas[p][a] = m
<1> DEFINE u == UpsertInto(s, p, a, m, t)
           r == SetHome(u, a, p)
<1>1. /\ SchedOK(u, t) /\ u.home = s.home /\ u.metas[p][a] = m
      /\ \A q \in Providers, c \in Auths : q # p \/ c # a => u.metas[q][c] = s.metas[q][c]
  BY UpsertIntoKeeps
<1> HIDE DEF u
<1>2. p \in Homes
  BY DEF Homes
<1>3. /\ SchedOK(r, t) /\ r.metas = u.metas
      /\ r.home[a] = p /\ \A c \in Auths : c # a => r.home[c] = u.home[c]
  BY <1>1, <1>2, SetHomeKeeps
<1> HIDE DEF r
<1>4. ASSUME NEW q \in Providers, NEW c \in Auths PROVE r.metas[q][c].known <=> r.home[c] = q
  <2>1. CASE c # a
    <3>1. r.metas[q][c] = s.metas[q][c] /\ r.home[c] = s.home[c]
      BY <1>1, <1>3, <2>1
    <3> QED BY <2>1, <3>1
  <2>2. CASE c = a /\ q = p
    BY <1>1, <1>3, <2>2
  <2>3. CASE c = a /\ q # p
    <3>1. r.metas[q][c] = s.metas[q][a] /\ r.home[c] # q
      BY <1>1, <1>3, <2>3
    <3> QED BY <2>3, <3>1
  <2> QED BY <2>1, <2>2, <2>3
<1>5. AtHome(r)
  BY <1>4 DEF AtHome
<1>6. OthersKept(s, r, a)
  BY <1>1, <1>3 DEF OthersKept
<1> QED BY <1>1, <1>3, <1>5, <1>6 DEF r, u

\* r is s after a credential was upserted.
Upserted(s, r, a, auth, supported, t) ==
  /\ SchedOK(r, t) /\ AtHome(r) /\ OthersKept(s, r, a)
  /\ r.home[a] = (IF auth.disabled THEN "" ELSE auth.provider)
  /\ ~auth.disabled => r.metas[auth.provider][a] = BuildMeta(auth, supported)

\* upsertAuthLocked: the credential is where the snapshot says, with what it says.
LEMMA UpsertAuthKeeps ==
  ASSUME NEW s, NEW t \in Nat, SchedOK(s, t), AtHome(s), NEW a \in Auths, NEW auth, Placed(auth),
         NEW supported \in SUBSET Bases
  PROVE  Upserted(s, UpsertAuth(s, a, auth, supported, t), a, auth, supported, t)
<1>1. CASE auth.disabled
  <2> DEFINE r == RemoveAuth(s, a)
  <2>1. UpsertAuth(s, a, auth, supported, t) = r
    BY <1>1 DEF UpsertAuth
  <2>2. SchedOK(r, t) /\ AtHome(r) /\ r.home[a] = "" /\ OthersKept(s, r, a)
    BY RemoveAuthKeeps
  <2> HIDE DEF r
  <2> QED BY <1>1, <2>1, <2>2 DEF Upserted
<1>2. CASE ~auth.disabled
  <2> DEFINE p == auth.provider
             m == BuildMeta(auth, supported)
             left == IF s.home[a] \in {"", p} THEN s ELSE RemoveFrom(s, s.home[a], a)
             r == SetHome(UpsertInto(left, p, a, m, t), a, p)
  <2>1. UpsertAuth(s, a, auth, supported, t) = r
    BY <1>2 DEF UpsertAuth
  <2>2. p \in Providers /\ m \in Meta /\ m.known /\ m.priority \in Priorities
    BY MetaBuilt DEF Placed
  <2> HIDE DEF p, m
  <2>3. /\ SchedOK(left, t) /\ OthersKept(s, left, a)
        /\ \A q \in Providers : q # p => ~left.metas[q][a].known
    BY <2>2, LeftKeeps
  <2> HIDE DEF left
  <2>4. \A q \in Providers, c \in Auths : c # a => (left.metas[q][c].known <=> left.home[c] = q)
    BY <2>3 DEF AtHome, OthersKept
  <2>5. SchedOK(r, t) /\ AtHome(r) /\ OthersKept(left, r, a) /\ r.home[a] = p /\ r.metas[p][a] = m
    BY <2>2, <2>3, <2>4, EnterKeeps
  <2> HIDE DEF r
  <2>6. OthersKept(s, r, a)
    BY <2>3, <2>5 DEF OthersKept
  <2> QED BY <1>2, <2>1, <2>5, <2>6 DEF p, m, Upserted
<1> QED BY <1>1, <1>2

\* Every credential is scheduled as the manager has it.
Tracks(s, as) ==
  \A a \in Auths :
    /\ s.home[a] = (IF Scheduled(as, a) THEN as[a].provider ELSE "")
    /\ Scheduled(as, a) => /\ s.metas[as[a].provider][a].states = as[a].states
                           /\ s.metas[as[a].provider][a].priority = as[a].priority

\* The manager's credentials.
Managed(as) ==
  /\ as \in [Auths -> Auth]
  /\ \A a \in Auths : as[a].present => Placed(as[a])

\* syncScheduler
LEMMA SyncKeeps ==
  ASSUME NEW as, Managed(as), NEW supported \in [Auths -> SUBSET Bases], NEW t
  PROVE  LET r == Sync(as, supported)
         IN  /\ SchedOK(r, t) /\ AtHome(r) /\ Tracks(r, as)
             /\ \A a \in Auths : Scheduled(as, a) => r.metas[as[a].provider][a].supported = supported[a]
             /\ \A p \in Providers, b \in Bases : ~r.shards[p][b].built
<1> DEFINE r == Sync(as, supported)
           meta(p, a) == IF Scheduled(as, a) /\ as[a].provider = p
                           THEN BuildMeta(as[a], supported[a]) ELSE NoMeta
           home(a) == IF Scheduled(as, a) THEN as[a].provider ELSE ""
<1>1. /\ r.metas = [p \in Providers |-> [a \in Auths |-> meta(p, a)]]
      /\ r.home = [a \in Auths |-> home(a)]
      /\ r.shards = [p \in Providers |-> [b \in Bases |-> NoShard]]
      /\ r.mixed = [o \in Orders |-> [b \in Bases |-> 0]]
  BY DEF Sync, Empty
<1>2. r = [metas |-> r.metas, home |-> r.home, shards |-> r.shards, mixed |-> r.mixed]
  BY DEF Sync
<1> HIDE DEF r
<1>3. \A a \in Auths : Scheduled(as, a) => Placed(as[a])
  BY DEF Managed, Scheduled
<1>4. ASSUME NEW p \in Providers, NEW a \in Auths
      PROVE  meta(p, a) \in Meta /\ (meta(p, a).known => meta(p, a).priority \in Priorities)
  <2>1. CASE Scheduled(as, a) /\ as[a].provider = p
    <3>1. Placed(as[a]) /\ supported[a] \in SUBSET Bases
      BY <1>3, <2>1
    <3> QED BY <2>1, <3>1, MetaBuilt DEF Placed
  <2>2. CASE ~(Scheduled(as, a) /\ as[a].provider = p)
    BY <2>2, NoMetaTyped
  <2> QED BY <2>1, <2>2
<1>5. \A a \in Auths : home(a) \in Homes
  BY <1>3 DEF Placed, Homes
<1>6. \A p \in Providers, a \in Auths : meta(p, a).known <=> home(a) = p
  <2> TAKE p \in Providers, a \in Auths
  <2>1. "" \notin Providers
    BY SchedulerAssumption DEF SchedulerAssumption
  <2>2. CASE Scheduled(as, a) /\ as[a].provider = p
    <3>1. Placed(as[a]) /\ supported[a] \in SUBSET Bases
      BY <1>3, <2>2
    <3> QED BY <2>2, <3>1, MetaBuilt
  <2>3. CASE ~(Scheduled(as, a) /\ as[a].provider = p)
    BY <2>1, <2>3, NoMetaTyped
  <2> QED BY <2>2, <2>3
<1>7. \A a \in Auths : Scheduled(as, a) =>
        /\ as[a].provider \in Providers
        /\ meta(as[a].provider, a) = BuildMeta(as[a], supported[a])
        /\ meta(as[a].provider, a).states = as[a].states
        /\ meta(as[a].provider, a).priority = as[a].priority
        /\ meta(as[a].provider, a).supported = supported[a]
  BY <1>3 DEF BuildMeta, Placed
<1>8. NoShard \in Shard
  BY NoShardOK DEF ShardOK
<1> HIDE DEF meta, home
<1>9. r \in Sched
  <2>1. \A p \in Providers : [a \in Auths |-> meta(p, a)] \in Metas
    BY <1>4 DEF Metas
  <2>2. r.metas \in [Providers -> Metas]
    BY <1>1, <2>1
  <2>3. r.home \in [Auths -> Homes]
    BY <1>1, <1>5
  <2>4. r.shards \in [Providers -> [Bases -> Shard]]
    BY <1>1, <1>8
  <2>5. r.mixed \in [Orders -> [Bases -> Nat]]
    BY <1>1
  <2> DEFINE M == [Providers -> Metas]
             H == [Auths -> Homes]
             G == [Providers -> [Bases -> Shard]]
             X == [Orders -> [Bases -> Nat]]
  <2>6. Sched = [metas : M, home : H, shards : G, mixed : X]
    BY DEF Sched
  <2>7. r.metas \in M /\ r.home \in H /\ r.shards \in G /\ r.mixed \in X
    BY <2>2, <2>3, <2>4, <2>5
  <2> HIDE DEF M, H, G, X
  <2> QED BY <1>2, <2>6, <2>7
<1>10. \A p \in Providers, b \in Bases : r.shards[p][b] = NoShard
  BY <1>1
<1>11. \A o \in Orders, b \in Bases : r.mixed[o][b] \in 0..Len(o)
  <2> TAKE o \in Orders, b \in Bases
  <2>1. r.mixed[o][b] = 0
    BY <1>1
  <2>2. o \in Seq(Providers)
    BY SchedulerAssumption DEF SchedulerAssumption
  <2>3. Len(o) \in Nat
    BY <2>2
  <2> QED BY <2>1, <2>3
<1>12. SchedOK(r, t)
  BY <1>9, <1>10, <1>11, NoShardOK DEF SchedOK
<1>13. \A p \in Providers, a \in Auths : r.metas[p][a] = meta(p, a) /\ r.home[a] = home(a)
  BY <1>1
<1>14. AtHome(r)
  BY <1>6, <1>13 DEF AtHome
<1>15. \A a \in Auths : r.home[a] = home(a)
  BY <1>1
<1>16. Tracks(r, as)
  BY <1>7, <1>13, <1>15 DEF Tracks, home
<1>17. \A a \in Auths : Scheduled(as, a) => r.metas[as[a].provider][a].supported = supported[a]
  BY <1>7, <1>13
<1>18. \A p \in Providers, b \in Bases : ~r.shards[p][b].built
  BY <1>10 DEF NoShard
<1> QED BY <1>12, <1>14, <1>16, <1>17, <1>18 DEF r

\* Time alone makes nothing of it wrong.
LEMMA SchedLater ==
  ASSUME NEW s, NEW t \in Nat, NEW u \in Nat, t <= u, SchedOK(s, t) PROVE SchedOK(s, u)
<1>1. \A p \in Providers, b \in Bases : ShardOK(s.shards[p][b], s.metas[p], b, u)
  <2> TAKE p \in Providers, b \in Bases
  <2>1. s.metas[p] \in Metas /\ ShardOK(s.shards[p][b], s.metas[p], b, t)
    BY ShardOfSched
  <2> QED BY <2>1, ShardLater
<1> QED BY <1>1 DEF SchedOK

-----------------------------------------------------------------------------
(* A pick: the shards are ensured, one bucket is taken from.               *)

\* r is s but for its shards.
SameButShards(s, r, t) == SchedOK(r, t) /\ r.metas = s.metas /\ r.home = s.home /\ r.mixed = s.mixed

\* ensureModelLocked at the providers of a list.
LEMMA EnsureKeeps ==
  ASSUME NEW s, NEW t \in Nat, SchedOK(s, t), NEW ps, NEW b \in Bases
  PROVE  LET r == Ensure(s, ps, b, t)
         IN  /\ SameButShards(s, r, t)
             /\ \A p \in Providers : p \in ps =>
                  r.shards[p][b] = EnsureModel(s.shards[p][b], s.metas[p], b, t)
<1> DEFINE f(p) == IF p \in ps THEN [s.shards[p] EXCEPT ![b] = EnsureModel(s.shards[p][b], s.metas[p], b, t)]
                   ELSE s.shards[p]
           sh == [p \in Providers |-> f(p)]
           r == Ensure(s, ps, b, t)
<1>1. s \in Sched
  BY DEF SchedOK
<1>2. s.shards \in [Providers -> [Bases -> Shard]]
  BY <1>1, SchedTyped
<1>3. ASSUME NEW p \in Providers
      PROVE  /\ f(p) \in [Bases -> Shard]
             /\ \A c \in Bases : ShardOK(f(p)[c], s.metas[p], c, t)
             /\ p \in ps => f(p)[b] = EnsureModel(s.shards[p][b], s.metas[p], b, t)
  <2> DEFINE e == EnsureModel(s.shards[p][b], s.metas[p], b, t)
  <2>1. ShardOK(e, s.metas[p], b, t)
    <3>1. s.metas[p] \in Metas /\ ShardOK(s.shards[p][b], s.metas[p], b, t)
      BY ShardOfSched
    <3> QED BY <3>1, EnsureModelKeeps
  <2>2. e \in Shard
    BY <2>1 DEF ShardOK
  <2> HIDE DEF e
  <2>3. \A c \in Bases : ShardOK(s.shards[p][c], s.metas[p], c, t)
    BY DEF SchedOK
  <2>4. s.shards[p] \in [Bases -> Shard]
    BY <1>2
  <2>5. f(p) = IF p \in ps THEN [s.shards[p] EXCEPT ![b] = e] ELSE s.shards[p]
    BY DEF e
  <2> HIDE DEF f
  <2>6. CASE p \in ps
    <3>1. f(p) \in [Bases -> Shard] /\ f(p)[b] = e /\ \A c \in Bases : c # b => f(p)[c] = s.shards[p][c]
      BY <2>2, <2>4, <2>5, <2>6
    <3>2. \A c \in Bases : ShardOK(f(p)[c], s.metas[p], c, t)
      BY <2>1, <2>3, <3>1
    <3> QED BY <3>1, <3>2 DEF e
  <2>7. CASE p \notin ps
    BY <2>3, <2>4, <2>5, <2>7
  <2> QED BY <2>6, <2>7
<1>4. r = [s EXCEPT !.shards = sh]
  BY DEF Ensure
<1> HIDE DEF f
<1>5. sh \in [Providers -> [Bases -> Shard]]
  BY <1>3
<1>6. \A p \in Providers : sh[p] = f(p)
  OBVIOUS
<1> HIDE DEF sh, r
<1>7. r \in Sched /\ r.metas = s.metas /\ r.shards = sh /\ r.home = s.home /\ r.mixed = s.mixed
  BY <1>1, <1>4, <1>5, WithShards
<1>8. SchedOK(r, t)
  BY <1>3, <1>6, <1>7 DEF SchedOK
<1> QED BY <1>3, <1>6, <1>7, <1>8 DEF SameButShards, r

\* A bucket of a shard holds the credentials of one priority that are ready, and
\* those are free.
Filled(shard, metas, b, t, pr) ==
  LET view == shard.ready[pr]
  IN  /\ view \in View /\ view.flat \in Seq(Auths) /\ view.cursor \in 0..Len(view.flat)
      /\ \A i \in DOMAIN view.flat :
           /\ view.flat[i] \in Auths
           /\ Free(metas[view.flat[i]], b, t) /\ metas[view.flat[i]].priority = pr
      /\ \A a \in Auths : shard.entries[a].state = "ready" /\ metas[a].priority = pr
                            => \E i \in DOMAIN view.flat : view.flat[i] = a

\* A bucket and its cursor.
LEMMA ViewOf ==
  ASSUME NEW shard, NEW metas \in Metas, NEW b \in Bases, NEW t, ShardOK(shard, metas, b, t), shard.built,
         NEW pr \in Priorities
  PROVE  Filled(shard, metas, b, t, pr)
<1> DEFINE view == shard.ready[pr]
           R == ReadyAt(shard.entries, metas, pr)
<1>1. view \in View
  BY DEF ShardOK, Shard
<1>2. view.flat = InOrder(R)
  BY DEF ShardOK
<1>3. R \subseteq Auths
  BY DEF ReadyAt
<1>4. \A a \in R : Free(metas[a], b, t) /\ metas[a].priority = pr
  <2> TAKE a \in R
  <2>1. a \in Auths /\ shard.entries[a].state = "ready" /\ metas[a].priority = pr
    BY DEF ReadyAt
  <2>2. Matches(shard.entries[a], metas[a], b, t)
    BY <2>1 DEF ShardOK
  <2>3. Supports(metas[a], b)
    BY <2>1, <2>2 DEF Matches, NoEntry
  <2> QED BY <2>1, <2>2, <2>3 DEF Matches, Free
<1>5. \A a \in Auths : shard.entries[a].state = "ready" /\ metas[a].priority = pr => a \in R
  BY DEF ReadyAt
<1> HIDE DEF R, view
<1>6. /\ \A a \in R : \E i \in DOMAIN view.flat : view.flat[i] = a
      /\ \A i \in DOMAIN view.flat : view.flat[i] \in R
  BY <1>2, <1>3, FlatOf
<1>7. view.flat \in Seq(Auths) /\ view.cursor \in 0..Len(view.flat)
  BY <1>1 DEF View
<1>8. \A i \in DOMAIN view.flat :
        view.flat[i] \in Auths /\ Free(metas[view.flat[i]], b, t) /\ metas[view.flat[i]].priority = pr
  BY <1>3, <1>4, <1>6
<1>9. \A a \in Auths : shard.entries[a].state = "ready" /\ metas[a].priority = pr
                         => \E i \in DOMAIN view.flat : view.flat[i] = a
  BY <1>5, <1>6
<1> QED BY <1>1, <1>7, <1>8, <1>9 DEF view, Filled

\* A shard outlives the turn of a cursor.
LEMMA TurnedKeeps ==
  ASSUME NEW shard, NEW metas, NEW b, NEW t, ShardOK(shard, metas, b, t), shard.built,
         NEW pr \in Priorities, NEW i \in Nat, i <= Len(shard.ready[pr].flat)
  PROVE  ShardOK(Turned(shard, pr, i), metas, b, t) /\ Turned(shard, pr, i).built
<1> DEFINE v == [flat |-> shard.ready[pr].flat, cursor |-> i]
           rd == [shard.ready EXCEPT ![pr] = v]
           r == Turned(shard, pr, i)
<1>1. shard \in Shard
  BY DEF ShardOK
<1>2. shard.ready \in [Priorities -> View]
  BY <1>1 DEF Shard
<1>3. v \in View
  <2>1. shard.ready[pr] \in View
    BY <1>2
  <2>2. shard.ready[pr].flat \in Seq(Auths) /\ Len(shard.ready[pr].flat) \in Nat
    BY <2>1 DEF View
  <2>3. i \in 0..Len(shard.ready[pr].flat)
    BY <2>2
  <2> QED BY <2>2, <2>3 DEF View
<1>4. rd \in [Priorities -> View] /\ \A q \in Priorities : rd[q].flat = shard.ready[q].flat
  BY <1>2, <1>3
<1>5. r = [shard EXCEPT !.ready = rd]
  BY DEF Turned
<1> HIDE DEF r, rd
<1>6. r \in Shard /\ r.ready = rd /\ r.built = shard.built /\ r.entries = shard.entries /\ r.blocked = shard.blocked
  <2> DEFINE E == [Auths -> Entry]
             V == [Priorities -> View]
             B == SUBSET Auths
  <2>1. Shard = [built : BOOLEAN, entries : E, ready : V, blocked : B]
    BY DEF Shard
  <2>2. rd \in V
    BY <1>4
  <2> HIDE DEF E, V, B
  <2> QED BY <1>1, <1>5, <2>1, <2>2
<1>7. ShardOK(r, metas, b, t)
  BY <1>4, <1>6 DEF ShardOK
<1> QED BY <1>6, <1>7 DEF r

\* One shard is replaced by one with the same entries.
LEMMA SetShardKeeps ==
  ASSUME NEW s, NEW t, SchedOK(s, t), NEW p \in Providers, NEW b \in Bases,
         NEW shard, ShardOK(shard, s.metas[p], b, t)
  PROVE  SameButShards(s, SetShard(s, p, b, shard), t)
<1> DEFINE row == [s.shards[p] EXCEPT ![b] = shard]
           sh == [s.shards EXCEPT ![p] = row]
           r == SetShard(s, p, b, shard)
<1>1. s \in Sched
  BY DEF SchedOK
<1>2. s.shards \in [Providers -> [Bases -> Shard]]
  BY <1>1, SchedTyped
<1>3. shard \in Shard
  BY DEF ShardOK
<1>4. row \in [Bases -> Shard] /\ row[b] = shard /\ \A c \in Bases : c # b => row[c] = s.shards[p][c]
  BY <1>2, <1>3
<1>5. r = [s EXCEPT !.shards = sh]
  BY DEF SetShard
<1> HIDE DEF row
<1>6. sh \in [Providers -> [Bases -> Shard]] /\ sh[p] = row /\ \A q \in Providers : q # p => sh[q] = s.shards[q]
  BY <1>2, <1>4
<1> HIDE DEF sh, r
<1>7. r \in Sched /\ r.metas = s.metas /\ r.shards = sh /\ r.home = s.home /\ r.mixed = s.mixed
  BY <1>1, <1>5, <1>6, WithShards
<1>8. \A q \in Providers, c \in Bases : ShardOK(r.shards[q][c], r.metas[q], c, t)
  <2> TAKE q \in Providers, c \in Bases
  <2>1. ShardOK(s.shards[q][c], s.metas[q], c, t)
    BY DEF SchedOK
  <2>2. CASE q = p /\ c = b
    BY <1>4, <1>6, <1>7, <2>2
  <2>3. CASE q = p /\ c # b
    BY <1>4, <1>6, <1>7, <2>1, <2>3
  <2>4. CASE q # p
    BY <1>6, <1>7, <2>1, <2>4
  <2> QED BY <2>2, <2>3, <2>4
<1>9. SchedOK(r, t)
  BY <1>7, <1>8 DEF SchedOK
<1> QED BY <1>7, <1>9 DEF SameButShards, r

\* r picks a free credential of one priority that was not tried.
PickedAt(s, r, p, b, pr, tried, t) ==
  /\ SameButShards(s, r.sched, t)
  /\ r.auth \in Auths \ tried
  /\ Free(s.metas[p][r.auth], b, t) /\ s.metas[p][r.auth].priority = pr

\* pickReadyAtPriorityLocked
LEMMA PickReadyKeeps ==
  ASSUME NEW s, NEW t \in Nat, SchedOK(s, t), NEW p \in Providers, NEW b \in Bases, s.shards[p][b].built,
         NEW pr \in Priorities, NEW tried, NEW fill \in BOOLEAN,
         Open(s.shards[p][b].ready[pr], tried) # {}
  PROVE  PickedAt(s, PickReady(s, p, b, pr, tried, fill), p, b, pr, tried, t)
<1> DEFINE shard == s.shards[p][b]
           view == shard.ready[pr]
           i == Take(fill, Open(view, tried), view.cursor, Len(view.flat))
           r == PickReady(s, p, b, pr, tried, fill)
<1>1. s.metas[p] \in Metas /\ ShardOK(shard, s.metas[p], b, t) /\ shard.built
  BY ShardOfSched
<1>2. r.auth = view.flat[i] /\ r.sched = IF fill THEN s ELSE SetShard(s, p, b, Turned(shard, pr, i))
  BY DEF PickReady
<1> HIDE DEF shard
<1>3. /\ view.flat \in Seq(Auths) /\ view.cursor \in 0..Len(view.flat)
      /\ \A j \in DOMAIN view.flat :
           view.flat[j] \in Auths /\ Free(s.metas[p][view.flat[j]], b, t) /\ s.metas[p][view.flat[j]].priority = pr
  <2>1. Filled(shard, s.metas[p], b, t, pr)
    BY <1>1, ViewOf
  <2> QED BY <2>1 DEF Filled
<1>4. Len(view.flat) \in Nat /\ DOMAIN view.flat = 1..Len(view.flat) /\ view.cursor \in Nat
  BY <1>3
<1>5. Open(view, tried) \subseteq 1..Len(view.flat) /\ Open(view, tried) # {}
  BY <1>4 DEF Open, shard
<1>6. i \in Open(view, tried)
  BY <1>4, <1>5, TakeOpen
<1> HIDE DEF view, i, r
<1>7. i \in 1..Len(view.flat) /\ i \in DOMAIN view.flat /\ view.flat[i] \notin tried
  BY <1>4, <1>5, <1>6 DEF Open
<1>8. SameButShards(s, r.sched, t)
  <2>1. CASE fill
    BY <1>2, <2>1 DEF SameButShards
  <2>2. CASE ~fill
    <3>1. i \in Nat /\ i <= Len(shard.ready[pr].flat)
      BY <1>4, <1>7 DEF view
    <3>2. ShardOK(Turned(shard, pr, i), s.metas[p], b, t)
      BY <1>1, <3>1, TurnedKeeps DEF shard
    <3> QED BY <1>2, <2>2, <3>2, SetShardKeeps
  <2> QED BY <2>1, <2>2
<1> QED BY <1>3, <1>2, <1>7, <1>8 DEF r, PickedAt

Ready(s, p, b, a) == s.shards[p][b].entries[a].state = "ready"

\* a is the choice among what is ready at the providers of a list: free itself, and none
\* that is ready has a higher priority; it is None only if none is ready.
Chosen(s, order, b, t, tried, a) ==
  /\ a # None =>
       /\ a \in Auths \ tried
       /\ \E p \in Range(order) :
            /\ Free(s.metas[p][a], b, t)
            /\ \A q \in Range(order), c \in Auths \ tried :
                 Ready(s, q, b, c) => s.metas[q][c].priority <= s.metas[p][a].priority
  /\ a = None => \A q \in Range(order), c \in Auths \ tried : ~Ready(s, q, b, c)

\* None is no credential.
LEMMA NoneIsNoAuth == None \notin Auths
<1>1. Auths \subseteq Nat
  BY SchedulerAssumption DEF SchedulerAssumption
<1>2. None \notin Nat
  BY DEF None
<1> QED BY <1>1, <1>2

\* A ready credential opens its bucket.
LEMMA ReadyOpens ==
  ASSUME NEW s, NEW t, SchedOK(s, t), NEW p \in Providers, NEW b \in Bases, s.shards[p][b].built,
         NEW tried, NEW c \in Auths \ tried, Ready(s, p, b, c)
  PROVE  /\ s.metas[p][c].priority \in Priorities
         /\ Open(s.shards[p][b].ready[s.metas[p][c].priority], tried) # {}
<1> DEFINE shard == s.shards[p][b]
           pr == s.metas[p][c].priority
<1>1. s.metas[p] \in Metas /\ ShardOK(shard, s.metas[p], b, t) /\ shard.built
  BY ShardOfSched
<1> HIDE DEF shard
<1>2. Matches(shard.entries[c], s.metas[p][c], b, t) /\ shard.entries[c].state = "ready"
  BY <1>1 DEF ShardOK, Ready, shard
<1>3. s.metas[p][c].known
  BY <1>2 DEF Matches, NoEntry, Supports
<1>4. pr \in Priorities
  BY <1>1, <1>3 DEF Metas
<1> HIDE DEF pr
<1>5. Filled(shard, s.metas[p], b, t, pr)
  BY <1>1, <1>4, ViewOf
<1>6. PICK i \in DOMAIN shard.ready[pr].flat : shard.ready[pr].flat[i] = c
  BY <1>2, <1>5 DEF Filled, pr
<1>7. i \in Open(shard.ready[pr], tried)
  BY <1>6 DEF Open
<1> QED BY <1>4, <1>7 DEF shard, pr

\* The providers of a list.
LEMMA RangeOf ==
  ASSUME NEW order \in Seq(Providers)
  PROVE  /\ Len(order) \in Nat /\ DOMAIN order = 1..Len(order)
         /\ Range(order) \subseteq Providers
         /\ \A p \in Range(order) : \E i \in DOMAIN order : order[i] = p
         /\ \A i \in DOMAIN order : order[i] \in Range(order)
<1>1. DOMAIN order = 1..Len(order) /\ Len(order) \in Nat /\ \A i \in DOMAIN order : order[i] \in Providers
  OBVIOUS
<1> QED BY <1>1 DEF Range

\* pickMixed, over shards that are built and promoted.
LEMMA PickEnsuredKeeps ==
  ASSUME NEW s, NEW t \in Nat, SchedOK(s, t), NEW order \in Seq(Providers), NEW cursor \in Nat, NEW b \in Bases,
         \A p \in Range(order) : s.shards[p][b].built, NEW tried, NEW fill \in BOOLEAN
  PROVE  LET r == PickEnsured(s, order, cursor, b, tried, fill)
         IN  /\ SameButShards(s, r.sched, t)
             /\ r.at \in 0..Len(order)
             /\ Chosen(s, order, b, t, tried, r.auth)
<1> DEFINE r == PickEnsured(s, order, cursor, b, tried, fill)
           opens(p, pr) == Open(s.shards[p][b].ready[pr], tried) # {}
<1>1. /\ Len(order) \in Nat /\ DOMAIN order = 1..Len(order)
      /\ Range(order) \subseteq Providers
      /\ \A p \in Range(order) : \E i \in DOMAIN order : order[i] = p
      /\ \A i \in DOMAIN order : order[i] \in Range(order)
  BY RangeOf
<1>2. ASSUME NEW q \in Range(order), NEW c \in Auths \ tried, Ready(s, q, b, c)
      PROVE  s.metas[q][c].priority \in Priorities /\ opens(q, s.metas[q][c].priority)
  BY <1>1, <1>2, ReadyOpens
<1>3. CASE ~AnyOpen(s, order, b, tried)
  <2>1. r = NoPick(s)
    BY <1>3 DEF PickEnsured
  <2>2. r.sched = s /\ r.auth = None /\ r.at = 0
    BY <2>1 DEF NoPick
  <2>3. \A q \in Range(order), c \in Auths \ tried : ~Ready(s, q, b, c)
    BY <1>2, <1>3 DEF AnyOpen
  <2> HIDE DEF r
  <2>4. Chosen(s, order, b, t, tried, r.auth)
    BY <2>2, <2>3 DEF Chosen
  <2>5. SameButShards(s, r.sched, t)
    BY <2>2 DEF SameButShards
  <2> QED BY <1>1, <2>2, <2>4, <2>5 DEF r
<1>4. CASE AnyOpen(s, order, b, tried)
  <2> DEFINE S == {pr \in Priorities : \E p \in Range(order) : opens(p, pr)}
             best == BestPriority(s, order, b, tried)
             serving == {i \in DOMAIN order : opens(order[i], best)}
             at == Take(fill, serving, cursor, Len(order))
             p == order[at]
             pick == PickReady(s, p, b, best, tried, fill)
  <2>1. best \in S /\ \A pr \in S : best >= pr
    <3>1. S # {} /\ S \subseteq Priorities
      BY <1>4 DEF AnyOpen
    <3>2. IsFiniteSet(S) /\ S \subseteq Int
      <4> HIDE DEF S
      <4> QED BY <3>1, SchedulerAssumption, FS_Subset DEF SchedulerAssumption
    <3>3. best = Max(S)
      BY DEF BestPriority
    <3> HIDE DEF S, best
    <3> QED BY <3>1, <3>2, <3>3, MaxOf
  <2>2. r = [sched |-> pick.sched, auth |-> pick.auth, at |-> at]
    BY <1>4 DEF PickEnsured, PickBestOf
  <2> HIDE DEF r, best
  <2>3. at \in serving /\ serving \subseteq 1..Len(order)
    <3>1. PICK q \in Range(order) : opens(q, best)
      BY <2>1
    <3>2. PICK i \in DOMAIN order : order[i] = q
      BY <1>1, <3>1
    <3>3. i \in serving
      BY <3>1, <3>2
    <3>4. serving \subseteq 1..Len(order) /\ serving # {}
      BY <1>1, <3>3
    <3> HIDE DEF serving
    <3> QED BY <1>1, <3>4, TakeOpen
  <2> HIDE DEF at
  <2>4. /\ p \in Range(order) /\ p \in Providers /\ best \in Priorities
        /\ opens(p, best) /\ s.shards[p][b].built
    BY <1>1, <2>1, <2>3
  <2> HIDE DEF p
  <2>5. /\ SameButShards(s, pick.sched, t)
        /\ pick.auth \in Auths \ tried
        /\ Free(s.metas[p][pick.auth], b, t) /\ s.metas[p][pick.auth].priority = best
    <3>1. PickedAt(s, pick, p, b, best, tried, t)
      BY <2>4, PickReadyKeeps
    <3> QED BY <3>1 DEF PickedAt
  <2> HIDE DEF pick
  <2>6. r.sched = pick.sched /\ r.auth = pick.auth /\ r.at = at
    BY <2>2
  <2>7. \A q \in Range(order), c \in Auths \ tried :
          Ready(s, q, b, c) => s.metas[q][c].priority <= s.metas[p][r.auth].priority
    <3> TAKE q \in Range(order), c \in Auths \ tried
    <3>1. SUFFICES ASSUME Ready(s, q, b, c) PROVE s.metas[q][c].priority <= best
      BY <2>5, <2>6
    <3>2. s.metas[q][c].priority \in S
      BY <1>2, <3>1
    <3>3. S \subseteq Int
      BY SchedulerAssumption DEF SchedulerAssumption
    <3> HIDE DEF S
    <3> QED BY <2>1, <3>2, <3>3
  <2>8. Chosen(s, order, b, t, tried, r.auth)
    <3>1. r.auth # None
      BY <2>5, <2>6, NoneIsNoAuth
    <3> QED BY <2>4, <2>5, <2>6, <2>7, <3>1 DEF Chosen
  <2>9. r.at \in 0..Len(order)
    BY <1>1, <2>3, <2>6
  <2> QED BY <2>5, <2>6, <2>8, <2>9 DEF r
<1> QED BY <1>3, <1>4

-----------------------------------------------------------------------------
(* What is picked, in terms of the scheduler.                              *)

\* The meta of a credential where it is at home.
MetaOf(s, a) == s.metas[s.home[a]][a]

\* The scheduler may pick a credential, and cannot overlook it.
MayPick(s, order, b, t, tried, a) ==
  a \in Auths \ tried /\ s.home[a] \in Range(order) /\ Free(MetaOf(s, a), b, t)
MustSee(s, order, b, t, tried, a) ==
  /\ MayPick(s, order, b, t, tried, a)
  /\ s.shards[s.home[a]][b].built => MetaOf(s, a).states[b].recoverAt <= t

\* The scheduler is the same but for its shards and cursors.
SameMetas(s, r, t) == SchedOK(r, t) /\ r.metas = s.metas /\ r.home = s.home

\* a is a right answer to a request.
PickedWell(s, order, b, t, tried, a) ==
  /\ a # None =>
       /\ MayPick(s, order, b, t, tried, a)
       /\ \A c \in Auths : MustSee(s, order, b, t, tried, c) => MetaOf(s, c).priority <= MetaOf(s, a).priority
  /\ a = None => \A c \in Auths : ~MustSee(s, order, b, t, tried, c)

\* What PickEnsured is given and gives.
LEMMA EnsuredBuilt ==
  ASSUME NEW s, NEW t \in Nat, SchedOK(s, t), AtHome(s), NEW order \in Seq(Providers), NEW b \in Bases,
         NEW e, e = Ensure(s, Range(order), b, t)
  PROVE  /\ SameButShards(s, e, t)
         /\ \A p \in Range(order) : e.shards[p][b].built
         /\ \A tried : \A c \in Auths : MustSee(s, order, b, t, tried, c) => Ready(e, s.home[c], b, c)
<1>1. /\ SameButShards(s, e, t)
      /\ \A p \in Providers : p \in Range(order) => e.shards[p][b] = EnsureModel(s.shards[p][b], s.metas[p], b, t)
  BY EnsureKeeps
<1>2. Range(order) \subseteq Providers
  BY RangeOf
<1>3. ASSUME NEW p \in Range(order)
      PROVE  /\ e.shards[p][b].built
             /\ \A a \in Auths :
                  Free(s.metas[p][a], b, t) /\ (s.shards[p][b].built => s.metas[p][a].states[b].recoverAt <= t)
                    => Ready(e, p, b, a)
  <2> DEFINE r == EnsureModel(s.shards[p][b], s.metas[p], b, t)
  <2>1. p \in Providers /\ e.shards[p][b] = r
    BY <1>1, <1>2
  <2>2. s.metas[p] \in Metas /\ ShardOK(s.shards[p][b], s.metas[p], b, t)
    BY <2>1, ShardOfSched
  <2>3. /\ r.built
        /\ \A a \in Auths :
             Free(s.metas[p][a], b, t) /\ (s.shards[p][b].built => s.metas[p][a].states[b].recoverAt <= t)
               => r.entries[a].state = "ready"
    BY <2>2, EnsureModelKeeps
  <2> HIDE DEF r
  <2> QED BY <2>1, <2>3 DEF Ready
<1>4. ASSUME NEW tried, NEW c \in Auths, MustSee(s, order, b, t, tried, c) PROVE Ready(e, s.home[c], b, c)
  <2>1. PICK p \in Range(order) : p = s.home[c]
    BY <1>4 DEF MustSee, MayPick
  <2>2. Free(s.metas[p][c], b, t) /\ (s.shards[p][b].built => s.metas[p][c].states[b].recoverAt <= t)
    BY <1>4, <2>1 DEF MustSee, MayPick, MetaOf
  <2>3. Ready(e, p, b, c)
    BY <1>3, <2>2
  <2> QED BY <2>1, <2>3
<1> QED BY <1>1, <1>3, <1>4

\* PickFrom: the list's shards are built and promoted, and one of them is picked from.
PickedFrom(s, r, order, b, t, tried) ==
  /\ SameMetas(s, r.sched, t) /\ r.sched.mixed = s.mixed
  /\ r.at \in 0..Len(order)
  /\ PickedWell(s, order, b, t, tried, r.auth)

\* pickMixed from a list, whatever its cursor.
LEMMA PickFromKeeps ==
  ASSUME NEW s, NEW t \in Nat, SchedOK(s, t), AtHome(s), NEW order \in Seq(Providers), NEW cursor \in Nat,
         NEW b \in Bases, NEW tried, NEW fill \in BOOLEAN
  PROVE  PickedFrom(s, PickFrom(s, order, cursor, b, tried, fill, t), order, b, t, tried)
<1> DEFINE e == Ensure(s, Range(order), b, t)
           r == PickEnsured(e, order, cursor, b, tried, fill)
<1>1. PickFrom(s, order, cursor, b, tried, fill, t) = r
  BY DEF PickFrom
<1>2. e = Ensure(s, Range(order), b, t)
  OBVIOUS
<1> HIDE DEF e
<1>3. /\ SameButShards(s, e, t)
      /\ \A p \in Range(order) : e.shards[p][b].built
      /\ \A c \in Auths : MustSee(s, order, b, t, tried, c) => Ready(e, s.home[c], b, c)
  BY <1>2, EnsuredBuilt
<1>4. SchedOK(e, t) /\ e.metas = s.metas /\ e.home = s.home /\ e.mixed = s.mixed
  BY <1>3 DEF SameButShards
<1>5. /\ SameButShards(e, r.sched, t) /\ r.at \in 0..Len(order)
      /\ Chosen(e, order, b, t, tried, r.auth)
  BY <1>3, <1>4, PickEnsuredKeeps
<1> HIDE DEF r
<1>6. SameMetas(s, r.sched, t) /\ r.sched.mixed = s.mixed
  BY <1>4, <1>5 DEF SameButShards, SameMetas
<1>7. ASSUME r.auth # None
      PROVE  /\ MayPick(s, order, b, t, tried, r.auth)
             /\ \A c \in Auths : MustSee(s, order, b, t, tried, c)
                                   => MetaOf(s, c).priority <= MetaOf(s, r.auth).priority
  <2>1. PICK p \in Range(order) :
          /\ Free(s.metas[p][r.auth], b, t)
          /\ \A q \in Range(order), c \in Auths \ tried :
               Ready(e, q, b, c) => s.metas[q][c].priority <= s.metas[p][r.auth].priority
    BY <1>4, <1>5, <1>7 DEF Chosen
  <2>2. r.auth \in Auths \ tried
    BY <1>5, <1>7 DEF Chosen
  <2>3. s.home[r.auth] = p
    <3>1. p \in Providers
      BY RangeOf
    <3>2. s.metas[p][r.auth].known
      BY <2>1 DEF Free, Supports
    <3> QED BY <2>2, <3>1, <3>2 DEF AtHome
  <2>4. MayPick(s, order, b, t, tried, r.auth)
    BY <2>1, <2>2, <2>3 DEF MayPick, MetaOf
  <2>5. ASSUME NEW c \in Auths, MustSee(s, order, b, t, tried, c)
        PROVE  MetaOf(s, c).priority <= MetaOf(s, r.auth).priority
    <3>1. s.home[c] \in Range(order) /\ c \in Auths \ tried
      BY <2>5 DEF MustSee, MayPick
    <3>2. Ready(e, s.home[c], b, c)
      BY <1>3, <2>5
    <3>3. s.metas[s.home[c]][c].priority <= s.metas[p][r.auth].priority
      BY <2>1, <3>1, <3>2
    <3> QED BY <2>3, <3>3 DEF MetaOf
  <2> QED BY <2>4, <2>5
<1>8. ASSUME r.auth = None PROVE \A c \in Auths : ~MustSee(s, order, b, t, tried, c)
  <2>1. ASSUME NEW c \in Auths, MustSee(s, order, b, t, tried, c) PROVE FALSE
    <3>1. s.home[c] \in Range(order) /\ c \in Auths \ tried
      BY <2>1 DEF MustSee, MayPick
    <3>2. Ready(e, s.home[c], b, c)
      BY <1>3, <2>1
    <3> QED BY <1>5, <1>8, <3>1, <3>2 DEF Chosen
  <2> QED BY <2>1
<1>9. PickedWell(s, order, b, t, tried, r.auth)
  BY <1>7, <1>8 DEF PickedWell
<1> QED BY <1>1, <1>5, <1>6, <1>9 DEF PickedFrom

\* The cursor of a list of providers moves.
LEMMA SetMixedKeeps ==
  ASSUME NEW s, NEW t, SchedOK(s, t), NEW order \in Orders, NEW b \in Bases, NEW at \in Nat, at <= Len(order)
  PROVE  SameMetas(s, SetMixed(s, order, b, at), t)
<1> DEFINE row == [s.mixed[order] EXCEPT ![b] = at]
           m == [s.mixed EXCEPT ![order] = row]
           r == SetMixed(s, order, b, at)
<1>1. s \in Sched
  BY DEF SchedOK
<1>2. s.mixed \in [Orders -> [Bases -> Nat]]
  BY <1>1, SchedTyped
<1>3. row \in [Bases -> Nat] /\ row[b] = at /\ \A c \in Bases : c # b => row[c] = s.mixed[order][c]
  BY <1>2
<1>4. r = [s EXCEPT !.mixed = m]
  BY DEF SetMixed
<1> HIDE DEF row
<1>5. m \in [Orders -> [Bases -> Nat]] /\ m[order] = row /\ \A o \in Orders : o # order => m[o] = s.mixed[o]
  BY <1>2, <1>3
<1> HIDE DEF m, r
<1>6. r \in Sched /\ r.metas = s.metas /\ r.shards = s.shards /\ r.home = s.home /\ r.mixed = m
  BY <1>1, <1>4, <1>5, WithMixed
<1>7. at \in 0..Len(order)
  <2>1. order \in Seq(Providers)
    BY SchedulerAssumption DEF SchedulerAssumption
  <2>2. Len(order) \in Nat
    BY <2>1
  <2> QED BY <2>2
<1>8. \A o \in Orders, c \in Bases : r.mixed[o][c] \in 0..Len(o)
  <2> TAKE o \in Orders, c \in Bases
  <2>1. s.mixed[o][c] \in 0..Len(o)
    BY DEF SchedOK
  <2>2. CASE o = order /\ c = b
    BY <1>3, <1>5, <1>6, <1>7, <2>2
  <2>3. CASE o = order /\ c # b
    BY <1>3, <1>5, <1>6, <2>1, <2>3
  <2>4. CASE o # order
    BY <1>5, <1>6, <2>1, <2>4
  <2> QED BY <2>2, <2>3, <2>4
<1>9. SchedOK(r, t)
  BY <1>6, <1>8 DEF SchedOK
<1> QED BY <1>6, <1>9 DEF SameMetas, r

\* A request that pins a credential tries no other one.
TriedBy(tried, pinned) == IF pinned = None THEN tried ELSE tried \union (Auths \ {pinned})

\* A pick from the scheduler as it is.
Picks(s, r, order, b, t, tried) == SameMetas(s, r.sched, t) /\ PickedWell(s, order, b, t, tried, r.auth)

\* pickMixed, pinned or not.
LEMMA PickMixedKeeps ==
  ASSUME NEW s, NEW t \in Nat, SchedOK(s, t), AtHome(s), NEW order \in Orders, NEW b \in Bases,
         NEW tried, NEW pinned \in Auths \union {None}, NEW fill \in BOOLEAN
  PROVE  Picks(s, PickMixed(s, order, b, tried, pinned, fill, t), order, b, t, TriedBy(tried, pinned))
<1> DEFINE r == PickMixed(s, order, b, tried, pinned, fill, t)
<1>1. order \in Seq(Providers)
  BY SchedulerAssumption DEF SchedulerAssumption
<1>2. CASE pinned = None
  <2> DEFINE cursor == s.mixed[order][b]
             pick == PickFrom(s, order, cursor, b, tried, fill, t)
  <2>1. r = Advance(pick, order, b, fill) /\ TriedBy(tried, pinned) = tried
    BY <1>2 DEF PickMixed, TriedBy
  <2>2. cursor \in Nat
    <3>1. s.mixed \in [Orders -> [Bases -> Nat]]
      BY SchedTyped DEF SchedOK
    <3> QED BY <3>1
  <2> HIDE DEF cursor, r
  <2>3. PickedFrom(s, pick, order, b, t, tried)
    BY <1>1, <2>2, PickFromKeeps
  <2> HIDE DEF pick
  <2>4. /\ SameMetas(s, pick.sched, t) /\ pick.at \in 0..Len(order)
        /\ PickedWell(s, order, b, t, tried, pick.auth)
    BY <2>3 DEF PickedFrom
  <2>5. CASE fill \/ pick.auth = None
    <3>1. r = pick
      BY <2>1, <2>5 DEF Advance
    <3> QED BY <2>1, <2>4, <3>1 DEF Picks, r
  <2>6. CASE ~(fill \/ pick.auth = None)
    <3> DEFINE m == SetMixed(pick.sched, order, b, pick.at)
    <3>1. r.sched = m /\ r.auth = pick.auth
      BY <2>1, <2>6 DEF Advance
    <3>2. pick.at \in Nat /\ pick.at <= Len(order)
      <4>1. Len(order) \in Nat
        BY <1>1
      <4> QED BY <2>4, <4>1
    <3>3. SchedOK(pick.sched, t)
      BY <2>4 DEF SameMetas
    <3>4. SameMetas(pick.sched, m, t)
      BY <3>2, <3>3, SetMixedKeeps
    <3> HIDE DEF m
    <3>5. SameMetas(s, r.sched, t)
      BY <2>4, <3>1, <3>4 DEF SameMetas
    <3> QED BY <2>1, <2>4, <3>1, <3>5 DEF Picks, r
  <2> QED BY <2>5, <2>6
<1>3. CASE pinned # None /\ s.home[pinned] \notin Range(order)
  <2>1. r.sched = s /\ r.auth = None
    BY <1>3 DEF PickMixed, NoPick
  <2> HIDE DEF r
  <2>2. SameMetas(s, r.sched, t)
    BY <2>1 DEF SameMetas
  <2>3. ASSUME NEW c \in Auths, MustSee(s, order, b, t, TriedBy(tried, pinned), c) PROVE FALSE
    <3>1. c \notin TriedBy(tried, pinned) /\ s.home[c] \in Range(order)
      BY <2>3 DEF MustSee, MayPick
    <3>2. c = pinned
      BY <1>3, <3>1 DEF TriedBy
    <3> QED BY <1>3, <3>1, <3>2
  <2>4. PickedWell(s, order, b, t, TriedBy(tried, pinned), r.auth)
    BY <2>1, <2>3 DEF PickedWell
  <2> QED BY <2>2, <2>4 DEF Picks, r
<1>4. CASE pinned # None /\ s.home[pinned] \in Range(order)
  <2> DEFINE one == <<s.home[pinned]>>
             all == tried \union (Auths \ {pinned})
  <2>1. r = PickFrom(s, one, 0, b, all, fill, t) /\ TriedBy(tried, pinned) = all
    BY <1>4 DEF PickMixed, TriedBy
  <2>2. one \in Seq(Providers) /\ Range(one) = {s.home[pinned]}
    <3>1. s.home[pinned] \in Providers
      BY <1>1, <1>4, RangeOf
    <3> QED BY <3>1 DEF Range
  <2> HIDE DEF one, r
  <2>3. PickedFrom(s, r, one, b, t, all)
    BY <2>1, <2>2, PickFromKeeps
  <2>4. SameMetas(s, r.sched, t) /\ PickedWell(s, one, b, t, all, r.auth)
    BY <2>3 DEF PickedFrom
  <2>5. \A c \in Auths : c \notin all => s.home[c] \in Range(order) /\ s.home[c] \in Range(one)
    BY <1>4, <2>2
  <2>6. \A c \in Auths : MayPick(s, one, b, t, all, c) <=> MayPick(s, order, b, t, all, c)
    BY <2>5 DEF MayPick
  <2>7. \A c \in Auths : MustSee(s, one, b, t, all, c) <=> MustSee(s, order, b, t, all, c)
    BY <2>6 DEF MustSee
  <2>8. PickedWell(s, order, b, t, all, r.auth)
    <3>1. r.auth # None => r.auth \in Auths
      BY <2>4 DEF PickedWell, MayPick
    <3> QED BY <2>4, <2>6, <2>7, <3>1 DEF PickedWell
  <2> QED BY <2>1, <2>4, <2>8 DEF Picks, r
<1> QED BY <1>2, <1>3, <1>4

\* The scheduler after a pick, and the one that was picked from: as it was, or rebuilt.
PicksNext(s, as, supported, r, order, b, t, tried) ==
  /\ SchedOK(r.sched, t) /\ AtHome(r.sched) /\ Tracks(r.sched, as)
  /\ \/ r.auth # None /\ PickedWell(s, order, b, t, tried, r.auth)
     \/ PickedWell(Sync(as, supported), order, b, t, tried, r.auth)

\* A pick leaves what is scheduled alone.
LEMMA SameMetasTrack ==
  ASSUME NEW s, NEW r, NEW t, SameMetas(s, r, t), AtHome(s), NEW as, Tracks(s, as)
  PROVE  SchedOK(r, t) /\ AtHome(r) /\ Tracks(r, as)
<1>1. SchedOK(r, t) /\ r.metas = s.metas /\ r.home = s.home
  BY DEF SameMetas
<1>2. AtHome(r)
  BY <1>1 DEF AtHome
<1>3. Tracks(r, as)
  BY <1>1 DEF Tracks
<1> QED BY <1>1, <1>2, <1>3

\* pickNextMixed: the second attempt finds all shards still to be built.
LEMMA PickNextKeeps ==
  ASSUME NEW s, NEW t \in Nat, SchedOK(s, t), AtHome(s), NEW as, Managed(as), Tracks(s, as),
         NEW supported \in [Auths -> SUBSET Bases], NEW order \in Orders, NEW n \in Names, NEW tried,
         NEW pinned \in Auths \union {None}, NEW fill \in BOOLEAN
  PROVE  PicksNext(s, as, supported, PickNext(s, as, supported, order, n, tried, pinned, fill, t),
                   order, Base[n], t, TriedBy(tried, pinned))
<1> DEFINE b == Base[n]
           fresh == Sync(as, supported)
           first == PickMixed(s, order, b, tried, pinned, fill, t)
           second == PickMixed(fresh, order, b, tried, pinned, fill, t)
           r == PickNext(s, as, supported, order, n, tried, pinned, fill, t)
           all == TriedBy(tried, pinned)
<1>1. b \in Bases
  BY DEF Bases
<1>2. r = IF first.auth # None THEN first ELSE second
  BY DEF PickNext
<1> HIDE DEF r, b
<1>3. Picks(s, first, order, b, t, all)
  BY <1>1, PickMixedKeeps
<1>4. SchedOK(fresh, t) /\ AtHome(fresh) /\ Tracks(fresh, as)
  BY SyncKeeps
<1> HIDE DEF fresh
<1>5. Picks(fresh, second, order, b, t, all)
  BY <1>1, <1>4, PickMixedKeeps
<1> HIDE DEF first, second, all
<1>6. CASE first.auth # None
  <2>1. r = first /\ SameMetas(s, r.sched, t) /\ PickedWell(s, order, b, t, all, r.auth)
    BY <1>2, <1>3, <1>6 DEF Picks
  <2>2. SchedOK(r.sched, t) /\ AtHome(r.sched) /\ Tracks(r.sched, as)
    BY <2>1, SameMetasTrack
  <2> QED BY <1>6, <2>1, <2>2 DEF PicksNext, r, b, all
<1>7. CASE first.auth = None
  <2>1. r = second /\ SameMetas(fresh, r.sched, t) /\ PickedWell(fresh, order, b, t, all, r.auth)
    BY <1>2, <1>5, <1>7 DEF Picks
  <2>2. SchedOK(r.sched, t) /\ AtHome(r.sched) /\ Tracks(r.sched, as)
    BY <1>4, <2>1, SameMetasTrack
  <2> QED BY <2>1, <2>2 DEF PicksNext, r, b, all, fresh
<1> QED BY <1>6, <1>7

-----------------------------------------------------------------------------
(* The invariant, and every call of the manager.                           *)

\* The levels of a credential's states are bounded.
Levelled(auth) == \A n \in Names : Bounded(auth.states[n])

\* What the manager and the scheduler hold, between two calls.
SchedulerInv ==
  /\ Managed(auths) /\ \A a \in Auths : Levelled(auths[a])
  /\ offers \in [Auths -> SUBSET Bases]
  /\ SchedOK(sched, now) /\ AtHome(sched) /\ Tracks(sched, auths)
  /\ strategy \in Strategies
  /\ now \in 1..MaxNow

\* What the manager holds of a credential it does not have.
LEMMA AbsentTyped == Absent \in Auth /\ Levelled(Absent) /\ ~Absent.present
<1>1. Unknown \in ModelState /\ Bounded(Unknown)
  BY DEF Unknown, ModelState, Zero, Bounded
<1>2. NoStates \in States /\ \A n \in Names : Bounded(NoStates[n])
  BY <1>1 DEF NoStates, States
<1>3. "" \in Homes
  BY DEF Homes
<1> DEFINE nowhere == ""
           auth(h) == [present |-> FALSE, disabled |-> FALSE, provider |-> h, priority |-> 0, states |-> NoStates]
<1>4. Absent = auth(nowhere) /\ nowhere \in Homes
  BY <1>3 DEF Absent
<1> HIDE DEF nowhere
<1>5. auth(nowhere) \in Auth /\ ~auth(nowhere).present
  BY <1>2, <1>4 DEF Auth
<1>6. Levelled(auth(nowhere))
  BY <1>2 DEF Levelled
<1> QED BY <1>4, <1>5, <1>6

\* One credential of the manager changes, and the scheduler is told.
LEMMA Told ==
  ASSUME NEW s, NEW r, NEW as, Managed(as), Tracks(s, as), \A c \in Auths : Levelled(as[c]),
         NEW a \in Auths, NEW auth \in Auth, OthersKept(s, r, a), auth.present => Placed(auth), Levelled(auth),
         r.home[a] = IF auth.present /\ ~auth.disabled THEN auth.provider ELSE "",
         auth.present /\ ~auth.disabled =>
           /\ r.metas[auth.provider][a].states = auth.states
           /\ r.metas[auth.provider][a].priority = auth.priority
  PROVE  LET u == [as EXCEPT ![a] = auth]
         IN  Managed(u) /\ Tracks(r, u) /\ \A c \in Auths : Levelled(u[c])
<1> DEFINE u == [as EXCEPT ![a] = auth]
<1>1. as \in [Auths -> Auth] /\ \A c \in Auths : as[c].present => Placed(as[c])
  BY DEF Managed
<1>2. u \in [Auths -> Auth] /\ u[a] = auth /\ \A c \in Auths : c # a => u[c] = as[c]
  BY <1>1
<1> HIDE DEF u
<1>3. Managed(u) /\ \A c \in Auths : Levelled(u[c])
  BY <1>1, <1>2 DEF Managed
<1>4. ASSUME NEW c \in Auths, c # a, Scheduled(u, c)
      PROVE  /\ r.metas[u[c].provider][c].states = u[c].states
             /\ r.metas[u[c].provider][c].priority = u[c].priority
  <2>1. u[c] = as[c] /\ Scheduled(as, c)
    BY <1>2, <1>4 DEF Scheduled
  <2>2. as[c].provider \in Providers
    BY <1>1, <2>1 DEF Scheduled, Placed
  <2>3. PICK p \in Providers : p = as[c].provider
    BY <2>2
  <2>4. r.metas[p][c] = s.metas[p][c]
    BY <1>4, <2>3 DEF OthersKept
  <2> QED BY <2>1, <2>3, <2>4 DEF Tracks
<1>5. \A c \in Auths : c # a => r.home[c] = IF Scheduled(u, c) THEN u[c].provider ELSE ""
  BY <1>2 DEF Tracks, OthersKept, Scheduled
<1>6. Tracks(r, u)
  BY <1>2, <1>4, <1>5 DEF Tracks, Scheduled
<1> QED BY <1>3, <1>6 DEF u

\* To begin with nothing is scheduled, as after a rebuild from an empty manager.
LEMMA SchedulerInit == Init => SchedulerInv
<1> SUFFICES ASSUME Init PROVE SchedulerInv
  OBVIOUS
<1> DEFINE none == [a \in Auths |-> Absent]
           nothing == [a \in Auths |-> {}]
<1>1. auths = none /\ offers = nothing /\ sched = Empty /\ strategy \in Strategies /\ now = 1
  BY DEF Init
<1>2. Managed(none) /\ \A a \in Auths : Levelled(none[a])
  BY AbsentTyped DEF Managed
<1>3. nothing \in [Auths -> SUBSET Bases]
  OBVIOUS
<1>4. Empty = Sync(none, nothing)
  <2>1. \A a \in Auths : ~Scheduled(none, a)
    BY AbsentTyped DEF Scheduled
  <2> HIDE DEF none
  <2> QED BY <2>1 DEF Sync, Empty
<1> HIDE DEF none, nothing
<1>5. SchedOK(Empty, now) /\ AtHome(Empty) /\ Tracks(Empty, none)
  BY <1>2, <1>3, <1>4, SyncKeeps
<1>6. now \in 1..MaxNow
  <2>1. MaxNow \in Nat \ {0}
    BY SchedulerAssumption DEF SchedulerAssumption
  <2> QED BY <1>1, <2>1
<1> QED BY <1>1, <1>2, <1>3, <1>5, <1>6 DEF SchedulerInv

\* The clock.
LEMMA NowTyped == SchedulerInv => now \in Nat \ {0}
<1>1. MaxNow \in Nat \ {0}
  BY SchedulerAssumption DEF SchedulerAssumption
<1>2. SchedulerInv => now \in 1..MaxNow
  BY DEF SchedulerInv
<1> QED BY <1>1, <1>2

\* upsertAuth of a placed credential, as the manager's calls use it.
LEMMA UpsertTold ==
  ASSUME SchedulerInv, NEW a \in Auths, NEW auth \in Auth, auth.present, Placed(auth), Levelled(auth)
  PROVE  LET r == UpsertAuth(sched, a, auth, offers[a], now)
             u == [auths EXCEPT ![a] = auth]
         IN  /\ SchedOK(r, now) /\ AtHome(r) /\ Tracks(r, u)
             /\ Managed(u) /\ \A c \in Auths : Levelled(u[c])
<1> DEFINE r == UpsertAuth(sched, a, auth, offers[a], now)
           o == offers[a]
<1>1. now \in Nat /\ SchedOK(sched, now) /\ AtHome(sched)
  BY NowTyped DEF SchedulerInv
<1>2. o \in SUBSET Bases
  BY DEF SchedulerInv
<1> HIDE DEF o
<1>3. /\ SchedOK(r, now) /\ AtHome(r) /\ OthersKept(sched, r, a)
      /\ r.home[a] = (IF auth.disabled THEN "" ELSE auth.provider)
      /\ ~auth.disabled => r.metas[auth.provider][a] = BuildMeta(auth, o)
  <2>1. Upserted(sched, UpsertAuth(sched, a, auth, o, now), a, auth, o, now)
    BY <1>1, <1>2, UpsertAuthKeeps
  <2> QED BY <2>1 DEF o, Upserted
<1>4. /\ BuildMeta(auth, o).states = auth.states
      /\ BuildMeta(auth, o).priority = auth.priority
  BY <1>2, MetaBuilt
<1> HIDE DEF r
<1>5. LET u == [auths EXCEPT ![a] = auth]
      IN  Managed(u) /\ Tracks(r, u) /\ \A c \in Auths : Levelled(u[c])
  BY <1>3, <1>4, Told DEF SchedulerInv
<1> QED BY <1>3, <1>5 DEF r

\* A result leaves bounded states.
LEMMA MarkTyped ==
  ASSUME NEW st \in States, \A x \in Names : Bounded(st[x]), NEW n \in Names, NEW t \in Nat,
         NEW outcome \in Outcomes, NEW ra \in Nat
  PROVE  LET r == MarkStates(st, n, t, outcome, ra, TRUE)
         IN  r \in States /\ \A x \in Names : Bounded(r[x])
<1> DEFINE m == Settle(st[n], t, outcome, ra, TRUE)
           settled == [st EXCEPT ![n] = m]
<1>1. st \in [Names -> ModelState]
  BY DEF States
<1>2. MarkStates(st, n, t, outcome, ra, TRUE) = [x \in Names |-> Expire(settled[x], t)]
  BY <1>1 DEF MarkStates
<1>3. m \in ModelState /\ Bounded(m)
  BY <1>1, SettleKeeps
<1> HIDE DEF m
<1>4. \A x \in Names : settled[x] \in ModelState /\ Bounded(settled[x])
  BY <1>1, <1>3
<1> HIDE DEF settled
<1>5. \A x \in Names : Expire(settled[x], t) \in ModelState /\ Bounded(Expire(settled[x], t))
  <2> TAKE x \in Names
  <2> DEFINE e == Expire(settled[x], t)
  <2>1. e \in ModelState /\ e.level = settled[x].level
    BY <1>4, ExpireKeeps
  <2> HIDE DEF e
  <2>2. Bounded(e)
    BY <1>4, <2>1 DEF Bounded
  <2> QED BY <2>1, <2>2 DEF e
<1> QED BY <1>2, <1>5 DEF States

\* Register and Update.
LEMMA StoreKeeps ==
  ASSUME SchedulerInv, NEW a \in Auths, NEW placement \in Placements, NEW disabled \in BOOLEAN,
         Store(a, placement, disabled)
  PROVE  SchedulerInv'
<1> DEFINE auth == [present |-> TRUE, disabled |-> disabled, provider |-> placement.provider,
                    priority |-> placement.priority, states |-> auths[a].states]
<1>1. /\ auths' = [auths EXCEPT ![a] = auth]
      /\ sched' = UpsertAuth(sched, a, auth, offers[a], now)
      /\ UNCHANGED <<offers, strategy, now>>
  BY DEF Store
<1>2. auth \in Auth /\ auth.present /\ Placed(auth) /\ Levelled(auth)
  <2>1. auths[a] \in Auth /\ Levelled(auths[a])
    BY DEF SchedulerInv, Managed
  <2>2. auths[a].states \in States /\ \A n \in Names : Bounded(auths[a].states[n])
    BY <2>1 DEF Auth, Levelled
  <2>3. placement.provider \in Providers /\ placement.priority \in Priorities /\ Priorities \subseteq Int
    BY SchedulerAssumption DEF SchedulerAssumption, Priorities
  <2> QED BY <2>2, <2>3 DEF Auth, Placed, Levelled, Homes
<1> HIDE DEF auth
<1>3. /\ SchedOK(sched', now) /\ AtHome(sched') /\ Tracks(sched', auths')
      /\ Managed(auths') /\ \A c \in Auths : Levelled(auths'[c])
  BY <1>1, <1>2, UpsertTold
<1> QED BY <1>1, <1>3 DEF SchedulerInv

\* Unregister.
LEMMA UnregisterKeeps ==
  ASSUME SchedulerInv, NEW a \in Auths, Unregister(a)
  PROVE  SchedulerInv'
<1>1. auths' = [auths EXCEPT ![a] = Absent] /\ sched' = RemoveAuth(sched, a) /\ UNCHANGED <<offers, strategy, now>>
  BY DEF Unregister
<1>2. SchedOK(sched', now) /\ AtHome(sched') /\ sched'.home[a] = "" /\ OthersKept(sched, sched', a)
  BY <1>1, RemoveAuthKeeps DEF SchedulerInv
<1>3. Managed(auths') /\ Tracks(sched', auths') /\ \A c \in Auths : Levelled(auths'[c])
  BY <1>1, <1>2, AbsentTyped, Told DEF SchedulerInv
<1> QED BY <1>1, <1>2, <1>3 DEF SchedulerInv

\* MarkResult.
LEMMA MarkResultKeeps ==
  ASSUME SchedulerInv, NEW a \in Auths, NEW n \in Names, NEW report \in Reports, MarkResult(a, n, report)
  PROVE  SchedulerInv'
<1> DEFINE old == auths[a]
           marked == MarkStates(old.states, n, now, report.outcome, report.ra, TRUE)
           auth == [old EXCEPT !.states = marked]
<1>1. /\ auths' = [auths EXCEPT ![a] = auth]
      /\ sched' = UpsertAuth(sched, a, auth, offers[a], now)
      /\ UNCHANGED <<offers, strategy, now>> /\ old.present
  BY DEF MarkResult
<1>2. old \in Auth /\ Placed(old) /\ Levelled(old)
  BY <1>1 DEF SchedulerInv, Managed
<1>3. old.states \in States /\ \A x \in Names : Bounded(old.states[x])
  BY <1>2 DEF Auth, Levelled
<1>4. report.outcome \in Outcomes /\ report.ra \in Nat
  BY SchedulerAssumption DEF SchedulerAssumption
<1>5. now \in Nat
  BY NowTyped
<1>6. marked \in States /\ \A x \in Names : Bounded(marked[x])
  <2> HIDE DEF old
  <2> QED BY <1>3, <1>4, <1>5, MarkTyped
<1> HIDE DEF marked, old
<1>7. auth \in Auth /\ auth.present /\ Placed(auth) /\ Levelled(auth)
  <2>1. old.provider \in Providers /\ old.priority \in Priorities
    BY <1>2 DEF Placed
  <2>2. /\ auth \in Auth /\ auth.present = old.present /\ auth.provider = old.provider
        /\ auth.priority = old.priority /\ auth.states = marked
    <3> DEFINE H == Homes
    <3>1. Auth = [present : BOOLEAN, disabled : BOOLEAN, provider : H, priority : Int, states : States]
      BY DEF Auth
    <3> HIDE DEF H
    <3> QED BY <1>2, <1>6, <3>1
  <2> HIDE DEF auth
  <2> QED BY <1>1, <1>6, <2>1, <2>2 DEF Placed, Levelled
<1> HIDE DEF auth
<1>8. /\ SchedOK(sched', now) /\ AtHome(sched') /\ Tracks(sched', auths')
      /\ Managed(auths') /\ \A c \in Auths : Levelled(auths'[c])
  BY <1>1, <1>7, UpsertTold
<1> QED BY <1>1, <1>8 DEF SchedulerInv

\* RefreshSchedulerEntry.
LEMMA RefreshKeeps ==
  ASSUME SchedulerInv, NEW a \in Auths, RefreshSchedulerEntry(a)
  PROVE  SchedulerInv'
<1> DEFINE auth == auths[a]
<1>1. /\ sched' = UpsertAuth(sched, a, auth, offers[a], now)
      /\ UNCHANGED <<auths, offers, strategy, now>> /\ auth.present
  BY DEF RefreshSchedulerEntry
<1>2. auth \in Auth /\ Placed(auth) /\ Levelled(auth) /\ auths \in [Auths -> Auth]
  BY <1>1 DEF SchedulerInv, Managed
<1>3. [auths EXCEPT ![a] = auth] = auths
  BY <1>2
<1> HIDE DEF auth
<1>4. /\ SchedOK(sched', now) /\ AtHome(sched') /\ Tracks(sched', auths)
  BY <1>1, <1>2, <1>3, UpsertTold
<1> QED BY <1>1, <1>4 DEF SchedulerInv

\* SetSelector.
LEMMA SetSelectorKeeps ==
  ASSUME SchedulerInv, NEW kind \in Strategies, SetSelector(kind)
  PROVE  SchedulerInv'
<1>1. sched' = Sync(auths, offers) /\ strategy' = kind /\ UNCHANGED <<auths, offers, now>>
  BY DEF SetSelector
<1>2. SchedOK(sched', now) /\ AtHome(sched') /\ Tracks(sched', auths)
  BY <1>1, SyncKeeps DEF SchedulerInv
<1> QED BY <1>1, <1>2 DEF SchedulerInv

\* What a request may have tried, and pin.
LEMMA TriesTyped ==
  ASSUME NEW c \in Tries
  PROVE  c.tried \subseteq Auths /\ c.pinned \in Auths \union {None} /\ (c.pinned # None => c.tried = {})
BY DEF Tries

\* What the next pick is, in every state.
LEMMA NextPick ==
  ASSUME SchedulerInv, NEW order \in Orders, NEW n \in Names, NEW c \in Tries
  PROVE  PicksNext(sched, auths, offers,
                   PickNext(sched, auths, offers, order, n, c.tried, c.pinned, strategy = "fill_first", now),
                   order, Base[n], now, TriedBy(c.tried, c.pinned))
<1> DEFINE fill == strategy = "fill_first"
           tried == c.tried
           pinned == c.pinned
<1>1. fill \in BOOLEAN /\ pinned \in Auths \union {None} /\ now \in Nat
  BY TriesTyped, NowTyped
<1> HIDE DEF fill, tried, pinned
<1>2. PicksNext(sched, auths, offers, PickNext(sched, auths, offers, order, n, tried, pinned, fill, now),
                order, Base[n], now, TriedBy(tried, pinned))
  BY <1>1, PickNextKeeps DEF SchedulerInv
<1> QED BY <1>2 DEF fill, tried, pinned

\* A pick.
LEMMA PickKeeps ==
  ASSUME SchedulerInv, NEW order \in Orders, NEW n \in Names, NEW c \in Tries, Pick(order, n, c.tried, c.pinned)
  PROVE  SchedulerInv'
<1> DEFINE r == PickNext(sched, auths, offers, order, n, c.tried, c.pinned, strategy = "fill_first", now)
<1>1. sched' = r.sched /\ UNCHANGED <<auths, offers, strategy, now>>
  BY DEF Pick
<1>2. PicksNext(sched, auths, offers, r, order, Base[n], now, TriedBy(c.tried, c.pinned))
  BY NextPick
<1> HIDE DEF r
<1>3. SchedOK(sched', now) /\ AtHome(sched') /\ Tracks(sched', auths)
  BY <1>1, <1>2 DEF PicksNext
<1> QED BY <1>1, <1>3 DEF SchedulerInv

\* The clock.
LEMMA TickKeeps == ASSUME SchedulerInv, Tick PROVE SchedulerInv'
<1>1. now < MaxNow /\ now' = now + 1 /\ UNCHANGED <<auths, offers, sched, strategy>>
  BY DEF Tick
<1>2. now \in Nat \ {0} /\ MaxNow \in Nat
  <2>1. MaxNow \in Nat
    BY SchedulerAssumption DEF SchedulerAssumption
  <2> QED BY <2>1, NowTyped
<1>3. now' \in Nat /\ now <= now' /\ now' \in 1..MaxNow
  BY <1>1, <1>2
<1>4. SchedOK(sched, now')
  <2> DEFINE u == now'
  <2>1. u \in Nat /\ now <= u /\ SchedOK(sched, now)
    BY <1>3 DEF SchedulerInv
  <2> HIDE DEF u
  <2>2. SchedOK(sched, u)
    BY <1>2, <2>1, SchedLater
  <2> QED BY <2>2 DEF u
<1> QED BY <1>1, <1>3, <1>4 DEF SchedulerInv

\* Every call keeps what the manager and the scheduler hold.
LEMMA SchedulerStep == SchedulerInv /\ [Next]_vars => SchedulerInv'
<1> SUFFICES ASSUME SchedulerInv, [Next]_vars PROVE SchedulerInv'
  OBVIOUS
<1>1. ASSUME NEW a \in Auths, NEW placement \in Placements, NEW disabled \in BOOLEAN, Store(a, placement, disabled)
      PROVE  SchedulerInv'
  BY <1>1, StoreKeeps
<1>2. ASSUME NEW a \in Auths, Unregister(a) PROVE SchedulerInv'
  BY <1>2, UnregisterKeeps
<1>3. ASSUME NEW a \in Auths, NEW n \in Names, NEW report \in Reports, MarkResult(a, n, report) PROVE SchedulerInv'
  BY <1>3, MarkResultKeeps
<1>4. ASSUME NEW a \in Auths, NEW bs \in SUBSET Bases, SetOffers(a, bs) PROVE SchedulerInv'
  <2>1. offers' = [offers EXCEPT ![a] = bs] /\ UNCHANGED <<auths, sched, strategy, now>>
    BY <1>4 DEF SetOffers
  <2>2. offers' \in [Auths -> SUBSET Bases]
    BY <2>1 DEF SchedulerInv
  <2> QED BY <2>1, <2>2 DEF SchedulerInv
<1>5. ASSUME NEW a \in Auths, RefreshSchedulerEntry(a) PROVE SchedulerInv'
  BY <1>5, RefreshKeeps
<1>6. ASSUME NEW kind \in Strategies, SetSelector(kind) PROVE SchedulerInv'
  BY <1>6, SetSelectorKeeps
<1>7. ASSUME NEW order \in Orders, NEW n \in Names, NEW c \in Tries, Pick(order, n, c.tried, c.pinned)
      PROVE  SchedulerInv'
  BY <1>7, PickKeeps
<1>8. CASE Tick
  BY <1>8, TickKeeps
<1>9. CASE UNCHANGED vars
  BY <1>9 DEF vars, SchedulerInv
<1> QED BY <1>1, <1>2, <1>3, <1>4, <1>5, <1>6, <1>7, <1>8, <1>9 DEF Next

-----------------------------------------------------------------------------
(* What the scheduler may pick is what the manager's data allow.           *)

\* A credential is at a provider of the request exactly when the manager has it there, enabled.
LEMMA AtItsProvider ==
  ASSUME SchedulerInv, NEW s, Tracks(s, auths), NEW a \in Auths, NEW order \in Orders
  PROVE  s.home[a] \in Range(order) <=> Scheduled(auths, a) /\ auths[a].provider \in Range(order)
<1>1. "" \notin Range(order)
  <2>1. order \in Seq(Providers) /\ "" \notin Providers
    BY SchedulerAssumption DEF SchedulerAssumption
  <2> QED BY <2>1, RangeOf
<1>2. CASE Scheduled(auths, a)
  BY <1>2 DEF Tracks
<1>3. CASE ~Scheduled(auths, a)
  BY <1>1, <1>3 DEF Tracks
<1> QED BY <1>2, <1>3

\* A scheduled credential's meta is the manager's.
LEMMA MetaTracked ==
  ASSUME SchedulerInv, NEW s, Tracks(s, auths), NEW a \in Auths, Scheduled(auths, a)
  PROVE  /\ MetaOf(s, a) = s.metas[auths[a].provider][a]
         /\ MetaOf(s, a).states = auths[a].states /\ MetaOf(s, a).priority = auths[a].priority
BY DEF MetaOf, Tracks

\* A pinned request tries its credential only.
LEMMA Tried ==
  ASSUME NEW a \in Auths, NEW tried \in SUBSET Auths, NEW pinned \in Auths \union {None}
  PROVE  a \notin TriedBy(tried, pinned) <=> a \notin tried /\ pinned \in {a, None}
<1>1. CASE pinned = None
  BY <1>1 DEF TriedBy
<1>2. CASE pinned # None
  BY <1>2 DEF TriedBy
<1> QED BY <1>1, <1>2

\* A base has the states of its name.
LEMMA BlockedBase ==
  ASSUME SchedulerInv, NEW a \in Auths, NEW n \in Bases
  PROVE  Base[n] = n /\ n \in Names
         /\ (BlockedFor(auths[a].states, Base[n], now) <=> CoolingAt(auths[a].states[n], now))
<1>1. Base[n] = n /\ n \in Names
  BY NamesAssumption DEF NamesAssumption, Bases
<1>2. auths[a].states \in States
  BY DEF SchedulerInv, Managed, Auth
<1>3. StateFor(auths[a].states, n) = auths[a].states[n]
  BY <1>2, BaseStates
<1> QED BY <1>1, <1>3 DEF BlockedFor

\* The scheduler may pick exactly the usable credentials that it thinks serve the model.
LEMMA MayPickIsUsable ==
  ASSUME SchedulerInv, NEW s, AtHome(s), Tracks(s, auths), NEW a \in Auths, NEW order \in Orders,
         NEW n \in Bases, NEW tried \in SUBSET Auths, NEW pinned \in Auths \union {None}
  PROVE  MayPick(s, order, n, now, TriedBy(tried, pinned), a)
           <=> Usable(a, order, n, tried, pinned) /\ n \in MetaOf(s, a).supported
<1> DEFINE all == TriedBy(tried, pinned)
<1>1. a \notin all <=> a \notin tried /\ pinned \in {a, None}
  BY Tried
<1>2. s.home[a] \in Range(order) <=> Scheduled(auths, a) /\ auths[a].provider \in Range(order)
  BY AtItsProvider
<1>3. BlockedFor(auths[a].states, Base[n], now) <=> CoolingAt(auths[a].states[n], now)
  BY BlockedBase
<1>4. ASSUME s.home[a] \in Range(order)
      PROVE  Free(MetaOf(s, a), n, now)
               <=> n \in MetaOf(s, a).supported /\ ~BlockedFor(auths[a].states, Base[n], now)
  <2>1. MetaOf(s, a).states = auths[a].states
    BY <1>2, <1>4, MetaTracked
  <2>2. MetaOf(s, a).known
    <3>1. order \in Seq(Providers)
      BY SchedulerAssumption DEF SchedulerAssumption
    <3>2. s.home[a] \in Providers
      BY <1>4, <3>1, RangeOf
    <3> QED BY <3>2 DEF AtHome, MetaOf
  <2> QED BY <1>3, <2>1, <2>2 DEF Free, Supports
<1> HIDE DEF all
<1>5. MayPick(s, order, n, now, all, a) <=> a \notin all /\ s.home[a] \in Range(order) /\ Free(MetaOf(s, a), n, now)
  BY DEF MayPick
<1>6. Usable(a, order, n, tried, pinned)
        <=> /\ Scheduled(auths, a) /\ auths[a].provider \in Range(order)
            /\ ~BlockedFor(auths[a].states, Base[n], now)
            /\ a \notin tried /\ pinned \in {a, None}
  BY DEF Usable
<1>7. MayPick(s, order, n, now, all, a) <=> Usable(a, order, n, tried, pinned) /\ n \in MetaOf(s, a).supported
  BY <1>1, <1>2, <1>4, <1>5, <1>6
<1> QED BY <1>7 DEF all

\* A right answer of a scheduler that tracks the manager, in the manager's terms; "built"
\* says that the shards of the model may exist.
LEMMA PickedUsable ==
  ASSUME SchedulerInv, NEW s, AtHome(s), Tracks(s, auths), NEW order \in Orders,
         NEW n \in Bases, NEW tried \in SUBSET Auths, NEW pinned \in Auths \union {None},
         NEW a, PickedWell(s, order, n, now, TriedBy(tried, pinned), a)
  PROVE  /\ a # None =>
              /\ a \in Auths /\ Usable(a, order, n, tried, pinned)
              /\ n \in s.metas[auths[a].provider][a].supported
         /\ \A o \in Auths :
              (/\ Usable(o, order, n, tried, pinned)
               /\ n \in s.metas[auths[o].provider][o].supported
               /\ s.shards[auths[o].provider][n].built => auths[o].states[n].recoverAt <= now)
              => a # None /\ auths[o].priority <= auths[a].priority
<1> DEFINE all == TriedBy(tried, pinned)
<1>1. \A c \in Auths : MayPick(s, order, n, now, all, c)
                         <=> Usable(c, order, n, tried, pinned) /\ n \in MetaOf(s, c).supported
  BY MayPickIsUsable
<1>2. \A c \in Auths : Usable(c, order, n, tried, pinned) =>
        /\ Scheduled(auths, c)
        /\ MetaOf(s, c) = s.metas[auths[c].provider][c]
        /\ MetaOf(s, c).states = auths[c].states /\ MetaOf(s, c).priority = auths[c].priority
        /\ s.home[c] = auths[c].provider
  BY MetaTracked DEF Usable, Tracks
<1> HIDE DEF all
<1>3. ASSUME a # None
      PROVE  /\ a \in Auths /\ Usable(a, order, n, tried, pinned)
             /\ n \in s.metas[auths[a].provider][a].supported
  <2>1. MayPick(s, order, n, now, all, a)
    BY <1>3 DEF PickedWell, all
  <2>2. a \in Auths
    BY <2>1 DEF MayPick
  <2> QED BY <1>1, <1>2, <2>1, <2>2
<1>4. ASSUME NEW o \in Auths, Usable(o, order, n, tried, pinned),
             n \in s.metas[auths[o].provider][o].supported,
             s.shards[auths[o].provider][n].built => auths[o].states[n].recoverAt <= now
      PROVE  a # None /\ auths[o].priority <= auths[a].priority
  <2>1. MustSee(s, order, n, now, all, o)
    <3>1. MayPick(s, order, n, now, all, o)
      BY <1>1, <1>2, <1>4
    <3>2. s.home[o] = auths[o].provider /\ MetaOf(s, o).states = auths[o].states
      BY <1>2, <1>4
    <3> QED BY <1>4, <3>1, <3>2 DEF MustSee
  <2>2. a # None /\ MetaOf(s, o).priority <= MetaOf(s, a).priority
    BY <2>1 DEF PickedWell, all
  <2> QED BY <1>2, <1>3, <1>4, <2>2
<1> QED BY <1>3, <1>4

\* The first attempt decides if it finds one; if it does not, the rebuilt scheduler decides.
LEMMA InvGivesPicksRight == SchedulerInv => PicksRight
<1> SUFFICES ASSUME SchedulerInv, NEW order \in Orders, NEW n \in Bases, NEW c \in Tries
             PROVE  LET a == Picked(order, n, c.tried, c.pinned)
                    IN  PickSound(a, order, n, c) /\ PickComplete(a, order, n, c) /\ PickBest(a, order, n, c)
  BY DEF PicksRight
<1> DEFINE r == PickNext(sched, auths, offers, order, n, c.tried, c.pinned, strategy = "fill_first", now)
           a == Picked(order, n, c.tried, c.pinned)
           tried == c.tried
           pinned == c.pinned
           all == TriedBy(tried, pinned)
           fresh == Sync(auths, offers)
<1>1. n \in Names /\ Base[n] = n
  BY NamesAssumption DEF NamesAssumption, Bases
<1>2. tried \in SUBSET Auths /\ pinned \in Auths \union {None}
  BY TriesTyped
<1>3. a = r.auth
  BY DEF Picked, Fill
<1>4. PicksNext(sched, auths, offers, r, order, n, now, all)
  <2>1. PicksNext(sched, auths, offers, r, order, Base[n], now, all)
    BY <1>1, NextPick
  <2> QED BY <1>1, <2>1
<1> HIDE DEF a, r, tried, pinned, all
<1>5. \/ a # None /\ PickedWell(sched, order, n, now, all, a)
      \/ PickedWell(fresh, order, n, now, all, a)
  BY <1>3, <1>4 DEF PicksNext, fresh
<1>6. AtHome(fresh) /\ Tracks(fresh, auths)
  BY SyncKeeps DEF SchedulerInv
<1>7. /\ \A o \in Auths : Scheduled(auths, o) => fresh.metas[auths[o].provider][o].supported = offers[o]
      /\ \A p \in Providers : ~fresh.shards[p][n].built
  BY SyncKeeps DEF SchedulerInv
<1>8. \A o \in Auths : Scheduled(auths, o) => auths[o].provider \in Providers
  BY DEF SchedulerInv, Managed, Placed, Scheduled
<1> HIDE DEF fresh
<1>9. \A o \in Auths : Usable(o, order, n, tried, pinned) => Scheduled(auths, o)
  BY DEF Usable
<1>10. CASE a # None /\ PickedWell(sched, order, n, now, all, a)
  <2>1. AtHome(sched) /\ Tracks(sched, auths)
    BY DEF SchedulerInv
  <2>2. /\ a \in Auths /\ Usable(a, order, n, tried, pinned) /\ n \in Known(a)
        /\ \A o \in Auths :
             (Usable(o, order, n, tried, pinned) /\ n \in Known(o) /\ auths[o].states[n].recoverAt <= now)
               => auths[o].priority <= auths[a].priority
    BY <1>2, <1>10, <2>1, PickedUsable DEF all, Known
  <2> QED BY <1>1, <1>10, <2>2 DEF PickSound, PickComplete, PickBest, tried, pinned, a
<1>11. CASE PickedWell(fresh, order, n, now, all, a)
  <2>1. /\ a # None =>
             /\ a \in Auths /\ Usable(a, order, n, tried, pinned)
             /\ n \in fresh.metas[auths[a].provider][a].supported
        /\ \A o \in Auths :
             (/\ Usable(o, order, n, tried, pinned)
              /\ n \in fresh.metas[auths[o].provider][o].supported
              /\ fresh.shards[auths[o].provider][n].built => auths[o].states[n].recoverAt <= now)
             => a # None /\ auths[o].priority <= auths[a].priority
    BY <1>2, <1>6, <1>11, PickedUsable DEF all
  <2>2. a # None => a \in Auths /\ Usable(a, order, n, tried, pinned) /\ n \in offers[a]
    BY <1>7, <1>9, <2>1
  <2>3. \A o \in Auths : Usable(o, order, n, tried, pinned) /\ n \in offers[o]
                           => a # None /\ auths[o].priority <= auths[a].priority
    BY <1>7, <1>8, <1>9, <2>1
  <2> QED BY <2>2, <2>3 DEF PickSound, PickComplete, PickBest, tried, pinned, a
<1> QED BY <1>5, <1>10, <1>11 DEF a

\* What a shard that matches its metas and the index of a rebuild have in common.
LEMMA InvGivesCoherent == SchedulerInv => Coherent
<1> SUFFICES ASSUME SchedulerInv PROVE Coherent
  OBVIOUS
<1>1. SchedOK(sched, now) /\ AtHome(sched) /\ Tracks(sched, auths)
  BY DEF SchedulerInv
<1>2. \A p \in Providers, b \in Bases : ShardOK(sched.shards[p][b], sched.metas[p], b, now)
  BY <1>1 DEF SchedOK
<1>3. IndexCoherent
  <2>1. ASSUME NEW p \in Providers, NEW b \in Bases, sched.shards[p][b].built
        PROVE  LET shard == sched.shards[p][b]
                   metas == sched.metas[p]
                   fresh == RebuildIndexes(shard.entries, metas)
               IN  /\ \A a \in Auths : shard.entries[a] # NoEntry <=> Supports(metas[a], b)
                   /\ shard.blocked = fresh.blocked
                   /\ \A pr \in Priorities : shard.ready[pr].flat = fresh.ready[pr].flat
    <3> DEFINE shard == sched.shards[p][b]
               metas == sched.metas[p]
               fresh == RebuildIndexes(shard.entries, metas)
    <3>1. ShardOK(shard, metas, b, now) /\ shard.built
      BY <1>2, <2>1
    <3> HIDE DEF shard, metas
    <3>2. \A a \in Auths : Supports(metas[a], b) <=> shard.entries[a] # NoEntry
      BY <3>1 DEF ShardOK, Matches
    <3>3. fresh.blocked = Waiting(shard.entries)
      BY DEF RebuildIndexes, Waiting
    <3>4. \A pr \in Priorities : fresh.ready[pr].flat = InOrder(ReadyAt(shard.entries, metas, pr))
      BY DEF RebuildIndexes, ReadyAt
    <3>5. /\ shard.blocked = Waiting(shard.entries)
          /\ \A pr \in Priorities : shard.ready[pr].flat = InOrder(ReadyAt(shard.entries, metas, pr))
      BY <3>1 DEF ShardOK
    <3> HIDE DEF fresh
    <3> QED BY <3>2, <3>3, <3>4, <3>5 DEF shard, metas, fresh
  <2> QED BY <1>1, <2>1 DEF IndexCoherent, AtHome
<1>4. SchedulerTracksManager
  BY <1>1 DEF SchedulerTracksManager, Tracks
<1>5. TypeOK
  <2>1. /\ auths \in [Auths -> Auth] /\ offers \in [Auths -> SUBSET Bases]
        /\ strategy \in Strategies /\ now \in 1..MaxNow
    BY DEF SchedulerInv, Managed
  <2>2. sched.home \in [Auths -> Homes]
    BY <1>1, SchedTyped DEF SchedOK
  <2>3. ASSUME NEW a \in Auths
        PROVE  /\ auths[a].present \in BOOLEAN /\ auths[a].disabled \in BOOLEAN
               /\ auths[a].provider \in Providers \union {""}
               /\ DOMAIN auths[a].states = Names
               /\ offers[a] \subseteq Bases
               /\ sched.home[a] \in Providers \union {""}
    <3>1. auths[a] \in Auth /\ offers[a] \in SUBSET Bases /\ sched.home[a] \in Homes
      BY <2>1, <2>2
    <3>2. /\ auths[a].present \in BOOLEAN /\ auths[a].disabled \in BOOLEAN
          /\ auths[a].provider \in Homes /\ auths[a].states \in States
      BY <3>1 DEF Auth
    <3>3. DOMAIN auths[a].states = Names
      BY <3>2 DEF States
    <3> QED BY <3>1, <3>2, <3>3 DEF Homes
  <2>4. ASSUME NEW p \in Providers, NEW b \in Bases, NEW pr \in Priorities
        PROVE  LET view == sched.shards[p][b].ready[pr]
               IN  view.flat \in Seq(Auths) /\ view.cursor \in 0..Len(view.flat)
    <3>1. sched.shards[p][b] \in Shard
      BY <1>2 DEF ShardOK
    <3>2. sched.shards[p][b].ready[pr] \in View
      BY <3>1 DEF Shard
    <3> QED BY <3>2 DEF View
  <2>5. \A o \in Orders, b \in Bases : sched.mixed[o][b] \in 0..Len(o)
    BY <1>1 DEF SchedOK
  <2> QED BY <2>1, <2>3, <2>4, <2>5 DEF TypeOK
<1> QED BY <1>3, <1>4, <1>5 DEF Coherent

-----------------------------------------------------------------------------
(* Round robin. After its first pick a round finds nothing to build and    *)
(* nothing to promote: from then on only cursors move, and each pick       *)
(* brings a credential of the best buckets nearer to its turn.             *)

\* A fresh entry that is not ready waits for an instant that is still to come.
LEMMA EvaluateAhead ==
  ASSUME NEW meta \in Meta, NEW b \in Bases, NEW t \in Nat, Evaluate(meta, b, t).state \in {"cooldown", "blocked"}
  PROVE  Evaluate(meta, b, t).nextAt > t
<1> DEFINE s == meta.states[b]
<1>1. s \in ModelState /\ StateFor(meta.states, b) = s
  BY BaseStates DEF Meta
<1>2. CASE ~CoolingAt(s, t)
  <2>1. Evaluate(meta, b, t).state = "ready"
    BY <1>2, EvaluateTyped
  <2> QED BY <2>1
<1>3. CASE CoolingAt(s, t)
  <2>1. Evaluate(meta, b, t).nextAt = IF s.recoverAt > t THEN s.recoverAt ELSE s.retryAt
    BY <1>1, <1>3 DEF Evaluate, BlockedFor, NextFor
  <2> QED BY <1>3, <2>1 DEF CoolingAt
<1> QED BY <1>2, <1>3

\* A shard that is built and has nothing to promote.
Settled(shard, t) == shard.built /\ \A a \in shard.blocked : shard.entries[a].nextAt > t

\* What ensureModelLocked leaves is settled, and a settled shard it leaves alone.
LEMMA EnsureModelSettles ==
  ASSUME NEW shard, NEW metas \in Metas, NEW b \in Bases, NEW t \in Nat, ShardOK(shard, metas, b, t)
  PROVE  /\ Settled(EnsureModel(shard, metas, b, t), t)
         /\ Settled(shard, t) => EnsureModel(shard, metas, b, t) = shard
<1> DEFINE r == EnsureModel(shard, metas, b, t)
           due == {a \in shard.blocked : /\ shard.entries[a].nextAt # Zero
                                         /\ shard.entries[a].nextAt <= t}
<1>1. \A a \in Auths : metas[a] \in Meta
  BY DEF Metas
<1>2. shard.entries \in [Auths -> Entry]
  BY DEF ShardOK, Shard
<1>3. ASSUME NEW entries, r = RebuildIndexes(entries, metas),
             \A a \in Auths : entries[a].state \in {"cooldown", "blocked"} => entries[a].nextAt > t
      PROVE  Settled(r, t)
  <2>1. r.built /\ r.entries = entries /\ r.blocked = Waiting(entries)
    BY <1>3 DEF RebuildIndexes, Waiting
  <2> HIDE DEF r
  <2> QED BY <1>3, <2>1 DEF Settled, Waiting
<1>4. CASE ~shard.built
  <2> DEFINE entries == [a \in Auths |-> IF Supports(metas[a], b) THEN Evaluate(metas[a], b, t) ELSE NoEntry]
  <2>1. r = RebuildIndexes(entries, metas)
    BY <1>4 DEF EnsureModel
  <2>2. \A a \in Auths : entries[a].state \in {"cooldown", "blocked"} => entries[a].nextAt > t
    BY <1>1, EvaluateAhead DEF NoEntry
  <2> HIDE DEF entries, r
  <2> QED BY <1>3, <1>4, <2>1, <2>2 DEF r, Settled
<1>5. CASE shard.built
  <2> DEFINE entries == [a \in Auths |-> IF a \in due THEN Evaluate(metas[a], b, t) ELSE shard.entries[a]]
  <2>1. r = IF due = {} THEN shard ELSE RebuildIndexes(entries, metas)
    BY <1>5 DEF EnsureModel, Promote
  <2>2. shard.blocked = Waiting(shard.entries) /\ \A a \in Auths : Matches(shard.entries[a], metas[a], b, t)
    BY <1>5 DEF ShardOK
  <2>3. \A a \in shard.blocked : a \in Auths /\ shard.entries[a].nextAt \in Nat /\ shard.entries[a].nextAt # Zero
    BY <1>2, <2>2 DEF Waiting, Matches, Entry
  <2>4. \A a \in shard.blocked : a \notin due => shard.entries[a].nextAt > t
    BY <2>3
  <2>5. ASSUME NEW a \in Auths, entries[a].state \in {"cooldown", "blocked"} PROVE entries[a].nextAt > t
    <3>1. CASE a \in due
      BY <1>1, <2>5, <3>1, EvaluateAhead
    <3>2. CASE a \notin due
      <4>1. entries[a] = shard.entries[a]
        BY <3>2
      <4>2. a \in shard.blocked
        BY <2>2, <2>5, <4>1 DEF Waiting
      <4> QED BY <2>4, <3>2, <4>1, <4>2
    <3> QED BY <3>1, <3>2
  <2>6. Settled(shard, t) => due = {}
    BY <2>3 DEF Settled
  <2> HIDE DEF entries, due, r
  <2>7. CASE due = {}
    <3>1. Settled(r, t) /\ r = shard
      BY <1>5, <2>1, <2>4, <2>7 DEF Settled
    <3> QED BY <3>1 DEF r
  <2>8. CASE due # {}
    <3>1. Settled(r, t)
      BY <1>3, <2>1, <2>5, <2>8
    <3> QED BY <2>6, <2>8, <3>1 DEF r
  <2> QED BY <2>7, <2>8
<1> QED BY <1>4, <1>5

\* The list's shards are settled.
Steady(s, order, b, t) == \A p \in Range(order) : Settled(s.shards[p][b], t)

\* Ensure settles them, and leaves a scheduler alone where they are.
LEMMA EnsureSettles ==
  ASSUME NEW s, NEW t \in Nat, SchedOK(s, t), NEW order \in Seq(Providers), NEW b \in Bases
  PROVE  /\ Steady(Ensure(s, Range(order), b, t), order, b, t)
         /\ Steady(s, order, b, t) => Ensure(s, Range(order), b, t) = s
<1> DEFINE e == Ensure(s, Range(order), b, t)
<1>1. Range(order) \subseteq Providers
  BY RangeOf
<1>2. \A p \in Providers : s.metas[p] \in Metas /\ ShardOK(s.shards[p][b], s.metas[p], b, t)
  BY ShardOfSched
<1>3. \A p \in Providers : /\ Settled(EnsureModel(s.shards[p][b], s.metas[p], b, t), t)
                           /\ Settled(s.shards[p][b], t)
                                => EnsureModel(s.shards[p][b], s.metas[p], b, t) = s.shards[p][b]
  BY <1>2, EnsureModelSettles
<1>4. \A p \in Providers : p \in Range(order) => e.shards[p][b] = EnsureModel(s.shards[p][b], s.metas[p], b, t)
  BY EnsureKeeps
<1>5. Steady(e, order, b, t)
  <2> HIDE DEF e
  <2> QED BY <1>1, <1>3, <1>4 DEF Steady
<1>6. ASSUME Steady(s, order, b, t) PROVE e = s
  <2>1. s \in Sched
    BY DEF SchedOK
  <2>2. s.shards \in [Providers -> [Bases -> Shard]]
    BY <2>1, SchedTyped
  <2> DEFINE f(p) == IF p \in Range(order)
                       THEN [s.shards[p] EXCEPT ![b] = EnsureModel(s.shards[p][b], s.metas[p], b, t)]
                     ELSE s.shards[p]
  <2>3. e = [s EXCEPT !.shards = [p \in Providers |-> f(p)]]
    BY DEF Ensure
  <2>4. ASSUME NEW p \in Providers PROVE f(p) = s.shards[p]
    <3>1. CASE p \in Range(order)
      <4>1. EnsureModel(s.shards[p][b], s.metas[p], b, t) = s.shards[p][b]
        BY <1>3, <1>6, <3>1 DEF Steady
      <4>2. s.shards[p] \in [Bases -> Shard]
        BY <2>2
      <4> QED BY <3>1, <4>1, <4>2
    <3>2. CASE p \notin Range(order)
      BY <3>2
    <3> QED BY <3>1, <3>2
  <2> HIDE DEF f, e
  <2>5. [p \in Providers |-> f(p)] = s.shards
    BY <2>2, <2>4
  <2>6. e = [s EXCEPT !.shards = s.shards]
    BY <2>3, <2>5
  <2>7. [s EXCEPT !.shards = s.shards] = s
    <3> DEFINE M == [Providers -> Metas]
               H == [Auths -> Homes]
               G == [Providers -> [Bases -> Shard]]
               X == [Orders -> [Bases -> Nat]]
    <3>1. s \in [metas : M, home : H, shards : G, mixed : X]
      BY <2>1 DEF Sched
    <3> HIDE DEF M, H, G, X
    <3> QED BY <3>1
  <2> QED BY <2>6, <2>7
<1> QED BY <1>5, <1>6 DEF e

\* A pick of an unpinned request by round robin, over shards that are settled.
Turn(s, order, b) == Advance(PickEnsured(s, order, s.mixed[order][b], b, {}, FALSE), order, b, FALSE)

\* pickMixed settles the list's shards and takes a turn.
LEMMA PickIsTurn ==
  ASSUME NEW s, NEW t \in Nat, SchedOK(s, t), NEW order \in Orders, NEW b \in Bases
  PROVE  LET e == Ensure(s, Range(order), b, t)
         IN  /\ PickMixed(s, order, b, {}, None, FALSE, t) = Turn(e, order, b)
             /\ Steady(e, order, b, t) /\ SameButShards(s, e, t)
<1> DEFINE e == Ensure(s, Range(order), b, t)
<1>1. order \in Seq(Providers)
  BY SchedulerAssumption DEF SchedulerAssumption
<1>2. SameButShards(s, e, t)
  BY EnsureKeeps
<1>3. Steady(e, order, b, t)
  BY <1>1, EnsureSettles
<1>4. e.mixed[order][b] = s.mixed[order][b]
  BY <1>2 DEF SameButShards
<1>5. PickMixed(s, order, b, {}, None, FALSE, t)
        = Advance(PickEnsured(e, order, s.mixed[order][b], b, {}, FALSE), order, b, FALSE)
  BY DEF PickMixed, PickFrom
<1> HIDE DEF e
<1>6. PickMixed(s, order, b, {}, None, FALSE, t) = Turn(e, order, b)
  BY <1>4, <1>5 DEF Turn
<1> QED BY <1>2, <1>3, <1>6 DEF e

\* The positions of a list at which a priority's bucket is open.
Serving(s, order, b, pr) == {i \in DOMAIN order : DOMAIN s.shards[order[i]][b].ready[pr].flat # {}}

\* r is s after a turn that took position i of the bucket pr of the provider at position "at".
TurnAt(s, r, order, b, pr, at, i) ==
  /\ r.auth = s.shards[order[at]][b].ready[pr].flat[i]
  /\ r.sched.mixed[order][b] = at
  /\ \A q \in Providers, c \in Bases :
       r.sched.shards[q][c] = IF q = order[at] /\ c = b THEN Turned(s.shards[q][c], pr, i) ELSE s.shards[q][c]

\* An unpinned request that has tried nothing finds every bucket as it is.
LEMMA OpenAll == \A view : Open(view, {}) = DOMAIN view.flat
BY DEF Open

\* The best priority is one that some provider serves.
LEMMA BestServed ==
  ASSUME NEW s, NEW order \in Orders, NEW b \in Bases, AnyOpen(s, order, b, {})
  PROVE  /\ BestPriority(s, order, b, {}) \in Priorities
         /\ Serving(s, order, b, BestPriority(s, order, b, {})) # {}
         /\ \A pr \in Priorities : Serving(s, order, b, pr) # {} => pr <= BestPriority(s, order, b, {})
<1> DEFINE S == {pr \in Priorities : \E p \in Range(order) : Open(s.shards[p][b].ready[pr], {}) # {}}
<1>1. order \in Seq(Providers) /\ Priorities \subseteq Int /\ IsFiniteSet(Priorities)
  BY SchedulerAssumption DEF SchedulerAssumption
<1>2. \A pr \in Priorities : pr \in S <=> Serving(s, order, b, pr) # {}
  <2> TAKE pr \in Priorities
  <2>1. ASSUME pr \in S PROVE Serving(s, order, b, pr) # {}
    <3>1. PICK p \in Range(order) : Open(s.shards[p][b].ready[pr], {}) # {}
      BY <2>1
    <3>2. PICK k \in DOMAIN order : order[k] = p
      BY <1>1, RangeOf
    <3>3. k \in Serving(s, order, b, pr)
      BY <3>1, <3>2, OpenAll DEF Serving
    <3> QED BY <3>3
  <2>2. ASSUME Serving(s, order, b, pr) # {} PROVE pr \in S
    <3>1. PICK k \in DOMAIN order : DOMAIN s.shards[order[k]][b].ready[pr].flat # {}
      BY <2>2 DEF Serving
    <3>2. order[k] \in Range(order) /\ Open(s.shards[order[k]][b].ready[pr], {}) # {}
      BY <1>1, <3>1, RangeOf, OpenAll
    <3> QED BY <3>2
  <2> QED BY <2>1, <2>2
<1>3. S # {} /\ S \subseteq Priorities
  BY DEF AnyOpen
<1>4. BestPriority(s, order, b, {}) = Max(S)
  BY DEF BestPriority
<1> HIDE DEF S
<1>5. IsFiniteSet(S)
  BY <1>1, <1>3, FS_Subset
<1>6. S \subseteq Int
  BY <1>1, <1>3
<1>7. Max(S) \in S /\ \A y \in S : Max(S) >= y
  BY <1>3, <1>5, <1>6, MaxOf
<1>8. \A y \in Priorities : y \in S => y <= Max(S)
  BY <1>6, <1>7
<1> QED BY <1>2, <1>3, <1>4, <1>7, <1>8

\* What is picked is one of the credentials of the best buckets.
LEMMA TurnServes ==
  ASSUME NEW s, NEW t \in Nat, SchedOK(s, t), NEW order \in Orders, NEW b \in Bases, Steady(s, order, b, t),
         AnyOpen(s, order, b, {})
  PROVE  LET pr == BestPriority(s, order, b, {})
             at == Rotate(Serving(s, order, b, pr), s.mixed[order][b], Len(order))
             view == s.shards[order[at]][b].ready[pr]
             i == Rotate(DOMAIN view.flat, view.cursor, Len(view.flat))
         IN  /\ pr \in Priorities /\ at \in DOMAIN order /\ at \in Serving(s, order, b, pr)
             /\ order[at] \in Providers /\ order[at] \in Range(order)
             /\ i \in DOMAIN view.flat
<1> DEFINE pr == BestPriority(s, order, b, {})
           at == Rotate(Serving(s, order, b, pr), s.mixed[order][b], Len(order))
           p == order[at]
           view == s.shards[p][b].ready[pr]
           i == Rotate(DOMAIN view.flat, view.cursor, Len(view.flat))
<1>1. order \in Seq(Providers) /\ Len(order) \in Nat /\ DOMAIN order = 1..Len(order)
      /\ \A k \in DOMAIN order : order[k] \in Range(order) /\ order[k] \in Providers
  <2>1. order \in Seq(Providers)
    BY SchedulerAssumption DEF SchedulerAssumption
  <2> QED BY <2>1, RangeOf
<1>2. pr \in Priorities /\ Serving(s, order, b, pr) # {}
  BY BestServed
<1> HIDE DEF pr
<1>3. at \in Serving(s, order, b, pr) /\ at \in DOMAIN order /\ p \in Providers /\ p \in Range(order)
  <2>1. s.mixed[order][b] \in 0..Len(order)
    BY DEF SchedOK
  <2>2. Serving(s, order, b, pr) \subseteq 1..Len(order)
    BY <1>1 DEF Serving
  <2>3. PICK j \in Serving(s, order, b, pr) : TRUE
    BY <1>2
  <2>4. at \in Serving(s, order, b, pr)
    BY <1>1, <2>1, <2>2, <2>3, Nearer
  <2> QED BY <1>1, <2>2, <2>4
<1> HIDE DEF at, p
<1>4. s.shards[p][b].built /\ s.metas[p] \in Metas /\ ShardOK(s.shards[p][b], s.metas[p], b, t)
  BY <1>3, ShardOfSched DEF Steady, Settled
<1>5. Filled(s.shards[p][b], s.metas[p], b, t, pr)
  BY <1>2, <1>4, ViewOf
<1>6. view.flat \in Seq(Auths) /\ view.cursor \in 0..Len(view.flat)
  BY <1>5 DEF Filled
<1>7. DOMAIN view.flat # {}
  BY <1>3 DEF Serving, p
<1>8. i \in DOMAIN view.flat
  <2>1. PICK j \in DOMAIN view.flat : TRUE
    BY <1>7
  <2> HIDE DEF view
  <2>2. Len(view.flat) \in Nat /\ DOMAIN view.flat = 1..Len(view.flat)
    BY <1>6
  <2> QED BY <1>6, <2>1, <2>2, Nearer
<1> QED BY <1>2, <1>3, <1>8 DEF pr, at, p, view, i

\* What a turn does, where there is something to pick.
LEMMA TurnTakes ==
  ASSUME NEW s, NEW t \in Nat, SchedOK(s, t), NEW order \in Orders, NEW b \in Bases, Steady(s, order, b, t),
         AnyOpen(s, order, b, {})
  PROVE  LET pr == BestPriority(s, order, b, {})
             at == Rotate(Serving(s, order, b, pr), s.mixed[order][b], Len(order))
             view == s.shards[order[at]][b].ready[pr]
             i == Rotate(DOMAIN view.flat, view.cursor, Len(view.flat))
         IN  TurnAt(s, Turn(s, order, b), order, b, pr, at, i)
<1> DEFINE pr == BestPriority(s, order, b, {})
           at == Rotate(Serving(s, order, b, pr), s.mixed[order][b], Len(order))
           p == order[at]
           view == s.shards[p][b].ready[pr]
           i == Rotate(DOMAIN view.flat, view.cursor, Len(view.flat))
           sh == SetShard(s, p, b, Turned(s.shards[p][b], pr, i))
           r == Turn(s, order, b)
<1>1. /\ pr \in Priorities /\ at \in DOMAIN order /\ p \in Providers /\ p \in Range(order)
      /\ i \in DOMAIN view.flat
  BY TurnServes
<1>2. DOMAIN order \subseteq Nat
  <2>1. order \in Seq(Providers)
    BY SchedulerAssumption DEF SchedulerAssumption
  <2> QED BY <2>1
<1>3. {k \in DOMAIN order : Open(s.shards[order[k]][b].ready[pr], {}) # {}} = Serving(s, order, b, pr)
  BY OpenAll DEF Serving
<1>4. PickReady(s, p, b, pr, {}, FALSE) = [sched |-> sh, auth |-> view.flat[i]]
  BY OpenAll DEF PickReady, Take
<1>5. PickEnsured(s, order, s.mixed[order][b], b, {}, FALSE) = [sched |-> sh, auth |-> view.flat[i], at |-> at]
  <2>1. PickBestOf(s, order, s.mixed[order][b], b, pr, {}, FALSE) = [sched |-> sh, auth |-> view.flat[i], at |-> at]
    <3> DEFINE k == Take(FALSE, {j \in DOMAIN order : Open(s.shards[order[j]][b].ready[pr], {}) # {}},
                         s.mixed[order][b], Len(order))
    <3>1. k = at
      BY <1>3 DEF Take
    <3> HIDE DEF sh, i, at, pr
    <3> DEFINE q == PickReady(s, order[k], b, pr, {}, FALSE)
               best == PickBestOf(s, order, s.mixed[order][b], b, pr, {}, FALSE)
    <3>2. best = [sched |-> q.sched, auth |-> q.auth, at |-> k]
      BY DEF PickBestOf
    <3>3. q = [sched |-> sh, auth |-> view.flat[i]]
      <4> HIDE DEF k, view
      <4> QED BY <1>4, <3>1
    <3> HIDE DEF k, q, best, view
    <3>4. best = [sched |-> sh, auth |-> view.flat[i], at |-> at]
      BY <3>1, <3>2, <3>3
    <3> QED BY <3>4 DEF best
  <2> QED BY <2>1 DEF PickEnsured
<1> HIDE DEF pr, at, p, i
<1>6. s.shards[p][b].built /\ s.metas[p] \in Metas /\ ShardOK(s.shards[p][b], s.metas[p], b, t)
  BY <1>1, ShardOfSched DEF Steady, Settled
<1>7. Filled(s.shards[p][b], s.metas[p], b, t, pr)
  BY <1>1, <1>6, ViewOf
<1>8. /\ view.flat \in Seq(Auths) /\ Len(view.flat) \in Nat /\ DOMAIN view.flat = 1..Len(view.flat)
      /\ view.cursor \in 0..Len(view.flat) /\ \A k \in DOMAIN view.flat : view.flat[k] \in Auths
  <2>1. view.flat \in Seq(Auths) /\ view.cursor \in 0..Len(view.flat)
    BY <1>7 DEF Filled
  <2> HIDE DEF view
  <2> QED BY <2>1
<1>9. view.flat[i] # None
  BY <1>1, <1>8, NoneIsNoAuth
<1>10. i \in Nat /\ i <= Len(s.shards[p][b].ready[pr].flat)
  <2>1. i \in Nat /\ i <= Len(view.flat)
    <3> HIDE DEF i, view
    <3> QED BY <1>1, <1>8
  <2> QED BY <2>1
<1>11. SameButShards(s, sh, t)
  <2>1. ShardOK(Turned(s.shards[p][b], pr, i), s.metas[p], b, t)
    BY <1>1, <1>6, <1>10, TurnedKeeps
  <2> QED BY <1>1, <2>1, SetShardKeeps
<1>12. \A q \in Providers, c \in Bases :
         sh.shards[q][c] = IF q = p /\ c = b THEN Turned(s.shards[q][c], pr, i) ELSE s.shards[q][c]
  <2>1. s \in Sched
    BY DEF SchedOK
  <2>2. s.shards \in [Providers -> [Bases -> Shard]]
    BY <2>1, SchedTyped
  <2> DEFINE row == [s.shards[p] EXCEPT ![b] = Turned(s.shards[p][b], pr, i)]
             new == [s.shards EXCEPT ![p] = row]
  <2>3. sh = [s EXCEPT !.shards = new]
    BY DEF SetShard
  <2>4. "shards" \in DOMAIN s
    BY <2>1 DEF Sched
  <2>5. sh.shards = new
    <3> HIDE DEF new, sh
    <3> QED BY <2>3, <2>4
  <2>6. \A q \in Providers : new[q] = IF q = p THEN row ELSE s.shards[q]
    BY <2>2
  <2>7. \A c \in Bases : row[c] = IF c = b THEN Turned(s.shards[p][b], pr, i) ELSE s.shards[p][c]
    BY <1>1, <2>2
  <2> HIDE DEF sh, new, row
  <2> QED BY <2>5, <2>6, <2>7
<1> HIDE DEF sh
<1>13. r = [sched |-> SetMixed(sh, order, b, at), auth |-> view.flat[i], at |-> at]
  <2> DEFINE pick == [sched |-> sh, auth |-> view.flat[i], at |-> at]
  <2>1. r = Advance(pick, order, b, FALSE)
    BY <1>5 DEF Turn
  <2> HIDE DEF r, view
  <2> QED BY <1>9, <2>1 DEF Advance
<1> HIDE DEF r
<1>14. SetMixed(sh, order, b, at).mixed[order][b] = at /\ SetMixed(sh, order, b, at).shards = sh.shards
  <2>1. sh \in Sched
    BY <1>11 DEF SameButShards, SchedOK
  <2>2. sh.mixed \in [Orders -> [Bases -> Nat]]
    BY <2>1, SchedTyped
  <2> DEFINE row == [sh.mixed[order] EXCEPT ![b] = at]
             m == [sh.mixed EXCEPT ![order] = row]
  <2>3. SetMixed(sh, order, b, at) = [sh EXCEPT !.mixed = m]
    BY DEF SetMixed
  <2>4. at \in Nat
    BY <1>1, <1>2
  <2>5. row \in [Bases -> Nat] /\ row[b] = at
    BY <2>2, <2>4
  <2> HIDE DEF row
  <2>6. m \in [Orders -> [Bases -> Nat]] /\ m[order] = row
    BY <2>2, <2>5
  <2> HIDE DEF m
  <2> QED BY <2>1, <2>3, <2>5, <2>6, WithMixed
<1>15. TurnAt(s, r, order, b, pr, at, i)
  BY <1>12, <1>13, <1>14 DEF TurnAt, view, p
<1> QED BY <1>15 DEF pr, at, p, i, view, r

\* Two schedulers that differ, at a list's shards, in cursors only.
SameBuckets(s, r, order, b) ==
  \A p \in Range(order) :
    /\ r.shards[p][b].built = s.shards[p][b].built
    /\ r.shards[p][b].entries = s.shards[p][b].entries
    /\ r.shards[p][b].blocked = s.shards[p][b].blocked
    /\ \A pr \in Priorities : r.shards[p][b].ready[pr].flat = s.shards[p][b].ready[pr].flat

\* They have the same best priority, and serve it at the same positions.
LEMMA SameBest ==
  ASSUME NEW s, NEW r, NEW order \in Orders, NEW b, SameBuckets(s, r, order, b)
  PROVE  /\ AnyOpen(r, order, b, {}) <=> AnyOpen(s, order, b, {})
         /\ BestPriority(r, order, b, {}) = BestPriority(s, order, b, {})
         /\ \A pr \in Priorities : Serving(r, order, b, pr) = Serving(s, order, b, pr)
         /\ \A t : Steady(s, order, b, t) => Steady(r, order, b, t)
<1>1. \A p \in Range(order), pr \in Priorities :
        Open(r.shards[p][b].ready[pr], {}) = Open(s.shards[p][b].ready[pr], {})
  BY OpenAll DEF SameBuckets
<1>2. AnyOpen(r, order, b, {}) <=> AnyOpen(s, order, b, {})
  BY <1>1 DEF AnyOpen
<1>3. BestPriority(r, order, b, {}) = BestPriority(s, order, b, {})
  <2> DEFINE R == {pr \in Priorities : \E p \in Range(order) : Open(r.shards[p][b].ready[pr], {}) # {}}
             S == {pr \in Priorities : \E p \in Range(order) : Open(s.shards[p][b].ready[pr], {}) # {}}
  <2>1. R = S
    BY <1>1
  <2>2. BestPriority(r, order, b, {}) = Max(R) /\ BestPriority(s, order, b, {}) = Max(S)
    BY DEF BestPriority
  <2> QED BY <2>1, <2>2
<1>4. \A pr \in Priorities : Serving(r, order, b, pr) = Serving(s, order, b, pr)
  <2>1. order \in Seq(Providers)
    BY SchedulerAssumption DEF SchedulerAssumption
  <2>2. \A k \in DOMAIN order : order[k] \in Range(order)
    BY <2>1, RangeOf
  <2> QED BY <2>2 DEF Serving, SameBuckets
<1>5. \A t : Steady(s, order, b, t) => Steady(r, order, b, t)
  BY DEF Steady, Settled, SameBuckets
<1> QED BY <1>2, <1>3, <1>4, <1>5

\* Buckets stay the same from turn to turn.
LEMMA SameBucketsOn ==
  ASSUME NEW s, NEW r, NEW u, NEW order, NEW b, SameBuckets(s, r, order, b), SameBuckets(r, u, order, b)
  PROVE  SameBuckets(s, u, order, b)
BY DEF SameBuckets

\* A cursor that moves leaves the rest of its shard alone.
LEMMA TurnedAlone ==
  ASSUME NEW shard \in Shard, NEW pr \in Priorities, NEW i
  PROVE  LET r == Turned(shard, pr, i)
         IN  /\ r.built = shard.built /\ r.entries = shard.entries /\ r.blocked = shard.blocked
             /\ \A q \in Priorities : /\ r.ready[q].flat = shard.ready[q].flat
                                      /\ r.ready[q].cursor = IF q = pr THEN i ELSE shard.ready[q].cursor
<1> DEFINE v == [flat |-> shard.ready[pr].flat, cursor |-> i]
           rd == [shard.ready EXCEPT ![pr] = v]
           r == Turned(shard, pr, i)
           E == [Auths -> Entry]
           V == [Priorities -> View]
           B == SUBSET Auths
<1>1. shard \in [built : BOOLEAN, entries : E, ready : V, blocked : B]
  BY DEF Shard
<1>2. r = [shard EXCEPT !.ready = rd]
  BY DEF Turned
<1>3. shard.ready \in V
  <2> HIDE DEF E, V, B
  <2> QED BY <1>1
<1>4. \A q \in Priorities : rd[q] = IF q = pr THEN v ELSE shard.ready[q]
  BY <1>3
<1>5. \A q \in Priorities : /\ rd[q].flat = shard.ready[q].flat
                            /\ rd[q].cursor = IF q = pr THEN i ELSE shard.ready[q].cursor
  <2> HIDE DEF rd
  <2> QED BY <1>4
<1> HIDE DEF r, rd, E, V, B
<1>6. r.built = shard.built /\ r.entries = shard.entries /\ r.blocked = shard.blocked /\ r.ready = rd
  BY <1>1, <1>2
<1> QED BY <1>5, <1>6 DEF r

\* A turn keeps everything but a cursor of one bucket and the list's cursor.
LEMMA TurnKeeps ==
  ASSUME NEW s, NEW t \in Nat, SchedOK(s, t), AtHome(s), NEW order \in Orders, NEW b \in Bases,
         Steady(s, order, b, t), AnyOpen(s, order, b, {})
  PROVE  LET r == Turn(s, order, b)
         IN  /\ SameMetas(s, r.sched, t) /\ Steady(r.sched, order, b, t)
             /\ SameBuckets(s, r.sched, order, b)
             /\ r.auth \in Auths /\ MayPick(s, order, b, t, {}, r.auth)
             /\ MetaOf(s, r.auth).priority = BestPriority(s, order, b, {})
<1> DEFINE r == Turn(s, order, b)
           pick == PickMixed(s, order, b, {}, None, FALSE, t)
           pr == BestPriority(s, order, b, {})
           at == Rotate(Serving(s, order, b, pr), s.mixed[order][b], Len(order))
           p == order[at]
           view == s.shards[p][b].ready[pr]
           i == Rotate(DOMAIN view.flat, view.cursor, Len(view.flat))
<1>1. pick = r
  <2> DEFINE e == Ensure(s, Range(order), b, t)
  <2>1. order \in Seq(Providers)
    BY SchedulerAssumption DEF SchedulerAssumption
  <2>2. pick = Turn(e, order, b)
    BY PickIsTurn
  <2>3. e = s
    BY <2>1, EnsureSettles
  <2> HIDE DEF e, pick
  <2> QED BY <2>2, <2>3
<1>2. Picks(s, pick, order, b, t, TriedBy({}, None))
  BY PickMixedKeeps
<1>3. TriedBy({}, None) = {}
  BY DEF TriedBy
<1>4. pr \in Priorities /\ p \in Providers /\ p \in Range(order) /\ i \in DOMAIN view.flat
  BY TurnServes
<1>5. TurnAt(s, r, order, b, pr, at, i)
  BY TurnTakes
<1> HIDE DEF pick, r, pr, at, i
<1>6. SameMetas(s, r.sched, t) /\ PickedWell(s, order, b, t, {}, r.auth)
  BY <1>1, <1>2, <1>3 DEF Picks
<1>7. SameBuckets(s, r.sched, order, b)
  <2>1. ASSUME NEW q \in Range(order)
        PROVE  /\ r.sched.shards[q][b].built = s.shards[q][b].built
               /\ r.sched.shards[q][b].entries = s.shards[q][b].entries
               /\ r.sched.shards[q][b].blocked = s.shards[q][b].blocked
               /\ \A c \in Priorities : r.sched.shards[q][b].ready[c].flat = s.shards[q][b].ready[c].flat
    <3>1. q \in Providers
      <4>1. order \in Seq(Providers)
        BY SchedulerAssumption DEF SchedulerAssumption
      <4> QED BY <4>1, RangeOf
    <3>2. s.shards[q][b] \in Shard
      BY <3>1, ShardOfSched
    <3>3. r.sched.shards[q][b] = IF q = p THEN Turned(s.shards[q][b], pr, i) ELSE s.shards[q][b]
      BY <1>5, <3>1 DEF TurnAt
    <3>4. CASE q = p
      <4> DEFINE shard == s.shards[q][b]
                 new == Turned(shard, pr, i)
      <4>1. /\ new.built = shard.built /\ new.entries = shard.entries /\ new.blocked = shard.blocked
            /\ \A c \in Priorities : new.ready[c].flat = shard.ready[c].flat
        BY <1>4, <3>2, TurnedAlone
      <4> HIDE DEF new
      <4>2. r.sched.shards[q][b] = new
        BY <3>3, <3>4 DEF new
      <4> QED BY <4>1, <4>2
    <3>5. CASE q # p
      BY <3>3, <3>5
    <3> QED BY <3>4, <3>5
  <2> QED BY <2>1 DEF SameBuckets
<1>8. Steady(r.sched, order, b, t)
  BY <1>7, SameBest
<1>9. /\ r.auth \in Auths /\ s.metas[p][r.auth].priority = pr
       /\ Free(s.metas[p][r.auth], b, t)
  <2>1. s.shards[p][b].built /\ s.metas[p] \in Metas /\ ShardOK(s.shards[p][b], s.metas[p], b, t)
    BY <1>4, ShardOfSched DEF Steady, Settled
  <2>2. Filled(s.shards[p][b], s.metas[p], b, t, pr)
    BY <1>4, <2>1, ViewOf
  <2>3. /\ view.flat[i] \in Auths /\ Free(s.metas[p][view.flat[i]], b, t)
        /\ s.metas[p][view.flat[i]].priority = pr
    BY <1>4, <2>2 DEF Filled
  <2>4. r.auth = view.flat[i]
    BY <1>5 DEF TurnAt
  <2> QED BY <2>3, <2>4
<1>10. MayPick(s, order, b, t, {}, r.auth)
  BY <1>6, <1>9, NoneIsNoAuth DEF PickedWell
<1>11. MetaOf(s, r.auth).priority = pr
  <2>1. s.home[r.auth] = p
    BY <1>4, <1>9 DEF Free, Supports, AtHome
  <2> QED BY <1>9, <2>1 DEF MetaOf
<1> QED BY <1>6, <1>7, <1>8, <1>9, <1>10, <1>11 DEF r, pr

\* How many turns at most come before that of the credential at position j of the bucket pr
\* of the provider at position k: the bucket's cursor first, then the list's.
Distance(s, order, b, pr, k, j) ==
  LET view == s.shards[order[k]][b].ready[pr]
  IN  Before(j, view.cursor, Len(view.flat)) * Len(order) + Before(k, s.mixed[order][b], Len(order))

\* What a position of a bucket that is served is.
LEMMA PositionOf ==
  ASSUME NEW s, NEW t \in Nat, SchedOK(s, t), NEW order \in Orders, NEW b \in Bases, Steady(s, order, b, t),
         NEW pr \in Priorities, NEW k \in DOMAIN order, NEW p, p = order[k],
         NEW view, view = s.shards[p][b].ready[pr]
  PROVE  /\ k \in 1..Len(order) /\ Len(order) \in Nat /\ DOMAIN order = 1..Len(order)
         /\ p \in Providers /\ p \in Range(order)
         /\ s.mixed[order][b] \in 0..Len(order)
         /\ Len(view.flat) \in Nat /\ DOMAIN view.flat = 1..Len(view.flat)
         /\ view.cursor \in 0..Len(view.flat)
         /\ \A j \in DOMAIN view.flat : view.flat[j] \in Auths /\ s.metas[p][view.flat[j]].priority = pr
<1>1. order \in Seq(Providers)
  BY SchedulerAssumption DEF SchedulerAssumption
<1>2. Len(order) \in Nat /\ DOMAIN order = 1..Len(order) /\ p \in Providers /\ p \in Range(order)
  BY <1>1, RangeOf
<1>3. s.mixed[order][b] \in 0..Len(order)
  BY DEF SchedOK
<1>4. s.shards[p][b].built /\ s.metas[p] \in Metas /\ ShardOK(s.shards[p][b], s.metas[p], b, t)
  BY <1>2, ShardOfSched DEF Steady, Settled
<1>5. Filled(s.shards[p][b], s.metas[p], b, t, pr)
  BY <1>4, ViewOf
<1>6. /\ view.flat \in Seq(Auths) /\ view.cursor \in 0..Len(view.flat)
      /\ \A j \in DOMAIN view.flat : view.flat[j] \in Auths /\ s.metas[p][view.flat[j]].priority = pr
  BY <1>5 DEF Filled
<1>7. Len(view.flat) \in Nat /\ DOMAIN view.flat = 1..Len(view.flat)
  <2> DEFINE flat == view.flat
  <2>1. flat \in Seq(Auths)
    BY <1>6
  <2> HIDE DEF flat
  <2>2. Len(flat) \in Nat /\ DOMAIN flat = 1..Len(flat)
    BY <2>1
  <2> QED BY <2>2 DEF flat
<1> QED BY <1>2, <1>3, <1>6, <1>7

\* A turn serves a credential of the best buckets, or brings it nearer.
LEMMA TurnNearer ==
  ASSUME NEW s, NEW t \in Nat, SchedOK(s, t), NEW order \in Orders, NEW b \in Bases, Steady(s, order, b, t),
         AnyOpen(s, order, b, {}), NEW pr, pr = BestPriority(s, order, b, {}),
         NEW k \in DOMAIN order, NEW j \in DOMAIN s.shards[order[k]][b].ready[pr].flat,
         NEW r, r = Turn(s, order, b)
  PROVE  \/ r.auth = s.shards[order[k]][b].ready[pr].flat[j]
         \/ Distance(r.sched, order, b, pr, k, j) < Distance(s, order, b, pr, k, j)
<1>1. PICK at : at = Rotate(Serving(s, order, b, pr), s.mixed[order][b], Len(order))
  OBVIOUS
<1>2. PICK view : view = s.shards[order[at]][b].ready[pr]
  OBVIOUS
<1>3. PICK i : i = Rotate(DOMAIN view.flat, view.cursor, Len(view.flat))
  OBVIOUS
<1>4. PICK mine : mine = s.shards[order[k]][b].ready[pr]
  OBVIOUS
<1>5. pr \in Priorities /\ at \in DOMAIN order /\ order[at] \in Providers /\ i \in DOMAIN view.flat
  BY <1>1, <1>2, <1>3, TurnServes
<1>6. TurnAt(s, r, order, b, pr, at, i)
  BY <1>1, <1>2, <1>3, TurnTakes
<1> DEFINE p == order[k]
           next == r.sched.shards[p][b].ready[pr]
           len == Len(order)
           most == Len(mine.flat)
           c == Before(j, mine.cursor, most)
           d == Before(j, next.cursor, most)
           x == Before(k, s.mixed[order][b], len)
           y == Before(k, at, len)
<1>7. /\ k \in 1..len /\ len \in Nat /\ DOMAIN order = 1..len
      /\ p \in Providers /\ s.mixed[order][b] \in 0..len
      /\ most \in Nat /\ DOMAIN mine.flat = 1..most /\ mine.cursor \in 0..most
  BY <1>4, <1>5, PositionOf
<1>8. s.shards[p][b] \in Shard
  BY <1>7, ShardOfSched
<1>9. r.sched.shards[p][b] = IF p = order[at] THEN Turned(s.shards[p][b], pr, i) ELSE s.shards[p][b]
  BY <1>6, <1>7 DEF TurnAt
<1>10. next.flat = mine.flat /\ next.cursor = IF p = order[at] THEN i ELSE mine.cursor
  <2>1. CASE p = order[at]
    <3> DEFINE new == Turned(s.shards[p][b], pr, i)
    <3>1. new.ready[pr].flat = s.shards[p][b].ready[pr].flat /\ new.ready[pr].cursor = i
      BY <1>5, <1>8, TurnedAlone
    <3> HIDE DEF new
    <3>2. r.sched.shards[p][b] = new
      BY <1>9, <2>1 DEF new
    <3> QED BY <1>4, <2>1, <3>1, <3>2
  <2>2. CASE p # order[at]
    BY <1>4, <1>9, <2>2
  <2> QED BY <2>1, <2>2
<1>11. Distance(s, order, b, pr, k, j) = c * len + x
  BY <1>4 DEF Distance
<1>12. Distance(r.sched, order, b, pr, k, j) = d * len + y
  BY <1>6, <1>10 DEF Distance, TurnAt
<1>13. j \in DOMAIN mine.flat
  BY <1>4
<1>14. r.auth = view.flat[i]
  BY <1>2, <1>6 DEF TurnAt
<1> HIDE DEF most, len
<1>15. c \in Nat /\ x \in Nat /\ y \in 0..(len - 1) /\ at \in 0..len
  <2>1. at \in 0..len
    BY <1>5, <1>7
  <2>2. j \in 1..most
    BY <1>7, <1>13
  <2>3. c \in Nat
    BY <1>7, <2>2, BeforeOf
  <2>4. x \in Nat
    BY <1>7, BeforeOf
  <2>5. y \in 0..(len - 1)
    BY <1>7, <2>1, BeforeOf
  <2> QED BY <2>1, <2>3, <2>4, <2>5
<1>16. CASE p = order[at]
  <2>1. mine = view
    BY <1>4, <1>2, <1>16
  <2>2. CASE i = j
    BY <1>4, <1>14, <2>1, <2>2
  <2>3. CASE i # j
    <3>1. Before(j, i, most) < Before(j, mine.cursor, most)
      <4>1. i = Rotate(DOMAIN mine.flat, mine.cursor, most)
        BY <1>3, <2>1 DEF most
      <4> QED BY <1>7, <1>13, <2>3, <4>1, Nearer
    <3>2. d < c
      BY <1>10, <1>16, <3>1
    <3>3. d \in Nat
      <4>1. i \in 1..most /\ j \in 1..most /\ i \in 0..most
        BY <1>5, <1>7, <1>13, <2>1
      <4>2. Before(j, i, most) \in Nat
        BY <1>7, <4>1, BeforeOf
      <4> QED BY <1>10, <1>16, <4>2
    <3> HIDE DEF c, d, x, y
    <3>4. d * len + y < c * len + x
      BY <1>7, <1>15, <3>2, <3>3, Lexicographic
    <3> QED BY <1>11, <1>12, <3>4
  <2> QED BY <2>2, <2>3
<1>17. CASE p # order[at]
  <2>1. d = c
    BY <1>10, <1>17
  <2>2. y < x
    <3>1. k \in Serving(s, order, b, pr) /\ Serving(s, order, b, pr) \subseteq 1..len
      BY <1>4, <1>7, <1>13 DEF Serving
    <3>2. at = Rotate(Serving(s, order, b, pr), s.mixed[order][b], len) /\ at # k
      BY <1>1, <1>17 DEF len
    <3> QED BY <1>7, <3>1, <3>2, Nearer
  <2> HIDE DEF c, d, x, y
  <2>3. d * len + y < c * len + x
    <3>1. c * len \in Nat
      BY <1>7, <1>15
    <3> QED BY <1>15, <2>1, <2>2, <3>1
  <2> QED BY <1>11, <1>12, <2>3
<1> QED BY <1>16, <1>17

\* A list of a set's elements in their order is as long as the set is large.
LEMMA LengthOf ==
  ASSUME NEW S, S \subseteq Auths
  PROVE  Len(InOrder(S)) \in Nat /\ Len(InOrder(S)) <= Cardinality(Auths)
<1>1. IsFiniteSet(S) /\ S \subseteq Nat /\ IsFiniteSet(Auths)
  BY AuthsFinite
<1> DEFINE s == InOrder(S)
           n == Cardinality(S)
<1>2. s \in [1..n -> S]
  <2>1. \E r \in [1..n -> S] : \A i, j \in 1..n : i < j => r[i] < r[j]
    BY <1>1, Listed DEF Lists
  <2> QED BY <2>1 DEF InOrder
<1>3. n \in Nat /\ n <= Cardinality(Auths)
  BY <1>1, FS_Subset, FS_CardinalityType
<1> HIDE DEF s, n
<1>4. Len(s) = n
  BY <1>2, <1>3
<1> QED BY <1>3, <1>4 DEF s

\* No credential of a bucket is further away than the round is long.
LEMMA DistanceOf ==
  ASSUME NEW s, NEW t \in Nat, SchedOK(s, t), NEW order \in Orders, NEW b \in Bases, Steady(s, order, b, t),
         NEW pr \in Priorities, NEW k \in DOMAIN order,
         NEW j \in DOMAIN s.shards[order[k]][b].ready[pr].flat
  PROVE  /\ Distance(s, order, b, pr, k, j) \in Nat
         /\ Distance(s, order, b, pr, k, j) < Len(order) * Cardinality(Auths)
<1>1. PICK p : p = order[k]
  OBVIOUS
<1>2. PICK view : view = s.shards[p][b].ready[pr]
  OBVIOUS
<1> DEFINE len == Len(order)
           most == Len(view.flat)
           n == Cardinality(Auths)
           c == Before(j, view.cursor, most)
           x == Before(k, s.mixed[order][b], len)
<1>3. /\ k \in 1..len /\ len \in Nat
      /\ p \in Providers /\ p \in Range(order) /\ s.mixed[order][b] \in 0..len
      /\ most \in Nat /\ DOMAIN view.flat = 1..most /\ view.cursor \in 0..most
  BY <1>1, <1>2, PositionOf
<1>4. most <= n /\ n \in Nat
  <2>1. ShardOK(s.shards[p][b], s.metas[p], b, t) /\ s.shards[p][b].built
    BY <1>3, ShardOfSched DEF Steady, Settled
  <2> DEFINE R == ReadyAt(s.shards[p][b].entries, s.metas[p], pr)
  <2>2. view.flat = InOrder(R)
    BY <1>2, <2>1 DEF ShardOK
  <2>3. R \subseteq Auths
    BY DEF ReadyAt
  <2> HIDE DEF R
  <2>4. Len(InOrder(R)) <= n
    BY <2>3, LengthOf
  <2>5. n \in Nat
    BY AuthsFinite, FS_CardinalityType
  <2> QED BY <2>2, <2>4, <2>5
<1>5. j \in 1..most
  BY <1>1, <1>2, <1>3
<1>6. c \in 0..(most - 1)
  BY <1>3, <1>5, BeforeOf
<1>7. x \in 0..(len - 1)
  BY <1>3, BeforeOf
<1>8. Distance(s, order, b, pr, k, j) = c * len + x
  BY <1>1, <1>2 DEF Distance
<1> HIDE DEF c, x, len, most, n
<1>9. c \in 0..(n - 1)
  BY <1>3, <1>4, <1>6
<1>10. c * len + x \in Nat /\ c * len + x < len * n
  BY <1>3, <1>4, <1>7, <1>9, Farthest
<1> QED BY <1>8, <1>10 DEF len, n

\* One more pick of a round, and f: the round after each of its first m picks.
Following(x, order, n) ==
  [sched  |-> PickNext(x.sched, auths, offers, order, n, {}, None, FALSE, now).sched,
   served |-> x.served \union {PickNext(x.sched, auths, offers, order, n, {}, None, FALSE, now).auth}]
RunTo(f, order, n, m) ==
  f = [k \in 0..m |-> IF k = 0 THEN [sched |-> sched, served |-> {}] ELSE Following(f[k - 1], order, n)]

\* A round of any length is defined.
LEMMA RunsExist ==
  ASSUME NEW order, NEW n
  PROVE  \A m \in Nat : \E f : RunTo(f, order, n, m)
<1> DEFINE start == [sched |-> sched, served |-> {}]
           T == {m \in Nat : \E f : RunTo(f, order, n, m)}
<1>1. 0 \in T
  <2> DEFINE f == [k \in 0..0 |-> start]
  <2>1. \A k \in 0..0 : k = 0
    OBVIOUS
  <2>2. RunTo(f, order, n, 0)
    BY <2>1 DEF RunTo
  <2> HIDE DEF f
  <2> QED BY <2>2
<1>2. ASSUME NEW m \in Nat, m \in T PROVE m + 1 \in T
  <2>1. PICK f : RunTo(f, order, n, m)
    BY <1>2
  <2> DEFINE g == [k \in 0..(m + 1) |-> IF k = m + 1 THEN Following(f[m], order, n) ELSE f[k]]
             next(k) == IF k = 0 THEN start ELSE Following(g[k - 1], order, n)
  <2>2. ASSUME NEW k \in 0..(m + 1) PROVE g[k] = next(k)
    <3>1. CASE k = m + 1
      <4>1. k - 1 = m /\ k - 1 \in 0..(m + 1) /\ k # 0 /\ k - 1 # m + 1
        BY <3>1
      <4>2. g[k] = Following(f[m], order, n) /\ g[k - 1] = f[m]
        BY <3>1, <4>1
      <4> HIDE DEF g
      <4> QED BY <4>1, <4>2
    <3>2. CASE k # m + 1
      <4>1. k \in 0..m /\ g[k] = f[k] /\ (k # 0 => k - 1 \in 0..(m + 1) /\ g[k - 1] = f[k - 1])
        BY <3>2
      <4> HIDE DEF g
      <4>2. f[k] = IF k = 0 THEN start ELSE Following(f[k - 1], order, n)
        BY <2>1, <4>1 DEF RunTo
      <4> HIDE DEF start
      <4> QED BY <4>1, <4>2
    <3> QED BY <3>1, <3>2
  <2>3. g = [k \in 0..(m + 1) |-> g[k]]
    OBVIOUS
  <2> HIDE DEF g
  <2>4. g = [k \in 0..(m + 1) |-> next(k)]
    <3> HIDE DEF next
    <3> QED BY <2>2, <2>3
  <2>5. RunTo(g, order, n, m + 1)
    BY <2>4 DEF RunTo
  <2> QED BY <2>5
<1>3. Nat \subseteq T
  <2> HIDE DEF T
  <2> QED BY <1>1, <1>2, ClosedSet
<1> QED BY <1>3

\* Round is such a run's last served set.
LEMMA RoundIsRun ==
  ASSUME NEW order \in Orders, NEW n
  PROVE  \E f : RunTo(f, order, n, Len(order) * Cardinality(Auths))
                /\ Round(order, n) = f[Len(order) * Cardinality(Auths)].served
<1> DEFINE last == Len(order) * Cardinality(Auths)
           f == CHOOSE f : RunTo(f, order, n, last)
<1>1. last \in Nat
  <2>1. order \in Seq(Providers)
    BY SchedulerAssumption DEF SchedulerAssumption
  <2>2. Len(order) \in Nat
    BY <2>1
  <2>3. Cardinality(Auths) \in Nat
    BY AuthsFinite, FS_CardinalityType
  <2> QED BY <2>2, <2>3
<1>2. RunTo(f, order, n, last)
  <2> HIDE DEF last
  <2> QED BY <1>1, RunsExist
<1>3. Round(order, n) = f[last].served
  BY DEF Round, RunTo, Following
<1> HIDE DEF f
<1> QED BY <1>2, <1>3

\* A round after k picks, from e, the scheduler that the first of them ensured: the next pick
\* is a turn of g, and each credential of the best buckets is served or k turns nearer.
Running(e, g, order, n, pr, x, k) ==
  /\ SchedOK(g, now) /\ AtHome(g) /\ Tracks(g, auths)
  /\ Steady(g, order, n, now) /\ SameBuckets(e, g, order, n)
  /\ PickNext(x.sched, auths, offers, order, n, {}, None, FALSE, now) = Turn(g, order, n)
  /\ \A o \in x.served : auths[o].priority = pr
  /\ \A i \in DOMAIN order : \A j \in DOMAIN e.shards[order[i]][n].ready[pr].flat :
       \/ e.shards[order[i]][n].ready[pr].flat[j] \in x.served
       \/ Distance(g, order, n, pr, i, j) + k <= Distance(e, order, n, pr, i, j)

\* A scheduler whose shards are settled, and of which a bucket is open, answers with a turn.
LEMMA SteadyIsTurn ==
  ASSUME NEW s, NEW t \in Nat, SchedOK(s, t), AtHome(s), NEW order \in Orders, NEW n \in Bases,
         Steady(s, order, n, t), AnyOpen(s, order, n, {})
  PROVE  /\ PickMixed(s, order, Base[n], {}, None, FALSE, t) = Turn(s, order, n)
         /\ Turn(s, order, n).auth # None
<1> DEFINE e == Ensure(s, Range(order), n, t)
<1>1. Base[n] = n
  BY NamesAssumption DEF NamesAssumption, Bases
<1>2. PickMixed(s, order, n, {}, None, FALSE, t) = Turn(e, order, n)
  BY PickIsTurn
<1>3. e = s
  <2>1. order \in Seq(Providers)
    BY SchedulerAssumption DEF SchedulerAssumption
  <2> QED BY <2>1, EnsureSettles
<1>4. Turn(s, order, n).auth \in Auths
  BY TurnKeeps
<1> HIDE DEF e
<1> QED BY <1>1, <1>2, <1>3, <1>4, NoneIsNoAuth

\* The first pick of a round settles the shards.
LEMMA NextIsTurn ==
  ASSUME NEW s, NEW t \in Nat, SchedOK(s, t), AtHome(s), NEW order \in Orders, NEW n \in Bases
  PROVE  PickMixed(s, order, Base[n], {}, None, FALSE, t) = Turn(Ensure(s, Range(order), n, t), order, n)
<1>1. Base[n] = n
  BY NamesAssumption DEF NamesAssumption, Bases
<1> DEFINE e == Ensure(s, Range(order), n, t)
<1>2. PickMixed(s, order, n, {}, None, FALSE, t) = Turn(e, order, n)
  BY PickIsTurn
<1> HIDE DEF e
<1> QED BY <1>1, <1>2 DEF e

\* One more pick.
LEMMA RunningOn ==
  ASSUME SchedulerInv, NEW order \in Orders, NEW n \in Bases, NEW e, SchedOK(e, now),
         Steady(e, order, n, now), AnyOpen(e, order, n, {}),
         NEW pr, pr = BestPriority(e, order, n, {}), NEW g, NEW x, NEW k \in Nat, Running(e, g, order, n, pr, x, k)
  PROVE  Running(e, Turn(g, order, n).sched, order, n, pr, Following(x, order, n), k + 1)
<1>1. now \in Nat
  BY NowTyped
<1>2. /\ SchedOK(g, now) /\ AtHome(g) /\ Tracks(g, auths)
      /\ Steady(g, order, n, now) /\ SameBuckets(e, g, order, n)
      /\ PickNext(x.sched, auths, offers, order, n, {}, None, FALSE, now) = Turn(g, order, n)
      /\ \A o \in x.served : auths[o].priority = pr
  BY DEF Running
<1>3. /\ AnyOpen(g, order, n, {}) /\ BestPriority(g, order, n, {}) = pr
      /\ Serving(g, order, n, pr) # {} /\ pr \in Priorities
  <2>1. AnyOpen(g, order, n, {}) /\ BestPriority(g, order, n, {}) = pr
    BY <1>2, SameBest
  <2> QED BY <2>1, BestServed
<1>4. PICK r : r = Turn(g, order, n)
  OBVIOUS
<1>5. /\ SameMetas(g, r.sched, now) /\ Steady(r.sched, order, n, now)
      /\ SameBuckets(g, r.sched, order, n)
      /\ r.auth \in Auths /\ MayPick(g, order, n, now, {}, r.auth)
      /\ MetaOf(g, r.auth).priority = pr
  BY <1>1, <1>2, <1>3, <1>4, TurnKeeps
<1>6. SchedOK(r.sched, now) /\ AtHome(r.sched) /\ Tracks(r.sched, auths)
  BY <1>2, <1>5, SameMetasTrack
<1>7. SameBuckets(e, r.sched, order, n)
  BY <1>2, <1>5, SameBucketsOn
<1>8. PickNext(r.sched, auths, offers, order, n, {}, None, FALSE, now) = Turn(r.sched, order, n)
  <2>1. AnyOpen(r.sched, order, n, {})
    BY <1>3, <1>5, SameBest
  <2>2. PICK v : v = r.sched
    OBVIOUS
  <2>3. SchedOK(v, now) /\ AtHome(v) /\ Steady(v, order, n, now) /\ AnyOpen(v, order, n, {})
    BY <1>5, <1>6, <2>1, <2>2
  <2>4. PickNext(v, auths, offers, order, n, {}, None, FALSE, now) = Turn(v, order, n)
    <3>1. PickMixed(v, order, Base[n], {}, None, FALSE, now) = Turn(v, order, n) /\ Turn(v, order, n).auth # None
      BY <1>1, <2>3, SteadyIsTurn
    <3> QED BY <3>1 DEF PickNext
  <2> QED BY <2>2, <2>4
<1>9. auths[r.auth].priority = pr
  <2>1. g.home[r.auth] \in Range(order)
    BY <1>5 DEF MayPick
  <2>2. Scheduled(auths, r.auth)
    BY <1>2, <1>5, <2>1, AtItsProvider
  <2>3. MetaOf(g, r.auth).priority = auths[r.auth].priority
    BY <1>2, <1>5, <2>2, MetaTracked
  <2> QED BY <1>5, <2>3
<1> DEFINE y == Following(x, order, n)
           flat(i) == e.shards[order[i]][n].ready[pr].flat
<1>10. y.sched = r.sched /\ y.served = x.served \union {r.auth}
  BY <1>2, <1>4 DEF Following
<1> HIDE DEF y
<1>11. ASSUME NEW i \in DOMAIN order, NEW j \in DOMAIN flat(i), flat(i)[j] \notin y.served
       PROVE  Distance(r.sched, order, n, pr, i, j) + (k + 1) <= Distance(e, order, n, pr, i, j)
  <2>1. order[i] \in Range(order)
    <3>1. order \in Seq(Providers)
      BY SchedulerAssumption DEF SchedulerAssumption
    <3> QED BY <3>1, RangeOf
  <2>2. /\ g.shards[order[i]][n].ready[pr].flat = flat(i)
        /\ r.sched.shards[order[i]][n].ready[pr].flat = flat(i)
    BY <1>2, <1>3, <1>7, <2>1 DEF SameBuckets
  <2>3. flat(i)[j] \notin x.served /\ flat(i)[j] # r.auth
    BY <1>10, <1>11
  <2>4. Distance(g, order, n, pr, i, j) + k <= Distance(e, order, n, pr, i, j)
    BY <1>11, <2>3 DEF Running
  <2>5. j \in DOMAIN g.shards[order[i]][n].ready[pr].flat /\ j \in DOMAIN r.sched.shards[order[i]][n].ready[pr].flat
    BY <1>11, <2>2
  <2>6. Distance(r.sched, order, n, pr, i, j) < Distance(g, order, n, pr, i, j)
    BY <1>1, <1>2, <1>3, <1>4, <1>11, <2>2, <2>3, <2>5, TurnNearer
  <2>7. Distance(r.sched, order, n, pr, i, j) \in Nat
    BY <1>1, <1>3, <1>5, <1>6, <1>11, <2>5, DistanceOf
  <2>8. Distance(g, order, n, pr, i, j) \in Nat
    BY <1>1, <1>2, <1>3, <1>11, <2>5, DistanceOf
  <2>9. Distance(r.sched, order, n, pr, i, j) + 1 <= Distance(g, order, n, pr, i, j)
    BY <2>6, <2>7, <2>8
  <2>10. Distance(e, order, n, pr, i, j) \in Nat
    BY <1>1, <1>3, <1>11, DistanceOf
  <2> QED BY <2>4, <2>7, <2>8, <2>9, <2>10
<1> QED BY <1>2, <1>4, <1>5, <1>6, <1>7, <1>8, <1>9, <1>10, <1>11 DEF Running, y

\* So a round whose first pick is a turn of e serves all of e's best buckets, and only them.
LEMMA RoundReaches ==
  ASSUME SchedulerInv, NEW order \in Orders, NEW n \in Bases, NEW e, SchedOK(e, now), AtHome(e), Tracks(e, auths),
         Steady(e, order, n, now), AnyOpen(e, order, n, {}), NEW pr, pr = BestPriority(e, order, n, {}),
         PickNext(sched, auths, offers, order, n, {}, None, FALSE, now) = Turn(e, order, n)
  PROVE  /\ \A o \in Round(order, n) : auths[o].priority = pr
         /\ \A i \in DOMAIN order : \A j \in DOMAIN e.shards[order[i]][n].ready[pr].flat :
              e.shards[order[i]][n].ready[pr].flat[j] \in Round(order, n)
<1>1. now \in Nat /\ pr \in Priorities
  BY NowTyped, BestServed
<1>2. PICK m : m = Len(order) * Cardinality(Auths)
  OBVIOUS
<1>3. m \in Nat
  <2>1. order \in Seq(Providers)
    BY SchedulerAssumption DEF SchedulerAssumption
  <2>2. Len(order) \in Nat
    BY <2>1
  <2>3. Cardinality(Auths) \in Nat
    BY AuthsFinite, FS_CardinalityType
  <2> QED BY <1>2, <2>2, <2>3
<1>4. PICK f : RunTo(f, order, n, m) /\ Round(order, n) = f[m].served
  BY <1>2, RoundIsRun
<1> DEFINE flat(i) == e.shards[order[i]][n].ready[pr].flat
           T == {k \in Nat : k <= m => \E g : Running(e, g, order, n, pr, f[k], k)}
<1>5. 0 \in T
  <2>1. f[0].sched = sched /\ f[0].served = {}
    <3>1. 0 \in 0..m
      BY <1>3
    <3>2. f[0] = [sched |-> sched, served |-> {}]
      BY <1>4, <3>1 DEF RunTo
    <3> QED BY <3>2
  <2>2. ASSUME NEW i \in DOMAIN order, NEW j \in DOMAIN flat(i)
        PROVE  Distance(e, order, n, pr, i, j) + 0 <= Distance(e, order, n, pr, i, j)
    <3>1. Distance(e, order, n, pr, i, j) \in Nat
      BY <1>1, <2>2, DistanceOf
    <3> QED BY <3>1
  <2>3. SameBuckets(e, e, order, n)
    BY DEF SameBuckets
  <2>4. PICK x : x = f[0]
    OBVIOUS
  <2>5. PickNext(x.sched, auths, offers, order, n, {}, None, FALSE, now) = Turn(e, order, n)
    BY <2>1, <2>4
  <2>6. Running(e, e, order, n, pr, x, 0)
    BY <2>1, <2>2, <2>3, <2>4, <2>5 DEF Running
  <2> QED BY <2>4, <2>6
<1>6. ASSUME NEW k \in Nat, k \in T PROVE k + 1 \in T
  <2> SUFFICES ASSUME k + 1 <= m PROVE \E g : Running(e, g, order, n, pr, f[k + 1], k + 1)
    OBVIOUS
  <2>1. k <= m /\ k + 1 \in 0..m /\ k + 1 # 0 /\ (k + 1) - 1 = k
    BY <1>3
  <2>2. f[k + 1] = Following(f[k], order, n)
    BY <1>4, <2>1 DEF RunTo
  <2>3. PICK g : Running(e, g, order, n, pr, f[k], k)
    BY <1>6, <2>1
  <2>4. Running(e, Turn(g, order, n).sched, order, n, pr, Following(f[k], order, n), k + 1)
    BY <2>3, RunningOn
  <2> QED BY <2>2, <2>4
<1>7. m \in T
  <2> HIDE DEF T
  <2> QED BY <1>3, <1>5, <1>6, ClosedSet
<1>8. PICK g : Running(e, g, order, n, pr, f[m], m)
  BY <1>3, <1>7
<1>9. \A o \in Round(order, n) : auths[o].priority = pr
  BY <1>4, <1>8 DEF Running
<1>10. ASSUME NEW i \in DOMAIN order, NEW j \in DOMAIN flat(i) PROVE flat(i)[j] \in Round(order, n)
  <2>1. SUFFICES ASSUME flat(i)[j] \notin f[m].served PROVE FALSE
    BY <1>4
  <2>2. Distance(g, order, n, pr, i, j) + m <= Distance(e, order, n, pr, i, j)
    BY <1>8, <1>10, <2>1 DEF Running
  <2>3. Distance(e, order, n, pr, i, j) \in Nat /\ Distance(e, order, n, pr, i, j) < m
    BY <1>1, <1>2, <1>10, DistanceOf
  <2>4. Distance(g, order, n, pr, i, j) \in Nat
    <3>1. SchedOK(g, now) /\ Steady(g, order, n, now) /\ SameBuckets(e, g, order, n)
      BY <1>8 DEF Running
    <3>2. order[i] \in Range(order)
      <4>1. order \in Seq(Providers)
        BY SchedulerAssumption DEF SchedulerAssumption
      <4> QED BY <4>1, RangeOf
    <3>3. g.shards[order[i]][n].ready[pr].flat = flat(i)
      BY <1>1, <3>1, <3>2 DEF SameBuckets
    <3>4. j \in DOMAIN g.shards[order[i]][n].ready[pr].flat
      BY <1>10, <3>3
    <3> QED BY <1>1, <1>10, <3>1, <3>4, DistanceOf
  <2> QED BY <1>3, <2>2, <2>3, <2>4
<1> QED BY <1>9, <1>10

\* Round robin passes no credential of the best priority over.
LEMMA InvGivesRoundServesAll == SchedulerInv => RoundServesAll
<1> SUFFICES ASSUME SchedulerInv, NEW order \in Orders, NEW n \in Bases, NEW a \in Auths,
                    Usable(a, order, n, {}, None), n \in Known(a), auths[a].states[n].recoverAt <= now,
                    NEW peer \in Round(order, n), auths[peer].priority = auths[a].priority
             PROVE  a \in Round(order, n)
  <2>1. \A n \in Bases : Base[n] = n
    BY NamesAssumption DEF NamesAssumption, Bases
  <2> QED BY <2>1 DEF RoundServesAll
<1>1. now \in Nat /\ SchedOK(sched, now) /\ AtHome(sched) /\ Tracks(sched, auths)
  BY NowTyped DEF SchedulerInv
<1>2. order \in Seq(Providers)
  BY SchedulerAssumption DEF SchedulerAssumption
<1>3. PICK p : p = sched.home[a]
  OBVIOUS
<1>4. /\ Scheduled(auths, a) /\ p = auths[a].provider /\ p \in Range(order) /\ p \in Providers
      /\ MetaOf(sched, a).states = auths[a].states /\ MetaOf(sched, a).priority = auths[a].priority
  <2>1. Scheduled(auths, a) /\ auths[a].provider \in Range(order)
    BY DEF Usable
  <2>2. p = auths[a].provider
    BY <1>1, <1>3, <2>1 DEF Tracks
  <2> QED BY <1>1, <1>2, <2>1, <2>2, MetaTracked, RangeOf
<1>5. MustSee(sched, order, n, now, {}, a)
  <2>1. TriedBy({}, None) = {}
    BY DEF TriedBy
  <2>2. n \in MetaOf(sched, a).supported
    BY <1>3, <1>4 DEF Known, MetaOf
  <2>3. MayPick(sched, order, n, now, TriedBy({}, None), a)
    BY <1>1, <2>2, MayPickIsUsable
  <2> QED BY <1>4, <2>1, <2>3 DEF MustSee
<1>6. PICK e : e = Ensure(sched, Range(order), n, now)
  OBVIOUS
<1>7. SameButShards(sched, e, now) /\ e.shards[p][n].built /\ Ready(e, p, n, a)
  BY <1>1, <1>2, <1>3, <1>4, <1>5, <1>6, EnsuredBuilt
<1>8. SchedOK(e, now) /\ AtHome(e) /\ Tracks(e, auths)
  BY <1>1, <1>7, SameMetasTrack DEF SameButShards, SameMetas
<1>9. Steady(e, order, n, now)
  BY <1>1, <1>2, <1>6, EnsureSettles
<1>10. /\ auths[a].priority \in Priorities
       /\ Open(e.shards[p][n].ready[auths[a].priority], {}) # {}
  <2>1. e.metas[p][a].priority = auths[a].priority
    BY <1>3, <1>4, <1>7 DEF SameButShards, MetaOf
  <2> QED BY <1>4, <1>7, <1>8, <2>1, ReadyOpens
<1>11. AnyOpen(e, order, n, {})
  BY <1>4, <1>10 DEF AnyOpen
<1>12. PICK pr : pr = BestPriority(e, order, n, {})
  OBVIOUS
<1>13. PickNext(sched, auths, offers, order, n, {}, None, FALSE, now) = Turn(e, order, n)
  <2>1. PickMixed(sched, order, Base[n], {}, None, FALSE, now) = Turn(e, order, n)
    BY <1>1, <1>6, NextIsTurn
  <2>2. Turn(e, order, n).auth # None
    BY <1>1, <1>8, <1>9, <1>11, SteadyIsTurn
  <2> QED BY <2>1, <2>2 DEF PickNext
<1>14. /\ \A o \in Round(order, n) : auths[o].priority = pr
       /\ \A i \in DOMAIN order : \A j \in DOMAIN e.shards[order[i]][n].ready[pr].flat :
            e.shards[order[i]][n].ready[pr].flat[j] \in Round(order, n)
  BY <1>8, <1>9, <1>11, <1>12, <1>13, RoundReaches
<1>15. auths[a].priority = pr
  BY <1>14
<1>16. PICK i \in DOMAIN order : order[i] = p
  BY <1>2, <1>4, RangeOf
<1>17. PICK j \in DOMAIN e.shards[p][n].ready[pr].flat : e.shards[p][n].ready[pr].flat[j] = a
  <2>1. e.metas[p] \in Metas /\ ShardOK(e.shards[p][n], e.metas[p], n, now)
    BY <1>4, <1>8, ShardOfSched
  <2>2. Filled(e.shards[p][n], e.metas[p], n, now, pr)
    BY <1>7, <1>10, <1>15, <2>1, ViewOf
  <2>3. e.metas[p][a].priority = pr /\ e.shards[p][n].entries[a].state = "ready"
    BY <1>3, <1>4, <1>7, <1>15 DEF SameButShards, MetaOf, Ready
  <2> QED BY <2>2, <2>3 DEF Filled
<1> QED BY <1>14, <1>16, <1>17

-----------------------------------------------------------------------------
(* The theorems.                                                           *)

\* The scheduler and its manager alone: coherent, right in what it picks, and fair in turn.
THEOREM SchedulerAlwaysRight == Spec => [](Coherent /\ PicksRight /\ RoundServesAll)
<1>1. SchedulerInv => Coherent /\ PicksRight /\ RoundServesAll
  BY InvGivesCoherent, InvGivesPicksRight, InvGivesRoundServesAll
<1> QED BY <1>1, SchedulerInit, SchedulerStep, PTL DEF Spec

\* Either machine keeps its invariant, and leaves the other alone.
BothInv == SchedulerInv /\ AvailabilityInv

\* Both machines begin in their invariants.
LEMMA BothInit == MCInit => BothInv
BY SchedulerInit, AvailabilityInit DEF MCInit, BothInv

\* One machine moves, and the other stays.
LEMMA BothStep == BothInv /\ [MCNext]_<<machine, vars, states, agg, cooling, clock>> => BothInv'
<1> SUFFICES ASSUME BothInv, [MCNext]_<<machine, vars, states, agg, cooling, clock>> PROVE BothInv'
  OBVIOUS
<1>1. [Next]_vars
  BY DEF MCNext
<1>2. [Availability!Next]_(Availability!vars)
  BY DEF MCNext, Availability!vars
<1> QED BY <1>1, <1>2, SchedulerStep, AvailabilityStep DEF BothInv

\* What the manager holds is what the shards index, for any credentials, providers, placements
\* and models, whatever was stored, disabled, removed, marked, re-registered and picked.
THEOREM SchedulerAlwaysCoherent == MCSpec => []MCCoherent
<1>1. BothInv => MCCoherent
  BY InvGivesCoherent DEF BothInv, MCCoherent
<1> QED BY <1>1, BothInit, BothStep, PTL DEF MCSpec

\* Every answer to a request is one the manager's data allow, there is an answer if they allow
\* one, and none of a higher priority was passed over.
THEOREM PicksAlwaysRight == MCSpec => []MCPicksRight
<1>1. BothInv => MCPicksRight
  BY InvGivesPicksRight DEF BothInv, MCPicksRight
<1> QED BY <1>1, BothInit, BothStep, PTL DEF MCSpec

\* From any state, as many picks by round robin as the list has providers times the credentials
\* serve every ready credential of the best priority.
THEOREM RoundsAlwaysServeAll == MCSpec => []MCRoundServesAll
<1>1. BothInv => MCRoundServesAll
  BY InvGivesRoundServesAll DEF BothInv, MCRoundServesAll
<1> QED BY <1>1, BothInit, BothStep, PTL DEF MCSpec

\* nextQuotaCooldown's shift never passes the maximum pause, for any number of models and
\* any sequence of results and reloads.
THEOREM BackoffAlwaysBounded == MCSpec => []BackoffBounded
<1>1. BothInv => BackoffBounded
  BY DEF BothInv, AvailabilityInv, BackoffBounded
<1> QED BY <1>1, BothInit, BothStep, PTL DEF MCSpec

\* The aggregate's instant is the earliest end of a cooldown.
LEMMA SummedIsExact == AvailabilityInv => Availability!AggregateExact
<1> SUFFICES ASSUME AvailabilityInv PROVE Availability!AggregateExact
  OBVIOUS
<1> DEFINE known == Availability!KnownNames(states)
<1>1. agg.retryAt \in Nat /\ clock \in Nat /\ \A n \in known : states[n].retryAt \in Nat
  BY DEF AvailabilityInv, Availability!BackoffBounded, Availability!TypeOK, Availability!ModelState,
         Availability!KnownNames
<1>2. ASSUME known # {}
      PROVE  agg.unavailable /\ agg.retryAt > clock <=> \A n \in known : CoolingAt(states[n], clock)
  BY <1>1, <1>2 DEF AvailabilityInv, Summed, CoolingAt
<1> QED BY <1>2, Same DEF Availability!AggregateExact, AvailabilityInv, Summed

\* The aggregate that updateAggregatedAvailability and hasModelError last computed is right at
\* every later instant, for any number of models and any cooldowns.
THEOREM AggregateAlwaysExact == MCSpec => []AggregateExact
<1>1. BothInv => AggregateExact
  BY SummedIsExact DEF BothInv, AggregateExact
<1> QED BY <1>1, BothInit, BothStep, PTL DEF MCSpec

==============================================================================

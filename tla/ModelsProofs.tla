---------------------------- MODULE ModelsProofs ----------------------------
(***************************************************************************)
(* Proofs about the models: what the registry counts and shows, and what   *)
(* the executor makes of what a model is known to do.                      *)
(*                                                                         *)
(* ModelRegistry, for any set of clients, models, providers, list length   *)
(* and quota window: type correctness, the exactness of the reference      *)
(* counts and of the metadata kept with them, and the freshness of what    *)
(* GetAvailableModels shows. Every registry operation rebinds, for each    *)
(* model, the references of ONE client from an old provider and number to  *)
(* a new provider and number (Rebound). The counts are cardinalities of    *)
(* sets of slots, and replacing one client's column of such a set changes  *)
(* its cardinality by the difference of the two column heights             *)
(* (ColumnChange). A cached listing is the one of some past instant, and   *)
(* until it expires the same clients are over quota as at that instant     *)
(* (ListingLasts).                                                         *)
(*                                                                         *)
(* CodexExecutor, for any requests, catalog of models and numbers: the     *)
(* effort a client asks for is what goes upstream. A number becomes the    *)
(* level of the model at the closest place (LevelClamped), and a larger    *)
(* number has no lower place (ClosestRises); what a word asks for survives *)
(* the translation of the body (BodyEffort), the suffix of the name        *)
(* (ParsedWord) and validation (ValidLevel, ValidNone, ValidAuto,          *)
(* ValidBudget), so that the prepared body has it (EffortOf), and what is  *)
(* sent is what was prepared (FromRequest).                                *)
(***************************************************************************)
EXTENDS ModelRegistry, CodexExecutor, TLAPS, FiniteSetTheorems, WellFoundedInduction

-----------------------------------------------------------------------------
(* Least elements of sets of naturals, for the expiry of a cache entry. *)

\* A well-founded relation on the naturals has a minimal element in every
\* nonempty set of naturals.
LEMMA MinimalWF ==
  ASSUME NEW R, IsWellFoundedOn(R, Nat), NEW S, S \subseteq Nat, S # {}
  PROVE  \E x \in S : \A y \in S : ~ (<<y, x>> \in R)
BY WFMin

\* If that relation contains <, the minimal element is a least one.
LEMMA MinimalIsLeast ==
  ASSUME NEW R, IsWellFoundedOn(R, Nat), NEW S, S \subseteq Nat, S # {},
         \A y, x \in Nat : y < x => <<y, x>> \in R
  PROVE  \E x \in S : \A y \in S : x <= y
<1>1. PICK x \in S : \A y \in S : ~ (<<y, x>> \in R) BY MinimalWF, Zenon
<1>2. \A y \in S : ~(y < x) BY <1>1
<1> QED BY <1>2

\* A nonempty set of naturals has a least element.
LEMMA LeastElement ==
  ASSUME NEW S, S \subseteq Nat, S # {}
  PROVE  \E x \in S : \A y \in S : x <= y
<1>1. \E R : /\ IsWellFoundedOn(R, Nat)
             /\ \A y, x \in Nat : y < x => <<y, x>> \in R
  <2>1. IsWellFoundedOn(OpToRel(<, Nat), Nat) BY NatLessThanWellFounded, Zenon
  <2>2. \A y, x \in Nat : y < x => <<y, x>> \in OpToRel(<, Nat) BY DEF OpToRel
  <2> QED BY <2>1, <2>2, Zenon
<1> QED BY <1>1, MinimalIsLeast, Zenon

\* What begins with zero and goes on is all numbers.
LEMMA ClosedSet ==
  ASSUME NEW T, 0 \in T, \A n \in Nat : n \in T => n + 1 \in T
  PROVE  Nat \subseteq T
<1> SUFFICES ASSUME Nat \ T # {} PROVE FALSE
  OBVIOUS
<1>1. PICK x \in Nat \ T : \A y \in Nat \ T : x <= y
  BY LeastElement
<1>2. x # 0 /\ x \in Nat /\ x \notin T
  BY <1>1
<1>3. x - 1 \in Nat /\ x = (x - 1) + 1 /\ ~(x <= x - 1)
  BY <1>2
<1>4. x - 1 \in T
  BY <1>1, <1>3
<1> QED BY <1>2, <1>3, <1>4

-----------------------------------------------------------------------------
(* Columns of slots. *)

\* The slots under the column heights f, as in Slots and ProviderSlots.
Area(f) == {s \in Clients \X (1..MaxDup) : s[2] <= f[s[1]]}
Heights == [Clients -> 0..MaxDup]

\* A column of height k has k slots.
LEMMA ColumnSize ==
  ASSUME NEW c, NEW k \in Nat
  PROVE  IsFiniteSet({c} \X (1..k)) /\ Cardinality({c} \X (1..k)) = k
<1>1. IsFiniteSet(1..k) /\ Cardinality(1..k) = k BY FS_Interval
<1>2. IsFiniteSet({c}) /\ Cardinality({c}) = 1 BY FS_Singleton
<1>3. /\ IsFiniteSet({c} \X (1..k))
      /\ Cardinality({c} \X (1..k)) = Cardinality({c}) * Cardinality(1..k)
  BY <1>1, <1>2, FS_Product
<1> QED BY <1>1, <1>2, <1>3

\* An area is finite, and is the area without column c plus that column.
LEMMA AreaSplit ==
  ASSUME NEW f \in Heights, NEW c \in Clients
  PROVE  /\ IsFiniteSet(Area(f))
         /\ Cardinality(Area(f)) =
              Cardinality({s \in Area(f) : s[1] # c}) + f[c]
         /\ Cardinality({s \in Area(f) : s[1] # c}) \in Nat
<1> DEFINE Rest == {s \in Area(f) : s[1] # c}
           Column == {c} \X (1..f[c])
<1>1. IsFiniteSet(Area(f))
  <2>1. IsFiniteSet(1..MaxDup) BY FS_Interval, DupAssumption
  <2>2. IsFiniteSet(Clients \X (1..MaxDup)) BY <2>1, FS_Product, ClientsFinite
  <2> QED BY <2>2, FS_Subset DEF Area
<1>2. IsFiniteSet(Rest) BY <1>1, FS_Subset
<1>3. f[c] \in Nat /\ f[c] <= MaxDup BY DupAssumption DEF Heights
<1>4. IsFiniteSet(Column) /\ Cardinality(Column) = f[c] BY <1>3, ColumnSize
<1>5. Area(f) = Rest \cup Column
  <2>1. ASSUME NEW s \in Area(f), s[1] = c PROVE s \in Column
    BY <2>1, <1>3, DupAssumption DEF Area
  <2>2. ASSUME NEW s \in Column PROVE s \in Area(f)
    BY <2>2, <1>3, DupAssumption DEF Area
  <2> QED BY <2>1, <2>2
<1>6. Rest \cap Column = {} OBVIOUS
<1>7. Cardinality(Rest) \in Nat BY <1>2, FS_CardinalityType
<1>8. Cardinality(Rest \cup Column) = Cardinality(Rest) + Cardinality(Column)
  BY <1>2, <1>3, <1>4, <1>6, <1>7, FS_Union, FS_EmptySet
<1> QED BY <1>1, <1>4, <1>5, <1>7, <1>8

\* Replacing one column changes the cardinality by the difference in height.
LEMMA ColumnChange ==
  ASSUME NEW f \in Heights, NEW c \in Clients, NEW b \in 0..MaxDup,
         NEW g \in Heights, g[c] = b, \A d \in Clients \ {c} : g[d] = f[d]
  PROVE  /\ Cardinality(Area(g)) = Cardinality(Area(f)) - f[c] + b
         /\ Cardinality(Area(f)) \in Nat
         /\ f[c] \in Nat
         /\ f[c] <= Cardinality(Area(f))
<1>1. {s \in Area(g) : s[1] # c} = {s \in Area(f) : s[1] # c} BY DEF Area
<1>2. /\ Cardinality(Area(f)) = Cardinality({s \in Area(f) : s[1] # c}) + f[c]
      /\ Cardinality({s \in Area(f) : s[1] # c}) \in Nat
  BY AreaSplit
<1>3. Cardinality(Area(g)) = Cardinality({s \in Area(g) : s[1] # c}) + g[c]
  BY AreaSplit
<1>4. f[c] \in Nat /\ b \in Nat BY DupAssumption DEF Heights
<1> QED BY <1>1, <1>2, <1>3, <1>4

-----------------------------------------------------------------------------
(* One registration under one rebinding. *)

\* The references that provider q holds when "was" holds "old" of them.
Share(q, was, old) == IF q = was THEN old ELSE 0

\* The metadata a registration keeps per provider goes with its references.
Tracked(reg) == \A q \in Providers : reg.infoBy[q] # NoInfo <=> reg.providers[q] > 0

Sound(reg) == reg \in Registration /\ (reg.count = 0 => reg = Absent) /\ Tracked(reg)

\* "old" references of one client, under "was", are among those of reg.
Holds(reg, was, old) ==
  /\ old \in Nat
  /\ old <= reg.count
  /\ was \in Providers => old <= reg.providers[was]
  /\ old = reg.count => \A q \in Providers : reg.providers[q] = Share(q, was, old)

\* r is reg with them replaced by "new" references under p.
Rebound(reg, r, was, old, p, new) ==
  /\ r.count = reg.count - old + new
  /\ \A q \in Providers :
       r.providers[q] = reg.providers[q] - Share(q, was, old) + Share(q, p, new)

LEMMA AbsentSound == Sound(Absent)
BY NullAssumption DEF Sound, Tracked, Absent, Registration, Reasons

\* addModelRegistration, n times, adds n references under p.
LEMMA AddRebound ==
  ASSUME NEW reg, Sound(reg), NEW p \in Providers, NEW info \in Infos, NEW n \in Nat, NEW was
  PROVE  /\ Sound(AddTimes(reg, p, info, n))
         /\ Rebound(reg, AddTimes(reg, p, info, n), was, 0, p, n)
<1>1. CASE n = 0
  <2>1. AddTimes(reg, p, info, n) = reg BY <1>1 DEF AddTimes
  <2>2. reg.count \in Nat /\ \A q \in Providers : reg.providers[q] \in Nat
    BY DEF Sound, Registration
  <2>3. Rebound(reg, reg, was, 0, p, n) BY <1>1, <2>2 DEF Rebound, Share
  <2> QED BY <2>1, <2>3
<1>2. CASE n # 0
  <2> DEFINE r == AddTimes(reg, p, info, n)
             more == [q \in Providers |->
                        IF q = p THEN reg.providers[q] + n ELSE reg.providers[q]]
             known == [q \in Providers |-> IF q = p THEN info ELSE reg.infoBy[q]]
  <2>1. r = [reg EXCEPT !.count = reg.count + n, !.info = info,
                        !.providers = more, !.infoBy = known]
    BY <1>2 DEF AddTimes
  <2>2. /\ reg \in Registration /\ reg.count + n \in Nat /\ reg.count + n # 0
        /\ \A q \in Providers : reg.providers[q] \in Nat
    BY <1>2 DEF Sound, Registration
  <2>3. more \in [Providers -> Nat] /\ known \in [Providers -> Infos \cup {NoInfo}]
    BY <2>2 DEF Registration
  <2>4. \A q \in Providers : more[q] = reg.providers[q] - Share(q, was, 0) + Share(q, p, n)
    BY <2>2 DEF Share
  <2>a. \A q \in Providers : known[q] # NoInfo <=> more[q] > 0
    BY <1>2, <2>2, NullAssumption DEF Sound, Tracked
  <2> HIDE DEF more, known, r
  <2>5. /\ r \in Registration /\ r.count = reg.count + n
        /\ r.providers = more /\ r.infoBy = known
    BY <2>1, <2>2, <2>3 DEF Registration
  <2>6. Rebound(reg, r, was, 0, p, n)
    BY <2>2, <2>4, <2>5 DEF Rebound, Registration
  <2>7. Sound(r) BY <2>2, <2>5, <2>a DEF Sound, Tracked
  <2> QED BY <2>6, <2>7 DEF r
<1> QED BY <1>1, <1>2

\* Dropping n references that provider "was" has, when it is not the last use
\* of the model.
LEMMA DropExact ==
  ASSUME NEW reg \in Registration, NEW was, NEW n \in Nat, Tracked(reg),
         was \in Providers => n <= reg.providers[was]
  PROVE  LET r == DropProvider(reg, was, n)
         IN  /\ r \in Registration /\ Tracked(r)
             /\ r.count = reg.count
             /\ \A q \in Providers : r.providers[q] = reg.providers[q] - Share(q, was, n)
<1> DEFINE r == DropProvider(reg, was, n)
           left == [q \in Providers |-> IF q # was THEN reg.providers[q]
                                        ELSE IF reg.providers[q] <= n THEN 0
                                        ELSE reg.providers[q] - n]
           kept == [q \in Providers |->
                      IF q = was /\ reg.providers[q] <= n /\ reg.providers[q] > 0
                      THEN NoInfo ELSE reg.infoBy[q]]
<1>1. r = [reg EXCEPT !.providers = left, !.infoBy = kept] BY DEF DropProvider
<1>2. left \in [Providers -> Nat] /\ kept \in [Providers -> Infos \cup {NoInfo}]
  BY DEF Registration
<1>3. \A q \in Providers : left[q] = reg.providers[q] - Share(q, was, n)
  BY DEF Share, Registration
<1>a. \A q \in Providers : kept[q] # NoInfo <=> left[q] > 0
  BY DEF Tracked, Registration
<1> HIDE DEF left, kept, r
<1>4. r \in Registration /\ r.count = reg.count /\ r.providers = left /\ r.infoBy = kept
  BY <1>1, <1>2 DEF Registration
<1>5. Tracked(r) BY <1>4, <1>a DEF Tracked
<1> QED BY <1>3, <1>4, <1>5 DEF r

\* removeModelRegistration, n times, of a client that has at least n references.
LEMMA RemoveRebound ==
  ASSUME NEW reg, Sound(reg), NEW c \in Clients, NEW was, NEW n, Holds(reg, was, n), NEW p
  PROVE  /\ Sound(RemoveTimes(reg, c, was, n))
         /\ Rebound(reg, RemoveTimes(reg, c, was, n), was, n, p, 0)
<1> DEFINE r == RemoveTimes(reg, c, was, n)
<1>0. /\ reg \in Registration /\ n \in Nat /\ n <= reg.count
      /\ reg.count \in Nat /\ \A q \in Providers : reg.providers[q] \in Nat
  BY DEF Sound, Holds, Registration
<1>1. CASE n = 0
  BY <1>0, <1>1 DEF RemoveTimes, Rebound, Share, Sound
<1>2. CASE n # 0 /\ reg.count <= n
  <2>1. r = Absent /\ reg.count = n BY <1>0, <1>2 DEF RemoveTimes
  <2>2. \A q \in Providers : reg.providers[q] = Share(q, was, n) BY <2>1 DEF Holds
  <2>3. Rebound(reg, Absent, was, n, p, 0)
    BY <1>0, <2>1, <2>2 DEF Rebound, Absent, Share
  <2> QED BY <2>1, <2>3, AbsentSound
<1>3. CASE n # 0 /\ ~(reg.count <= n)
  <2> DEFINE d == DropProvider(reg, was, n)
  <2> DEFINE quotaAt == [d.quotaAt EXCEPT ![c] = Never]
             suspended == [d.suspended EXCEPT ![c] = "none"]
  <2>1. r = [d EXCEPT !.count = d.count - n, !.quotaAt = quotaAt, !.suspended = suspended]
    BY <1>0, <1>3 DEF RemoveTimes
  <2>2. /\ d \in Registration /\ Tracked(d)
        /\ d.count = reg.count
        /\ \A q \in Providers : d.providers[q] = reg.providers[q] - Share(q, was, n)
    BY <1>0, DropExact DEF Holds, Sound
  <2>a. d.count - n \in Nat /\ d.count - n # 0 BY <1>0, <1>3, <2>2
  <2>b. quotaAt \in [Clients -> Times \cup {Never}] /\ suspended \in [Clients -> Reasons]
    BY <2>2 DEF Registration, Reasons
  <2> HIDE DEF d, r, quotaAt, suspended
  <2>3. /\ r \in Registration /\ r.count = reg.count - n /\ r.count # 0
        /\ r.providers = d.providers /\ r.infoBy = d.infoBy
    BY <2>1, <2>2, <2>a, <2>b DEF Registration
  <2>4. Rebound(reg, r, was, n, p, 0)
    BY <1>0, <2>2, <2>3 DEF Rebound, Share
  <2>5. Sound(r) BY <2>2, <2>3 DEF Sound, Tracked
  <2> QED BY <2>4, <2>5 DEF r
<1> QED BY <1>0, <1>1, <1>2, <1>3

\* RefreshBinding of a model that is registered adds the overlap to p.
LEMMA RefreshExact ==
  ASSUME NEW reg \in Registration, reg.count # 0, NEW c \in Clients, NEW p \in Providers,
         NEW info \in Infos, NEW n \in Nat, Tracked(reg), reg.providers[p] + n > 0
  PROVE  LET r == RefreshBinding(reg, c, p, info, n)
         IN  /\ r \in Registration /\ Tracked(r)
             /\ r.count = reg.count
             /\ \A q \in Providers : r.providers[q] = reg.providers[q] + Share(q, p, n)
<1> DEFINE r == RefreshBinding(reg, c, p, info, n)
           more == [q \in Providers |->
                      IF q = p THEN reg.providers[q] + n ELSE reg.providers[q]]
           known == [q \in Providers |-> IF q = p THEN info ELSE reg.infoBy[q]]
           quotaAt == [reg.quotaAt EXCEPT ![c] = Never]
           suspended == [reg.suspended EXCEPT ![c] = "none"]
<1>1. r = [reg EXCEPT !.info = info, !.infoBy = known, !.quotaAt = quotaAt,
                      !.suspended = suspended, !.providers = more]
  BY DEF RefreshBinding
<1>2. /\ more \in [Providers -> Nat] /\ known \in [Providers -> Infos \cup {NoInfo}]
      /\ quotaAt \in [Clients -> Times \cup {Never}] /\ suspended \in [Clients -> Reasons]
  BY DEF Registration, Reasons
<1>3. \A q \in Providers : more[q] = reg.providers[q] + Share(q, p, n)
  BY DEF Registration, Share
<1>a. \A q \in Providers : known[q] # NoInfo <=> more[q] > 0
  BY NullAssumption DEF Registration, Tracked
<1> HIDE DEF r, more, known, quotaAt, suspended
<1>4. r \in Registration /\ r.count = reg.count /\ r.providers = more /\ r.infoBy = known
  BY <1>1, <1>2 DEF Registration
<1>5. Tracked(r) BY <1>4, <1>a DEF Tracked
<1> QED BY <1>3, <1>4, <1>5 DEF r

\* RegisterClient of a known client rebinds its references to this model.
LEMMA ReconcileRebound ==
  ASSUME NEW reg, Sound(reg), NEW c \in Clients,
         NEW was, NEW p \in Providers, NEW info \in Infos,
         NEW old \in Nat, NEW new \in Nat, Holds(reg, was, old)
  PROVE  /\ Sound(Reconcile(reg, c, was, p, info, old, new))
         /\ Rebound(reg, Reconcile(reg, c, was, p, info, old, new), was, old, p, new)
<1> DEFINE moved == IF was # p THEN MinOf(old, new) ELSE 0
           released == IF was # NoProvider /\ moved > 0
                       THEN DropProvider(reg, was, moved) ELSE reg
           trimmed == IF new < old THEN RemoveTimes(released, c, was, old - new) ELSE released
           grown == IF new > old THEN AddTimes(trimmed, p, info, new - old) ELSE trimmed
           r == IF new > 0 THEN RefreshBinding(grown, c, p, info, moved) ELSE grown
           less == IF new < old THEN old - new ELSE 0
           extra == IF new > old THEN new - old ELSE 0
<1>0. /\ reg \in Registration /\ Tracked(reg) /\ old <= reg.count /\ reg.count \in Nat
      /\ \A q \in Providers : reg.providers[q] \in Nat
      /\ was \in Providers => old <= reg.providers[was]
      /\ old = reg.count => \A q \in Providers : reg.providers[q] = Share(q, was, old)
  BY DEF Sound, Holds, Registration
<1>1. /\ moved \in Nat /\ moved <= old /\ moved <= new
      /\ less \in Nat /\ extra \in Nat /\ moved + less <= old
      /\ was # p => moved + less = old /\ moved + extra = new
      /\ was = p => moved = 0
      /\ old - less + extra = new
      /\ less = old => moved = 0
  BY DEF MinOf
<1>2. Reconcile(reg, c, was, p, info, old, new) = r BY DEF Reconcile
<1>3. /\ Sound(released) /\ released.count = reg.count
      /\ \A q \in Providers :
           released.providers[q] = reg.providers[q] - Share(q, was, moved)
  <2>1. CASE was # NoProvider /\ moved > 0
    <3>1. /\ released \in Registration /\ Tracked(released) /\ released.count = reg.count
          /\ \A q \in Providers :
               released.providers[q] = reg.providers[q] - Share(q, was, moved)
      <4>1. was \in Providers => moved <= reg.providers[was] BY <1>0, <1>1
      <4>2. released = DropProvider(reg, was, moved) BY <2>1
      <4> QED BY <1>0, <1>1, <4>1, <4>2, DropExact
    <3>2. released.count # 0 BY <1>0, <1>1, <2>1, <3>1
    <3> QED BY <3>1, <3>2 DEF Sound
  <2>2. CASE ~(was # NoProvider /\ moved > 0)
    <3>1. \A q \in Providers : Share(q, was, moved) = 0
      BY <1>1, <2>2, NullAssumption DEF Share
    <3> QED BY <1>0, <2>2, <3>1
  <2> QED BY <2>1, <2>2
<1> HIDE DEF released, moved
<1>4. /\ Sound(trimmed)
      /\ trimmed.count = reg.count - less
      /\ \A q \in Providers :
           trimmed.providers[q] = released.providers[q] - Share(q, was, less)
  <2>1. CASE new < old
    <3>1. less = old - new /\ trimmed = RemoveTimes(released, c, was, less) BY <2>1
    <3>2. Holds(released, was, less)
      <4>1. less \in Nat /\ less <= released.count BY <1>0, <1>1, <1>3
      <4>2. was \in Providers => less <= released.providers[was]
        BY <1>0, <1>1, <1>3 DEF Share
      <4>3. ASSUME less = released.count, NEW q \in Providers
            PROVE  released.providers[q] = Share(q, was, less)
        <5>1. less = old /\ old = reg.count /\ moved = 0 BY <1>0, <1>1, <1>3, <4>3
        <5> QED BY <1>0, <1>3, <5>1 DEF Share
      <4> QED BY <4>1, <4>2, <4>3 DEF Holds
    <3>3. Sound(trimmed) /\ Rebound(released, trimmed, was, less, p, 0)
      BY <1>3, <3>1, <3>2, RemoveRebound
    <3>4. \A q \in Providers : /\ released.providers[q] \in Nat
                               /\ trimmed.providers[q] \in Nat
      BY <1>3, <3>3 DEF Sound, Registration
    <3>5. trimmed.count = released.count - less + 0
          /\ \A q \in Providers :
               trimmed.providers[q] = released.providers[q] - Share(q, was, less)
      BY <1>1, <3>3, <3>4 DEF Rebound, Share
    <3> QED BY <1>0, <1>1, <1>3, <3>3, <3>5
  <2>2. CASE ~(new < old)
    <3>1. less = 0 /\ trimmed = released BY <2>2
    <3>2. \A q \in Providers : released.providers[q] \in Nat
      BY <1>3 DEF Sound, Registration
    <3> QED BY <1>0, <1>3, <3>1, <3>2 DEF Share
  <2> QED BY <2>1, <2>2
<1> HIDE DEF trimmed
<1>5. /\ Sound(grown)
      /\ grown.count = reg.count - less + extra
      /\ \A q \in Providers :
           grown.providers[q] = trimmed.providers[q] + Share(q, p, extra)
  <2>0. \A q \in Providers : trimmed.providers[q] \in Nat
    BY <1>4 DEF Sound, Registration
  <2>1. CASE new > old
    <3>1. extra = new - old /\ grown = AddTimes(trimmed, p, info, extra) BY <2>1
    <3>2. Sound(grown) /\ Rebound(trimmed, grown, was, 0, p, extra)
      BY <1>1, <1>4, <3>1, AddRebound
    <3>3. /\ grown.count = trimmed.count - 0 + extra
          /\ \A q \in Providers :
               grown.providers[q] = trimmed.providers[q] + Share(q, p, extra)
      BY <1>1, <2>0, <3>2 DEF Rebound, Share
    <3> QED BY <1>0, <1>1, <1>4, <3>2, <3>3
  <2>2. CASE ~(new > old)
    <3>1. extra = 0 /\ grown = trimmed BY <2>2
    <3>2. \A q \in Providers : trimmed.providers[q] = trimmed.providers[q] + Share(q, p, 0)
      BY <2>0 DEF Share
    <3>3. reg.count - less = reg.count - less + 0 BY <1>0, <1>1
    <3> HIDE DEF extra, less
    <3> QED BY <1>4, <3>1, <3>2, <3>3
  <2> QED BY <2>1, <2>2
<1> HIDE DEF grown
<1>6. /\ Sound(r)
      /\ r.count = reg.count - old + new
      /\ \A q \in Providers :
           r.providers[q] = reg.providers[q] - Share(q, was, old) + Share(q, p, new)
  <2>0. /\ grown.count = reg.count - old + new
        /\ grown \in Registration /\ Tracked(grown)
        /\ \A q \in Providers :
             grown.providers[q] = reg.providers[q] - Share(q, was, moved)
                                  - Share(q, was, less) + Share(q, p, extra)
    BY <1>0, <1>1, <1>3, <1>4, <1>5 DEF Sound
  <2>1. CASE new > 0
    <3>1. grown.count # 0 BY <1>0, <2>0, <2>1
    <3>a. grown.providers[p] + moved > 0
      <4>1. grown.providers[p] \in Nat BY <2>0 DEF Registration
      <4>2. CASE was = p
        <5>1. grown.providers[p] = reg.providers[p] - less + extra
          BY <1>0, <1>1, <2>0, <4>2 DEF Share
        <5> QED BY <1>0, <1>1, <2>1, <4>2, <5>1
      <4>3. CASE was # p
        <5>1. grown.providers[p] = reg.providers[p] + extra
          <6>1. Share(p, was, moved) = 0 /\ Share(p, was, less) = 0 /\ Share(p, p, extra) = extra
            BY <4>3 DEF Share
          <6>2. reg.providers[p] \in Nat /\ extra \in Nat
            BY <1>0, <1>1
          <6> HIDE DEF extra, less
          <6> QED BY <2>0, <6>1, <6>2
        <5> QED BY <1>0, <1>1, <2>1, <4>1, <4>3, <5>1
      <4> QED BY <4>2, <4>3
    <3>2. /\ r \in Registration /\ Tracked(r) /\ r.count = grown.count
          /\ \A q \in Providers : r.providers[q] = grown.providers[q] + Share(q, p, moved)
      BY <1>1, <2>0, <2>1, <3>1, <3>a, RefreshExact
    <3>3. Sound(r) BY <3>1, <3>2 DEF Sound
    <3>4. ASSUME NEW q \in Providers
          PROVE  Share(q, was, moved) + Share(q, was, less) - Share(q, p, extra)
                 - Share(q, p, moved) = Share(q, was, old) - Share(q, p, new)
      BY <1>1 DEF Share
    <3>5. ASSUME NEW q \in Providers
          PROVE  r.providers[q] = reg.providers[q] - Share(q, was, old) + Share(q, p, new)
      BY <1>0, <1>1, <2>0, <3>2, <3>4 DEF Share
    <3> QED BY <2>0, <3>2, <3>3, <3>5
  <2>2. CASE new = 0
    <3>1. r = grown /\ moved = 0 /\ extra = 0 /\ less = old BY <1>1, <2>2
    <3> QED BY <1>0, <1>5, <2>0, <2>2, <3>1 DEF Share
  <2> QED BY <2>1, <2>2
<1> QED BY <1>2, <1>6 DEF Rebound

-----------------------------------------------------------------------------
(* The reference counts of the whole registry. *)

\* The column heights behind Slots(m) and ProviderSlots(m, q).
Height(cm, m) == [c \in Clients |-> cm[c][m]]
ProviderHeight(cm, cp, m, q) == [c \in Clients |-> IF cp[c] = q THEN cm[c][m] ELSE 0]

Counted(ms, cm, cp) ==
  \A m \in Models :
    /\ ms[m].count = Cardinality(Area(Height(cm, m)))
    /\ \A q \in Providers :
         ms[m].providers[q] = Cardinality(Area(ProviderHeight(cm, cp, m, q)))

\* CountExact and ProvidersCounted say that the registry is Counted.
LEMMA CountedIsExact ==
  ASSUME clientModels \in [Clients -> Occurrences]
  PROVE  CountExact /\ ProvidersCounted <=> Counted(models, clientModels, clientProviders)
<1>1. ASSUME NEW m \in Models PROVE Slots(m) = Area(Height(clientModels, m))
  BY DEF Slots, Area, Height
<1>2. ASSUME NEW m \in Models, NEW q \in Providers
      PROVE  ProviderSlots(m, q) = Area(ProviderHeight(clientModels, clientProviders, m, q))
  <2>1. ASSUME NEW s \in Clients \X (1..MaxDup)
        PROVE  s \in ProviderSlots(m, q)
                 <=> s \in Area(ProviderHeight(clientModels, clientProviders, m, q))
    BY DupAssumption DEF ProviderSlots, Slots, Area, ProviderHeight
  <2> QED BY <2>1 DEF ProviderSlots, Slots, Area
<1> QED BY <1>1, <1>2 DEF CountExact, ProvidersCounted, Counted

LEMMA HeightType ==
  ASSUME NEW cm \in [Clients -> Occurrences], NEW cp, NEW m \in Models
  PROVE  /\ Height(cm, m) \in Heights
         /\ \A q : ProviderHeight(cm, cp, m, q) \in Heights
BY DupAssumption DEF Height, ProviderHeight, Heights, Occurrences

\* What a client holds is part of what is counted.
LEMMA CountedHolds ==
  ASSUME NEW ms, NEW cm \in [Clients -> Occurrences], NEW cp,
         Counted(ms, cm, cp), NEW c \in Clients, NEW m \in Models
  PROVE  Holds(ms[m], cp[c], cm[c][m])
<1> DEFINE f == Height(cm, m)
           g(q) == ProviderHeight(cm, cp, m, q)
           old == cm[c][m]
<1>1. f \in Heights /\ \A q : g(q) \in Heights BY HeightType
<1>2. /\ f[c] = old /\ old \in Nat
      /\ \A q \in Providers : g(q)[c] = Share(q, cp[c], old)
  BY DupAssumption DEF Height, ProviderHeight, Occurrences, Share
<1>3. /\ ms[m].count = Cardinality(Area(f))
      /\ \A q \in Providers : ms[m].providers[q] = Cardinality(Area(g(q)))
  BY DEF Counted
<1>4. old <= ms[m].count
  <2>1. f[c] \in 0..MaxDup BY <1>1 DEF Heights
  <2>2. f[c] <= Cardinality(Area(f)) BY <1>1, <2>1, ColumnChange
  <2> QED BY <1>2, <1>3, <2>2
<1>5. ASSUME NEW q \in Providers PROVE Share(q, cp[c], old) <= ms[m].providers[q]
  <2>1. g(q) \in Heights /\ g(q)[c] \in 0..MaxDup BY <1>1 DEF Heights
  <2>2. g(q)[c] <= Cardinality(Area(g(q))) BY <2>1, ColumnChange
  <2> QED BY <1>2, <1>3, <2>2
<1>6. ASSUME old = ms[m].count, NEW q \in Providers
      PROVE  ms[m].providers[q] = Share(q, cp[c], old)
  \* The areas without the client's own column are empty.
  <2> DEFINE h == ProviderHeight(cm, cp, m, q)
             f0 == [f EXCEPT ![c] = 0]
             h0 == [h EXCEPT ![c] = 0]
  <2>0. f \in Heights /\ h \in Heights BY <1>1
  <2>1. f0 \in Heights /\ h0 \in Heights /\ f0[c] = 0 /\ h0[c] = 0
    <3> HIDE DEF f, h
    <3> QED BY <2>0, DupAssumption DEF Heights
  <2>2. (\A d \in Clients \ {c} : f0[d] = f[d]) /\ (\A d \in Clients \ {c} : h0[d] = h[d])
    <3> HIDE DEF f, h
    <3> QED BY <2>0 DEF Heights
  <2>3. 0 \in 0..MaxDup BY DupAssumption
  <2>4. /\ Cardinality(Area(f0)) = Cardinality(Area(f)) - f[c] + 0
        /\ Cardinality(Area(f)) \in Nat
    <3> HIDE DEF f, f0
    <3> QED BY <2>0, <2>1, <2>2, <2>3, ColumnChange
  <2>5. /\ Cardinality(Area(h0)) = Cardinality(Area(h)) - h[c] + 0
        /\ Cardinality(Area(h)) \in Nat /\ h[c] \in Nat
    <3> HIDE DEF h, h0
    <3> QED BY <2>0, <2>1, <2>2, <2>3, ColumnChange
  <2>6. Cardinality(Area(f0)) = 0 BY <1>2, <1>3, <1>6, <2>4
  <2>7. Area(f0) = {} BY <2>1, <2>6, AreaSplit, FS_EmptySet
  <2>8. \A d \in Clients : h0[d] <= f0[d]
    BY DupAssumption DEF Height, ProviderHeight, Occurrences
  <2>9. Area(h0) = {}
    <3>1. ASSUME NEW s \in Area(h0) PROVE s \in Area(f0)
      <4>1. s[1] \in Clients /\ s[2] \in 1..MaxDup /\ s[2] <= h0[s[1]] /\ s \in Clients \X (1..MaxDup)
        BY DEF Area
      <4>2. h0[s[1]] \in 0..MaxDup /\ f0[s[1]] \in 0..MaxDup /\ h0[s[1]] <= f0[s[1]]
        BY <2>1, <2>8, <4>1 DEF Heights
      <4>3. s[2] <= f0[s[1]]
        <5> HIDE DEF f0, h0
        <5> QED BY <4>1, <4>2
      <4> QED BY <4>1, <4>3 DEF Area
    <3> QED BY <2>7, <3>1
  <2>10. Cardinality(Area(h)) = h[c]
    <3> HIDE DEF h, h0
    <3> QED BY <2>5, <2>9, FS_EmptySet
  <2> QED BY <1>2, <1>3, <2>10
<1> QED BY <1>2, <1>4, <1>5, <1>6 DEF Holds, Share

\* Rebinding client c, model by model, keeps the registry Counted.
LEMMA RebindCounted ==
  ASSUME NEW ms, NEW cm \in [Clients -> Occurrences], NEW cp \in [Clients -> Providers \cup {NoProvider}],
         Counted(ms, cm, cp),
         NEW c \in Clients, NEW occ \in Occurrences, NEW p \in Providers \cup {NoProvider}, NEW ms2,
         \A m \in Models : Rebound(ms[m], ms2[m], cp[c], cm[c][m], p, occ[m])
  PROVE  Counted(ms2, [cm EXCEPT ![c] = occ], [cp EXCEPT ![c] = p])
<1> DEFINE cm2 == [cm EXCEPT ![c] = occ]
           cp2 == [cp EXCEPT ![c] = p]
<1>0. cm2 \in [Clients -> Occurrences] OBVIOUS
<1>1. ASSUME NEW m \in Models PROVE ms2[m].count = Cardinality(Area(Height(cm2, m)))
  <2> DEFINE f == Height(cm, m)
             f2 == Height(cm2, m)
  <2>1. f \in Heights /\ f2 \in Heights BY <1>0, HeightType
  <2>2. f2[c] = occ[m] /\ f[c] = cm[c][m] /\ occ[m] \in 0..MaxDup
    BY DEF Height, Occurrences
  <2>3. \A d \in Clients \ {c} : f2[d] = f[d] BY DEF Height
  <2>4. Cardinality(Area(f2)) = Cardinality(Area(f)) - f[c] + occ[m]
    <3> HIDE DEF f, f2
    <3> QED BY ONLY c \in Clients, <2>1, <2>2, <2>3, ColumnChange
  <2>5. ms2[m].count = ms[m].count - cm[c][m] + occ[m] BY DEF Rebound
  <2>6. ms[m].count = Cardinality(Area(f)) BY DEF Counted
  <2>7. ms2[m].count = Cardinality(Area(f2))
    <3> HIDE DEF f, f2
    <3> QED BY ONLY <2>2, <2>4, <2>5, <2>6
  <2> QED BY <2>7
<1>2. ASSUME NEW m \in Models, NEW q \in Providers
      PROVE  ms2[m].providers[q] = Cardinality(Area(ProviderHeight(cm2, cp2, m, q)))
  <2> DEFINE f == ProviderHeight(cm, cp, m, q)
             f2 == ProviderHeight(cm2, cp2, m, q)
  <2>1. f \in Heights /\ f2 \in Heights BY <1>0, HeightType
  <2>2. /\ f2[c] = Share(q, p, occ[m]) /\ f[c] = Share(q, cp[c], cm[c][m])
        /\ f2[c] \in 0..MaxDup
    BY DupAssumption DEF ProviderHeight, Occurrences, Share
  <2>3. \A d \in Clients \ {c} : f2[d] = f[d] BY DEF ProviderHeight
  <2>4. Cardinality(Area(f2)) = Cardinality(Area(f)) - f[c] + f2[c]
    <3> HIDE DEF f, f2
    <3> QED BY ONLY c \in Clients, <2>1, <2>2, <2>3, ColumnChange
  <2>5. ms2[m].providers[q]
          = ms[m].providers[q] - Share(q, cp[c], cm[c][m]) + Share(q, p, occ[m])
    BY DEF Rebound
  <2>6. ms[m].providers[q] = Cardinality(Area(f)) BY DEF Counted
  <2>7. ms2[m].providers[q] = Cardinality(Area(f2))
    <3> HIDE DEF f, f2
    <3> QED BY ONLY <2>2, <2>4, <2>5, <2>6
  <2> QED BY <2>7
<1> QED BY <1>1, <1>2 DEF Counted

-----------------------------------------------------------------------------
(* Preservation, action by action. *)

RegistryOK == \A m \in Models : Sound(models[m])
Bindings == <<models, clientModels, clientProviders>>

\* The inductive invariant. The counts alone are not inductive: an emptied
\* registration must carry nothing over (Sound), or the next registration of
\* the model would start from old provider counts. The cache is part of it for
\* the sake of what readers are shown.
Counts == Counted(models, clientModels, clientProviders)

\* A valid entry of the cache is the listing, and its expiry the one, of some past
\* instant over the registrations as they are: whatever changes them empties the
\* cache (invalidateAvailableModelsCacheLocked). A reader's instant is past too.
CacheBuilt ==
  /\ \A h \in Handlers : cache[h].valid =>
       \E t \in 0..now : /\ cache[h].models = BuildListing(models, t)
                         /\ cache[h].expires = BuildExpiry(models, t)
  /\ \A r \in Readers : reader[r].at <= now

IInv == TypeOK /\ Counts /\ ProviderInfoTracked /\ CacheBuilt

LEMMA RegistryFromType == ASSUME TypeOK, ProviderInfoTracked PROVE RegistryOK
BY DEF TypeOK, ProviderInfoTracked, RegistryOK, Sound, Tracked

\* An empty cache, with no reader moved, is one.
LEMMA EmptyCacheBuilt ==
  ASSUME InvalidateCache, UNCHANGED <<reader, now>>, CacheBuilt PROVE CacheBuilt'
BY DEF InvalidateCache, NoEntry, CacheBuilt

\* A cache without entries is well typed.
LEMMA InvalidateType ==
  ASSUME InvalidateCache PROVE cache' \in [Handlers -> CacheEntry]
BY DEF InvalidateCache, NoEntry, CacheEntry, Listing

LEMMA ListingType ==
  ASSUME models \in [Models -> Registration], NEW t
  PROVE  BuildListing(models, t) \in Listing
BY DEF BuildListing, Listing, Registration

LEMMA ExpiryType ==
  ASSUME models \in [Models -> Registration], NEW t
  PROVE  BuildExpiry(models, t) \in Expiries \cup {Never}
<1> DEFINE ends == UNION {{models[m].quotaAt[c] + QuotaWindow : c \in OverQuota(models[m], t)}
                          : m \in Models}
<1>1. ends \subseteq Expiries
  <2>1. ASSUME NEW m \in Models, NEW c \in OverQuota(models[m], t)
        PROVE  models[m].quotaAt[c] + QuotaWindow \in Expiries
    <3>1. models[m].quotaAt[c] \in Times /\ models[m].quotaAt[c] # Never
      BY DEF Registration, OverQuota, Times, Never
    <3> QED BY <3>1, TimeAssumption DEF Times, Expiries
  <2> QED BY <2>1
<1>2. CASE ends = {} BY <1>2 DEF BuildExpiry
<1>3. CASE ends # {}
  <2>1. ends \subseteq Nat BY <1>1, TimeAssumption DEF Expiries
  <2> HIDE DEF ends
  <2>2. \E e \in ends : \A x \in ends : e <= x BY <1>3, <2>1, LeastElement
  <2>3. (CHOOSE e \in ends : \A x \in ends : e <= x) \in ends BY <2>2
  <2> QED BY <1>1, <1>3, <2>3 DEF BuildExpiry, ends
<1> QED BY <1>2, <1>3

\* A rebinding of client c to occurrences occ under p.
LEMMA RebindingStep ==
  ASSUME IInv, NEW c \in Clients, NEW occ \in Occurrences,
         NEW p \in Providers \cup {NoProvider},
         models' = [m \in Models |-> models'[m]],
         \A m \in Models : Sound(models'[m]),
         \A m \in Models : Rebound(models[m], models'[m], clientProviders[c], clientModels[c][m], p, occ[m]),
         clientModels' = [clientModels EXCEPT ![c] = occ],
         clientProviders' = [clientProviders EXCEPT ![c] = p],
         InvalidateCache, UNCHANGED <<reader, now>>
  PROVE  IInv'
<1>1. Counted(models', clientModels', clientProviders')
  BY RebindCounted DEF IInv, TypeOK, Counts
<1>2. models' \in [Models -> Registration] BY DEF Sound
<1>3. \A m \in Models : models'[m].count = 0 => models'[m] = Absent BY DEF Sound
<1>4. clientModels' \in [Clients -> Occurrences]
      /\ clientProviders' \in [Clients -> Providers \cup {NoProvider}]
  BY DEF IInv, TypeOK
<1>5. /\ reader' \in [Readers -> [pc : {"idle", "called", "missed", "returned"},
                                  at : Times, models : Listing]]
      /\ now' \in Times
  BY DEF IInv, TypeOK
<1>6. TypeOK' BY <1>1, <1>2, <1>3, <1>4, <1>5, InvalidateType DEF IInv, TypeOK
<1>7. ProviderInfoTracked' BY DEF Sound, Tracked, ProviderInfoTracked
<1>8. CacheBuilt' BY EmptyCacheBuilt DEF IInv
<1> QED BY <1>1, <1>6, <1>7, <1>8 DEF IInv, Counts

LEMMA NoModelsType == NoModels \in Occurrences
BY DupAssumption DEF NoModels, Occurrences

\* Forgetting a client rebinds all its references to nothing.
LEMMA ForgetStep ==
  ASSUME IInv, NEW c \in Clients, Forget(c), InvalidateCache, UNCHANGED <<reader, now>>
  PROVE  IInv'
<1>1. ASSUME NEW m \in Models
      PROVE  /\ Sound(models'[m])
             /\ Rebound(models[m], models'[m], clientProviders[c], clientModels[c][m],
                        NoProvider, NoModels[m])
  <2>1. models'[m] = RemoveTimes(models[m], c, clientProviders[c], clientModels[c][m])
    BY DEF Forget
  <2>2. Sound(models[m]) BY RegistryFromType DEF IInv, RegistryOK
  <2>3. Holds(models[m], clientProviders[c], clientModels[c][m])
    BY CountedHolds DEF IInv, TypeOK, Counts
  <2>4. NoModels[m] = 0 BY DEF NoModels
  <2> QED BY <2>1, <2>2, <2>3, <2>4, RemoveRebound
<1> QED BY <1>1, NoModelsType, RebindingStep DEF Forget

LEMMA RegisterStep ==
  ASSUME IInv, NEW c \in Clients, NEW p \in Providers, NEW occ \in Occurrences,
         NEW info \in Infos, RegisterClient(c, p, occ, info)
  PROVE  IInv'
<1>0. InvalidateCache /\ UNCHANGED <<reader, now>> BY DEF RegisterClient
<1>1. CASE occ = NoModels /\ Forget(c) BY <1>0, <1>1, ForgetStep
<1>2. CASE ~Registered(c) /\ models' = [m \in Models |-> AddTimes(models[m], p, info, occ[m])]
           /\ clientModels' = [clientModels EXCEPT ![c] = occ]
           /\ clientProviders' = [clientProviders EXCEPT ![c] = p]
  <2>1. ASSUME NEW m \in Models
        PROVE  /\ Sound(models'[m])
               /\ Rebound(models[m], models'[m], clientProviders[c], clientModels[c][m], p, occ[m])
    <3>1. clientModels[c][m] = 0 BY <1>2 DEF Registered, NoModels
    <3>2. models'[m] = AddTimes(models[m], p, info, occ[m]) BY <1>2
    <3>3. Sound(models[m]) /\ occ[m] \in Nat
      BY RegistryFromType, DupAssumption DEF IInv, RegistryOK, Occurrences
    <3> QED BY <3>1, <3>2, <3>3, AddRebound
  <2> QED BY <1>0, <1>2, <2>1, RebindingStep
<1>3. CASE models' = [m \in Models |-> Reconcile(models[m], c, clientProviders[c], p, info,
                                                 clientModels[c][m], occ[m])]
           /\ clientModels' = [clientModels EXCEPT ![c] = occ]
           /\ clientProviders' = [clientProviders EXCEPT ![c] = p]
  <2>1. ASSUME NEW m \in Models
        PROVE  /\ Sound(models'[m])
               /\ Rebound(models[m], models'[m], clientProviders[c], clientModels[c][m], p, occ[m])
    <3>1. models'[m] = Reconcile(models[m], c, clientProviders[c], p, info,
                                 clientModels[c][m], occ[m])
      BY <1>3
    <3>2. Sound(models[m]) /\ occ[m] \in Nat
      BY RegistryFromType, DupAssumption DEF IInv, RegistryOK, Occurrences
    <3>3. Holds(models[m], clientProviders[c], clientModels[c][m])
      BY CountedHolds DEF IInv, TypeOK, Counts
    <3>4. clientModels[c][m] \in Nat BY <3>3 DEF Holds
    <3> QED BY <3>1, <3>2, <3>3, <3>4, ReconcileRebound
  <2> QED BY <1>0, <1>3, <2>1, RebindingStep
<1> QED BY <1>1, <1>2, <1>3 DEF RegisterClient

\* A step that touches only quota and suspension marks.
LEMMA MarksStep ==
  ASSUME IInv, InvalidateCache, UNCHANGED <<clientModels, clientProviders, reader, now>>,
         models' \in [Models -> Registration],
         \A m \in Models : /\ models'[m].count = models[m].count
                           /\ models'[m].providers = models[m].providers
                           /\ models'[m].infoBy = models[m].infoBy
                           /\ models[m].count = 0 => models'[m] = models[m]
  PROVE  IInv'
<1>1. Counted(models', clientModels', clientProviders') BY DEF IInv, Counts, Counted
<1>2. \A m \in Models : models'[m].count = 0 => models'[m] = Absent
  BY DEF IInv, TypeOK
<1>3. TypeOK' BY <1>2, InvalidateType DEF IInv, TypeOK
<1>4. ProviderInfoTracked' BY DEF IInv, ProviderInfoTracked
<1>5. CacheBuilt' BY EmptyCacheBuilt DEF IInv
<1> QED BY <1>1, <1>3, <1>4, <1>5 DEF IInv, Counts

\* New marks on a registration.
Remarked(reg, quotaAt, suspended) ==
  [reg EXCEPT !.quotaAt = quotaAt, !.suspended = suspended]

LEMMA Marked ==
  ASSUME NEW reg \in Registration,
         NEW quotaAt \in [Clients -> Times \cup {Never}],
         NEW suspended \in [Clients -> Reasons]
  PROVE  /\ Remarked(reg, quotaAt, suspended) \in Registration
         /\ Remarked(reg, quotaAt, suspended).count = reg.count
         /\ Remarked(reg, quotaAt, suspended).providers = reg.providers
         /\ Remarked(reg, quotaAt, suspended).infoBy = reg.infoBy
BY DEF Registration, Remarked

\* A step that marks one registration.
LEMMA MarkStep ==
  ASSUME IInv, InvalidateCache, UNCHANGED <<clientModels, clientProviders, reader, now>>,
         NEW m \in Models, models[m].count # 0,
         NEW quotaAt \in [Clients -> Times \cup {Never}],
         NEW suspended \in [Clients -> Reasons],
         models' = [models EXCEPT ![m] = Remarked(models[m], quotaAt, suspended)]
  PROVE  IInv'
<1>1. models \in [Models -> Registration] BY DEF IInv, TypeOK
<1> DEFINE r == Remarked(models[m], quotaAt, suspended)
<1>2. /\ r \in Registration /\ r.count = models[m].count
      /\ r.providers = models[m].providers /\ r.infoBy = models[m].infoBy
  BY <1>1, Marked
<1>3. models' = [models EXCEPT ![m] = r] OBVIOUS
<1> HIDE DEF r
<1>4. /\ models' \in [Models -> Registration]
      /\ \A x \in Models :
           /\ models'[x].count = models[x].count
           /\ models'[x].providers = models[x].providers
           /\ models'[x].infoBy = models[x].infoBy
           /\ models[x].count = 0 => models'[x] = models[x]
  BY <1>1, <1>2, <1>3
<1> QED BY <1>4, MarksStep

\* A step that leaves the bindings alone.
LEMMA ReaderStep ==
  ASSUME IInv, UNCHANGED Bindings,
         cache' \in [Handlers -> CacheEntry],
         reader' \in [Readers -> [pc : {"idle", "called", "missed", "returned"},
                                  at : Times, models : Listing]],
         now' \in Times, CacheBuilt'
  PROVE  IInv'
<1>1. TypeOK' BY DEF IInv, TypeOK, Bindings
<1>2. Counted(models', clientModels', clientProviders') BY DEF IInv, Counts, Counted, Bindings
<1>3. ProviderInfoTracked' BY DEF IInv, ProviderInfoTracked, Bindings
<1> QED BY <1>1, <1>2, <1>3 DEF IInv, Counts

LEMMA InitIInv == Init => IInv
<1> SUFFICES ASSUME Init PROVE IInv OBVIOUS
<1>1. TypeOK
  BY AbsentSound, NoModelsType, TimeAssumption
     DEF Init, TypeOK, Sound, NoEntry, CacheEntry, IdleReader, Listing, Times
<1>2. Counted(models, clientModels, clientProviders)
  <2>1. ASSUME NEW f \in Heights, \A c \in Clients : f[c] = 0
        PROVE  Cardinality(Area(f)) = 0
    <3>1. Area(f) = {} BY <2>1 DEF Area
    <3> QED BY <3>1, FS_EmptySet
  <2>2. ASSUME NEW m \in Models
        PROVE  /\ Cardinality(Area(Height(clientModels, m))) = 0
               /\ \A q : Cardinality(Area(ProviderHeight(clientModels, clientProviders, m, q))) = 0
    <3>1. \A c \in Clients : clientModels[c][m] = 0 BY DEF Init, NoModels
    <3>2. /\ Height(clientModels, m) \in Heights
          /\ \A q : ProviderHeight(clientModels, clientProviders, m, q) \in Heights
      BY <1>1, HeightType DEF TypeOK
    <3>3. /\ \A c \in Clients : Height(clientModels, m)[c] = 0
          /\ \A q : \A c \in Clients : ProviderHeight(clientModels, clientProviders, m, q)[c] = 0
      BY <3>1 DEF Height, ProviderHeight
    <3> QED BY <2>1, <3>2, <3>3
  <2> QED BY <2>2 DEF Init, Counted, Absent
<1>3. ProviderInfoTracked BY DEF Init, ProviderInfoTracked, Absent
<1>4. CacheBuilt BY DEF Init, CacheBuilt, NoEntry, IdleReader
<1> QED BY <1>1, <1>2, <1>3, <1>4 DEF IInv, Counts

LEMMA NextIInv == IInv /\ [Next]_vars => IInv'
<1> SUFFICES ASSUME IInv, [Next]_vars PROVE IInv' OBVIOUS
<1>0. /\ models \in [Models -> Registration]
      /\ cache \in [Handlers -> CacheEntry]
      /\ reader \in [Readers -> [pc : {"idle", "called", "missed", "returned"},
                                 at : Times, models : Listing]]
      /\ now \in Times
  BY DEF IInv, TypeOK
<1>1. ASSUME NEW c \in Clients, NEW p \in Providers, NEW occ \in Occurrences,
             NEW info \in Infos, RegisterClient(c, p, occ, info)
      PROVE  IInv'
  BY <1>1, RegisterStep
<1>2. ASSUME NEW c \in Clients, UnregisterClient(c) PROVE IInv'
  BY <1>2, ForgetStep DEF UnregisterClient
<1>3. ASSUME NEW c \in Clients, NEW m \in Models, SetModelQuotaExceeded(c, m)
      PROVE  IInv'
  <2> DEFINE reg == models[m]
             quotaAt == [reg.quotaAt EXCEPT ![c] = now]
             suspended == reg.suspended
  <2>1. reg \in Registration BY <1>0
  <2>2. /\ reg.count # 0 /\ quotaAt \in [Clients -> Times \cup {Never}]
        /\ suspended \in [Clients -> Reasons]
    BY <1>0, <1>3, <2>1 DEF SetModelQuotaExceeded, Registration, Reasons
  <2>3. models' = [models EXCEPT ![m] = Remarked(reg, quotaAt, suspended)]
    BY <1>0, <1>3, <2>1 DEF SetModelQuotaExceeded, Registration, Remarked
  <2> QED BY <1>3, <2>2, <2>3, MarkStep DEF SetModelQuotaExceeded
<1>4. ASSUME NEW c \in Clients, NEW m \in Models, ClearModelQuotaExceeded(c, m)
      PROVE  IInv'
  <2> DEFINE reg == models[m]
             quotaAt == [reg.quotaAt EXCEPT ![c] = Never]
             suspended == reg.suspended
  <2>1. reg \in Registration BY <1>0
  <2>2. /\ reg.count # 0 /\ quotaAt \in [Clients -> Times \cup {Never}]
        /\ suspended \in [Clients -> Reasons]
    BY <1>0, <1>4, <2>1 DEF ClearModelQuotaExceeded, Registration, Reasons
  <2>3. models' = [models EXCEPT ![m] = Remarked(reg, quotaAt, suspended)]
    BY <1>0, <1>4, <2>1 DEF ClearModelQuotaExceeded, Registration, Remarked
  <2> QED BY <1>4, <2>2, <2>3, MarkStep DEF ClearModelQuotaExceeded
<1>5. ASSUME NEW c \in Clients, NEW m \in Models, NEW reason \in {"quota", "other"},
             SuspendClientModel(c, m, reason)
      PROVE  IInv'
  <2> DEFINE reg == models[m]
             quotaAt == reg.quotaAt
             suspended == [reg.suspended EXCEPT ![c] = reason]
  <2>1. reg \in Registration BY <1>0
  <2>2. /\ reg.count # 0 /\ quotaAt \in [Clients -> Times \cup {Never}]
        /\ suspended \in [Clients -> Reasons]
    BY <1>0, <1>5, <2>1 DEF SuspendClientModel, Registration, Reasons
  <2>3. models' = [models EXCEPT ![m] = Remarked(reg, quotaAt, suspended)]
    BY <1>0, <1>5, <2>1 DEF SuspendClientModel, Registration, Remarked
  <2> QED BY <1>5, <2>2, <2>3, MarkStep DEF SuspendClientModel
<1>6. ASSUME NEW c \in Clients, NEW m \in Models, ResumeClientModel(c, m)
      PROVE  IInv'
  <2> DEFINE reg == models[m]
             quotaAt == reg.quotaAt
             suspended == [reg.suspended EXCEPT ![c] = "none"]
  <2>1. reg \in Registration BY <1>0
  <2>2. /\ reg.count # 0 /\ quotaAt \in [Clients -> Times \cup {Never}]
        /\ suspended \in [Clients -> Reasons]
    BY <1>0, <1>6, <2>1 DEF ResumeClientModel, Registration, Reasons
  <2>3. models' = [models EXCEPT ![m] = Remarked(reg, quotaAt, suspended)]
    BY <1>0, <1>6, <2>1 DEF ResumeClientModel, Registration, Remarked
  <2> QED BY <1>6, <2>2, <2>3, MarkStep DEF ResumeClientModel
<1>7. ASSUME CleanupExpiredQuotas PROVE IInv'
  <2> DEFINE quotaAt(m) == [c \in Clients |-> IF Stale(models[m], c) THEN Never
                                             ELSE models[m].quotaAt[c]]
  <2>1. models' = [m \in Models |-> [models[m] EXCEPT !.quotaAt = quotaAt(m)]]
    BY <1>7 DEF CleanupExpiredQuotas
  <2>2. ASSUME NEW m \in Models
        PROVE  /\ models'[m] \in Registration
               /\ models'[m].count = models[m].count
               /\ models'[m].providers = models[m].providers
               /\ models'[m].infoBy = models[m].infoBy
               /\ models[m].count = 0 => models'[m] = models[m]
    <3> DEFINE reg == models[m]
               q == quotaAt(m)
    <3>1. q \in [Clients -> Times \cup {Never}] BY <1>0 DEF Registration
    <3>2. reg.count = 0 => q = reg.quotaAt BY DEF IInv, TypeOK, Absent, Stale
    <3>3. reg \in Registration BY <1>0
    <3>4. models'[m] = [reg EXCEPT !.quotaAt = q] BY <2>1
    <3> HIDE DEF reg, q
    <3>5. reg.suspended \in [Clients -> Reasons] BY <3>3 DEF Registration
    <3>6. models'[m] = Remarked(reg, q, reg.suspended)
      BY <3>3, <3>4 DEF Registration, Remarked
    <3>7. /\ models'[m] \in Registration
          /\ models'[m].count = reg.count
          /\ models'[m].providers = reg.providers
          /\ models'[m].infoBy = reg.infoBy
      BY <3>1, <3>3, <3>5, <3>6, Marked
    <3>8. reg.count = 0 => models'[m] = reg BY <3>2, <3>3, <3>4 DEF Registration
    <3> QED BY <3>7, <3>8 DEF reg
  <2>3. models' \in [Models -> Registration] BY <2>1, <2>2
  <2> QED BY <1>7, <2>2, <2>3, MarksStep DEF CleanupExpiredQuotas
<1>8. ASSUME NEW r \in Readers, CallGetAvailable(r) PROVE IInv'
  <2>1. CacheBuilt' BY <1>0, <1>8 DEF CallGetAvailable, IInv, CacheBuilt, Times
  <2> QED BY <1>0, <1>8, <2>1, ReaderStep DEF CallGetAvailable, Bindings, Listing
<1>9. ASSUME NEW r \in Readers, NEW h \in Handlers, ReadCache(r, h) PROVE IInv'
  <2>1. CacheBuilt'
    <3>1. \A x \in Readers : reader'[x].at = reader[x].at BY <1>0, <1>9 DEF ReadCache
    <3> QED BY <1>9, <3>1 DEF ReadCache, IInv, CacheBuilt
  <2> QED BY <1>0, <1>9, <2>1, ReaderStep DEF ReadCache, Bindings, CacheEntry
<1>10. ASSUME NEW r \in Readers, NEW h \in Handlers, FillCache(r, h) PROVE IInv'
  <2> DEFINE built == BuildListing(models, reader[r].at)
             entry == [valid |-> TRUE, models |-> built,
                       expires |-> BuildExpiry(models, reader[r].at)]
  <2>1. built \in Listing /\ entry \in CacheEntry
    BY <1>0, ListingType, ExpiryType DEF CacheEntry
  <2>2. /\ cache' = cache \/ cache' = [cache EXCEPT ![h] = entry]
        /\ \E shown \in {built, cache[h].models} :
             reader' = [reader EXCEPT ![r].pc = "returned", ![r].models = shown]
    BY <1>10 DEF FillCache
  <2>a. reader[r].at \in 0..now BY <1>0 DEF IInv, CacheBuilt, Times
  <2>b. /\ entry.models = BuildListing(models, reader[r].at)
        /\ entry.expires = BuildExpiry(models, reader[r].at)
    OBVIOUS
  <2>c. UNCHANGED <<models, now>> BY <1>10 DEF FillCache
  <2> HIDE DEF built, entry
  <2>3. cache' \in [Handlers -> CacheEntry] BY <1>0, <2>1, <2>2
  <2>4. PICK shown \in Listing :
          reader' = [reader EXCEPT ![r].pc = "returned", ![r].models = shown]
    BY <1>0, <2>1, <2>2 DEF CacheEntry
  <2>5. reader' \in [Readers -> [pc : {"idle", "called", "missed", "returned"},
                                 at : Times, models : Listing]]
    BY <1>0, <2>4
  <2>6. CacheBuilt'
    <3>1. \A x \in Readers : reader'[x].at = reader[x].at BY <1>0, <2>4
    <3>2. ASSUME NEW k \in Handlers, cache'[k].valid
          PROVE  \E t \in 0..now : /\ cache'[k].models = BuildListing(models, t)
                                  /\ cache'[k].expires = BuildExpiry(models, t)
      <4>1. CASE cache'[k] = cache[k] BY <3>2, <4>1 DEF IInv, CacheBuilt
      <4>2. CASE cache'[k] = entry BY <2>a, <2>b, <4>2
      <4> QED BY <1>0, <2>2, <4>1, <4>2
    <3> QED BY <2>c, <3>1, <3>2 DEF IInv, CacheBuilt
  <2> QED BY <1>0, <1>10, <2>3, <2>5, <2>6, ReaderStep DEF FillCache, Bindings
<1>11. ASSUME NEW r \in Readers, Return(r) PROVE IInv'
  <2>1. CacheBuilt' BY <1>0, <1>11 DEF Return, IInv, CacheBuilt, IdleReader, Times
  <2> QED BY <1>0, <1>11, <2>1, TimeAssumption, ReaderStep
          DEF Return, Bindings, IdleReader, Listing, Times
<1>12. ASSUME Tick PROVE IInv'
  <2>1. 0..now \subseteq 0..now' BY <1>0, <1>12, TimeAssumption DEF Tick, Times
  <2>2. \A r \in Readers : reader[r].at <= now'
    BY <1>0, <1>12, TimeAssumption DEF Tick, IInv, CacheBuilt, Times
  <2>3. CacheBuilt' BY <1>12, <2>1, <2>2 DEF Tick, IInv, CacheBuilt
  <2> QED BY <1>0, <1>12, <2>3, TimeAssumption, ReaderStep DEF Tick, Bindings, Times
<1>13. ASSUME UNCHANGED vars PROVE IInv'
  <2>1. CacheBuilt' BY <1>13 DEF vars, IInv, CacheBuilt
  <2> QED BY <1>0, <1>13, <2>1, ReaderStep DEF vars, Bindings
<1> QED
  BY <1>1, <1>2, <1>3, <1>4, <1>5, <1>6, <1>7, <1>8, <1>9, <1>10, <1>11, <1>12, <1>13
     DEF Next

-----------------------------------------------------------------------------
(* What readers are shown. *)

\* Until a listing expires, it is the listing: the clients over quota when it was
\* built are still over quota.
LEMMA ListingLasts ==
  ASSUME models \in [Models -> Registration], NEW t0 \in Times, NEW t \in Times, t0 <= t,
         BuildExpiry(models, t0) = Never \/ t < BuildExpiry(models, t0)
  PROVE  BuildListing(models, t) = BuildListing(models, t0)
<1> DEFINE ends == UNION {{models[m].quotaAt[c] + QuotaWindow : c \in OverQuota(models[m], t0)}
                          : m \in Models}
<1>1. ASSUME NEW m \in Models, NEW c \in Clients
      PROVE  /\ models[m].quotaAt[c] \in Times \cup {Never}
             /\ models[m].quotaAt[c] # Never =>
                  models[m].quotaAt[c] \in Nat /\ models[m].quotaAt[c] + QuotaWindow \in Nat
  BY TimeAssumption DEF Registration, Times, Never
<1>2. ASSUME NEW e \in ends PROVE t < e
  <2>1. ends \subseteq Nat BY <1>1 DEF OverQuota
  <2>2. BuildExpiry(models, t0) = CHOOSE x \in ends : \A y \in ends : x <= y
    BY DEF BuildExpiry
  <2> HIDE DEF ends
  <2>3. \E x \in ends : \A y \in ends : x <= y BY <2>1, LeastElement
  <2>4. /\ BuildExpiry(models, t0) \in ends
        /\ \A y \in ends : BuildExpiry(models, t0) <= y
    BY <2>2, <2>3
  <2>5. BuildExpiry(models, t0) # Never BY <2>1, <2>4 DEF Never
  <2>6. t \in Nat BY TimeAssumption DEF Times
  <2>7. e \in Nat /\ BuildExpiry(models, t0) \in Nat /\ BuildExpiry(models, t0) <= e
    BY <1>2, <2>1, <2>4
  <2>8. t < BuildExpiry(models, t0) BY <2>5
  <2> QED BY ONLY <2>6, <2>7, <2>8
<1>3. ASSUME NEW m \in Models PROVE OverQuota(models[m], t) = OverQuota(models[m], t0)
  <2>1. ASSUME NEW c \in OverQuota(models[m], t) PROVE c \in OverQuota(models[m], t0)
    BY <1>1, TimeAssumption DEF OverQuota, Times
  <2>2. ASSUME NEW c \in OverQuota(models[m], t0) PROVE c \in OverQuota(models[m], t)
    <3>1. models[m].quotaAt[c] + QuotaWindow \in ends OBVIOUS
    <3>2. t < models[m].quotaAt[c] + QuotaWindow BY <1>2, <3>1
    <3> QED BY <3>2 DEF OverQuota
  <2> QED BY <2>1, <2>2
<1>4. \A m \in Models : Listed(models[m], t) <=> Listed(models[m], t0)
  BY <1>3 DEF Listed
<1> QED BY <1>4 DEF BuildListing

\* A reader that finds a valid entry is shown the listing of an instant since it
\* called.
LEMMA HitIsFresh ==
  ASSUME IInv, NEW r \in Readers, NEW h \in Handlers, CacheValid(cache[h], reader[r].at)
  PROVE  \E t \in reader[r].at..now : cache[h].models = BuildListing(models, t)
<1>1. models \in [Models -> Registration] /\ now \in Times /\ reader[r].at \in Times
  BY DEF IInv, TypeOK
<1>2. PICK t0 \in 0..now : /\ cache[h].models = BuildListing(models, t0)
                           /\ cache[h].expires = BuildExpiry(models, t0)
  BY DEF IInv, CacheBuilt, CacheValid
<1>3. reader[r].at <= now BY DEF IInv, CacheBuilt
<1>4. now \in Nat /\ reader[r].at \in Nat /\ t0 \in Nat /\ t0 \in Times
  BY <1>1, <1>2, TimeAssumption DEF Times
<1>5. CASE reader[r].at <= t0 BY <1>2, <1>4, <1>5
<1>6. CASE ~(reader[r].at <= t0)
  <2>1. t0 <= reader[r].at BY <1>4, <1>6
  <2>2. BuildExpiry(models, t0) = Never \/ reader[r].at < BuildExpiry(models, t0)
    BY <1>2 DEF CacheValid
  <2>3. BuildListing(models, reader[r].at) = BuildListing(models, t0)
    BY <1>1, <1>4, <2>1, <2>2, ListingLasts
  <2> QED BY <1>2, <1>3, <1>4, <2>3
<1> QED BY <1>5, <1>6

\* A step that shows a reader something shows it the listing of such an instant.
LEMMA ReadsAreFresh ==
  ASSUME IInv, [Next]_vars, NEW r \in Readers,
         reader[r].pc # "returned", reader'[r].pc = "returned"
  PROVE  \E t \in reader[r].at..now : reader'[r].models = BuildListing(models, t)
<1>0. /\ reader \in [Readers -> [pc : {"idle", "called", "missed", "returned"},
                                 at : Times, models : Listing]]
      /\ now \in Times
  BY DEF IInv, TypeOK
<1>1. PICK x \in Readers, h \in Handlers : ReadCache(x, h) \/ FillCache(x, h)
  <2>1. CASE \E x \in Readers : CallGetAvailable(x) BY <1>0, <2>1 DEF CallGetAvailable
  <2>2. CASE \E x \in Readers : Return(x) BY <1>0, <2>2 DEF Return, IdleReader
  <2>3. CASE UNCHANGED reader BY <2>3
  <2>4. (\A x \in Readers, h \in Handlers : ~(ReadCache(x, h) \/ FillCache(x, h)))
          => (\E x \in Readers : CallGetAvailable(x) \/ Return(x)) \/ UNCHANGED reader
    BY DEF Next, vars, RegisterClient, UnregisterClient, SetModelQuotaExceeded,
           ClearModelQuotaExceeded, SuspendClientModel, ResumeClientModel,
           CleanupExpiredQuotas, Tick
  <2> QED BY <2>1, <2>2, <2>3, <2>4
<1>2. CASE ReadCache(x, h)
  <2>1. x = r /\ CacheValid(cache[h], reader[r].at) /\ reader'[r].models = cache[h].models
    BY <1>0, <1>2 DEF ReadCache
  <2> QED BY <2>1, HitIsFresh
<1>3. CASE FillCache(x, h)
  <2>1. PICK shown : /\ reader' = [reader EXCEPT ![x].pc = "returned", ![x].models = shown]
                     /\ IF CacheValid(cache[h], reader[x].at) THEN shown = cache[h].models
                        ELSE shown = BuildListing(models, reader[x].at)
    BY <1>3 DEF FillCache
  <2>2. x = r /\ reader'[r].models = shown BY <1>0, <2>1
  <2>3. reader[r].at \in reader[r].at..now
    BY <1>0, TimeAssumption DEF IInv, CacheBuilt, Times
  <2> QED BY <2>1, <2>2, <2>3, HitIsFresh
<1> QED BY <1>1, <1>2, <1>3

-----------------------------------------------------------------------------
(* Theorems. *)

\* The registry is always well typed, and an absent registration carries
\* nothing over to the next one (RegisterClient, unregisterClientInternal).
THEOREM TypeCorrect == Spec => []TypeOK
<1>1. IInv => TypeOK BY DEF IInv
<1> QED BY <1>1, InitIInv, NextIInv, PTL DEF Spec

\* ModelRegistration.Count is always the number of references held on the model,
\* for any clients, list lengths and sequence of registrations and removals.
THEOREM CountsExact == Spec => []CountExact
<1>1. IInv => CountExact BY CountedIsExact DEF IInv, TypeOK, Counts
<1> QED BY <1>1, InitIInv, NextIInv, PTL DEF Spec

\* The per-provider counts that GetModelProviders routes by are always exact, through
\* provider changes and partial overlaps of model lists, and a provider's metadata is kept
\* exactly as long as the provider has a reference.
THEOREM ProvidersAlwaysExact == Spec => []ProvidersExact
<1>1. IInv => ProvidersCounted BY CountedIsExact DEF IInv, TypeOK, Counts
<1>2. IInv => ProvidersExact BY <1>1 DEF IInv, ProvidersExact
<1> QED BY <1>2, InitIInv, NextIInv, PTL DEF Spec

\* What GetAvailableModels returns was the listing at an instant between its call
\* and its return, although it reads the clock before it takes the locks and may be
\* answered from an entry that another reader built with an older or a newer clock.
THEOREM ReadsAlwaysFresh == Spec => ReadIsFresh
<1>1. IInv /\ [Next]_vars =>
        [\A r \in Readers :
           reader[r].pc # "returned" /\ reader'[r].pc = "returned" =>
             \E t \in reader[r].at..now : reader'[r].models = BuildListing(models, t)]_vars
  BY ReadsAreFresh
<1> QED BY <1>1, InitIInv, NextIInv, PTL DEF Spec, ReadIsFresh

-----------------------------------------------------------------------------
(* CodexExecutor: what the catalog says of a model. *)

Described == [user : BOOLEAN, reasons : BOOLEAN, Levels : Seq(STRING), Min : Nat, Max : Nat,
          ZeroAllowed : BOOLEAN, DynamicAllowed : BOOLEAN]

Offered == {"none", "minimal", "low", "medium", "high", "xhigh"}

\* A model that reasons in levels, as the catalog describes them.
InLevels(info) ==
  /\ info \in Described /\ info.reasons /\ ~info.user /\ info.Levels # <<>> /\ info.Min = 0 /\ info.Max = 0
  /\ ~info.ZeroAllowed /\ ~info.DynamicAllowed
  /\ Range(info.Levels) \subseteq Offered /\ "medium" \in Range(info.Levels)
  /\ \A i, j \in DOMAIN info.Levels : i < j =>
       levelToBudgetMap[info.Levels[i]] < levelToBudgetMap[info.Levels[j]]

LEMMA CatalogInLevels ==
  ASSUME NEW m \in DOMAIN InfoOf, InfoOf[m].Levels # <<>>, ~HasBudget(InfoOf[m])
  PROVE  InLevels(InfoOf[m])
<1> DEFINE info == InfoOf[m]
<1>1. /\ info \in Described
      /\ info.reasons /\ ~info.user
      /\ ~info.ZeroAllowed /\ ~info.DynamicAllowed
      /\ Range(info.Levels) \subseteq Offered /\ "medium" \in Range(info.Levels)
      /\ \A i, j \in DOMAIN info.Levels : i < j =>
           levelToBudgetMap[info.Levels[i]] < levelToBudgetMap[info.Levels[j]]
  BY CatalogAssumption DEF CatalogAssumption, Described, Offered
<1>2. info.Min = 0 /\ info.Max = 0
  <2>1. info.Min \in Nat /\ info.Max \in Nat
    BY <1>1 DEF Described
  <2> HIDE DEF info
  <2> QED BY <2>1 DEF HasBudget, info
<1> QED BY <1>1, <1>2 DEF InLevels

\* The standard levels, by their places.
LEMMA Standard ==
  /\ DOMAIN standardLevelOrder = 1..6
  /\ standardLevelOrder[1] = "minimal" /\ standardLevelOrder[2] = "low" /\ standardLevelOrder[3] = "medium"
  /\ standardLevelOrder[4] = "high" /\ standardLevelOrder[5] = "xhigh" /\ standardLevelOrder[6] = "max"
  /\ StandardLevels = {"minimal", "low", "medium", "high", "xhigh", "max"}
<1>1. /\ DOMAIN standardLevelOrder = 1..6
      /\ standardLevelOrder[1] = "minimal" /\ standardLevelOrder[2] = "low" /\ standardLevelOrder[3] = "medium"
      /\ standardLevelOrder[4] = "high" /\ standardLevelOrder[5] = "xhigh" /\ standardLevelOrder[6] = "max"
  BY DEF standardLevelOrder
<1>2. \A i \in 1..6 : i = 1 \/ i = 2 \/ i = 3 \/ i = 4 \/ i = 5 \/ i = 6
  OBVIOUS
<1> QED BY <1>1, <1>2 DEF StandardLevels, Range

\* What the levels cost.
LEMMA Budgets ==
  /\ levelToBudgetMap["none"] = 0 /\ levelToBudgetMap["minimal"] = 512 /\ levelToBudgetMap["low"] = 1024
  /\ levelToBudgetMap["medium"] = 8192 /\ levelToBudgetMap["high"] = 24576 /\ levelToBudgetMap["xhigh"] = 32768
  BY DEF levelToBudgetMap

LEMMA Placed ==
  /\ levelIndex("minimal") = 1 /\ levelIndex("low") = 2 /\ levelIndex("medium") = 3
  /\ levelIndex("high") = 4 /\ levelIndex("xhigh") = 5
<1>1. ASSUME NEW k \in 1..6 PROVE levelIndex(standardLevelOrder[k]) = k
  <2>1. \A i \in 1..6 : standardLevelOrder[i] = standardLevelOrder[k] => i = k
    BY Standard
  <2> QED BY <2>1, Standard DEF levelIndex
<1> QED BY <1>1, Standard

-----------------------------------------------------------------------------
(* Validation, for a model that reasons in levels. *)

LEMMA LevelCapability ==
  ASSUME NEW info, InLevels(info)
  PROVE  detectModelCapability(info) = "level" /\ ~HasBudget(info) /\ info.Levels # <<>>
BY DEF InLevels, detectModelCapability, HasBudget

\* A request for a level comes through validation as it is or not at all.
LEMMA ValidLevel ==
  ASSUME NEW info, InLevels(info), NEW level \in StandardLevels, NEW from \in {"openai", "openai-response"}, NEW suffixed
  PROVE  ValidateConfig(Config("level", 0, level), info, from, "codex", suffixed)
           = IF level \in Range(info.Levels) THEN Config("level", 0, level) ELSE Refused
<1> DEFINE c == Config("level", 0, level)
<1>1. c.Mode = "level" /\ c.Level = level /\ c.Budget = 0 /\ level # "none" /\ level # "auto"
  BY Standard DEF Config
<1>2. Refused.Mode = "error"
  BY DEF Refused, Config
<1> HIDE DEF c
<1>3. Translated(c, info) = c
  BY <1>1, LevelCapability DEF Translated
<1>4. Normalised(c) = c
  BY <1>1 DEF Normalised
<1>5. isSameProviderFamily(from, "codex")
  BY DEF isSameProviderFamily, isOpenAIFamily
<1>6. Supported(c, info, from, "codex") = IF level \in Range(info.Levels) THEN c ELSE Refused
  BY <1>1, <1>5, LevelCapability DEF Supported, HasLevel
<1>7. \A x, strict : x.Mode \in {"level", "error"} => InRange(x, info, strict) = x /\ Clamped(x, info) = x
  BY DEF InRange, Clamped
<1> QED BY <1>1, <1>2, <1>3, <1>4, <1>6, <1>7 DEF ValidateConfig, c

\* None comes through as none, and automatic as "medium".
LEMMA ValidNone ==
  ASSUME NEW info, InLevels(info), NEW from, NEW suffixed
  PROVE  ValidateConfig(None, info, from, "codex", suffixed) = None
<1>1. None.Mode = "none" /\ None.Budget = 0 /\ None.Level = "" /\ None = [Mode |-> "none", Budget |-> 0, Level |-> ""]
  BY DEF None, Config
<1>2. Translated(None, info) = None
  BY <1>1 DEF Translated
<1>3. Normalised(None) = None
  BY <1>1 DEF Normalised
<1>4. Supported(None, info, from, "codex") = None
  BY <1>1 DEF Supported
<1>5. \A strict : InRange(None, info, strict) = None
  BY <1>1 DEF InRange
<1>6. Clamped(None, info) = None
  <2>0. None.Budget = 0 /\ None.Mode = "none"
    BY <1>1
  <2>1. clampBudget(None.Budget, info) = 0
    BY <2>0 DEF clampBudget, InLevels
  <2>2. Config(None.Mode, 0, None.Level) = None
    BY <1>1 DEF None
  <2>5. Clamped(None, info) = Config(None.Mode, 0, None.Level)
    BY <2>0, <2>1 DEF Clamped
  <2> QED BY <2>2, <2>5
<1> QED BY <1>1, <1>2, <1>3, <1>4, <1>5, <1>6 DEF ValidateConfig

LEMMA ValidAuto ==
  ASSUME NEW info, InLevels(info), NEW from, NEW suffixed, NEW c \in {Automatic, Config("level", 0, "auto")}
  PROVE  ValidateConfig(c, info, from, "codex", suffixed) = Config("level", 0, "medium")
<1>1. Automatic.Mode = "auto" /\ Automatic.Budget = -1 /\ Automatic.Level = ""
  BY DEF Automatic, Config
<1>2. Config("level", 0, "auto").Mode = "level" /\ Config("level", 0, "auto").Level = "auto"
  BY DEF Config
<1>3. Config("level", 0, "medium").Mode = "level"
  BY DEF Config
<1>4. Translated(c, info) = c
  BY <1>1, <1>2, LevelCapability DEF Translated
<1>5. Normalised(c) = Automatic
  BY <1>1, <1>2 DEF Normalised
<1>6. Supported(Automatic, info, from, "codex") = Automatic
  BY <1>1 DEF Supported
<1>7. \A strict : InRange(Automatic, info, strict) = Automatic
  BY <1>1 DEF InRange
<1>8. convertAutoToMidRange(info) = Config("level", 0, "medium")
  BY LevelCapability DEF convertAutoToMidRange
<1>9. ~info.DynamicAllowed
  BY DEF InLevels
<1>10. Clamped(Config("level", 0, "medium"), info) = Config("level", 0, "medium")
  BY <1>3 DEF Clamped
<1> QED BY <1>1, <1>4, <1>5, <1>6, <1>7, <1>8, <1>9, <1>10 DEF ValidateConfig

\* The nearest place of a set of places, the lower one of two.
Closest(K, pos, i) ==
  /\ i \in K
  /\ \A j \in K : Distance(i, pos) < Distance(j, pos) \/ (Distance(i, pos) = Distance(j, pos) /\ i <= j)

LEMMA ClosestExists ==
  ASSUME NEW K, K # {}, K \subseteq 1..6, NEW pos \in 1..6
  PROVE  \E i \in K : Closest(K, pos, i)
<1> DEFINE cost(i) == 10 * Distance(i, pos) + i
           S == {cost(i) : i \in K}
<1>1. \A i \in K : i \in 1..6 /\ Distance(i, pos) \in Nat /\ cost(i) \in Nat
  BY DEF Distance
<1>2. S # {} /\ S \subseteq Nat
  <2> HIDE DEF cost
  <2> QED BY <1>1
<1>3. PICK m \in S : \A n \in S : ~(<<n, m>> \in OpToRel(<, Nat))
  <2> HIDE DEF S
  <2> QED BY <1>2, NatLessThanWellFounded, WFMin
<1>4. PICK i \in K : m = cost(i)
  BY <1>3
<1>5. ASSUME NEW j \in K PROVE ~(cost(j) < cost(i))
  <2>1. cost(j) \in S /\ cost(j) \in Nat /\ m \in Nat
    BY <1>1, <1>4
  <2>2. ~(<<cost(j), m>> \in OpToRel(<, Nat))
    BY <1>3, <2>1
  <2> HIDE DEF cost, S
  <2> QED BY <1>4, <2>1, <2>2 DEF OpToRel
<1>6. ASSUME NEW j \in K
      PROVE  Distance(i, pos) < Distance(j, pos) \/ (Distance(i, pos) = Distance(j, pos) /\ i <= j)
  <2>1. ~(10 * Distance(j, pos) + j < 10 * Distance(i, pos) + i)
    BY <1>5
  <2>2. i \in 1..6 /\ j \in 1..6 /\ Distance(i, pos) \in Nat /\ Distance(j, pos) \in Nat
    BY <1>1, <1>4
  <2> QED BY <2>1, <2>2
<1> QED BY <1>6 DEF Closest

\* Of two places, the higher one's closest is not lower.
LEMMA ClosestRises ==
  ASSUME NEW K, K \subseteq 1..6, NEW p \in 1..6, NEW q \in 1..6, p <= q, NEW i, NEW j,
         Closest(K, p, i), Closest(K, q, j)
  PROVE  i <= j
<1>1. i \in K /\ j \in K /\ i \in 1..6 /\ j \in 1..6
  BY DEF Closest
<1>2. Distance(i, p) < Distance(j, p) \/ (Distance(i, p) = Distance(j, p) /\ i <= j)
  BY <1>1 DEF Closest
<1>3. Distance(j, q) < Distance(i, q) \/ (Distance(j, q) = Distance(i, q) /\ j <= i)
  BY <1>1 DEF Closest
<1> QED BY <1>1, <1>2, <1>3 DEF Distance

\* The places of a model's levels.
PlacesOf(info) == {i \in DOMAIN standardLevelOrder : HasLevel(info.Levels, standardLevelOrder[i])}

\* The level that a number of tokens stands for, and its place.
LEMMA NumberLevel ==
  ASSUME NEW n \in Nat, n > 0
  PROVE  LET level == ConvertBudgetToLevel(n)
         IN  /\ level \in {"minimal", "low", "medium", "high", "xhigh"}
             /\ levelIndex(level) = IF n <= 512 THEN 1 ELSE IF n <= 1024 THEN 2 ELSE IF n <= 8192 THEN 3
                                    ELSE IF n <= 24576 THEN 4 ELSE 5
<1>1. CASE n <= 512
  <2>1. ConvertBudgetToLevel(n) = "minimal"
    BY <1>1 DEF ConvertBudgetToLevel
  <2> QED BY <1>1, <2>1, Placed
<1>2. CASE n > 512 /\ n <= 1024
  <2>1. ConvertBudgetToLevel(n) = "low"
    BY <1>2 DEF ConvertBudgetToLevel
  <2> QED BY <1>2, <2>1, Placed
<1>3. CASE n > 1024 /\ n <= 8192
  <2>1. ConvertBudgetToLevel(n) = "medium"
    BY <1>3 DEF ConvertBudgetToLevel
  <2> QED BY <1>3, <2>1, Placed
<1>4. CASE n > 8192 /\ n <= 24576
  <2>1. ConvertBudgetToLevel(n) = "high"
    BY <1>4 DEF ConvertBudgetToLevel
  <2> QED BY <1>4, <2>1, Placed
<1>5. CASE n > 24576
  <2>1. ConvertBudgetToLevel(n) = "xhigh"
    BY <1>5 DEF ConvertBudgetToLevel
  <2> QED BY <1>5, <2>1, Placed
<1> QED BY <1>1, <1>2, <1>3, <1>4, <1>5

\* clampLevel gives a level of the model, at the closest place.
LEMMA LevelClamped ==
  ASSUME NEW info, InLevels(info), NEW k \in 1..6
  PROVE  LET level == clampLevel(standardLevelOrder[k], info)
         IN  /\ level \in Range(info.Levels)
             /\ \E i \in 1..5 : level = standardLevelOrder[i] /\ Closest(PlacesOf(info), k, i)
<1> DEFINE K == PlacesOf(info)
<1>1. K \subseteq 1..6 /\ 3 \in K /\ \A i \in K : standardLevelOrder[i] \in Range(info.Levels) /\ i # 6
  BY Standard DEF PlacesOf, HasLevel, InLevels, Offered
<1>2. levelIndex(standardLevelOrder[k]) = k
  <2>1. \A i \in 1..6 : standardLevelOrder[i] = standardLevelOrder[k] => i = k
    BY Standard
  <2> QED BY <2>1, Standard DEF levelIndex
<1>3. standardLevelOrder[k] \in StandardLevels /\ info.Levels # <<>>
  BY Standard DEF InLevels
<1>4. CASE HasLevel(info.Levels, standardLevelOrder[k])
  <2>1. clampLevel(standardLevelOrder[k], info) = standardLevelOrder[k]
    BY <1>4 DEF clampLevel
  <2>2. k \in K
    BY <1>4, Standard DEF PlacesOf
  <2>3. Closest(K, k, k)
    BY <1>1, <2>2 DEF Closest, Distance
  <2> QED BY <1>1, <2>1, <2>2, <2>3
<1>5. CASE ~HasLevel(info.Levels, standardLevelOrder[k])
  <2> DEFINE i == CHOOSE i \in K : \A j \in K :
               Distance(i, k) < Distance(j, k) \/ (Distance(i, k) = Distance(j, k) /\ i <= j)
  <2>1. \E x \in K : Closest(K, k, x)
    <3> HIDE DEF K
    <3> QED BY <1>1, ClosestExists
  <2>2. Closest(K, k, i)
    BY <2>1 DEF Closest
  <2>3. clampLevel(standardLevelOrder[k], info) = standardLevelOrder[i]
    BY <1>1, <1>2, <1>3, <1>5 DEF clampLevel, PlacesOf
  <2> HIDE DEF i
  <2>4. i \in K
    BY <2>2 DEF Closest
  <2> QED BY <1>1, <2>2, <2>3, <2>4
<1> QED BY <1>4, <1>5

\* A number of tokens comes through as the model's level that is closest to it.
LEMMA ValidBudget ==
  ASSUME NEW info, InLevels(info), NEW n \in Nat, n > 0, NEW from, NEW suffixed
  PROVE  LET level == clampLevel(ConvertBudgetToLevel(n), info)
         IN  ValidateConfig(Config("budget", n, ""), info, from, "codex", suffixed) = Config("level", 0, level)
<1> DEFINE c == Config("budget", n, "")
           level == clampLevel(ConvertBudgetToLevel(n), info)
           d == Config("level", 0, level)
<1>1. c.Mode = "budget" /\ c.Budget = n
  BY DEF Config
<1>2. ConvertBudgetToLevel(n) \in {"minimal", "low", "medium", "high", "xhigh"}
  BY NumberLevel
<1>3. \E k \in 1..6 : ConvertBudgetToLevel(n) = standardLevelOrder[k]
  BY <1>2, Standard
<1>4. level \in Range(info.Levels) /\ \E i \in 1..5 : level = standardLevelOrder[i]
  BY <1>3, LevelClamped
<1>5. level # "none" /\ level # "auto"
  <2>1. PICK i \in 1..5 : level = standardLevelOrder[i]
    BY <1>4
  <2> HIDE DEF level
  <2>2. i \in 1..6
    OBVIOUS
  <2> QED BY <2>1, <2>2, Standard
<1> HIDE DEF level
<1>6. d.Mode = "level" /\ d.Level = level
  BY DEF Config
<1> HIDE DEF c, d
<1>7. Translated(c, info) = d
  BY <1>1, <1>2, LevelCapability DEF Translated, d, level
<1>8. Normalised(d) = d
  BY <1>5, <1>6 DEF Normalised
<1>9. Supported(d, info, from, "codex") = d
  BY <1>4, <1>6 DEF Supported, HasLevel
<1>10. \A strict : InRange(d, info, strict) = d
  BY <1>6 DEF InRange
<1>11. Clamped(d, info) = d
  BY <1>6 DEF Clamped
<1>12. ValidateConfig(c, info, from, "codex", suffixed) = d
  BY <1>6, <1>7, <1>8, <1>9, <1>10, <1>11 DEF ValidateConfig
<1> QED BY <1>12 DEF c, d, level

\* The place of a level in a model.
PlaceIn(info, level) == CHOOSE i \in DOMAIN info.Levels : info.Levels[i] = level

\* It rises with what the level costs.
LEMMA PlacesRise ==
  ASSUME NEW info, InLevels(info), NEW a \in Range(info.Levels), NEW b \in Range(info.Levels),
         levelToBudgetMap[a] <= levelToBudgetMap[b]
  PROVE  PlaceIn(info, a) <= PlaceIn(info, b)
<1>1. info.Levels \in Seq(STRING) /\ DOMAIN info.Levels = 1..Len(info.Levels) /\ Len(info.Levels) \in Nat
  BY DEF InLevels, Described
<1>2. PICK i \in DOMAIN info.Levels : i = PlaceIn(info, a) /\ info.Levels[i] = a
  BY DEF PlaceIn, Range
<1>3. PICK j \in DOMAIN info.Levels : j = PlaceIn(info, b) /\ info.Levels[j] = b
  BY DEF PlaceIn, Range
<1>4. \A level \in Offered : levelToBudgetMap[level] \in Nat
  BY Budgets DEF Offered
<1>5. levelToBudgetMap[a] \in Nat /\ levelToBudgetMap[b] \in Nat
  BY <1>4 DEF InLevels
<1>6. ~(j < i)
  <2>1. j < i => levelToBudgetMap[b] < levelToBudgetMap[a]
    BY <1>2, <1>3 DEF InLevels
  <2> QED BY <1>5, <2>1
<1> QED BY <1>1, <1>2, <1>3, <1>6

\* What a number of tokens asks for: a level of the model, the one that costs as much if
\* there is one, and no less for more.
LEMMA NumbersRise ==
  ASSUME NEW info, InLevels(info), NEW n \in Nat, n > 0
  PROVE  LET level == clampLevel(ConvertBudgetToLevel(n), info)
         IN  /\ level \in Range(info.Levels)
             /\ \A other \in Range(info.Levels) : levelToBudgetMap[other] = n => level = other
             /\ \A m \in Nat : m > n =>
                  PlaceIn(info, level) <= PlaceIn(info, clampLevel(ConvertBudgetToLevel(m), info))
<1> DEFINE At(x) == IF x <= 512 THEN 1 ELSE IF x <= 1024 THEN 2 ELSE IF x <= 8192 THEN 3
                    ELSE IF x <= 24576 THEN 4 ELSE 5
           Of(x) == clampLevel(ConvertBudgetToLevel(x), info)
           K == PlacesOf(info)
<1>1. ASSUME NEW x \in Nat, x > 0
      PROVE  At(x) \in 1..6 /\ ConvertBudgetToLevel(x) = standardLevelOrder[At(x)]
  <2>1. /\ ConvertBudgetToLevel(x) \in {"minimal", "low", "medium", "high", "xhigh"}
        /\ levelIndex(ConvertBudgetToLevel(x)) = At(x)
    BY <1>1, NumberLevel
  <2>2. At(x) \in 1..6
    OBVIOUS
  <2> HIDE DEF At
  <2> QED BY <2>1, <2>2, Placed, Standard
<1>2. ASSUME NEW x \in Nat, x > 0
      PROVE  Of(x) \in Range(info.Levels) /\ \E i \in 1..5 : Of(x) = standardLevelOrder[i] /\ Closest(K, At(x), i)
  <2> HIDE DEF At, K
  <2> QED BY <1>1, <1>2, LevelClamped DEF K
<1>3. ASSUME NEW other \in Range(info.Levels), levelToBudgetMap[other] = n PROVE Of(n) = other
  <2>1. other \in Offered
    BY DEF InLevels
  <2>2. ConvertBudgetToLevel(n) = other
    <3>1. CASE other = "none"
      BY <1>3, <3>1, Budgets
    <3>2. CASE other = "minimal"
      BY <1>3, <3>2, Budgets DEF ConvertBudgetToLevel
    <3>3. CASE other = "low"
      BY <1>3, <3>3, Budgets DEF ConvertBudgetToLevel
    <3>4. CASE other = "medium"
      BY <1>3, <3>4, Budgets DEF ConvertBudgetToLevel
    <3>5. CASE other = "high"
      BY <1>3, <3>5, Budgets DEF ConvertBudgetToLevel
    <3>6. CASE other = "xhigh"
      BY <1>3, <3>6, Budgets DEF ConvertBudgetToLevel
    <3> QED BY <2>1, <3>1, <3>2, <3>3, <3>4, <3>5, <3>6 DEF Offered
  <2>3. HasLevel(info.Levels, other)
    BY DEF HasLevel
  <2> QED BY <2>2, <2>3 DEF clampLevel
<1>4. ASSUME NEW m \in Nat, m > n PROVE PlaceIn(info, Of(n)) <= PlaceIn(info, Of(m))
  <2>1. PICK i \in 1..5 : Of(n) = standardLevelOrder[i] /\ Closest(K, At(n), i)
    <3> HIDE DEF Of, At, K
    <3> QED BY <1>2
  <2>2. PICK j \in 1..5 : Of(m) = standardLevelOrder[j] /\ Closest(K, At(m), j)
    <3> HIDE DEF Of, At, K
    <3> QED BY <1>2, <1>4
  <2>3. At(n) <= At(m) /\ At(n) \in 1..6 /\ At(m) \in 1..6
    BY <1>4
  <2>4. K \subseteq 1..6
    BY Standard DEF PlacesOf
  <2>5. Of(n) \in Range(info.Levels) /\ Of(m) \in Range(info.Levels)
    <3> HIDE DEF Of, At, K
    <3> QED BY <1>2, <1>4
  <2> HIDE DEF Of, At, K
  <2>6. i <= j
    <3>1. i \in 1..6 /\ j \in 1..6
      OBVIOUS
    <3> QED BY <2>1, <2>2, <2>3, <2>4, <3>1, ClosestRises
  <2>7. levelToBudgetMap[standardLevelOrder[i]] <= levelToBudgetMap[standardLevelOrder[j]]
    BY <2>6, Standard, Budgets
  <2> QED BY <2>1, <2>2, <2>5, <2>7, PlacesRise
<1> QED BY <1>2, <1>3, <1>4

-----------------------------------------------------------------------------
(* The model's name and its suffix. *)

\* The strings, of which these are some.
Token == STRING \union {"(", ")", "auto"}

LEMMA Wider == ASSUME NEW S, NEW T, S \subseteq T, NEW s \in Seq(S) PROVE s \in Seq(T)
OBVIOUS

LEMMA Tokens == /\ {"(", ")", "auto"} \subseteq Token /\ STRING \subseteq Token
                /\ DOMAIN NumberOf \subseteq Token /\ FirstModel \in Seq(Token)
<1>1. {"(", ")", "auto"} \subseteq Token /\ STRING \subseteq Token
  BY Zenon DEF Token
<1>2. DOMAIN NumberOf \subseteq Token
  <2>1. DOMAIN NumberOf \subseteq STRING
    BY NumberAssumption, Zenon DEF NumberAssumption
  <2> QED BY <1>1, <2>1, Zenon
<1>3. FirstModel \in Seq(Token)
  BY <1>1, ExecutorAssumption, Wider, Zenon DEF ExecutorAssumption
<1> QED BY <1>1, <1>2, <1>3

LEMMA Triple == ASSUME NEW S, NEW a \in S, NEW b \in S, NEW c \in S PROVE <<a, b, c>> \in Seq(S)
OBVIOUS

LEMMA MaxIs ==
  ASSUME NEW S, S \subseteq Int, NEW x \in S, \A y \in S : y <= x
  PROVE  Max(S) = x
<1>1. \A z \in S : (\A y \in S : z >= y) => z = x
  OBVIOUS
<1>2. \A y \in S : x >= y
  OBVIOUS
<1> QED BY <1>1, <1>2 DEF Max

\* A name with a suffix is parsed at its last parenthesis.
LEMMA Parsed ==
  ASSUME NEW base \in Seq(Token), NEW suffix \in Seq(Token), Len(suffix) >= 2,
         suffix[1] = "(", suffix[Len(suffix)] = ")", \A i \in 2..Len(suffix) : suffix[i] # "("
  PROVE  /\ ParseSuffix(base \o suffix).ModelName = base /\ ParseSuffix(base \o suffix).HasSuffix = TRUE
         /\ ParseSuffix(base \o suffix).RawSuffix
              = SubSeq(base \o suffix, Len(base) + 2, Len(base) + Len(suffix) - 1)
<1> DEFINE model == base \o suffix
<1>1. /\ model \in Seq(Token) /\ Len(model) = Len(base) + Len(suffix) /\ DOMAIN model = 1..Len(model)
      /\ \A i \in 1..Len(base) : model[i] = base[i]
      /\ \A i \in 1..Len(suffix) : model[Len(base) + i] = suffix[i]
      /\ Len(base) \in Nat /\ Len(suffix) \in Nat
  OBVIOUS
<1> HIDE DEF model
<1>2. model[Len(base) + 1] = "(" /\ Len(base) + 1 \in DOMAIN model
  BY <1>1
<1>3. ASSUME NEW i \in DOMAIN model, model[i] = "(" PROVE i <= Len(base) + 1
  <2>1. CASE i > Len(base) + 1
    <3>1. i - Len(base) \in 2..Len(suffix) /\ Len(base) + (i - Len(base)) = i
      BY <1>1, <2>1
    <3>2. model[i] = suffix[i - Len(base)]
      BY <1>1, <3>1
    <3> QED BY <1>3, <3>1, <3>2
  <2> QED BY <1>1, <2>1
<1>4. Opens(model) # {} /\ Max(Opens(model)) = Len(base) + 1
  <2>1. Opens(model) \subseteq Int /\ Len(base) + 1 \in Opens(model) /\ \A y \in Opens(model) : y <= Len(base) + 1
    BY <1>1, <1>2, <1>3 DEF Opens
  <2> QED BY <2>1, MaxIs
<1>5. Last(model) = ")"
  BY <1>1 DEF Last
<1>6. SubSeq(model, 1, Len(base)) = base
  BY <1>1
<1>7. ParseSuffix(model) = [ModelName |-> SubSeq(model, 1, Max(Opens(model)) - 1), HasSuffix |-> TRUE,
                            RawSuffix |-> SubSeq(model, Max(Opens(model)) + 1, Len(model) - 1)]
  BY <1>4, <1>5 DEF ParseSuffix
<1>8. /\ Max(Opens(model)) - 1 = Len(base) /\ Max(Opens(model)) + 1 = Len(base) + 2
      /\ Len(model) - 1 = Len(base) + Len(suffix) - 1
  BY <1>1, <1>4
<1>9. ParseSuffix(model) = [ModelName |-> base, HasSuffix |-> TRUE,
                            RawSuffix |-> SubSeq(model, Len(base) + 2, Len(base) + Len(suffix) - 1)]
  BY <1>6, <1>7, <1>8
<1> QED BY <1>9 DEF model

LEMMA ParsedWord ==
  ASSUME NEW base \in Seq(Token), NEW word \in Token, word \notin {"(", ")"}
  PROVE  /\ ParseSuffix(base \o <<"(", word, ")">>).ModelName = base
         /\ ParseSuffix(base \o <<"(", word, ")">>).HasSuffix = TRUE
         /\ Len(ParseSuffix(base \o <<"(", word, ")">>).RawSuffix) = 1
         /\ ParseSuffix(base \o <<"(", word, ")">>).RawSuffix[1] = word
<1>1. PICK suffix : suffix = <<"(", word, ")">>
  OBVIOUS
<1>2. Len(suffix) = 3 /\ suffix[1] = "(" /\ suffix[2] = word /\ suffix[3] = ")"
  BY <1>1
<1>3. suffix \in Seq(Token)
  <2>1. "(" \in Token /\ ")" \in Token
    BY Tokens
  <2> QED BY <1>1, <2>1, Triple
<1>4. \A i \in 2..Len(suffix) : suffix[i] # "("
  <2>1. \A i \in 2..3 : i = 2 \/ i = 3
    OBVIOUS
  <2> QED BY <1>2, <2>1
<1>5. PICK model : model = base \o suffix
  OBVIOUS
<1>6. Len(base) \in Nat /\ Len(base) + Len(suffix) - 1 = Len(base) + 2
  BY <1>2
<1>7. Len(suffix) >= 2 /\ suffix[Len(suffix)] = ")"
  BY <1>2
<1>8. /\ ParseSuffix(model).ModelName = base /\ ParseSuffix(model).HasSuffix = TRUE
      /\ ParseSuffix(model).RawSuffix = SubSeq(model, Len(base) + 2, Len(base) + Len(suffix) - 1)
  BY <1>2, <1>3, <1>4, <1>5, <1>7, Parsed
<1>9. model \in Seq(Token) /\ model[Len(base) + 2] = word /\ Len(model) = Len(base) + 3
  <2>1. /\ model \in Seq(Token) /\ Len(model) = Len(base) + Len(suffix)
        /\ \A i \in 1..Len(suffix) : model[Len(base) + i] = suffix[i]
    BY <1>3, <1>5
  <2>2. 2 \in 1..Len(suffix)
    BY <1>2
  <2> QED BY <1>2, <1>6, <2>1, <2>2
<1>10. LET raw == SubSeq(model, Len(base) + 2, Len(base) + 2) IN Len(raw) = 1 /\ raw[1] = word
  BY <1>6, <1>9
<1> QED BY <1>1, <1>5, <1>6, <1>8, <1>10

\* How a name is taken apart.
LEMMA Unsuffixed ==
  ASSUME NEW model
  PROVE  \/ ParseSuffix(model).HasSuffix = FALSE /\ ParseSuffix(model).ModelName = model
         \/ /\ ParseSuffix(model).HasSuffix = TRUE /\ Opens(model) # {} /\ Last(model) = ")"
            /\ ParseSuffix(model).ModelName = SubSeq(model, 1, Max(Opens(model)) - 1)
BY DEF ParseSuffix

\* The last parenthesis.
LEMMA LastOpen ==
  ASSUME NEW model \in Seq(Token), Opens(model) # {}
  PROVE  /\ Max(Opens(model)) \in 1..Len(model) /\ model[Max(Opens(model))] = "("
         /\ \A i \in DOMAIN model : model[i] = "(" => i <= Max(Opens(model))
<1> DEFINE n == Len(model)
           S == {n - i : i \in Opens(model)}
<1>1. DOMAIN model = 1..n /\ n \in Nat
  OBVIOUS
<1> HIDE DEF n
<1>2. S # {} /\ S \subseteq Nat
  BY <1>1 DEF Opens
<1>3. PICK m \in S : \A k \in S : ~(<<k, m>> \in OpToRel(<, Nat))
  <2> HIDE DEF S
  <2> QED BY <1>2, NatLessThanWellFounded, WFMin
<1>4. PICK i \in Opens(model) : m = n - i
  BY <1>3
<1>5. i \in 1..n /\ model[i] = "("
  BY <1>1 DEF Opens
<1>6. ASSUME NEW j \in Opens(model) PROVE j <= i
  <2>1. j \in 1..n
    BY <1>1 DEF Opens
  <2>2. n - j \in S /\ n - j \in Nat /\ n - i \in Nat
    BY <1>1, <1>5, <2>1
  <2>3. ~(<<n - j, m>> \in OpToRel(<, Nat))
    BY <1>3, <2>2
  <2> HIDE DEF S
  <2>4. ~(n - j < n - i)
    BY <1>4, <2>2, <2>3 DEF OpToRel
  <2> QED BY <1>1, <1>5, <2>1, <2>4
<1>7. Opens(model) \subseteq Int
  BY <1>1 DEF Opens
<1>8. Max(Opens(model)) = i
  BY <1>6, <1>7, MaxIs
<1> QED BY <1>1, <1>5, <1>6, <1>8 DEF n, Opens

LEMMA ParsedName == ASSUME NEW model \in Seq(Token) PROVE ParseSuffix(model).ModelName \in Seq(Token)
<1>1. CASE ParseSuffix(model).HasSuffix = FALSE
  BY <1>1, Unsuffixed
<1>2. CASE ParseSuffix(model).HasSuffix = TRUE
  <2>1. Opens(model) # {} /\ ParseSuffix(model).ModelName = SubSeq(model, 1, Max(Opens(model)) - 1)
    BY <1>2, Unsuffixed
  <2>2. Max(Opens(model)) \in 1..Len(model)
    BY <2>1, LastOpen
  <2>3. PICK i : i = Max(Opens(model))
    OBVIOUS
  <2>4. i \in 1..Len(model) /\ i - 1 \in 0..Len(model)
    BY <2>2, <2>3
  <2>5. SubSeq(model, 1, i - 1) \in Seq(Token)
    BY <2>4
  <2> QED BY <2>1, <2>3, <2>5
<1> QED BY <1>1, <1>2, Unsuffixed

\* What a request is, of which the effort depends on little.
IsRequest(r) ==
  /\ r.endpoint \in {"chat", "completions", "responses", "compact"}
  /\ r.body.model \in Seq(Token)
  /\ {"endpoint", "format", "body"} \subseteq DOMAIN r /\ "model" \in DOMAIN r.body
  /\ InResponsesFormat(r) => "effort" \in DOMAIN r.body /\ r.body.effort \in [Formats -> Token]

\* Nothing goes to a model called "auto".
LEMMA NotAuto ==
  ASSUME NEW r, IsRequest(r)
  PROVE  Base(Model(r)) # <<"auto">> /\ Base(Model(r)) \in Seq(Token)
<1> DEFINE model == r.body.model
           parsed == ParseSuffix(model)
<1>1. model \in Seq(Token) /\ Len(model) \in Nat /\ DOMAIN model = 1..Len(model)
  <2>1. model \in Seq(Token)
    BY DEF IsRequest
  <2> HIDE DEF model
  <2> QED BY <2>1
<1>2. FirstModel \in Seq(Token) /\ ParseSuffix(FirstModel).ModelName # <<"auto">>
  BY ExecutorAssumption, Tokens, Zenon DEF ExecutorAssumption
<1>3. ASSUME NEW m \in Seq(Token) PROVE ParseSuffix(m).ModelName \in Seq(Token)
  BY ParsedName
<1>4. Model(r) \in Seq(Token)
  <2>1. SubSeq(model, 2, Len(model)) \in Seq(Token)
    <3> HIDE DEF model
    <3>1. CASE Len(model) < 1
      BY <1>1, <3>1
    <3>2. CASE Len(model) >= 1
      BY <1>1, <3>2
    <3> QED BY <1>1, <3>1, <3>2
  <2> HIDE DEF model
  <2>2. FirstModel \o SubSeq(model, 2, Len(model)) \in Seq(Token)
    BY <1>2, <2>1
  <2> QED BY <1>1, <2>2 DEF Model, getRequestDetails, model
<1>5. CASE parsed.ModelName # <<"auto">>
  BY <1>3, <1>4, <1>5 DEF Model, getRequestDetails, Base
<1>6. CASE parsed.ModelName = <<"auto">>
  <2>1. Model(r) = FirstModel \o SubSeq(model, 2, Len(model))
    BY <1>6 DEF Model, getRequestDetails
  <2>2. CASE parsed.HasSuffix = FALSE
    <3>1. model = <<"auto">>
      BY <1>6, <2>2, Unsuffixed
    <3>2. Len(model) = 1
      BY <3>1
    <3>3. PICK rest : rest = SubSeq(model, 2, Len(model))
      OBVIOUS
    <3> HIDE DEF model
    <3>4. rest \in Seq(Token) /\ Len(rest) = 0
      BY <1>1, <3>2, <3>3
    <3>5. Model(r) = FirstModel
      BY <1>2, <2>1, <3>3, <3>4
    <3> QED BY <1>2, <1>3, <3>5 DEF Base
  <2>3. CASE parsed.HasSuffix = TRUE
    <3>1. /\ Opens(model) # {} /\ Last(model) = ")" /\ SubSeq(model, 1, Max(Opens(model)) - 1) = <<"auto">>
      BY <1>6, <2>3, Unsuffixed
    <3> HIDE DEF model
    <3>2. PICK open : open = Max(Opens(model))
      OBVIOUS
    <3>3. open \in 1..Len(model) /\ model[open] = "(" /\ \A i \in 1..Len(model) : model[i] = "(" => i <= open
      BY <1>1, <3>1, <3>2, LastOpen
    <3>4. PICK before : before = SubSeq(model, 1, open - 1)
      OBVIOUS
    <3>5. Len(before) = open - 1 /\ Len(before) = 1
      <4>1. Len(before) = open - 1
        BY <1>1, <3>3, <3>4
      <4> QED BY <3>1, <3>2, <3>4, <4>1
    <3>6. open = 2 /\ model[Len(model)] = ")" /\ Len(model) >= 3
      <4>1. open = 2
        <5>1. open - 1 = 1
          BY <3>5
        <5>2. open \in Int
          BY <1>1, <3>3
        <5> QED BY <5>1, <5>2
      <4>2. model[Len(model)] = ")"
        BY <3>1 DEF Last
      <4>3. Len(model) # 2
        BY <3>3, <4>1, <4>2
      <4> QED BY <1>1, <3>3, <4>1, <4>2, <4>3
    <3>7. PICK suffix : suffix = SubSeq(model, 2, Len(model))
      OBVIOUS
    <3>8. /\ suffix \in Seq(Token) /\ Len(suffix) = Len(model) - 1
          /\ \A i \in 1..Len(suffix) : suffix[i] = model[i + 1]
      BY <1>1, <3>6, <3>7
    <3>9. Len(suffix) >= 2 /\ suffix[1] = "(" /\ suffix[Len(suffix)] = ")"
      BY <1>1, <3>3, <3>6, <3>8
    <3>10. \A i \in 2..Len(suffix) : suffix[i] # "("
      BY <1>1, <3>3, <3>6, <3>8
    <3>11. ParseSuffix(FirstModel \o suffix).ModelName = FirstModel
      BY <1>2, <3>8, <3>9, <3>10, Parsed
    <3>12. Base(Model(r)) = FirstModel
      BY <2>1, <3>7, <3>11 DEF Base
    <3>13. FirstModel # <<"auto">>
      <4>1. ASSUME FirstModel = <<"auto">> PROVE Opens(FirstModel) = {}
        BY <4>1 DEF Opens
      <4>2. Opens(FirstModel) = {} => ParseSuffix(FirstModel).ModelName = FirstModel
        BY Unsuffixed
      <4> QED BY <1>2, <4>1, <4>2
    <3> QED BY <1>2, <3>12, <3>13
  <2> QED BY <2>2, <2>3, Unsuffixed
<1> QED BY <1>5, <1>6

-----------------------------------------------------------------------------
(* What the translated body asks for. *)

Body(r) == TranslateRequest(SourceFormat(r), "codex", Base(Model(r)), Payload(r), r.body.stream)

\* A body has an effort for Codex.
HasEffort(body) == "effort" \in DOMAIN body /\ "codex" \in DOMAIN body.effort

LEMMA Written ==
  ASSUME NEW body, HasEffort(body), NEW level
  PROVE  HasEffort(SetEffort(body, "codex", level)) /\ SetEffort(body, "codex", level).effort["codex"] = level
BY DEF HasEffort, SetEffort

LEMMA OtherField ==
  ASSUME NEW body, HasEffort(body), NEW field, field # "effort", NEW value
  PROVE  HasEffort([body EXCEPT ![field] = value]) /\ [body EXCEPT ![field] = value].effort = body.effort
BY DEF HasEffort

\* A chat says what it wants, or "medium".
LEMMA ChatEffort ==
  ASSUME NEW model, NEW chat, NEW stream
  PROVE  /\ HasEffort(ConvertOpenAIRequestToCodex(model, chat, stream))
         /\ chat.effort = "" => ConvertOpenAIRequestToCodex(model, chat, stream).effort["codex"] = "medium"
         /\ chat.effort # "" => ConvertOpenAIRequestToCodex(model, chat, stream).effort["codex"] = chat.effort
BY DEF ConvertOpenAIRequestToCodex, HasEffort

\* A request of the Responses API keeps its effort.
LEMMA ResponsesEffort ==
  ASSUME NEW body, HasEffort(body)
  PROVE  /\ HasEffort(ConvertOpenAIResponsesRequestToCodex(body))
         /\ ConvertOpenAIResponsesRequestToCodex(body).effort = body.effort
BY DEF ConvertOpenAIResponsesRequestToCodex, normalizeCodexBuiltinTools, HasEffort

\* The word the client asks with, of any request (see AskedFor).
AskedOf(r) ==
  LET suffix == ParseSuffix(Model(r))
      asked == IF SourceFormat(r) = "openai" THEN Payload(r).effort ELSE r.body.effort["codex"]
  IN  IF suffix.HasSuffix THEN IF Len(suffix.RawSuffix) = 1 THEN suffix.RawSuffix[1] ELSE ""
      ELSE IF asked = "" /\ SourceFormat(r) = "openai" THEN "medium" ELSE asked

LEMMA BodyEffort ==
  ASSUME NEW r, IsRequest(r), r.endpoint # "compact"
  PROVE  /\ HasEffort(Body(r)) /\ SourceFormat(r) \in {"openai", "openai-response"}
         /\ ParseSuffix(Model(r)).HasSuffix = FALSE => Body(r).effort["codex"] = AskedOf(r)
<1>1. CASE SourceFormat(r) = "openai"
  <2>1. Body(r) = ConvertOpenAIRequestToCodex(Base(Model(r)), Payload(r), r.body.stream)
    BY <1>1 DEF Body, TranslateRequest
  <2>2. ParseSuffix(Model(r)).HasSuffix = FALSE =>
          AskedOf(r) = IF Payload(r).effort = "" THEN "medium" ELSE Payload(r).effort
    BY <1>1 DEF AskedOf
  <2>3. HasEffort(Body(r)) /\ Body(r).effort["codex"] = IF Payload(r).effort = "" THEN "medium" ELSE Payload(r).effort
    <3> PICK model : model = Base(Model(r))
      OBVIOUS
    <3> PICK chat : chat = Payload(r)
      OBVIOUS
    <3> PICK stream : stream = r.body.stream
      OBVIOUS
    <3>1. Body(r) = ConvertOpenAIRequestToCodex(model, chat, stream)
      BY <2>1
    <3>2. /\ HasEffort(Body(r))
          /\ chat.effort = "" => Body(r).effort["codex"] = "medium"
          /\ chat.effort # "" => Body(r).effort["codex"] = chat.effort
      <4>1. /\ HasEffort(ConvertOpenAIRequestToCodex(model, chat, stream))
            /\ chat.effort = "" => ConvertOpenAIRequestToCodex(model, chat, stream).effort["codex"] = "medium"
            /\ chat.effort # "" => ConvertOpenAIRequestToCodex(model, chat, stream).effort["codex"] = chat.effort
        BY ONLY ChatEffort
      <4> QED BY <3>1, <4>1
    <3> QED BY <3>2
  <2> QED BY <1>1, <2>2, <2>3
<1>2. CASE r.endpoint = "responses"
  <2>1. SourceFormat(r) = "openai-response" /\ Payload(r) = r.body
    BY <1>2 DEF SourceFormat, Payload
  <2>2. Body(r) = ConvertOpenAIResponsesRequestToCodex(r.body)
    BY <2>1 DEF Body, TranslateRequest
  <2>3. HasEffort(r.body)
    BY <1>2 DEF IsRequest, InResponsesFormat, HasEffort, Formats
  <2> QED BY <2>1, <2>2, <2>3, ResponsesEffort DEF AskedOf
<1> QED BY <1>1, <1>2 DEF SourceFormat, IsRequest

-----------------------------------------------------------------------------
(* The configuration a word stands for. *)

ConfigFor(r) == ConfigOf(Body(r), ParseSuffix(Model(r)), "codex")

\* Words that are numbers mean nothing else.
LEMMA NumberWords ==
  ASSUME NEW w \in DOMAIN NumberOf
  PROVE  w \in Token /\ w \notin StandardLevels /\ w \notin {"", "(", ")", "none", "auto", "-1"} /\ NumberOf[w] \in Nat
<1>1. w \in STRING \ (StandardLevels \union {"", "(", ")", "none", "auto", "-1"}) /\ NumberOf[w] \in Nat
  BY NumberAssumption, Zenon DEF NumberAssumption
<1>2. w \in Token
  BY Tokens, Zenon
<1> QED BY <1>1, <1>2

LEMMA WordConfig ==
  ASSUME NEW raw, Len(raw) = 1
  PROVE  /\ raw[1] \in StandardLevels => parseSuffixToConfig(raw) = Config("level", 0, raw[1])
         /\ raw[1] \in DOMAIN NumberOf =>
              /\ NumberOf[raw[1]] = 0 => parseSuffixToConfig(raw) = None
              /\ NumberOf[raw[1]] # 0 => parseSuffixToConfig(raw) = Config("budget", NumberOf[raw[1]], "")
         /\ raw[1] = "none" => parseSuffixToConfig(raw) = None
         /\ raw[1] \in {"auto", "-1"} => parseSuffixToConfig(raw) = Automatic
<1> PICK w : w = raw[1]
  OBVIOUS
<1>1. \A x \in DOMAIN NumberOf : x \notin StandardLevels /\ x \notin {"none", "auto", "-1"}
  BY NumberWords
<1>2. \A x \in {"none", "auto", "-1"} : x \notin StandardLevels
  BY Standard
<1>3. CASE w \in StandardLevels
  BY <1>1, <1>2, <1>3 DEF parseSuffixToConfig
<1>4. CASE w \in DOMAIN NumberOf
  BY <1>1, <1>4 DEF parseSuffixToConfig
<1>5. CASE w \in {"none", "auto", "-1"}
  <2>1. parseSuffixToConfig(raw) = ParseSpecialSuffix(w)
    BY <1>1, <1>2, <1>5 DEF parseSuffixToConfig
  <2> QED BY <1>1, <1>2, <1>5, <2>1 DEF ParseSpecialSuffix
<1> QED BY <1>3, <1>4, <1>5

LEMMA Configs ==
  ASSUME NEW r, IsRequest(r), r.endpoint # "compact"
  PROVE  /\ AskedOf(r) \in StandardLevels => ConfigFor(r) = Config("level", 0, AskedOf(r))
         /\ ParseSuffix(Model(r)).HasSuffix /\ AskedOf(r) \in DOMAIN NumberOf =>
              /\ NumberOf[AskedOf(r)] = 0 => ConfigFor(r) = None
              /\ NumberOf[AskedOf(r)] # 0 => ConfigFor(r) = Config("budget", NumberOf[AskedOf(r)], "")
         /\ AskedOf(r) = "none" => ConfigFor(r) = None
         /\ AskedOf(r) = "auto" => ConfigFor(r) \in {Automatic, Config("level", 0, "auto")}
         /\ ParseSuffix(Model(r)).HasSuffix /\ AskedOf(r) = "-1" => ConfigFor(r) = Automatic
<1> PICK asked : asked = AskedOf(r)
  OBVIOUS
<1>1. \A w \in StandardLevels : w # "" /\ w # "none"
  BY Standard
<1>2. CASE ParseSuffix(Model(r)).HasSuffix = TRUE
  <2> PICK raw : raw = ParseSuffix(Model(r)).RawSuffix
    OBVIOUS
  <2>1. ConfigFor(r) = parseSuffixToConfig(raw)
    BY <1>2 DEF ConfigFor, ConfigOf
  <2>2. asked = IF Len(raw) = 1 THEN raw[1] ELSE ""
    BY <1>2 DEF AskedOf
  <2>3. \A w \in DOMAIN NumberOf : w # ""
    BY NumberWords
  <2>4. CASE Len(raw) = 1
    BY <1>2, <2>1, <2>2, <2>4, WordConfig
  <2>5. CASE Len(raw) # 1
    BY <1>1, <2>2, <2>3, <2>5
  <2> QED BY <2>4, <2>5
<1>3. CASE ParseSuffix(Model(r)).HasSuffix = FALSE
  <2>1. Body(r).effort["codex"] = asked
    BY <1>3, BodyEffort
  <2>2. ConfigFor(r) = CASE asked = "" -> NoConfig [] asked = "none" -> None [] OTHER -> Config("level", 0, asked)
    BY <1>3, <2>1 DEF ConfigFor, ConfigOf, extractThinkingConfig, Formats
  <2> QED BY <1>1, <1>3, <2>2
<1> QED BY <1>2, <1>3, Unsuffixed

-----------------------------------------------------------------------------
(* What is prepared. *)

LEMMA Fields ==
  /\ Refused.Mode = "error" /\ None.Mode = "none" /\ None.Level = "" /\ None.Budget = 0
  /\ Automatic.Mode = "auto" /\ NoConfig.Mode = "budget" /\ NoConfig.Budget = 0
<1>1. Refused.Mode = "error" /\ None.Mode = "none" /\ None.Level = "" /\ None.Budget = 0
  BY DEF Refused, None, Config
<1>2. Automatic.Mode = "auto" /\ NoConfig.Mode = "budget" /\ NoConfig.Budget = 0
  BY DEF Automatic, NoConfig, Config
<1> QED BY <1>1, <1>2

LEMMA LevelFields == ASSUME NEW level PROVE Config("level", 0, level).Mode = "level" /\ Config("level", 0, level).Level = level
BY DEF Config

LEMMA BudgetFields == ASSUME NEW n PROVE Config("budget", n, "").Mode = "budget" /\ Config("budget", n, "").Budget = n
BY DEF Config

\* Validation decides: an error, a level, or none.
LEMMA PreparedBy ==
  ASSUME NEW r, IsRequest(r), r.endpoint # "compact", NEW info, InLevels(info), info = InfoOf[Base(Model(r))],
         NEW valid, ConfigFor(r) # NoConfig,
         valid = ValidateConfig(ConfigFor(r), info, SourceFormat(r), "codex", ParseSuffix(Model(r)).HasSuffix)
  PROVE  /\ valid = Refused => Prepared(r).err = TRUE
         /\ \A level : valid = Config("level", 0, level) =>
              /\ Prepared(r).err = FALSE /\ HasEffort(Prepared(r).body)
              /\ Prepared(r).body.effort["codex"] = level
         /\ valid = None =>
              /\ Prepared(r).err = FALSE /\ HasEffort(Prepared(r).body)
              /\ Prepared(r).body.effort["codex"] = IF "none" \in Range(info.Levels) THEN "none" ELSE info.Levels[1]
<1> PICK body : body = Body(r)
  OBVIOUS
<1>1. HasEffort(body)
  BY BodyEffort
<1>2. Target(r) = "codex" /\ "codex" \in Formats
  BY DEF Target, Formats
<1>3. Prepared(r) = ApplyThinking(body, Model(r), info, SourceFormat(r), "codex")
  BY <1>2 DEF Prepared, Body
<1>4. ~IsUserDefinedModel(info) /\ info.reasons /\ info.Levels # <<>> /\ ~info.ZeroAllowed
  BY DEF InLevels, IsUserDefinedModel
<1>5. Prepared(r) = IF valid.Mode = "error" THEN [body |-> body, err |-> TRUE]
                    ELSE [body |-> Apply(body, "codex", valid, info), err |-> FALSE]
  BY <1>2, <1>3, <1>4 DEF ApplyThinking, hasThinkingConfig, ConfigFor
<1>6. CASE valid = Refused
  <2>1. valid.Mode = "error" /\ valid.Mode # "level" /\ valid.Mode # "none"
    BY <1>6, Fields
  <2>2. \A level : valid # Config("level", 0, level)
    BY <2>1, LevelFields
  <2>3. valid # None
    BY <2>1, Fields
  <2> QED BY <1>5, <2>1, <2>2, <2>3
<1>7. ASSUME NEW level, valid = Config("level", 0, level)
      PROVE  Prepared(r).err = FALSE /\ HasEffort(Prepared(r).body) /\ Prepared(r).body.effort["codex"] = level
  <2>1. valid.Mode = "level" /\ valid.Level = level
    BY <1>7, LevelFields
  <2>2. Apply(body, "codex", valid, info) = SetEffort(body, "codex", level)
    BY <1>4, <2>1 DEF Apply
  <2>3. Prepared(r).err = FALSE /\ Prepared(r).body = SetEffort(body, "codex", level)
    BY <1>5, <2>1, <2>2
  <2> QED BY <1>1, <2>3, Written
<1>8. ASSUME valid = None
      PROVE  /\ Prepared(r).err = FALSE /\ HasEffort(Prepared(r).body)
             /\ Prepared(r).body.effort["codex"] = IF "none" \in Range(info.Levels) THEN "none" ELSE info.Levels[1]
  <2> DEFINE least == IF "none" \in Range(info.Levels) THEN "none" ELSE info.Levels[1]
  <2>1. valid.Mode = "none" /\ valid.Level = "" /\ valid.Budget = 0
    BY <1>8, Fields
  <2>2. NoneOf(valid, info) = least
    BY <1>4, <2>1 DEF NoneOf, HasLevel
  <2>3. info.Levels[1] # ""
    <3>1. info.Levels \in Seq(STRING) /\ Range(info.Levels) \subseteq Offered
      BY DEF InLevels, Described
    <3>2. 1 \in DOMAIN info.Levels
      BY <1>4, <3>1
    <3>3. info.Levels[1] \in Offered
      BY <3>1, <3>2 DEF Range
    <3> QED BY <3>3 DEF Offered
  <2>4. Apply(body, "codex", valid, info) = SetEffort(body, "codex", least)
    BY <1>4, <2>1, <2>2, <2>3 DEF Apply
  <2> HIDE DEF least
  <2>5. Prepared(r).err = FALSE /\ Prepared(r).body = SetEffort(body, "codex", least)
    <3>1. valid.Mode # "error"
      BY <2>1
    <3>2. Prepared(r) = [body |-> Apply(body, "codex", valid, info), err |-> FALSE]
      BY <1>5, <3>1
    <3> QED BY <2>4, <3>2
  <2>6. HasEffort(Prepared(r).body) /\ Prepared(r).body.effort["codex"] = least
    BY <1>1, <2>5, Written
  <2> QED BY <2>5, <2>6 DEF least
<1> QED BY <1>6, <1>7, <1>8, <1>5

\* A number of tokens goes as a level.
LEMMA NumberGoes ==
  ASSUME NEW r, IsRequest(r), r.endpoint # "compact", NEW info, InLevels(info), info = InfoOf[Base(Model(r))],
         NEW asked, asked = AskedOf(r),
         ParseSuffix(Model(r)).HasSuffix, asked \in DOMAIN NumberOf, NumberOf[asked] > 0
  PROVE  /\ Prepared(r).err = FALSE /\ HasEffort(Prepared(r).body)
         /\ Prepared(r).body.effort["codex"] = clampLevel(ConvertBudgetToLevel(NumberOf[asked]), info)
<1> PICK n : n = NumberOf[asked]
  OBVIOUS
<1>1. n \in Nat /\ n > 0 /\ n # 0
  <2>1. n \in Nat
    BY NumberWords
  <2> QED BY <2>1
<1>2. ConfigFor(r) = Config("budget", n, "")
  BY <1>1, Configs
<1>3. Config("budget", n, "").Budget = n
  BY BudgetFields
<1>4. ConfigFor(r) # NoConfig
  <2>1. ConfigFor(r).Budget = n
    BY <1>2, <1>3
  <2>2. NoConfig.Budget = 0
    BY Fields
  <2> QED BY <1>1, <2>1, <2>2
<1> PICK suffixed : suffixed = ParseSuffix(Model(r)).HasSuffix
  OBVIOUS
<1> PICK from : from = SourceFormat(r)
  OBVIOUS
<1>5. ValidateConfig(ConfigFor(r), info, from, "codex", suffixed)
        = Config("level", 0, clampLevel(ConvertBudgetToLevel(n), info))
  BY <1>1, <1>2, ValidBudget
<1> QED BY <1>4, <1>5, PreparedBy

\* Every word, at every endpoint: what is prepared is what the word asks for.
LEMMA EffortOf ==
  ASSUME NEW r, IsRequest(r), r.endpoint # "compact", NEW info, InLevels(info), info = InfoOf[Base(Model(r))],
         NEW asked, asked = AskedOf(r)
  PROVE  /\ asked \in StandardLevels =>
              IF asked \in Range(info.Levels)
                THEN Prepared(r).err = FALSE /\ HasEffort(Prepared(r).body) /\ Prepared(r).body.effort["codex"] = asked
                ELSE Prepared(r).err = TRUE
         /\ ParseSuffix(Model(r)).HasSuffix /\ asked \in DOMAIN NumberOf /\ NumberOf[asked] > 0 =>
              /\ Prepared(r).err = FALSE /\ HasEffort(Prepared(r).body)
              /\ Prepared(r).body.effort["codex"] = clampLevel(ConvertBudgetToLevel(NumberOf[asked]), info)
         /\ asked = "none" \/ (ParseSuffix(Model(r)).HasSuffix /\ asked \in DOMAIN NumberOf /\ NumberOf[asked] = 0) =>
              /\ Prepared(r).err = FALSE /\ HasEffort(Prepared(r).body)
              /\ Prepared(r).body.effort["codex"] = IF "none" \in Range(info.Levels) THEN "none" ELSE info.Levels[1]
         /\ asked = "auto" \/ (ParseSuffix(Model(r)).HasSuffix /\ asked = "-1") =>
              Prepared(r).err = FALSE /\ HasEffort(Prepared(r).body) /\ Prepared(r).body.effort["codex"] = "medium"
<1> PICK suffixed : suffixed = ParseSuffix(Model(r)).HasSuffix
  OBVIOUS
<1> PICK from : from = SourceFormat(r)
  OBVIOUS
<1>1. from \in {"openai", "openai-response"}
  BY BodyEffort
<1> PICK valid : valid = ValidateConfig(ConfigFor(r), info, from, "codex", suffixed)
  OBVIOUS
<1>2. NoConfig.Mode = "budget" /\ NoConfig.Budget = 0
  BY Fields
<1>3. ASSUME asked \in StandardLevels
      PROVE  IF asked \in Range(info.Levels)
               THEN Prepared(r).err = FALSE /\ HasEffort(Prepared(r).body) /\ Prepared(r).body.effort["codex"] = asked
               ELSE Prepared(r).err = TRUE
  <2>1. ConfigFor(r) = Config("level", 0, asked)
    BY <1>3, Configs
  <2>2. Config("level", 0, asked).Mode = "level"
    BY LevelFields
  <2>3. ConfigFor(r) # NoConfig
    BY <1>2, <2>1, <2>2
  <2>4. valid = IF asked \in Range(info.Levels) THEN Config("level", 0, asked) ELSE Refused
    BY <1>1, <1>3, <2>1, ValidLevel
  <2>5. CASE asked \in Range(info.Levels)
    <3>1. valid = Config("level", 0, asked)
      BY <2>4, <2>5
    <3> QED BY <2>3, <2>5, <3>1, PreparedBy
  <2>6. CASE asked \notin Range(info.Levels)
    <3>1. valid = Refused
      BY <2>4, <2>6
    <3> QED BY <2>3, <2>6, <3>1, PreparedBy
  <2> QED BY <2>5, <2>6
<1>4. ASSUME suffixed, asked \in DOMAIN NumberOf, NumberOf[asked] > 0
      PROVE  /\ Prepared(r).err = FALSE /\ HasEffort(Prepared(r).body)
             /\ Prepared(r).body.effort["codex"] = clampLevel(ConvertBudgetToLevel(NumberOf[asked]), info)
  BY <1>4, NumberGoes
<1>5. ASSUME asked = "none" \/ (suffixed /\ asked \in DOMAIN NumberOf /\ NumberOf[asked] = 0)
      PROVE  /\ Prepared(r).err = FALSE /\ HasEffort(Prepared(r).body)
             /\ Prepared(r).body.effort["codex"] = IF "none" \in Range(info.Levels) THEN "none" ELSE info.Levels[1]
  <2>1. ConfigFor(r) = None
    BY <1>5, Configs
  <2>2. None.Mode = "none"
    BY Fields
  <2>3. ConfigFor(r) # NoConfig
    BY <1>2, <2>1, <2>2
  <2>4. valid = None
    BY <2>1, ValidNone
  <2> QED BY <2>3, <2>4, PreparedBy
<1>6. ASSUME asked = "auto" \/ (suffixed /\ asked = "-1")
      PROVE  Prepared(r).err = FALSE /\ HasEffort(Prepared(r).body) /\ Prepared(r).body.effort["codex"] = "medium"
  <2>1. ConfigFor(r) \in {Automatic, Config("level", 0, "auto")}
    BY <1>6, Configs
  <2>2. Automatic.Mode = "auto" /\ Config("level", 0, "auto").Mode = "level"
    BY Fields, LevelFields
  <2>3. ConfigFor(r) # NoConfig
    BY <1>2, <2>1, <2>2
  <2>4. valid = Config("level", 0, "medium")
    BY <2>1, ValidAuto
  <2> QED BY <2>3, <2>4, PreparedBy
<1> QED BY <1>3, <1>4, <1>5, <1>6

\* The same request with another suffix asks the same model for something else.
LEMMA OtherSuffix ==
  ASSUME NEW r, IsRequest(r), r.endpoint # "compact", NEW word \in DOMAIN NumberOf,
         NEW other, other = [r EXCEPT !.body.model = Base(Model(r)) \o <<"(", word, ")">>]
  PROVE  /\ IsRequest(other) /\ other.endpoint # "compact" /\ Base(Model(other)) = Base(Model(r))
         /\ ParseSuffix(Model(other)).HasSuffix = TRUE /\ AskedOf(other) = word
<1> PICK base : base = Base(Model(r))
  OBVIOUS
<1>1. base \in Seq(Token) /\ base # <<"auto">>
  BY NotAuto
<1> PICK model : model = base \o <<"(", word, ")">>
  OBVIOUS
<1>2. word \in Token /\ word \notin {"(", ")"}
  BY NumberWords
<1>3. /\ ParseSuffix(model).ModelName = base /\ ParseSuffix(model).HasSuffix = TRUE
      /\ Len(ParseSuffix(model).RawSuffix) = 1 /\ ParseSuffix(model).RawSuffix[1] = word
  <2>1. /\ ParseSuffix(base \o <<"(", word, ")">>).ModelName = base
        /\ ParseSuffix(base \o <<"(", word, ")">>).HasSuffix = TRUE
        /\ Len(ParseSuffix(base \o <<"(", word, ")">>).RawSuffix) = 1
        /\ ParseSuffix(base \o <<"(", word, ")">>).RawSuffix[1] = word
    BY ONLY <1>1, <1>2, ParsedWord
  <2> QED BY <2>1
<1>4. model \in Seq(Token)
  <2>1. PICK suffix : suffix = <<"(", word, ")">>
    OBVIOUS
  <2>2. "(" \in Token /\ ")" \in Token
    BY Tokens
  <2>3. suffix \in Seq(Token)
    BY <1>2, <2>1, <2>2, Triple
  <2> QED BY <1>1, <2>1, <2>3
<1>5. other = [r EXCEPT !.body.model = model]
  OBVIOUS
<1>6. {"endpoint", "format", "body"} \subseteq DOMAIN r /\ "model" \in DOMAIN r.body
  BY DEF IsRequest
<1>7. /\ {"endpoint", "format", "body"} \subseteq DOMAIN other
      /\ other.endpoint = r.endpoint /\ other.format = r.format
  BY <1>5, <1>6
<1>8. /\ "model" \in DOMAIN other.body /\ other.body.model = model
      /\ "effort" \in DOMAIN r.body => "effort" \in DOMAIN other.body /\ other.body.effort = r.body.effort
  BY <1>5, <1>6
<1>9. IsRequest(other)
  BY <1>4, <1>7, <1>8 DEF IsRequest, InResponsesFormat
<1>10. Model(other) = model
  BY <1>1, <1>3, <1>8 DEF Model, getRequestDetails
<1> QED BY <1>3, <1>7, <1>9, <1>10 DEF Base, AskedOf

-----------------------------------------------------------------------------
(* The state. *)

\* What goes upstream is what was prepared of the request, or nothing goes and the client
\* has an error, which stays: a body that the model does not allow is the client's.
FromRequest ==
  /\ request = NoRequest => sent = NotSent
  /\ request # NoRequest =>
       /\ request \in Requests
       /\ \/ /\ Base(Model(request)) \in DOMAIN InfoOf /\ Prepared(request).err = FALSE
             /\ sent = [body |-> Prepared(request).body, cache |-> CacheKey(request)]
          \/ /\ sent = NotSent /\ view.status = "error"
             /\ \/ Base(Model(request)) \notin DOMAIN InfoOf
                \/ view.code = 400 /\ (request.endpoint = "compact" \/ Prepared(request).err)

LEMMA AreRequests == ASSUME NEW r \in Requests PROVE IsRequest(r) /\ r # NoRequest
<1>1. /\ r.endpoint \in {"chat", "completions", "responses", "compact"}
      /\ r.body.model \in Seq(STRING)
      /\ {"endpoint", "format", "body"} \subseteq DOMAIN r /\ "model" \in DOMAIN r.body
      /\ InResponsesFormat(r) => "effort" \in DOMAIN r.body /\ r.body.effort \in [Formats -> STRING]
  BY RequestAssumption, Zenon DEF RequestAssumption
<1>2. r.body.model \in Seq(Token)
  BY <1>1, Tokens, Wider, Zenon
<1>3. \A S : S \in [Formats -> STRING] => S \in [Formats -> Token]
  BY Tokens, Zenon
<1>4. r # NoRequest
  <2>1. NoRequest.endpoint = "none"
    BY DEF NoRequest
  <2>2. r.endpoint # "none"
    BY <1>1
  <2> QED BY <2>1, <2>2
<1> QED BY <1>1, <1>2, <1>3, <1>4, Zenon DEF IsRequest

LEMMA NextKeepsFromRequest ==
  ASSUME FromRequest, [ExecutorNext]_executorVars
  PROVE  FromRequest'
<1>1. ASSUME NEW r \in Requests, Execute(r) PROVE FromRequest'
  <2>1. request = NoRequest /\ sent = NotSent /\ request' = r /\ r # NoRequest
    BY <1>1, AreRequests DEF Execute, FromRequest
  <2>2. \A status, code : Status(status, code).status = status /\ Status(status, code).code = code
    BY DEF Status, NoView
  <2>3. CASE Base(Model(r)) \notin DOMAIN InfoOf
    <3>1. sent' = sent /\ view' = Status("error", 502)
      BY <1>1, <2>3 DEF Execute
    <3> QED BY <2>1, <2>2, <2>3, <3>1 DEF FromRequest
  <2>4. CASE Base(Model(r)) \in DOMAIN InfoOf /\ ((r.endpoint = "compact" /\ r.body.stream) \/ Prepared(r).err)
    <3>1. sent' = sent /\ view' = Status("error", 400)
      BY <1>1, <2>4 DEF Execute
    <3> QED BY <2>1, <2>2, <2>4, <3>1 DEF FromRequest
  <2>5. CASE Base(Model(r)) \in DOMAIN InfoOf /\ ~((r.endpoint = "compact" /\ r.body.stream) \/ Prepared(r).err)
    <3>1. sent' = [body |-> Prepared(r).body, cache |-> CacheKey(r)]
      BY <1>1, <2>5 DEF Execute
    <3>2. Prepared(r).err = FALSE
      BY <2>5
    <3> QED BY <2>1, <2>5, <3>1, <3>2 DEF FromRequest
  <2> QED BY <2>3, <2>4, <2>5
<1>2. ASSUME Waiting, UNCHANGED <<request, sent>> PROVE FromRequest'
  BY <1>2 DEF Waiting, FromRequest
<1>3. ASSUME NEW refusal \in Refusals, Refuse(refusal) PROVE FromRequest'
  BY <1>2, <1>3 DEF Refuse
<1>4. ASSUME NEW item, NEW manner, Begin(item, manner) PROVE FromRequest'
  BY <1>2, <1>4 DEF Begin, Telling
<1>5. ASSUME Tell \/ FinishItem \/ CompleteResponse \/ FailResponse PROVE FromRequest'
  BY <1>2, <1>5 DEF Tell, FinishItem, CompleteResponse, FailResponse, Telling
<1>6. ASSUME NEW broken, EndBody(broken) PROVE FromRequest'
  BY <1>2, <1>6 DEF EndBody
<1>7. ASSUME NEW items, AnswerWhole(items) PROVE FromRequest'
  BY <1>2, <1>7 DEF AnswerWhole
<1>8. CASE UNCHANGED executorVars
  BY <1>8 DEF executorVars, FromRequest
<1> QED BY <1>1, <1>3, <1>4, <1>5, <1>6, <1>7, <1>8 DEF ExecutorNext

LEMMA Honoured == ASSUME FromRequest PROVE EffortHonoured
<1> DEFINE r == request
           info == InfoOf[Base(Model(request))]
           asked == AskedOf(request)
           suffixed == ParseSuffix(Model(request)).HasSuffix
           effort == sent.body.effort["codex"]
           refused == view.status = "error" /\ view.code = 400
           levels == Range(info.Levels)
           least == IF "none" \in levels THEN "none" ELSE info.Levels[1]
           other(word) == [request EXCEPT !.body.model = Base(Model(request)) \o <<"(", word, ")">>]
<1>1. SUFFICES ASSUME request # NoRequest, request.endpoint # "compact",
                      Base(Model(request)) \in DOMAIN InfoOf, info.Levels # <<>>, ~HasBudget(info)
               PROVE  /\ asked \in StandardLevels =>
                           IF asked \in levels THEN IsSent /\ effort = asked ELSE ~IsSent /\ refused
                      /\ suffixed /\ asked \in DOMAIN NumberOf /\ NumberOf[asked] > 0 =>
                           /\ IsSent /\ effort \in levels
                           /\ \A level \in levels : levelToBudgetMap[level] = NumberOf[asked] => effort = level
                           /\ \A word \in DOMAIN NumberOf : NumberOf[word] > NumberOf[asked] =>
                                /\ ~Prepared(other(word)).err
                                /\ PlaceIn(info, Prepared(other(word)).body.effort["codex"]) >= PlaceIn(info, effort)
                      /\ asked = "none" \/ (suffixed /\ asked \in DOMAIN NumberOf /\ NumberOf[asked] = 0) =>
                           IsSent /\ effort = least
                      /\ asked = "auto" \/ (suffixed /\ asked = "-1") => IsSent /\ effort = "medium"
  BY DEF EffortHonoured, AskedFor, AskedOf, Suffix, Levels, PlaceIn
<1>2. IsRequest(request) /\ InLevels(info)
  BY <1>1, AreRequests, CatalogInLevels DEF FromRequest
<1>3. ASSUME Prepared(request).err = FALSE, HasEffort(Prepared(request).body)
      PROVE  IsSent /\ effort = Prepared(request).body.effort["codex"]
  <2>1. PICK body : body = Prepared(request).body
    OBVIOUS
  <2>2. sent = [body |-> body, cache |-> CacheKey(request)]
    BY <1>1, <1>3, <2>1 DEF FromRequest
  <2>3. body # <<>>
    BY <1>3, <2>1 DEF HasEffort
  <2>4. sent.body = body /\ sent # NotSent
    BY <2>2, <2>3 DEF NotSent
  <2> QED BY <2>1, <2>4 DEF IsSent
<1>4. ASSUME Prepared(request).err = TRUE PROVE ~IsSent /\ refused
  BY <1>1, <1>4 DEF FromRequest, IsSent
<1> DEFINE Goes(level) == /\ Prepared(request).err = FALSE /\ HasEffort(Prepared(request).body)
                          /\ Prepared(request).body.effort["codex"] = level
<1>0. /\ asked \in StandardLevels => IF asked \in levels THEN Goes(asked) ELSE Prepared(request).err = TRUE
      /\ suffixed /\ asked \in DOMAIN NumberOf /\ NumberOf[asked] > 0 =>
           Goes(clampLevel(ConvertBudgetToLevel(NumberOf[asked]), info))
      /\ asked = "none" \/ (suffixed /\ asked \in DOMAIN NumberOf /\ NumberOf[asked] = 0) => Goes(least)
      /\ asked = "auto" \/ (suffixed /\ asked = "-1") => Goes("medium")
  BY <1>1, <1>2, EffortOf
<1>9. ASSUME NEW level, Goes(level) PROVE IsSent /\ effort = level
  BY <1>3, <1>9
<1> HIDE DEF info, asked, suffixed, effort, refused, levels, least, other, Goes
<1>5. asked \in StandardLevels => IF asked \in levels THEN IsSent /\ effort = asked ELSE ~IsSent /\ refused
  <2>1. CASE asked \in StandardLevels /\ asked \in levels
    BY <1>0, <1>9, <2>1
  <2>2. CASE asked \in StandardLevels /\ asked \notin levels
    BY <1>0, <1>4, <2>2
  <2> QED BY <2>1, <2>2
<1>6. ASSUME suffixed, asked \in DOMAIN NumberOf, NumberOf[asked] > 0
      PROVE  /\ IsSent /\ effort \in levels
             /\ \A level \in levels : levelToBudgetMap[level] = NumberOf[asked] => effort = level
             /\ \A word \in DOMAIN NumberOf : NumberOf[word] > NumberOf[asked] =>
                  /\ ~Prepared(other(word)).err
                  /\ PlaceIn(info, Prepared(other(word)).body.effort["codex"]) >= PlaceIn(info, effort)
  <2> DEFINE LevelOf(n) == clampLevel(ConvertBudgetToLevel(n), info)
  <2> PICK n : n = NumberOf[asked]
    OBVIOUS
  <2>1. n \in Nat /\ n > 0
    BY <1>6, NumberWords
  <2>2. IsSent /\ effort = LevelOf(n)
    BY <1>0, <1>6, <1>9
  <2>3. /\ LevelOf(n) \in levels
        /\ \A level \in levels : levelToBudgetMap[level] = n => level = LevelOf(n)
        /\ \A m \in Nat : m > n => PlaceIn(info, LevelOf(n)) <= PlaceIn(info, LevelOf(m))
    BY <1>2, <2>1, NumbersRise DEF levels
  <2>4. ASSUME NEW word \in DOMAIN NumberOf, NumberOf[word] > n
        PROVE  /\ ~Prepared(other(word)).err
               /\ PlaceIn(info, Prepared(other(word)).body.effort["codex"]) >= PlaceIn(info, effort)
    <3> PICK q : q = other(word)
      OBVIOUS
    <3>1. NumberOf[word] \in Nat /\ NumberOf[word] > 0
      <4>1. NumberOf[word] \in Nat
        BY NumberWords
      <4> QED BY <2>1, <2>4, <4>1
    <3>2. /\ IsRequest(q) /\ q.endpoint # "compact" /\ Base(Model(q)) = Base(Model(request))
          /\ ParseSuffix(Model(q)).HasSuffix = TRUE /\ AskedOf(q) = word
      BY <1>1, <1>2, OtherSuffix DEF other
    <3>3. info = InfoOf[Base(Model(q))]
      BY <3>2 DEF info
    <3>4. Prepared(q).err = FALSE /\ Prepared(q).body.effort["codex"] = LevelOf(NumberOf[word])
      BY <1>2, <2>4, <3>1, <3>2, <3>3, NumberGoes
    <3>5. PlaceIn(info, LevelOf(n)) <= PlaceIn(info, LevelOf(NumberOf[word]))
      BY <2>3, <2>4, <3>1
    <3> QED BY <2>2, <3>4, <3>5
  <2> QED BY <2>2, <2>3, <2>4
<1>7. ASSUME asked = "none" \/ (suffixed /\ asked \in DOMAIN NumberOf /\ NumberOf[asked] = 0)
      PROVE  IsSent /\ effort = least
  BY <1>0, <1>7, <1>9
<1>8. ASSUME asked = "auto" \/ (suffixed /\ asked = "-1") PROVE IsSent /\ effort = "medium"
  BY <1>0, <1>8, <1>9
<1> QED BY <1>5, <1>6, <1>7, <1>8

\* For any requests, catalog and numbers: the effort a client asks for, in the suffix or in
\* the body, is what goes upstream, or the request is refused because the model has it not
\* (ApplyThinking, ValidateConfig and the appliers, from the handler to the executor).
THEOREM EffortAlwaysHonoured == ExecutorSpec => []EffortHonoured
<1>1. ExecutorInit => FromRequest
  BY DEF ExecutorInit, FromRequest
<1>2. FromRequest /\ [ExecutorNext]_executorVars => FromRequest'
  BY NextKeepsFromRequest
<1>3. FromRequest => EffortHonoured
  BY Honoured
<1> QED BY <1>1, <1>2, <1>3, PTL DEF ExecutorSpec

-----------------------------------------------------------------------------
(* The names of tools. *)

\* The strings, of which "mcp" is one.
Segment == STRING \union {"mcp"}
Word == Seq(Segment)

\* A name of at most n segments begins the longer one.
LEMMA Begins ==
  ASSUME NEW name \in Word, NEW n \in Nat
  PROVE  Truncated(name, n) \in Word /\ Len(Truncated(name, n)) <= n
<1>1. CASE Len(name) <= n
  BY <1>1 DEF Truncated
<1>2. CASE ~(Len(name) <= n)
  <2>1. Truncated(name, n) = SubSeq(name, 1, n)
    BY <1>2 DEF Truncated
  <2>2. name \in Seq(Segment) /\ Len(name) \in Nat
    BY DEF Word
  <2>3. SubSeq(name, 1, n) \in Seq(Segment) /\ Len(SubSeq(name, 1, n)) = n
    BY <1>2, <2>2
  <2> QED BY <2>1, <2>3 DEF Word
<1> QED BY <1>1, <1>2

LEMMA Pair == ASSUME NEW S, NEW a \in S, NEW b \in S
              PROVE  <<a, b>> \in Seq(S) /\ Len(<<a, b>>) = 2
OBVIOUS

\* The first attempt is short enough, and is absent only for what has no name.
LEMMA Candidate ==
  ASSUME NEW name \in Word
  PROVE  /\ shortenNameIfNeeded(name) \in Word /\ Len(shortenNameIfNeeded(name)) <= Limit
         /\ shortenNameIfNeeded(name) = <<>> => name = <<>>
<1>1. Limit \in Nat /\ Limit >= 2
  BY NameAssumption DEF NameAssumption
<1>2. CASE Len(name) <= Limit
  BY <1>2 DEF shortenNameIfNeeded
<1>3. CASE ~(Len(name) <= Limit) /\ name[1] = "mcp"
  <2>1. Last(name) \in Segment
    BY <1>1, <1>3 DEF Word, Last
  <2>2. /\ <<"mcp", Last(name)>> \in Word /\ Len(<<"mcp", Last(name)>>) = 2
        /\ <<"mcp", Last(name)>> # <<>>
    <3> PICK last \in Segment : last = Last(name)
      BY <2>1
    <3>1. <<"mcp", last>> \in Seq(Segment) /\ Len(<<"mcp", last>>) = 2
      <4>1. PICK mcp : mcp = "mcp"
        OBVIOUS
      <4>2. mcp \in Segment
        BY <4>1 DEF Segment
      <4>3. <<mcp, last>> \in Seq(Segment) /\ Len(<<mcp, last>>) = 2
        BY <4>2, Pair
      <4> QED BY <4>1, <4>3
    <3>2. Len(<<>>) = 0
      OBVIOUS
    <3>3. last = Last(name)
      OBVIOUS
    <3> QED BY <3>1, <3>2 DEF Word
  <2>3. shortenNameIfNeeded(name) = <<"mcp", Last(name)>>
    <3>1. Truncated(<<"mcp", Last(name)>>, Limit) = <<"mcp", Last(name)>>
      BY <1>1, <2>2 DEF Truncated
    <3> QED BY <1>3, <3>1 DEF shortenNameIfNeeded
  <2> QED BY <1>1, <2>2, <2>3
<1>4. CASE ~(Len(name) <= Limit) /\ name[1] # "mcp"
  <2>1. shortenNameIfNeeded(name) = SubSeq(name, 1, Limit)
    BY <1>4 DEF shortenNameIfNeeded, Truncated
  <2>2. SubSeq(name, 1, Limit) \in Word /\ Len(SubSeq(name, 1, Limit)) = Limit
    BY <1>1, <1>4 DEF Word
  <2>3. Len(<<>>) = 0
    OBVIOUS
  <2> QED BY <1>1, <2>1, <2>2, <2>3
<1> QED BY <1>2, <1>3, <1>4

\* With a suffix it is short enough still, and with different suffixes different.
LEMMA Suffixed ==
  ASSUME NEW cand \in Word
  PROVE  /\ \A i \in DOMAIN Numerals :
              LET name == Append(Truncated(cand, Limit - 1), Numerals[i])
              IN  name \in Word /\ Len(name) <= Limit /\ name # <<>>
         /\ \A i, j \in DOMAIN Numerals :
              Append(Truncated(cand, Limit - 1), Numerals[i]) = Append(Truncated(cand, Limit - 1), Numerals[j])
                => i = j
<1> PICK base : base = Truncated(cand, Limit - 1)
  OBVIOUS
<1>1. Limit \in Nat /\ Limit - 1 \in Nat /\ Numerals \in Seq(STRING)
  BY NameAssumption DEF NameAssumption
<1>2. base \in Seq(Segment) /\ Len(base) <= Limit - 1
  BY <1>1, Begins DEF Word
<1>3. ASSUME NEW i \in DOMAIN Numerals
      PROVE  /\ Append(base, Numerals[i]) \in Word /\ Len(Append(base, Numerals[i])) <= Limit
             /\ Append(base, Numerals[i]) # <<>> /\ Append(base, Numerals[i])[Len(base) + 1] = Numerals[i]
  <2> PICK numeral : numeral = Numerals[i]
    OBVIOUS
  <2>0. numeral \in Segment
    <3>1. numeral \in STRING
      BY <1>1
    <3> QED BY <3>1, Zenon DEF Segment
  <2>1. /\ Append(base, numeral) \in Seq(Segment) /\ Len(Append(base, numeral)) = Len(base) + 1
        /\ Append(base, numeral)[Len(base) + 1] = numeral /\ Len(base) \in Nat
    BY <1>2, <2>0
  <2>2. Len(<<>>) = 0
    OBVIOUS
  <2>3. numeral = Numerals[i] /\ Len(base) + 1 <= Limit
    BY <1>1, <1>2, <2>1
  <2>4. Append(base, numeral) # <<>>
    BY <2>1, <2>2
  <2> QED BY <2>1, <2>3, <2>4 DEF Word
<1>4. ASSUME NEW i \in DOMAIN Numerals, NEW j \in DOMAIN Numerals, Append(base, Numerals[i]) = Append(base, Numerals[j])
      PROVE  i = j
  <2>1. Numerals[i] = Numerals[j]
    BY <1>3, <1>4
  <2> QED BY <2>1, NameAssumption DEF NameAssumption
<1> QED BY <1>3, <1>4

\* While there are suffixes left, a name that is not used yet is found.
LEMMA Unused ==
  ASSUME NEW cand \in Word, Len(cand) <= Limit, NEW used, IsFiniteSet(used), Cardinality(used) < Len(Numerals)
  PROVE  /\ makeUnique(cand, used) \in Word /\ Len(makeUnique(cand, used)) <= Limit
         /\ makeUnique(cand, used) \notin used /\ (makeUnique(cand, used) = <<>> => cand = <<>>)
<1> DEFINE Numbered(i) == Append(Truncated(cand, Limit - 1), Numerals[i])
           N == DOMAIN Numerals
           Good(i) == Numbered(i) \notin used /\ \A j \in 1..(i - 1) : Numbered(j) \in used
<1>1. N = 1..Len(Numerals) /\ Len(Numerals) \in Nat
  BY NameAssumption DEF NameAssumption
<1>2. /\ \A i \in N : Numbered(i) \in Word /\ Len(Numbered(i)) <= Limit /\ Numbered(i) # <<>>
      /\ \A i, j \in N : Numbered(i) = Numbered(j) => i = j
  BY Suffixed
<1> HIDE DEF Numbered, N
<1>3. {i \in N : Numbered(i) \notin used} # {}
  <2> SUFFICES ASSUME \A i \in N : Numbered(i) \in used PROVE FALSE
    OBVIOUS
  <2> DEFINE f == [i \in N |-> Numbered(i)]
  <2>1. f \in Injection(N, used)
    BY <1>2 DEF Injection, IsInjective
  <2>2. Cardinality(N) <= Cardinality(used)
    <3> HIDE DEF f
    <3> QED BY <2>1, FS_Injection
  <2>3. Cardinality(N) = Len(Numerals)
    <3> PICK n \in Nat : n = Len(Numerals)
      BY <1>1
    <3>1. Cardinality(1..n) = n
      <4>1. Cardinality(1..n) = IF 1 > n THEN 0 ELSE n - 1 + 1
        <5>1. 1 \in Int /\ n \in Int
          OBVIOUS
        <5> QED BY <5>1, FS_Interval
      <4> QED BY <4>1
    <3> QED BY <1>1, <3>1
  <2>4. Cardinality(used) \in Nat
    BY FS_CardinalityType
  <2> QED BY <1>1, <2>2, <2>3, <2>4
<1>4. \E i \in N : Good(i)
  <2> DEFINE S == {i \in N : Numbered(i) \notin used}
  <2>1. S \subseteq Nat /\ S # {}
    BY <1>1, <1>3
  <2>2. PICK i \in S : \A j \in S : i <= j
    <3> HIDE DEF S
    <3> QED BY <2>1, LeastElement
  <2>3. ASSUME NEW j \in 1..(i - 1) PROVE Numbered(j) \in used
    <3>1. j \in N /\ ~(i <= j)
      BY <1>1, <2>2
    <3> QED BY <2>2, <3>1
  <2> QED BY <2>2, <2>3
<1>5. CASE cand \notin used
  BY <1>5 DEF makeUnique
<1>6. CASE cand \in used
  <2>1. makeUnique(cand, used) = Numbered(CHOOSE i \in N : Good(i))
    BY <1>6 DEF makeUnique, Numbered, N
  <2>2. PICK i \in N : Good(i) /\ makeUnique(cand, used) = Numbered(i)
    <3> HIDE DEF Good
    <3> QED BY <1>4, <2>1
  <2> QED BY <1>2, <2>2
<1> QED BY <1>5, <1>6

\* f tells the names given after each of the first n names.
GivenTo(f, names, n) == f = [i \in 0..n |-> IF i = 0 THEN NoneGiven ELSE Given(f[i - 1], names[i])]

LEMMA GivenExist == ASSUME NEW names PROVE \A n \in Nat : \E f : GivenTo(f, names, n)
<1> DEFINE T == {n \in Nat : \E f : GivenTo(f, names, n)}
<1>1. 0 \in T
  <2> DEFINE f == [i \in 0..0 |-> NoneGiven]
  <2>1. GivenTo(f, names, 0)
    BY DEF GivenTo
  <2> QED BY <2>1
<1>2. ASSUME NEW n \in Nat, n \in T PROVE n + 1 \in T
  <2>1. PICK f : GivenTo(f, names, n)
    BY <1>2
  <2> DEFINE h == [i \in 0..(n + 1) |-> IF i = n + 1 THEN Given(f[n], names[n + 1]) ELSE f[i]]
             b == [i \in 0..(n + 1) |-> IF i = 0 THEN NoneGiven ELSE Given(h[i - 1], names[i])]
  <2>2. ASSUME NEW i \in 0..(n + 1) PROVE h[i] = b[i]
    <3>1. CASE i = n + 1
      <4>1. i - 1 = n /\ n \in 0..(n + 1) /\ n # n + 1 /\ i # 0
        BY <3>1
      <4>2. h[i] = Given(f[n], names[n + 1]) /\ h[n] = f[n]
        BY <3>1, <4>1
      <4>3. b[i] = Given(h[n], names[n + 1])
        BY <3>1, <4>1
      <4> QED BY <4>2, <4>3
    <3>2. CASE i # n + 1
      <4>1. i \in 0..n /\ h[i] = f[i] /\ (i # 0 => i - 1 \in 0..(n + 1) /\ h[i - 1] = f[i - 1])
        BY <3>2
      <4>2. f[i] = IF i = 0 THEN NoneGiven ELSE Given(f[i - 1], names[i])
        BY <2>1, <4>1 DEF GivenTo
      <4>3. b[i] = IF i = 0 THEN NoneGiven ELSE Given(h[i - 1], names[i])
        OBVIOUS
      <4> HIDE DEF h, b
      <4> QED BY <4>1, <4>2, <4>3
    <3> QED BY <3>1, <3>2
  <2>3. h = [i \in 0..(n + 1) |-> h[i]] /\ b = [i \in 0..(n + 1) |-> b[i]]
    OBVIOUS
  <2>4. h = b
    <3> HIDE DEF h, b
    <3> QED BY <2>2, <2>3
  <2>5. GivenTo(h, names, n + 1)
    <3> HIDE DEF h
    <3> QED BY <2>4 DEF GivenTo
  <2> HIDE DEF h
  <2> QED BY <2>5
<1>3. Nat \subseteq T
  <2> HIDE DEF T
  <2> QED BY <1>1, <1>2, ClosedSet
<1> QED BY <1>3

LEMMA GivenOf ==
  ASSUME NEW names, Len(names) \in Nat
  PROVE  /\ NamesGiven(names)[0] = NoneGiven
         /\ \A i \in 1..Len(names) : NamesGiven(names)[i] = Given(NamesGiven(names)[i - 1], names[i])
<1>1. \E f : GivenTo(f, names, Len(names))
  BY GivenExist
<1>2. GivenTo(NamesGiven(names), names, Len(names))
  BY <1>1 DEF NamesGiven, GivenTo
<1> PICK f : f = NamesGiven(names)
  OBVIOUS
<1>3. f = [i \in 0..Len(names) |-> IF i = 0 THEN NoneGiven ELSE Given(f[i - 1], names[i])]
  BY <1>2 DEF GivenTo
<1>4. \A i \in 0..Len(names) : f[i] = IF i = 0 THEN NoneGiven ELSE Given(f[i - 1], names[i])
  BY <1>3
<1>5. 0 \in 0..Len(names) /\ \A i \in 1..Len(names) : i \in 0..Len(names) /\ i # 0
  OBVIOUS
<1> QED BY <1>4, <1>5

\* After k names: every one of them has a short name that was not used before.
Fitting(acc, names, k) ==
  /\ IsFiniteSet(acc.used) /\ Cardinality(acc.used) <= k
  /\ DOMAIN acc.map = {names[i] : i \in 1..k}
  /\ \A name \in DOMAIN acc.map :
       /\ acc.map[name] \in acc.used /\ Len(acc.map[name]) <= Limit
       /\ acc.map[name] = <<>> => name = <<>>
       /\ \A other \in DOMAIN acc.map : acc.map[name] = acc.map[other] => name = other

LEMMA NextFits ==
  ASSUME NEW names \in Seq(Word), NEW k \in Nat, k < Len(names), Len(names) <= Len(Numerals),
         NEW acc, Fitting(acc, names, k)
  PROVE  Fitting(Given(acc, names[k + 1]), names, k + 1)
<1> PICK name : name = names[k + 1]
  OBVIOUS
<1> PICK uniq : uniq = makeUnique(shortenNameIfNeeded(name), acc.used)
  OBVIOUS
<1> PICK next : next = Given(acc, name)
  OBVIOUS
<1>1. name \in Word /\ k + 1 \in 1..Len(names) /\ Len(names) \in Nat /\ Len(Numerals) \in Nat
  <2>1. Len(Numerals) \in Nat
    BY NameAssumption DEF NameAssumption
  <2>2. Len(names) \in Nat /\ k + 1 \in 1..Len(names)
    OBVIOUS
  <2> QED BY <2>1, <2>2
<1>2. IsFiniteSet(acc.used) /\ Cardinality(acc.used) \in Nat /\ Cardinality(acc.used) <= k
  BY FS_CardinalityType DEF Fitting
<1>3. /\ Len(uniq) <= Limit /\ uniq \notin acc.used /\ (uniq = <<>> => name = <<>>)
  <2>1. Cardinality(acc.used) < Len(Numerals)
    BY <1>1, <1>2
  <2> QED BY <1>1, <1>2, <2>1, Candidate, Unused
<1>4. /\ next.used = acc.used \union {uniq}
      /\ next.map = [n \in DOMAIN acc.map \union {name} |-> IF n = name THEN uniq ELSE acc.map[n]]
  BY DEF Given
<1>5. IsFiniteSet(next.used) /\ Cardinality(next.used) <= k + 1
  <2>1. IsFiniteSet(acc.used \union {uniq}) /\ Cardinality(acc.used \union {uniq}) = Cardinality(acc.used) + 1
    BY <1>2, <1>3, FS_AddElement
  <2> QED BY <1>2, <1>4, <2>1
<1>6. DOMAIN next.map = {names[i] : i \in 1..(k + 1)}
  <2>1. DOMAIN next.map = {names[i] : i \in 1..k} \union {names[k + 1]}
    BY <1>4 DEF Fitting
  <2>2. 1..(k + 1) = (1..k) \union {k + 1}
    OBVIOUS
  <2> QED BY <2>1, <2>2
<1>7. ASSUME NEW n \in DOMAIN next.map
      PROVE  /\ next.map[n] \in next.used /\ Len(next.map[n]) <= Limit
             /\ next.map[n] = <<>> => n = <<>>
             /\ \A other \in DOMAIN next.map : next.map[n] = next.map[other] => n = other
  <2>1. \A o \in DOMAIN next.map : /\ o = name => next.map[o] = uniq
                                   /\ o # name => o \in DOMAIN acc.map /\ next.map[o] = acc.map[o]
    BY <1>4
  <2>2. \A o \in DOMAIN acc.map : /\ acc.map[o] \in acc.used /\ Len(acc.map[o]) <= Limit
                                  /\ acc.map[o] = <<>> => o = <<>>
                                  /\ \A p \in DOMAIN acc.map : acc.map[o] = acc.map[p] => o = p
    BY DEF Fitting
  <2>3. CASE n = name
    <3>1. next.map[n] = uniq
      BY <2>1, <2>3
    <3>2. ASSUME NEW other \in DOMAIN next.map, next.map[n] = next.map[other] PROVE n = other
      <4>1. other # name => next.map[other] \in acc.used
        BY <2>1, <2>2
      <4> QED BY <1>3, <2>3, <3>1, <3>2, <4>1
    <3> QED BY <1>3, <1>4, <2>3, <3>1, <3>2
  <2>4. CASE n # name
    <3>1. n \in DOMAIN acc.map /\ next.map[n] = acc.map[n] /\ acc.map[n] \in acc.used
      BY <2>1, <2>2, <2>4
    <3>2. ASSUME NEW other \in DOMAIN next.map, next.map[n] = next.map[other] PROVE n = other
      <4>1. CASE other = name
        BY <1>3, <2>1, <3>1, <3>2, <4>1
      <4>2. CASE other # name
        BY <2>1, <2>2, <3>1, <3>2, <4>2
      <4> QED BY <4>1, <4>2
    <3> QED BY <1>4, <2>2, <3>1, <3>2
  <2> QED BY <2>3, <2>4
<1>8. Fitting(next, names, k + 1)
  BY <1>5, <1>6, <1>7, Zenon DEF Fitting
<1> QED BY <1>8

\* The map of all the names.
LEMMA MapFits ==
  ASSUME NEW names \in Seq(Word), Len(names) <= Len(Numerals)
  PROVE  /\ DOMAIN buildShortNameMap(names) = {names[i] : i \in DOMAIN names}
         /\ \A name \in DOMAIN buildShortNameMap(names) :
              /\ Len(buildShortNameMap(names)[name]) <= Limit
              /\ buildShortNameMap(names)[name] = <<>> => name = <<>>
              /\ \A other \in DOMAIN buildShortNameMap(names) :
                   buildShortNameMap(names)[name] = buildShortNameMap(names)[other] => name = other
<1>1. Len(names) \in Nat /\ DOMAIN names = 1..Len(names)
  OBVIOUS
<1> DEFINE given == NamesGiven(names)
           T == {k \in Nat : k <= Len(names) => Fitting(given[k], names, k)}
<1>2. /\ given[0] = NoneGiven
      /\ \A i \in 1..Len(names) : given[i] = Given(given[i - 1], names[i])
  BY <1>1, GivenOf
<1> HIDE DEF given
<1>3. 0 \in T
  <2>1. NoneGiven.used = {} /\ DOMAIN NoneGiven.map = {}
    BY DEF NoneGiven
  <2>2. IsFiniteSet({}) /\ Cardinality({}) = 0
    BY FS_EmptySet
  <2>3. {names[i] : i \in 1..0} = {}
    OBVIOUS
  <2>4. Fitting(NoneGiven, names, 0)
    BY <2>1, <2>2, <2>3 DEF Fitting
  <2> QED BY <1>2, <2>4
<1>4. ASSUME NEW k \in Nat, k \in T PROVE k + 1 \in T
  <2> SUFFICES ASSUME k + 1 <= Len(names) PROVE Fitting(given[k + 1], names, k + 1)
    OBVIOUS
  <2>1. k + 1 \in 1..Len(names) /\ (k + 1) - 1 = k /\ k < Len(names) /\ k <= Len(names)
    BY <1>1
  <2>2. given[k + 1] = Given(given[k], names[k + 1])
    BY <1>2, <2>1
  <2>3. Fitting(given[k], names, k)
    BY <1>4, <2>1
  <2> QED BY <2>1, <2>2, <2>3, NextFits
<1>5. Len(names) \in T
  <2> HIDE DEF T
  <2> QED BY <1>1, <1>3, <1>4, ClosedSet
<1>6. Fitting(given[Len(names)], names, Len(names)) /\ buildShortNameMap(names) = given[Len(names)].map
  BY <1>1, <1>5 DEF buildShortNameMap, given
<1> PICK acc : acc = given[Len(names)]
  OBVIOUS
<1>7. Fitting(acc, names, Len(names)) /\ buildShortNameMap(names) = acc.map
  BY <1>6
<1> QED BY <1>1, <1>7 DEF Fitting

\* f tells the functions among the first n tools.
KeptTo(f, tools, n) ==
  f = [i \in 0..n |-> IF i = 0 THEN <<>>
                      ELSE IF tools[i].type = "function" THEN Append(f[i - 1], tools[i]) ELSE f[i - 1]]

\* One tool more.
With(kept, tool) == IF tool.type = "function" THEN Append(kept, tool) ELSE kept

LEMMA KeptExist == ASSUME NEW tools PROVE \A n \in Nat : \E f : KeptTo(f, tools, n)
<1> DEFINE T == {n \in Nat : \E f : KeptTo(f, tools, n)}
<1>1. 0 \in T
  <2> DEFINE f == [i \in 0..0 |-> <<>>]
  <2>1. KeptTo(f, tools, 0)
    BY DEF KeptTo
  <2> QED BY <2>1
<1>2. ASSUME NEW n \in Nat, n \in T PROVE n + 1 \in T
  <2>1. PICK f : KeptTo(f, tools, n)
    BY <1>2
  <2> DEFINE h == [i \in 0..(n + 1) |-> IF i = n + 1 THEN With(f[n], tools[n + 1]) ELSE f[i]]
             b == [i \in 0..(n + 1) |-> IF i = 0 THEN <<>> ELSE With(h[i - 1], tools[i])]
  <2>2. ASSUME NEW i \in 0..(n + 1) PROVE h[i] = b[i]
    <3>1. CASE i = n + 1
      <4>1. i - 1 = n /\ n \in 0..(n + 1) /\ n # n + 1 /\ i # 0
        BY <3>1
      <4>2. h[i] = With(f[n], tools[n + 1]) /\ h[n] = f[n]
        BY <3>1, <4>1
      <4>3. b[i] = With(h[n], tools[n + 1])
        BY <3>1, <4>1
      <4> QED BY <4>2, <4>3
    <3>2. CASE i # n + 1
      <4>1. i \in 0..n /\ h[i] = f[i] /\ (i # 0 => i - 1 \in 0..(n + 1) /\ h[i - 1] = f[i - 1])
        BY <3>2
      <4>2. f[i] = IF i = 0 THEN <<>> ELSE With(f[i - 1], tools[i])
        BY <2>1, <4>1 DEF KeptTo, With
      <4>3. b[i] = IF i = 0 THEN <<>> ELSE With(h[i - 1], tools[i])
        OBVIOUS
      <4> HIDE DEF h, b
      <4> QED BY <4>1, <4>2, <4>3
    <3> QED BY <3>1, <3>2
  <2>3. h = [i \in 0..(n + 1) |-> h[i]] /\ b = [i \in 0..(n + 1) |-> b[i]]
    OBVIOUS
  <2>4. h = b
    <3> HIDE DEF h, b
    <3> QED BY <2>2, <2>3
  <2>5. KeptTo(h, tools, n + 1)
    <3> HIDE DEF h
    <3> QED BY <2>4 DEF KeptTo, With
  <2> HIDE DEF h
  <2> QED BY <2>5
<1>3. Nat \subseteq T
  <2> HIDE DEF T
  <2> QED BY <1>1, <1>2, ClosedSet
<1> QED BY <1>3

ToolRecord == [type : STRING, name : Word]

\* The tools that are functions, in a sequence.
LEMMA FunctionsOf ==
  ASSUME NEW tools \in Seq(ToolRecord)
  PROVE  /\ FunctionTools(tools) \in Seq(ToolRecord) /\ Len(FunctionTools(tools)) <= Len(tools)
         /\ \A i \in DOMAIN tools : tools[i].type = "function" =>
              \E j \in DOMAIN FunctionTools(tools) : FunctionTools(tools)[j] = tools[i]
<1>1. Len(tools) \in Nat /\ DOMAIN tools = 1..Len(tools)
  OBVIOUS
<1>2. PICK f : KeptTo(f, tools, Len(tools)) /\ FunctionTools(tools) = f[Len(tools)]
  <2> DEFINE g == CHOOSE f : KeptTo(f, tools, Len(tools))
  <2>1. KeptTo(g, tools, Len(tools))
    BY <1>1, KeptExist
  <2>2. FunctionTools(tools) = g[Len(tools)]
    BY DEF FunctionTools, KeptTo
  <2> HIDE DEF g
  <2> QED BY <2>1, <2>2
<1>3. /\ f[0] = <<>>
      /\ \A i \in 1..Len(tools) : f[i] = With(f[i - 1], tools[i])
  <2>1. \A i \in 0..Len(tools) : f[i] = IF i = 0 THEN <<>> ELSE With(f[i - 1], tools[i])
    BY <1>2 DEF KeptTo, With
  <2>2. 0 \in 0..Len(tools) /\ \A i \in 1..Len(tools) : i \in 0..Len(tools) /\ i # 0
    BY <1>1
  <2> QED BY <2>1, <2>2
<1> DEFINE Kept(k) == /\ f[k] \in Seq(ToolRecord) /\ Len(f[k]) <= k
                      /\ \A i \in 1..k : tools[i].type = "function" => \E j \in DOMAIN f[k] : f[k][j] = tools[i]
           T == {k \in Nat : k <= Len(tools) => Kept(k)}
<1>4. 0 \in T
  <2>1. f[0] \in Seq(ToolRecord) /\ Len(f[0]) = 0 /\ 1..0 = {}
    BY <1>3
  <2> QED BY <2>1
<1>5. ASSUME NEW k \in Nat, k \in T PROVE k + 1 \in T
  <2> SUFFICES ASSUME k + 1 <= Len(tools) PROVE Kept(k + 1)
    OBVIOUS
  <2>1. k + 1 \in 1..Len(tools) /\ (k + 1) - 1 = k /\ k <= Len(tools)
    BY <1>1
  <2> PICK tool : tool = tools[k + 1]
    OBVIOUS
  <2> PICK s : s = f[k]
    OBVIOUS
  <2>2. tool \in ToolRecord /\ f[k + 1] = With(s, tool)
    BY <1>1, <1>3, <2>1
  <2>3. /\ s \in Seq(ToolRecord) /\ Len(s) <= k
        /\ \A i \in 1..k : tools[i].type = "function" => \E j \in DOMAIN s : s[j] = tools[i]
    BY <1>5, <2>1
  <2>4. \A i \in 1..(k + 1) : i \in 1..k \/ tools[i] = tool
    OBVIOUS
  <2>5. CASE tool.type = "function"
    <3>1. f[k + 1] = Append(s, tool)
      BY <2>2, <2>5 DEF With
    <3>2. /\ Append(s, tool) \in Seq(ToolRecord) /\ Len(Append(s, tool)) = Len(s) + 1
          /\ DOMAIN Append(s, tool) = 1..(Len(s) + 1)
          /\ Append(s, tool)[Len(s) + 1] = tool /\ DOMAIN s = 1..Len(s) /\ Len(s) \in Nat
          /\ \A j \in 1..Len(s) : Append(s, tool)[j] = s[j]
      BY <2>2, <2>3
    <3>3. Len(s) + 1 \in 1..(Len(s) + 1) /\ \A j \in 1..Len(s) : j \in 1..(Len(s) + 1)
      BY <3>2
    <3>4. ASSUME NEW i \in 1..(k + 1), tools[i].type = "function"
          PROVE  \E j \in 1..(Len(s) + 1) : Append(s, tool)[j] = tools[i]
      <4>1. CASE tools[i] = tool
        BY <3>2, <3>3, <4>1
      <4>2. CASE tools[i] # tool
        <5>1. PICK j \in DOMAIN s : s[j] = tools[i]
          BY <2>3, <2>4, <3>4, <4>2
        <5> QED BY <3>2, <3>3, <5>1
      <4> QED BY <4>1, <4>2
    <3> PICK more : more = Append(s, tool)
      OBVIOUS
    <3>5. more \in Seq(ToolRecord) /\ Len(more) <= k + 1
      BY <2>3, <3>2
    <3>6. \A i \in 1..(k + 1) : tools[i].type = "function" => \E j \in DOMAIN more : more[j] = tools[i]
      BY <3>2, <3>4
    <3>7. f[k + 1] = more
      BY <3>1
    <3> QED BY <3>5, <3>6, <3>7, Zenon
  <2>6. CASE tool.type # "function"
    <3>1. f[k + 1] = s
      BY <2>2, <2>6 DEF With
    <3>2. Len(s) <= k + 1
      BY <2>3
    <3> QED BY <2>3, <2>4, <2>6, <3>1, <3>2
  <2> QED BY <2>5, <2>6
<1>6. Len(tools) \in T
  <2> HIDE DEF T
  <2> QED BY <1>1, <1>4, <1>5, ClosedSet
<1> QED BY <1>1, <1>2, <1>6

\* Their names, and what becomes of them.
LEMMA NamesRestored ==
  ASSUME NEW tools \in Seq(ToolRecord), Len(FunctionTools(tools)) <= Len(Numerals),
         NEW map, map = buildShortNameMap(ToolNames(tools)),
         NEW rev, rev = [short \in Range(map) |-> CHOOSE n \in DOMAIN map : map[n] = short]
  PROVE  \A i \in DOMAIN tools : tools[i].type = "function" =>
           /\ Len(ShortName(map, tools[i].name)) <= Limit
           /\ Restored(rev, ShortName(map, tools[i].name)) = tools[i].name
           /\ tools[i].name = <<>> => Restored(rev, <<>>) = <<>>
<1> PICK kept : kept = FunctionTools(tools)
  OBVIOUS
<1> PICK names : names = ToolNames(tools)
  OBVIOUS
<1>1. /\ kept \in Seq(ToolRecord)
      /\ \A i \in DOMAIN tools : tools[i].type = "function" => \E j \in DOMAIN kept : kept[j] = tools[i]
  BY FunctionsOf
<1>2. names = [i \in DOMAIN kept |-> kept[i].name]
  BY DEF ToolNames
<1>3. names \in Seq(Word) /\ Len(names) = Len(kept) /\ DOMAIN names = DOMAIN kept
  <2>1. Len(kept) \in Nat /\ DOMAIN kept = 1..Len(kept) /\ \A i \in DOMAIN kept : kept[i].name \in Word
    <3>1. \A t \in ToolRecord : t.name \in Word
      BY DEF ToolRecord
    <3>2. Len(kept) \in Nat /\ DOMAIN kept = 1..Len(kept) /\ \A i \in DOMAIN kept : kept[i] \in ToolRecord
      BY <1>1
    <3> QED BY <3>1, <3>2
  <2>2. names \in [1..Len(kept) -> Word]
    BY <1>2, <2>1
  <2> QED BY <2>1, <2>2
<1>4. /\ DOMAIN map = {names[i] : i \in DOMAIN names}
      /\ \A name \in DOMAIN map :
           /\ Len(map[name]) <= Limit
           /\ map[name] = <<>> => name = <<>>
           /\ \A other \in DOMAIN map : map[name] = map[other] => name = other
  BY <1>3, MapFits
<1>5. ASSUME NEW name \in DOMAIN map PROVE ShortName(map, name) = map[name] /\ Restored(rev, map[name]) = name
  <2>1. ShortName(map, name) = map[name]
    BY <1>5 DEF ShortName
  <2>2. map[name] \in Range(map)
    BY DEF Range
  <2>3. Restored(rev, map[name]) = CHOOSE n \in DOMAIN map : map[n] = map[name]
    BY <2>2 DEF Restored
  <2>4. (CHOOSE n \in DOMAIN map : map[n] = map[name]) = name
    BY <1>4
  <2> QED BY <2>1, <2>3, <2>4
<1>6. Restored(rev, <<>>) = <<>>
  <2>1. CASE <<>> \in Range(map)
    <3>1. PICK n \in DOMAIN map : map[n] = <<>>
      BY <2>1 DEF Range
    <3>2. n = <<>>
      BY <1>4, <3>1
    <3> QED BY <1>5, <3>1, <3>2
  <2>2. CASE <<>> \notin Range(map)
    BY <2>2 DEF Restored
  <2> QED BY <2>1, <2>2
<1>7. ASSUME NEW i \in DOMAIN tools, tools[i].type = "function" PROVE tools[i].name \in DOMAIN map
  <2>1. PICK j \in DOMAIN kept : kept[j] = tools[i]
    BY <1>1, <1>7
  <2>2. names[j] = tools[i].name /\ j \in DOMAIN names
    BY <1>2, <1>3, <2>1
  <2> QED BY <1>4, <2>2
<1> QED BY <1>4, <1>5, <1>6, <1>7

-----------------------------------------------------------------------------
(* What the body tells Codex of the tools. *)

LEMMA PromptTools ==
  ASSUME NEW body
  PROVE  /\ convertCompletionsRequestToChatCompletions(body).tools = <<>>
         /\ convertCompletionsRequestToChatCompletions(body).choice = [kind |-> "absent", name |-> <<>>]
BY Zenon DEF convertCompletionsRequestToChatCompletions

LEMMA TranscriptTools ==
  ASSUME NEW body
  PROVE  /\ ConvertOpenAIResponsesRequestToOpenAIChatCompletions(body).tools = FunctionTools(body.tools)
         /\ ConvertOpenAIResponsesRequestToOpenAIChatCompletions(body).choice = ChatChoice(body.choice)
BY Zenon DEF ConvertOpenAIResponsesRequestToOpenAIChatCompletions

LEMMA ChatTools ==
  ASSUME NEW r \in Requests, SourceFormat(r) = "openai"
  PROVE  /\ Payload(r).tools \in Seq(ToolRecord) /\ Len(FunctionTools(Payload(r).tools)) <= Len(Numerals)
         /\ {"kind", "name"} \subseteq DOMAIN Payload(r).choice
<1>1. r.endpoint \in {"chat", "completions", "responses", "compact"}
  BY AreRequests DEF IsRequest
<1>2. r.endpoint \in {"chat", "completions"}
  BY <1>1 DEF SourceFormat
<1>3. Len(Numerals) \in Nat
  BY NameAssumption DEF NameAssumption
<1>4. CASE r.endpoint = "completions"
  <2>1. Payload(r) = convertCompletionsRequestToChatCompletions(r.body)
    BY <1>4 DEF Payload
  <2>2. Payload(r).tools = <<>> /\ Payload(r).choice = [kind |-> "absent", name |-> <<>>]
    BY <2>1, PromptTools
  <2>3. <<>> \in Seq(ToolRecord) /\ Len(<<>>) = 0
    OBVIOUS
  <2>4. FunctionTools(<<>>) \in Seq(ToolRecord) /\ Len(FunctionTools(<<>>)) <= 0
    BY <2>3, FunctionsOf
  <2>5. Len(FunctionTools(<<>>)) \in Nat
    BY <2>4
  <2> QED BY <1>3, <2>2, <2>3, <2>4, <2>5
<1>5. CASE r.endpoint = "chat"
  <2> PICK tools : tools = r.body.tools
    OBVIOUS
  <2> PICK choice : choice = r.body.choice
    OBVIOUS
  <2>1. /\ tools \in Seq([type : STRING, name : Seq(STRING)])
        /\ choice \in [kind : STRING, name : Seq(STRING)] /\ Len(FunctionTools(tools)) <= Len(Numerals)
    BY <1>5, ToolsAssumption, Zenon DEF ToolsAssumption
  <2>2. tools \in Seq(ToolRecord)
    <3>1. STRING \subseteq Segment
      BY Zenon DEF Segment
    <3>2. Seq(STRING) \subseteq Word
      BY <3>1, Wider DEF Word
    <3>3. [type : STRING, name : Seq(STRING)] \subseteq ToolRecord
      BY <3>2 DEF ToolRecord
    <3> PICK declared : declared = [type : STRING, name : Seq(STRING)]
      OBVIOUS
    <3>4. declared \subseteq ToolRecord /\ tools \in Seq(declared)
      BY <2>1, <3>3
    <3> QED BY ONLY <3>4, Wider, Zenon
  <2>3. DOMAIN choice = {"kind", "name"}
    BY <2>1
  <2>4. CASE r.format = "responses"
    <3>1. Payload(r) = ConvertOpenAIResponsesRequestToOpenAIChatCompletions(r.body)
      BY <1>5, <2>4 DEF Payload
    <3>2. Payload(r).tools = FunctionTools(tools) /\ Payload(r).choice = ChatChoice(choice)
      BY <3>1, TranscriptTools
    <3> PICK functions : functions = FunctionTools(tools)
      OBVIOUS
    <3>3. functions \in Seq(ToolRecord)
      BY <2>2, FunctionsOf
    <3>4. FunctionTools(functions) \in Seq(ToolRecord) /\ Len(FunctionTools(functions)) <= Len(functions)
      BY <3>3, FunctionsOf
    <3>5. Len(FunctionTools(functions)) \in Nat /\ Len(functions) \in Nat
      BY <3>3, <3>4
    <3>6. DOMAIN ChatChoice(choice) = {"kind", "name"}
      BY <2>3 DEF ChatChoice
    <3> QED BY <1>3, <2>1, <3>2, <3>3, <3>4, <3>5, <3>6
  <2>5. CASE r.format # "responses"
    <3>1. Payload(r) = r.body
      BY <1>5, <2>5 DEF Payload
    <3> QED BY <2>1, <2>2, <2>3, <3>1
  <2> QED BY <2>4, <2>5
<1> QED BY <1>2, <1>4, <1>5

\* A body that has tools.
HasTools(body) == {"effort", "tools", "choice"} \subseteq DOMAIN body
SameTools(b, body) == b.tools = body.tools /\ b.choice = body.choice

\* The effort is written and all else stays.
LEMMA EffortOnly ==
  ASSUME NEW body, HasTools(body), NEW format, NEW level
  PROVE  SameTools(SetEffort(body, format, level), body)
BY DEF HasTools, SameTools, SetEffort

Modes == {"budget", "level", "none", "auto"}

LEMMA ModesOfSuffix == ASSUME NEW raw PROVE parseSuffixToConfig(raw).Mode \in Modes
<1>1. /\ None.Mode = "none" /\ Automatic.Mode = "auto" /\ NoConfig.Mode = "budget"
      /\ \A n, level : Config("level", n, level).Mode = "level" /\ Config("budget", n, level).Mode = "budget"
  BY DEF None, Automatic, NoConfig, Config
<1>2. CASE Len(raw) # 1
  BY <1>1, <1>2 DEF parseSuffixToConfig, Modes
<1>3. CASE Len(raw) = 1
  <2> PICK w : w = raw[1]
    OBVIOUS
  <2>1. CASE w \in {"none", "auto", "-1"} \union StandardLevels \union DOMAIN NumberOf
    <3>1. \/ parseSuffixToConfig(raw) \in {None, Automatic}
          \/ \E level : parseSuffixToConfig(raw) = Config("level", 0, level)
          \/ \E n : parseSuffixToConfig(raw) = Config("budget", n, "")
      BY <1>3, <2>1, WordConfig
    <3> QED BY <1>1, <3>1 DEF Modes
  <2>2. CASE w \notin {"none", "auto", "-1"} \union StandardLevels \union DOMAIN NumberOf
    <3>1. parseSuffixToConfig(raw) = NoConfig
      BY <1>3, <2>2 DEF parseSuffixToConfig
    <3> QED BY <1>1, <3>1 DEF Modes
  <2> QED BY <2>1, <2>2
<1> QED BY <1>2, <1>3

LEMMA ModesOfBody == ASSUME NEW body, NEW format PROVE extractThinkingConfig(body, format).Mode \in Modes
<1> PICK asked : asked = body.effort[format]
  OBVIOUS
<1>1. None.Mode = "none" /\ NoConfig.Mode = "budget" /\ \A level : Config("level", 0, level).Mode = "level"
  BY DEF None, NoConfig, Config
<1>2. \/ extractThinkingConfig(body, format) \in {None, NoConfig}
      \/ extractThinkingConfig(body, format) = Config("level", 0, asked)
  <2>1. CASE format \notin Formats
    BY <2>1 DEF extractThinkingConfig
  <2>2. CASE format \in Formats
    <3>1. CASE asked = ""
      BY <2>2, <3>1 DEF extractThinkingConfig
    <3>2. CASE asked = "none"
      BY <2>2, <3>2 DEF extractThinkingConfig
    <3>3. CASE asked \notin {"", "none"}
      BY <2>2, <3>3 DEF extractThinkingConfig
    <3> QED BY <3>1, <3>2, <3>3
  <2> QED BY <2>1, <2>2
<1> QED BY <1>1, <1>2 DEF Modes

LEMMA AppliedKeepsTools ==
  ASSUME NEW body, HasTools(body), NEW format, NEW c, NEW info, info.user => c.Mode \in Modes
  PROVE  SameTools(Apply(body, format, c, info), body)
<1>1. SameTools(body, body) /\ \A level : SameTools(SetEffort(body, format, level), body)
  BY EffortOnly DEF SameTools
<1>2. CASE info.user
  <2>1. Apply(body, format, c, info) = applyCompatible(body, format, c)
    BY <1>2 DEF Apply, IsUserDefinedModel
  <2>2. \/ applyCompatible(body, format, c) = body
        \/ \E level : applyCompatible(body, format, c) = SetEffort(body, format, level)
    <3>1. CASE c.Mode = "level"
      BY <3>1 DEF applyCompatible
    <3>2. CASE c.Mode = "none"
      BY <3>2 DEF applyCompatible
    <3>3. CASE c.Mode = "auto"
      BY <3>3 DEF applyCompatible
    <3>4. CASE c.Mode = "budget"
      BY <3>4 DEF applyCompatible
    <3> QED BY <1>2, <3>1, <3>2, <3>3, <3>4 DEF Modes
  <2> QED BY <1>1, <2>1, <2>2
<1>3. CASE ~info.user
  <2>1. \/ Apply(body, format, c, info) = body
        \/ \E level : Apply(body, format, c, info) = SetEffort(body, format, level)
    BY <1>3 DEF Apply, IsUserDefinedModel
  <2> QED BY <1>1, <2>1
<1> QED BY <1>2, <1>3

LEMMA ThinkingKeepsTools ==
  ASSUME NEW body, HasTools(body), NEW model, NEW info, NEW from, NEW to
  PROVE  SameTools(ApplyThinking(body, model, info, from, to).body, body)
<1> PICK suffix : suffix = ParseSuffix(model)
  OBVIOUS
<1> PICK result : result = ApplyThinking(body, model, info, from, to).body
  OBVIOUS
<1>1. SameTools(body, body) /\ \A level : SameTools(SetEffort(body, to, level), body)
  BY EffortOnly DEF SameTools
<1>2. CASE to \notin Formats
  <2>1. result = body
    BY <1>2 DEF ApplyThinking
  <2> QED BY <1>1, <2>1
<1>3. CASE to \in Formats /\ IsUserDefinedModel(info)
  <2>1. result = applyUserDefinedModel(body, info, from, to, suffix)
    BY <1>3 DEF ApplyThinking
  <2>2. \/ applyUserDefinedModel(body, info, from, to, suffix) = body
        \/ \E c : c.Mode \in Modes /\ applyUserDefinedModel(body, info, from, to, suffix) = Apply(body, to, c, info)
    BY ModesOfSuffix, ModesOfBody DEF applyUserDefinedModel
  <2> QED BY <1>1, <2>1, <2>2, AppliedKeepsTools
<1>4. CASE to \in Formats /\ ~IsUserDefinedModel(info)
  <2>1. \/ result = body
        \/ result = StripThinkingConfig(body, to)
        \/ \E c : result = Apply(body, to, c, info)
    BY <1>4 DEF ApplyThinking
  <2>2. ~info.user
    BY <1>4 DEF IsUserDefinedModel
  <2> QED BY <1>1, <2>1, <2>2, AppliedKeepsTools DEF StripThinkingConfig
<1> QED BY <1>2, <1>3, <1>4

\* The tools and the choice of a chat, as they go upstream.
LEMMA SentTools ==
  ASSUME NEW r, SourceFormat(r) = "openai",
         NEW chat, chat = Payload(r), NEW map, map = buildShortNameMap(ToolNames(chat.tools))
  PROVE  /\ Prepared(r).body.tools = [i \in DOMAIN chat.tools |-> Tool(chat.tools[i], map)]
         /\ Prepared(r).body.choice = Choice(chat.choice, map)
<1> PICK body : body = ConvertOpenAIRequestToCodex(Base(Model(r)), chat, r.body.stream)
  OBVIOUS
<1>1. Target(r) = "codex"
  BY DEF Target, SourceFormat
<1>2. Prepared(r) = ApplyThinking(body, Model(r), InfoOf[Base(Model(r))], "openai", "codex")
  BY <1>1 DEF Prepared, TranslateRequest
<1>3. /\ HasTools(body) /\ body.tools = [i \in DOMAIN chat.tools |-> Tool(chat.tools[i], map)]
      /\ body.choice = Choice(chat.choice, map)
  BY DEF ConvertOpenAIRequestToCodex, HasTools
<1>4. SameTools(Prepared(r).body, body)
  BY <1>2, <1>3, ThinkingKeepsTools
<1> QED BY <1>3, <1>4 DEF SameTools

LEMMA NamesAreRestored == ASSUME FromRequest PROVE ShortNamesRestored
<1> PICK chat : chat = Payload(request)
  OBVIOUS
<1> PICK map : map = buildShortNameMap(ToolNames(chat.tools))
  OBVIOUS
<1> PICK rev : rev = ReverseMap
  OBVIOUS
<1> PICK body : body = sent.body
  OBVIOUS
<1>1. SUFFICES ASSUME IsSent, SourceFormat(request) = "openai"
               PROVE  /\ DOMAIN body.tools = DOMAIN chat.tools
                      /\ \A i \in DOMAIN chat.tools : chat.tools[i].type = "function" =>
                           /\ Len(body.tools[i].name) <= Limit
                           /\ Restored(rev, body.tools[i].name) = chat.tools[i].name
                           /\ \A j \in DOMAIN chat.tools :
                                chat.tools[j].type = "function" /\ body.tools[i].name = body.tools[j].name =>
                                  chat.tools[i].name = chat.tools[j].name
                           /\ body.choice.kind = "function" /\ chat.choice.name = chat.tools[i].name =>
                                Restored(rev, body.choice.name) = chat.tools[i].name
  BY DEF ShortNamesRestored
<1>2. request \in Requests /\ body = Prepared(request).body
  BY <1>1 DEF FromRequest, IsSent
<1>3. /\ chat.tools \in Seq(ToolRecord) /\ Len(FunctionTools(chat.tools)) <= Len(Numerals)
      /\ {"kind", "name"} \subseteq DOMAIN chat.choice
  BY <1>1, <1>2, ChatTools
<1>4. /\ body.tools = [i \in DOMAIN chat.tools |-> Tool(chat.tools[i], map)]
      /\ body.choice = Choice(chat.choice, map)
  BY <1>1, <1>2, SentTools
<1>5. rev = [short \in Range(map) |-> CHOOSE n \in DOMAIN map : map[n] = short]
  BY DEF ReverseMap, buildReverseMapFromOriginalOpenAI
<1>6. \A i \in DOMAIN chat.tools : chat.tools[i].type = "function" =>
        /\ Len(ShortName(map, chat.tools[i].name)) <= Limit
        /\ Restored(rev, ShortName(map, chat.tools[i].name)) = chat.tools[i].name
        /\ chat.tools[i].name = <<>> => Restored(rev, <<>>) = <<>>
  <2> PICK tools : tools = chat.tools
    OBVIOUS
  <2>1. tools \in Seq(ToolRecord) /\ Len(FunctionTools(tools)) <= Len(Numerals) /\ map = buildShortNameMap(ToolNames(tools))
    BY <1>3
  <2> QED BY <1>5, <2>1, NamesRestored
<1>7. ASSUME NEW i \in DOMAIN chat.tools, chat.tools[i].type = "function"
      PROVE  body.tools[i].name = ShortName(map, chat.tools[i].name)
  <2> PICK tool : tool = chat.tools[i]
    OBVIOUS
  <2>1. tool \in ToolRecord
    BY <1>3
  <2>2. Tool(tool, map).name = ShortName(map, tool.name)
    BY <1>7, <2>1 DEF Tool, ToolRecord
  <2> QED BY <1>4, <2>2
<1>8. ASSUME NEW i \in DOMAIN chat.tools, chat.tools[i].type = "function",
             body.choice.kind = "function", chat.choice.name = chat.tools[i].name
      PROVE  Restored(rev, body.choice.name) = chat.tools[i].name
  <2> PICK c : c = chat.choice
    OBVIOUS
  <2>1. {"kind", "name"} \subseteq DOMAIN c /\ body.choice = Choice(c, map)
    BY <1>3, <1>4
  <2>2. c.kind = "function"
    BY <1>8, <2>1 DEF Choice
  <2>3. CASE c.name = <<>>
    <3>1. body.choice.name = <<>>
      BY <2>1, <2>3 DEF Choice
    <3> QED BY <1>6, <1>8, <2>3, <3>1
  <2>4. CASE c.name # <<>>
    <3>1. body.choice.name = ShortName(map, c.name)
      BY <2>1, <2>2, <2>4 DEF Choice
    <3> QED BY <1>6, <1>8, <3>1
  <2> QED BY <2>3, <2>4
<1>9. ASSUME NEW i \in DOMAIN chat.tools, chat.tools[i].type = "function",
             NEW j \in DOMAIN chat.tools, chat.tools[j].type = "function", body.tools[i].name = body.tools[j].name
      PROVE  chat.tools[i].name = chat.tools[j].name
  BY <1>6, <1>7, <1>9
<1>10. DOMAIN body.tools = DOMAIN chat.tools
  BY <1>4
<1> QED BY <1>6, <1>7, <1>8, <1>9, <1>10

\* For any requests: the names Codex is told of a chat's tools are within the limit, differ
\* where the client's differ, and are translated back into the client's, the name of the
\* chosen tool among them, as long as there are suffixes to tell them apart
\* (buildShortNameMap and buildReverseMapFromOriginalOpenAI, which compute the map twice).
THEOREM ShortNamesAlwaysRestored == ExecutorSpec => []ShortNamesRestored
<1>1. ExecutorInit => FromRequest
  BY DEF ExecutorInit, FromRequest
<1>2. FromRequest /\ [ExecutorNext]_executorVars => FromRequest'
  BY NextKeepsFromRequest
<1>3. FromRequest => ShortNamesRestored
  BY NamesAreRestored
<1> QED BY <1>1, <1>2, <1>3, PTL DEF ExecutorSpec

=============================================================================

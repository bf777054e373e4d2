------------------------- MODULE ProductDisplayProofs -------------------------
(***************************************************************************)
(* Proofs about ProductDisplay for any number of sites, products, volumes, *)
(* managers and calls of the user.                                         *)
(***************************************************************************)
EXTENDS ProductDisplay, SequencesExt, SequenceTheorems, FiniteSetTheorems,
        WellFoundedInduction, TLAPS

-----------------------------------------------------------------------------
(* Greatest and least numbers, and queues.                                 *)

(* A set of numbers that is not empty has a least element. *)
LEMMA LeastNumber ==
  ASSUME NEW T \in SUBSET Nat, T # {} PROVE \E x \in T : \A y \in T : ~ (y < x)
<1> DEFINE Less == {ss \in Nat \X Nat : ss[1] < ss[2]}
<1>1. IsWellFoundedOn(Less, Nat)
  BY NatLessThanWellFounded DEF OpToRel
<1> HIDE DEF Less
<1>2. PICK x \in T : \A y \in T : ~ (<<y, x>> \in Less)
  BY <1>1, WFMin
<1>3. ASSUME NEW y \in T, y < x PROVE FALSE
  <2>1. <<y, x>> \in Less
    BY <1>3 DEF Less
  <2> QED BY <1>2, <2>1
<1> QED BY <1>3

(* Min is the least element. *)
LEMMA MinFacts ==
  ASSUME NEW S \in SUBSET Nat, S # {}
  PROVE  Min(S) \in S /\ \A y \in S : Min(S) <= y
<1>1. PICK x \in S : \A y \in S : ~ (y < x)
  BY LeastNumber
<1>2. \A y \in S : x <= y
  BY <1>1
<1> QED BY <1>2 DEF Min

(* A finite set of numbers has a greatest element, which is Max.  Otherwise *)
(* the smallest set without one would be smaller still without any of its   *)
(* elements.                                                                *)
LEMMA MaxFacts ==
  ASSUME NEW S \in SUBSET Nat, IsFiniteSet(S), S # {}
  PROVE  Max(S) \in S /\ \A y \in S : y <= Max(S)
<1> DEFINE Topped(U) == \E x \in U : \A y \in U : y <= x
           Sizes == {n \in Nat : \E U \in SUBSET S :
                                   U # {} /\ ~ Topped(U) /\ Cardinality(U) = n}
<1>1. \A U \in SUBSET S : IsFiniteSet(U) /\ Cardinality(U) \in Nat
  BY FS_Subset, FS_CardinalityType
<1>2. Sizes = {}
  <2> SUFFICES ASSUME Sizes # {} PROVE FALSE
    OBVIOUS
  <2>1. PICK n \in Sizes : \A k \in Sizes : ~ (k < n)
    BY LeastNumber
  <2>2. PICK U \in SUBSET S : U # {} /\ ~ Topped(U) /\ Cardinality(U) = n
    BY <2>1
  <2>3. PICK x \in U : TRUE
    BY <2>2
  <2>4. /\ U \ {x} \in SUBSET S /\ Cardinality(U \ {x}) \in Nat
        /\ Cardinality(U \ {x}) < n
    BY <1>1, <2>2, <2>3, FS_RemoveElement
  <2>5. CASE U \ {x} = {}
    <3>1. \A y \in U : y = x
      BY <2>5
    <3>2. x \in Nat
      OBVIOUS
    <3> QED BY <2>2, <3>1, <3>2
  <2>6. CASE U \ {x} # {}
    <3>1. Topped(U \ {x})
      BY <2>1, <2>4, <2>6
    <3>2. PICK z \in U \ {x} : \A y \in U \ {x} : y <= z
      BY <3>1
    <3>3. x \in Nat /\ z \in Nat /\ \A y \in U : y \in Nat
      OBVIOUS
    <3>4. \A y \in U : y = x \/ y <= z
      BY <3>2
    <3>5. CASE x <= z
      BY <2>2, <3>2, <3>3, <3>4, <3>5
    <3>6. CASE z < x
      <4>1. \A y \in U : y <= x
        BY <3>3, <3>4, <3>6
      <4> QED BY <2>2, <2>3, <4>1
    <3> QED BY <3>3, <3>5, <3>6
  <2> QED BY <2>5, <2>6
<1>3. Topped(S)
  BY <1>1, <1>2
<1>4. PICK x \in S : \A y \in S : y <= x
  BY <1>3
<1>5. \A y \in S : x >= y
  BY <1>4
<1>6. Max(S) \in S /\ \A y \in S : Max(S) >= y
  BY <1>5 DEF Max
<1>7. Max(S) \in Nat
  BY <1>6
<1> QED BY <1>6, <1>7

(* Append adds one element. *)
LEMMA AppendToSet ==
  ASSUME NEW S, NEW q \in Seq(S), NEW j \in S
  PROVE  Append(q, j) \in Seq(S) /\ ToSet(Append(q, j)) = ToSet(q) \union {j}
<1>1. /\ Append(q, j) \in Seq(S) /\ Len(Append(q, j)) = Len(q) + 1
      /\ \A i \in 1 .. Len(q) : Append(q, j)[i] = q[i]
      /\ Append(q, j)[Len(q) + 1] = j
  OBVIOUS
<1> DEFINE z == Append(q, j)
<1> HIDE DEF z
<1> QED BY <1>1 DEF ToSet, z

(* A list consists of its head and its tail. *)
LEMMA HeadTailToSet ==
  ASSUME NEW S, NEW q \in Seq(S), q # <<>>
  PROVE  /\ Head(q) \in S /\ Tail(q) \in Seq(S)
         /\ ToSet(q) = {Head(q)} \union ToSet(Tail(q))
<1>1. /\ Len(q) \in Nat \ {0} /\ Head(q) = q[1] /\ Head(q) \in S
      /\ Tail(q) \in Seq(S) /\ Len(Tail(q)) = Len(q) - 1
      /\ \A i \in 1 .. (Len(q) - 1) : Tail(q)[i] = q[i + 1]
  BY EmptySeq, HeadTailProperties
<1> DEFINE z == Tail(q)
<1> HIDE DEF z
<1>2. ToSet(q) \subseteq {Head(q)} \union ToSet(z)
  <2> SUFFICES ASSUME NEW i \in 1 .. Len(q)
               PROVE  q[i] = Head(q) \/ q[i] \in ToSet(z)
    BY LenProperties DEF ToSet
  <2>1. CASE i = 1
    BY <1>1, <2>1
  <2>2. CASE i > 1
    <3>1. i - 1 \in 1 .. (Len(q) - 1)
      BY <1>1, <2>2
    <3>2. q[i] = z[i - 1] /\ i - 1 \in DOMAIN z
      BY <1>1, <3>1 DEF z
    <3> QED BY <3>2 DEF ToSet
  <2> QED BY <2>1, <2>2
<1>3. {Head(q)} \union ToSet(z) \subseteq ToSet(q)
  <2>1. Head(q) \in ToSet(q)
    BY <1>1 DEF ToSet
  <2>2. ASSUME NEW i \in DOMAIN z PROVE z[i] \in ToSet(q)
    <3>1. i \in 1 .. (Len(q) - 1)
      BY <1>1, LenProperties DEF z
    <3>2. i + 1 \in DOMAIN q /\ z[i] = q[i + 1]
      BY <1>1, <3>1 DEF z
    <3> QED BY <3>2 DEF ToSet
  <2> QED BY <2>1, <2>2 DEF ToSet
<1> QED BY <1>1, <1>2, <1>3 DEF z

(* A signal that is added leaves those there are. *)
LEMMA AppendGains ==
  ASSUME NEW S, NEW q \in Seq(S), NEW x
  PROVE  ToSet(q) \subseteq ToSet(Append(q, x)) /\ x \in ToSet(Append(q, x))
<1>1. q \in Seq(S \union {x})
  BY SeqMonotonic
<1> QED BY <1>1, AppendToSet

(* Signals that are added leave those there are. *)
LEMMA ConcatToSet ==
  ASSUME NEW S, NEW q \in Seq(S), NEW r \in Seq(S)
  PROVE  ToSet(q) \subseteq ToSet(q \o r) /\ ToSet(r) \subseteq ToSet(q \o r)
<1> DEFINE z == q \o r
<1>1. /\ Len(z) = Len(q) + Len(r) /\ Len(q) \in Nat /\ Len(r) \in Nat
      /\ \A i \in 1 .. Len(q) : z[i] = q[i]
      /\ \A i \in 1 .. Len(r) : z[Len(q) + i] = r[i]
      /\ z \in Seq(S)
  <2>1. /\ z \in Seq(S) /\ Len(z) = Len(q) + Len(r)
        /\ \A i \in 1 .. Len(z) : z[i] = IF i <= Len(q) THEN q[i] ELSE r[i - Len(q)]
    BY ConcatProperties
  <2> HIDE DEF z
  <2>2. Len(q) \in Nat /\ Len(r) \in Nat
    OBVIOUS
  <2>3. ASSUME NEW i \in 1 .. Len(q) PROVE z[i] = q[i]
    BY <2>1, <2>2
  <2>4. ASSUME NEW i \in 1 .. Len(r) PROVE z[Len(q) + i] = r[i]
    <3>1. Len(q) + i \in 1 .. Len(z) /\ ~ (Len(q) + i <= Len(q))
      BY <2>1, <2>2
    <3>2. (Len(q) + i) - Len(q) = i
      BY <2>2
    <3> QED BY <2>1, <3>1, <3>2
  <2> QED BY <2>1, <2>2, <2>3, <2>4
<1> HIDE DEF z
<1>2. /\ DOMAIN z = 1 .. Len(z) /\ DOMAIN q = 1 .. Len(q)
      /\ DOMAIN r = 1 .. Len(r)
  BY <1>1
<1>3. ASSUME NEW i \in DOMAIN q PROVE q[i] \in ToSet(z)
  BY <1>1, <1>2 DEF ToSet
<1>4. ASSUME NEW i \in DOMAIN r PROVE r[i] \in ToSet(z)
  <2>1. Len(q) + i \in DOMAIN z /\ z[Len(q) + i] = r[i]
    BY <1>1, <1>2
  <2> QED BY <2>1 DEF ToSet
<1> QED BY <1>3, <1>4 DEF ToSet, z

-----------------------------------------------------------------------------
(* Queries.                                                                *)

(* Times are numbers, and any of them have a latest and an earliest one. *)
LEMMA TimeFacts ==
  /\ AnyTime \subseteq Nat /\ Times \subseteq AnyTime /\ Times \subseteq Nat
  /\ Latest = 0 /\ Latest \in AnyTime /\ Latest \notin Times
  /\ \A K \in SUBSET Times : K # {} =>
       /\ Max(K) \in K /\ \A k \in K : k <= Max(K)
       /\ Min(K) \in K /\ \A k \in K : Min(K) <= k
<1>1. Times \subseteq Nat /\ IsFiniteSet(Times)
  BY DisplayAssumption
<1>2. ASSUME NEW K \in SUBSET Times, K # {}
      PROVE  /\ Max(K) \in K /\ \A k \in K : k <= Max(K)
             /\ Min(K) \in K /\ \A k \in K : Min(K) <= k
  <2>1. K \in SUBSET Nat /\ IsFiniteSet(K)
    BY <1>1, FS_Subset
  <2> QED BY <2>1, <1>2, MaxFacts, MinFacts
<1> QED BY <1>1, <1>2, DisplayAssumption DEF AnyTime

(* GetBoundedElementIterator finds an element, the time itself if it is    *)
(* there: the last one not later, or the first of all.                     *)
LEMMA BoundedFacts ==
  ASSUME NEW K \in SUBSET Nat, IsFiniteSet(K), K # {}, NEW t \in Nat
  PROVE  /\ Bounded(K, t) \in K
         /\ t \in K => Bounded(K, t) = t
         /\ \A k \in K : k <= t => k <= Bounded(K, t) /\ Bounded(K, t) <= t
         /\ (\A k \in K : t < k) => \A k \in K : Bounded(K, t) <= k
<1> DEFINE U == UpTo(K, t)
<1>1. U \in SUBSET Nat /\ U \subseteq K /\ IsFiniteSet(U)
      /\ \A k \in K : k \in U <=> k <= t
  BY FS_Subset DEF UpTo
<1>2. CASE U = {}
  <2>1. Bounded(K, t) = Min(K)
    BY <1>2 DEF Bounded
  <2>2. Min(K) \in K /\ \A k \in K : Min(K) <= k
    BY MinFacts
  <2> QED BY <1>1, <1>2, <2>1, <2>2
<1>3. CASE U # {}
  <2>1. Bounded(K, t) = Max(U)
    BY <1>3 DEF Bounded
  <2>2. Max(U) \in U /\ \A k \in U : k <= Max(U)
    BY <1>1, <1>3, MaxFacts
  <2>3. /\ Max(U) \in K /\ Max(U) <= t
        /\ \A k \in K : k <= t => k <= Max(U)
    BY <1>1, <2>2
  <2>4. t \in K => Max(U) = t
    <3>1. Max(U) \in Nat
      BY <2>3
    <3> QED BY <2>3, <3>1
  <2>5. ~ (\A k \in K : t < k)
    <3>1. Max(U) \in Nat
      BY <2>3
    <3> QED BY <2>3, <3>1
  <2> QED BY <2>1, <2>3, <2>4, <2>5
<1> QED BY <1>2, <1>3

(* A query asks for records there are, and for one unless there are none.  *)
LEMMA CandidatesFacts ==
  ASSUME NEW p \in Products, NEW K \in SUBSET Times, NEW t \in AnyTime, K # {}
  PROVE  Candidates(p, K, t) \subseteq K /\ Candidates(p, K, t) # {}
<1>1. K \in SUBSET Nat /\ IsFiniteSet(K) /\ t \in Nat
  BY TimeFacts, DisplayAssumption, FS_Subset
<1>2. Max(K) \in K
  BY TimeFacts
<1>3. Bounded(K, t) \in K
  BY <1>1, BoundedFacts
<1>4. ASSUME NEW b PROVE Previous(K, b) \subseteq K
  <2>1. Before(K, b) \subseteq K
    BY DEF Before
  <2>2. Before(K, b) # {} => Max(Before(K, b)) \in Before(K, b)
    BY <2>1, TimeFacts
  <2> QED BY <2>1, <2>2 DEF Previous
<1> QED BY <1>2, <1>3, <1>4 DEF Candidates

(* For a product of level 3 it is one only, also when its time is asked    *)
(* for.                                                                    *)
LEMMA CandidatesOne ==
  ASSUME NEW p \in Products, NEW K \in SUBSET Times, NEW t \in AnyTime, K # {},
         p # Level2
  PROVE  \E k \in K : Candidates(p, K, t) = {k} /\ Candidates(p, K, k) = {k}
<1>1. K \in SUBSET Nat /\ IsFiniteSet(K) /\ t \in Nat
  BY TimeFacts, DisplayAssumption, FS_Subset
<1>2. Bounded(K, t) \in K /\ \A k \in K : Bounded(K, k) = k
  BY <1>1, BoundedFacts
<1>3. \A k \in K : Candidates(p, K, k) = {k}
  BY <1>2, TimeFacts DEF Candidates
<1>4. \E k \in K : Candidates(p, K, t) = {k}
  <2>1. CASE t = Latest
    <3>1. Max(K) \in K
      BY TimeFacts
    <3>2. Candidates(p, K, t) = {Max(K)}
      BY <2>1 DEF Candidates
    <3> QED BY <3>1, <3>2
  <2>2. CASE t # Latest
    <3>1. Candidates(p, K, t) = {Bounded(K, t)}
      BY <2>2 DEF Candidates
    <3> QED BY <1>2, <3>1
  <2> QED BY <2>1, <2>2
<1> QED BY <1>3, <1>4

(* The scan chosen of a volume is one of its scans. *)
LEMMA ScanFacts ==
  ASSUME NEW v \in Times, NEW t \in AnyTime
  PROVE  ScanOf(v, t) \in Scans[v] /\ ScanOf(v, t) \in Nat
<1>1. Scans[v] \in SUBSET Nat /\ Scans[v] # {} /\ IsFiniteSet(Scans[v])
  BY DisplayAssumption
<1>2. Max(Scans[v]) \in Scans[v]
  BY <1>1, MaxFacts
<1>3. Bounded(Scans[v], t) \in Scans[v]
  BY <1>1, BoundedFacts, TimeFacts
<1>4. ScanOf(v, t) \in Scans[v]
  BY <1>2, <1>3 DEF ScanOf, ScanAmong
<1> QED BY <1>1, <1>4

(* What is shown of records that are loaded is a picture. *)
LEMMA ShownTyped ==
  ASSUME NEW s \in Sites, NEW p \in Products, NEW t \in AnyTime,
         NEW C \in SUBSET Times, NEW f, \A k \in C : f[k] \in Times
  PROVE  Shown(s, p, f, C, t) \in Pictures
<1>1. CASE C = {}
  BY <1>1 DEF Shown, Pictures
<1>2. CASE C # {}
  <2>1. f[Min(C)] \in Times /\ f[Max(C)] \in Times
    BY <1>2, TimeFacts
  <2>2. /\ ScanOf(f[Min(C)], t) \in Nat /\ ScanOf(f[Max(C)], t) \in Nat
        /\ f[Max(C)] \in Nat
    BY <2>1, ScanFacts, TimeFacts
  <2>3. LaterScan(ScanOf(f[Min(C)], t), ScanOf(f[Max(C)], t), t) \in Nat
    BY <2>2 DEF LaterScan
  <2> QED BY <1>2, <2>2, <2>3 DEF Shown, Pictures
<1> QED BY <1>1, <1>2

(* The scans of some volumes are finitely many numbers. *)
LEMMA ScansFinite ==
  ASSUME NEW K \in SUBSET Times
  PROVE  /\ UNION {Scans[v] : v \in K} \in SUBSET Nat
         /\ IsFiniteSet(UNION {Scans[v] : v \in K})
<1> DEFINE F == {Scans[v] : v \in K}
<1>1. IsFiniteSet(K) /\ K \subseteq Times
  BY DisplayAssumption, FS_Subset
<1>2. IsFiniteSet(F)
  <2> DEFINE g == [v \in K |-> Scans[v]]
  <2>1. g \in Surjection(K, F)
    BY DEF Surjection
  <2> HIDE DEF g
  <2> QED BY <1>1, <2>1, FS_Surjection
<1>3. \A S \in F : IsFiniteSet(S) /\ S \subseteq Nat
  BY DisplayAssumption
<1>4. IsFiniteSet(UNION F)
  BY <1>2, <1>3, FS_UNION
<1> QED BY <1>3, <1>4

(* What GetLevel2Data takes of the last volume not later than the time and *)
(* of the one before it is the scan it would take of all volumes: the      *)
(* newest one not newer than the time, or the first.                       *)
LEMMA ScanOfAll ==
  ASSUME NEW K \in SUBSET Times, K # {}, NEW t \in AnyTime
  PROVE  LET C == Candidates(Level2, K, t)
         IN  LaterScan(ScanOf(Min(C), t), ScanOf(Max(C), t), t)
               = ScanAmong(UNION {Scans[v] : v \in K}, t)
<1> DEFINE U == UNION {Scans[v] : v \in K}
           C == Candidates(Level2, K, t)
<1>1. /\ U \in SUBSET Nat /\ IsFiniteSet(U)
      /\ \A v \in K : /\ Scans[v] \in SUBSET Nat /\ IsFiniteSet(Scans[v])
                      /\ Scans[v] # {} /\ Scans[v] \subseteq U
  BY ScansFinite, DisplayAssumption
<1>2. \A x \in U : \E v \in K : x \in Scans[v]
  OBVIOUS
<1>3. U # {}
  BY <1>1
<1>4. \A v, w \in K : \A x \in Scans[v] : v <= x /\ (v < w => x < w)
  BY DisplayAssumption
<1> HIDE DEF U, C
<1>5. K \in SUBSET Nat /\ IsFiniteSet(K) /\ t \in Nat
  BY TimeFacts, DisplayAssumption, FS_Subset
<1>6. /\ U \in SUBSET Nat
      /\ \A v \in K : Scans[v] \in SUBSET Nat
  BY <1>1
<1>7. CASE t = Latest
  <2> DEFINE m == Max(K)
  <2>1. m \in K /\ \A k \in K : k <= m
    BY <1>5, MaxFacts
  <2>2. C = {m}
    BY <1>7 DEF Candidates, C
  <2> HIDE DEF m
  <2>3. Min(C) = m /\ Max(C) = m
    BY <2>2, <2>1, <1>5, TimeFacts
  <2>4. Max(Scans[m]) \in Scans[m] /\ \A x \in Scans[m] : x <= Max(Scans[m])
    BY <1>1, <2>1, MaxFacts
  <2>5. Max(U) \in U /\ \A x \in U : x <= Max(U)
    BY <1>1, <1>3, MaxFacts
  <2>6. Max(U) <= Max(Scans[m])
    <3>1. PICK v \in K : Max(U) \in Scans[v]
      BY <1>2, <2>5
    <3>2. CASE v = m
      BY <2>4, <3>1, <3>2
    <3>3. CASE v < m
      <4>1. Max(U) < m /\ m <= Max(Scans[m])
        BY <1>4, <2>1, <2>4, <3>1, <3>3
      <4>2. Max(U) \in Nat /\ m \in Nat /\ Max(Scans[m]) \in Nat
        BY <1>5, <1>6, <2>1, <2>4, <2>5
      <4> QED BY <4>1, <4>2
    <3>4. v \in Nat /\ m \in Nat /\ v <= m
      BY <1>5, <2>1
    <3> QED BY <3>2, <3>3, <3>4
  <2>7. Max(Scans[m]) <= Max(U) /\ Max(U) \in Nat /\ Max(Scans[m]) \in Nat
    BY <1>1, <2>1, <2>4, <2>5
  <2>8. Max(U) = Max(Scans[m])
    BY <2>6, <2>7
  <2> QED BY <1>7, <2>3, <2>8 DEF LaterScan, ScanOf, ScanAmong, C, U
<1>8. CASE t # Latest
  <2> DEFINE b == Bounded(K, t)
  <2>1. /\ b \in K
        /\ \A k \in K : k <= t => k <= b /\ b <= t
        /\ (\A k \in K : t < k) => \A k \in K : b <= k
    BY <1>5, BoundedFacts
  <2>2. C = {b} \union Previous(K, b)
    BY <1>8 DEF Candidates, C
  <2> HIDE DEF b
  <2>3. ASSUME NEW v \in K
        PROVE  /\ ScanOf(v, t) \in Scans[v] /\ ScanOf(v, t) \in Nat
               /\ \A x \in Scans[v] :
                    x <= t => x <= ScanOf(v, t) /\ ScanOf(v, t) <= t
               /\ (\A x \in Scans[v] : t < x) =>
                     \A x \in Scans[v] : ScanOf(v, t) <= x
    <3>1. ScanOf(v, t) = Bounded(Scans[v], t)
      BY <1>8 DEF ScanOf, ScanAmong
    <3>2. Scans[v] \in SUBSET Nat /\ IsFiniteSet(Scans[v]) /\ Scans[v] # {}
      BY <1>1
    <3>3. /\ Bounded(Scans[v], t) \in Scans[v]
          /\ \A x \in Scans[v] : x <= t =>
               x <= Bounded(Scans[v], t) /\ Bounded(Scans[v], t) <= t
          /\ (\A x \in Scans[v] : t < x) =>
                \A x \in Scans[v] : Bounded(Scans[v], t) <= x
      BY <1>5, <3>2, BoundedFacts
    <3> QED BY <3>1, <3>2, <3>3
  <2> DEFINE r == ScanAmong(U, t)
  <2>4. /\ r \in U /\ r \in Nat
        /\ \A x \in U : x <= t => x <= r /\ r <= t
        /\ (\A x \in U : t < x) => \A x \in U : r <= x
    BY <1>1, <1>3, <1>5, <1>8, BoundedFacts DEF ScanAmong
  <2>5. ASSUME NEW a \in U,
               \/ a <= t /\ \A x \in U : x <= t => x <= a
               \/ \A x \in U : t < x /\ a <= x
        PROVE  a = r
    BY <1>5, <1>6, <2>4, <2>5
  <2> HIDE DEF r
  <2>6. PICK v0 \in K : r \in Scans[v0]
    BY <1>2, <2>4
  <2> DEFINE a == ScanOf(b, t)
  <2>7. /\ a \in Scans[b] /\ a \in U /\ a \in Nat /\ b \in Nat /\ b <= a
        /\ \A x \in Scans[b] : x <= t => x <= a /\ a <= t
        /\ (\A x \in Scans[b] : t < x) => \A x \in Scans[b] : a <= x
    BY <1>1, <1>4, <1>5, <2>1, <2>3
  <2> HIDE DEF a
  <2>8. CASE Before(K, b) = {}
    <3>1. C = {b} /\ \A v \in K : b <= v
      BY <1>5, <2>1, <2>2, <2>8 DEF Previous, Before
    <3>2. Min(C) = b /\ Max(C) = b
      BY <2>1, <3>1, TimeFacts
    <3>3. ASSUME NEW x \in U, x <= t PROVE x \in Scans[b]
      <4>1. PICK v \in K : x \in Scans[v]
        BY <1>2
      <4>2. v <= x /\ v \in Nat /\ x \in Nat
        BY <1>4, <1>5, <1>6, <4>1
      <4>3. v <= b
        BY <1>5, <2>1, <3>3, <4>2
      <4>4. v = b
        BY <2>7, <3>1, <4>2, <4>3
      <4> QED BY <4>1, <4>4
    <3>4. CASE \E x \in Scans[b] : x <= t
      <4>1. a <= t /\ \A x \in U : x <= t => x <= a
        BY <2>7, <3>3, <3>4
      <4>2. a = r
        BY <2>5, <2>7, <4>1
      <4> QED BY <3>2, <4>2 DEF LaterScan, C, a, r, U
    <3>5. CASE \A x \in Scans[b] : t < x
      <4>1. ASSUME NEW x \in U PROVE t < x /\ a <= x
        <5>1. x \in Nat /\ t < x
          BY <1>5, <1>6, <3>3, <3>5
        <5>2. PICK v \in K : x \in Scans[v]
          BY <1>2
        <5>3. CASE v = b
          BY <2>7, <3>5, <5>1, <5>2, <5>3
        <5>4. CASE b < v
          <6>1. a < v /\ v <= x /\ v \in Nat
            BY <1>4, <1>5, <2>1, <2>7, <5>2, <5>4
          <6> QED BY <2>7, <5>1, <6>1
        <5> QED BY <1>5, <2>7, <3>1, <5>3, <5>4
      <4>2. a = r
        BY <2>5, <2>7, <4>1
      <4> QED BY <3>2, <4>2 DEF LaterScan, C, a, r, U
    <3> QED BY <1>1, <1>5, <2>1, <3>4, <3>5
  <2>9. CASE Before(K, b) # {}
    <3> DEFINE c == Max(Before(K, b))
    <3>1. /\ c \in K /\ c < b /\ \A v \in K : v < b => v <= c
      BY <2>9, TimeFacts DEF Before
    <3>2. C = {b, c}
      BY <2>2, <2>9 DEF Previous
    <3> HIDE DEF c
    <3>3. c \in Nat /\ b \in Nat
      BY <1>5, <2>1, <3>1
    <3>4. Min(C) = c /\ Max(C) = b
      <4>1. C \in SUBSET Times /\ C # {}
        BY <2>1, <3>1, <3>2
      <4>2. /\ Max(C) \in C /\ \A k \in C : k <= Max(C)
            /\ Min(C) \in C /\ \A k \in C : Min(C) <= k
        BY <4>1, TimeFacts
      <4> QED BY <3>1, <3>2, <3>3, <4>2
    <3>5. b <= t
      <4>1. ~ \A k \in K : b <= k
        BY <3>1, <3>3
      <4> QED BY <1>5, <2>1, <4>1
    <3> DEFINE z == ScanOf(c, t)
    <3>6. /\ z \in Scans[c] /\ z \in U /\ z \in Nat
          /\ \A x \in Scans[c] : x <= z
          /\ z < b
      <4>1. z \in Scans[c] /\ z \in U /\ z \in Nat
        BY <1>1, <2>3, <3>1
      <4>2. ASSUME NEW x \in Scans[c] PROVE x < b /\ x \in Nat
        BY <1>4, <1>6, <2>1, <3>1
      <4>3. ASSUME NEW x \in Scans[c] PROVE x <= z
        <5>1. x <= t
          BY <1>5, <3>3, <3>5, <4>2
        <5> QED BY <2>3, <3>1, <5>1
      <4> QED BY <4>1, <4>2, <4>3
    <3> HIDE DEF z
    <3>7. ASSUME NEW x \in U, x <= t
          PROVE  x \in Nat /\ (x \in Scans[b] \/ x <= z)
      <4>1. PICK v \in K : x \in Scans[v]
        BY <1>2
      <4>2. v <= x /\ v \in Nat /\ x \in Nat
        BY <1>4, <1>5, <1>6, <4>1
      <4>3. v <= b
        BY <1>5, <2>1, <3>7, <4>2
      <4>4. CASE v = b
        BY <4>1, <4>2, <4>4
      <4>5. CASE v = c
        BY <3>6, <4>1, <4>2, <4>5
      <4>6. CASE v < c
        <5>1. x < c /\ c <= z
          BY <1>4, <3>1, <3>6, <4>1, <4>6
        <5> QED BY <3>3, <3>6, <4>2, <5>1
      <4>7. v = b \/ v = c \/ v < c
        BY <3>1, <3>3, <4>2, <4>3
      <4> QED BY <4>4, <4>5, <4>6, <4>7
    <3>8. CASE \E x \in Scans[b] : x <= t
      <4>1. a <= t /\ z < a
        BY <2>7, <3>3, <3>6, <3>8
      <4>2. \A x \in U : x <= t => x <= a
        BY <2>7, <3>6, <3>7, <4>1
      <4>3. a = r
        BY <2>5, <2>7, <4>1, <4>2
      <4> QED BY <3>4, <4>1, <4>3 DEF LaterScan, C, a, z, r, U
    <3>9. CASE \A x \in Scans[b] : t < x
      <4>1. t < a
        BY <2>7, <3>9
      <4>2. z <= t
        BY <1>5, <3>3, <3>5, <3>6
      <4>3. \A x \in U : x <= t => x <= z
        <5> SUFFICES ASSUME NEW x \in U, x <= t PROVE x <= z
          OBVIOUS
        <5>1. x \in Nat /\ (x \in Scans[b] \/ x <= z)
          BY <3>7
        <5> QED BY <1>5, <3>9, <5>1
      <4>4. z = r
        BY <2>5, <3>6, <4>2, <4>3
      <4>5. ~ (a <= t)
        BY <1>5, <2>7, <4>1
      <4> QED BY <3>4, <4>4, <4>5 DEF LaterScan, C, a, z, r, U
    <3> QED BY <1>1, <1>5, <2>1, <3>8, <3>9
  <2> QED BY <2>8, <2>9
<1> QED BY <1>7, <1>8

-----------------------------------------------------------------------------
(* Types.                                                                  *)

(* While no manager is made, the sets of managers, sweeps and signals are  *)
(* the same.                                                               *)
LEMMA SameManagers ==
  ASSUME site' = site
  PROVE  /\ Made' = Made /\ Sweeping' = Sweeping /\ Signals' = Signals
         /\ Selecting' = Selecting
BY DEF Made, Sweeping, Signals, Selecting

(* Who is held was made. *)
LEMMA HeldMade ==
  ASSUME DisplayTyped
  PROVE  Held \subseteq Made /\ IsFiniteSet(Held) /\ Len(site) \in Nat
<1>1. widget \in Made /\ view.manager \in Made
  BY DEF DisplayTyped
<1>2. \A c \in Sweepers : sweeping[c].on => sweeping[c].manager \in Made
  <2> SUFFICES ASSUME NEW c \in Sweepers, sweeping[c].on
               PROVE  sweeping[c].manager \in Made
    OBVIOUS
  <2>1. sweeping[c] \in Sweeping
    BY DEF DisplayTyped
  <2>2. sweeping[c] # Idle
    BY DEF Idle
  <2> QED BY <2>1, <2>2 DEF Sweeping
<1>3. Held \subseteq Made
  <2>1. selecting # NotSelecting => selecting.manager \in Made
    BY DEF DisplayTyped, Selecting
  <2> QED BY <1>1, <1>2, <2>1 DEF Held
<1>4. Len(site) \in Nat
  BY DEF DisplayTyped
<1>5. IsFiniteSet(Made)
  BY <1>4, FS_Interval DEF Made
<1> QED BY <1>3, <1>4, <1>5, FS_Subset

(* Instance() gives the living manager of the site, or makes one. *)
LEMMA InstanceFacts ==
  ASSUME DisplayTyped, NEW s \in Sites
  PROVE  /\ Living(s) # {} => Instance(s) \in Living(s) /\ Instance(s) \in Made
         /\ MayHave(s) /\ TakeInstance(s) =>
              /\ site' \in Seq(Sites) /\ Len(site') \in Ids
              /\ Instance(s) \in Made' /\ site'[Instance(s)] = s
              /\ Made \subseteq Made' /\ \A m \in Made : site'[m] = site[m]
<1>0. Held \subseteq Made /\ IsFiniteSet(Held) /\ Len(site) \in Nat
  BY HeldMade
<1>1. Living(s) \subseteq Held /\ \A m \in Living(s) : site[m] = s
  BY DEF Living
<1>2. ASSUME Living(s) # {} PROVE Instance(s) \in Living(s) /\ Instance(s) \in Made
  <2>1. Living(s) \in SUBSET Nat /\ IsFiniteSet(Living(s))
    <3>1. Made \in SUBSET Nat
      BY <1>0 DEF Made
    <3> QED BY <1>0, <1>1, <3>1, FS_Subset
  <2> QED BY <1>0, <1>1, <1>2, <2>1, MaxFacts DEF Instance
<1>3. site \in Seq(Sites) /\ Len(site) \in Ids
  BY DEF DisplayTyped
<1>4. CASE Living(s) # {}
  <2>1. TakeInstance(s) => site' = site
    BY <1>4 DEF TakeInstance
  <2> QED BY <1>1, <1>2, <1>3, <1>4, <2>1 DEF Made
<1>5. CASE Living(s) = {}
  <2> SUFFICES ASSUME MayHave(s), TakeInstance(s)
               PROVE  /\ site' \in Seq(Sites) /\ Len(site') \in Ids
                      /\ Instance(s) \in Made' /\ site'[Instance(s)] = s
                      /\ Made \subseteq Made' /\ \A m \in Made : site'[m] = site[m]
    BY <1>5
  <2>1. Len(site) < MaxManagers
    BY <1>5 DEF MayHave
  <2>2. site' = Append(site, s) /\ Instance(s) = Len(site) + 1
    BY <1>5 DEF TakeInstance, Instance
  <2>3. /\ Append(site, s) \in Seq(Sites) /\ Len(Append(site, s)) = Len(site) + 1
        /\ \A i \in 1 .. Len(site) : Append(site, s)[i] = site[i]
        /\ Append(site, s)[Len(site) + 1] = s
    BY <1>3, AppendProperties
  <2>4. Len(site) + 1 \in Ids
    BY <1>0, <2>1, DisplayAssumption DEF Ids
  <2> QED BY <1>0, <2>2, <2>3, <2>4 DEF Made
<1> QED BY <1>4, <1>5

(* Those a step drops were made. *)
LEMMA DyingTyped ==
  ASSUME DisplayTyped, NEW th \in Threads, Made \subseteq Made',
         dying' = dying \union
           {[manager |-> m, by |-> th, locked |-> FALSE] : m \in Held \ Held'}
  PROVE  dying' \subseteq [manager : Made', by : Threads, locked : BOOLEAN]
<1>1. Held \subseteq Made'
  BY HeldMade
<1>2. dying \subseteq [manager : Made, by : Threads, locked : BOOLEAN]
  BY DEF DisplayTyped
<1> SUFFICES ASSUME NEW d \in dying'
             PROVE  d \in [manager : Made', by : Threads, locked : BOOLEAN]
  OBVIOUS
<1>3. CASE d \in dying
  BY <1>2, <1>3
<1>4. CASE d \notin dying
  <2>1. PICK m \in Held \ Held' : d = [manager |-> m, by |-> th, locked |-> FALSE]
    BY <1>4
  <2>2. m \in Made'
    BY <1>1
  <2> QED BY <2>1, <2>2
<1> QED BY <1>3, <1>4

(* The parts of TypeOK that an action leaves alone stay. *)
LEMMA RecordsQuiet ==
  ASSUME RecordsTyped, UNCHANGED <<servers, records, refresh, loading>>
  PROVE  RecordsTyped'
BY DEF RecordsTyped, servers, records, loading

(* And those of the map, but for the managers being destroyed. *)
LEMMA DisplayQuiet ==
  ASSUME DisplayTyped, UNCHANGED <<site, display, widgetPool, selecting>>,
         dying' \subseteq [manager : Made', by : Threads, locked : BOOLEAN]
  PROVE  DisplayTyped'
<1>1. Made' = Made /\ Sweeping' = Sweeping /\ Selecting' = Selecting
  BY SameManagers
<1> QED BY <1>1 DEF DisplayTyped, display

(* And those of the signals and the timeline. *)
LEMMA ControlQuiet ==
  ASSUME ControlTyped, UNCHANGED <<site, flags, events, gui, ticker, inputs>>
  PROVE  ControlTyped'
<1>1. Signals' = Signals
  BY SameManagers
<1> QED BY <1>1 DEF ControlTyped, flags, ticker

(* And the history variables. *)
LEMMA GhostsQuiet ==
  ASSUME GhostsTyped, UNCHANGED ghosts
  PROVE  GhostsTyped'
BY DEF GhostsTyped, ghosts

(* The types at first. *)
LEMMA TypeInit == Init => TypeOK
<1> SUFFICES ASSUME Init PROVE TypeOK
  OBVIOUS
<1> USE DisplayAssumption
<1>1. /\ 1 \in Ids /\ Made = {1} /\ Len(site) = 1 /\ site \in Seq(Sites)
  BY DEF Init, Made, Ids
<1>2. NoTimes \in [Products -> SUBSET Times]
  BY DEF NoTimes
<1>3. NoFiles \in [Products -> [Times -> Times \union {NoFile}]]
  BY DEF NoFiles
<1>4. published \in [Sites -> [Products -> SUBSET Times]]
  <2>1. \A s \in Sites, p \in Products :
          {v.time : v \in {u \in Published : u.site = s /\ u.product = p}}
            \in SUBSET Times
    BY DEF Volumes
  <2> QED BY <2>1 DEF Init
<1>5. PICK p \in Products : refresh = [m \in Ids |-> IF m = 1 THEN p ELSE NoProduct]
  BY DEF Init
<1>6. refresh[1] \in Products /\ refresh \in [Ids -> Products \union {NoProduct}]
  BY <1>1, <1>5
<1>7. RecordsTyped
  BY <1>2, <1>3, <1>4, <1>6 DEF Init, RecordsTyped
<1>8. DisplayTyped
  <2>1. view \in [manager : Made, product : Products, time : AnyTime, sweep : Pictures]
    BY <1>1, <1>6, TimeFacts DEF Init, Pictures
  <2>2. sweeping \in [Sweepers -> Sweeping]
    BY DEF Init, Sweeping
  <2>3. widgetPool \in Seq(Updates \union {InitJob})
    BY DEF Init
  <2> QED BY <1>1, <2>1, <2>2, <2>3 DEF Init, DisplayTyped, Selecting
<1>9. ControlTyped
  <2>1. <<>> \in Seq(Signals) /\ <<>> \in Seq(AnyTime)
    OBVIOUS
  <2>2. timeline \in [site : Sites, previous : Sites, live : BOOLEAN, time : AnyTime]
    BY TimeFacts DEF Init
  <2> QED BY <2>1, <2>2 DEF Init, ControlTyped
<1>10. GhostsTyped
  BY TimeFacts DEF Init, GhostsTyped
<1> QED BY <1>7, <1>8, <1>9, <1>10 DEF TypeOK

(* Destroying a manager. *)
LEMMA DestructTyped == TypeOK /\ Destruct => TypeOK'
<1> SUFFICES ASSUME TypeOK, Destruct PROVE TypeOK'
  OBVIOUS
<1>1. PICK d \in dying : LockLoads(d) \/ Join(d)
  BY DEF Destruct
<1>2. /\ RecordsTyped /\ DisplayTyped /\ ControlTyped /\ GhostsTyped
      /\ UNCHANGED <<published, site, loading, display, flags, widgetPool,
                     events, gui, ticker, inputs, ghosts>>
  BY DEF TypeOK, Destruct
<1>3. Made' = Made /\ d \in [manager : Made, by : Threads, locked : BOOLEAN]
  BY <1>2, SameManagers DEF DisplayTyped
<1>4. dying' \subseteq [manager : Made', by : Threads, locked : BOOLEAN]
  <2>1. [d EXCEPT !.locked = TRUE] \in [manager : Made, by : Threads, locked : BOOLEAN]
    BY <1>3
  <2> QED BY <1>1, <1>2, <1>3, <2>1 DEF LockLoads, Join, DisplayTyped
<1>5. RecordsTyped'
  <2>1. CASE LockLoads(d)
    BY <1>2, <2>1, RecordsQuiet DEF LockLoads, servers
  <2>2. CASE Join(d)
    <3>1. NoTimes \in [Products -> SUBSET Times]
      BY DEF NoTimes
    <3>2. NoFiles \in [Products -> [Times -> Times \union {NoFile}]]
      BY DEF NoFiles
    <3> QED BY <1>2, <2>2, <3>1, <3>2 DEF Join, RecordsTyped, loading
  <2> QED BY <1>1, <2>1, <2>2
<1> QED BY <1>2, <1>4, <1>5, DisplayQuiet, ControlQuiet, GhostsQuiet
        DEF TypeOK, ticker

(* What a sweep reads, and what it computes. *)
LEMMA SweepTyped ==
  ASSUME TypeOK, NEW c \in Sweepers, NEW m \in Made, Sweep(c, m)
  PROVE  /\ keys' \in [Ids -> [Products -> SUBSET Times]]
         /\ listed' \in [Ids -> [Products -> SUBSET Times]]
         /\ pool' \in [Ids -> SUBSET Loads]
         /\ sweeping' \in [Sweepers -> Sweeping]
         /\ seen' \subseteq Times
<1> DEFINE t == view.time
           p == view.product
           K == Populated(m, p, t)
           C == Candidates(p, K, t)
           L == C \intersect IsLoaded(m, p)
           w == [on |-> TRUE, old |-> FALSE, manager |-> m, asked |-> t,
                 adjusted |-> p = Level2,
                 found |-> IF p = Level2 \/ C = {} THEN t ELSE Max(C),
                 sweep |-> Shown(site[m], p, file[m][p], L, t)]
<1>1. /\ t \in AnyTime /\ p \in Products /\ m \in Ids /\ site[m] \in Sites
  <2>1. Len(site) \in Ids /\ Len(site) \in Nat /\ site \in Seq(Sites)
    BY DisplayAssumption DEF TypeOK, DisplayTyped, Ids
  <2>2. m \in Ids /\ m \in 1 .. Len(site)
    BY <2>1, DisplayAssumption DEF Made, Ids
  <2> QED BY <2>1, <2>2 DEF TypeOK, DisplayTyped
<1>2. Listing(m, p) \subseteq Times
  BY <1>1 DEF Listing, TypeOK, RecordsTyped
<1>3. K \in SUBSET Times
  BY <1>1, <1>2 DEF Populated, TypeOK, RecordsTyped
<1>4. C \subseteq Times /\ (C # {} => Max(C) \in Times)
  <2> HIDE DEF K
  <2>1. C \in SUBSET K
    BY <1>1, <1>3, CandidatesFacts DEF Candidates
  <2>2. C \in SUBSET Times
    BY <1>3, <2>1
  <2> HIDE DEF C
  <2> QED BY <2>2, TimeFacts
<1>5. \A k \in L : file[m][p][k] \in Times
  BY <1>1, <1>4 DEF IsLoaded, TypeOK, RecordsTyped
<1>6. Shown(site[m], p, file[m][p], L, t) \in Pictures
  BY <1>1, <1>4, <1>5, ShownTyped
<1> HIDE DEF K, L
<1>7. w \in Sweeping
  <2>1. w.found \in AnyTime
    BY <1>1, <1>4, TimeFacts
  <2> HIDE DEF C
  <2> QED BY <1>1, <1>6, <2>1 DEF Sweeping
<1>8. \A k \in C : Reload(p, k) \in Loads
  BY <1>1, <1>4 DEF Reload, Loads
<1>9. /\ keys' = [keys EXCEPT ![m][p] = K]
      /\ listed' = [listed EXCEPT ![m][p] = IF t = Latest THEN @ ELSE Listing(m, p)]
      /\ pool' = [pool EXCEPT ![m] = @ \union {Reload(p, k) : k \in C \ L}]
      /\ sweeping' = [sweeping EXCEPT ![c] = w]
      /\ seen' = K
  BY DEF Sweep, K, L
<1> HIDE DEF C, w
<1>10. keys' \in [Ids -> [Products -> SUBSET Times]]
  BY <1>1, <1>3, <1>9 DEF TypeOK, RecordsTyped
<1>11. listed' \in [Ids -> [Products -> SUBSET Times]]
  BY <1>1, <1>2, <1>9 DEF TypeOK, RecordsTyped
<1>12. pool' \in [Ids -> SUBSET Loads]
  BY <1>1, <1>8, <1>9 DEF TypeOK, RecordsTyped
<1>13. sweeping' \in [Sweepers -> Sweeping]
  BY <1>7, <1>9 DEF TypeOK, DisplayTyped
<1> QED BY <1>3, <1>9, <1>10, <1>11, <1>12, <1>13

(* A sweep begins. *)
LEMMA StartTyped ==
  TypeOK /\ (Step("view", StartUpdate) \/ Step("widget", StartInitialize))
    => TypeOK'
<1> SUFFICES ASSUME TypeOK,
                    Step("view", StartUpdate) \/ Step("widget", StartInitialize)
             PROVE  TypeOK'
  OBVIOUS
<1>1. PICK c \in Sweepers :
        /\ Sweep(c, view.manager)
        /\ \/ updates > 0 /\ updates' = updates - 1 /\ UNCHANGED widgetPool
           \/ /\ widgetPool # <<>> /\ widgetPool' = Tail(widgetPool)
              /\ UNCHANGED updates
        /\ UNCHANGED <<published, file, managers, opening, opened, widget, view,
                       flags, events, gui, ticker, inputs, chosen, due, upsets>>
        /\ dying' = dying \union
             {[manager |-> m, by |-> c, locked |-> FALSE] : m \in Held \ Held'}
  BY DEF Step, StartUpdate, StartInitialize, Sweepers
<1>2. RecordsTyped /\ DisplayTyped /\ ControlTyped /\ GhostsTyped
  BY DEF TypeOK
<1>3. site' = site /\ Made' = Made /\ Sweeping' = Sweeping /\ Signals' = Signals
      /\ Selecting' = Selecting
  BY <1>1, SameManagers DEF managers
<1>4. view.manager \in Made /\ c \in Threads
  BY <1>2 DEF DisplayTyped, Threads
<1>5. /\ keys' \in [Ids -> [Products -> SUBSET Times]]
      /\ listed' \in [Ids -> [Products -> SUBSET Times]]
      /\ pool' \in [Ids -> SUBSET Loads]
      /\ sweeping' \in [Sweepers -> Sweeping]
      /\ seen' \subseteq Times
  BY <1>1, <1>4, SweepTyped
<1>6. RecordsTyped'
  BY <1>1, <1>2, <1>5 DEF RecordsTyped, managers
<1>7. updates' \in Nat /\ widgetPool' \in Seq(Updates \union {InitJob})
  <2>1. widgetPool # <<>> => Tail(widgetPool) \in Seq(Updates \union {InitJob})
    BY <1>2, HeadTailProperties DEF DisplayTyped
  <2>2. updates \in Nat /\ (updates > 0 => updates - 1 \in Nat)
    BY <1>2 DEF DisplayTyped
  <2> QED BY <1>1, <1>2, <2>1, <2>2 DEF DisplayTyped
<1>8. DisplayTyped'
  <2>1. dying' \subseteq [manager : Made', by : Threads, locked : BOOLEAN]
    BY <1>1, <1>2, <1>3, <1>4, DyingTyped
  <2> QED BY <1>1, <1>2, <1>3, <1>5, <1>7, <2>1 DEF DisplayTyped, ticker
<1>9. ControlTyped'
  BY <1>1, <1>2, <1>3, ControlQuiet
<1>10. GhostsTyped'
  BY <1>1, <1>2, <1>5 DEF GhostsTyped
<1> QED BY <1>6, <1>8, <1>9, <1>10 DEF TypeOK

(* A sweep under way has the fields of one. *)
LEMMA SweepFields ==
  ASSUME DisplayTyped, NEW c \in Sweepers, sweeping[c].on
  PROVE  /\ sweeping[c] \in [on : {TRUE}, old : BOOLEAN, manager : Made,
                             asked : AnyTime, adjusted : BOOLEAN,
                             found : AnyTime, sweep : Pictures]
         /\ Idle \in Sweeping
         /\ [sweeping[c] EXCEPT !.adjusted = TRUE] \in Sweeping
         /\ [sweeping[c] EXCEPT !.old = TRUE] \in Sweeping
<1>1. sweeping[c] \in Sweeping /\ sweeping[c] # Idle
  BY DEF DisplayTyped, Idle
<1> QED BY <1>1 DEF Sweeping

(* A sweep ends, and before, one of level 3 takes over the time found. *)
LEMMA EndTyped ==
  ASSUME TypeOK, NEW c \in Sweepers,
         Step(c, Adjust(c)) \/ Step(c, EndSweep(c))
  PROVE  TypeOK'
<1>1. /\ RecordsTyped /\ DisplayTyped /\ ControlTyped /\ GhostsTyped
      /\ c \in Threads
  BY DEF TypeOK, Threads
<1>2. /\ Adjust(c) \/ EndSweep(c)
      /\ sweeping[c].on
      /\ UNCHANGED <<servers, records, managers, loading, widget, updates, flags,
                     widgetPool, events, gui, ticker, inputs, seen, due>>
      /\ dying' = dying \union
           {[manager |-> m, by |-> c, locked |-> FALSE] : m \in Held \ Held'}
  BY DEF Step, Adjust, EndSweep, ghosts
<1>3. site' = site /\ Made' = Made /\ Sweeping' = Sweeping /\ Signals' = Signals
      /\ Selecting' = Selecting
  BY <1>2, SameManagers DEF managers
<1>4. RecordsTyped'
  BY <1>1, <1>2, RecordsQuiet DEF managers
<1>5. ControlTyped'
  BY <1>1, <1>2, <1>3, ControlQuiet
<1>6. dying' \subseteq [manager : Made', by : Threads, locked : BOOLEAN]
  BY <1>1, <1>2, <1>3, DyingTyped
<1>7. /\ sweeping[c].found \in AnyTime /\ sweeping[c].sweep \in Pictures
      /\ Idle \in Sweeping
      /\ [sweeping[c] EXCEPT !.adjusted = TRUE] \in Sweeping
  BY <1>1, <1>2, SweepFields
<1>8. CASE Adjust(c)
  <2>1. sweeping' \in [Sweepers -> Sweeping]
    BY <1>1, <1>7, <1>8 DEF Adjust, DisplayTyped
  <2>2. view' \in [manager : Made, product : Products, time : AnyTime, sweep : Pictures]
    <3>1. view' = view \/ view' = [view EXCEPT !.time = sweeping[c].found]
      BY <1>8 DEF Adjust
    <3> QED BY <1>1, <1>7, <3>1 DEF DisplayTyped
  <2>3. DisplayTyped'
    BY <1>1, <1>2, <1>3, <1>6, <2>1, <2>2 DEF DisplayTyped, ticker
  <2>4. /\ chosen' = chosen \/ chosen' = sweeping[c].found
        /\ upsets' \subseteq upsets \union {"raced", "overtaken"}
    BY <1>8 DEF Adjust
  <2>5. GhostsTyped'
    BY <1>1, <1>2, <1>7, <2>4 DEF GhostsTyped, Tolerated
  <2> QED BY <1>4, <1>5, <2>3, <2>5 DEF TypeOK
<1>9. CASE EndSweep(c)
  <2>1. sweeping' \in [Sweepers -> Sweeping]
    BY <1>1, <1>7, <1>9 DEF EndSweep, DisplayTyped
  <2>2. view' \in [manager : Made, product : Products, time : AnyTime, sweep : Pictures]
    <3>1. view' = view \/ view' = [view EXCEPT !.sweep = sweeping[c].sweep]
      BY <1>9 DEF EndSweep
    <3> QED BY <1>1, <1>7, <3>1 DEF DisplayTyped
  <2>3. DisplayTyped'
    BY <1>1, <1>2, <1>3, <1>6, <2>1, <2>2 DEF DisplayTyped, ticker
  <2>4. GhostsTyped'
    BY <1>1, <1>9, GhostsQuiet DEF EndSweep
  <2> QED BY <1>4, <1>5, <2>3, <2>4 DEF TypeOK
<1> QED BY <1>2, <1>8, <1>9

(* A record is stored. *)
LEMMA StoreTyped ==
  ASSUME RecordsTyped, DisplayTyped, NEW s \in Sites, NEW p \in Products,
         NEW k \in Times, NEW v \in Times, Store(s, p, k, v)
  PROVE  /\ keys' \in [Ids -> [Products -> SUBSET Times]]
         /\ file' \in [Ids -> [Products -> [Times -> Times \union {NoFile}]]]
<1>1. CASE Living(s) = {}
  BY <1>1 DEF Store, records, RecordsTyped
<1>2. CASE Living(s) # {}
  <2>1. Instance(s) \in Ids
    <3>1. Instance(s) \in Made /\ Len(site) \in Ids
      BY <1>2, InstanceFacts DEF DisplayTyped
    <3> QED BY <3>1, DisplayAssumption DEF Made, Ids
  <2> DEFINE i == Instance(s)
  <2>2. /\ keys' = [keys EXCEPT ![i][p] = @ \union {k}]
        /\ file' = [file EXCEPT ![i][p][k] = IF @ = NoFile THEN v ELSE @]
    BY <1>2 DEF Store
  <2> HIDE DEF i
  <2>3. i \in Ids
    BY <2>1 DEF i
  <2> QED BY <2>2, <2>3 DEF RecordsTyped
<1> QED BY <1>1, <1>2

(* What a load posts is a signal. *)
LEMMA ReplyTyped ==
  ASSUME NEW m \in Made, site[m] \in Sites, NEW l \in Loads
  PROVE  Reply(m, l) \in Seq(Signals)
<1>1. l.product \in Products /\ l.time \in Times
  BY DEF Loads, Updates
<1>2. CASE l.kind = "reload"
  <2>1. [kind |-> "reloaded", manager |-> m, product |-> l.product,
         time |-> l.time] \in Signals
    BY <1>1 DEF Signals
  <2> QED BY <1>2, <2>1 DEF Reply
<1>3. CASE l.kind # "reload"
  <2>1. l \in Updates
    BY <1>3 DEF Loads
  <2>2. [kind |-> "loaded", request |-> l.request, site |-> site[m],
         product |-> l.product, time |-> l.time] \in Signals
    BY <2>1 DEF Signals, Updates
  <2> QED BY <1>3, <2>2 DEF Reply
<1> QED BY <1>2, <1>3

(* A load of a manager's pool ends. *)
LEMMA PoolTyped ==
  ASSUME TypeOK, NEW m \in Made,
         Step("load", RunLoad(m)) \/ Step("load", LoadFails(m))
  PROVE  TypeOK'
<1>1. /\ RecordsTyped /\ DisplayTyped /\ ControlTyped /\ GhostsTyped
      /\ "load" \in Threads
  BY DEF TypeOK, Threads
<1>2. /\ RunLoad(m) \/ LoadFails(m)
      /\ UNCHANGED <<servers, managers, opening, opened, display, flags,
                     widgetPool, gui, ticker, inputs, chosen, seen, due>>
      /\ dying' = dying \union
           {[manager |-> n, by |-> "load", locked |-> FALSE] : n \in Held \ Held'}
  BY DEF Step, RunLoad, LoadFails
<1>3. site' = site /\ Made' = Made /\ Sweeping' = Sweeping /\ Signals' = Signals
      /\ Selecting' = Selecting
  BY <1>2, SameManagers DEF managers
<1>4. m \in Ids /\ site[m] \in Sites
  <2>1. Len(site) \in Ids /\ Len(site) \in Nat /\ site \in Seq(Sites)
    BY <1>1, DisplayAssumption DEF DisplayTyped, Ids
  <2> QED BY <2>1, DisplayAssumption DEF Made, Ids
<1>5. DisplayTyped'
  <2>1. dying' \subseteq [manager : Made', by : Threads, locked : BOOLEAN]
    BY <1>1, <1>2, <1>3, DyingTyped
  <2> QED BY <1>1, <1>2, <1>3, <2>1, DisplayQuiet DEF ticker
<1>6. upsets' \subseteq upsets \union {"failed"} \union Tolerated
  BY <1>2 DEF RunLoad, LoadFails, Tolerated
<1>7. GhostsTyped'
  BY <1>1, <1>2, <1>6 DEF GhostsTyped
<1>8. /\ keys' \in [Ids -> [Products -> SUBSET Times]]
      /\ file' \in [Ids -> [Products -> [Times -> Times \union {NoFile}]]]
      /\ pool' \in [Ids -> SUBSET Loads]
      /\ events' \in Seq(Signals)
  <2>1. CASE RunLoad(m)
    <3> DEFINE V(l) == IF file[m][l.product][l.time] # NoFile
                       THEN file[m][l.product][l.time]
                       ELSE Bounded(listed[m][l.product], l.time)
    <3>1. PICK l \in pool[m] :
            /\ listed[m][l.product] # {} \/ file[m][l.product][l.time] # NoFile
            /\ pool' = [pool EXCEPT ![m] = @ \ {l}]
            /\ Store(site[m], l.product, l.time, V(l))
            /\ events' = events \o Reply(m, l)
      BY <2>1 DEF RunLoad
    <3>2. l \in Loads /\ l.product \in Products /\ l.time \in Times
      BY <1>1, <1>4 DEF RecordsTyped, Loads, Updates
    <3>3. V(l) \in Times
      <4>1. file[m][l.product][l.time] \in Times \union {NoFile}
        BY <1>1, <1>4, <3>2 DEF RecordsTyped
      <4>2. listed[m][l.product] # {} =>
              Bounded(listed[m][l.product], l.time) \in Times
        <5>1. listed[m][l.product] \in SUBSET Times
          BY <1>1, <1>4, <3>2 DEF RecordsTyped
        <5>2. /\ listed[m][l.product] \in SUBSET Nat /\ l.time \in Nat
              /\ IsFiniteSet(listed[m][l.product])
          BY <3>2, <5>1, TimeFacts, FS_Subset, DisplayAssumption
        <5> QED BY <5>1, <5>2, BoundedFacts
      <4> QED BY <3>1, <4>1, <4>2
    <3> HIDE DEF V
    <3>4. /\ keys' \in [Ids -> [Products -> SUBSET Times]]
          /\ file' \in [Ids -> [Products -> [Times -> Times \union {NoFile}]]]
      BY <1>1, <1>4, <3>1, <3>2, <3>3, StoreTyped
    <3>5. pool' \in [Ids -> SUBSET Loads]
      BY <1>1, <1>4, <3>1 DEF RecordsTyped
    <3>6. Reply(m, l) \in Seq(Signals)
      BY <1>4, <3>2, ReplyTyped
    <3>7. events' \in Seq(Signals)
      BY <1>1, <3>1, <3>6, ConcatProperties DEF ControlTyped
    <3> QED BY <3>4, <3>5, <3>7
  <2>2. CASE LoadFails(m)
    BY <1>1, <1>4, <2>2 DEF LoadFails, RecordsTyped, ControlTyped, records
  <2> QED BY <1>2, <2>1, <2>2
<1>9. RecordsTyped'
  BY <1>1, <1>2, <1>8 DEF RecordsTyped, servers, managers
<1>10. ControlTyped'
  BY <1>1, <1>2, <1>3, <1>8 DEF ControlTyped, flags, ticker
<1> QED BY <1>5, <1>7, <1>9, <1>10 DEF TypeOK

(* A file is loaded. *)
LEMMA LoadFileTyped ==
  ASSUME TypeOK, NEW f \in Files, Step("load", LoadFile(f))
  PROVE  TypeOK'
<1>1. /\ RecordsTyped /\ DisplayTyped /\ ControlTyped /\ GhostsTyped
      /\ "load" \in Threads
  BY DEF TypeOK, Threads
<1>2. /\ Store(f.site, f.product, f.time, f.time)
      /\ opening' = opening \ {f} /\ opened' = opened \union {f}
      /\ events' = Append(events, [kind |-> "opened", file |-> f])
      /\ UNCHANGED <<servers, managers, pool, display, flags, widgetPool, gui,
                     ticker, inputs, ghosts>>
      /\ dying' = dying \union
           {[manager |-> n, by |-> "load", locked |-> FALSE] : n \in Held \ Held'}
  BY DEF Step, LoadFile
<1>3. site' = site /\ Made' = Made /\ Sweeping' = Sweeping /\ Signals' = Signals
      /\ Selecting' = Selecting
  BY <1>2, SameManagers DEF managers
<1>4. f.site \in Sites /\ f.product \in Products /\ f.time \in Times
  BY DisplayAssumption DEF Volumes
<1>5. RecordsTyped'
  <2>1. /\ keys' \in [Ids -> [Products -> SUBSET Times]]
        /\ file' \in [Ids -> [Products -> [Times -> Times \union {NoFile}]]]
    BY <1>1, <1>2, <1>4, StoreTyped
  <2> QED BY <1>1, <1>2, <2>1 DEF RecordsTyped, servers, managers
<1>6. DisplayTyped'
  <2>1. dying' \subseteq [manager : Made', by : Threads, locked : BOOLEAN]
    BY <1>1, <1>2, <1>3, DyingTyped
  <2> QED BY <1>1, <1>2, <1>3, <2>1, DisplayQuiet DEF ticker
<1>7. ControlTyped'
  <2>1. [kind |-> "opened", file |-> f] \in Signals
    BY DEF Signals
  <2>2. events' \in Seq(Signals)
    BY <1>1, <1>2, <2>1, AppendProperties DEF ControlTyped
  <2> QED BY <1>1, <1>2, <1>3, <2>2 DEF ControlTyped, flags, ticker
<1> QED BY <1>1, <1>2, <1>5, <1>6, <1>7, GhostsQuiet DEF TypeOK

(* A job of the map's thread queues a load. *)
LEMMA PostLoadTyped == TypeOK /\ Step("widget", PostLoad) => TypeOK'
<1> SUFFICES ASSUME TypeOK, Step("widget", PostLoad) PROVE TypeOK'
  OBVIOUS
<1>1. /\ RecordsTyped /\ DisplayTyped /\ ControlTyped /\ GhostsTyped
      /\ "widget" \in Threads
  BY DEF TypeOK, Threads, Sweepers
<1>2. /\ PostLoad
      /\ UNCHANGED <<servers, records, managers, opening, opened, display,
                     flags, events, gui, ticker, inputs, ghosts>>
      /\ dying' = dying \union
           {[manager |-> n, by |-> "widget", locked |-> FALSE] : n \in Held \ Held'}
  BY DEF Step, PostLoad
<1>3. site' = site /\ Made' = Made /\ Sweeping' = Sweeping /\ Signals' = Signals
      /\ Selecting' = Selecting
  BY <1>2, SameManagers DEF managers
<1>4. /\ Head(widgetPool) \in Updates
      /\ widgetPool' \in Seq(Updates \union {InitJob})
  <2>1. widgetPool \in Seq(Updates \union {InitJob}) /\ widgetPool # <<>>
        /\ Head(widgetPool) # InitJob /\ widgetPool' = Tail(widgetPool)
    BY <1>1, <1>2 DEF PostLoad, DisplayTyped
  <2> QED BY <2>1, HeadTailToSet
<1>5. widget \in Ids
  <2>1. Len(site) \in Ids /\ Len(site) \in Nat /\ widget \in 1 .. Len(site)
    BY <1>1, DisplayAssumption DEF DisplayTyped, Ids, Made
  <2> QED BY <2>1, DisplayAssumption DEF Ids
<1>6. pool' \in [Ids -> SUBSET Loads]
  <2>1. pool' = pool \/ pool' = [pool EXCEPT ![widget] = @ \union {Head(widgetPool)}]
    BY <1>2 DEF PostLoad
  <2>2. Head(widgetPool) \in Loads
    BY <1>4 DEF Loads
  <2> DEFINE job == Head(widgetPool)
  <2> HIDE DEF job
  <2>3. pool \in [Ids -> SUBSET Loads] /\ job \in Loads
    BY <1>1, <2>2 DEF RecordsTyped, job
  <2>4. pool' = pool \/ pool' = [pool EXCEPT ![widget] = @ \union {job}]
    BY <2>1 DEF job
  <2> QED BY <1>5, <2>3, <2>4
<1>7. RecordsTyped'
  BY <1>1, <1>2, <1>6 DEF RecordsTyped, servers, records, managers
<1>8. DisplayTyped'
  <2>1. dying' \subseteq [manager : Made', by : Threads, locked : BOOLEAN]
    BY <1>1, <1>2, <1>3, DyingTyped
  <2> QED BY <1>1, <1>2, <1>3, <1>4, <2>1 DEF DisplayTyped, display, ticker
<1> QED BY <1>1, <1>2, <1>3, <1>7, <1>8, ControlQuiet, GhostsQuiet DEF TypeOK

(* Volumes are uploaded, and listed by a refresh. *)
LEMMA ServerTyped == TypeOK /\ ServerStep => TypeOK'
<1> SUFFICES ASSUME TypeOK, ServerStep PROVE TypeOK'
  OBVIOUS
<1>1. /\ RecordsTyped /\ DisplayTyped /\ ControlTyped /\ GhostsTyped
      /\ "server" \in Threads
  BY DEF TypeOK, Threads
<1>2. /\ Publish \/ \E m \in Made : RefreshDataSync(m)
      /\ UNCHANGED <<records, managers, loading, display, flags,
                     widgetPool, gui, ticker, ghosts>>
      /\ dying' = dying \union
           {[manager |-> n, by |-> "server", locked |-> FALSE] : n \in Held \ Held'}
  BY DEF ServerStep, Step, Publish, RefreshDataSync
<1>3. site' = site /\ Made' = Made /\ Sweeping' = Sweeping /\ Signals' = Signals
      /\ Selecting' = Selecting
  BY <1>2, SameManagers DEF managers
<1>4. DisplayTyped'
  <2>1. dying' \subseteq [manager : Made', by : Threads, locked : BOOLEAN]
    BY <1>1, <1>2, <1>3, DyingTyped
  <2> QED BY <1>1, <1>2, <1>3, <2>1, DisplayQuiet DEF ticker
<1>5. GhostsTyped'
  BY <1>1, <1>2, GhostsQuiet
<1>6. CASE Publish
  <2>1. PICK u \in Uploads :
          published' = [published EXCEPT ![u.site][u.product] = @ \union {u.time}]
    BY <1>6 DEF Publish
  <2>2. u.site \in Sites /\ u.product \in Products /\ u.time \in Times
    BY DisplayAssumption DEF Volumes
  <2>3. UNCHANGED <<listed, events>> /\ inputs < MaxInputs /\ inputs' = inputs + 1
    BY <1>6 DEF Publish
  <2>4. RecordsTyped'
    BY <1>1, <1>2, <2>1, <2>2, <2>3 DEF RecordsTyped, records, managers, loading
  <2>5. inputs' \in 0 .. MaxInputs
    BY <1>1, <2>3, DisplayAssumption DEF ControlTyped
  <2>6. ControlTyped'
    BY <1>1, <1>2, <1>3, <2>3, <2>5 DEF ControlTyped, flags, ticker
  <2> QED BY <1>4, <1>5, <2>4, <2>6 DEF TypeOK
<1>7. ASSUME NEW m \in Made, RefreshDataSync(m) PROVE TypeOK'
  <2> DEFINE p == refresh[m]
             V == published[site[m]][p]
  <2>1. /\ p # NoProduct /\ ~ (V \subseteq listed[m][p])
        /\ listed' = [listed EXCEPT ![m][p] = V]
        /\ events' = Append(events, [kind |-> "announced", manager |-> m,
                                     product |-> p, time |-> Max(V)])
        /\ UNCHANGED <<published, inputs>>
    BY <1>7 DEF RefreshDataSync
  <2>2. m \in Ids /\ site[m] \in Sites
    <3>1. Len(site) \in Ids /\ Len(site) \in Nat /\ site \in Seq(Sites)
      BY <1>1, DisplayAssumption DEF DisplayTyped, Ids
    <3> QED BY <3>1, DisplayAssumption DEF Made, Ids
  <2>3. p \in Products
    BY <1>1, <2>1, <2>2 DEF RecordsTyped
  <2>4. V \in SUBSET Times /\ V # {}
    BY <1>1, <2>1, <2>2, <2>3 DEF RecordsTyped
  <2> HIDE DEF V, p
  <2>5. Max(V) \in Times
    BY <2>4, TimeFacts
  <2>6. RecordsTyped'
    BY <1>1, <1>2, <2>1, <2>2, <2>3, <2>4 DEF RecordsTyped, records, managers,
       loading
  <2>7. events' \in Seq(Signals)
    <3>1. [kind |-> "announced", manager |-> m, product |-> p, time |-> Max(V)]
            \in Signals
      BY <2>3, <2>5 DEF Signals
    <3> QED BY <1>1, <2>1, <3>1, AppendProperties DEF ControlTyped
  <2>8. ControlTyped'
    BY <1>1, <1>2, <1>3, <2>1, <2>7 DEF ControlTyped, flags, ticker
  <2> QED BY <1>4, <1>5, <2>6, <2>8 DEF TypeOK
<1> QED BY <1>2, <1>6, <1>7

(* While managers are only added, what had its type has it still. *)
LEMMA MoreManagers ==
  ASSUME Made \subseteq Made'
  PROVE  /\ Sweeping \subseteq Sweeping'
         /\ Signals \subseteq Signals' /\ Selecting \subseteq Selecting'
         /\ [manager : Made, product : Products, time : AnyTime, sweep : Pictures]
              \subseteq
            [manager : Made', product : Products, time : AnyTime, sweep : Pictures]
BY DEF Sweeping, Signals, Selecting

(* A product and a time are selected. *)
LEMMA SelectTyped ==
  ASSUME TypeOK, Made \subseteq Made', NEW m \in Made', m \in Ids,
         NEW p \in Products, NEW t \in AnyTime, NEW on,
         Select(m, p, t, TRUE, on)
  PROVE  /\ chosen' \in AnyTime /\ seen' \subseteq Times
         /\ refresh' \in [Ids -> Products \union {NoProduct}]
         /\ view' \in [manager : Made', product : Products, time : AnyTime,
                       sweep : Pictures]
         /\ updates' \in Nat
         /\ widgetPool' \in Seq(Updates \union {InitJob})
         /\ sweeping' \in [Sweepers -> Sweeping']
<1>1. /\ view \in [manager : Made', product : Products, time : AnyTime,
                   sweep : Pictures]
      /\ updates \in Nat /\ widgetPool \in Seq(Updates \union {InitJob})
      /\ sweeping \in [Sweepers -> Sweeping']
      /\ refresh \in [Ids -> Products \union {NoProduct}]
  BY MoreManagers DEF TypeOK, DisplayTyped, RecordsTyped
<1>2. chosen' = t /\ seen' = {} /\ Enable(m, p, on)
  BY DEF Select
<1>3. refresh' \in [Ids -> Products \union {NoProduct}]
  BY <1>1, <1>2 DEF Enable
<1>4. CASE p = view.product
  <2>1. /\ view' = [view EXCEPT !.time = t] /\ updates' = updates + 1
        /\ UNCHANGED <<sweeping, widgetPool>>
    BY <1>4 DEF Select
  <2> QED BY <1>1, <1>2, <1>3, <2>1
<1>5. CASE p # view.product
  <2>1. /\ view' = [manager |-> m, product |-> p, time |-> t, sweep |-> NoSweep]
        /\ widgetPool' = Append(widgetPool, InitJob)
        /\ sweeping' = IF sweeping["widget"].on
                       THEN [sweeping EXCEPT !["widget"].old = TRUE] ELSE sweeping
        /\ updates' = updates
    BY <1>5 DEF Select
  <2>2. sweeping' \in [Sweepers -> Sweeping']
    <3>1. CASE sweeping["widget"].on
      <4>1. "widget" \in Sweepers /\ DisplayTyped
        BY DEF Sweepers, TypeOK
      <4>2. [sweeping["widget"] EXCEPT !.old = TRUE] \in Sweeping'
        BY <3>1, <4>1, SweepFields, MoreManagers
      <4> DEFINE w == [sweeping["widget"] EXCEPT !.old = TRUE]
      <4>3. sweeping' = [sweeping EXCEPT !["widget"] = w]
        BY <2>1, <3>1
      <4> HIDE DEF w
      <4>4. w \in Sweeping'
        BY <4>2 DEF w
      <4> QED BY <1>1, <4>3, <4>4
    <3>2. CASE ~ sweeping["widget"].on
      BY <1>1, <2>1, <3>2
    <3> QED BY <3>1, <3>2
  <2>3. widgetPool' \in Seq(Updates \union {InitJob})
    <3>1. InitJob \in Updates \union {InitJob}
      OBVIOUS
    <3> QED BY <1>1, <2>1, <3>1, AppendProperties
  <2>4. view' \in [manager : Made', product : Products, time : AnyTime,
                   sweep : Pictures]
    BY <2>1 DEF Pictures
  <2> QED BY <1>1, <1>2, <1>3, <2>1, <2>2, <2>3, <2>4
<1> QED BY <1>4, <1>5

(* A record is selected, with the manager of its site. *)
LEMMA SelectRecordTyped ==
  ASSUME TypeOK, NEW s \in Sites, NEW p \in Products, NEW t \in Times, NEW on,
         SelectRecord(s, p, t, on)
  PROVE  /\ site' \in Seq(Sites) /\ Len(site') \in Ids /\ Made \subseteq Made'
         /\ widget' \in Made'
         /\ upsets' \subseteq upsets \union {"strayed", "outran"}
         /\ chosen' \in AnyTime /\ seen' \subseteq Times
         /\ refresh' \in [Ids -> Products \union {NoProduct}]
         /\ view' \in [manager : Made', product : Products, time : AnyTime,
                       sweep : Pictures]
         /\ updates' \in Nat
         /\ widgetPool' \in Seq(Updates \union {InitJob})
         /\ sweeping' \in [Sweepers -> Sweeping']
<1>1. /\ MayHave(s) /\ TakeInstance(s) /\ widget' = Instance(s)
      /\ upsets' \subseteq upsets \union {"strayed", "outran"}
      /\ Select(Instance(s), p, t, TRUE, on)
  BY DEF SelectRecord
<1>2. /\ site' \in Seq(Sites) /\ Len(site') \in Ids
      /\ Instance(s) \in Made' /\ Made \subseteq Made'
  BY <1>1, InstanceFacts DEF TypeOK
<1>3. Instance(s) \in Ids
  <2>1. Len(site') \in Nat /\ Instance(s) \in 1 .. Len(site')
    BY <1>2, DisplayAssumption DEF Made, Ids
  <2> QED BY <1>2, <2>1, DisplayAssumption DEF Ids
<1>4. t \in AnyTime
  BY TimeFacts
<1> QED BY <1>1, <1>2, <1>3, <1>4, SelectTyped

(* A signal is handled. *)
LEMMA DeliverTyped == TypeOK /\ Step("gui", Deliver) => TypeOK'
<1> SUFFICES ASSUME TypeOK, Step("gui", Deliver) PROVE TypeOK'
  OBVIOUS
<1>1. /\ RecordsTyped /\ DisplayTyped /\ ControlTyped /\ GhostsTyped
      /\ "gui" \in Threads
  BY DEF TypeOK, Threads
<1>2. /\ events # <<>> /\ Deliver
      /\ dying' = dying \union
           {[manager |-> n, by |-> "gui", locked |-> FALSE] : n \in Held \ Held'}
  BY DEF Step, Deliver
<1> DEFINE e == Head(events)
<1>3. e \in Signals /\ Rest \in Seq(Signals)
  BY <1>1, <1>2, HeadTailToSet DEF ControlTyped, Rest
<1> HIDE DEF e
<1>4. site' = site => /\ Made' = Made /\ Sweeping' = Sweeping /\ Signals' = Signals
                      /\ Selecting' = Selecting
  BY SameManagers
<1>5. Made \subseteq Made' =>
        dying' \subseteq [manager : Made', by : Threads, locked : BOOLEAN]
  BY <1>1, <1>2, DyingTyped
<1>6. CASE e.kind = "announced" /\ Announce(e)
  <2>1. UNCHANGED <<servers, records, managers, loading, display, flags,
                    widgetPool, gui, ticker, inputs, ghosts>>
    BY <1>6 DEF Announce
  <2>2. [e EXCEPT !.kind = "new"] \in Signals
    BY <1>3, <1>6 DEF Signals
  <2>3. events' \in Seq(Signals)
    <3>1. events' = Append(Rest, [e EXCEPT !.kind = "new"]) \/ events' = Rest
      BY <1>6 DEF Announce
    <3> QED BY <1>3, <2>2, <3>1, AppendProperties
  <2>4. site' = site
    BY <2>1 DEF managers
  <2>5. ControlTyped'
    BY <1>1, <1>4, <2>1, <2>3, <2>4 DEF ControlTyped, flags, ticker
  <2>6. RecordsTyped'
    BY <1>1, <2>1, RecordsQuiet DEF managers
  <2>7. DisplayTyped'
    BY <1>1, <1>4, <1>5, <2>1, <2>4, DisplayQuiet DEF ticker
  <2> QED BY <1>1, <2>1, <2>5, <2>6, <2>7, GhostsQuiet DEF TypeOK
<1>7. CASE e.kind = "new" /\ RequestNew(e)
  <2>1. /\ UNCHANGED <<servers, records, managers, loading, display, flags, gui,
                       ticker, inputs, chosen, seen, upsets>>
        /\ events' = Rest
    BY <1>7 DEF RequestNew
  <2>2. e.product \in Products /\ e.time \in Times
    BY <1>3, <1>7 DEF Signals
  <2>3. site' = site
    BY <2>1 DEF managers
  <2>4. ControlTyped'
    BY <1>1, <1>3, <1>4, <2>1, <2>3 DEF ControlTyped, flags, ticker
  <2>5. RecordsTyped'
    BY <1>1, <2>1, RecordsQuiet DEF managers
  <2>6. widgetPool' \in Seq(Updates \union {InitJob})
    <3> DEFINE job == [kind |-> "update", product |-> e.product, time |-> e.time,
                       request |-> site[widget], connected |-> autoUpdate]
    <3>1. widgetPool' = widgetPool \/ widgetPool' = Append(widgetPool, job)
      BY <1>7 DEF RequestNew
    <3>2. site[widget] \in Sites /\ autoUpdate \in BOOLEAN
      <4>1. Len(site) \in Nat /\ widget \in 1 .. Len(site) /\ site \in Seq(Sites)
        BY <1>1, DisplayAssumption DEF DisplayTyped, Ids, Made
      <4> QED BY <1>1, <4>1 DEF ControlTyped
    <3>3. job \in Updates \union {InitJob}
      BY <2>2, <3>2 DEF Updates
    <3> HIDE DEF job
    <3> QED BY <1>1, <3>1, <3>3, AppendProperties DEF DisplayTyped
  <2>7. DisplayTyped'
    BY <1>1, <1>4, <1>5, <2>1, <2>3, <2>6 DEF DisplayTyped, display, ticker
  <2>8. GhostsTyped'
    <3>1. due' = due \/ due' = e.time
      BY <1>7 DEF RequestNew
    <3> QED BY <1>1, <2>1, <2>2, <3>1 DEF GhostsTyped
  <2> QED BY <2>4, <2>5, <2>7, <2>8 DEF TypeOK
<1>8. CASE e.kind = "reloaded" /\ UpdateReloaded(e)
  <2>1. /\ UNCHANGED <<servers, records, managers, loading, widget, view,
                       sweeping, flags, widgetPool, gui, ticker, inputs, chosen,
                       seen, due>>
        /\ events' = Rest
        /\ updates' = updates + 1 \/ updates' = updates + 0
        /\ upsets' = upsets \/ upsets' = upsets \union {"raced"}
    BY <1>8 DEF UpdateReloaded
  <2>2. site' = site
    BY <2>1 DEF managers
  <2>3. ControlTyped'
    BY <1>1, <1>3, <1>4, <2>1, <2>2 DEF ControlTyped, flags, ticker
  <2>4. RecordsTyped'
    BY <1>1, <2>1, RecordsQuiet DEF managers
  <2>5. DisplayTyped'
    BY <1>1, <1>4, <1>5, <2>1, <2>2 DEF DisplayTyped, ticker
  <2>6. GhostsTyped'
    BY <1>1, <2>1 DEF GhostsTyped
  <2> QED BY <2>3, <2>4, <2>5, <2>6 DEF TypeOK
<1>9. CASE e.kind = "loaded" /\ ShowLoaded(e)
  <2>1. /\ UNCHANGED <<servers, records, loading, flags, gui, ticker, inputs,
                       due>>
        /\ events' = Rest
    BY <1>9 DEF ShowLoaded
  <2>2. e.product \in Products /\ e.time \in Times /\ e.site \in Sites
    BY <1>3, <1>9 DEF Signals
  <2>3. /\ site' \in Seq(Sites) /\ Len(site') \in Ids /\ Made \subseteq Made'
        /\ widget' \in Made'
        /\ upsets' \subseteq upsets \union {"strayed", "outran"}
        /\ chosen' \in AnyTime /\ seen' \subseteq Times
        /\ refresh' \in [Ids -> Products \union {NoProduct}]
        /\ view' \in [manager : Made', product : Products, time : AnyTime,
                      sweep : Pictures]
        /\ updates' \in Nat
        /\ widgetPool' \in Seq(Updates \union {InitJob})
        /\ sweeping' \in [Sweepers -> Sweeping']
    <3>1. CASE /\ Select(widget, e.product, Latest, TRUE, autoRefresh)
               /\ UNCHANGED <<site, widget, upsets>>
      <4>1. Made' = Made /\ widget \in Made
        BY <1>1, <1>4, <3>1 DEF DisplayTyped
      <4>2. widget \in Ids
        <5>1. Len(site) \in Ids /\ Len(site) \in Nat /\ widget \in 1 .. Len(site)
          BY <1>1, DisplayAssumption DEF DisplayTyped, Ids, Made
        <5> QED BY <5>1, DisplayAssumption DEF Ids
      <4>3. /\ chosen' \in AnyTime /\ seen' \subseteq Times
            /\ refresh' \in [Ids -> Products \union {NoProduct}]
            /\ view' \in [manager : Made', product : Products, time : AnyTime,
                          sweep : Pictures]
            /\ updates' \in Nat
            /\ widgetPool' \in Seq(Updates \union {InitJob})
            /\ sweeping' \in [Sweepers -> Sweeping']
        BY <2>2, <3>1, <4>1, <4>2, TimeFacts, SelectTyped
      <4> QED BY <1>1, <3>1, <4>1, <4>3 DEF DisplayTyped
    <3>2. CASE SelectRecord(e.site, e.product, e.time, autoRefresh)
      BY <2>2, <3>2, SelectRecordTyped
    <3>3. CASE UNCHANGED <<managers, display, widgetPool, chosen, seen, upsets>>
      BY <1>1, <1>4, <3>3 DEF DisplayTyped, RecordsTyped, GhostsTyped, managers,
         display
    <3> QED BY <1>9, <3>1, <3>2, <3>3 DEF ShowLoaded
  <2>4. ControlTyped'
    <3>1. events' \in Seq(Signals')
      BY <1>3, <2>1, <2>3, MoreManagers, SeqMonotonic
    <3> QED BY <1>1, <2>1, <3>1 DEF ControlTyped, flags, ticker
  <2>5. RecordsTyped'
    BY <1>1, <2>1, <2>3 DEF RecordsTyped, servers, records, loading
  <2>6. DisplayTyped'
    BY <1>1, <1>5, <2>1, <2>3, MoreManagers DEF DisplayTyped, ticker
  <2>7. GhostsTyped'
    BY <1>1, <2>1, <2>3 DEF GhostsTyped, Tolerated
  <2> QED BY <2>4, <2>5, <2>6, <2>7 DEF TypeOK
<1>10. CASE e.kind = "opened" /\ ShowFile(e.file) /\ events' = Rest
            /\ UNCHANGED <<opening, inputs>>
  <2> DEFINE f == e.file
  <2>1. f \in Files
    BY <1>3, <1>10 DEF Signals
  <2> HIDE DEF f
  <2>2. f.product \in Products /\ f.time \in Times /\ f.site \in Sites
    BY <2>1, DisplayAssumption DEF Volumes
  <2>3. /\ autoRefresh' = FALSE /\ due' = NoTime
        /\ SelectRecord(f.site, f.product, f.time, FALSE)
        /\ UNCHANGED <<servers, records, pool, opened, autoUpdate, gui, ticker>>
    BY <1>10 DEF ShowFile, f
  <2>4. /\ site' \in Seq(Sites) /\ Len(site') \in Ids /\ Made \subseteq Made'
        /\ widget' \in Made'
        /\ upsets' \subseteq upsets \union {"strayed", "outran"}
        /\ chosen' \in AnyTime /\ seen' \subseteq Times
        /\ refresh' \in [Ids -> Products \union {NoProduct}]
        /\ view' \in [manager : Made', product : Products, time : AnyTime,
                      sweep : Pictures]
        /\ updates' \in Nat
        /\ widgetPool' \in Seq(Updates \union {InitJob})
        /\ sweeping' \in [Sweepers -> Sweeping']
    BY <2>2, <2>3, SelectRecordTyped
  <2>5. ControlTyped'
    <3>1. events' \in Seq(Signals')
      BY <1>3, <1>10, <2>4, MoreManagers, SeqMonotonic
    <3> QED BY <1>1, <1>10, <2>3, <3>1 DEF ControlTyped, ticker
  <2>6. RecordsTyped'
    BY <1>1, <1>10, <2>3, <2>4 DEF RecordsTyped, servers, records
  <2>7. DisplayTyped'
    BY <1>1, <1>5, <2>3, <2>4, MoreManagers DEF DisplayTyped, ticker
  <2>8. GhostsTyped'
    BY <1>1, <2>3, <2>4 DEF GhostsTyped, Tolerated
  <2> QED BY <2>5, <2>6, <2>7, <2>8 DEF TypeOK
<1> QED BY <1>2, <1>6, <1>7, <1>8, <1>9, <1>10 DEF Deliver, e

(* What a step of the timeline, a switch or a live selection leaves typed. *)
LEMMA SelectLiveTyped ==
  ASSUME TypeOK, NEW s \in Sites, NEW live \in BOOLEAN, SelectLive(s, live)
  PROVE  /\ timeline' \in [site : Sites, previous : Sites, live : BOOLEAN,
                           time : AnyTime]
         /\ upsets' \subseteq upsets \union {"crossed"}
         /\ autoUpdate' \in BOOLEAN /\ updates' \in Nat /\ chosen' \in AnyTime /\ seen' \subseteq Times
         /\ view' \in [manager : Made, product : Products, time : AnyTime,
                       sweep : Pictures]
<1>1. /\ view \in [manager : Made, product : Products, time : AnyTime,
                   sweep : Pictures]
      /\ updates \in Nat /\ chosen \in AnyTime /\ seen \subseteq Times
      /\ autoUpdate \in BOOLEAN /\ Latest \in AnyTime
  BY TimeFacts DEF TypeOK, DisplayTyped, ControlTyped, GhostsTyped
<1>2. upsets' \subseteq upsets \union {"crossed"}
  BY DEF SelectLive, Crossing
<1>3. timeline' \in [site : Sites, previous : Sites, live : BOOLEAN, time : AnyTime]
  BY <1>1 DEF SelectLive
<1>4. /\ autoUpdate' = autoUpdate \/ autoUpdate' = TRUE
      /\ \/ UNCHANGED <<view, updates, chosen, seen>>
         \/ /\ view' = [view EXCEPT !.time = Latest] /\ updates' = updates + 1
            /\ chosen' = Latest /\ seen' = {}
  BY DEF SelectLive, SelectTime
<1>5. autoUpdate' \in BOOLEAN
  BY <1>1, <1>4
<1>6. CASE UNCHANGED <<view, updates, chosen, seen>>
  BY <1>1, <1>2, <1>3, <1>5, <1>6
<1>7. CASE view' = [view EXCEPT !.time = Latest] /\ updates' = updates + 1
           /\ chosen' = Latest /\ seen' = {}
  <2>1. view' \in [manager : Made, product : Products, time : AnyTime,
                   sweep : Pictures]
    BY <1>1, <1>7
  <2>2. updates' \in Nat /\ chosen' \in AnyTime /\ seen' \subseteq Times
    BY <1>1, <1>7
  <2> QED BY <1>2, <1>3, <1>5, <2>1, <2>2
<1> QED BY <1>4, <1>6, <1>7

(* The timeline's thread selects an archived time. *)
LEMMA ArchivedTyped ==
  ASSUME TypeOK, NEW t \in AnyTime, NEW s \in Sites, MayHave(s), TakeInstance(s),
         listed' = Listed(Instance(s)),
         selecting' = [time |-> t, told |-> FALSE, manager |-> Instance(s)]
  PROVE  /\ site' \in Seq(Sites) /\ Len(site') \in Ids /\ Made \subseteq Made'
         /\ listed' \in [Ids -> [Products -> SUBSET Times]]
         /\ selecting' \in Selecting'
<1>1. /\ site' \in Seq(Sites) /\ Len(site') \in Ids /\ Made \subseteq Made'
      /\ Instance(s) \in Made'
  BY InstanceFacts DEF TypeOK
<1>2. listed \in [Ids -> [Products -> SUBSET Times]]
  BY DEF TypeOK, RecordsTyped
<1> DEFINE m == Instance(s)
           q == refresh[m]
<1>3. CASE m \in Made /\ q # NoProduct
  <2>1. site[m] \in Sites /\ m \in Ids
    <3>1. Len(site) \in Ids /\ Len(site) \in Nat /\ site \in Seq(Sites)
      BY DisplayAssumption DEF TypeOK, DisplayTyped, Ids
    <3> QED BY <1>3, <3>1, DisplayAssumption DEF Made, Ids
  <2>2. q \in Products /\ published[site[m]][q] \in SUBSET Times
    BY <1>3, <2>1 DEF TypeOK, RecordsTyped
  <2> HIDE DEF q
  <2>3. Listing(m, q) \in SUBSET Times
    BY <1>2, <2>1, <2>2 DEF Listing
  <2>4. listed' = [listed EXCEPT ![m][q] = Listing(m, q)]
    BY <1>3 DEF Listed, q
  <2> HIDE DEF m
  <2>5. listed' \in [Ids -> [Products -> SUBSET Times]]
    BY <1>2, <2>1, <2>2, <2>3, <2>4
  <2> QED BY <1>1, <2>5 DEF Selecting
<1>4. CASE ~ (m \in Made /\ q # NoProduct)
  <2>1. listed' = listed
    BY <1>4 DEF Listed
  <2> QED BY <1>1, <1>2, <2>1 DEF Selecting
<1> QED BY <1>3, <1>4

(* A step of the timeline's thread. *)
LEMMA TimelineTyped == TypeOK /\ TimelineStep => TypeOK'
<1> SUFFICES ASSUME TypeOK, TimelineStep PROVE TypeOK'
  OBVIOUS
<1>1. /\ RecordsTyped /\ DisplayTyped /\ ControlTyped /\ GhostsTyped
      /\ "timeline" \in Threads
  BY DEF TypeOK, Threads
<1>2. /\ StartSelect \/ TellMap \/ EndSelect
      /\ UNCHANGED <<published, records, refresh, loading, widget, sweeping,
                     autoRefresh, widgetPool, events, gui, inputs>>
      /\ due' = due \/ due' = NoTime
      /\ dying' = dying \union
           {[manager |-> n, by |-> "timeline", locked |-> FALSE] :
              n \in Held \ Held'}
  BY DEF TimelineStep, Step, StartSelect, TellMap, EndSelect, display, flags,
     ghosts, servers, managers
<1>3. /\ view \in [manager : Made, product : Products, time : AnyTime,
                   sweep : Pictures]
      /\ updates \in Nat /\ chosen \in AnyTime /\ seen \subseteq Times
      /\ autoUpdate \in BOOLEAN
      /\ timeline \in [site : Sites, previous : Sites, live : BOOLEAN,
                       time : AnyTime]
      /\ asks \in Seq(AnyTime) /\ selecting \in Selecting
      /\ site \in Seq(Sites) /\ Len(site) \in Ids
      /\ listed \in [Ids -> [Products -> SUBSET Times]]
  BY <1>1 DEF DisplayTyped, ControlTyped, GhostsTyped, RecordsTyped
<1>4. site' = site => Selecting' = Selecting /\ Made' = Made
  BY SameManagers
<1>5. /\ view' \in [manager : Made, product : Products, time : AnyTime,
                    sweep : Pictures]
      /\ updates' \in Nat /\ chosen' \in AnyTime /\ seen' \subseteq Times
      /\ autoUpdate' \in BOOLEAN
      /\ timeline' \in [site : Sites, previous : Sites, live : BOOLEAN,
                        time : AnyTime]
      /\ asks' \in Seq(AnyTime)
      /\ upsets' \subseteq upsets \union {"crossed"}
      /\ site' \in Seq(Sites) /\ Len(site') \in Ids /\ Made \subseteq Made'
      /\ listed' \in [Ids -> [Products -> SUBSET Times]]
      /\ selecting' \in Selecting'
  <2>1. CASE StartSelect
    <3> DEFINE s == timeline.site
    <3>1. asks # <<>> /\ asks' = Tail(asks)
      BY <2>1 DEF StartSelect
    <3>2. asks' \in Seq(AnyTime) /\ Head(asks) \in AnyTime
      BY <1>3, <3>1, HeadTailToSet
    <3>3. CASE /\ MayHave(s) /\ TakeInstance(s) /\ listed' = Listed(Instance(s))
               /\ autoUpdate' = FALSE
               /\ selecting' = [time |-> Head(asks), told |-> FALSE,
                                manager |-> Instance(s)]
               /\ UNCHANGED <<timeline, view, updates, chosen, seen, upsets>>
      <4>1. s \in Sites
        BY <1>3
      <4> HIDE DEF s
      <4>2. /\ site' \in Seq(Sites) /\ Len(site') \in Ids /\ Made \subseteq Made'
            /\ listed' \in [Ids -> [Products -> SUBSET Times]]
            /\ selecting' \in Selecting'
        BY <3>2, <3>3, <4>1, ArchivedTyped
      <4> QED BY <1>3, <3>2, <3>3, <4>2
    <3>4. CASE UNCHANGED <<site, listed, autoUpdate, selecting, timeline, view,
                           updates, ghosts>>
      BY <1>3, <1>4, <3>2, <3>4 DEF ghosts
    <3>5. CASE /\ SelectLive(timeline.site, timeline.live)
               /\ UNCHANGED <<site, listed, selecting>>
      <4>1. timeline.site \in Sites /\ timeline.live \in BOOLEAN
        BY <1>3
      <4> QED BY <1>3, <1>4, <3>2, <3>5, <4>1, SelectLiveTyped
    <3> QED BY <2>1, <3>3, <3>4, <3>5 DEF StartSelect
  <2>2. CASE TellMap
    <3>1. selecting \in [time : AnyTime, told : BOOLEAN, manager : Made]
      BY <1>3, <2>2 DEF TellMap, Selecting
    <3>2. /\ selecting' = [selecting EXCEPT !.told = TRUE]
          /\ timeline' = [timeline EXCEPT !.time = selecting.time]
          /\ view' = [view EXCEPT !.time = selecting.time]
          /\ updates' = updates + 1
          /\ chosen' = selecting.time /\ seen' = {}
          /\ UNCHANGED <<servers, managers, flags, asks, upsets>>
      BY <2>2 DEF TellMap, SelectTime
    <3>3. view' \in [manager : Made, product : Products, time : AnyTime,
                     sweep : Pictures]
      BY <1>3, <3>1, <3>2
    <3>4. selecting' \in Selecting' /\ Made \subseteq Made'
      <4>1. selecting' \in Selecting
        BY <3>1, <3>2 DEF Selecting
      <4> QED BY <1>4, <3>2, <4>1 DEF managers
    <3>5. timeline' \in [site : Sites, previous : Sites, live : BOOLEAN,
                         time : AnyTime]
      BY <1>3, <3>1, <3>2
    <3>6. /\ autoUpdate' \in BOOLEAN /\ asks' \in Seq(AnyTime)
          /\ upsets' \subseteq upsets \union {"crossed"}
          /\ site' \in Seq(Sites) /\ Len(site') \in Ids
          /\ listed' \in [Ids -> [Products -> SUBSET Times]]
      BY <1>3, <3>2 DEF flags, managers, servers
    <3>7. selecting.time \in AnyTime
      BY <3>1
    <3>8. updates' \in Nat /\ chosen' \in AnyTime /\ seen' \subseteq Times
      BY <1>3, <3>7, <3>2
    <3> QED BY <3>3, <3>4, <3>5, <3>6, <3>8
  <2>3. CASE EndSelect
    <3>1. /\ selecting' = NotSelecting
          /\ timeline' = [timeline EXCEPT !.previous = timeline.site]
          /\ UNCHANGED <<servers, managers, display, flags, asks, ghosts>>
      BY <2>3 DEF EndSelect
    <3>2. selecting' \in Selecting' /\ Made' = Made
      BY <1>4, <3>1 DEF Selecting, managers
    <3> QED BY <1>3, <3>1, <3>2 DEF display, flags, ghosts, managers, servers
  <2> QED BY <1>2, <2>1, <2>2, <2>3
<1>6. dying' \subseteq [manager : Made', by : Threads, locked : BOOLEAN]
  BY <1>1, <1>2, <1>5, DyingTyped
<1>7. RecordsTyped'
  BY <1>1, <1>2, <1>5 DEF RecordsTyped, records, loading
<1>8. DisplayTyped'
  <2>1. /\ sweeping' \in [Sweepers -> Sweeping'] /\ widget' \in Made'
        /\ widgetPool' \in Seq(Updates \union {InitJob})
    BY <1>1, <1>2, <1>5, MoreManagers DEF DisplayTyped
  <2>2. view' \in [manager : Made', product : Products, time : AnyTime,
                   sweep : Pictures]
    BY <1>5, MoreManagers
  <2> QED BY <1>5, <1>6, <2>1, <2>2 DEF DisplayTyped
<1>9. ControlTyped'
  <2>1. events' \in Seq(Signals')
    BY <1>1, <1>2, <1>5, MoreManagers, SeqMonotonic DEF ControlTyped
  <2> QED BY <1>1, <1>2, <1>5, <2>1 DEF ControlTyped
<1>10. GhostsTyped'
  BY <1>1, <1>2, <1>5 DEF GhostsTyped
<1> QED BY <1>7, <1>8, <1>9, <1>10 DEF TypeOK

(* The time of the view is read for a switch, and written back. *)
LEMMA ReselectTyped ==
  TypeOK /\ (Step("gui", CarryTime) \/ Step("gui", Reselect)) => TypeOK'
<1> SUFFICES ASSUME TypeOK, Step("gui", CarryTime) \/ Step("gui", Reselect)
             PROVE  TypeOK'
  OBVIOUS
<1>1. /\ RecordsTyped /\ DisplayTyped /\ ControlTyped /\ GhostsTyped
      /\ "gui" \in Threads
  BY DEF TypeOK, Threads
<1>2. /\ gui.on
      /\ CarryTime \/ Reselect
      /\ UNCHANGED <<servers, records, site, loading, widget, updates, sweeping,
                     flags, widgetPool, events, ticker, inputs, chosen, seen, due>>
      /\ dying' = dying \union
           {[manager |-> n, by |-> "gui", locked |-> FALSE] : n \in Held \ Held'}
  BY DEF Step, CarryTime, Reselect, managers, display, ghosts
<1>3. /\ Made' = Made /\ Sweeping' = Sweeping /\ Signals' = Signals
      /\ Selecting' = Selecting
  BY <1>2, SameManagers
<1>4. dying' \subseteq [manager : Made', by : Threads, locked : BOOLEAN]
  BY <1>1, <1>2, <1>3, DyingTyped
<1>5. /\ view \in [manager : Made, product : Products, time : AnyTime,
                   sweep : Pictures]
      /\ gui \in [on : {TRUE}, carried : AnyTime \union {NoTime},
                  reselected : BOOLEAN]
      /\ refresh \in [Ids -> Products \union {NoProduct}] /\ widget \in Ids
  <2>1. gui # Idle
    BY <1>2 DEF Idle
  <2>2. widget \in Ids
    <3>1. Len(site) \in Ids /\ Len(site) \in Nat /\ widget \in Made
      BY <1>1, DisplayAssumption DEF DisplayTyped, Ids
    <3> QED BY <3>1, DisplayAssumption DEF Made, Ids
  <2> QED BY <1>1, <2>1, <2>2 DEF DisplayTyped, ControlTyped, RecordsTyped
<1>6. /\ view' \in [manager : Made, product : Products, time : AnyTime,
                    sweep : Pictures]
      /\ gui' \in [on : {TRUE}, carried : AnyTime \union {NoTime},
                   reselected : BOOLEAN]
      /\ refresh' \in [Ids -> Products \union {NoProduct}]
      /\ upsets' \subseteq upsets \union {"raced"}
  <2>1. CASE CarryTime
    <3>1. /\ gui' = [gui EXCEPT !.carried = view.time]
          /\ UNCHANGED <<view, refresh, upsets>>
      BY <2>1 DEF CarryTime, managers, display, ghosts
    <3> QED BY <1>5, <3>1
  <2>2. CASE Reselect
    <3>1. /\ gui' = [gui EXCEPT !.reselected = TRUE] /\ gui.carried # NoTime
          /\ Enable(widget, view.product, autoRefresh)
          /\ view' = [view EXCEPT !.time = gui.carried]
          /\ upsets' = IF view.time = gui.carried THEN upsets
                       ELSE upsets \union {"raced"}
      BY <2>2 DEF Reselect
    <3>2. refresh' \in [Ids -> Products \union {NoProduct}]
      BY <1>5, <3>1 DEF Enable
    <3>3. gui.carried \in AnyTime
      BY <1>5, <3>1
    <3> QED BY <1>5, <3>1, <3>2, <3>3
  <2> QED BY <1>2, <2>1, <2>2
<1>7. RecordsTyped'
  BY <1>1, <1>2, <1>6 DEF RecordsTyped, servers, records, loading
<1>8. DisplayTyped'
  BY <1>1, <1>2, <1>3, <1>4, <1>6 DEF DisplayTyped, ticker
<1>9. ControlTyped'
  BY <1>1, <1>2, <1>3, <1>6 DEF ControlTyped, flags, ticker
<1>10. GhostsTyped'
  BY <1>1, <1>2, <1>6 DEF GhostsTyped
<1> QED BY <1>7, <1>8, <1>9, <1>10 DEF TypeOK

(* A switch of the site ends. *)
LEMMA FinishTyped == TypeOK /\ Step("gui", FinishSwitch) => TypeOK'
<1> SUFFICES ASSUME TypeOK, Step("gui", FinishSwitch) PROVE TypeOK'
  OBVIOUS
<1>1. /\ RecordsTyped /\ DisplayTyped /\ ControlTyped /\ GhostsTyped
      /\ "gui" \in Threads
  BY DEF TypeOK, Threads
<1> DEFINE s == site[widget]
<1>2. /\ gui' = Idle
      /\ UNCHANGED <<servers, records, managers, loading, widget, sweeping,
                     autoRefresh, widgetPool, events, selecting, inputs, due>>
      /\ dying' = dying \union
           {[manager |-> n, by |-> "gui", locked |-> FALSE] : n \in Held \ Held'}
      /\ \/ SelectLive(s, TRUE) /\ UNCHANGED asks
         \/ /\ timeline' = [timeline EXCEPT !.site = s]
            /\ asks' = Append(asks, timeline.time)
            /\ upsets' = upsets \union
                 (IF timeline.previous = s THEN {"returned"} ELSE {})
            /\ UNCHANGED <<autoUpdate, view, updates, chosen, seen>>
         \/ UNCHANGED <<timeline, asks, autoUpdate, view, updates, chosen, seen,
                        upsets>>
  BY DEF Step, FinishSwitch
<1>3. /\ Made' = Made /\ Sweeping' = Sweeping /\ Signals' = Signals
      /\ Selecting' = Selecting
  BY <1>2, SameManagers DEF managers
<1>4. dying' \subseteq [manager : Made', by : Threads, locked : BOOLEAN]
  BY <1>1, <1>2, <1>3, DyingTyped
<1>5. /\ view \in [manager : Made, product : Products, time : AnyTime,
                   sweep : Pictures]
      /\ updates \in Nat /\ chosen \in AnyTime /\ seen \subseteq Times
      /\ autoUpdate \in BOOLEAN
      /\ timeline \in [site : Sites, previous : Sites, live : BOOLEAN,
                       time : AnyTime]
      /\ asks \in Seq(AnyTime)
  BY <1>1 DEF DisplayTyped, ControlTyped, GhostsTyped
<1>6. s \in Sites /\ widget \in Ids
  <2>1. /\ Len(site) \in Ids /\ Len(site) \in Nat /\ widget \in 1 .. Len(site)
        /\ site \in Seq(Sites)
    BY <1>1, DisplayAssumption DEF DisplayTyped, Ids, Made
  <2> QED BY <2>1, DisplayAssumption DEF Ids
<1> HIDE DEF s
<1>7. /\ view' \in [manager : Made, product : Products, time : AnyTime,
                    sweep : Pictures]
      /\ updates' \in Nat /\ chosen' \in AnyTime /\ seen' \subseteq Times /\ autoUpdate' \in BOOLEAN
      /\ timeline' \in [site : Sites, previous : Sites, live : BOOLEAN,
                        time : AnyTime]
      /\ asks' \in Seq(AnyTime)
      /\ upsets' \subseteq upsets \union {"crossed", "returned"}
  <2>1. CASE SelectLive(s, TRUE) /\ UNCHANGED asks
    BY <1>5, <1>6, <2>1, SelectLiveTyped
  <2>2. CASE /\ timeline' = [timeline EXCEPT !.site = s]
             /\ asks' = Append(asks, timeline.time)
             /\ upsets' = upsets \union
                  (IF timeline.previous = s THEN {"returned"} ELSE {})
             /\ UNCHANGED <<autoUpdate, view, updates, chosen, seen>>
    <3>1. asks' \in Seq(AnyTime)
      BY <1>5, <2>2, AppendProperties
    <3> QED BY <1>5, <1>6, <2>2, <3>1
  <2>3. CASE UNCHANGED <<timeline, asks, autoUpdate, view, updates, chosen, seen,
                         upsets>>
    BY <1>5, <2>3
  <2> QED BY <1>2, <2>1, <2>2, <2>3
<1>8. RecordsTyped'
  BY <1>1, <1>2, RecordsQuiet DEF managers
<1>9. DisplayTyped'
  BY <1>1, <1>2, <1>3, <1>4, <1>7 DEF DisplayTyped, managers
<1>10. ControlTyped'
  BY <1>1, <1>2, <1>3, <1>7 DEF ControlTyped
<1>11. GhostsTyped'
  BY <1>1, <1>2, <1>7 DEF GhostsTyped
<1> QED BY <1>8, <1>9, <1>10, <1>11 DEF TypeOK

(* The site is switched. *)
LEMMA SelectSiteTyped ==
  ASSUME TypeOK, NEW s \in Sites, Step("gui", SelectSite(s))
  PROVE  TypeOK'
<1>1. /\ RecordsTyped /\ DisplayTyped /\ ControlTyped /\ GhostsTyped
      /\ "gui" \in Threads
  BY DEF TypeOK, Threads
<1>2. /\ inputs < MaxInputs /\ inputs' = inputs + 1 /\ MayHave(s) /\ TakeInstance(s)
      /\ widget' = Instance(s) /\ view' = [view EXCEPT !.manager = Instance(s)]
      /\ gui' = [on |-> TRUE, carried |-> NoTime, reselected |-> FALSE] /\ due' = NoTime
      /\ upsets' = upsets \union Crossing
      /\ UNCHANGED <<servers, records, refresh, loading, updates, sweeping, flags,
                     widgetPool, events, ticker, chosen, seen>>
      /\ dying' = dying \union
           {[manager |-> n, by |-> "gui", locked |-> FALSE] : n \in Held \ Held'}
  BY DEF Step, SelectSite, Call
<1>3. /\ site' \in Seq(Sites) /\ Len(site') \in Ids /\ Instance(s) \in Made'
      /\ Made \subseteq Made'
  BY <1>1, <1>2, InstanceFacts
<1>4. dying' \subseteq [manager : Made', by : Threads, locked : BOOLEAN]
  BY <1>1, <1>2, <1>3, DyingTyped
<1>5. RecordsTyped'
  BY <1>1, <1>2, RecordsQuiet
<1>6. DisplayTyped'
  <2>1. sweeping' \in [Sweepers -> Sweeping']
    BY <1>1, <1>2, <1>3, MoreManagers DEF DisplayTyped
  <2>2. view' \in [manager : Made', product : Products, time : AnyTime,
                   sweep : Pictures]
    BY <1>1, <1>2, <1>3 DEF DisplayTyped
  <2>3. selecting' \in Selecting'
    BY <1>1, <1>2, <1>3, MoreManagers DEF DisplayTyped, ticker
  <2> QED BY <1>1, <1>2, <1>3, <1>4, <2>1, <2>2, <2>3 DEF DisplayTyped
<1>7. ControlTyped'
  <2>1. events' \in Seq(Signals')
    BY <1>1, <1>2, <1>3, MoreManagers, SeqMonotonic DEF ControlTyped
  <2>2. inputs' \in 0 .. MaxInputs
    BY <1>1, <1>2, DisplayAssumption DEF ControlTyped
  <2> QED BY <1>1, <1>2, <2>1, <2>2 DEF ControlTyped, flags, ticker
<1>8. GhostsTyped'
  BY <1>1, <1>2 DEF GhostsTyped, Crossing
<1> QED BY <1>5, <1>6, <1>7, <1>8 DEF TypeOK

(* The user's other calls. *)
LEMMA CallsTyped ==
  TypeOK /\ (\/ \E p \in Products : Step("gui", SelectProduct(p))
             \/ \E t \in Picks : Step("gui", PickTime(t))
             \/ Step("gui", GoLive)
             \/ \E f \in Files : Step("gui", OpenFile(f))) => TypeOK'
<1> SUFFICES ASSUME TypeOK,
                    \/ \E p \in Products : Step("gui", SelectProduct(p))
                    \/ \E t \in Picks : Step("gui", PickTime(t))
                    \/ Step("gui", GoLive)
                    \/ \E f \in Files : Step("gui", OpenFile(f))
             PROVE  TypeOK'
  OBVIOUS
<1>1. /\ RecordsTyped /\ DisplayTyped /\ ControlTyped /\ GhostsTyped
      /\ "gui" \in Threads
  BY DEF TypeOK, Threads
<1>2. /\ inputs < MaxInputs /\ inputs' = inputs + 1
      /\ dying' = dying \union
           {[manager |-> n, by |-> "gui", locked |-> FALSE] : n \in Held \ Held'}
  BY DEF Step, SelectProduct, PickTime, GoLive, OpenFile, Call
<1>3. inputs' \in 0 .. MaxInputs
  BY <1>1, <1>2, DisplayAssumption DEF ControlTyped
<1>4. site' = site => Made' = Made /\ Sweeping' = Sweeping /\ Signals' = Signals
      /\ Selecting' = Selecting
  BY SameManagers
<1>5. Made \subseteq Made' =>
        dying' \subseteq [manager : Made', by : Threads, locked : BOOLEAN]
  BY <1>1, <1>2, DyingTyped
<1>6. ASSUME NEW p \in Products, SelectProduct(p) PROVE TypeOK'
  <2>1. /\ Select(widget, p, timeline.time, TRUE, autoRefresh) /\ due' = NoTime
        /\ UNCHANGED <<servers, records, site, loading, widget, flags, events,
                       gui, ticker, upsets>>
    BY <1>6 DEF SelectProduct
  <2>2. Made' = Made /\ widget \in Made /\ widget \in Ids
    <3>1. /\ Len(site) \in Ids /\ Len(site) \in Nat /\ widget \in 1 .. Len(site)
      BY <1>1, DisplayAssumption DEF DisplayTyped, Ids, Made
    <3> QED BY <1>1, <1>4, <2>1, <3>1, DisplayAssumption DEF DisplayTyped, Ids
  <2>3. timeline.time \in AnyTime
    BY <1>1 DEF ControlTyped
  <2>4. /\ chosen' \in AnyTime /\ seen' \subseteq Times
        /\ refresh' \in [Ids -> Products \union {NoProduct}]
        /\ view' \in [manager : Made', product : Products, time : AnyTime,
                      sweep : Pictures]
        /\ updates' \in Nat
        /\ widgetPool' \in Seq(Updates \union {InitJob})
        /\ sweeping' \in [Sweepers -> Sweeping']
    BY <2>1, <2>2, <2>3, SelectTyped
  <2>5. RecordsTyped'
    BY <1>1, <2>1, <2>4 DEF RecordsTyped, servers, records, loading
  <2>6. DisplayTyped'
    BY <1>1, <1>4, <1>5, <2>1, <2>2, <2>4 DEF DisplayTyped, ticker
  <2>7. ControlTyped'
    BY <1>1, <1>3, <1>4, <2>1 DEF ControlTyped, flags, ticker
  <2>8. GhostsTyped'
    BY <1>1, <2>1, <2>4 DEF GhostsTyped
  <2> QED BY <2>5, <2>6, <2>7, <2>8 DEF TypeOK
<1>7. ASSUME NEW t \in Picks, PickTime(t) PROVE TypeOK'
  <2>1. /\ timeline' = [timeline EXCEPT !.live = FALSE]
        /\ asks' = Append(asks, t) /\ due' = NoTime
        /\ UNCHANGED <<servers, records, managers, loading, display, flags,
                       widgetPool, events, gui, selecting, chosen, seen, upsets>>
    BY <1>7 DEF PickTime
  <2>2. site' = site
    BY <2>1 DEF managers
  <2>3. t \in AnyTime
    BY DEF AnyTime
  <2>4. asks' \in Seq(AnyTime)
    BY <1>1, <2>1, <2>3, AppendProperties DEF ControlTyped
  <2>5. ControlTyped'
    BY <1>1, <1>3, <1>4, <2>1, <2>2, <2>4 DEF ControlTyped, flags
  <2>6. RecordsTyped'
    BY <1>1, <2>1, RecordsQuiet DEF managers
  <2>7. DisplayTyped'
    BY <1>1, <1>4, <1>5, <2>1, <2>2, DisplayQuiet
  <2>8. GhostsTyped'
    BY <1>1, <2>1 DEF GhostsTyped
  <2> QED BY <2>5, <2>6, <2>7, <2>8 DEF TypeOK
<1>8. ASSUME GoLive PROVE TypeOK'
  <2>1. /\ SelectLive(timeline.site, TRUE)
        /\ UNCHANGED <<servers, records, managers, loading, widget, sweeping,
                       autoRefresh, widgetPool, events, gui, asks, selecting, due>>
    BY <1>8 DEF GoLive
  <2>2. site' = site
    BY <2>1 DEF managers
  <2>3. timeline.site \in Sites
    BY <1>1 DEF ControlTyped
  <2>4. /\ timeline' \in [site : Sites, previous : Sites, live : BOOLEAN,
                          time : AnyTime]
        /\ upsets' \subseteq upsets \union {"crossed"}
        /\ autoUpdate' \in BOOLEAN /\ updates' \in Nat /\ chosen' \in AnyTime /\ seen' \subseteq Times
        /\ view' \in [manager : Made, product : Products, time : AnyTime,
                      sweep : Pictures]
    BY <2>1, <2>3, SelectLiveTyped
  <2>5. ControlTyped'
    BY <1>1, <1>3, <1>4, <2>1, <2>2, <2>4 DEF ControlTyped
  <2>6. RecordsTyped'
    BY <1>1, <2>1, RecordsQuiet DEF managers
  <2>7. DisplayTyped'
    BY <1>1, <1>4, <1>5, <2>1, <2>2, <2>4 DEF DisplayTyped, ticker
  <2>8. GhostsTyped'
    BY <1>1, <2>1, <2>4 DEF GhostsTyped
  <2> QED BY <2>5, <2>6, <2>7, <2>8 DEF TypeOK
<1>9. ASSUME NEW f \in Files, OpenFile(f) PROVE TypeOK'
  <2>1. f.product \in Products /\ f.time \in Times /\ f.site \in Sites
    BY DisplayAssumption DEF Volumes
  <2>2. CASE ShowFile(f) /\ UNCHANGED <<opening, events>>
    <3>1. /\ autoRefresh' = FALSE /\ due' = NoTime
          /\ SelectRecord(f.site, f.product, f.time, FALSE)
          /\ UNCHANGED <<servers, records, pool, opened, autoUpdate, gui, ticker>>
      BY <2>2 DEF ShowFile
    <3>2. /\ site' \in Seq(Sites) /\ Len(site') \in Ids /\ Made \subseteq Made'
          /\ widget' \in Made'
          /\ upsets' \subseteq upsets \union {"strayed", "outran"}
          /\ chosen' \in AnyTime /\ seen' \subseteq Times
          /\ refresh' \in [Ids -> Products \union {NoProduct}]
          /\ view' \in [manager : Made', product : Products, time : AnyTime,
                        sweep : Pictures]
          /\ updates' \in Nat
          /\ widgetPool' \in Seq(Updates \union {InitJob})
          /\ sweeping' \in [Sweepers -> Sweeping']
      BY <2>1, <3>1, SelectRecordTyped
    <3>3. ControlTyped'
      <4>1. events' \in Seq(Signals')
        BY <1>1, <2>2, <3>2, MoreManagers, SeqMonotonic DEF ControlTyped
      <4> QED BY <1>1, <1>3, <3>1, <4>1 DEF ControlTyped, ticker
    <3>4. RecordsTyped'
      BY <1>1, <2>2, <3>1, <3>2 DEF RecordsTyped, servers, records
    <3>5. DisplayTyped'
      BY <1>1, <1>5, <3>1, <3>2, MoreManagers DEF DisplayTyped, ticker
    <3>6. GhostsTyped'
      BY <1>1, <3>1, <3>2 DEF GhostsTyped, Tolerated
    <3> QED BY <3>3, <3>4, <3>5, <3>6 DEF TypeOK
  <2>3. CASE /\ opening' = opening \union {f}
             /\ UNCHANGED <<servers, records, managers, pool, opened,
                            display, flags, widgetPool, events, gui, ticker, ghosts>>
    <3>1. site' = site
      BY <2>3 DEF managers
    <3>2. ControlTyped'
      BY <1>1, <1>3, <1>4, <2>3, <3>1 DEF ControlTyped, flags, ticker
    <3>3. RecordsTyped'
      BY <1>1, <2>3 DEF RecordsTyped, servers, records, managers
    <3>4. DisplayTyped'
      BY <1>1, <1>4, <1>5, <2>3, <3>1, DisplayQuiet DEF ticker
    <3> QED BY <1>1, <2>3, <3>2, <3>3, <3>4, GhostsQuiet DEF TypeOK
  <2> QED BY <1>9, <2>2, <2>3 DEF OpenFile
<1> QED BY <1>6, <1>7, <1>8, <1>9 DEF Step

(* Every step keeps the types. *)
LEMMA TypeNext == TypeOK /\ [Next]_vars => TypeOK'
<1> SUFFICES ASSUME TypeOK, [Next]_vars PROVE TypeOK'
  OBVIOUS
<1>1. CASE GuiStep
  BY <1>1, DeliverTyped, ReselectTyped, FinishTyped, SelectSiteTyped,
     CallsTyped DEF GuiStep
<1>2. CASE TimelineStep
  BY <1>2, TimelineTyped
<1>3. CASE SweepStep
  BY <1>3, StartTyped, PostLoadTyped, EndTyped DEF SweepStep
<1>4. CASE LoadStep
  BY <1>4, PoolTyped, LoadFileTyped DEF LoadStep
<1>5. CASE ServerStep
  BY <1>5, ServerTyped
<1>6. CASE Destruct
  BY <1>6, DestructTyped
<1>7. CASE UNCHANGED vars
  <2>1. RecordsTyped /\ DisplayTyped /\ ControlTyped /\ GhostsTyped
    BY DEF TypeOK
  <2>2. Made' = Made
    BY <1>7, SameManagers DEF vars, managers
  <2>3. dying' \subseteq [manager : Made', by : Threads, locked : BOOLEAN]
    BY <1>7, <2>1, <2>2 DEF vars, DisplayTyped
  <2> QED BY <1>7, <2>1, <2>3, RecordsQuiet, DisplayQuiet, ControlQuiet,
             GhostsQuiet DEF TypeOK, vars, managers, ticker
<1> QED BY <1>1, <1>2, <1>3, <1>4, <1>5, <1>6, <1>7 DEF Next

(* The variables of the display, its managers and the timeline always have *)
(* their types: the manager of the map and that of the view were made, and *)
(* what is queued, loaded and computed is what the code can queue, load    *)
(* and compute (map_widget.cpp, radar_product_manager.cpp).                *)
THEOREM DisplayTypeCorrect == Spec => []TypeOK
<1>1. Init => TypeOK
  BY TypeInit
<1>2. TypeOK /\ [Next]_vars => TypeOK'
  BY TypeNext
<1> QED BY <1>1, <1>2, PTL DEF Spec

-----------------------------------------------------------------------------
(* What keeps the map at what was selected last.                           *)

(* The sweeps under way whose view was not replaced. *)
Doing == {c \in Sweepers : sweeping[c].on /\ ~sweeping[c].old}

(* The records the last query asks for, and what the map is to show of     *)
(* them.                                                                   *)
Wanted  == Candidates(view.product, seen, chosen)
Picture == Shown(site[widget], view.product, file[widget][view.product],
                 Wanted, chosen)
Loaded  == \A k \in Wanted : file[widget][view.product][k] # NoFile

(* A view of level 3 has the time of the record found. *)
Found == view.product = Level2 \/ Wanted = {} \/ chosen \in Wanted

(* The records whose load is still to be told to the view. *)
Reloaded(k) == [kind |-> "reloaded", manager |-> widget,
                product |-> view.product, time |-> k]
Awaited == {k \in Wanted : \/ Reload(view.product, k) \in pool[widget]
                           \/ Reloaded(k) \in ToSet(events)}

(* The view is to compute a sweep again for what is selected: it was asked *)
(* to, or the timeline is to select a time for it.                         *)
Telling  == selecting # NotSelecting /\ ~selecting.told
ToSelect == /\ selecting = NotSelecting
            /\ \/ gui.on
               \/ timeline.site # timeline.previous /\ asks # <<>>
ToUpdate == updates > 0 \/ InitJob \in ToSet(widgetPool) \/ Telling \/ ToSelect

(* A sweep under way has the picture, unless a load is still to be told.   *)
Promising(w) ==
  /\ w.adjusted => Found
  /\ ~w.adjusted =>
       /\ view.product # Level2 /\ chosen = w.asked
       /\ w.found = IF Wanted = {} THEN chosen ELSE Max(Wanted)
  /\ Awaited = {} => Loaded /\ w.sweep = Picture

(* And so does the view once none is.                                      *)
Settled ==
  /\ Found
  /\ Awaited = {} => Loaded /\ (Picture # NoSweep => view.sweep = Picture)

(* The map and its view have the same manager, whose site the timeline was *)
(* given unless the switch has not ended, and the view the time selected.  *)
Aimed ==
  /\ view.manager = widget /\ chosen = view.time
  /\ ~gui.on <=> timeline.site = site[widget]

Sound ==
  upsets \subseteq Tolerated =>
    /\ Aimed
    /\ \/ ToUpdate
       \/ Doing # {} /\ \A c \in Doing : Promising(sweeping[c])
       \/ Doing = {} /\ Settled

(* A site has one living manager, and those being destroyed are not held. *)
OneEach == \A m, n \in Held : site[m] = site[n] => m = n
Gone    == \A d \in dying : d.manager \notin Held

(* A timeline that is live has selected for its site, and one sweep at     *)
(* most is under way for the view.                                         *)
LiveSelected == timeline.live => timeline.previous = timeline.site
OneSweeps    == \A c, d \in Doing : c = d

Steady == OneEach /\ Gone /\ LiveSelected /\ OneSweeps

(* The records asked for are some the query has seen. *)
LEMMA WantedFacts ==
  TypeOK => /\ Wanted \subseteq seen /\ Wanted \subseteq Times
            /\ seen # {} => Wanted # {}
<1> SUFFICES ASSUME TypeOK
             PROVE  /\ Wanted \subseteq seen /\ Wanted \subseteq Times
                    /\ seen # {} => Wanted # {}
  OBVIOUS
<1>1. /\ seen \in SUBSET Times /\ chosen \in AnyTime
      /\ view.product \in Products
  BY DEF TypeOK, DisplayTyped, GhostsTyped
<1>2. CASE seen = {}
  BY <1>2 DEF Wanted, Candidates
<1>3. CASE seen # {}
  <2>1. Wanted \subseteq seen
    BY <1>1, <1>3, CandidatesFacts DEF Wanted
  <2>2. Wanted # {}
    BY <1>1, <1>3, CandidatesFacts DEF Wanted
  <2> QED BY <1>1, <2>1, <2>2
<1> QED BY <1>2, <1>3

(* At first the view is to be initialized. *)
LEMMA SteadyInit == Init => Steady /\ Sound
<1> SUFFICES ASSUME Init PROVE Steady /\ Sound
  OBVIOUS
<1>1. /\ site = <<StartSite>> /\ widget = 1 /\ view.manager = 1
      /\ view.time = Latest /\ chosen = Latest /\ ~gui.on
      /\ timeline.site = StartSite /\ timeline.previous = StartSite
      /\ dying = {} /\ widgetPool = <<InitJob>> /\ selecting = NotSelecting
      /\ \A c \in Sweepers : ~sweeping[c].on
  BY DEF Init, Idle
<1>2. Held = {1} /\ Doing = {}
  BY <1>1 DEF Held, Doing
<1>3. Steady
  BY <1>1, <1>2 DEF Steady, OneEach, Gone, LiveSelected, OneSweeps
<1>4. ToUpdate
  BY <1>1 DEF ToUpdate, ToSet
<1>5. Sound
  BY <1>1, <1>4 DEF Sound, Aimed
<1> QED BY <1>3, <1>5

(* When nothing is left to be done, the map shows what was selected. *)
LEMMA SoundShows == TypeOK /\ Sound => ShowsSelection
<1> SUFFICES ASSUME TypeOK, Sound, Quiescent, upsets \subseteq Tolerated
             PROVE  LET p     == view.product
                        f     == file[widget][p]
                        shown == Shown(site[widget], p, f,
                                       Candidates(p, seen, chosen), chosen)
                    IN  /\ view.manager = widget
                        /\ shown # NoSweep => view.sweep = shown
                        /\ /\ p = Level2 /\ seen # {}
                           /\ \A k \in seen : f[k] \in {k, NoFile}
                           => shown.time =
                                ScanAmong(UNION {Scans[v] : v \in seen}, chosen)
  BY DEF ShowsSelection
<1>1. /\ updates = 0 /\ widgetPool = <<>> /\ selecting = NotSelecting
      /\ ~gui.on /\ asks = <<>> /\ events = <<>>
      /\ \A c \in Sweepers : ~sweeping[c].on
      /\ pool[widget] = {}
  BY DEF Quiescent, Held
<1>2. ~ToUpdate /\ Doing = {} /\ Awaited = {}
  BY <1>1 DEF ToUpdate, ToSelect, Telling, Doing, Awaited, ToSet
<1>3. /\ view.manager = widget /\ Loaded
      /\ Picture # NoSweep => view.sweep = Picture
  BY <1>2 DEF Sound, Settled, Aimed
<1>4. ASSUME view.product = Level2, seen # {},
             \A k \in seen : file[widget][view.product][k] \in {k, NoFile}
      PROVE  Picture.time = ScanAmong(UNION {Scans[v] : v \in seen}, chosen)
  <2> DEFINE f == file[widget][Level2]
  <2>1. seen \in SUBSET Times /\ chosen \in AnyTime
    BY DEF TypeOK, GhostsTyped
  <2>2. Wanted \subseteq seen /\ Wanted # {}
    BY <1>4, WantedFacts
  <2>3. \A k \in Wanted : f[k] = k
    BY <1>3, <1>4, <2>2 DEF Loaded
  <2>4. Min(Wanted) \in Wanted /\ Max(Wanted) \in Wanted
    BY <2>1, <2>2, TimeFacts
  <2>5. Picture.time = LaterScan(ScanOf(Min(Wanted), chosen),
                                 ScanOf(Max(Wanted), chosen), chosen)
    BY <1>4, <2>2, <2>3, <2>4 DEF Picture, Shown
  <2> QED BY <1>4, <2>1, <2>5, ScanOfAll DEF Wanted
<1> QED BY <1>3, <1>4 DEF Picture, Wanted

(* A step that leaves alone the selection, the sweeps and the volumes      *)
(* behind records, and loses no update and no completion, keeps the map    *)
(* sound.                                                                  *)
LEMMA SoundKept ==
  ASSUME TypeOK, Sound,
         UNCHANGED <<view, widget, site, seen, chosen, sweeping>>,
         upsets \subseteq upsets',
         \A k \in Times : file[widget][view.product][k] # NoFile =>
            file'[widget][view.product][k] = file[widget][view.product][k],
         Awaited \subseteq Awaited',
         upsets' \subseteq Tolerated => (ToUpdate => ToUpdate'),
         upsets' \subseteq Tolerated =>
           (~gui'.on <=> timeline'.site = site[widget])
  PROVE  Sound'
<1> SUFFICES ASSUME upsets' \subseteq Tolerated,
                    ~ToUpdate'
             PROVE  /\ view.manager = widget /\ chosen = view.time
                    /\ \/ Doing # {} /\ \A c \in Doing : Promising(sweeping[c])'
                       \/ Doing = {} /\ Settled'
  <2>1. Doing' = Doing
    BY DEF Doing
  <2> QED BY <2>1 DEF Sound, Aimed
<1>1. /\ view.manager = widget /\ chosen = view.time
      /\ \/ Doing # {} /\ \A c \in Doing : Promising(sweeping[c])
         \/ Doing = {} /\ Settled
  BY DEF Sound, Aimed
<1>2. Wanted' = Wanted /\ Found' = Found
  BY DEF Wanted, Found
<1>3. ASSUME Loaded PROVE Loaded' /\ Picture' = Picture
  <2>1. Wanted \subseteq Times
    BY WantedFacts
  <2>2. \A k \in Wanted :
          /\ file[widget][view.product][k] # NoFile
          /\ file'[widget][view.product][k] = file[widget][view.product][k]
    BY <1>3, <2>1 DEF Loaded
  <2>3. Loaded'
    BY <1>2, <2>2 DEF Loaded
  <2> DEFINE f == file[widget][view.product]
             g == file'[widget][view.product]
             C == Wanted
  <2>6. /\ Picture = Shown(site[widget], view.product, f, C, chosen)
        /\ Picture' = Shown(site[widget], view.product, g, C, chosen)
    BY <1>2 DEF Picture
  <2>7. C # {} => Min(C) \in C /\ Max(C) \in C
    BY <2>1, TimeFacts
  <2>8. \A k \in C : f[k] = g[k]
    BY <2>2
  <2> HIDE DEF f, g, C
  <2>4. CASE C = {}
    BY <2>3, <2>4, <2>6 DEF Shown
  <2>5. CASE C # {}
    BY <2>3, <2>5, <2>6, <2>7, <2>8 DEF Shown
  <2> QED BY <2>3, <2>4, <2>5
<1>4. ASSUME NEW c \in Doing, Promising(sweeping[c]) PROVE Promising(sweeping[c])'
  <2>1. Awaited' = {} => Loaded' /\ sweeping'[c].sweep = Picture'
    BY <1>3, <1>4 DEF Promising
  <2> QED BY <1>2, <1>4, <2>1 DEF Promising
<1>5. Settled => Settled'
  BY <1>2, <1>3 DEF Settled
<1> QED BY <1>1, <1>4, <1>5

(* A step that takes no manager but the one Instance() gives keeps one     *)
(* living manager of each site, and holds none that is being destroyed.    *)
LEMMA HeldStep ==
  ASSUME TypeOK, OneEach, Gone, NEW th,
         dying' = dying \union
           {[manager |-> m, by |-> th, locked |-> FALSE] : m \in Held \ Held'},
         \/ site' = site /\ Held' \subseteq Held
         \/ \E s \in Sites : /\ MayHave(s) /\ TakeInstance(s)
                             /\ Held' \subseteq Held \union {Instance(s)}
  PROVE  OneEach' /\ Gone'
<1>1. /\ DisplayTyped /\ Held \subseteq Made /\ Len(site) \in Nat
      /\ \A d \in dying : d.manager \in Made
  BY HeldMade DEF TypeOK, DisplayTyped
<1>2. \A d \in dying' : d \in dying \/ d.manager \in Held \ Held'
  OBVIOUS
<1>3. CASE site' = site /\ Held' \subseteq Held
  <2>1. OneEach'
    BY <1>3 DEF OneEach
  <2>2. Gone'
    BY <1>2, <1>3 DEF Gone
  <2> QED BY <2>1, <2>2
<1>4. ASSUME NEW s \in Sites, MayHave(s), TakeInstance(s),
             Held' \subseteq Held \union {Instance(s)}
      PROVE  OneEach' /\ Gone'
  <2> DEFINE i == Instance(s)
  <2>1. /\ site'[i] = s /\ \A m \in Held : site'[m] = site[m]
    BY <1>1, <1>4, InstanceFacts
  <2>2. Living(s) # {} => i \in Living(s)
    BY <1>1, <1>4, InstanceFacts
  <2>3. Living(s) = {} => i \notin Made
    BY <1>1 DEF Instance, Made
  <2>4. \A m \in Held : site[m] = s => m = i
    <3>1. CASE Living(s) = {}
      BY <3>1 DEF Living
    <3>2. CASE Living(s) # {}
      <4>1. i \in Held /\ site[i] = s
        BY <2>2, <3>2 DEF Living
      <4> QED BY <4>1 DEF OneEach
    <3> QED BY <3>1, <3>2
  <2> HIDE DEF i
  <2>5. Held' \subseteq Held \union {i}
    BY <1>4 DEF i
  <2>6. OneEach'
    <3> SUFFICES ASSUME NEW m \in Held', NEW n \in Held', site'[m] = site'[n]
                 PROVE  m = n
      BY DEF OneEach
    <3>1. (m \in Held \/ m = i) /\ (n \in Held \/ n = i)
      BY <2>5
    <3>2. CASE m \in Held /\ n \in Held
      BY <2>1, <3>2 DEF OneEach
    <3>3. CASE m = i /\ n \in Held
      BY <2>1, <2>4, <3>3
    <3>4. CASE m \in Held /\ n = i
      BY <2>1, <2>4, <3>4
    <3> QED BY <3>1, <3>2, <3>3, <3>4
  <2>7. Gone'
    <3> SUFFICES ASSUME NEW d \in dying', d.manager \in Held' PROVE FALSE
      BY DEF Gone
    <3>1. d \in dying /\ d.manager \notin Held /\ d.manager \in Made
      BY <1>1, <1>2 DEF Gone
    <3>2. d.manager = i
      BY <2>5, <3>1
    <3>3. i \in Held
      BY <2>2, <2>3, <3>1, <3>2 DEF Living
    <3> QED BY <3>1, <3>2, <3>3
  <2> QED BY <2>6, <2>7
<1> QED BY <1>3, <1>4

(* The manager the timeline's thread holds. *)
Taken == IF selecting = NotSelecting THEN {} ELSE {selecting.manager}

(* A step that takes no manager, starts no sweep and leaves the timeline   *)
(* live only where it has selected keeps this.                             *)
LEMMA SteadyKept ==
  ASSUME TypeOK, Steady, NEW th,
         dying' = dying \union
           {[manager |-> m, by |-> th, locked |-> FALSE] : m \in Held \ Held'},
         UNCHANGED <<site, widget, sweeping>>,
         view'.manager \in {view.manager, widget},
         Taken' \subseteq Taken, LiveSelected'
  PROVE  Steady'
<1>1. Held' \subseteq Held
  BY DEF Held, Taken
<1>2. OneEach' /\ Gone'
  BY <1>1, HeldStep DEF Steady
<1>3. OneSweeps'
  BY DEF Steady, OneSweeps, Doing
<1> QED BY <1>2, <1>3 DEF Steady

(* A manager is destroyed, which none holds. *)
LEMMA DestructSound ==
  TypeOK /\ Steady /\ Sound /\ Destruct => Steady' /\ Sound'
<1> SUFFICES ASSUME TypeOK, Steady, Sound, Destruct PROVE Steady' /\ Sound'
  OBVIOUS
<1>1. PICK d \in dying : LockLoads(d) \/ Join(d)
  BY DEF Destruct
<1>2. UNCHANGED <<published, site, loading, display, flags, widgetPool,
                  events, gui, ticker, inputs, ghosts>>
  BY DEF Destruct
<1>3. Held' = Held /\ Doing' = Doing
  BY <1>2 DEF Held, Doing, display, ticker
<1>4. \A e \in dying' : \E c \in dying : e.manager = c.manager
  <2>1. CASE LockLoads(d)
    <3>1. dying' = (dying \ {d}) \union {[d EXCEPT !.locked = TRUE]}
      BY <2>1 DEF LockLoads
    <3>2. [d EXCEPT !.locked = TRUE].manager = d.manager
      BY DEF TypeOK, DisplayTyped
    <3> QED BY <3>1, <3>2
  <2>2. CASE Join(d)
    BY <2>2 DEF Join
  <2> QED BY <1>1, <2>1, <2>2
<1>5. Steady'
  BY <1>2, <1>3, <1>4 DEF Steady, OneEach, Gone, LiveSelected, OneSweeps, ticker,
     display
<1>6. file'[widget] = file[widget]
  <2>1. d.manager # widget
    BY DEF Steady, Gone, Held
  <2>2. file \in [Ids -> [Products -> [Times -> Times \union {NoFile}]]]
    BY DEF TypeOK, RecordsTyped
  <2>3. widget \in Ids
    BY HeldMade, DisplayAssumption DEF TypeOK, DisplayTyped, Made, Ids
  <2> QED BY <1>1, <2>1, <2>2, <2>3 DEF LockLoads, Join, records
<1>7. Sound'
  <2>1. /\ UNCHANGED <<view, widget, site, seen, chosen, sweeping, upsets>>
        /\ UNCHANGED <<pool, events, updates, widgetPool, selecting, gui,
                       timeline, asks>>
    BY <1>2 DEF display, ghosts, ticker, loading
  <2>2. ToUpdate' = ToUpdate /\ Awaited' = Awaited
    BY <2>1 DEF ToUpdate, Telling, ToSelect, Awaited, Wanted, Reloaded
  <2>3. upsets' \subseteq Tolerated =>
          (~gui'.on <=> timeline'.site = site[widget])
    BY <2>1 DEF Sound, Aimed
  <2> QED BY <1>6, <2>1, <2>2, <2>3, SoundKept
<1> QED BY <1>5, <1>7

(* A sweep begins, with what is selected, and has its picture unless it    *)
(* has records loaded first.                                               *)
LEMMA StartSound ==
  TypeOK /\ Steady /\ Sound
    /\ (Step("view", StartUpdate) \/ Step("widget", StartInitialize))
    => Steady' /\ Sound'
<1> SUFFICES ASSUME TypeOK, Steady, Sound,
                    Step("view", StartUpdate) \/ Step("widget", StartInitialize)
             PROVE  Steady' /\ Sound'
  OBVIOUS
<1>1. PICK c \in Sweepers :
        /\ Sweep(c, view.manager) /\ ~sweeping[c].on
        /\ UNCHANGED <<published, file, managers, opening, opened, widget, view,
                       flags, events, gui, ticker, inputs, chosen, due, upsets>>
        /\ dying' = dying \union
             {[manager |-> n, by |-> c, locked |-> FALSE] : n \in Held \ Held'}
  BY DEF Step, StartUpdate, StartInitialize, Sweepers
<1> DEFINE m == view.manager
           t == view.time
           p == view.product
           K == Populated(m, p, t)
           C == Candidates(p, K, t)
           L == C \intersect IsLoaded(m, p)
           w == [on |-> TRUE, old |-> FALSE, manager |-> m, asked |-> t,
                 adjusted |-> p = Level2,
                 found |-> IF p = Level2 \/ C = {} THEN t ELSE Max(C),
                 sweep |-> Shown(site[m], p, file[m][p], L, t)]
<1>2. /\ Doing = {} /\ seen' = K
      /\ pool' = [pool EXCEPT ![m] = @ \union {Reload(p, k) : k \in C \ L}]
      /\ sweeping' = [sweeping EXCEPT ![c] = w]
  BY <1>1 DEF Sweep, Doing
<1> HIDE DEF w, K, C, L
<1>3. /\ sweeping'[c] = w /\ w.on /\ w.manager = m
      /\ \A d \in Sweepers : d # c => sweeping'[d] = sweeping[d]
  BY <1>2 DEF TypeOK, DisplayTyped, w
<1>4. Doing' \subseteq {c}
  BY <1>2, <1>3 DEF Doing
<1>5. Held' \subseteq Held
  BY <1>1, <1>3 DEF Held, ticker
<1>6. Steady'
  <2>1. OneEach' /\ Gone'
    BY <1>1, <1>5, HeldStep DEF Steady, managers
  <2>2. OneSweeps'
    BY <1>4 DEF OneSweeps
  <2>3. LiveSelected'
    BY <1>1 DEF Steady, LiveSelected, ticker
  <2> QED BY <2>1, <2>2, <2>3 DEF Steady
<1>9. PICK a : a = w
  OBVIOUS
<1>10. /\ a.on /\ ~a.old /\ a.asked = t /\ (a.adjusted <=> p = Level2)
       /\ a.found = IF p = Level2 \/ C = {} THEN t ELSE Max(C)
       /\ a.sweep = Shown(site[m], p, file[m][p], L, t)
  BY <1>9 DEF w
<1>7. ASSUME upsets' \subseteq Tolerated PROVE Promising(a)'
  <2>1. /\ view.manager = widget /\ chosen = t
        /\ UNCHANGED <<view, widget, site, file, chosen, events>>
    BY <1>1, <1>7 DEF Sound, Aimed, managers
  <2>2. Wanted' = C
    BY <1>2, <2>1 DEF Wanted, C
  <2>3. ASSUME Awaited' = {} PROVE Loaded' /\ a.sweep = Picture'
    <3>1. \A k \in C \ L : Reload(p, k) \in pool'[widget]
      <4>1. widget \in Ids /\ pool \in [Ids -> SUBSET Loads]
        BY HeldMade, DisplayAssumption
           DEF TypeOK, RecordsTyped, DisplayTyped, Made, Ids
      <4> QED BY <1>2, <2>1, <4>1
    <3>2. C \subseteq L
      BY <2>1, <2>2, <2>3, <3>1 DEF Awaited
    <3>3. L = C /\ \A k \in C : file[widget][p][k] # NoFile
      BY <2>1, <3>2 DEF L, IsLoaded
    <3>4. Loaded'
      BY <2>1, <2>2, <3>3 DEF Loaded
    <3>5. a.sweep = Shown(site[widget], p, file[widget][p], C, t)
      BY <1>10, <2>1, <3>3
    <3> QED BY <2>1, <2>2, <3>4, <3>5 DEF Picture
  <2>4. a.adjusted => Found'
    BY <1>10, <2>1 DEF Found
  <2>5. ~a.adjusted =>
          /\ view'.product # Level2 /\ chosen' = a.asked
          /\ a.found = IF Wanted' = {} THEN chosen' ELSE Max(Wanted')
    BY <1>10, <2>1, <2>2
  <2> QED BY <2>3, <2>4, <2>5 DEF Promising
<1>8. Sound'
  <2> SUFFICES ASSUME upsets' \subseteq Tolerated PROVE Sound'
    BY DEF Sound
  <2>1. c \in Doing'
    BY <1>3, <1>9, <1>10 DEF Doing
  <2>2. \A d \in Doing' : Promising(sweeping[d])'
    <3>1. Promising(sweeping[c])'
      <4>1. sweeping'[c] = a
        BY <1>3, <1>9
      <4> QED BY <1>7, <4>1 DEF Promising
    <3> QED BY <1>4, <3>1
  <2>3. /\ view'.manager = widget' /\ chosen' = view'.time
        /\ ~gui'.on <=> timeline'.site = site'[widget']
    BY <1>1 DEF Sound, Aimed, ticker, managers
  <2> QED BY <2>1, <2>2, <2>3 DEF Sound, Aimed
<1> QED BY <1>6, <1>8

(* A view of level 3 takes over the time of its record, which asks for the *)
(* same record again.                                                      *)
LEMMA AdjustSound ==
  ASSUME TypeOK, Steady, Sound, NEW c \in Sweepers, Step(c, Adjust(c))
  PROVE  Steady' /\ Sound'
<1> DEFINE w == sweeping[c]
<1>1. /\ w.on /\ ~w.adjusted
      /\ sweeping' = [sweeping EXCEPT ![c].adjusted = TRUE]
      /\ \/ /\ w.old \/ w.found = w.asked
            /\ UNCHANGED <<view, chosen, upsets>>
         \/ /\ ~w.old /\ w.found # w.asked
            /\ view' = [view EXCEPT !.time = w.found]
            /\ IF view.time = w.asked
               THEN /\ chosen' = w.found
                    /\ upsets' = upsets \union
                         (IF seen = {} THEN {"overtaken"} ELSE {})
               ELSE upsets' = upsets \union {"raced"} /\ UNCHANGED chosen
      /\ UNCHANGED <<servers, records, managers, loading, widget, updates, flags,
                     widgetPool, events, gui, ticker, inputs, seen, due>>
      /\ dying' = dying \union
           {[manager |-> n, by |-> c, locked |-> FALSE] : n \in Held \ Held'}
  BY DEF Step, Adjust
<1>2. UNCHANGED <<file, pool, site, widget, updates, widgetPool, events, gui,
                  timeline, selecting, asks, seen>>
  BY <1>1 DEF records, loading, managers, ticker
<1>3. /\ view \in [manager : Made, product : Products, time : AnyTime,
                   sweep : Pictures]
      /\ sweeping \in [Sweepers -> Sweeping]
      /\ w \in [on : {TRUE}, old : BOOLEAN, manager : Made, asked : AnyTime,
                adjusted : BOOLEAN, found : AnyTime, sweep : Pictures]
  BY <1>1, SweepFields DEF TypeOK, DisplayTyped
<1>4. /\ view'.manager = view.manager /\ view'.product = view.product
      /\ view'.sweep = view.sweep
  BY <1>1, <1>3
<1>5. PICK a : a = [w EXCEPT !.adjusted = TRUE]
  OBVIOUS
<1>6. /\ sweeping'[c] = a /\ a.adjusted /\ a.on /\ a.manager = w.manager
      /\ a.old = w.old /\ a.sweep = w.sweep
      /\ \A d \in Sweepers : d # c => sweeping'[d] = sweeping[d]
  BY <1>1, <1>3, <1>5
<1> HIDE DEF w
<1>7. Doing' = Doing /\ Held' = Held /\ (c \in Doing <=> ~w.old)
  BY <1>1, <1>2, <1>4, <1>6 DEF Doing, Held, w
<1>8. Steady'
  <2>1. OneEach' /\ Gone'
    BY <1>1, <1>2, <1>7, HeldStep DEF Steady
  <2> QED BY <1>2, <1>7, <2>1 DEF Steady, LiveSelected, OneSweeps
<1>9. Sound'
  <2>1. SUFFICES ASSUME upsets' \subseteq Tolerated PROVE Sound'
    BY DEF Sound
  <2>2. upsets \subseteq Tolerated /\ Aimed /\ "raced" \notin upsets'
    BY <1>1, <2>1 DEF Sound, Tolerated
  <2>5. Aimed'
    BY <1>1, <1>2, <1>3, <1>4, <2>2 DEF Aimed, w
  <2>6. CASE ToUpdate
    BY <1>2, <2>5, <2>6 DEF Sound, ToUpdate, Telling, ToSelect
  <2>7. SUFFICES ASSUME ~ToUpdate
                 PROVE  \/ Doing' # {} /\ \A d \in Doing' : Promising(sweeping[d])'
                        \/ Doing' = {} /\ Settled'
    BY <2>5, <2>6 DEF Sound
  <2>8. \/ Doing # {} /\ \A d \in Doing : Promising(sweeping[d])
        \/ Doing = {} /\ Settled
    BY <2>2, <2>7 DEF Sound
  <2>3. CASE w.old
    <3>1. UNCHANGED <<view, chosen>> /\ c \notin Doing
      BY <1>1, <1>7, <2>3
    <3>2. /\ Awaited' = Awaited /\ Loaded' = Loaded /\ Picture' = Picture
          /\ Found' = Found /\ Wanted' = Wanted
      BY <1>2, <3>1
         DEF Awaited, Loaded, Picture, Found, Wanted, Reloaded
    <3>3. Settled' = Settled
      BY <3>1, <3>2 DEF Settled
    <3>4. ASSUME NEW d \in Doing, Promising(sweeping[d])
          PROVE  Promising(sweeping[d])'
      <4>1. sweeping'[d] = sweeping[d]
        BY <1>6, <3>1 DEF Doing
      <4> QED BY <3>1, <3>2, <3>4, <4>1 DEF Promising
    <3> QED BY <1>7, <2>8, <3>3, <3>4
  <2>4. CASE ~w.old
    <3>1. c \in Doing /\ Doing = {c}
      BY <1>7, <2>4 DEF Steady, OneSweeps
    <3>2. Promising(w)
      BY <2>8, <3>1 DEF w
    <3>3. /\ view.product # Level2 /\ chosen = w.asked
          /\ w.found = IF Wanted = {} THEN chosen ELSE Max(Wanted)
          /\ Awaited = {} => Loaded /\ w.sweep = Picture
      BY <1>1, <3>2 DEF Promising
    <3>4. /\ chosen' = w.found /\ view'.time = w.found
      BY <2>2, <2>5, <1>1, <1>3, <2>4, <3>3 DEF Aimed
    <3>5. seen \in SUBSET Times /\ chosen \in AnyTime
      BY DEF TypeOK, GhostsTyped
    <3>6. Wanted' = Wanted /\ (Wanted = {} \/ w.found \in Wanted)
      <4>1. CASE seen = {}
        BY <1>2, <1>4, <4>1 DEF Wanted, Candidates
      <4>2. CASE seen # {}
        <5> DEFINE p == view.product
        <5>4. p # Level2 /\ p \in Products
          BY <1>3, <3>3
        <5> HIDE DEF p
        <5>1. PICK k \in seen : /\ Candidates(p, seen, chosen) = {k}
                                /\ Candidates(p, seen, k) = {k}
          BY <3>5, <4>2, <5>4, CandidatesOne
        <5>2. Wanted = {k}
          BY <5>1 DEF Wanted, p
        <5>3. Max(Wanted) = k
          BY <3>5, <5>2, TimeFacts
        <5> QED BY <1>2, <1>4, <3>3, <3>4, <5>1, <5>2, <5>3 DEF Wanted, p
      <4> QED BY <4>1, <4>2
    <3>7. /\ Awaited' = Awaited /\ Loaded' = Loaded /\ Picture' = Picture
      <4>1. Awaited' = Awaited /\ Loaded' = Loaded
        BY <1>2, <1>4, <3>6 DEF Awaited, Loaded, Reloaded
      <4>2. Picture' = Picture
        BY <1>2, <1>4, <3>3, <3>6 DEF Picture, Shown
      <4> QED BY <4>1, <4>2
    <3>8. Found'
      BY <3>4, <3>6 DEF Found
    <3>9. Promising(a)'
      BY <1>6, <3>3, <3>7, <3>8 DEF Promising
    <3>10. Promising(sweeping[c])'
      BY <1>6, <3>9 DEF Promising
    <3> QED BY <1>7, <3>1, <3>10
  <2> QED BY <2>3, <2>4
<1> QED BY <1>8, <1>9

(* The view takes over the sweep that has been computed. *)
LEMMA EndSound ==
  ASSUME TypeOK, Steady, Sound, NEW c \in Sweepers, Step(c, EndSweep(c))
  PROVE  Steady' /\ Sound'
<1> DEFINE w == sweeping[c]
<1>1. /\ w.on /\ w.adjusted
      /\ sweeping' = [sweeping EXCEPT ![c] = Idle]
      /\ view' = IF w.old \/ w.sweep = NoSweep THEN view
                 ELSE [view EXCEPT !.sweep = w.sweep]
      /\ UNCHANGED <<servers, records, managers, loading, widget, updates, flags,
                     widgetPool, events, gui, ticker, inputs, ghosts>>
      /\ dying' = dying \union
           {[manager |-> n, by |-> c, locked |-> FALSE] : n \in Held \ Held'}
  BY DEF Step, EndSweep
<1>2. UNCHANGED <<file, pool, site, widget, updates, widgetPool, events, gui,
                  timeline, selecting, asks, seen, chosen, upsets>>
  BY <1>1 DEF records, loading, managers, ticker, ghosts
<1>3. /\ view'.manager = view.manager /\ view'.product = view.product
      /\ view'.time = view.time
      /\ view'.sweep = IF w.old \/ w.sweep = NoSweep THEN view.sweep ELSE w.sweep
  BY <1>1 DEF TypeOK, DisplayTyped
<1>4. /\ ~sweeping'[c].on
      /\ \A d \in Sweepers : d # c => sweeping'[d] = sweeping[d]
  BY <1>1 DEF TypeOK, DisplayTyped, Idle
<1> HIDE DEF w
<1>5. /\ Held' \subseteq Held /\ Doing' = Doing \ {c}
      /\ c \in Doing <=> ~w.old
  BY <1>1, <1>2, <1>3, <1>4 DEF Held, Doing, w
<1>6. Steady'
  <2>1. OneEach' /\ Gone'
    BY <1>1, <1>2, <1>5, HeldStep DEF Steady
  <2> QED BY <1>2, <1>5, <2>1 DEF Steady, LiveSelected, OneSweeps
<1>7. /\ Awaited' = Awaited /\ Loaded' = Loaded /\ Picture' = Picture
      /\ Found' = Found /\ Wanted' = Wanted /\ Aimed' = Aimed
      /\ ToUpdate' = ToUpdate
  BY <1>2, <1>3 DEF Awaited, Loaded, Picture, Found, Wanted, Reloaded, Aimed,
     ToUpdate, Telling, ToSelect
<1>8. Sound'
  <2> SUFFICES ASSUME upsets \subseteq Tolerated, ~ToUpdate
               PROVE  \/ Doing' # {} /\ \A d \in Doing' : Promising(sweeping[d])'
                      \/ Doing' = {} /\ Settled'
    BY <1>2, <1>7 DEF Sound
  <2>1. \/ Doing # {} /\ \A d \in Doing : Promising(sweeping[d])
        \/ Doing = {} /\ Settled
    BY DEF Sound
  <2>2. CASE w.old
    <3>1. Doing' = Doing /\ view'.sweep = view.sweep
      BY <1>3, <1>5, <2>2
    <3>2. Settled' = Settled
      BY <1>7, <3>1 DEF Settled
    <3>3. ASSUME NEW d \in Doing, Promising(sweeping[d])
          PROVE  Promising(sweeping[d])'
      <4>1. sweeping'[d] = sweeping[d]
        BY <1>4, <3>1 DEF Doing
      <4> QED BY <1>2, <1>3, <1>7, <3>3, <4>1 DEF Promising
    <3> QED BY <2>1, <3>1, <3>2, <3>3
  <2>3. CASE ~w.old
    <3>1. Doing = {c} /\ Doing' = {}
      BY <1>5, <2>3 DEF Steady, OneSweeps
    <3>2. Found /\ (Awaited = {} => Loaded /\ w.sweep = Picture)
      BY <1>1, <2>1, <3>1 DEF Promising, w
    <3>3. Settled'
      BY <1>3, <1>7, <2>3, <3>2 DEF Settled
    <3> QED BY <3>1, <3>3
  <2> QED BY <2>2, <2>3
<1> QED BY <1>6, <1>8

(* What is stored first stays. *)
LEMMA StoreKeeps ==
  ASSUME TypeOK, NEW s \in Sites, NEW p, NEW t, NEW v, Store(s, p, t, v)
  PROVE  \A k \in Times : file[widget][view.product][k] # NoFile =>
            file'[widget][view.product][k] = file[widget][view.product][k]
<1> SUFFICES ASSUME NEW k \in Times, file[widget][view.product][k] # NoFile
             PROVE  file'[widget][view.product][k] = file[widget][view.product][k]
  OBVIOUS
<1>1. CASE Living(s) = {}
  BY <1>1 DEF Store, records
<1>2. CASE Living(s) # {}
  <2> DEFINE i == Instance(s)
  <2>1. file' = [file EXCEPT ![i][p][t] = IF @ = NoFile THEN v ELSE @]
    BY <1>2 DEF Store
  <2> HIDE DEF i
  <2>2. file \in [Ids -> [Products -> [Times -> Times \union {NoFile}]]]
    BY DEF TypeOK, RecordsTyped
  <2>3. widget \in Ids /\ view.product \in Products
    BY HeldMade, DisplayAssumption DEF TypeOK, DisplayTyped, Made, Ids
  <2> QED BY <2>1, <2>2, <2>3
<1> QED BY <1>1, <1>2

(* The pool and the queue of the GUI thread lose no load still to be told. *)
LEMMA AwaitedKept ==
  ASSUME UNCHANGED <<widget, view, seen, chosen>>,
         \A k \in Wanted : Reload(view.product, k) \in pool[widget] =>
           Reload(view.product, k) \in pool'[widget] \/ Reloaded(k) \in ToSet(events'),
         \A k \in Wanted : Reloaded(k) \in ToSet(events) => Reloaded(k) \in ToSet(events')
  PROVE  Awaited \subseteq Awaited'
BY DEF Awaited, Wanted, Reloaded

(* A load that ends tells the view of what was reloaded; a record that is  *)
(* loaded keeps its volume.                                                *)
LEMMA LoadSound ==
  TypeOK /\ Steady /\ Sound /\ LoadStep => Steady' /\ Sound'
<1> SUFFICES ASSUME TypeOK, Steady, Sound, LoadStep PROVE Steady' /\ Sound'
  OBVIOUS
<1>1. /\ UNCHANGED <<servers, managers, display, flags, widgetPool, gui,
                     ticker, inputs, chosen, seen, due>>
      /\ dying' = dying \union
           {[manager |-> n, by |-> "load", locked |-> FALSE] : n \in Held \ Held'}
  BY DEF LoadStep, Step, RunLoad, LoadFails, LoadFile, ghosts
<1>2. UNCHANGED <<site, widget, view, updates, sweeping, timeline, asks,
                  selecting>>
  BY <1>1 DEF managers, display, ticker
<1>3. Steady'
  <2>1. LiveSelected'
    BY <1>2 DEF Steady, LiveSelected
  <2> QED BY <1>1, <1>2, <2>1, SteadyKept DEF Taken
<1>4. /\ events \in Seq(Signals) /\ pool \in [Ids -> SUBSET Loads]
      /\ site \in Seq(Sites) /\ widget \in Ids /\ widget \in Made /\ Made \subseteq Ids
      /\ \A m \in Made : site[m] \in Sites
  <2>1. site \in Seq(Sites) /\ Len(site) \in Ids /\ Len(site) \in Nat
    BY DisplayAssumption DEF TypeOK, DisplayTyped, Ids
  <2>2. Made \subseteq Ids /\ \A m \in Made : site[m] \in Sites
    BY <2>1, DisplayAssumption DEF Made, Ids
  <2> QED BY <2>1, <2>2 DEF TypeOK, RecordsTyped, DisplayTyped, ControlTyped
<1>5. ASSUME upsets \subseteq upsets',
             \A k \in Times : file[widget][view.product][k] # NoFile =>
                file'[widget][view.product][k] = file[widget][view.product][k],
             Awaited \subseteq Awaited'
      PROVE  Sound'
  <2>1. ToUpdate' = ToUpdate
    BY <1>1, <1>2 DEF ToUpdate, Telling, ToSelect
  <2>2. upsets' \subseteq Tolerated =>
          (~gui'.on <=> timeline'.site = site[widget])
    BY <1>1, <1>2, <1>5 DEF Sound, Aimed
  <2> QED BY <1>1, <1>2, <1>5, <2>1, <2>2, SoundKept
<1>6. ASSUME NEW m \in Made, RunLoad(m) PROVE Sound'
  <2>1. PICK l \in pool[m] :
          /\ pool' = [pool EXCEPT ![m] = @ \ {l}]
          /\ \E v : Store(site[m], l.product, l.time, v)
          /\ events' = events \o Reply(m, l)
          /\ upsets \subseteq upsets'
    BY <1>6 DEF RunLoad
  <2>2. l \in Loads /\ Reply(m, l) \in Seq(Signals)
    <3>1. l \in Loads
      BY <1>4
    <3> QED BY <1>4, <3>1, ReplyTyped
  <2>3. /\ ToSet(events) \subseteq ToSet(events')
        /\ ToSet(Reply(m, l)) \subseteq ToSet(events')
    BY <1>4, <2>1, <2>2, ConcatToSet
  <2>4. ASSUME NEW k \in Wanted, Reload(view.product, k) \in pool[widget]
        PROVE  \/ Reload(view.product, k) \in pool'[widget]
               \/ Reloaded(k) \in ToSet(events')
    <3>1. CASE m = widget /\ l = Reload(view.product, k)
      <4>1. Reply(m, l) = <<Reloaded(k)>>
        BY <3>1 DEF Reply, Reload, Reloaded
      <4>2. Reloaded(k) \in ToSet(Reply(m, l))
        BY <4>1 DEF ToSet
      <4> QED BY <2>3, <4>2
    <3>2. CASE ~(m = widget /\ l = Reload(view.product, k))
      BY <1>4, <2>1, <2>4, <3>2
    <3> QED BY <3>1, <3>2
  <2>5. Awaited \subseteq Awaited'
    BY <1>1, <1>2, <2>3, <2>4, AwaitedKept
  <2> QED BY <1>4, <1>5, <1>6, <2>1, <2>5, StoreKeeps
<1>7. ASSUME NEW m \in Made, LoadFails(m) PROVE Sound'
  BY <1>7 DEF LoadFails, Sound, Tolerated
<1>8. ASSUME NEW f \in Files, LoadFile(f) PROVE Sound'
  <2>1. /\ Store(f.site, f.product, f.time, f.time) /\ f.site \in Sites
        /\ events' = Append(events, [kind |-> "opened", file |-> f])
        /\ UNCHANGED <<pool, ghosts>>
    BY <1>8, DisplayAssumption DEF LoadFile, Volumes
  <2>2. ToSet(events) \subseteq ToSet(events')
    <3>1. [kind |-> "opened", file |-> f] \in Signals
      BY DEF Signals
    <3> QED BY <1>4, <2>1, <3>1, AppendToSet
  <2>3. Awaited \subseteq Awaited'
    BY <1>1, <1>2, <2>1, <2>2, AwaitedKept
  <2> QED BY <1>5, <2>1, <2>3, StoreKeeps DEF ghosts
<1>9. Sound'
  BY <1>6, <1>7, <1>8 DEF LoadStep, Step
<1> QED BY <1>3, <1>9

(* The loads of a volume announced are put into the pool, and a job that   *)
(* initializes the view stays.                                             *)
LEMMA PostLoadSound ==
  TypeOK /\ Steady /\ Sound /\ Step("widget", PostLoad) => Steady' /\ Sound'
<1> SUFFICES ASSUME TypeOK, Steady, Sound, Step("widget", PostLoad)
             PROVE  Steady' /\ Sound'
  OBVIOUS
<1>1. /\ widgetPool # <<>> /\ Head(widgetPool) # InitJob
      /\ widgetPool' = Tail(widgetPool)
      /\ \/ pool' = [pool EXCEPT ![widget] = @ \union {Head(widgetPool)}]
         \/ pool' = pool
      /\ UNCHANGED <<servers, records, managers, opening, opened, display,
                     flags, events, gui, ticker, inputs, ghosts>>
      /\ dying' = dying \union
           {[manager |-> n, by |-> "widget", locked |-> FALSE] : n \in Held \ Held'}
  BY DEF Step, PostLoad
<1>2. UNCHANGED <<site, widget, view, updates, sweeping, timeline, asks,
                  selecting, gui, events, file, seen, chosen, upsets>>
  BY <1>1 DEF managers, display, ticker, records, ghosts
<1>3. Steady'
  <2>1. LiveSelected'
    BY <1>2 DEF Steady, LiveSelected
  <2> QED BY <1>1, <1>2, <2>1, SteadyKept DEF Taken
<1>4. /\ pool \in [Ids -> SUBSET Loads] /\ widget \in Ids
      /\ widgetPool \in Seq(Updates \union {InitJob})
  BY HeldMade, DisplayAssumption DEF TypeOK, RecordsTyped, DisplayTyped, Made, Ids
<1>5. InitJob \in ToSet(widgetPool) <=> InitJob \in ToSet(widgetPool')
  BY <1>1, <1>4, HeadTailToSet
<1>6. pool[widget] \subseteq pool'[widget]
  BY <1>1, <1>4
<1>7. Awaited \subseteq Awaited'
  BY <1>2, <1>6, AwaitedKept
<1>8. ToUpdate' = ToUpdate
  BY <1>2, <1>5 DEF ToUpdate, Telling, ToSelect
<1>9. upsets' \subseteq Tolerated =>
        (~gui'.on <=> timeline'.site = site[widget])
  BY <1>2 DEF Sound, Aimed
<1>10. Sound'
  BY <1>2, <1>7, <1>8, <1>9, SoundKept
<1> QED BY <1>3, <1>10

(* Uploads and announcements. *)
LEMMA ServerSound ==
  TypeOK /\ Steady /\ Sound /\ ServerStep => Steady' /\ Sound'
<1> SUFFICES ASSUME TypeOK, Steady, Sound, ServerStep PROVE Steady' /\ Sound'
  OBVIOUS
<1>1. /\ UNCHANGED <<records, managers, loading, display, flags, widgetPool,
                     gui, ticker, ghosts>>
      /\ \/ UNCHANGED events
         \/ \E x : events' = Append(events, x)
      /\ dying' = dying \union
           {[manager |-> n, by |-> "server", locked |-> FALSE] : n \in Held \ Held'}
  BY DEF ServerStep, Step, Publish, RefreshDataSync
<1>2. UNCHANGED <<site, widget, view, updates, sweeping, timeline, asks, pool,
                  selecting, gui, file, seen, chosen, upsets>>
  BY <1>1 DEF managers, display, ticker, records, ghosts, loading
<1>3. Steady'
  <2>1. LiveSelected'
    BY <1>2 DEF Steady, LiveSelected
  <2> QED BY <1>1, <1>2, <2>1, SteadyKept DEF Taken
<1>4. ToSet(events) \subseteq ToSet(events')
  BY <1>1, AppendGains DEF TypeOK, ControlTyped
<1>5. Awaited \subseteq Awaited'
  BY <1>2, <1>4, AwaitedKept
<1>6. ToUpdate' = ToUpdate
  BY <1>1, <1>2 DEF ToUpdate, Telling, ToSelect
<1>7. upsets' \subseteq Tolerated =>
        (~gui'.on <=> timeline'.site = site[widget])
  BY <1>2 DEF Sound, Aimed
<1>8. Sound'
  BY <1>2, <1>5, <1>6, <1>7, SoundKept
<1> QED BY <1>3, <1>8

(* What a live selection does to the selection: nothing if it is there     *)
(* already, or else the view is to compute a sweep of the latest volume.   *)
LEMMA SelectLiveSound ==
  ASSUME TypeOK, NEW s \in Sites, NEW live, SelectLive(s, live)
  PROVE  /\ timeline'.site = s /\ timeline'.previous = s
         /\ upsets \subseteq upsets'
         /\ upsets' \subseteq Tolerated => selecting = NotSelecting
         /\ \/ /\ UNCHANGED <<view, updates, chosen, seen>> /\ timeline.previous = s
            \/ /\ updates' > 0 /\ view'.manager = view.manager
               /\ chosen' = view'.time
<1>1. updates \in Nat
      /\ view \in [manager : Made, product : Products, time : AnyTime,
                   sweep : Pictures]
  BY DEF TypeOK, DisplayTyped
<1>2. \/ /\ UNCHANGED <<view, updates, chosen, seen>> /\ timeline.previous = s
      \/ /\ view' = [view EXCEPT !.time = Latest] /\ updates' = updates + 1
         /\ chosen' = Latest
  BY DEF SelectLive, SelectTime
<1>3. /\ timeline'.site = s /\ timeline'.previous = s
      /\ upsets' = upsets \union Crossing
  BY DEF SelectLive
<1>4. upsets' \subseteq Tolerated => selecting = NotSelecting
  BY <1>3 DEF Crossing, Tolerated
<1> QED BY <1>1, <1>2, <1>3, <1>4

(* The view is to compute a sweep of what is selected. *)
LEMMA SoundUpdate ==
  ASSUME upsets' \subseteq Tolerated => Aimed' /\ ToUpdate'
  PROVE  Sound'
BY DEF Sound

(* The timeline's thread selects a time. *)
LEMMA TimelineSound ==
  TypeOK /\ Steady /\ Sound /\ TimelineStep => Steady' /\ Sound'
<1> SUFFICES ASSUME TypeOK, Steady, Sound, TimelineStep PROVE Steady' /\ Sound'
  OBVIOUS
<1>1. /\ StartSelect \/ TellMap \/ EndSelect
      /\ UNCHANGED <<records, refresh, loading, widget, sweeping,
                     widgetPool, events, gui, inputs>>
      /\ dying' = dying \union
           {[manager |-> n, by |-> "timeline", locked |-> FALSE] :
              n \in Held \ Held'}
  BY DEF TimelineStep, Step, StartSelect, TellMap, EndSelect, display, flags,
     ghosts, servers, managers
<1>2. UNCHANGED <<widget, sweeping, pool, gui, file, events, widgetPool>>
  BY <1>1 DEF records, loading
<1>3. /\ updates \in Nat
      /\ timeline \in [site : Sites, previous : Sites, live : BOOLEAN,
                       time : AnyTime]
      /\ view \in [manager : Made, product : Products, time : AnyTime,
                   sweep : Pictures]
      /\ selecting \in Selecting
  BY DEF TypeOK, DisplayTyped, ControlTyped
<1>4. ASSUME view'.manager \in {view.manager, widget}, LiveSelected',
             UNCHANGED site, Taken' \subseteq Taken
      PROVE  Steady'
  BY <1>1, <1>2, <1>4, SteadyKept
<1>5. ASSUME UNCHANGED <<site, view, chosen, seen, updates>>, upsets \subseteq upsets',
             timeline'.site = timeline.site,
             upsets' \subseteq Tolerated => (ToUpdate => ToUpdate')
      PROVE  Sound'
  <2>1. Awaited \subseteq Awaited'
    BY <1>2, <1>5, AwaitedKept
  <2>2. upsets' \subseteq Tolerated =>
          (~gui'.on <=> timeline'.site = site[widget])
    BY <1>2, <1>5 DEF Sound, Aimed
  <2> QED BY <1>2, <1>5, <2>1, <2>2, SoundKept
<1>6. CASE StartSelect
  <2>1. CASE /\ Head(asks) # Latest /\ ~Current(Head(asks))
             /\ MayHave(timeline.site) /\ TakeInstance(timeline.site)
             /\ selecting' = [time |-> Head(asks), told |-> FALSE,
                              manager |-> Instance(timeline.site)]
             /\ UNCHANGED <<timeline, view, updates, chosen, seen, upsets>>
    <3> DEFINE s == timeline.site
    <3>1. LiveSelected'
      BY <2>1 DEF Steady, LiveSelected
    <3>2. Telling'
      <4>1. selecting' # NotSelecting
        <5>1. "told" \in DOMAIN selecting'
          BY <2>1
        <5>2. "told" \notin DOMAIN NotSelecting
          BY DEF NotSelecting
        <5> QED BY <5>1, <5>2
      <4> QED BY <2>1, <4>1 DEF Telling
    <3>4. s \in Sites
      BY <1>3
    <3>5. site'[widget] = site[widget]
      <4>1. \A m \in Made : site'[m] = site[m]
        BY <2>1, <3>4, InstanceFacts DEF TypeOK
      <4> QED BY <4>1 DEF TypeOK, DisplayTyped
    <3>3. upsets' \subseteq Tolerated => Aimed'
      BY <1>2, <2>1, <3>5 DEF Sound, Aimed
    <3>6. selecting'.manager = Instance(s)
      BY <2>1
    <3>7. Held' \subseteq Held \union {Instance(s)}
      BY <1>2, <2>1, <3>6 DEF Held
    <3>8. OneEach' /\ Gone'
      BY <1>1, <2>1, <3>4, <3>7, HeldStep DEF Steady
    <3>9. Steady'
      BY <1>2, <3>1, <3>8 DEF Steady, OneSweeps, Doing
    <3> QED BY <3>2, <3>3, <3>9, SoundUpdate DEF ToUpdate
  <2>2. CASE /\ Current(Head(asks))
             /\ UNCHANGED <<site, selecting, timeline, view, updates, ghosts>>
    <3>1. LiveSelected'
      BY <2>2 DEF Steady, LiveSelected
    <3>2. timeline.site = timeline.previous
      BY <2>2 DEF Current
    <3>3. ToUpdate => ToUpdate'
      BY <1>2, <2>2, <3>2 DEF ToUpdate, Telling, ToSelect
    <3> QED BY <1>4, <1>5, <2>2, <3>1, <3>3 DEF ghosts, Taken
  <2>3. CASE /\ SelectLive(timeline.site, timeline.live)
             /\ selecting = NotSelecting /\ UNCHANGED <<site, selecting>>
    <3>1. /\ timeline'.site = timeline.site /\ timeline'.previous = timeline.site
          /\ upsets \subseteq upsets'
          /\ \/ /\ UNCHANGED <<view, updates, chosen, seen>>
                /\ timeline.previous = timeline.site
             \/ /\ updates' > 0 /\ view'.manager = view.manager
                /\ chosen' = view'.time
      <4>1. timeline.site \in Sites
        BY <1>3
      <4> QED BY <2>3, <4>1, SelectLiveSound
    <3>2. LiveSelected'
      BY <3>1 DEF LiveSelected
    <3>3. CASE /\ UNCHANGED <<view, updates, chosen, seen>>
               /\ timeline.previous = timeline.site
      <4>1. ToUpdate => ToUpdate'
        BY <1>2, <2>3, <3>3 DEF ToUpdate, Telling, ToSelect
      <4> QED BY <1>4, <1>5, <2>3, <3>1, <3>2, <3>3, <4>1 DEF Taken
    <3>4. CASE /\ updates' > 0 /\ view'.manager = view.manager
               /\ chosen' = view'.time
      <4>1. upsets' \subseteq Tolerated => Aimed'
        BY <1>2, <2>3, <3>1, <3>4 DEF Sound, Aimed
      <4>2. Steady'
        BY <1>4, <2>3, <3>2, <3>4 DEF Taken
      <4> QED BY <3>4, <4>1, <4>2, SoundUpdate DEF ToUpdate
    <3> QED BY <3>1, <3>3, <3>4
  <2> QED BY <1>6, <2>1, <2>2, <2>3 DEF StartSelect
<1>7. CASE TellMap
  <2>1. /\ timeline' = [timeline EXCEPT !.time = selecting.time]
        /\ view' = [view EXCEPT !.time = selecting.time]
        /\ updates' = updates + 1 /\ chosen' = selecting.time
        /\ selecting # NotSelecting
        /\ selecting' = [selecting EXCEPT !.told = TRUE]
        /\ UNCHANGED <<site, upsets>>
    BY <1>7 DEF TellMap, SelectTime, managers
  <2>2. /\ timeline'.site = timeline.site /\ timeline'.previous = timeline.previous
        /\ timeline'.live = timeline.live
        /\ view'.manager = view.manager /\ view'.time = chosen'
        /\ updates' > 0
    BY <1>3, <2>1
  <2>3. LiveSelected'
    BY <2>2 DEF Steady, LiveSelected
  <2>4. upsets' \subseteq Tolerated => Aimed'
    BY <1>2, <2>1, <2>2 DEF Sound, Aimed
  <2>5. Taken' \subseteq Taken
    <3>1. selecting \in [time : AnyTime, told : BOOLEAN, manager : Made]
      BY <1>3, <2>1 DEF Selecting
    <3>2. selecting'.manager = selecting.manager
      BY <2>1, <3>1
    <3> QED BY <2>1, <3>2 DEF Taken
  <2>6. Steady'
    BY <1>4, <2>1, <2>2, <2>3, <2>5
  <2> QED BY <2>2, <2>4, <2>6, SoundUpdate DEF ToUpdate
<1>8. CASE EndSelect
  <2>1. /\ selecting # NotSelecting /\ selecting.told
        /\ selecting' = NotSelecting
        /\ timeline' = [timeline EXCEPT !.previous = timeline.site]
        /\ UNCHANGED <<site, view, updates, chosen, seen, upsets>>
    BY <1>8 DEF EndSelect, display, ghosts, managers
  <2>2. timeline'.site = timeline.site /\ timeline'.previous = timeline.site
    BY <1>3, <2>1
  <2>3. LiveSelected'
    BY <2>2 DEF LiveSelected
  <2>4. ToUpdate => ToUpdate'
    BY <1>2, <2>1 DEF ToUpdate, Telling, ToSelect
  <2> QED BY <1>4, <1>5, <2>1, <2>2, <2>3, <2>4 DEF Taken
<1> QED BY <1>1, <1>6, <1>7, <1>8

(* A selection asks the view for a sweep, or for its first one; and a      *)
(* sweep under way ends for the same manager.                              *)
LEMMA SelectAsks ==
  ASSUME TypeOK, NEW m, NEW p, NEW t, NEW on, Select(m, p, t, TRUE, on),
         UNCHANGED selecting
  PROVE  /\ chosen' = t /\ view'.time = t
         /\ updates' > 0 \/ InitJob \in ToSet(widgetPool')
         /\ view'.manager \in {view.manager, m}
         /\ Doing' \subseteq Doing
         /\ Held' \subseteq Held \union {widget', view'.manager}
<1>1. /\ updates \in Nat /\ widgetPool \in Seq(Updates \union {InitJob})
      /\ view \in [manager : Made, product : Products, time : AnyTime,
                   sweep : Pictures]
      /\ \A c \in Sweepers : sweeping[c].on =>
           sweeping[c] \in [on : {TRUE}, old : BOOLEAN, manager : Made,
                            asked : AnyTime, adjusted : BOOLEAN,
                            found : AnyTime, sweep : Pictures]
      /\ sweeping \in [Sweepers -> Sweeping]
  BY SweepFields DEF TypeOK, DisplayTyped
<1>2. CASE /\ p = view.product /\ view' = [view EXCEPT !.time = t]
           /\ updates' = updates + 1 /\ UNCHANGED <<sweeping, widgetPool>>
  <2>1. view'.time = t /\ view'.manager = view.manager /\ updates' > 0
    BY <1>1, <1>2
  <2>2. Doing' = Doing
    BY <1>2 DEF Doing
  <2>3. Held' \subseteq Held \union {widget', view'.manager}
    BY <1>2 DEF Held
  <2> QED BY <1>2, <2>1, <2>2, <2>3 DEF Select
<1>3. CASE /\ p # view.product
           /\ view' = [manager |-> m, product |-> p, time |-> t, sweep |-> NoSweep]
           /\ widgetPool' = Append(widgetPool, InitJob)
           /\ sweeping' = IF sweeping["widget"].on
                          THEN [sweeping EXCEPT !["widget"].old = TRUE]
                          ELSE sweeping
  <2>1. /\ view'.time = t /\ view'.manager = m
        /\ InitJob \in ToSet(widgetPool')
    BY <1>1, <1>3, AppendGains
  <2>2. \A c \in Sweepers : /\ sweeping'[c].on = sweeping[c].on
                            /\ sweeping[c].on =>
                                 /\ sweeping'[c].manager = sweeping[c].manager
                                 /\ sweeping[c].old => sweeping'[c].old
    <3>1. CASE sweeping' = sweeping
      BY <3>1
    <3>2. CASE /\ sweeping["widget"].on
               /\ sweeping' = [sweeping EXCEPT !["widget"].old = TRUE]
      <4>1. sweeping["widget"] \in [on : {TRUE}, old : BOOLEAN, manager : Made,
                            asked : AnyTime, adjusted : BOOLEAN,
                            found : AnyTime, sweep : Pictures]
        BY <1>1, <3>2 DEF Sweepers
      <4>2. /\ sweeping'["widget"] = [sweeping["widget"] EXCEPT !.old = TRUE]
            /\ \A c \in Sweepers : c # "widget" => sweeping'[c] = sweeping[c]
        BY <1>1, <3>2 DEF Sweepers
      <4>3. /\ sweeping'["widget"].on /\ sweeping'["widget"].old
            /\ sweeping'["widget"].manager = sweeping["widget"].manager
        BY <4>1, <4>2
      <4> QED BY <3>2, <4>1, <4>2, <4>3
    <3> QED BY <1>3, <3>1, <3>2
  <2>3. Doing' \subseteq Doing
    BY <2>2 DEF Doing
  <2>4. Held' \subseteq Held \union {widget', view'.manager}
    BY <2>2 DEF Held
  <2> QED BY <1>3, <2>1, <2>3, <2>4 DEF Select
<1> QED BY <1>2, <1>3 DEF Select

(* So a selection keeps the map steady, and its view asked for a sweep.    *)
LEMMA SelectSound ==
  ASSUME TypeOK, Steady, Sound, NEW th, NEW p, NEW t, NEW on,
         Select(widget, p, t, TRUE, on),
         dying' = dying \union
           {[manager |-> n, by |-> th, locked |-> FALSE] : n \in Held \ Held'},
         UNCHANGED <<site, widget, timeline, gui, selecting>>,
         upsets \subseteq upsets'
  PROVE  Steady' /\ Sound'
<1>1. /\ chosen' = t /\ view'.time = t
      /\ updates' > 0 \/ InitJob \in ToSet(widgetPool')
      /\ view'.manager \in {view.manager, widget}
      /\ Doing' \subseteq Doing
      /\ Held' \subseteq Held \union {widget', view'.manager}
  BY SelectAsks
<1>2. Held' \subseteq Held
  BY <1>1 DEF Held
<1>3. OneEach' /\ Gone'
  BY <1>2, HeldStep DEF Steady
<1>4. Steady'
  BY <1>1, <1>3 DEF Steady, OneSweeps, LiveSelected
<1>5. upsets' \subseteq Tolerated => Aimed'
  BY <1>1 DEF Sound, Aimed
<1> QED BY <1>1, <1>4, <1>5, SoundUpdate DEF ToUpdate

(* And one of a record, whose site is that of the map unless it strays.    *)
LEMMA SelectRecordSound ==
  ASSUME TypeOK, Steady, Sound, NEW th, NEW s \in Sites, NEW p, NEW t, NEW on,
         SelectRecord(s, p, t, on),
         dying' = dying \union
           {[manager |-> n, by |-> th, locked |-> FALSE] : n \in Held \ Held'},
         UNCHANGED <<timeline, gui, selecting>>
  PROVE  Steady' /\ Sound'
<1>1. /\ MayHave(s) /\ TakeInstance(s) /\ widget' = Instance(s)
      /\ upsets' = upsets \union (IF s # site[widget] THEN {"strayed"} ELSE {})
                    \union (IF p # Level2 /\ t < view.time THEN {"outran"} ELSE {})
      /\ Select(Instance(s), p, t, TRUE, on)
  BY DEF SelectRecord
<1>2. /\ chosen' = t /\ view'.time = t
      /\ updates' > 0 \/ InitJob \in ToSet(widgetPool')
      /\ view'.manager \in {view.manager, Instance(s)}
      /\ Doing' \subseteq Doing
      /\ Held' \subseteq Held \union {widget', view'.manager}
  BY <1>1, SelectAsks
<1>3. Held' \subseteq Held \union {Instance(s)}
  BY <1>1, <1>2 DEF Held
<1>4. OneEach' /\ Gone'
  BY <1>1, <1>3, HeldStep DEF Steady
<1>5. Steady'
  BY <1>2, <1>4 DEF Steady, OneSweeps, LiveSelected
<1>6. ASSUME upsets' \subseteq Tolerated PROVE Aimed'
  <2>1. s = site[widget] /\ Aimed
    BY <1>1, <1>6 DEF Tolerated, Sound
  <2>2. widget \in Living(s)
    BY <2>1 DEF Living, Held
  <2>3. Instance(s) \in Living(s)
    BY <2>2, InstanceFacts DEF TypeOK
  <2>4. Instance(s) = widget /\ site' = site
    BY <1>1, <2>2, <2>3 DEF Living, Steady, OneEach, TakeInstance
  <2> QED BY <1>1, <1>2, <2>1, <2>4 DEF Aimed
<1> QED BY <1>2, <1>5, <1>6, SoundUpdate DEF ToUpdate

(* The GUI thread handles a signal.  The completion of a load the view     *)
(* awaits has it compute a sweep again: the time of a view of level 3 is   *)
(* that of its record, unless a sweep is to end that has found it, which   *)
(* is the race.                                                            *)
LEMMA DeliverSound ==
  TypeOK /\ Steady /\ Sound /\ Step("gui", Deliver) => Steady' /\ Sound'
<1> SUFFICES ASSUME TypeOK, Steady, Sound, Step("gui", Deliver)
             PROVE  Steady' /\ Sound'
  OBVIOUS
<1> DEFINE e == Head(events)
<1>1. /\ events # <<>> /\ UNCHANGED <<timeline, gui, asks, selecting>>
      /\ dying' = dying \union
           {[manager |-> n, by |-> "gui", locked |-> FALSE] : n \in Held \ Held'}
      /\ \/ e.kind = "announced" /\ Announce(e)
         \/ e.kind = "new" /\ RequestNew(e)
         \/ e.kind = "reloaded" /\ UpdateReloaded(e)
         \/ e.kind = "loaded" /\ ShowLoaded(e)
         \/ /\ e.kind = "opened" /\ ShowFile(e.file)
            /\ events' = Rest /\ UNCHANGED <<opening, inputs>>
  BY DEF Step, Deliver, Announce, RequestNew, UpdateReloaded, ShowLoaded,
     ShowFile, ticker
<1>2. /\ events \in Seq(Signals) /\ e \in Signals /\ Rest \in Seq(Signals)
      /\ ToSet(events) = {e} \union ToSet(Rest)
  BY <1>1, HeadTailToSet DEF TypeOK, ControlTyped, Rest
<1> HIDE DEF e
<1>3. ASSUME UNCHANGED <<records, managers, loading, display, chosen, seen>>,
             upsets \subseteq upsets',
             ToSet(widgetPool) \subseteq ToSet(widgetPool'),
             ToSet(Rest) \subseteq ToSet(events'),
             \A k \in Wanted : Reloaded(k) # e
      PROVE  Steady' /\ Sound'
  <2>1. UNCHANGED <<file, site, pool, widget, view, updates, sweeping>>
    BY <1>3 DEF records, managers, loading, display
  <2>2. Awaited \subseteq Awaited'
    BY <1>2, <1>3, <2>1, AwaitedKept
  <2>3. ToUpdate => ToUpdate'
    BY <1>1, <1>3, <2>1 DEF ToUpdate, Telling, ToSelect
  <2>4. upsets' \subseteq Tolerated =>
          (~gui'.on <=> timeline'.site = site[widget])
    BY <1>1, <1>3 DEF Sound, Aimed
  <2>5. Sound'
    BY <1>3, <2>1, <2>2, <2>3, <2>4, SoundKept
  <2>6. LiveSelected'
    BY <1>1 DEF Steady, LiveSelected
  <2>7. Steady'
    BY <1>1, <2>1, <2>6, SteadyKept DEF Taken
  <2> QED BY <2>5, <2>7
<1>4. e.kind # "reloaded" => \A k \in Wanted : Reloaded(k) # e
  BY DEF Reloaded
<1>5. CASE e.kind = "announced" /\ Announce(e)
  <2>1. ToSet(Rest) \subseteq ToSet(events')
    BY <1>2, <1>5, AppendGains DEF Announce
  <2> QED BY <1>3, <1>4, <1>5, <2>1 DEF Announce, ghosts
<1>6. CASE e.kind = "new" /\ RequestNew(e)
  <2>1. ToSet(widgetPool) \subseteq ToSet(widgetPool')
    BY <1>6, AppendGains DEF RequestNew, TypeOK, DisplayTyped
  <2> QED BY <1>3, <1>4, <1>6, <2>1 DEF RequestNew
<1>7. CASE e.kind = "reloaded" /\ UpdateReloaded(e)
  <2> DEFINE mine  == view.manager = e.manager /\ view.product = e.product
             shown == mine /\ (e.product = Level2 \/ view.time = e.time)
  <2>1. /\ events' = Rest
        /\ updates' = updates + (IF shown THEN 1 ELSE 0)
        /\ upsets' = IF mine /\ ~shown /\ Lost(e) THEN upsets \union {"raced"}
                     ELSE upsets
        /\ UNCHANGED <<servers, records, managers, loading, widget, view,
                       sweeping, flags, widgetPool, gui, ticker, inputs, chosen,
                       seen, due>>
    BY <1>7 DEF UpdateReloaded
  <2>2. updates \in Nat
    BY DEF TypeOK, DisplayTyped
  <2>3. LiveSelected'
    BY <1>1 DEF Steady, LiveSelected
  <2>4. Steady'
    BY <1>1, <2>1, <2>3, SteadyKept DEF managers, Taken
  <2>5. upsets' \subseteq Tolerated => upsets \subseteq Tolerated /\ Aimed /\ Aimed'
    BY <2>1 DEF Sound, Aimed, managers, ticker
  <2>6. CASE shown
    BY <2>1, <2>2, <2>4, <2>5, <2>6, SoundUpdate DEF ToUpdate
  <2>7. CASE ~shown /\ (upsets \subseteq Tolerated => \A k \in Wanted : Reloaded(k) # e)
    <3>1. UNCHANGED <<display, upsets>> \/ "raced" \in upsets'
      BY <2>1, <2>2, <2>7 DEF display
    <3>2. "raced" \in upsets' => Sound'
      BY DEF Sound, Tolerated
    <3>3. CASE UNCHANGED <<display, upsets>>
      <4>1. upsets \subseteq Tolerated => Sound'
        BY <1>3, <2>1, <2>7, <3>3
      <4> QED BY <2>4, <3>3, <4>1 DEF Sound
    <3> QED BY <2>4, <3>1, <3>2, <3>3
  <2>8. CASE /\ ~shown /\ upsets \subseteq Tolerated
             /\ \E k \in Wanted : Reloaded(k) = e
    <3>1. PICK k \in Wanted : Reloaded(k) = e
      BY <2>8
    <3>2. /\ e.manager = widget /\ e.product = view.product /\ e.time = k
      BY <3>1 DEF Reloaded
    <3>3. mine /\ view.product # Level2 /\ view.time # k
      BY <2>8, <3>2 DEF Sound, Aimed
    <3>4. SUFFICES ASSUME upsets' \subseteq Tolerated PROVE Sound'
      BY <2>4 DEF Sound
    <3>5. ~Lost(e)
      BY <2>1, <2>8, <3>3, <3>4 DEF Tolerated
    <3>6. Wanted = {k} /\ Max(Wanted) = k
      <4>1. /\ seen \in SUBSET Times /\ chosen \in AnyTime
            /\ view.product \in Products
        BY DEF TypeOK, DisplayTyped, GhostsTyped
      <4>2. seen # {}
        BY <3>1 DEF Wanted, Candidates
      <4>3. \E j \in seen : Wanted = {j}
        <5> DEFINE p == view.product
        <5>1. p \in Products /\ p # Level2
          BY <3>3, <4>1
        <5> HIDE DEF p
        <5>2. \E j \in seen : Candidates(p, seen, chosen) = {j}
          BY <4>1, <4>2, <5>1, CandidatesOne
        <5> QED BY <5>2 DEF Wanted, p
      <4>4. Wanted = {k}
        BY <3>1, <4>3
      <4> QED BY <4>1, <4>3, <4>4, TimeFacts
    <3>7. ~Found
      BY <2>5, <3>3, <3>4, <3>6 DEF Found, Aimed
    <3>8. \A c \in Doing : ~Promising(sweeping[c])
      <4> SUFFICES ASSUME NEW c \in Doing, Promising(sweeping[c]) PROVE FALSE
        OBVIOUS
      <4>1. ~sweeping[c].adjusted /\ sweeping[c].found = k
        BY <3>6, <3>7 DEF Promising
      <4> QED BY <3>2, <3>3, <3>5, <4>1 DEF Lost, Doing
    <3>9. ToUpdate
      BY <2>8, <3>7, <3>8 DEF Sound, Settled
    <3>10. ToUpdate'
      BY <1>1, <2>1, <2>8, <3>9, <2>2 DEF ToUpdate, Telling, ToSelect
    <3> QED BY <2>5, <3>10, SoundUpdate
  <2> QED BY <2>6, <2>7, <2>8
<1>8. CASE e.kind = "loaded" /\ ShowLoaded(e)
  <2>1. CASE /\ Select(widget, e.product, Latest, TRUE, autoRefresh)
             /\ UNCHANGED <<site, widget, upsets>>
    BY <1>1, <2>1, SelectSound
  <2>2. CASE SelectRecord(e.site, e.product, e.time, autoRefresh)
    <3>1. e.site \in Sites
      BY <1>2, <1>8 DEF Signals
    <3> QED BY <1>1, <2>2, <3>1, SelectRecordSound
  <2>3. CASE UNCHANGED <<managers, display, widgetPool, chosen, seen, upsets>>
    <3>1. UNCHANGED <<records, loading>> /\ events' = Rest
      BY <1>8 DEF ShowLoaded
    <3> QED BY <1>3, <1>4, <1>8, <2>3, <3>1
  <2> QED BY <1>8, <2>1, <2>2, <2>3 DEF ShowLoaded
<1>9. CASE e.kind = "opened" /\ ShowFile(e.file)
  <2>1. SelectRecord(e.file.site, e.file.product, e.file.time, FALSE)
    BY <1>9 DEF ShowFile
  <2>2. e.file.site \in Sites
    BY <1>2, <1>9, DisplayAssumption DEF Signals, Volumes
  <2> QED BY <1>1, <2>1, <2>2, SelectRecordSound
<1> QED BY <1>1, <1>5, <1>6, <1>7, <1>8, <1>9

(* A switch of the site ends, and the timeline selects for the new site    *)
(* unless it has been there.                                               *)
LEMMA FinishSound ==
  TypeOK /\ Steady /\ Sound /\ Step("gui", FinishSwitch) => Steady' /\ Sound'
<1> SUFFICES ASSUME TypeOK, Steady, Sound, Step("gui", FinishSwitch)
             PROVE  Steady' /\ Sound'
  OBVIOUS
<1> DEFINE s == site[widget]
<1>1. /\ gui.on /\ ~gui'.on
      /\ UNCHANGED <<records, site, loading, widget, sweeping,
                     widgetPool, events, selecting, inputs>>
      /\ dying' = dying \union
           {[manager |-> n, by |-> "gui", locked |-> FALSE] : n \in Held \ Held'}
      /\ \/ /\ timeline.site # s /\ timeline.live
            /\ SelectLive(s, TRUE)
         \/ /\ timeline.site # s /\ ~timeline.live
            /\ timeline' = [timeline EXCEPT !.site = s]
            /\ asks' = Append(asks, timeline.time)
            /\ upsets' = upsets \union
                 (IF timeline.previous = s THEN {"returned"} ELSE {})
            /\ UNCHANGED <<view, updates, chosen, seen>>
         \/ /\ timeline.site = s
            /\ UNCHANGED <<timeline, asks, view, updates, chosen, seen, upsets>>
  BY DEF Step, FinishSwitch, Idle, managers
<1>2. /\ s \in Sites /\ asks \in Seq(AnyTime)
      /\ timeline \in [site : Sites, previous : Sites, live : BOOLEAN,
                       time : AnyTime]
  <2>1. site \in Seq(Sites) /\ widget \in 1 .. Len(site)
    BY DEF TypeOK, DisplayTyped, Made
  <2> QED BY <2>1 DEF TypeOK, ControlTyped
<1> HIDE DEF s
<1>3. UNCHANGED <<file, pool>>
  BY <1>1 DEF records, loading
<1>4. ASSUME view'.manager = view.manager, LiveSelected' PROVE Steady'
  BY <1>1, <1>4, SteadyKept DEF Taken
<1>5. CASE timeline.site # s /\ timeline.live /\ SelectLive(s, TRUE)
  <2>1. /\ timeline'.site = s /\ timeline'.previous = s
        /\ upsets \subseteq upsets'
        /\ \/ /\ UNCHANGED <<view, updates, chosen, seen>> /\ timeline.previous = s
           \/ /\ updates' > 0 /\ view'.manager = view.manager
              /\ chosen' = view'.time
    BY <1>2, <1>5, SelectLiveSound
  <2>2. timeline.previous # s
    BY <1>5 DEF Steady, LiveSelected
  <2>3. upsets' \subseteq Tolerated => Aimed'
    BY <1>1, <2>1, <2>2 DEF Sound, Aimed, s
  <2>4. Sound'
    BY <2>1, <2>2, <2>3, SoundUpdate DEF ToUpdate
  <2>5. LiveSelected'
    BY <2>1 DEF LiveSelected
  <2> QED BY <1>4, <2>1, <2>2, <2>4, <2>5
<1>6. CASE /\ timeline.site # s /\ ~timeline.live
           /\ timeline' = [timeline EXCEPT !.site = s]
           /\ asks' = Append(asks, timeline.time)
           /\ upsets' = upsets \union
                (IF timeline.previous = s THEN {"returned"} ELSE {})
           /\ UNCHANGED <<view, updates, chosen, seen>>
  <2>1. /\ timeline'.site = s /\ timeline'.previous = timeline.previous
        /\ ~timeline'.live /\ asks' # <<>>
    <3>1. timeline.time \in AnyTime
      BY <1>2
    <3>2. asks' # <<>>
      BY <1>2, <1>6, <3>1, AppendProperties
    <3> QED BY <1>2, <1>6, <3>2
  <2>2. upsets' \subseteq Tolerated => timeline.previous # s
    BY <1>6 DEF Tolerated
  <2>3. upsets' \subseteq Tolerated => (ToUpdate => ToUpdate')
    BY <1>1, <1>6, <2>1, <2>2 DEF ToUpdate, Telling, ToSelect
  <2>4. Awaited \subseteq Awaited'
    BY <1>1, <1>3, <1>6, AwaitedKept
  <2>5. Sound'
    BY <1>1, <1>3, <1>6, <2>1, <2>3, <2>4, SoundKept DEF s
  <2>6. LiveSelected'
    BY <2>1 DEF LiveSelected
  <2> QED BY <1>4, <1>6, <2>5, <2>6
<1>7. CASE /\ timeline.site = s
           /\ UNCHANGED <<timeline, asks, view, updates, chosen, seen, upsets>>
  <2>1. LiveSelected'
    BY <1>7 DEF Steady, LiveSelected
  <2>2. ~(upsets \subseteq Tolerated)
    BY <1>1, <1>7 DEF Sound, Aimed, s
  <2> QED BY <1>4, <1>7, <2>1, <2>2 DEF Sound
<1> QED BY <1>1, <1>5, <1>6, <1>7

(* A switch of the site begins: the map and its view have one manager, and *)
(* the timeline is to be told.                                             *)
LEMMA SwitchSound ==
  ASSUME TypeOK, Steady, Sound, NEW s \in Sites, Step("gui", SelectSite(s))
  PROVE  Steady' /\ Sound'
<1>1. /\ ~gui.on /\ gui' = [on |-> TRUE, carried |-> NoTime, reselected |-> FALSE]
      /\ s # site[widget] /\ MayHave(s) /\ TakeInstance(s)
      /\ widget' = Instance(s)
      /\ view' = [view EXCEPT !.manager = Instance(s)]
      /\ upsets' = upsets \union Crossing
      /\ UNCHANGED <<timeline, selecting, sweeping, chosen>>
      /\ dying' = dying \union
           {[manager |-> n, by |-> "gui", locked |-> FALSE] : n \in Held \ Held'}
  BY DEF Step, SelectSite, Call, ticker
<1>2. view'.manager = Instance(s) /\ view'.time = view.time
  BY <1>1 DEF TypeOK, DisplayTyped
<1>3. Held' \subseteq Held \union {Instance(s)} /\ Doing' = Doing
  BY <1>1, <1>2 DEF Held, Doing
<1>4. OneEach' /\ Gone'
  BY <1>1, <1>3, HeldStep DEF Steady
<1>5. Steady'
  BY <1>1, <1>3, <1>4 DEF Steady, OneSweeps, LiveSelected
<1>6. site'[Instance(s)] = s
  BY <1>1, InstanceFacts DEF TypeOK
<1>7. ASSUME upsets' \subseteq Tolerated PROVE Aimed' /\ ToUpdate'
  <2>1. selecting = NotSelecting /\ Aimed
    BY <1>1, <1>7 DEF Crossing, Tolerated, Sound
  <2>2. Aimed'
    BY <1>1, <1>2, <1>6, <2>1 DEF Aimed
  <2>3. ToUpdate'
    BY <1>1, <2>1 DEF ToUpdate, ToSelect
  <2> QED BY <2>2, <2>3
<1> QED BY <1>5, <1>7, SoundUpdate

(* During a switch the view's time is read, and selected again: another    *)
(* time is written over, which is a race.                                  *)
LEMMA ReselectSound ==
  TypeOK /\ Steady /\ Sound
    /\ (Step("gui", CarryTime) \/ Step("gui", Reselect))
    => Steady' /\ Sound'
<1> SUFFICES ASSUME TypeOK, Steady, Sound,
                    Step("gui", CarryTime) \/ Step("gui", Reselect)
             PROVE  Steady' /\ Sound'
  OBVIOUS
<1>1. /\ gui.on
      /\ gui' \in {[gui EXCEPT !.carried = view.time],
                   [gui EXCEPT !.reselected = TRUE]}
      /\ UNCHANGED <<records, site, loading, widget, updates, sweeping,
                     widgetPool, events, ticker, chosen, seen>>
      /\ dying' = dying \union
           {[manager |-> n, by |-> "gui", locked |-> FALSE] : n \in Held \ Held'}
  BY DEF Step, CarryTime, Reselect, managers, display, ghosts
<1>2. \/ UNCHANGED <<view, upsets>>
      \/ /\ view' = [view EXCEPT !.time = gui.carried]
         /\ \/ view.time = gui.carried /\ UNCHANGED upsets
            \/ "raced" \in upsets'
  BY DEF Step, CarryTime, Reselect, display, ghosts
<1>3. /\ view \in [manager : Made, product : Products, time : AnyTime,
                   sweep : Pictures]
      /\ gui \in {Idle} \union [on : {TRUE}, carried : AnyTime \union {NoTime},
                                 reselected : BOOLEAN]
  BY DEF TypeOK, DisplayTyped, ControlTyped
<1>4. view'.manager = view.manager
  BY <1>2, <1>3
<1>5. gui'.on
  <2>1. gui \in [on : {TRUE}, carried : AnyTime \union {NoTime},
                reselected : BOOLEAN]
    <3>1. ~Idle.on
      BY DEF Idle
    <3> QED BY <1>1, <1>3, <3>1
  <2> QED BY <1>1, <2>1
<1>6. UNCHANGED <<file, pool, timeline, asks, selecting>>
  BY <1>1 DEF records, loading, ticker
<1>7. LiveSelected'
  BY <1>6 DEF Steady, LiveSelected
<1>8. Steady'
  BY <1>1, <1>4, <1>6, <1>7, SteadyKept DEF Taken
<1>9. CASE "raced" \in upsets'
  BY <1>8, <1>9 DEF Sound, Tolerated
<1>10. CASE UNCHANGED <<view, upsets>>
  <2>1. Awaited \subseteq Awaited'
    BY <1>1, <1>6, <1>10, AwaitedKept
  <2>2. ToUpdate => ToUpdate'
    BY <1>1, <1>5, <1>6 DEF ToUpdate, Telling, ToSelect
  <2>3. upsets' \subseteq Tolerated =>
          (~gui'.on <=> timeline'.site = site[widget])
    BY <1>1, <1>5, <1>6, <1>10 DEF Sound, Aimed
  <2> QED BY <1>1, <1>6, <1>8, <1>10, <2>1, <2>2, <2>3, SoundKept
<1>11. view.time = gui.carried /\ view' = [view EXCEPT !.time = gui.carried]
         => view' = view
  BY <1>3
<1> QED BY <1>2, <1>9, <1>10, <1>11

(* The other calls. *)
LEMMA CallsSound ==
  TypeOK /\ Steady /\ Sound
    /\ (\/ \E p \in Products : Step("gui", SelectProduct(p))
        \/ \E t \in Picks : Step("gui", PickTime(t))
        \/ Step("gui", GoLive)
        \/ \E f \in Files : Step("gui", OpenFile(f)))
    => Steady' /\ Sound'
<1> SUFFICES ASSUME TypeOK, Steady, Sound,
                    \/ \E p \in Products : Step("gui", SelectProduct(p))
                    \/ \E t \in Picks : Step("gui", PickTime(t))
                    \/ Step("gui", GoLive)
                    \/ \E f \in Files : Step("gui", OpenFile(f))
             PROVE  Steady' /\ Sound'
  OBVIOUS
<1>1. /\ ~gui.on
      /\ dying' = dying \union
           {[manager |-> n, by |-> "gui", locked |-> FALSE] : n \in Held \ Held'}
  BY DEF Step, SelectProduct, PickTime, GoLive, OpenFile, Call
<1>2. ASSUME UNCHANGED <<records, managers, loading, display, widgetPool,
                         events, gui, selecting, chosen, seen, upsets>>,
             timeline'.site = timeline.site,
             timeline'.previous = timeline.previous,
             LiveSelected', asks # <<>> => asks' # <<>>
      PROVE  Steady' /\ Sound'
  <2>1. UNCHANGED <<file, site, pool, widget, view, updates, sweeping>>
    BY <1>2 DEF records, managers, loading, display
  <2>2. Awaited \subseteq Awaited'
    BY <1>2, <2>1, AwaitedKept
  <2>3. ToUpdate => ToUpdate'
    BY <1>2, <2>1 DEF ToUpdate, Telling, ToSelect
  <2>4. upsets' \subseteq Tolerated =>
          (~gui'.on <=> timeline'.site = site[widget])
    BY <1>2 DEF Sound, Aimed
  <2>5. Sound'
    BY <1>2, <2>1, <2>2, <2>3, <2>4, SoundKept
  <2>6. Steady'
    BY <1>1, <1>2, <2>1, SteadyKept DEF Taken
  <2> QED BY <2>5, <2>6
<1>3. ASSUME NEW p \in Products, SelectProduct(p) PROVE Steady' /\ Sound'
  <2>1. /\ Select(widget, p, timeline.time, TRUE, autoRefresh)
        /\ UNCHANGED <<site, widget, timeline, gui, selecting, upsets>>
    BY <1>3 DEF SelectProduct, ticker
  <2> QED BY <1>1, <2>1, SelectSound
<1>4. ASSUME NEW t \in Picks, PickTime(t) PROVE Steady' /\ Sound'
  <2>1. /\ timeline' = [timeline EXCEPT !.live = FALSE]
        /\ asks' = Append(asks, t)
        /\ UNCHANGED <<records, managers, loading, display, widgetPool, events,
                       gui, selecting, chosen, seen, upsets>>
    BY <1>4 DEF PickTime
  <2>2. /\ timeline'.site = timeline.site /\ timeline'.previous = timeline.previous
        /\ LiveSelected'
    BY <2>1 DEF TypeOK, ControlTyped, LiveSelected
  <2>3. asks' # <<>>
    <3>1. asks \in Seq(AnyTime) /\ t \in AnyTime
      BY DEF TypeOK, ControlTyped, AnyTime
    <3> QED BY <2>1, <3>1, AppendProperties
  <2> QED BY <1>2, <2>1, <2>2, <2>3
<1>5. ASSUME GoLive PROVE Steady' /\ Sound'
  <2>1. /\ SelectLive(timeline.site, TRUE)
        /\ UNCHANGED <<records, managers, loading, widget, sweeping, widgetPool,
                       events, gui, asks, selecting>>
    BY <1>5 DEF GoLive
  <2>2. UNCHANGED <<site, file, pool>>
    BY <2>1 DEF managers, records, loading
  <2>3. timeline.site \in Sites
    BY DEF TypeOK, ControlTyped
  <2>4. /\ timeline'.site = timeline.site /\ timeline'.previous = timeline.site
        /\ upsets \subseteq upsets'
        /\ \/ /\ UNCHANGED <<view, updates, chosen, seen>>
              /\ timeline.previous = timeline.site
           \/ /\ updates' > 0 /\ view'.manager = view.manager
              /\ chosen' = view'.time
    BY <2>1, <2>3, SelectLiveSound
  <2>5. LiveSelected' /\ view'.manager = view.manager
    BY <2>4 DEF LiveSelected
  <2>6. Steady'
    BY <1>1, <2>1, <2>2, <2>5, SteadyKept DEF Taken
  <2>7. CASE /\ UNCHANGED <<view, updates, chosen, seen>>
             /\ timeline.previous = timeline.site
    <3>1. ToUpdate => ToUpdate'
      BY <2>1, <2>4, <2>7 DEF ToUpdate, Telling, ToSelect
    <3>2. Awaited \subseteq Awaited'
      BY <2>1, <2>2, <2>7, AwaitedKept
    <3>3. upsets' \subseteq Tolerated =>
            (~gui'.on <=> timeline'.site = site[widget])
      BY <2>1, <2>4 DEF Sound, Aimed
    <3> QED BY <2>1, <2>2, <2>4, <2>6, <2>7, <3>1, <3>2, <3>3, SoundKept
  <2>8. CASE updates' > 0 /\ chosen' = view'.time
    <3>1. upsets' \subseteq Tolerated => Aimed'
      BY <2>1, <2>2, <2>4, <2>5, <2>8 DEF Sound, Aimed
    <3> QED BY <2>6, <2>8, <3>1, SoundUpdate DEF ToUpdate
  <2> QED BY <2>4, <2>7, <2>8
<1>6. ASSUME NEW f \in Files, OpenFile(f) PROVE Steady' /\ Sound'
  <2>1. CASE ShowFile(f)
    <3>1. /\ SelectRecord(f.site, f.product, f.time, FALSE)
          /\ UNCHANGED <<timeline, gui, selecting>> /\ f.site \in Sites
      BY <2>1, DisplayAssumption DEF ShowFile, ticker, Volumes
    <3> QED BY <1>1, <3>1, SelectRecordSound
  <2>2. CASE /\ opening' = opening \union {f}
             /\ UNCHANGED <<servers, records, managers, pool, opened,
                            display, flags, widgetPool, events, gui, ticker, ghosts>>
    <3>1. UNCHANGED <<file, site, pool, widget, view, updates, sweeping,
                      widgetPool, events, gui, timeline, asks, selecting,
                      chosen, seen, upsets>>
      BY <2>2 DEF records, managers, display, ticker, ghosts
    <3>2. LiveSelected'
      BY <3>1 DEF Steady, LiveSelected
    <3>3. Steady'
      BY <1>1, <3>1, <3>2, SteadyKept DEF Taken
    <3>4. ToUpdate => ToUpdate'
      BY <3>1 DEF ToUpdate, Telling, ToSelect
    <3>5. Awaited \subseteq Awaited'
      BY <3>1, AwaitedKept
    <3>6. upsets' \subseteq Tolerated =>
            (~gui'.on <=> timeline'.site = site[widget])
      BY <3>1 DEF Sound, Aimed
    <3> QED BY <3>1, <3>3, <3>4, <3>5, <3>6, SoundKept
  <2> QED BY <1>6, <2>1, <2>2 DEF OpenFile
<1> QED BY <1>3, <1>4, <1>5, <1>6 DEF Step

(* Every step keeps the map steady and sound. *)
LEMMA SoundNext ==
  TypeOK /\ Steady /\ Sound /\ [Next]_vars => Steady' /\ Sound'
<1> SUFFICES ASSUME TypeOK, Steady, Sound, [Next]_vars PROVE Steady' /\ Sound'
  OBVIOUS
<1>1. CASE GuiStep
  BY <1>1, DeliverSound, ReselectSound, FinishSound, SwitchSound, CallsSound
     DEF GuiStep
<1>2. CASE TimelineStep
  BY <1>2, TimelineSound
<1>3. CASE SweepStep
  BY <1>3, StartSound, PostLoadSound, AdjustSound, EndSound DEF SweepStep
<1>4. CASE LoadStep
  BY <1>4, LoadSound
<1>5. CASE ServerStep
  BY <1>5, ServerSound
<1>6. CASE Destruct
  BY <1>6, DestructSound
<1>7. CASE UNCHANGED vars
  <2>1. UNCHANGED <<file, pool, site, widget, view, updates, sweeping,
                    widgetPool, events, gui, timeline, asks, selecting,
                    chosen, seen, upsets, dying>>
    BY <1>7 DEF vars, records, loading, managers, display, ticker, ghosts
  <2>2. Steady'
    BY <2>1 DEF Steady, OneEach, Gone, LiveSelected, OneSweeps, Held, Doing
  <2>3. Awaited \subseteq Awaited'
    BY <2>1, AwaitedKept
  <2>4. ToUpdate => ToUpdate'
    BY <2>1 DEF ToUpdate, Telling, ToSelect
  <2>5. upsets' \subseteq Tolerated =>
          (~gui'.on <=> timeline'.site = site[widget])
    BY <2>1 DEF Sound, Aimed
  <2> QED BY <2>1, <2>2, <2>3, <2>4, <2>5, SoundKept
<1> QED BY <1>1, <1>2, <1>3, <1>4, <1>5, <1>6, <1>7 DEF Next

(* However loads, announcements, switches and sweeps are interleaved, once *)
(* all is done the map shows what was selected last: of level 2 the newest *)
(* scan of all volumes listed that is not newer than the selected time, of *)
(* level 3 the volume (radar_product_manager.cpp:1515), apart from what    *)
(* upsets names.                                                           *)
THEOREM SelectionStaysShown == Spec => []ShowsSelection
<1>1. Init => TypeOK /\ Steady /\ Sound
  BY TypeInit, SteadyInit
<1>2. TypeOK /\ Steady /\ Sound /\ [Next]_vars => (TypeOK /\ Steady /\ Sound)'
  BY TypeNext, SoundNext
<1>3. TypeOK /\ Steady /\ Sound => ShowsSelection
  BY SoundShows
<1> QED BY <1>1, <1>2, <1>3, PTL DEF Spec

-----------------------------------------------------------------------------
(* The volume announced to a live map.                                     *)

(* A volume is due only while the map updates by itself, in the live view  *)
(* of a timeline that has not an archived time, nor is selecting one.      *)
Going ==
  /\ due # NoTime => autoUpdate /\ timeline.live /\ ~gui.on
  /\ upsets = {} => /\ autoUpdate => timeline.time = Latest
                    /\ selecting # NotSelecting => ~autoUpdate

(* What a manager announces it has listed, and the server has. *)
Heard ==
  \A e \in ToSet(events) :
    e.kind \in {"announced", "new"} /\ e.manager \in Held =>
      /\ e.time \in listed[e.manager][e.product]
      /\ e.time \in published[site[e.manager]][e.product]

(* Only a view of level 3 has a time to take over. *)
Levels == \A c \in Doing : ~sweeping[c].adjusted => view.product # Level2

(* A record that is loaded has the volume of its own time. *)
OwnTimes ==
  upsets = {} => \A m \in Ids, p \in Products, k \in Times :
                   file[m][p][k] \in {k, NoFile}

(* The load of the volume that is due has been posted, is waiting in the   *)
(* pool, or has ended and is still to be told.                             *)
InMemory == /\ due \in keys[widget][view.product]
            /\ file[widget][view.product][due] # NoFile
Job == [kind |-> "update", product |-> view.product, time |-> due,
        request |-> site[widget], connected |-> TRUE]
Answer == [kind |-> "loaded", request |-> site[widget], site |-> site[widget],
           product |-> view.product, time |-> due]
Coming == \/ Job \in ToSet(widgetPool) \/ Job \in pool[widget]
          \/ InMemory /\ Answer \in ToSet(events)

(* Or it was told: the view selects it or a newer one, and has seen it or  *)
(* is to compute a sweep again.  A sweep of level 3 that is still to take  *)
(* over the time found does not go back, unless it was overtaken.          *)
Ahead(w) == w.adjusted \/ seen = {} \/ w.found = w.asked \/ due <= w.found
Newest ==
  /\ InMemory
  /\ IF view.product = Level2 THEN chosen = Latest ELSE due <= chosen
  /\ updates > 0 \/ InitJob \in ToSet(widgetPool) \/ due \in seen
  /\ \A c \in Doing : Ahead(sweeping[c])

Follows ==
  upsets = {} /\ due # NoTime =>
    /\ due \in listed[widget][view.product]
    /\ due \in published[site[widget]][view.product]
    /\ Coming \/ Newest

LiveInv == Going /\ Heard /\ Levels /\ OwnTimes /\ Follows

(* At first nothing is announced. *)
LEMMA LiveInit == Init => LiveInv
<1> SUFFICES ASSUME Init PROVE LiveInv
  OBVIOUS
<1>1. /\ due = NoTime /\ timeline.time = Latest /\ selecting = NotSelecting
      /\ events = <<>> /\ \A c \in Sweepers : ~sweeping[c].on
      /\ file = [m \in Ids |-> NoFiles]
  BY DEF Init, Idle
<1>2. Going /\ Follows
  BY <1>1 DEF Going, Follows
<1>3. Heard /\ Levels
  BY <1>1 DEF Heard, Levels, Doing, ToSet
<1>4. OwnTimes
  BY <1>1 DEF OwnTimes, NoFiles
<1> QED BY <1>2, <1>3, <1>4 DEF LiveInv

(* Nothing that is excepted is forgotten. *)
LEMMA UpsetsGrow == [Next]_vars => upsets \subseteq upsets'
<1> SUFFICES ASSUME [Next]_vars PROVE upsets \subseteq upsets'
  OBVIOUS
<1>1. CASE Step("gui", Deliver)
  BY <1>1 DEF Step, Deliver, Announce, RequestNew, UpdateReloaded, ShowLoaded,
     ShowFile, SelectRecord, ghosts
<1>2. CASE \/ Step("gui", CarryTime) \/ Step("gui", Reselect)
           \/ Step("gui", FinishSwitch)
  BY <1>2 DEF Step, CarryTime, Reselect, FinishSwitch, SelectLive, ghosts
<1>3. CASE \/ \E s \in Sites : Step("gui", SelectSite(s))
           \/ \E p \in Products : Step("gui", SelectProduct(p))
           \/ \E t \in Picks : Step("gui", PickTime(t))
           \/ Step("gui", GoLive)
           \/ \E f \in Files : Step("gui", OpenFile(f))
  BY <1>3 DEF Step, SelectSite, SelectProduct, PickTime, GoLive, OpenFile,
     SelectLive, ShowFile, SelectRecord, ghosts
<1>4. CASE TimelineStep
  BY <1>4 DEF TimelineStep, Step, StartSelect, TellMap, EndSelect, SelectLive,
     ghosts
<1>5. CASE SweepStep
  BY <1>5 DEF SweepStep, Step, StartUpdate, StartInitialize, PostLoad, Adjust,
     EndSweep, ghosts
<1>6. CASE LoadStep
  BY <1>6 DEF LoadStep, Step, RunLoad, LoadFails, LoadFile, ghosts
<1>7. CASE ServerStep
  BY <1>7 DEF ServerStep, Step, Publish, RefreshDataSync, ghosts
<1>8. CASE Destruct \/ UNCHANGED vars
  BY <1>8 DEF Destruct, vars, ghosts
<1> QED BY <1>1, <1>2, <1>3, <1>4, <1>5, <1>6, <1>7, <1>8 DEF Next, GuiStep

(* A live map stays so until an archived time is selected, which nothing   *)
(* is due to.                                                              *)
LEMMA GoingNext ==
  TypeOK /\ Steady /\ Going /\ [Next]_vars => Going'
<1> SUFFICES ASSUME TypeOK, Steady, Going, [Next]_vars PROVE Going'
  OBVIOUS
<1>1. upsets \subseteq upsets'
  BY UpsetsGrow
<1>2. timeline \in [site : Sites, previous : Sites, live : BOOLEAN,
                    time : AnyTime]
  BY DEF TypeOK, ControlTyped
<1>3. ASSUME UNCHANGED <<autoUpdate, timeline, gui, selecting>>,
             due' \in {due, NoTime}
      PROVE  Going'
  BY <1>1, <1>3 DEF Going
<1>4. ASSUME NEW s \in Sites, NEW live \in BOOLEAN, SelectLive(s, live),
             UNCHANGED <<selecting, due>>, ~gui'.on,
             due # NoTime => live
      PROVE  Going'
  <2>1. /\ timeline' = [site |-> s, previous |-> s, live |-> live, time |-> Latest]
        /\ autoUpdate' = autoUpdate \/ autoUpdate' = TRUE
        /\ upsets' = {} => selecting = NotSelecting
    BY <1>4 DEF SelectLive, Crossing
  <2>2. timeline'.live = live /\ timeline'.time = Latest
    BY <2>1
  <2> QED BY <1>1, <1>4, <2>1, <2>2 DEF Going
<1>5. CASE Step("gui", Deliver)
  <2> DEFINE e == Head(events)
  <2>1. ~gui.on
    BY <1>5 DEF Step, Deliver
  <2>2. CASE RequestNew(e)
    <3>1. /\ UNCHANGED <<autoUpdate, timeline, gui, selecting, upsets>>
          /\ due' = due \/ (autoUpdate /\ timeline.live)
      BY <2>2 DEF RequestNew, flags, ticker, Live
    <3> QED BY <2>1, <3>1 DEF Going
  <2>3. CASE Announce(e) \/ UpdateReloaded(e) \/ ShowLoaded(e)
             \/ ShowFile(e.file)
    BY <1>3, <2>3 DEF Announce, UpdateReloaded, ShowLoaded, ShowFile, flags,
       ticker, ghosts
  <2> QED BY <1>5, <2>2, <2>3 DEF Step, Deliver
<1>6. CASE Step("gui", FinishSwitch)
  <2> DEFINE s == site[widget]
  <2>1. /\ gui.on /\ ~gui'.on /\ UNCHANGED <<selecting, due>>
        /\ \/ timeline.site # s /\ timeline.live /\ SelectLive(s, TRUE)
           \/ timeline' = [timeline EXCEPT !.site = s] /\ UNCHANGED autoUpdate
           \/ UNCHANGED <<timeline, autoUpdate>>
    BY <1>6 DEF Step, FinishSwitch, Idle
  <2>2. s \in Sites
    BY DEF TypeOK, DisplayTyped, Made
  <2>3. due = NoTime
    BY <2>1 DEF Going
  <2> HIDE DEF s
  <2>4. CASE timeline' = [timeline EXCEPT !.site = s] /\ UNCHANGED autoUpdate
    <3>1. timeline'.time = timeline.time
      BY <1>2, <2>4
    <3> QED BY <1>1, <2>1, <2>3, <2>4, <3>1 DEF Going
  <2>5. CASE UNCHANGED <<timeline, autoUpdate>>
    BY <1>1, <2>1, <2>3, <2>5 DEF Going
  <2> QED BY <1>4, <2>1, <2>2, <2>3, <2>4, <2>5
<1>7. CASE \E s \in Sites : Step("gui", SelectSite(s))
  <2>1. UNCHANGED <<autoUpdate, timeline, selecting>> /\ due' = NoTime
    BY <1>7 DEF Step, SelectSite, flags, ticker
  <2> QED BY <1>1, <2>1 DEF Going
<1>8. CASE \E t \in Picks : Step("gui", PickTime(t))
  <2>1. /\ timeline' = [timeline EXCEPT !.live = FALSE] /\ due' = NoTime
        /\ UNCHANGED <<autoUpdate, selecting>>
    BY <1>8 DEF Step, PickTime, flags
  <2>2. timeline'.time = timeline.time
    BY <1>2, <2>1
  <2> QED BY <1>1, <2>1, <2>2 DEF Going
<1>9. CASE Step("gui", GoLive)
  <2>1. /\ ~gui.on /\ SelectLive(timeline.site, TRUE)
        /\ UNCHANGED <<gui, selecting, due>>
    BY <1>9 DEF Step, GoLive, Call
  <2>2. timeline.site \in Sites
    BY <1>2
  <2> QED BY <1>4, <2>1, <2>2
<1>10. CASE \/ \E p \in Products : Step("gui", SelectProduct(p))
            \/ \E f \in Files : Step("gui", OpenFile(f))
  BY <1>3, <1>10 DEF Step, SelectProduct, OpenFile, ShowFile, Call, flags,
     ticker, ghosts
<1>11. CASE Step("timeline", StartSelect)
  <2>1. CASE autoUpdate' = FALSE /\ due' = NoTime /\ UNCHANGED timeline
    BY <2>1 DEF Going
  <2>2. CASE UNCHANGED <<autoUpdate, selecting, timeline, gui, due>>
    BY <1>3, <2>2
  <2>3. CASE /\ SelectLive(timeline.site, timeline.live) /\ selecting = NotSelecting
             /\ UNCHANGED <<selecting, due, gui>>
    <3>1. /\ timeline' = [site |-> timeline.site, previous |-> timeline.site,
                          live |-> timeline.live, time |-> Latest]
          /\ autoUpdate' = autoUpdate \/ autoUpdate' = TRUE
      BY <2>3 DEF SelectLive
    <3>2. timeline'.live = timeline.live /\ timeline'.time = Latest
      BY <3>1
    <3> QED BY <1>1, <2>3, <3>1, <3>2 DEF Going
  <2> QED BY <1>11, <2>1, <2>2, <2>3 DEF Step, StartSelect, ghosts
<1>12. CASE Step("timeline", TellMap)
  <2>1. /\ selecting # NotSelecting /\ UNCHANGED <<autoUpdate, gui, due>>
        /\ timeline' = [timeline EXCEPT !.time = selecting.time]
    BY <1>12 DEF Step, TellMap, flags
  <2>2. timeline'.live = timeline.live
    BY <1>2, <2>1
  <2> QED BY <1>1, <2>1, <2>2 DEF Going
<1>13. CASE Step("timeline", EndSelect)
  <2>1. /\ selecting' = NotSelecting /\ UNCHANGED <<autoUpdate, gui, due>>
        /\ timeline' = [timeline EXCEPT !.previous = timeline.site]
    BY <1>13 DEF Step, EndSelect, flags, ghosts
  <2>2. timeline'.live = timeline.live /\ timeline'.time = timeline.time
    BY <1>2, <2>1
  <2> QED BY <1>1, <2>1, <2>2 DEF Going
<1>14. CASE SweepStep
  BY <1>3, <1>14 DEF SweepStep, Step, StartUpdate, StartInitialize, PostLoad,
     Adjust, EndSweep, flags, ticker, ghosts
<1>15. CASE LoadStep
  BY <1>3, <1>15 DEF LoadStep, Step, RunLoad, LoadFails, LoadFile, flags, ticker,
     ghosts
<1>16. CASE ServerStep
  BY <1>3, <1>16 DEF ServerStep, Step, Publish, RefreshDataSync, flags, ticker,
     ghosts
<1>17. CASE Destruct \/ UNCHANGED vars
  BY <1>3, <1>17 DEF Destruct, vars, flags, ticker, ghosts
<1>18. CASE Step("gui", CarryTime) \/ Step("gui", Reselect)
  <2>1. gui.on /\ UNCHANGED <<autoUpdate, timeline, selecting, due>>
    BY <1>18 DEF Step, CarryTime, Reselect, flags, ticker, ghosts
  <2> QED BY <1>1, <2>1 DEF Going
<1> QED BY <1>5, <1>6, <1>7, <1>8, <1>9, <1>10, <1>11, <1>12, <1>13, <1>14,
           <1>15, <1>16, <1>17, <1>18 DEF Next, GuiStep, TimelineStep

(* Who is held that was made before was held before: a step takes no other *)
(* manager but the one Instance() gives.                                   *)
LEMMA HeldTaken ==
  ASSUME TypeOK,
         \/ site' = site /\ Held' \subseteq Held
         \/ \E s \in Sites : /\ MayHave(s) /\ TakeInstance(s)
                             /\ Held' \subseteq Held \union {Instance(s)}
  PROVE  /\ \A m \in Made : site'[m] = site[m]
         /\ Held' \intersect Made \subseteq Held
<1>1. CASE site' = site /\ Held' \subseteq Held
  BY <1>1
<1>2. ASSUME NEW s \in Sites, MayHave(s), TakeInstance(s),
             Held' \subseteq Held \union {Instance(s)}
      PROVE  /\ \A m \in Made : site'[m] = site[m]
             /\ Held' \intersect Made \subseteq Held
  <2>1. \A m \in Made : site'[m] = site[m]
    BY <1>2, InstanceFacts DEF TypeOK
  <2>2. Living(s) # {} => Instance(s) \in Held
    BY InstanceFacts DEF TypeOK, Living
  <2>3. Living(s) = {} => Instance(s) \notin Made
    <3>1. Len(site) \in Nat
      BY HeldMade DEF TypeOK
    <3> QED BY <3>1 DEF Instance, Made
  <2> QED BY <1>2, <2>1, <2>2, <2>3
<1> QED BY <1>1, <1>2

LEMMA HeldNext ==
  TypeOK /\ [Next]_vars =>
    /\ \A m \in Made : site'[m] = site[m]
    /\ Held' \intersect Made \subseteq Held
<1> SUFFICES ASSUME TypeOK, [Next]_vars
             PROVE  \/ site' = site /\ Held' \subseteq Held
                    \/ \E s \in Sites :
                         /\ MayHave(s) /\ TakeInstance(s)
                         /\ Held' \subseteq Held \union {Instance(s)}
  BY HeldTaken
<1>1. /\ view \in [manager : Made, product : Products, time : AnyTime,
                   sweep : Pictures]
      /\ sweeping \in [Sweepers -> Sweeping]
  BY DEF TypeOK, DisplayTyped
<1>2. ASSUME UNCHANGED <<site, widget, sweeping>>, view'.manager = view.manager,
             UNCHANGED selecting \/ Taken' \subseteq Taken
      PROVE  site' = site /\ Held' \subseteq Held
  BY <1>2 DEF Held, Taken
<1>3. ASSUME NEW p, NEW t, NEW on, Select(widget, p, t, TRUE, on),
             UNCHANGED <<site, widget, selecting>>
      PROVE  site' = site /\ Held' \subseteq Held
  <2>1. /\ view'.manager \in {view.manager, widget}
        /\ Held' \subseteq Held \union {widget', view'.manager}
    BY <1>3, SelectAsks
  <2> QED BY <1>3, <2>1 DEF Held
<1>4. ASSUME NEW s \in Sites, NEW p, NEW t, NEW on, SelectRecord(s, p, t, on),
             UNCHANGED selecting
      PROVE  /\ MayHave(s) /\ TakeInstance(s)
             /\ Held' \subseteq Held \union {Instance(s)}
  <2>1. /\ MayHave(s) /\ TakeInstance(s) /\ widget' = Instance(s)
        /\ Select(Instance(s), p, t, TRUE, on)
    BY <1>4 DEF SelectRecord
  <2>2. /\ view'.manager \in {view.manager, Instance(s)}
        /\ Held' \subseteq Held \union {widget', view'.manager}
    BY <1>4, <2>1, SelectAsks
  <2> QED BY <2>1, <2>2 DEF Held
<1>5. ASSUME NEW f \in Files, ShowFile(f)
      PROVE  \E s \in Sites : /\ MayHave(s) /\ TakeInstance(s)
                              /\ Held' \subseteq Held \union {Instance(s)}
  <2>1. /\ f.site \in Sites /\ SelectRecord(f.site, f.product, f.time, FALSE)
        /\ UNCHANGED selecting
    BY <1>5, DisplayAssumption DEF ShowFile, Volumes, ticker
  <2> QED BY <1>4, <2>1
<1>6. ASSUME NEW s, NEW live, SelectLive(s, live),
             UNCHANGED <<site, widget, sweeping, selecting>>
      PROVE  site' = site /\ Held' \subseteq Held
  <2>1. view' = view \/ view' = [view EXCEPT !.time = Latest]
    BY <1>6 DEF SelectLive, SelectTime
  <2>2. view'.manager = view.manager
    BY <1>1, <2>1
  <2> QED BY <1>2, <1>6, <2>2
<1>7. CASE Step("gui", Deliver)
  <2> DEFINE e == Head(events)
  <2>0. e \in Signals
    BY <1>7, HeadTailToSet DEF Step, Deliver, TypeOK, ControlTyped
  <2>1. CASE Announce(e) \/ RequestNew(e) \/ UpdateReloaded(e)
    <3>1. UNCHANGED <<site, widget, sweeping, view, selecting>>
      BY <2>1 DEF Announce, RequestNew, UpdateReloaded, managers, display,
         ticker
    <3> QED BY <1>2, <3>1
  <2>2. CASE e.kind = "loaded" /\ ShowLoaded(e)
    <3>1. e.site \in Sites
      BY <2>0, <2>2 DEF Signals
    <3>3. UNCHANGED selecting
      BY <2>2 DEF ShowLoaded, ticker
    <3>2. CASE UNCHANGED <<managers, display, widgetPool, chosen, seen, upsets>>
      BY <1>2, <3>2, <3>3 DEF managers, display
    <3> QED BY <1>3, <1>4, <2>2, <3>1, <3>2, <3>3 DEF ShowLoaded
  <2>3. CASE e.kind = "opened" /\ ShowFile(e.file)
    <3>1. e.file \in Files
      BY <2>0, <2>3 DEF Signals
    <3> QED BY <1>5, <2>3, <3>1
  <2> QED BY <1>7, <2>1, <2>2, <2>3 DEF Step, Deliver
<1>8. CASE Step("gui", FinishSwitch)
  <2>1. /\ UNCHANGED <<site, widget, sweeping, selecting>>
        /\ SelectLive(site[widget], TRUE) \/ UNCHANGED view
    BY <1>8 DEF Step, FinishSwitch, managers
  <2> QED BY <1>2, <1>6, <2>1
<1>9. ASSUME NEW s \in Sites, Step("gui", SelectSite(s))
      PROVE  /\ MayHave(s) /\ TakeInstance(s)
             /\ Held' \subseteq Held \union {Instance(s)}
  <2>1. /\ MayHave(s) /\ TakeInstance(s) /\ widget' = Instance(s)
        /\ view' = [view EXCEPT !.manager = Instance(s)]
        /\ UNCHANGED <<sweeping, selecting>>
    BY <1>9 DEF Step, SelectSite, ticker
  <2>2. view'.manager = Instance(s)
    BY <1>1, <2>1
  <2> QED BY <2>1, <2>2 DEF Held
<1>10. CASE \E p \in Products : Step("gui", SelectProduct(p))
  BY <1>3, <1>10 DEF Step, SelectProduct, ticker
<1>11. CASE \E t \in Picks : Step("gui", PickTime(t))
  BY <1>2, <1>11 DEF Step, PickTime, managers, display
<1>12. CASE Step("gui", GoLive)
  BY <1>6, <1>12 DEF Step, GoLive, managers
<1>13. CASE \E f \in Files : Step("gui", OpenFile(f))
  <2>1. PICK f \in Files : OpenFile(f)
    BY <1>13 DEF Step
  <2> QED BY <1>2, <1>5, <2>1 DEF OpenFile, managers, display, ticker
<1>14. CASE TimelineStep
  <2>1. UNCHANGED <<widget, sweeping>>
    BY <1>14 DEF TimelineStep, Step, StartSelect, TellMap, EndSelect, display
  <2>2. CASE StartSelect
    <3> DEFINE s == timeline.site
    <3>1. s \in Sites
      BY DEF TypeOK, ControlTyped
    <3>2. CASE /\ MayHave(s) /\ TakeInstance(s) /\ UNCHANGED view
               /\ selecting' = [time |-> Head(asks), told |-> FALSE,
                                manager |-> Instance(s)]
      <4>1. selecting'.manager = Instance(s)
        BY <3>2
      <4>2. Held' \subseteq Held \union {Instance(s)}
        BY <2>1, <3>2, <4>1 DEF Held
      <4> QED BY <3>1, <3>2, <4>2
    <3>3. CASE UNCHANGED <<site, selecting, view>>
      BY <1>2, <2>1, <3>3
    <3>4. CASE SelectLive(s, timeline.live) /\ UNCHANGED <<site, selecting>>
      BY <1>6, <2>1, <3>4
    <3> QED BY <2>2, <3>2, <3>3, <3>4 DEF StartSelect
  <2>3. CASE TellMap
    <3>1. /\ selecting # NotSelecting
          /\ selecting' = [selecting EXCEPT !.told = TRUE]
          /\ view' = [view EXCEPT !.time = selecting.time]
          /\ UNCHANGED site
      BY <2>3 DEF TellMap, SelectTime, managers
    <3>2. selecting \in [time : AnyTime, told : BOOLEAN, manager : Made]
      BY <3>1 DEF TypeOK, DisplayTyped, Selecting
    <3>3. selecting'.manager = selecting.manager /\ view'.manager = view.manager
      BY <1>1, <3>1, <3>2
    <3>4. Taken' \subseteq Taken
      BY <3>1, <3>3 DEF Taken
    <3> QED BY <1>2, <2>1, <3>1, <3>3, <3>4
  <2>4. CASE EndSelect
    <3>1. selecting' = NotSelecting /\ UNCHANGED <<site, view>>
      BY <2>4 DEF EndSelect, managers, display
    <3> QED BY <1>2, <2>1, <3>1 DEF Taken
  <2> QED BY <1>14, <2>2, <2>3, <2>4 DEF TimelineStep, Step
<1>15. CASE SweepStep
  <2>1. UNCHANGED <<site, widget, selecting>>
    BY <1>15 DEF SweepStep, Step, StartUpdate, StartInitialize, PostLoad, Adjust,
       EndSweep, managers, display, ticker
  <2> DEFINE Same == /\ view'.manager = view.manager
                     /\ \A c \in Sweepers : sweeping'[c].on =>
                          \/ /\ sweeping[c].on
                             /\ sweeping'[c].manager = sweeping[c].manager
                          \/ sweeping'[c].manager = view.manager
  <2>2. Same
    <3>1. ASSUME NEW c \in Sweepers, Sweep(c, view.manager), UNCHANGED view
          PROVE  Same
      <4>1. \A d \in Sweepers : d # c => sweeping'[d] = sweeping[d]
        BY <1>1, <3>1 DEF Sweep
      <4>2. sweeping'[c].manager = view.manager
        BY <1>1, <3>1 DEF Sweep
      <4> QED BY <3>1, <4>1, <4>2
    <3>2. ASSUME NEW c \in Sweepers, Adjust(c) PROVE Same
      <4>1. /\ sweeping[c].on
            /\ view' = view \/ view' = [view EXCEPT !.time = sweeping[c].found]
            /\ sweeping' = [sweeping EXCEPT ![c].adjusted = TRUE]
        BY <3>2 DEF Adjust
      <4>2. sweeping[c] \in [on : {TRUE}, old : BOOLEAN, manager : Made,
                 asked : AnyTime, adjusted : BOOLEAN, found : AnyTime,
                 sweep : Pictures]
        BY <4>1, SweepFields DEF TypeOK
      <4>3. \A d \in Sweepers : /\ sweeping'[d].on => sweeping[d].on
                                /\ sweeping'[d].on => sweeping'[d].manager = sweeping[d].manager
        BY <1>1, <4>1, <4>2
      <4> QED BY <1>1, <4>1, <4>3
    <3>3. ASSUME NEW c \in Sweepers, EndSweep(c) PROVE Same
      <4>1. /\ view' = view \/ view' = [view EXCEPT !.sweep = sweeping[c].sweep]
            /\ sweeping' = [sweeping EXCEPT ![c] = Idle]
        BY <3>3 DEF EndSweep
      <4>2. \A d \in Sweepers : sweeping'[d].on => sweeping'[d] = sweeping[d]
        BY <1>1, <4>1 DEF Idle
      <4> QED BY <1>1, <4>1, <4>2
    <3>4. CASE PostLoad
      BY <3>4 DEF PostLoad, display
    <3>5. StartUpdate => Sweep("view", view.manager) /\ UNCHANGED view
      BY DEF StartUpdate
    <3>6. StartInitialize => Sweep("widget", view.manager) /\ UNCHANGED view
      BY DEF StartInitialize
    <3> QED BY <1>15, <3>1, <3>2, <3>3, <3>4, <3>5, <3>6 DEF SweepStep, Step, Sweepers
  <2>3. Held' \subseteq Held
    BY <2>1, <2>2 DEF Held
  <2> QED BY <2>1, <2>3
<1>16. CASE LoadStep
  BY <1>2, <1>16 DEF LoadStep, Step, RunLoad, LoadFails, LoadFile, managers,
     display, ticker
<1>17. CASE ServerStep
  BY <1>2, <1>17 DEF ServerStep, Step, Publish, RefreshDataSync, managers,
     display, ticker
<1>18. CASE Destruct \/ UNCHANGED vars
  BY <1>2, <1>18 DEF Destruct, vars, managers, display, ticker
<1>19. CASE Step("gui", CarryTime) \/ Step("gui", Reselect)
  <2>1. /\ UNCHANGED <<site, widget, sweeping, selecting>>
        /\ view' \in {view, [view EXCEPT !.time = gui.carried]}
    BY <1>19 DEF Step, CarryTime, Reselect, managers, display, ticker
  <2>2. view'.manager = view.manager
    BY <1>1, <2>1
  <2> QED BY <1>2, <2>1, <2>2
<1> QED BY <1>7, <1>8, <1>9, <1>10, <1>11, <1>12, <1>13, <1>14, <1>15, <1>16,
           <1>17, <1>18, <1>19 DEF Next, GuiStep

(* A manager that is held keeps what it has listed of what the server has, *)
(* its records and the volumes behind them.                                *)
Keeps(m) ==
  \A p \in Products :
    /\ listed[m][p] \intersect published[site[m]][p] \subseteq listed'[m][p]
    /\ published[site[m]][p] \subseteq published'[site[m]][p]
    /\ keys[m][p] \subseteq keys'[m][p]
    /\ \A k \in Times : file[m][p][k] # NoFile => file'[m][p][k] # NoFile

LEMMA KeptNext ==
  TypeOK /\ Steady /\ [Next]_vars => \A m \in Held : Keeps(m)
<1> SUFFICES ASSUME TypeOK, Steady, [Next]_vars, NEW m \in Held PROVE Keeps(m)
  OBVIOUS
<1>1. /\ listed \in [Ids -> [Products -> SUBSET Times]]
      /\ keys \in [Ids -> [Products -> SUBSET Times]]
      /\ file \in [Ids -> [Products -> [Times -> Times \union {NoFile}]]]
      /\ published \in [Sites -> [Products -> SUBSET Times]]
      /\ view.product \in Products
  BY DEF TypeOK, RecordsTyped, DisplayTyped
<1>2. /\ m \in Made /\ m \in Ids /\ site[m] \in Sites
      /\ \A n \in Made : n \in Ids /\ site[n] \in Sites
  <2>1. m \in Made
    BY HeldMade DEF TypeOK
  <2>2. Len(site) \in Ids /\ Len(site) \in Nat /\ site \in Seq(Sites)
    BY DisplayAssumption DEF TypeOK, DisplayTyped, Ids
  <2> QED BY <2>1, <2>2, DisplayAssumption DEF Made, Ids
<1>3. ASSUME UNCHANGED <<servers, records>> PROVE Keeps(m)
  BY <1>3 DEF Keeps, servers, records
<1>4. ASSUME NEW s, NEW p, NEW k, NEW v \in Times, Store(s, p, k, v),
             UNCHANGED servers
      PROVE  Keeps(m)
  <2>1. CASE Living(s) = {}
    BY <1>3, <1>4, <2>1 DEF Store
  <2>2. CASE Living(s) # {}
    <3> DEFINE i == Instance(s)
    <3>1. /\ keys' = [keys EXCEPT ![i][p] = @ \union {k}]
          /\ file' = [file EXCEPT ![i][p][k] = IF @ = NoFile THEN v ELSE @]
      BY <1>4, <2>2 DEF Store
    <3> HIDE DEF i
    <3>2. UNCHANGED <<listed, published>> /\ v # NoFile
      BY <1>4, DisplayAssumption DEF servers
    <3>3. \A q \in Products : keys[m][q] \subseteq keys'[m][q]
      BY <1>1, <1>2, <3>1
    <3>4. \A q \in Products : \A j \in Times :
            file[m][q][j] # NoFile => file'[m][q][j] # NoFile
      BY <1>1, <1>2, <3>1, <3>2
    <3> QED BY <3>2, <3>3, <3>4 DEF Keeps
  <2> QED BY <2>1, <2>2
<1>5. CASE GuiStep
  <2>1. UNCHANGED <<servers, records>>
    BY <1>5 DEF GuiStep, Step, Deliver, Announce, RequestNew, UpdateReloaded,
       ShowLoaded, ShowFile, CarryTime, Reselect, FinishSwitch, SelectSite,
       SelectProduct, PickTime, GoLive, OpenFile, servers
  <2> QED BY <1>3, <2>1
<1>6. CASE TimelineStep
  <2>1. CASE StartSelect
    <3>1. /\ UNCHANGED <<published, records>>
          /\ listed' = listed \/ listed' = Listed(Instance(timeline.site))
      BY <2>1 DEF StartSelect, SelectLive
    <3>2. \A q \in Products : listed[m][q] \subseteq listed'[m][q]
      <4>1. CASE listed' = listed
        BY <4>1
      <4>2. ASSUME NEW n \in Made, NEW p \in Products,
                   listed' = [listed EXCEPT ![n][p] = Listing(n, p)]
            PROVE  \A q \in Products : listed[m][q] \subseteq listed'[m][q]
        <5>1. listed[n][p] \subseteq Listing(n, p)
          BY DEF Listing
        <5> QED BY <1>1, <1>2, <4>2, <5>1
      <4>3. CASE listed' = Listed(Instance(timeline.site)) /\ listed' # listed
        <5> DEFINE n == Instance(timeline.site)
        <5>1. n \in Made /\ refresh[n] # NoProduct
          BY <4>3 DEF Listed
        <5>2. refresh[n] \in Products
          BY <1>2, <5>1 DEF TypeOK, RecordsTyped
        <5> HIDE DEF n
        <5>3. listed' = [listed EXCEPT ![n][refresh[n]] = Listing(n, refresh[n])]
          BY <4>3, <5>1 DEF Listed, n
        <5> QED BY <4>2, <5>1, <5>2, <5>3
      <4> QED BY <3>1, <4>1, <4>3
    <3> QED BY <3>1, <3>2 DEF Keeps, records
  <2>2. CASE TellMap \/ EndSelect
    BY <1>3, <2>2 DEF TellMap, EndSelect
  <2> QED BY <1>6, <2>1, <2>2 DEF TimelineStep, Step
<1>7. CASE SweepStep
  <2>1. ASSUME NEW c \in Sweepers, NEW n \in Made, Sweep(c, n),
               UNCHANGED <<published, file>>
        PROVE  Keeps(m)
    <3> DEFINE p == view.product
               K == Populated(n, p, view.time)
               T == IF view.time = Latest THEN listed[n][p] ELSE Listing(n, p)
    <3>1. /\ keys' = [keys EXCEPT ![n][p] = K]
          /\ listed' = [listed EXCEPT ![n][p] = T]
      BY <1>1, <1>2, <2>1 DEF Sweep
    <3>2. keys[n][p] \subseteq K /\ listed[n][p] \subseteq T
      BY DEF Populated, Listing
    <3> HIDE DEF K, T, p
    <3>3. n \in Ids
      BY <1>2
    <3>4. \A q \in Products : /\ listed[m][q] \subseteq listed'[m][q]
                              /\ keys[m][q] \subseteq keys'[m][q]
      BY <1>1, <1>2, <3>1, <3>2, <3>3
    <3> QED BY <2>1, <3>4 DEF Keeps
  <2>2. CASE StartUpdate \/ StartInitialize
    <3>1. view.manager \in Made
      BY DEF TypeOK, DisplayTyped
    <3> QED BY <2>1, <2>2, <3>1 DEF StartUpdate, StartInitialize, Sweepers
  <2>3. CASE PostLoad \/ \E c \in Sweepers : Adjust(c) \/ EndSweep(c)
    BY <1>3, <2>3 DEF PostLoad, Adjust, EndSweep
  <2> QED BY <1>7, <2>2, <2>3 DEF SweepStep, Step
<1>8. CASE LoadStep
  <2>1. ASSUME NEW n \in Made, RunLoad(n) PROVE Keeps(m)
    <3>1. PICK l \in pool[n] :
            /\ listed[n][l.product] # {} \/ file[n][l.product][l.time] # NoFile
            /\ Store(site[n], l.product, l.time,
                     IF file[n][l.product][l.time] # NoFile
                     THEN file[n][l.product][l.time]
                     ELSE Bounded(listed[n][l.product], l.time))
            /\ UNCHANGED servers
      BY <2>1 DEF RunLoad
    <3>2. l.product \in Products /\ l.time \in Times
      BY <1>2 DEF TypeOK, RecordsTyped, Loads, Updates
    <3>3. listed[n][l.product] # {} =>
             Bounded(listed[n][l.product], l.time) \in Times
      <4>1. listed[n][l.product] \in SUBSET Times
        BY <1>1, <1>2, <3>2
      <4>2. /\ listed[n][l.product] \in SUBSET Nat /\ l.time \in Nat
            /\ IsFiniteSet(listed[n][l.product])
        BY <3>2, <4>1, TimeFacts, FS_Subset, DisplayAssumption
      <4> QED BY <4>1, <4>2, BoundedFacts
    <3>4. file[n][l.product][l.time] \in Times \union {NoFile}
      BY <1>1, <1>2, <3>2
    <3> QED BY <1>4, <3>1, <3>3, <3>4
  <2>2. ASSUME NEW n \in Made, LoadFails(n) PROVE Keeps(m)
    BY <1>3, <2>2 DEF LoadFails
  <2>3. ASSUME NEW f \in Files, LoadFile(f) PROVE Keeps(m)
    <3>1. f.time \in Times
      BY DisplayAssumption DEF Volumes
    <3>2. Store(f.site, f.product, f.time, f.time) /\ UNCHANGED servers
      BY <2>3 DEF LoadFile
    <3> QED BY <1>4, <3>1, <3>2
  <2> QED BY <1>8, <2>1, <2>2, <2>3 DEF LoadStep, Step
<1>9. CASE ServerStep
  <2>1. CASE Publish
    <3>1. /\ UNCHANGED <<listed, records>>
          /\ \E u \in Uploads :
               published' = [published EXCEPT ![u.site][u.product] = @ \union {u.time}]
      BY <2>1 DEF Publish
    <3>2. \A q \in Products : published[site[m]][q] \subseteq published'[site[m]][q]
      BY <1>1, <1>2, <3>1
    <3> QED BY <3>1, <3>2 DEF Keeps, records
  <2>2. ASSUME NEW n \in Made, RefreshDataSync(n) PROVE Keeps(m)
    <3> DEFINE p == refresh[n]
    <3>1. /\ listed' = [listed EXCEPT ![n][p] = published[site[n]][p]]
          /\ UNCHANGED <<published, records>>
      BY <2>2 DEF RefreshDataSync
    <3> HIDE DEF p
    <3>2. \A q \in Products :
            listed[m][q] \intersect published[site[m]][q] \subseteq listed'[m][q]
      BY <1>1, <1>2, <3>1
    <3> QED BY <3>1, <3>2 DEF Keeps, records
  <2> QED BY <1>9, <2>1, <2>2 DEF ServerStep, Step
<1>10. CASE Destruct
  <2>1. PICK d \in dying : LockLoads(d) \/ Join(d)
    BY <1>10 DEF Destruct
  <2>2. d.manager # m
    BY DEF Steady, Gone
  <2>3. UNCHANGED published
    BY <1>10 DEF Destruct
  <2>4. \A q \in Products : /\ listed'[m][q] = listed[m][q]
                            /\ keys'[m][q] = keys[m][q] /\ file'[m][q] = file[m][q]
    BY <1>1, <1>2, <2>1, <2>2 DEF LockLoads, Join, records
  <2> QED BY <2>3, <2>4 DEF Keeps
<1>11. CASE UNCHANGED vars
  BY <1>3, <1>11 DEF vars
<1> QED BY <1>5, <1>6, <1>7, <1>8, <1>9, <1>10, <1>11 DEF Next

(* A signal that announces a volume is an earlier one, or tells of what    *)
(* was just listed.                                                        *)
Announces(e) == e.kind \in {"announced", "new"}
Backed(e) == /\ e.time \in listed[e.manager][e.product]
             /\ e.time \in published[site[e.manager]][e.product]
Backs(e) == /\ e.time \in listed'[e.manager][e.product]
            /\ e.time \in published'[site'[e.manager]][e.product]
SameNews(d, e) == /\ Announces(d) /\ d.manager = e.manager
                  /\ d.product = e.product /\ d.time = e.time

LEMMA NewsNext ==
  TypeOK /\ [Next]_vars =>
    \A e \in ToSet(events') : Announces(e) =>
      (\E d \in ToSet(events) : SameNews(d, e)) \/ Backs(e)
<1> SUFFICES ASSUME TypeOK, [Next]_vars
             PROVE  \A e \in ToSet(events') : Announces(e) =>
                      (\E d \in ToSet(events) : SameNews(d, e)) \/ Backs(e)
  OBVIOUS
<1>1. events \in Seq(Signals)
  BY DEF TypeOK, ControlTyped
<1>2. ASSUME \A e \in ToSet(events') : Announces(e) => e \in ToSet(events)
      PROVE  \A e \in ToSet(events') : Announces(e) =>
               \E d \in ToSet(events) : SameNews(d, e)
  BY <1>2 DEF SameNews
<1>3. CASE UNCHANGED events
  BY <1>2, <1>3
<1>4. ASSUME NEW r, r \in Seq(Signals), events' = events \o r,
             \A e \in ToSet(r) : ~Announces(e)
      PROVE  \A e \in ToSet(events') : Announces(e) => e \in ToSet(events)
  <2> DEFINE z == events \o r
  <2>1. /\ Len(z) = Len(events) + Len(r) /\ z \in Seq(Signals)
        /\ Len(events) \in Nat /\ Len(r) \in Nat
        /\ \A i \in 1 .. Len(z) :
             z[i] = IF i <= Len(events) THEN events[i] ELSE r[i - Len(events)]
    BY <1>1, <1>4, ConcatProperties
  <2>2. DOMAIN z = 1 .. Len(z) /\ DOMAIN r = 1 .. Len(r)
        /\ DOMAIN events = 1 .. Len(events)
    BY <1>1, <1>4, <2>1
  <2>3. events' = z
    BY <1>4
  <2> HIDE DEF z
  <2>4. ASSUME NEW i \in DOMAIN z PROVE z[i] \in ToSet(events) \/ z[i] \in ToSet(r)
    <3>1. CASE i <= Len(events)
      <4>1. i \in DOMAIN events /\ z[i] = events[i]
        BY <2>1, <2>2, <3>1
      <4> QED BY <4>1 DEF ToSet
    <3>2. CASE ~ (i <= Len(events))
      <4>1. i - Len(events) \in DOMAIN r /\ z[i] = r[i - Len(events)]
        BY <2>1, <2>2, <3>2
      <4> QED BY <4>1 DEF ToSet
    <3> QED BY <3>1, <3>2
  <2> SUFFICES ASSUME NEW e \in ToSet(z), Announces(e) PROVE e \in ToSet(events)
    BY <2>3
  <2>5. PICK i \in DOMAIN z : e = z[i]
    BY DEF ToSet
  <2> QED BY <1>4, <2>4, <2>5
<1>5. CASE Step("gui", Deliver)
  <2> DEFINE e == Head(events)
  <2>1. /\ events # <<>> /\ e \in Signals /\ Rest \in Seq(Signals)
        /\ ToSet(events) = {e} \union ToSet(Rest)
    BY <1>1, <1>5, HeadTailToSet DEF Step, Deliver, Rest
  <2> HIDE DEF e
  <2>2. CASE events' = Rest
    BY <1>2, <2>1, <2>2
  <2>3. CASE events' = Append(Rest, [e EXCEPT !.kind = "new"]) /\ e.kind = "announced"
    <3> DEFINE n == [e EXCEPT !.kind = "new"]
    <3>1. e \in [kind : {"announced", "new", "reloaded"}, manager : Made,
                 product : Products, time : Times]
      BY <2>1, <2>3 DEF Signals
    <3>2. n \in Signals /\ SameNews(e, n)
      BY <2>3, <3>1 DEF Signals, SameNews, Announces
    <3> HIDE DEF n
    <3>3. ToSet(events') = ToSet(Rest) \union {n}
      BY <2>1, <2>3, <3>2, AppendToSet DEF n
    <3> QED BY <2>1, <3>2, <3>3 DEF SameNews
  <2>4. \/ events' = Rest
        \/ events' = Append(Rest, [e EXCEPT !.kind = "new"]) /\ e.kind = "announced"
    BY <1>5 DEF Step, Deliver, Announce, RequestNew, UpdateReloaded, ShowLoaded, e
  <2> QED BY <2>2, <2>3, <2>4
<1>6. CASE LoadStep
  <2>1. ASSUME NEW m \in Made, RunLoad(m)
        PROVE  \A e \in ToSet(events') : Announces(e) => e \in ToSet(events)
    <3>1. PICK l \in pool[m] : events' = events \o Reply(m, l)
      BY <2>1 DEF RunLoad
    <3>2. m \in Ids /\ site[m] \in Sites
      <4>1. Len(site) \in Ids /\ Len(site) \in Nat /\ site \in Seq(Sites)
        BY DisplayAssumption DEF TypeOK, DisplayTyped, Ids
      <4> QED BY <4>1, DisplayAssumption DEF Made, Ids
    <3>3. l \in Loads
      BY <3>2 DEF TypeOK, RecordsTyped
    <3>4. Reply(m, l) \in Seq(Signals)
      BY <3>2, <3>3, ReplyTyped
    <3>5. \A e \in ToSet(Reply(m, l)) : ~Announces(e)
      BY DEF ToSet, Reply, Announces
    <3> QED BY <1>4, <3>1, <3>4, <3>5
  <2>2. ASSUME NEW m \in Made, LoadFails(m) PROVE UNCHANGED events
    BY <2>2 DEF LoadFails
  <2>3. ASSUME NEW f \in Files, LoadFile(f)
        PROVE  \A e \in ToSet(events') : Announces(e) => e \in ToSet(events)
    <3> DEFINE o == [kind |-> "opened", file |-> f]
    <3>1. events' = Append(events, o) /\ o \in Signals /\ ~Announces(o)
      BY <2>3 DEF LoadFile, Signals, Announces
    <3> HIDE DEF o
    <3>2. ToSet(events') = ToSet(events) \union {o}
      BY <1>1, <3>1, AppendToSet
    <3> QED BY <3>1, <3>2
  <2> QED BY <1>2, <1>3, <1>6, <2>1, <2>2, <2>3 DEF LoadStep, Step
<1>7. CASE ServerStep
  <2>1. ASSUME NEW m \in Made, RefreshDataSync(m)
        PROVE  \A e \in ToSet(events') : Announces(e) =>
                 (\E d \in ToSet(events) : SameNews(d, e)) \/ Backs(e)
    <3> DEFINE p == refresh[m]
               P == published[site[m]][p]
               n == [kind |-> "announced", manager |-> m, product |-> p,
                     time |-> Max(P)]
    <3>1. /\ p # NoProduct /\ ~ (P \subseteq listed[m][p])
          /\ listed' = [listed EXCEPT ![m][p] = P]
          /\ events' = Append(events, n) /\ UNCHANGED <<published, site>>
      BY <2>1 DEF RefreshDataSync, managers
    <3>2. m \in Ids /\ site[m] \in Sites
      <4>1. Len(site) \in Ids /\ Len(site) \in Nat /\ site \in Seq(Sites)
        BY DisplayAssumption DEF TypeOK, DisplayTyped, Ids
      <4> QED BY <4>1, DisplayAssumption DEF Made, Ids
    <3>3. p \in Products /\ P \subseteq Times
      BY <3>1, <3>2 DEF TypeOK, RecordsTyped
    <3>4. P # {}
      BY <3>1
    <3>5. Max(P) \in P /\ Max(P) \in Times
      <4> HIDE DEF P
      <4> QED BY <3>3, <3>4, TimeFacts
    <3>6. n \in Signals
      BY <3>3, <3>5 DEF Signals
    <3>7. listed'[m][p] = P /\ published'[site'[m]][p] = P
      <4>1. listed \in [Ids -> [Products -> SUBSET Times]]
        BY DEF TypeOK, RecordsTyped
      <4> QED BY <3>1, <3>2, <3>3, <4>1
    <3>8. Backs(n)
      BY <3>5, <3>7 DEF Backs
    <3> HIDE DEF n
    <3>9. ToSet(events') = ToSet(events) \union {n}
      BY <1>1, <3>1, <3>6, AppendToSet
    <3> SUFFICES ASSUME NEW e \in ToSet(events'), Announces(e)
                 PROVE  (\E d \in ToSet(events) : SameNews(d, e)) \/ Backs(e)
      OBVIOUS
    <3>10. CASE e = n
      BY <3>8, <3>10
    <3>11. CASE e \in ToSet(events)
      BY <3>11 DEF SameNews
    <3> QED BY <3>9, <3>10, <3>11
  <2>2. Publish => UNCHANGED events
    BY DEF Publish
  <2> QED BY <1>3, <1>7, <2>1, <2>2 DEF ServerStep, Step
<1>8. CASE \/ Step("gui", CarryTime) \/ Step("gui", Reselect)
           \/ Step("gui", FinishSwitch)
           \/ \E s \in Sites : Step("gui", SelectSite(s))
           \/ \E p \in Products : Step("gui", SelectProduct(p))
           \/ \E t \in Picks : Step("gui", PickTime(t))
           \/ Step("gui", GoLive)
           \/ \E f \in Files : Step("gui", OpenFile(f))
           \/ TimelineStep \/ SweepStep \/ Destruct \/ UNCHANGED vars
  <2>1. UNCHANGED events
    BY <1>8 DEF Step, CarryTime, Reselect, FinishSwitch, SelectSite,
       SelectProduct, PickTime, GoLive, OpenFile, TimelineStep, StartSelect, TellMap, EndSelect, SweepStep,
       StartUpdate, StartInitialize, PostLoad, Adjust, EndSweep, Destruct, vars
  <2> QED BY <1>3, <2>1
<1> QED BY <1>5, <1>6, <1>7, <1>8 DEF Next, GuiStep

(* So a manager that is held has listed what it announces. *)
LEMMA HeardNext ==
  TypeOK /\ Steady /\ Heard /\ [Next]_vars => Heard'
<1> SUFFICES ASSUME TypeOK, Steady, Heard, [Next]_vars,
                    NEW e \in ToSet(events'), Announces(e), e.manager \in Held'
             PROVE  Backs(e)
  BY DEF Heard, Announces, Backs
<1>1. (\E d \in ToSet(events) : SameNews(d, e)) \/ Backs(e)
  BY NewsNext
<1>2. ASSUME NEW d \in ToSet(events), SameNews(d, e) PROVE Backs(e)
  <2>1. d \in Signals
    BY DEF ToSet, TypeOK, ControlTyped
  <2>2. d.manager \in Made /\ d.product \in Products
    BY <1>2, <2>1 DEF Signals, SameNews, Announces
  <2>3. d.manager \in Held /\ site'[d.manager] = site[d.manager]
    BY <1>2, <2>2, HeldNext DEF SameNews
  <2>4. Backed(d)
    BY <1>2, <2>3 DEF Heard, SameNews, Announces, Backed
  <2>5. Keeps(d.manager)
    BY <2>3, KeptNext
  <2>6. Backs(d)
    BY <2>2, <2>3, <2>4, <2>5 DEF Keeps, Backed, Backs
  <2> QED BY <1>2, <2>6 DEF SameNews, Backs
<1> QED BY <1>1, <1>2

(* A selection of another product leaves no sweep under way for the view.  *)
LEMMA SelectDoing ==
  ASSUME TypeOK, NEW m, NEW p, NEW t, NEW u, NEW on, Select(m, p, t, u, on)
  PROVE  \/ /\ p = view.product /\ view'.product = view.product
            /\ UNCHANGED <<sweeping, widgetPool>>
            /\ updates' = updates + (IF u THEN 1 ELSE 0)
         \/ p # view.product /\ Doing' = {}
<1>1. CASE p = view.product
  <2>1. view' = [view EXCEPT !.time = t] /\ UNCHANGED <<sweeping, widgetPool>>
        /\ updates' = updates + (IF u THEN 1 ELSE 0)
    BY <1>1 DEF Select
  <2> QED BY <1>1, <2>1 DEF TypeOK, DisplayTyped
<1>2. CASE p # view.product
  <2>1. /\ ~sweeping["view"].on
        /\ sweeping' = IF sweeping["widget"].on
                       THEN [sweeping EXCEPT !["widget"].old = TRUE]
                       ELSE sweeping
    BY <1>2 DEF Select, Drained
  <2>2. sweeping \in [Sweepers -> Sweeping]
    BY DEF TypeOK, DisplayTyped
  <2>3. CASE ~sweeping["widget"].on
    BY <1>2, <2>1, <2>3 DEF Doing, Sweepers
  <2>4. CASE sweeping["widget"].on
    <3>1. sweeping["widget"] \in [on : {TRUE}, old : BOOLEAN, manager : Made,
               asked : AnyTime, adjusted : BOOLEAN, found : AnyTime,
               sweep : Pictures]
      BY <2>4, SweepFields DEF TypeOK, Sweepers
    <3>2. sweeping'["widget"].old /\ ~sweeping'["view"].on
      BY <2>1, <2>2, <2>4, <3>1 DEF Sweepers
    <3> QED BY <1>2, <3>2 DEF Doing, Sweepers
  <2> QED BY <2>3, <2>4
<1> QED BY <1>1, <1>2

(* A sweep that begins or goes on is of the product of the view. *)
LEMMA LevelsNext ==
  TypeOK /\ Levels /\ [Next]_vars => Levels'
<1> SUFFICES ASSUME TypeOK, Levels, [Next]_vars PROVE Levels'
  OBVIOUS
<1>1. /\ view \in [manager : Made, product : Products, time : AnyTime,
                   sweep : Pictures]
      /\ sweeping \in [Sweepers -> Sweeping]
  BY DEF TypeOK, DisplayTyped
<1>2. ASSUME UNCHANGED sweeping, view'.product = view.product
      PROVE  Levels'
  BY <1>2 DEF Levels, Doing
<1>3. ASSUME Doing' = {} PROVE Levels'
  BY <1>3 DEF Levels
<1>4. ASSUME NEW m, NEW p, NEW t, NEW on, Select(m, p, t, TRUE, on)
      PROVE  Levels'
  BY <1>2, <1>3, <1>4, SelectDoing
<1>5. ASSUME NEW t, SelectTime(t) PROVE view'.product = view.product
  BY <1>1, <1>5 DEF SelectTime
<1>6. ASSUME NEW s, NEW live, SelectLive(s, live) PROVE view'.product = view.product
  BY <1>5, <1>6 DEF SelectLive
<1>7. ASSUME NEW s, NEW p, NEW t, NEW on, SelectRecord(s, p, t, on) PROVE Levels'
  BY <1>4, <1>7 DEF SelectRecord
<1>8. CASE Step("gui", Deliver)
  <2> DEFINE e == Head(events)
  <2>1. CASE Announce(e) \/ RequestNew(e) \/ UpdateReloaded(e)
    BY <1>2, <2>1 DEF Announce, RequestNew, UpdateReloaded, display
  <2>2. CASE ShowLoaded(e)
    BY <1>2, <1>4, <1>7, <2>2 DEF ShowLoaded, display
  <2>3. CASE ShowFile(e.file)
    BY <1>7, <2>3 DEF ShowFile
  <2> QED BY <1>8, <2>1, <2>2, <2>3 DEF Step, Deliver
<1>9. CASE Step("gui", FinishSwitch)
  <2>1. UNCHANGED sweeping /\ (SelectLive(site[widget], TRUE) \/ UNCHANGED view)
    BY <1>9 DEF Step, FinishSwitch
  <2> QED BY <1>2, <1>6, <2>1
<1>16. CASE Step("gui", CarryTime) \/ Step("gui", Reselect)
  <2>1. /\ UNCHANGED sweeping
        /\ view' \in {view, [view EXCEPT !.time = gui.carried]}
    BY <1>16 DEF Step, CarryTime, Reselect, display
  <2> QED BY <1>1, <1>2, <2>1
<1>10. CASE \E s \in Sites : Step("gui", SelectSite(s))
  <2>1. PICK s \in Sites : /\ view' = [view EXCEPT !.manager = Instance(s)]
                           /\ UNCHANGED sweeping
    BY <1>10 DEF Step, SelectSite
  <2> QED BY <1>1, <1>2, <2>1
<1>11. CASE \E p \in Products : Step("gui", SelectProduct(p))
  BY <1>4, <1>11 DEF Step, SelectProduct
<1>12. CASE \/ \E t \in Picks : Step("gui", PickTime(t))
            \/ Step("gui", GoLive)
            \/ \E f \in Files : Step("gui", OpenFile(f))
  BY <1>2, <1>6, <1>7, <1>12 DEF Step, PickTime, GoLive, OpenFile, ShowFile,
     display
<1>13. CASE TimelineStep
  <2>1. /\ UNCHANGED sweeping
        /\ \/ UNCHANGED view \/ SelectTime(selecting.time)
           \/ SelectLive(timeline.site, timeline.live)
    BY <1>13 DEF TimelineStep, Step, StartSelect, TellMap, EndSelect, display
  <2> QED BY <1>2, <1>5, <1>6, <2>1
<1>14. CASE SweepStep
  <2>1. ASSUME NEW c \in Sweepers, Sweep(c, view.manager), UNCHANGED view
        PROVE  Levels'
    <3>1. /\ {d \in Sweepers : sweeping[d].on /\ ~sweeping[d].old} = {}
          /\ \A d \in Sweepers : d # c => sweeping'[d] = sweeping[d]
          /\ sweeping'[c].adjusted = (view.product = Level2)
      BY <1>1, <2>1 DEF Sweep
    <3>2. Doing' \subseteq {c}
      BY <3>1 DEF Doing
    <3> QED BY <2>1, <3>1, <3>2 DEF Levels
  <2>2. ASSUME NEW c \in Sweepers, Adjust(c) PROVE Levels'
    <3>1. /\ sweeping[c].on
          /\ view' = view \/ view' = [view EXCEPT !.time = sweeping[c].found]
          /\ sweeping' = [sweeping EXCEPT ![c].adjusted = TRUE]
      BY <2>2 DEF Adjust
    <3>2. sweeping[c] \in [on : {TRUE}, old : BOOLEAN, manager : Made,
             asked : AnyTime, adjusted : BOOLEAN, found : AnyTime,
             sweep : Pictures]
      BY <3>1, SweepFields DEF TypeOK
    <3>3. /\ sweeping'[c].adjusted /\ view'.product = view.product
          /\ \A d \in Sweepers : d # c => sweeping'[d] = sweeping[d]
      BY <1>1, <3>1, <3>2
    <3> QED BY <3>3 DEF Levels, Doing
  <2>3. ASSUME NEW c \in Sweepers, EndSweep(c) PROVE Levels'
    <3>1. /\ view' = view \/ view' = [view EXCEPT !.sweep = sweeping[c].sweep]
          /\ sweeping' = [sweeping EXCEPT ![c] = Idle]
      BY <2>3 DEF EndSweep
    <3>2. /\ view'.product = view.product /\ ~sweeping'[c].on
          /\ \A d \in Sweepers : d # c => sweeping'[d] = sweeping[d]
      BY <1>1, <3>1 DEF Idle
    <3> QED BY <3>2 DEF Levels, Doing
  <2>4. PostLoad => Levels'
    BY <1>2 DEF PostLoad, display
  <2>5. StartUpdate => Sweep("view", view.manager) /\ UNCHANGED view
    BY DEF StartUpdate
  <2>6. StartInitialize => Sweep("widget", view.manager) /\ UNCHANGED view
    BY DEF StartInitialize
  <2> QED BY <1>14, <2>1, <2>2, <2>3, <2>4, <2>5, <2>6 DEF SweepStep, Step, Sweepers
<1>15. CASE LoadStep \/ ServerStep \/ Destruct \/ UNCHANGED vars
  <2>1. UNCHANGED <<sweeping, view>>
    BY <1>15 DEF LoadStep, ServerStep, Step, RunLoad, LoadFails, LoadFile,
       Publish, RefreshDataSync, Destruct, vars, display
  <2> QED BY <1>2, <2>1
<1> QED BY <1>8, <1>9, <1>10, <1>11, <1>12, <1>13, <1>14, <1>15, <1>16
        DEF Next, GuiStep

(* A record is stored with the volume of its own time, but for the misdated *)
(* one that is excepted.                                                    *)
LEMMA OwnTimesNext ==
  TypeOK /\ OwnTimes /\ [Next]_vars => OwnTimes'
<1> SUFFICES ASSUME TypeOK, OwnTimes, [Next]_vars, upsets' = {}
             PROVE  \A m \in Ids, p \in Products, k \in Times :
                      file'[m][p][k] \in {k, NoFile}
  BY DEF OwnTimes
<1>1. \A m \in Ids, p \in Products, k \in Times : file[m][p][k] \in {k, NoFile}
  <2>1. upsets = {}
    BY UpsetsGrow
  <2> QED BY <2>1 DEF OwnTimes
<1>2. file \in [Ids -> [Products -> [Times -> Times \union {NoFile}]]]
  BY DEF TypeOK, RecordsTyped
<1>3. CASE UNCHANGED file
  BY <1>1, <1>3
<1>4. ASSUME NEW s, NEW p, NEW k, Store(s, p, k, k)
      PROVE  \A n \in Ids, q \in Products, j \in Times :
               file'[n][q][j] \in {j, NoFile}
  <2>1. CASE Living(s) = {}
    BY <1>3, <1>4, <2>1 DEF Store, records
  <2>2. CASE Living(s) # {}
    <3> DEFINE i == Instance(s)
    <3>1. file' = [file EXCEPT ![i][p][k] = IF @ = NoFile THEN k ELSE @]
      BY <1>4, <2>2 DEF Store
    <3> HIDE DEF i
    <3> QED BY <1>1, <1>2, <3>1
  <2> QED BY <2>1, <2>2
<1>5. CASE LoadStep
  <2>1. ASSUME NEW m \in Made, RunLoad(m)
        PROVE  \A n \in Ids, q \in Products, j \in Times :
                 file'[n][q][j] \in {j, NoFile}
    <3> DEFINE V(l) == IF file[m][l.product][l.time] # NoFile
                       THEN file[m][l.product][l.time]
                       ELSE Bounded(listed[m][l.product], l.time)
    <3>1. PICK l \in pool[m] :
            /\ Store(site[m], l.product, l.time, V(l))
            /\ upsets' = upsets \union (IF V(l) # l.time THEN {"misdated"} ELSE {})
      BY <2>1 DEF RunLoad
    <3>2. V(l) = l.time
      BY <3>1
    <3> HIDE DEF V
    <3> QED BY <1>4, <3>1, <3>2
  <2>2. ASSUME NEW m \in Made, LoadFails(m) PROVE UNCHANGED file
    BY <2>2 DEF LoadFails, records
  <2>3. ASSUME NEW f \in Files, LoadFile(f)
        PROVE  \A n \in Ids, q \in Products, j \in Times :
                 file'[n][q][j] \in {j, NoFile}
    BY <1>4, <2>3 DEF LoadFile
  <2> QED BY <1>3, <1>5, <2>1, <2>2, <2>3 DEF LoadStep, Step
<1>6. CASE Destruct
  <2>1. PICK d \in dying : LockLoads(d) \/ Join(d)
    BY <1>6 DEF Destruct
  <2>2. CASE LockLoads(d)
    BY <1>3, <2>2 DEF LockLoads, records
  <2>3. CASE Join(d)
    <3>1. file' = [file EXCEPT ![d.manager] = NoFiles]
      BY <2>3 DEF Join
    <3> QED BY <1>1, <1>2, <3>1 DEF NoFiles
  <2> QED BY <2>1, <2>2, <2>3
<1>7. CASE GuiStep \/ TimelineStep \/ SweepStep \/ ServerStep \/ UNCHANGED vars
  <2>1. UNCHANGED file
    BY <1>7 DEF GuiStep, Step, Deliver, Announce, RequestNew, UpdateReloaded,
       ShowLoaded, ShowFile, CarryTime, Reselect, FinishSwitch, SelectSite,
       SelectProduct, PickTime, GoLive, OpenFile, TimelineStep, StartSelect, TellMap, EndSelect,
       SweepStep, StartUpdate, StartInitialize, PostLoad, Adjust, EndSweep,
       ServerStep, Publish, RefreshDataSync, vars, records
  <2> QED BY <1>3, <2>1
<1> QED BY <1>5, <1>6, <1>7 DEF Next

(* What is due is a volume, which the manager of the map keeps in memory   *)
(* and in the listing.                                                     *)
LEMMA DueFacts ==
  ASSUME TypeOK, Steady, [Next]_vars, due # NoTime,
         UNCHANGED <<due, widget>>, view'.product = view.product
  PROVE  /\ site'[widget] = site[widget]
         /\ Job' = Job /\ Answer' = Answer
         /\ InMemory => InMemory'
         /\ /\ due \in listed[widget][view.product]
            /\ due \in published[site[widget]][view.product]
            => /\ due \in listed'[widget][view.product]
               /\ due \in published'[site[widget]][view.product]
<1>1. widget \in Made /\ widget \in Held /\ view.product \in Products /\ due \in Times
  BY DEF TypeOK, DisplayTyped, GhostsTyped, Held
<1>2. site'[widget] = site[widget]
  BY <1>1, HeldNext
<1>3. Keeps(widget)
  BY <1>1, KeptNext
<1> QED BY <1>1, <1>2, <1>3 DEF Keeps, Job, Answer, InMemory

(* A load that is to come stays so while it is neither run nor told. *)
LEMMA ComingStays ==
  ASSUME TypeOK, Steady, [Next]_vars, due # NoTime,
         UNCHANGED <<due, widget>>, view'.product = view.product,
         Job \in ToSet(widgetPool) =>
           Job \in ToSet(widgetPool') \/ Job \in pool'[widget],
         Job \in pool[widget] => Job \in pool'[widget],
         Answer \in ToSet(events) => Answer \in ToSet(events')
  PROVE  Coming => Coming'
<1>1. Job' = Job /\ Answer' = Answer /\ (InMemory => InMemory')
  BY DueFacts
<1> QED BY <1>1 DEF Coming

(* A step that leaves the selection and the sweeps alone, or ends one.     *)
LEMMA FollowsStays ==
  ASSUME TypeOK, Steady, Follows, [Next]_vars, upsets = {}, due # NoTime,
         UNCHANGED <<due, widget, chosen, seen>>, view'.product = view.product,
         \A c \in Doing' : c \in Doing /\ sweeping'[c] = sweeping[c],
         updates > 0 => updates' > 0,
         InitJob \in ToSet(widgetPool) => InitJob \in ToSet(widgetPool'),
         Coming => Coming'
  PROVE  Follows'
<1>1. /\ site'[widget] = site[widget]
      /\ InMemory => InMemory'
      /\ /\ due \in listed[widget][view.product]
         /\ due \in published[site[widget]][view.product]
         => /\ due \in listed'[widget][view.product]
            /\ due \in published'[site[widget]][view.product]
  BY DueFacts
<1>2. Newest => Newest'
  BY <1>1 DEF Newest, Ahead
<1> QED BY <1>1, <1>2 DEF Follows

(* The first records a query of level 3 finds for a time that is not older *)
(* are not older.                                                          *)
LEMMA FoundNotOlder ==
  ASSUME NEW p \in Products, p # Level2, NEW K \in SUBSET Times, NEW d \in K,
         NEW t \in AnyTime, d <= t
  PROVE  /\ Candidates(p, K, t) # {}
         /\ d <= Max(Candidates(p, K, t))
<1> DEFINE b == Bounded(K, t)
           C == Candidates(p, K, t)
<1>1. /\ K \in SUBSET Nat /\ IsFiniteSet(K) /\ t \in Nat /\ d \in Times
      /\ d \in Nat /\ d # 0
  BY TimeFacts, DisplayAssumption, FS_Subset
<1>2. t # Latest
  BY <1>1, TimeFacts
<1>3. b \in K /\ d <= b
  BY <1>1, BoundedFacts
<1>4. C = {b}
  BY <1>2 DEF Candidates
<1> HIDE DEF C, b
<1>5. Max(C) = b
  <2>1. C \in SUBSET Times /\ C # {}
    BY <1>3, <1>4
  <2>2. Max(C) \in C
    BY <2>1, TimeFacts
  <2> QED BY <1>4, <2>2
<1> QED BY <1>3, <1>4, <1>5 DEF C

(* A sweep that begins sees what is due: it is in memory. *)
LEMMA SweepFollows ==
  ASSUME TypeOK, Steady, Sound, Follows, [Next]_vars,
         upsets = {}, due # NoTime,
         Step("view", StartUpdate) \/ Step("widget", StartInitialize)
  PROVE  Follows'
<1> DEFINE m == view.manager
           p == view.product
           t == view.time
           K == Populated(m, p, t)
           C == Candidates(p, K, t)
<1>1. PICK c \in Sweepers :
        /\ Sweep(c, m)
        /\ \/ UNCHANGED widgetPool
           \/ /\ widgetPool # <<>> /\ Head(widgetPool) = InitJob
              /\ widgetPool' = Tail(widgetPool)
        /\ UNCHANGED <<events, widget, view, chosen, due>>
  BY DEF Step, StartUpdate, StartInitialize, Sweepers
<1>2. view.manager = widget /\ chosen = view.time
  BY DEF Sound, Aimed
<1>3. /\ widget \in Ids /\ p \in Products /\ due \in Times /\ t \in AnyTime
      /\ pool \in [Ids -> SUBSET Loads]
      /\ widgetPool \in Seq(Updates \union {InitJob})
      /\ sweeping \in [Sweepers -> Sweeping]
  BY HeldMade, DisplayAssumption DEF TypeOK, RecordsTyped, DisplayTyped,
     GhostsTyped, Made, Ids
<1>4. /\ keys' = [keys EXCEPT ![m][p] = K] /\ seen' = K
      /\ pool[widget] \subseteq pool'[widget]
      /\ {d \in Sweepers : sweeping[d].on /\ ~sweeping[d].old} = {}
      /\ \A d \in Sweepers : d # c => sweeping'[d] = sweeping[d]
      /\ sweeping'[c].adjusted = (p = Level2)
      /\ sweeping'[c].found = IF p = Level2 \/ C = {} THEN t ELSE Max(C)
  <2>1. pool[widget] \subseteq pool'[widget]
    BY <1>1, <1>3 DEF Sweep
  <2>2. /\ \A d \in Sweepers : d # c => sweeping'[d] = sweeping[d]
        /\ sweeping'[c].adjusted = (p = Level2)
        /\ sweeping'[c].found = IF p = Level2 \/ C = {} THEN t ELSE Max(C)
    BY <1>1, <1>3 DEF Sweep
  <2> QED BY <1>1, <2>1, <2>2 DEF Sweep
<1>5. /\ site'[widget] = site[widget]
      /\ due \in listed'[widget][p] /\ due \in published'[site[widget]][p]
      /\ InMemory => InMemory'
  BY <1>1, DueFacts DEF Follows
<1>6. Coming => Coming'
  <2>1. Job # InitJob
    BY DEF Job, InitJob
  <2>2. Job \in ToSet(widgetPool) => Job \in ToSet(widgetPool')
    BY <1>1, <1>3, <2>1, HeadTailToSet
  <2> QED BY <1>1, <1>4, <2>2, ComingStays
<1>7. ASSUME Newest PROVE Newest'
  <2>1. K \in SUBSET Times
    BY <1>1, <1>4, SweepTyped DEF TypeOK, DisplayTyped
  <2>2. due \in K
    BY <1>2, <1>7 DEF Newest, InMemory, Populated
  <2> HIDE DEF K
  <2>3. Doing' \subseteq {c}
    BY <1>4 DEF Doing
  <2>4. Ahead(sweeping[c])'
    <3>1. CASE p = Level2
      BY <1>4, <3>1 DEF Ahead
    <3>2. CASE p # Level2
      <4>1. due <= t
        BY <1>2, <1>7, <3>2 DEF Newest
      <4> HIDE DEF p, t
      <4>2. C # {} /\ due <= Max(C)
        BY <1>3, <2>1, <2>2, <3>2, <4>1, FoundNotOlder
      <4> QED BY <1>1, <1>4, <3>2, <4>2 DEF Ahead
    <3> QED BY <3>1, <3>2
  <2> QED BY <1>1, <1>4, <1>5, <1>7, <2>2, <2>3, <2>4 DEF Newest
<1> QED BY <1>1, <1>5, <1>6, <1>7 DEF Follows

(* A time that is taken over is not older than what is due, unless another *)
(* selection was overtaken.                                                *)
LEMMA AdjustFollows ==
  ASSUME TypeOK, Steady, Levels, Follows, [Next]_vars,
         upsets' = {}, due # NoTime,
         NEW c \in Sweepers, Step(c, Adjust(c))
  PROVE  Follows'
<1> DEFINE w == sweeping[c]
<1>0. upsets = {}
  BY UpsetsGrow
<1>1. /\ w.on /\ ~w.adjusted
      /\ sweeping' = [sweeping EXCEPT ![c].adjusted = TRUE]
      /\ UNCHANGED <<loading, widget, updates, widgetPool, events, seen, due>>
      /\ \/ /\ w.old \/ w.found = w.asked
            /\ UNCHANGED <<view, chosen>>
         \/ /\ ~w.old /\ w.found # w.asked /\ seen # {}
            /\ view' = [view EXCEPT !.time = w.found]
            /\ chosen' = w.found
  BY DEF Step, Adjust
<1>2. /\ view'.product = view.product /\ UNCHANGED pool
      /\ \A d \in Sweepers : d # c => sweeping'[d] = sweeping[d]
      /\ sweeping'[c].adjusted /\ sweeping'[c].old = w.old /\ sweeping'[c].on
  <2>1. w \in [on : {TRUE}, old : BOOLEAN, manager : Made, asked : AnyTime,
               adjusted : BOOLEAN, found : AnyTime, sweep : Pictures]
    BY <1>1, SweepFields DEF TypeOK
  <2> QED BY <1>1, <2>1 DEF TypeOK, DisplayTyped, loading
<1>3. /\ site'[widget] = site[widget]
      /\ due \in listed'[widget][view.product]
      /\ due \in published'[site[widget]][view.product]
      /\ InMemory => InMemory'
  BY <1>0, <1>1, <1>2, DueFacts DEF Follows
<1>4. Coming => Coming'
  BY <1>1, <1>2, ComingStays
<1>5. ASSUME Newest PROVE Newest'
  <2>1. \A d \in Doing' : d \in Doing /\ (d # c => sweeping'[d] = sweeping[d])
    BY <1>1, <1>2 DEF Doing
  <2>2. \A d \in Doing' : Ahead(sweeping[d])'
    BY <1>1, <1>2, <1>5, <2>1 DEF Newest, Ahead
  <2>3. IF view.product = Level2 THEN chosen' = Latest ELSE due <= chosen'
    <3>1. CASE UNCHANGED chosen
      BY <1>5, <3>1 DEF Newest
    <3>2. CASE ~w.old /\ w.found # w.asked /\ seen # {} /\ chosen' = w.found
      <4>1. c \in Doing
        BY <1>1, <3>2 DEF Doing
      <4>2. view.product # Level2
        BY <1>1, <4>1 DEF Levels
      <4>3. due <= w.found
        BY <1>1, <1>5, <3>2, <4>1 DEF Newest, Ahead
      <4> QED BY <3>2, <4>2, <4>3
    <3> QED BY <1>1, <3>1, <3>2
  <2> QED BY <1>1, <1>2, <1>3, <1>5, <2>2, <2>3 DEF Newest
<1> QED BY <1>0, <1>1, <1>2, <1>3, <1>4, <1>5 DEF Follows

(* A load of what is due stores it and tells the map. *)
LEMMA LoadFollows ==
  ASSUME TypeOK, Steady, Follows, [Next]_vars, upsets' = {}, due # NoTime,
         LoadStep
  PROVE  Follows'
<1>0. upsets = {}
  BY UpsetsGrow
<1>1. UNCHANGED <<view, widget, site, chosen, seen, due, sweeping, updates,
                  widgetPool>>
  BY DEF LoadStep, Step, RunLoad, LoadFails, LoadFile, display, ghosts, managers
<1>2. /\ events \in Seq(Signals) /\ pool \in [Ids -> SUBSET Loads]
      /\ keys \in [Ids -> [Products -> SUBSET Times]]
      /\ file \in [Ids -> [Products -> [Times -> Times \union {NoFile}]]]
      /\ widget \in Made /\ widget \in Held /\ view.product \in Products
      /\ due \in Times
      /\ \A m \in Made : m \in Ids /\ site[m] \in Sites
  <2>1. site \in Seq(Sites) /\ Len(site) \in Ids /\ Len(site) \in Nat
    BY DisplayAssumption DEF TypeOK, DisplayTyped, Ids
  <2>2. \A m \in Made : m \in Ids /\ site[m] \in Sites
    BY <2>1, DisplayAssumption DEF Made, Ids
  <2> QED BY <2>2 DEF TypeOK, RecordsTyped, DisplayTyped, ControlTyped,
             GhostsTyped, Held
<1>3. ASSUME Coming => Coming' PROVE Follows'
  <2>1. Doing' = Doing
    BY <1>1 DEF Doing
  <2> QED BY <1>0, <1>1, <1>3, <2>1, FollowsStays
<1>4. ASSUME NEW m \in Made, RunLoad(m) PROVE Coming => Coming'
  <2> DEFINE V(l) == IF file[m][l.product][l.time] # NoFile
                     THEN file[m][l.product][l.time]
                     ELSE Bounded(listed[m][l.product], l.time)
  <2>1. PICK l \in pool[m] :
          /\ pool' = [pool EXCEPT ![m] = @ \ {l}]
          /\ Store(site[m], l.product, l.time, V(l))
          /\ events' = events \o Reply(m, l)
          /\ upsets' = upsets \union (IF V(l) # l.time THEN {"misdated"} ELSE {})
    BY <1>4 DEF RunLoad
  <2>2. V(l) = l.time
    BY <2>1
  <2> HIDE DEF V
  <2>3. /\ ToSet(events) \subseteq ToSet(events')
        /\ ToSet(Reply(m, l)) \subseteq ToSet(events')
    <3>1. l \in Loads
      BY <1>2
    <3>2. Reply(m, l) \in Seq(Signals)
      BY <1>2, <3>1, ReplyTyped
    <3> QED BY <1>2, <2>1, <3>2, ConcatToSet
  <2>4. CASE m = widget /\ l = Job
    <3>1. /\ l.kind = "update" /\ l.product = view.product /\ l.time = due
          /\ l.connected /\ l.request = site[widget]
      BY <2>4 DEF Job
    <3>2. Reply(m, l) = <<Answer>>
      BY <2>4, <3>1 DEF Reply, Answer
    <3>3. Answer \in ToSet(events')
      BY <2>3, <3>2 DEF ToSet
    <3> DEFINE s == site[widget]
               p == view.product
    <3>4. Store(s, p, due, due)
      BY <2>1, <2>2, <2>4, <3>1
    <3>5. Living(s) # {} /\ Instance(s) = widget
      <4>1. widget \in Living(s)
        BY <1>2 DEF Living
      <4>2. Instance(s) \in Living(s)
        BY <1>2, <4>1, InstanceFacts DEF TypeOK
      <4> QED BY <1>2, <4>1, <4>2 DEF Living, Steady, OneEach
    <3>6. /\ keys' = [keys EXCEPT ![widget][p] = @ \union {due}]
          /\ file' = [file EXCEPT ![widget][p][due] = IF @ = NoFile THEN due ELSE @]
      BY <3>4, <3>5 DEF Store
    <3>7. due # NoFile
      BY <1>2, DisplayAssumption
    <3>8. due \in keys'[widget][p] /\ file'[widget][p][due] # NoFile
      <4> HIDE DEF p
      <4>1. widget \in Ids /\ p \in Products
        BY <1>2 DEF p
      <4> QED BY <1>2, <3>6, <3>7, <4>1
    <3>9. InMemory' /\ Answer' = Answer
      BY <1>1, <3>8 DEF InMemory, Answer
    <3> QED BY <3>3, <3>9 DEF Coming
  <2>5. CASE ~ (m = widget /\ l = Job)
    <3>1. Job \in pool[widget] => Job \in pool'[widget]
      BY <1>2, <2>1, <2>5
    <3> QED BY <1>1, <2>3, <3>1, ComingStays
  <2> QED BY <2>4, <2>5
<1>5. ASSUME NEW m \in Made, LoadFails(m) PROVE FALSE
  BY <1>5 DEF LoadFails
<1>6. ASSUME NEW f \in Files, LoadFile(f) PROVE Coming => Coming'
  <2>1. events' = Append(events, [kind |-> "opened", file |-> f])
        /\ UNCHANGED pool
    BY <1>6 DEF LoadFile
  <2>2. ToSet(events) \subseteq ToSet(events')
    BY <1>2, <2>1, AppendGains
  <2> QED BY <1>1, <2>1, <2>2, ComingStays
<1> QED BY <1>3, <1>4, <1>5, <1>6 DEF LoadStep, Step

(* The load of what is due is put into the pool: the map's manager lists   *)
(* it, and so has a provider.                                              *)
LEMMA PostFollows ==
  ASSUME TypeOK, Steady, Follows, [Next]_vars, upsets = {}, due # NoTime,
         Step("widget", PostLoad)
  PROVE  Follows'
<1>1. /\ widgetPool # <<>> /\ Head(widgetPool) # InitJob
      /\ widgetPool' = Tail(widgetPool)
      /\ pool' = IF HasProvider(widget, Head(widgetPool).product)
                 THEN [pool EXCEPT ![widget] = @ \union {Head(widgetPool)}]
                 ELSE pool
      /\ UNCHANGED <<view, widget, updates, sweeping, events, chosen, seen, due>>
  BY DEF Step, PostLoad, display, ghosts
<1>2. /\ pool \in [Ids -> SUBSET Loads] /\ widget \in Ids
      /\ widgetPool \in Seq(Updates \union {InitJob})
  BY HeldMade, DisplayAssumption DEF TypeOK, RecordsTyped, DisplayTyped, Made, Ids
<1>3. ToSet(widgetPool) = {Head(widgetPool)} \union ToSet(widgetPool')
  BY <1>1, <1>2, HeadTailToSet
<1>4. pool[widget] \subseteq pool'[widget]
  BY <1>1, <1>2
<1>5. Head(widgetPool) = Job => Job \in pool'[widget]
  <2> SUFFICES ASSUME Head(widgetPool) = Job PROVE Job \in pool'[widget]
    OBVIOUS
  <2>1. Job.product = view.product
    BY DEF Job
  <2>2. listed[widget][view.product] # {}
    BY DEF Follows
  <2>3. HasProvider(widget, Job.product)
    BY <2>1, <2>2 DEF HasProvider
  <2> QED BY <1>1, <1>2, <2>3
<1>6. Coming => Coming'
  BY <1>1, <1>3, <1>4, <1>5, ComingStays
<1>7. Doing' = Doing
  BY <1>1 DEF Doing
<1> QED BY <1>1, <1>3, <1>6, <1>7, FollowsStays

(* The GUI thread has a volume that is announced loaded, and shows it or a *)
(* newer one once it is.                                                   *)
LEMMA DeliverFollows ==
  ASSUME TypeOK, Steady, Sound, Heard, Follows, [Next]_vars,
         upsets' = {}, due' # NoTime, Step("gui", Deliver)
  PROVE  Follows'
<1> DEFINE e == Head(events)
<1>0. upsets = {}
  BY UpsetsGrow
<1>1. /\ events # <<>>
      /\ \/ e.kind = "announced" /\ Announce(e)
         \/ e.kind = "new" /\ RequestNew(e)
         \/ e.kind = "reloaded" /\ UpdateReloaded(e)
         \/ e.kind = "loaded" /\ ShowLoaded(e)
         \/ e.kind = "opened" /\ ShowFile(e.file)
  BY DEF Step, Deliver
<1>2. /\ events \in Seq(Signals) /\ e \in Signals /\ Rest \in Seq(Signals)
      /\ ToSet(events) = {e} \union ToSet(Rest)
  BY <1>1, HeadTailToSet DEF TypeOK, ControlTyped, Rest
<1> HIDE DEF e
<1>3. /\ widgetPool \in Seq(Updates \union {InitJob}) /\ updates \in Nat
      /\ view \in [manager : Made, product : Products, time : AnyTime,
                   sweep : Pictures]
      /\ widget \in Held /\ widget \in Made
  BY DEF TypeOK, DisplayTyped, Held
<1>4. ASSUME due # NoTime, UNCHANGED <<widget, pool, due>>,
             view'.product = view.product,
             ToSet(widgetPool) \subseteq ToSet(widgetPool'),
             ToSet(Rest) \subseteq ToSet(events'), e # Answer
      PROVE  Coming => Coming'
  BY <1>2, <1>4, ComingStays
<1>5. ASSUME due # NoTime,
             UNCHANGED <<view, widget, pool, sweeping, chosen, seen, due>>,
             updates > 0 => updates' > 0,
             ToSet(widgetPool) \subseteq ToSet(widgetPool'),
             ToSet(Rest) \subseteq ToSet(events'), e # Answer
      PROVE  Follows'
  <2>1. Coming => Coming'
    BY <1>4, <1>5
  <2>2. Doing' = Doing
    BY <1>5 DEF Doing
  <2> QED BY <1>0, <1>5, <2>1, <2>2, FollowsStays
<1>6. CASE e.kind = "announced" /\ Announce(e)
  <2>1. UNCHANGED <<view, widget, pool, sweeping, chosen, seen, due, updates,
                    widgetPool>>
    BY <1>6 DEF Announce, display, loading, ghosts
  <2>2. ToSet(Rest) \subseteq ToSet(events')
    BY <1>2, <1>6, AppendGains DEF Announce
  <2>3. e # Answer
    BY <1>6 DEF Answer
  <2> QED BY <1>5, <2>1, <2>2, <2>3
<1>7. CASE e.kind = "new" /\ RequestNew(e)
  <2> DEFINE mine == Shows(e.product) /\ Live /\ e.manager = widget
  <2>1. /\ UNCHANGED <<view, widget, site, pool, sweeping, chosen, seen, updates>>
        /\ events' = Rest /\ ToSet(widgetPool) \subseteq ToSet(widgetPool')
        /\ due' = IF mine THEN e.time ELSE due
    <3>1. ToSet(widgetPool) \subseteq ToSet(widgetPool')
      BY <1>3, <1>7, AppendGains DEF RequestNew
    <3> QED BY <1>7, <3>1 DEF RequestNew, display, loading, managers
  <2>2. CASE ~mine
    <3>1. e # Answer
      BY <1>7 DEF Answer
    <3> QED BY <1>5, <2>1, <2>2, <3>1
  <2>3. CASE mine
    <3>1. /\ e.product = view.product /\ autoUpdate /\ due' = e.time
          /\ e.manager = widget
      BY <2>1, <2>3 DEF Shows, Live
    <3>2. widgetPool' = Append(widgetPool,
             [kind |-> "update", product |-> e.product, time |-> e.time,
              request |-> site[widget], connected |-> autoUpdate])
      BY <1>7, <2>3 DEF RequestNew
    <3>3. Job' = [kind |-> "update", product |-> e.product, time |-> e.time,
                  request |-> site[widget], connected |-> TRUE]
      BY <2>1, <3>1 DEF Job
    <3>4. autoUpdate = TRUE
      BY <3>1 DEF TypeOK, ControlTyped
    <3>5. Job' \in ToSet(widgetPool')
      BY <1>3, <3>2, <3>3, <3>4, AppendGains
    <3>6. /\ e.time \in listed[widget][view.product]
          /\ e.time \in published[site[widget]][view.product]
      BY <1>2, <1>3, <1>7, <3>1 DEF Heard
    <3>7. UNCHANGED <<listed, published>>
      BY <1>7 DEF RequestNew, servers
    <3> QED BY <2>1, <3>1, <3>5, <3>6, <3>7 DEF Follows, Coming
  <2> QED BY <2>2, <2>3
<1>8. CASE e.kind = "reloaded" /\ UpdateReloaded(e)
  <2>1. /\ UNCHANGED <<view, widget, pool, sweeping, chosen, seen, due,
                       widgetPool>>
        /\ updates' = updates \/ updates' = updates + 1
        /\ events' = Rest
    <3>1. updates + 0 = updates
      BY <1>3
    <3> QED BY <1>8, <3>1 DEF UpdateReloaded, loading
  <2>2. updates > 0 => updates' > 0
    BY <1>3, <2>1
  <2>3. e # Answer
    BY <1>8 DEF Answer
  <2> QED BY <1>5, <2>1, <2>2, <2>3
<1>9. CASE e.kind = "loaded" /\ ShowLoaded(e)
  <2>1. events' = Rest /\ UNCHANGED <<due, pool>>
    BY <1>9 DEF ShowLoaded, loading
  <2>2. ASSUME UNCHANGED <<widget, sweeping, widgetPool>>,
               view'.product = view.product, updates' > 0, seen' = {},
               InMemory =>
                 IF view.product = Level2 THEN chosen' = Latest ELSE due <= chosen',
               Coming => Coming' \/ InMemory
        PROVE  Follows'
    <3>1. /\ site'[widget] = site[widget]
          /\ due \in listed'[widget][view.product]
          /\ due \in published'[site[widget]][view.product]
          /\ InMemory => InMemory'
      BY <1>0, <2>1, <2>2, DueFacts DEF Follows
    <3>2. InMemory => Newest'
      BY <2>1, <2>2, <3>1 DEF Newest, Ahead
    <3>3. Newest => InMemory
      BY DEF Newest
    <3> QED BY <1>0, <2>1, <2>2, <3>1, <3>2, <3>3 DEF Follows
  <2>3. ASSUME NEW m, NEW t, e.product = view.product,
               Select(m, e.product, t, TRUE, autoRefresh)
        PROVE  /\ UNCHANGED <<sweeping, widgetPool>>
               /\ view'.product = view.product /\ updates' > 0
               /\ seen' = {} /\ chosen' = t
    <3>1. UNCHANGED <<sweeping, widgetPool>> /\ view'.product = view.product
          /\ updates' = updates + 1
      BY <2>3, SelectDoing
    <3> QED BY <1>3, <2>3, <3>1 DEF Select
  <2>4. CASE /\ e.product = view.product /\ e.product = Level2
             /\ Select(widget, e.product, Latest, TRUE, autoRefresh)
             /\ UNCHANGED <<site, widget, upsets>>
    <3>1. /\ UNCHANGED <<sweeping, widgetPool>>
          /\ view'.product = view.product /\ updates' > 0
          /\ seen' = {} /\ chosen' = Latest
      BY <2>3, <2>4
    <3>2. Coming => Coming' \/ InMemory
      <4>1. CASE e = Answer
        <5>1. ASSUME ~InMemory, Coming PROVE Coming'
          <6>1. Job \in ToSet(widgetPool) \/ Job \in pool[widget]
            BY <5>1 DEF Coming
          <6>2. Job' = Job
            BY <2>1, <2>4, <3>1 DEF Job
          <6> QED BY <2>1, <2>4, <3>1, <6>1, <6>2 DEF Coming
        <5> QED BY <5>1
      <4>2. CASE e # Answer
        BY <1>4, <2>1, <2>4, <3>1, <4>2
      <4> QED BY <4>1, <4>2
    <3> QED BY <2>2, <2>4, <3>1, <3>2
  <2>5. CASE /\ e.product = view.product /\ e.product # Level2
             /\ SelectRecord(e.site, e.product, e.time, autoRefresh)
    <3>1. /\ TakeInstance(e.site) /\ widget' = Instance(e.site)
          /\ upsets' = upsets \union (IF e.site # site[widget] THEN {"strayed"} ELSE {})
                   \union (IF e.product # Level2 /\ e.time < view.time
                           THEN {"outran"} ELSE {})
          /\ Select(Instance(e.site), e.product, e.time, TRUE, autoRefresh)
      BY <2>5 DEF SelectRecord
    <3>2. e.site = site[widget] /\ ~ (e.time < view.time)
      BY <2>5, <3>1
    <3>3. e.site \in Sites /\ e.time \in Times
      BY <1>2, <1>9 DEF Signals
    <3>4. widget' = widget
      <4>1. widget \in Living(e.site)
        BY <1>3, <3>2 DEF Living
      <4>2. Instance(e.site) \in Living(e.site)
        BY <3>3, <4>1, InstanceFacts DEF TypeOK
      <4> QED BY <1>3, <3>1, <4>1, <4>2 DEF Living, Steady, OneEach
    <3>5. /\ UNCHANGED <<sweeping, widgetPool>>
          /\ view'.product = view.product /\ updates' > 0
          /\ seen' = {} /\ chosen' = e.time
      BY <2>3, <2>5, <3>1
    <3>6. view.time <= e.time /\ view.time \in Nat /\ e.time \in Nat
      <4>1. view.time \in AnyTime
        BY <1>3
      <4>2. view.time \in Nat /\ e.time \in Nat
        BY <3>3, <4>1, TimeFacts
      <4> QED BY <3>2, <4>2
    <3>7. due \in Nat
      BY <2>1, TimeFacts DEF TypeOK, GhostsTyped
    <3>8. CASE Newest
      <4>1. due <= view.time
        BY <1>0, <2>5, <3>8 DEF Newest, Sound, Aimed
      <4>2. due <= e.time
        BY <3>6, <3>7, <4>1
      <4> QED BY <2>2, <2>5, <3>4, <3>5, <3>8, <4>2 DEF Newest
    <3>9. CASE e = Answer /\ Coming
      <4>1. e.time = due
        BY <3>9 DEF Answer
      <4>2. ASSUME ~InMemory PROVE Coming'
        <5>1. Job \in ToSet(widgetPool) \/ Job \in pool[widget]
          BY <3>9, <4>2 DEF Coming
        <5>2. Job' = Job
          <6>1. site'[widget] = site[widget]
            BY <1>3, HeldNext
          <6> QED BY <2>1, <3>4, <3>5, <6>1 DEF Job
        <5> QED BY <2>1, <3>4, <3>5, <5>1, <5>2 DEF Coming
      <4>3. due <= chosen'
        BY <3>5, <3>7, <4>1
      <4> QED BY <2>2, <2>5, <3>4, <3>5, <4>2, <4>3
    <3>10. CASE e # Answer /\ Coming
      <4>1. Coming'
        BY <1>4, <2>1, <3>4, <3>5, <3>10
      <4>2. /\ site'[widget] = site[widget]
            /\ due \in listed'[widget][view.product]
            /\ due \in published'[site[widget]][view.product]
        BY <1>0, <2>1, <3>4, <3>5, DueFacts DEF Follows
      <4> QED BY <2>1, <3>4, <3>5, <4>1, <4>2 DEF Follows
    <3> QED BY <1>0, <2>1, <3>8, <3>9, <3>10 DEF Follows
  <2>6. CASE /\ site[widget] # e.request \/ view.product # e.product
             /\ UNCHANGED <<managers, display, widgetPool, chosen, seen, upsets>>
    <3>1. e # Answer
      BY <2>6 DEF Answer
    <3>2. UNCHANGED <<view, widget, sweeping, updates>>
      BY <2>6 DEF display
    <3> QED BY <1>5, <2>1, <2>6, <3>1, <3>2
  <2> QED BY <1>9, <2>4, <2>5, <2>6 DEF ShowLoaded
<1>10. CASE e.kind = "opened" /\ ShowFile(e.file)
  BY <1>10 DEF ShowFile
<1> QED BY <1>1, <1>6, <1>7, <1>8, <1>9, <1>10

(* Every step keeps the load of what is due coming, or the view at it or a *)
(* newer volume.                                                           *)
LEMMA FollowsNext ==
  TypeOK /\ Steady /\ Sound /\ LiveInv /\ [Next]_vars => Follows'
<1> SUFFICES ASSUME TypeOK, Steady, Sound, LiveInv, [Next]_vars,
                    upsets' = {}, due' # NoTime
             PROVE  Follows'
  BY DEF Follows
<1>0. upsets = {}
  BY UpsetsGrow
<1>1. Going /\ Heard /\ Levels /\ Follows
  BY DEF LiveInv
<1>2. ASSUME UNCHANGED <<view, widget, pool, sweeping, chosen, seen, due,
                         updates, widgetPool>>,
             events' = events \/ \E x : events' = Append(events, x)
      PROVE  Follows'
  <2>1. ToSet(events) \subseteq ToSet(events')
    BY <1>2, AppendGains DEF TypeOK, ControlTyped
  <2>2. Coming => Coming'
    BY <1>2, <2>1, ComingStays
  <2>3. Doing' = Doing
    BY <1>2 DEF Doing
  <2> QED BY <1>0, <1>1, <1>2, <2>2, <2>3, FollowsStays
<1>3. CASE Step("gui", Deliver)
  BY <1>1, <1>3, DeliverFollows
<1>4. CASE \/ Step("gui", CarryTime) \/ Step("gui", Reselect)
           \/ Step("gui", FinishSwitch)
  <2>1. gui.on /\ UNCHANGED due
    BY <1>4 DEF Step, CarryTime, Reselect, FinishSwitch, ghosts
  <2> QED BY <1>1, <2>1 DEF Going
<1>5. CASE \/ \E s \in Sites : Step("gui", SelectSite(s))
           \/ \E p \in Products : Step("gui", SelectProduct(p))
           \/ \E t \in Picks : Step("gui", PickTime(t))
  BY <1>5 DEF Step, SelectSite, SelectProduct, PickTime
<1>6. CASE Step("gui", GoLive)
  <2>1. ~timeline.live /\ UNCHANGED due
    BY <1>6 DEF Step, GoLive
  <2> QED BY <1>1, <2>1 DEF Going
<1>7. CASE \E f \in Files : Step("gui", OpenFile(f))
  BY <1>2, <1>7 DEF Step, OpenFile, ShowFile, display, ghosts
<1>8. CASE Step("timeline", StartSelect)
  <2>1. CASE SelectLive(timeline.site, timeline.live) /\ UNCHANGED due
    <3>1. timeline.live /\ autoUpdate /\ timeline.time = Latest
      BY <1>0, <1>1, <2>1 DEF Going
    <3>2. timeline.previous = timeline.site
      BY <3>1 DEF Steady, LiveSelected
    <3>3. UNCHANGED <<view, updates, chosen, seen>>
      BY <2>1, <3>1, <3>2 DEF SelectLive
    <3>4. UNCHANGED <<widget, pool, sweeping, widgetPool, events>>
      BY <1>8 DEF Step, StartSelect, loading
    <3> QED BY <1>2, <2>1, <3>3, <3>4
  <2>2. CASE UNCHANGED <<view, updates, ghosts>>
    <3>1. UNCHANGED <<widget, pool, sweeping, widgetPool, events, view, updates,
                      chosen, seen, due>>
      BY <1>8, <2>2 DEF Step, StartSelect, loading, ghosts
    <3> QED BY <1>2, <3>1
  <2>3. CASE due' = NoTime
    BY <2>3
  <2> QED BY <1>8, <2>1, <2>2, <2>3 DEF Step, StartSelect
<1>9. CASE Step("timeline", TellMap)
  <2>1. selecting # NotSelecting /\ UNCHANGED due
    BY <1>9 DEF Step, TellMap
  <2> QED BY <1>0, <1>1, <2>1 DEF Going
<1>10. CASE Step("timeline", EndSelect)
  BY <1>2, <1>10 DEF Step, EndSelect, display, loading, ghosts
<1>11. CASE Step("view", StartUpdate) \/ Step("widget", StartInitialize)
  <2>1. UNCHANGED due
    BY <1>11 DEF Step, StartUpdate, StartInitialize
  <2> QED BY <1>0, <1>1, <1>11, <2>1, SweepFollows
<1>12. CASE Step("widget", PostLoad)
  <2>1. UNCHANGED due
    BY <1>12 DEF Step, PostLoad, ghosts
  <2> QED BY <1>0, <1>1, <1>12, <2>1, PostFollows
<1>13. ASSUME NEW c \in Sweepers, Step(c, Adjust(c)) PROVE Follows'
  <2>1. UNCHANGED due
    BY <1>13 DEF Step, Adjust
  <2> QED BY <1>1, <1>13, <2>1, AdjustFollows
<1>14. ASSUME NEW c \in Sweepers, Step(c, EndSweep(c)) PROVE Follows'
  <2>1. /\ sweeping' = [sweeping EXCEPT ![c] = Idle]
        /\ view' = view \/ view' = [view EXCEPT !.sweep = sweeping[c].sweep]
        /\ UNCHANGED <<pool, widget, updates, widgetPool, events, chosen, seen, due>>
    BY <1>14 DEF Step, EndSweep, loading, ghosts
  <2>2. view'.product = view.product /\ ~sweeping'[c].on
        /\ \A d \in Sweepers : d # c => sweeping'[d] = sweeping[d]
    BY <2>1 DEF TypeOK, DisplayTyped, Idle
  <2>3. \A d \in Doing' : d \in Doing /\ sweeping'[d] = sweeping[d]
    BY <2>2 DEF Doing
  <2>4. Coming => Coming'
    BY <2>1, <2>2, ComingStays
  <2> QED BY <1>0, <1>1, <2>1, <2>2, <2>3, <2>4, FollowsStays
<1>15. CASE LoadStep
  <2>1. UNCHANGED due
    BY <1>15 DEF LoadStep, Step, RunLoad, LoadFails, LoadFile, ghosts
  <2> QED BY <1>1, <1>15, <2>1, LoadFollows
<1>16. CASE ServerStep
  BY <1>2, <1>16 DEF ServerStep, Step, Publish, RefreshDataSync, display,
     loading, ghosts
<1>17. CASE Destruct \/ UNCHANGED vars
  BY <1>2, <1>17 DEF Destruct, vars, display, loading, ghosts
<1> QED BY <1>3, <1>4, <1>5, <1>6, <1>7, <1>8, <1>9, <1>10, <1>11, <1>12, <1>13,
           <1>14, <1>15, <1>16, <1>17
        DEF Next, GuiStep, TimelineStep, SweepStep

(* When nothing is left to be done, the view shows what is due or newer.   *)
LEMMA LiveShows ==
  TypeOK /\ Sound /\ LiveInv => LiveShowsNewest
<1> SUFFICES ASSUME TypeOK, Sound, LiveInv, Quiescent, upsets = {}, due # NoTime
             PROVE  view.sweep # NoSweep /\ view.sweep.time >= due
  BY DEF LiveShowsNewest
<1>1. /\ updates = 0 /\ widgetPool = <<>> /\ selecting = NotSelecting
      /\ ~gui.on /\ asks = <<>> /\ events = <<>>
      /\ \A c \in Sweepers : ~sweeping[c].on
      /\ pool[widget] = {}
  BY DEF Quiescent, Held
<1>2. ~ToUpdate /\ Doing = {} /\ Awaited = {} /\ ~Coming
  BY <1>1 DEF ToUpdate, ToSelect, Telling, Doing, Awaited, ToSet, Coming
<1>3. Newest /\ due \in seen
  <2>1. Newest
    BY <1>2 DEF LiveInv, Follows
  <2> QED BY <1>1, <2>1 DEF Newest, ToSet
<1>4. Loaded /\ (Picture # NoSweep => view.sweep = Picture)
  BY <1>2 DEF Sound, Tolerated, Settled
<1>5. /\ seen \in SUBSET Times /\ chosen \in AnyTime /\ due \in Times
      /\ view.product \in Products /\ widget \in Ids /\ site[widget] \in Sites
  <2>1. Len(site) \in Ids /\ Len(site) \in Nat /\ site \in Seq(Sites)
        /\ widget \in Made
    BY DisplayAssumption DEF TypeOK, DisplayTyped, Ids
  <2> QED BY <2>1, DisplayAssumption DEF TypeOK, DisplayTyped, GhostsTyped, Made, Ids
<1> DEFINE f == file[widget][view.product]
           top == Max(Wanted)
<1>6. Wanted \subseteq seen /\ Wanted # {} /\ Wanted \in SUBSET Times
  BY <1>3, WantedFacts
<1>7. \A k \in Wanted : f[k] = k
  <2>1. \A k \in Times : f[k] \in {k, NoFile}
    BY <1>5 DEF LiveInv, OwnTimes
  <2> QED BY <1>4, <1>6, <2>1 DEF Loaded
<1>8. top \in Wanted /\ Min(Wanted) \in Wanted /\ top \in Times
  BY <1>6, TimeFacts
<1>9. due <= top
  <2>1. CASE view.product = Level2
    <3>1. Wanted = {Max(seen)}
      BY <1>3, <2>1 DEF Newest, Wanted, Candidates
    <3>2. due <= Max(seen)
      BY <1>3, <1>5, TimeFacts
    <3> QED BY <1>8, <3>1, <3>2
  <2>2. CASE view.product # Level2
    <3>1. due <= chosen
      BY <1>3, <2>2 DEF Newest
    <3> DEFINE p == view.product
    <3>2. p \in Products /\ p # Level2
      BY <1>5, <2>2
    <3> HIDE DEF p
    <3>3. due <= Max(Candidates(p, seen, chosen))
      BY <1>3, <1>5, <3>1, <3>2, FoundNotOlder
    <3> QED BY <3>3 DEF Wanted, p
  <2> QED BY <2>1, <2>2
<1>10. \E x \in Nat : /\ top <= x
                      /\ Picture = [site |-> site[widget],
                                    product |-> view.product, time |-> x]
  <2>1. CASE view.product = Level2
    <3>1. Wanted = {Max(seen)} /\ chosen = Latest
      BY <1>3, <2>1 DEF Newest, Wanted, Candidates
    <3>2. Min(Wanted) = top
      BY <1>8, <3>1
    <3> DEFINE x == ScanOf(top, chosen)
    <3>3. x \in Scans[top] /\ x \in Nat
      BY <1>5, <1>8, ScanFacts
    <3>4. top <= x
      BY <1>8, <3>3, DisplayAssumption
    <3>5. Picture = [site |-> site[widget], product |-> view.product,
                     time |-> LaterScan(x, x, chosen)]
      BY <1>6, <1>7, <1>8, <2>1, <3>2 DEF Picture, Shown
    <3>6. LaterScan(x, x, chosen) = x
      BY DEF LaterScan
    <3> QED BY <3>3, <3>4, <3>5, <3>6
  <2>2. CASE view.product # Level2
    <3>1. Picture = [site |-> site[widget], product |-> view.product, time |-> top]
      BY <1>6, <1>7, <1>8, <2>2 DEF Picture, Shown
    <3> HIDE DEF top
    <3>2. top \in Nat
      BY <1>8, TimeFacts
    <3>3. top <= top
      BY <3>2
    <3> QED BY <3>1, <3>2, <3>3
  <2> QED BY <2>1, <2>2
<1>11. PICK x \in Nat : /\ top <= x
                        /\ Picture = [site |-> site[widget],
                                      product |-> view.product, time |-> x]
  BY <1>10
<1>12. Picture # NoSweep
  BY <1>5, <1>11, DisplayAssumption
<1>13. view.sweep = Picture /\ Picture.time = x
  BY <1>4, <1>11, <1>12
<1>14. due <= x
  <2>1. due \in Nat /\ top \in Nat
    BY <1>5, <1>8, TimeFacts
  <2> HIDE DEF top
  <2> QED BY <1>9, <1>11, <2>1
<1>15. due \in Nat
  BY <1>5, TimeFacts
<1> QED BY <1>12, <1>13, <1>14, <1>15

(* While a map updates by itself it does not keep showing a volume older   *)
(* than the last one announced, however loads, sweeps and selections are   *)
(* interleaved and whatever was announced before (map_widget.cpp:1793),    *)
(* apart from what upsets names.                                           *)
THEOREM LatestStaysShown == Spec => []LiveShowsNewest
<1>1. Init => TypeOK /\ Steady /\ Sound /\ LiveInv
  BY TypeInit, SteadyInit, LiveInit
<1>2. TypeOK /\ Steady /\ Sound /\ LiveInv /\ [Next]_vars
        => (TypeOK /\ Steady /\ Sound /\ LiveInv)'
  <2> SUFFICES ASSUME TypeOK, Steady, Sound, LiveInv, [Next]_vars
               PROVE  (TypeOK /\ Steady /\ Sound /\ LiveInv)'
    OBVIOUS
  <2>1. TypeOK' /\ Steady' /\ Sound'
    BY TypeNext, SoundNext
  <2>2. Going /\ Heard /\ Levels /\ OwnTimes
    BY DEF LiveInv
  <2>3. Going' /\ Heard' /\ Levels' /\ OwnTimes'
    BY <2>2, GoingNext, HeardNext, LevelsNext, OwnTimesNext
  <2>4. Follows'
    BY FollowsNext
  <2> QED BY <2>1, <2>3, <2>4 DEF LiveInv
<1>3. TypeOK /\ Sound /\ LiveInv => LiveShowsNewest
  BY LiveShows
<1> QED BY <1>1, <1>2, <1>3, PTL DEF Spec
===============================================================================

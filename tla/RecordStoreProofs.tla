--------------------------- MODULE RecordStoreProofs ---------------------------
(***************************************************************************)
(* Proofs about RecordStore for any number of volumes, clients, loading    *)
(* threads and cached records.                                             *)
(***************************************************************************)
EXTENDS RecordStore, SequencesExt, SequenceTheorems, FiniteSetTheorems,
        WellFoundedInduction, TLAPS

-----------------------------------------------------------------------------
(* What is used of lists.                                                  *)

(* No element occurs twice. *)
Distinct(s) == \A i, j \in DOMAIN s : s[i] = s[j] => i = j

(* Append adds one element. *)
LEMMA AppendToSet ==
  ASSUME NEW S, NEW q \in Seq(S), NEW j \in S
  PROVE  Append(q, j) \in Seq(S) /\ ToSet(Append(q, j)) = ToSet(q) \union {j}
<1>1. /\ Append(q, j) \in Seq(S) /\ Len(Append(q, j)) = Len(q) + 1
      /\ \A i \in 1 .. Len(q) : Append(q, j)[i] = q[i]
      /\ Append(q, j)[Len(q) + 1] = j
  OBVIOUS
<1> DEFINE z == Append(q, j)
<1> HIDE DEF z
<1> QED BY <1>1 DEF ToSet, z

(* A list consists of its head and its tail. *)
LEMMA HeadTailToSet ==
  ASSUME NEW S, NEW q \in Seq(S), q # <<>>
  PROVE  /\ Head(q) \in S /\ Tail(q) \in Seq(S)
         /\ ToSet(q) = {Head(q)} \union ToSet(Tail(q))
<1>1. /\ Len(q) \in Nat \ {0} /\ Head(q) = q[1] /\ Head(q) \in S
      /\ Tail(q) \in Seq(S) /\ Len(Tail(q)) = Len(q) - 1
      /\ \A i \in 1 .. (Len(q) - 1) : Tail(q)[i] = q[i + 1]
  BY EmptySeq, HeadTailProperties
<1> DEFINE z == Tail(q)
<1> HIDE DEF z
<1>2. ToSet(q) \subseteq {Head(q)} \union ToSet(z)
  <2> SUFFICES ASSUME NEW i \in 1 .. Len(q)
               PROVE  q[i] = Head(q) \/ q[i] \in ToSet(z)
    BY LenProperties DEF ToSet
  <2>1. CASE i = 1
    BY <1>1, <2>1
  <2>2. CASE i > 1
    <3>1. i - 1 \in 1 .. (Len(q) - 1)
      BY <1>1, <2>2
    <3>2. q[i] = z[i - 1] /\ i - 1 \in DOMAIN z
      BY <1>1, <3>1 DEF z
    <3> QED BY <3>2 DEF ToSet
  <2> QED BY <2>1, <2>2
<1>3. {Head(q)} \union ToSet(z) \subseteq ToSet(q)
  <2>1. Head(q) \in ToSet(q)
    BY <1>1 DEF ToSet
  <2>2. ASSUME NEW i \in DOMAIN z PROVE z[i] \in ToSet(q)
    <3>1. i \in 1 .. (Len(q) - 1)
      BY <1>1, LenProperties DEF z
    <3>2. i + 1 \in DOMAIN q /\ z[i] = q[i + 1]
      BY <1>1, <3>1 DEF z
    <3> QED BY <3>2 DEF ToSet
  <2> QED BY <2>1, <2>2 DEF ToSet
<1> QED BY <1>1, <1>2, <1>3 DEF z

(* RemoveAt drops one element and keeps the order of the others. *)
LEMMA RemoveAtFacts ==
  ASSUME NEW S, NEW s \in Seq(S), NEW i \in 1 .. Len(s)
  PROVE  /\ RemoveAt(s, i) \in Seq(S)
         /\ Len(RemoveAt(s, i)) = Len(s) - 1
         /\ \A j \in 1 .. (Len(s) - 1) :
              RemoveAt(s, i)[j] = IF j < i THEN s[j] ELSE s[j + 1]
<1> DEFINE a == SubSeq(s, 1, i - 1)
           b == SubSeq(s, i + 1, Len(s))
<1>1. /\ a \in Seq(S) /\ Len(a) = i - 1
      /\ \A j \in 1 .. (i - 1) : a[j] = s[j]
  OBVIOUS
<1>2. /\ b \in Seq(S) /\ Len(b) = Len(s) - i
      /\ \A j \in 1 .. (Len(s) - i) : b[j] = s[j + i]
  OBVIOUS
<1>3. RemoveAt(s, i) = a \o b
  BY DEF RemoveAt
<1> HIDE DEF a, b
<1>4. /\ a \o b \in Seq(S) /\ Len(a \o b) = Len(s) - 1
  <2>1. a \o b \in Seq(S) /\ Len(a \o b) = Len(a) + Len(b)
    BY <1>1, <1>2, ConcatProperties
  <2> QED BY <1>1, <1>2, <2>1
<1>5. \A j \in 1 .. (Len(s) - 1) :
        (a \o b)[j] = IF j < i THEN s[j] ELSE s[j + 1]
  BY <1>1, <1>2, ConcatProperties
<1> QED
  BY <1>3, <1>4, <1>5

(* Removing one element of a list without duplicates leaves the others. *)
LEMMA RemoveAtDistinct ==
  ASSUME NEW S, NEW s \in Seq(S), NEW i \in DOMAIN s, Distinct(s)
  PROVE  /\ RemoveAt(s, i) \in Seq(S)
         /\ Distinct(RemoveAt(s, i))
         /\ ToSet(RemoveAt(s, i)) = ToSet(s) \ {s[i]}
<1> DEFINE r == RemoveAt(s, i)
<1>1. /\ r \in Seq(S) /\ Len(r) = Len(s) - 1
      /\ \A j \in 1 .. (Len(s) - 1) : r[j] = IF j < i THEN s[j] ELSE s[j + 1]
  BY RemoveAtFacts
<1> HIDE DEF r
<1>2. Distinct(r)
  <2> SUFFICES ASSUME NEW j \in 1 .. Len(r), NEW k \in 1 .. Len(r),
                      r[j] = r[k]
               PROVE  j = k
    BY <1>1, LenProperties DEF Distinct
  <2> DEFINE old(n) == IF n < i THEN n ELSE n + 1
  <2>1. /\ old(j) \in DOMAIN s /\ old(k) \in DOMAIN s
        /\ s[old(j)] = s[old(k)]
    BY <1>1
  <2>2. old(j) = old(k)
    BY <2>1 DEF Distinct
  <2> QED BY <1>1, <2>2
<1>3. ToSet(r) \subseteq ToSet(s) \ {s[i]}
  BY <1>1 DEF ToSet, Distinct
<1>4. ASSUME NEW j \in DOMAIN s, j # i
      PROVE  s[j] \in ToSet(r)
  <2>1. CASE j < i
    BY <1>1, <2>1 DEF ToSet
  <2>2. CASE j > i
    <3>1. j - 1 \in DOMAIN r /\ r[j - 1] = s[j]
      BY <1>1, <2>2
    <3> QED BY <3>1 DEF ToSet
  <2> QED BY <1>4, <2>1, <2>2
<1>5. ToSet(s) \ {s[i]} \subseteq ToSet(r)
  BY <1>4 DEF ToSet
<1> QED BY <1>1, <1>2, <1>3, <1>5 DEF r

-----------------------------------------------------------------------------
(* The recent list.                                                        *)

LEMMA RecordFields ==
  /\ \A r \in Records : r.time \in Times
  /\ \A j \in Jobs : j.time \in Times
  /\ \A t \in Times, k \in {"reload", "update"} :
       Load(t, k) \in Loads /\ Load(t, k) \in Jobs /\ Load(t, k).time = t
  /\ \A t \in Times : Load(t, "file") \in Jobs
  /\ \A j \in Loads : j \in Jobs /\ j.kind \in {"reload", "update"}
BY DEF Records, Jobs, Loads, Load

(* What Without leaves of a list that holds no record twice: the elements  *)
(* in front of r keep their place, those behind it move up.                *)
LEMMA WithoutFacts ==
  ASSUME NEW S, NEW s \in Seq(S), NEW r
  PROVE  /\ Without(s, r) \in Seq(S)
         /\ Distinct(s) => Distinct(Without(s, r))
         /\ Distinct(s) => ToSet(Without(s, r)) = ToSet(s) \ {r}
         /\ ToSet(Without(s, r)) \subseteq ToSet(s)
         /\ \/ r \notin ToSet(s) /\ Without(s, r) = s
            \/ \E i \in 1 .. Len(s) :
                 /\ s[i] = r
                 /\ Len(Without(s, r)) = Len(s) - 1
                 /\ \A j \in 1 .. (Len(s) - 1) :
                      Without(s, r)[j] = IF j < i THEN s[j] ELSE s[j + 1]
<1>1. CASE r \notin ToSet(s)
  <2>1. Without(s, r) = s
    BY <1>1 DEF Without
  <2>2. ToSet(s) \ {r} = ToSet(s)
    BY <1>1
  <2> QED BY <1>1, <2>1, <2>2
<1>2. CASE r \in ToSet(s)
  <2>1. PICK i \in DOMAIN s : s[i] = r /\ Without(s, r) = RemoveAt(s, i)
    <3> DEFINE i == CHOOSE i \in DOMAIN s : s[i] = r
    <3>1. \E k \in DOMAIN s : s[k] = r
      BY <1>2 DEF ToSet
    <3>2. i \in DOMAIN s /\ s[i] = r
      BY <3>1
    <3>3. Without(s, r) = RemoveAt(s, i)
      BY <1>2 DEF Without
    <3> QED BY <3>2, <3>3
  <2>2. i \in 1 .. Len(s)
    OBVIOUS
  <2>3. /\ RemoveAt(s, i) \in Seq(S)
        /\ Len(RemoveAt(s, i)) = Len(s) - 1
        /\ \A j \in 1 .. (Len(s) - 1) :
             RemoveAt(s, i)[j] = IF j < i THEN s[j] ELSE s[j + 1]
    BY <2>2, RemoveAtFacts
  <2>4. Distinct(s) =>
          Distinct(RemoveAt(s, i)) /\ ToSet(RemoveAt(s, i)) = ToSet(s) \ {s[i]}
    BY <2>2, RemoveAtDistinct
  <2>5. ToSet(RemoveAt(s, i)) \subseteq ToSet(s)
    <3> DEFINE z == RemoveAt(s, i)
    <3>1. /\ z \in Seq(S) /\ Len(z) = Len(s) - 1
          /\ \A j \in 1 .. (Len(s) - 1) :
                z[j] = IF j < i THEN s[j] ELSE s[j + 1]
      BY <2>3
    <3> HIDE DEF z
    <3>2. ASSUME NEW j \in DOMAIN z PROVE z[j] \in ToSet(s)
      <4>1. j \in 1 .. (Len(s) - 1)
        BY <3>1
      <4>2. j \in DOMAIN s /\ j + 1 \in DOMAIN s
        BY <4>1
      <4> QED BY <3>1, <4>1, <4>2 DEF ToSet
    <3>3. ToSet(z) \subseteq ToSet(s)
      BY <3>2 DEF ToSet
    <3> QED BY <3>3 DEF z
  <2> QED BY <2>1, <2>2, <2>3, <2>4, <2>5
<1> QED BY <1>1, <1>2

(* x moved, or put, to the front of a list. *)
Promoted(q, x) == <<x>> \o Without(q, x)

(* x is followed by what Without leaves. *)
LEMMA PromotedFacts ==
  ASSUME NEW S, NEW q \in Seq(S), NEW x \in S
  PROVE  /\ Promoted(q, x) \in Seq(S)
         /\ Len(Promoted(q, x)) = Len(Without(q, x)) + 1
         /\ Promoted(q, x)[1] = x
         /\ \A i \in 2 .. Len(Promoted(q, x)) : Promoted(q, x)[i] = Without(q, x)[i - 1]
<1> DEFINE a == <<x>>
           b == Without(q, x)
<1>1. a \in Seq(S) /\ Len(a) = 1 /\ a[1] = x
  OBVIOUS
<1>2. b \in Seq(S)
  BY WithoutFacts
<1> HIDE DEF a, b
<1>3. /\ a \o b \in Seq(S)
      /\ Len(a \o b) = Len(a) + Len(b)
      /\ \A i \in 1 .. Len(a) + Len(b) :
            (a \o b)[i] = IF i <= Len(a) THEN a[i] ELSE b[i - Len(a)]
  BY <1>1, <1>2, ConcatProperties
<1>4. Len(b) \in Nat
  BY <1>2
<1>5. Len(a \o b) = Len(b) + 1 /\ (a \o b)[1] = x
  BY <1>1, <1>3, <1>4
<1>6. \A i \in 2 .. Len(a \o b) : (a \o b)[i] = b[i - 1]
  BY <1>1, <1>3, <1>4
<1>7. Promoted(q, x) = a \o b
  BY DEF Promoted, a, b
<1> QED BY <1>3, <1>5, <1>6, <1>7 DEF b

(* Nothing occurs twice if nothing did before. *)
LEMMA PromotedDistinct ==
  ASSUME NEW S, NEW q \in Seq(S), NEW x \in S, Distinct(q)
  PROVE  Distinct(Promoted(q, x))
<1> DEFINE s == Promoted(q, x)
           b == Without(q, x)
<1>2. /\ s \in Seq(S) /\ Len(s) = Len(b) + 1 /\ s[1] = x
      /\ \A i \in 2 .. Len(s) : s[i] = b[i - 1]
  BY PromotedFacts
<1>3. b \in Seq(S) /\ Distinct(b) /\ ToSet(b) = ToSet(q) \ {x}
  BY WithoutFacts
<1> HIDE DEF s, b
<1>4. \A k \in 1 .. Len(b) : b[k] # x
  BY <1>3 DEF ToSet
<1>5. ASSUME NEW i \in 1 .. Len(s), NEW j \in 1 .. Len(s), i < j
      PROVE  s[i] # s[j]
  <2>1. s[j] = b[j - 1] /\ j - 1 \in 1 .. Len(b)
    BY <1>2, <1>3, <1>5
  <2>2. CASE i = 1
    BY <1>2, <1>4, <2>1, <2>2
  <2>3. CASE i # 1
    <3>1. s[i] = b[i - 1] /\ i - 1 \in 1 .. Len(b) /\ i - 1 # j - 1
      BY <1>2, <1>3, <1>5, <2>3
    <3> QED BY <1>3, <2>1, <3>1 DEF Distinct
  <2> QED BY <2>2, <2>3
<1>6. Distinct(s)
  <2> SUFFICES ASSUME NEW i \in 1 .. Len(s), NEW j \in 1 .. Len(s), i # j
               PROVE  s[i] # s[j]
    BY <1>2 DEF Distinct
  <2>1. i < j \/ j < i
    BY <1>2
  <2> QED BY <1>5, <2>1
<1> QED BY <1>6 DEF s

(* The list that UpdateRecentRecords(r) makes before it cuts it. *)
Pushed(r) == Promoted(recent, r)

(* The list before the cut is r followed by what Without leaves. *)
LEMMA PushedFacts ==
  ASSUME recent \in Seq(Records), NEW r \in Records
  PROVE  /\ Pushed(r) \in Seq(Records)
         /\ Len(Pushed(r)) = Len(Without(recent, r)) + 1
         /\ Pushed(r)[1] = r
         /\ \A i \in 2 .. Len(Pushed(r)) :
              Pushed(r)[i] = Without(recent, r)[i - 1]
<1>1. Promoted(recent, r) \in Seq(Records)
  BY PromotedFacts
<1>2. Len(Promoted(recent, r)) = Len(Without(recent, r)) + 1
  BY PromotedFacts
<1>3. Promoted(recent, r)[1] = r
  BY PromotedFacts
<1>4. \A i \in 2 .. Len(Promoted(recent, r)) :
        Promoted(recent, r)[i] = Without(recent, r)[i - 1]
  BY PromotedFacts
<1> QED BY <1>1, <1>2, <1>3, <1>4 DEF Pushed

(* The new list is the beginning of the list before the cut. *)
LEMMA UpdateFacts ==
  ASSUME recent \in Seq(Records), cacheLimit \in Nat \ {0}, NEW r \in Records
  PROVE  LET u == UpdateRecentRecords(r)
         IN  /\ u \in Seq(Records)
             /\ Len(u) = IF Len(Pushed(r)) > cacheLimit
                           THEN cacheLimit ELSE Len(Pushed(r))
             /\ \A i \in 1 .. Len(u) : i \in 1 .. Len(Pushed(r)) /\ u[i] = Pushed(r)[i]
<1> DEFINE s == Pushed(r)
           u == UpdateRecentRecords(r)
<1>1. s \in Seq(Records)
  BY PushedFacts
<1>2. u = IF Len(s) > cacheLimit THEN SubSeq(s, 1, cacheLimit) ELSE s
  BY DEF UpdateRecentRecords, Pushed, Promoted
<1> HIDE DEF s, u
<1>3. CASE Len(s) > cacheLimit
  <2>1. \A i \in 1 .. cacheLimit : i \in 1 .. Len(s) /\ s[i] \in Records
    BY <1>1, <1>3
  <2>2. /\ SubSeq(s, 1, cacheLimit) \in Seq(Records)
        /\ Len(SubSeq(s, 1, cacheLimit)) = cacheLimit
        /\ \A i \in 1 .. cacheLimit : SubSeq(s, 1, cacheLimit)[i] = s[i]
    <3>1. 1 \in Int /\ cacheLimit \in Int /\ 1 <= cacheLimit
      OBVIOUS
    <3>2. /\ SubSeq(s, 1, cacheLimit) \in Seq(Records)
          /\ Len(SubSeq(s, 1, cacheLimit)) =
               IF 1 <= cacheLimit THEN cacheLimit - 1 + 1 ELSE 0
          /\ \A i \in 1 .. cacheLimit - 1 + 1 :
               SubSeq(s, 1, cacheLimit)[i] = s[1 + i - 1]
      BY <2>1, <3>1, SubSeqProperties
    <3> QED BY <3>1, <3>2
  <2> QED BY <1>2, <1>3, <2>1, <2>2 DEF s, u
<1>4. CASE ~(Len(s) > cacheLimit)
  BY <1>1, <1>2, <1>4 DEF s, u
<1> QED BY <1>3, <1>4

(* No record but r comes into the list. *)
LEMMA UpdateToSet ==
  ASSUME recent \in Seq(Records), cacheLimit \in Nat \ {0}, NEW r \in Records
  PROVE  ToSet(UpdateRecentRecords(r)) \subseteq {r} \union ToSet(recent)
<1> DEFINE u == UpdateRecentRecords(r)
           s == Pushed(r)
           b == Without(recent, r)
<1>1. /\ u \in Seq(Records)
      /\ \A i \in 1 .. Len(u) : i \in 1 .. Len(s) /\ u[i] = s[i]
  BY UpdateFacts
<1>2. /\ s \in Seq(Records) /\ Len(s) = Len(b) + 1 /\ s[1] = r
      /\ \A i \in 2 .. Len(s) : s[i] = b[i - 1]
  BY PushedFacts
<1>3. b \in Seq(Records) /\ ToSet(b) \subseteq ToSet(recent)
  BY WithoutFacts
<1> HIDE DEF u, s, b
<1>4. ASSUME NEW i \in DOMAIN u PROVE u[i] \in {r} \union ToSet(recent)
  <2>1. i \in 1 .. Len(s) /\ u[i] = s[i]
    BY <1>1
  <2>2. CASE i = 1
    BY <1>2, <2>1, <2>2
  <2>3. CASE i # 1
    <3>1. i \in 2 .. Len(s) /\ i - 1 \in DOMAIN b
      BY <1>2, <1>3, <2>1, <2>3
    <3> QED BY <1>2, <1>3, <2>1, <3>1 DEF ToSet
  <2> QED BY <2>2, <2>3
<1>5. ToSet(u) \subseteq {r} \union ToSet(recent)
  BY <1>4 DEF ToSet
<1> QED BY <1>5 DEF u

(* The new list holds no record twice if the old one does not. *)
LEMMA UpdateDistinct ==
  ASSUME recent \in Seq(Records), cacheLimit \in Nat \ {0}, NEW r \in Records,
         Distinct(recent)
  PROVE  Distinct(UpdateRecentRecords(r))
<1> DEFINE u == UpdateRecentRecords(r)
           s == Pushed(r)
<1>1. /\ u \in Seq(Records)
      /\ \A i \in 1 .. Len(u) : i \in 1 .. Len(s) /\ u[i] = s[i]
  BY UpdateFacts
<1>2. s \in Seq(Records)
  BY PushedFacts
<1>6. Distinct(s)
  BY PromotedDistinct DEF Pushed
<1> HIDE DEF u, s
<1>7. Distinct(u)
  <2> SUFFICES ASSUME NEW i \in 1 .. Len(u), NEW j \in 1 .. Len(u), u[i] = u[j]
               PROVE  i = j
    BY <1>1 DEF Distinct
  <2>1. i \in 1 .. Len(s) /\ j \in 1 .. Len(s) /\ s[i] = s[j]
    BY <1>1
  <2>2. DOMAIN s = 1 .. Len(s)
    BY <1>2
  <2>3. \A k, l \in 1 .. Len(s) : s[k] = s[l] => k = l
    BY <1>6, <2>2, Zenon DEF Distinct
  <2> QED BY <2>1, <2>3, Zenon
<1> QED BY <1>7 DEF u

-----------------------------------------------------------------------------
(* Types.                                                                  *)

LEMMA ThreadSets ==
  /\ \A c \in Clients : c \in Threads /\ c \notin Workers
  /\ \A w \in Workers : w \in Threads /\ w \notin Clients
  /\ \A w \in Loaders : w \in Workers /\ w \notin FileLoaders
  /\ \A w \in FileLoaders : w \in Workers /\ w \notin Loaders
  /\ \A w \in Workers : w \in Loaders \/ w \in FileLoaders
  /\ \A w \in Workers : w # NoThread /\ MutexOf(w) \in {"load", "file"}
BY StoreAssumption DEF Threads, Workers, MutexOf

(* The variables have their types at first. *)
LEMMA TypeInit == Init => TypeOK
BY StoreAssumption, ThreadSets
DEF Init, TypeOK, ClientTyped, WorkerTyped, ClientSteps, LoaderSteps

(* A set of times that is not empty has a greatest and a least element.    *)
LEMMA GreatestInSet ==
  ASSUME NEW K \in SUBSET Times, K # {}
  PROVE  Greatest(K) \in K /\ \A s \in K : s <= Greatest(K)
<1> DEFINE Above(t) == {s \in K : t < s}
           T == {Above(t) : t \in K}
           R == StrictSubsetOrdering(K)
<1>1. K \subseteq Nat /\ IsFiniteSet(K)
  BY StoreAssumption, FS_Subset
<1>2. IsWellFoundedOn(R, FiniteSubsetsOf(K))
  BY FS_StrictSubsetOrderingWellFounded
<1>3. T \subseteq FiniteSubsetsOf(K) /\ T # {}
  <2>1. ASSUME NEW t \in K PROVE Above(t) \in FiniteSubsetsOf(K)
    <3>1. Above(t) \in SUBSET K
      OBVIOUS
    <3>2. IsFiniteSet(Above(t))
      BY <1>1, <3>1, FS_Subset
    <3> QED BY <3>1, <3>2 DEF FiniteSubsetsOf
  <2> HIDE DEF Above
  <2>2. T \subseteq FiniteSubsetsOf(K)
    BY <2>1
  <2> QED BY <2>2
<1>4. \E x \in T : \A y \in T : <<y, x>> \notin R
  BY <1>2, <1>3, WFMin
<1>5. PICK t \in K : \A y \in T : <<y, Above(t)>> \notin R
  BY <1>4
<1>6. ASSUME NEW s \in K, t < s PROVE FALSE
  <2>1. Above(s) \subseteq Above(t) /\ s \in Above(t) /\ s \notin Above(s)
    <3>1. s \in Nat /\ t \in Nat
      BY <1>1
    <3>2. \A z \in K : s < z => t < z
      BY <1>1, <1>6, <3>1
    <3>3. ~(s < s)
      BY <3>1
    <3> QED BY <1>6, <3>2, <3>3
  <2>2. <<Above(s), Above(t)>> \in R
    BY <2>1 DEF StrictSubsetOrdering
  <2> QED BY <1>5, <2>2
<1>7. \A s \in K : s <= t
  BY <1>1, <1>6
<1> QED BY <1>7 DEF Greatest

(* A set of times that is finite and not empty has a least element. *)
LEMMA LeastInSet ==
  ASSUME NEW K \in SUBSET Times, K # {}
  PROVE  Least(K) \in K /\ \A s \in K : Least(K) <= s
<1> DEFINE Below(t) == {s \in K : s < t}
           T == {Below(t) : t \in K}
           R == StrictSubsetOrdering(K)
<1>1. K \subseteq Nat /\ IsFiniteSet(K)
  BY StoreAssumption, FS_Subset
<1>2. IsWellFoundedOn(R, FiniteSubsetsOf(K))
  BY FS_StrictSubsetOrderingWellFounded
<1>3. T \subseteq FiniteSubsetsOf(K) /\ T # {}
  <2>1. ASSUME NEW t \in K PROVE Below(t) \in FiniteSubsetsOf(K)
    <3>1. Below(t) \in SUBSET K
      OBVIOUS
    <3>2. IsFiniteSet(Below(t))
      BY <1>1, <3>1, FS_Subset
    <3> QED BY <3>1, <3>2 DEF FiniteSubsetsOf
  <2> HIDE DEF Below
  <2>2. T \subseteq FiniteSubsetsOf(K)
    BY <2>1
  <2> QED BY <2>2
<1>4. \E x \in T : \A y \in T : <<y, x>> \notin R
  BY <1>2, <1>3, WFMin
<1>5. PICK t \in K : \A y \in T : <<y, Below(t)>> \notin R
  BY <1>4
<1>6. ASSUME NEW s \in K, s < t PROVE FALSE
  <2>1. Below(s) \subseteq Below(t) /\ s \in Below(t) /\ s \notin Below(s)
    <3>1. s \in Nat /\ t \in Nat
      BY <1>1
    <3>2. \A z \in K : z < s => z < t
      BY <1>1, <1>6, <3>1
    <3>3. ~(s < s)
      BY <3>1
    <3> QED BY <1>6, <3>2, <3>3
  <2>2. <<Below(s), Below(t)>> \in R
    BY <2>1 DEF StrictSubsetOrdering
  <2> QED BY <1>5, <2>2
<1>7. \A s \in K : t <= s
  BY <1>1, <1>6
<1> QED BY <1>7 DEF Least

(* The elements of the map looked at are times. *)
LEMMA CandidatesType ==
  ASSUME NEW K \in SUBSET Times, NEW q \in Times \union {Latest}
  PROVE  Candidates(K, q) \in Seq(Times)
<1>1. CASE K = {}
  BY <1>1 DEF Candidates
<1>2. CASE K # {} /\ q = Latest
  <2>1. Greatest(K) \in Times
    BY <1>2, GreatestInSet
  <2> QED BY <1>2, <2>1 DEF Candidates
<1>3. CASE K # {} /\ q # Latest
  <2> DEFINE t == Bounded(K, q)
             s == Greatest(Before(K, t))
  <2>1. t \in K
    <3>1. CASE UpTo(K, q) # {}
      <4>1. UpTo(K, q) \in SUBSET Times /\ UpTo(K, q) \subseteq K
        BY DEF UpTo
      <4>2. Greatest(UpTo(K, q)) \in UpTo(K, q)
        BY <3>1, <4>1, GreatestInSet
      <4> QED BY <3>1, <4>1, <4>2 DEF Bounded
    <3>2. CASE UpTo(K, q) = {}
      BY <1>3, <3>2, LeastInSet DEF Bounded
    <3> QED BY <3>1, <3>2
  <2>2. Before(K, t) # {} => s \in Times
    <3>1. Before(K, t) \in SUBSET Times
      BY DEF Before
    <3> QED BY <3>1, GreatestInSet
  <2>3. Candidates(K, q) = IF Level2 /\ Before(K, t) # {} THEN <<t, s>> ELSE <<t>>
    BY <1>3 DEF Candidates
  <2> HIDE DEF t, s
  <2>4. t \in Times
    BY <2>1
  <2> QED BY <2>2, <2>3, <2>4
<1> QED BY <1>1, <1>2, <1>3

(* A weak pointer is locked to a record or to nothing. *)
LEMMA LockedType ==
  ASSUME TypeOK, NEW t \in Times
  PROVE  Locked(t) \in Records \/ Locked(t) = NoRecord
BY DEF TypeOK, Locked

(* The state of a worker does not change with the steps of a client. *)
LEMMA ClientStepKeepsWorkers ==
  ASSUME TypeOK, NEW c \in Clients, UNCHANGED <<job, mutex>>,
         NEW s, pc' = [pc EXCEPT ![c] = s],
         NEW R, holds' = [holds EXCEPT ![c] = R]
  PROVE  \A w \in Workers : WorkerTyped(w)'
<1> SUFFICES ASSUME NEW w \in Workers PROVE WorkerTyped(w)'
  OBVIOUS
<1>1. pc'[w] = pc[w] /\ holds'[w] = holds[w]
  BY ThreadSets DEF TypeOK
<1>2. WorkerTyped(w)
  BY DEF TypeOK
<1> QED BY <1>1, <1>2 DEF WorkerTyped

(* A worker changes neither the place nor the locals of another thread,    *)
(* and takes or frees a mutex that nobody else holds.                      *)
LEMMA WorkerStepKeepsOthers ==
  ASSUME TypeOK, NEW w \in Workers, UNCHANGED asked,
         NEW s, pc' = [pc EXCEPT ![w] = s],
         NEW R, holds' = [holds EXCEPT ![w] = R],
         NEW j, job' = [job EXCEPT ![w] = j],
         \/ mutex' = mutex
         \/ mutex[MutexOf(w)] \in {w, NoThread} /\ Acquire(w)
         \/ mutex[MutexOf(w)] \in {w, NoThread} /\ Release(w)
  PROVE  /\ \A c \in Clients : ClientTyped(c)'
         /\ \A x \in Workers \ {w} : WorkerTyped(x)'
<1>1. ASSUME NEW c \in Clients PROVE ClientTyped(c)'
  <2>1. pc'[c] = pc[c]
    BY ThreadSets DEF TypeOK
  <2> QED BY <2>1 DEF TypeOK, ClientTyped
<1>2. ASSUME NEW x \in Workers \ {w} PROVE WorkerTyped(x)'
  <2>1. pc'[x] = pc[x] /\ holds'[x] = holds[x] /\ job'[x] = job[x]
    BY ThreadSets DEF TypeOK
  <2>2. mutex[MutexOf(x)] = x <=> mutex'[MutexOf(x)] = x
    BY ThreadSets DEF TypeOK, Acquire, Release
  <2> QED BY <2>1, <2>2 DEF TypeOK, WorkerTyped
<1> QED BY <1>1, <1>2

(* Every step keeps TypeOK. *)
LEMMA TypeNext == TypeOK /\ [Next]_vars => TypeOK'
<1> SUFFICES ASSUME TypeOK, [Next]_vars PROVE TypeOK'
  OBVIOUS
<1> USE StoreAssumption
<1> USE DEF clients, threads, cache, map, Goto, Hold
<1>w. /\ holds' = holds => \A x \in Threads : holds' = [holds EXCEPT ![x] = holds[x]]
      /\ pc' = pc => \A x \in Threads : pc' = [pc EXCEPT ![x] = pc[x]]
      /\ job' = job => \A x \in Workers : job' = [job EXCEPT ![x] = job[x]]
  BY DEF TypeOK
<1>1. ASSUME NEW n \in CacheLimits, SetCacheLimit(n) PROVE TypeOK'
  BY <1>1 DEF SetCacheLimit, CappedLimit, TypeOK, ClientTyped, WorkerTyped
<1>2. ASSUME NEW c \in Clients, NEW q \in Times \union {Latest}, GetRecords(c, q)
      PROVE  TypeOK'
  <2>1. \A w \in Workers : WorkerTyped(w)'
    BY <1>2, <1>w, ThreadSets, ClientStepKeepsWorkers DEF GetRecords
  <2>2. \A x \in Clients : ClientTyped(x)'
    BY <1>2, ThreadSets DEF GetRecords, TypeOK, ClientTyped, ClientSteps
  <2> QED BY <1>2, <2>1, <2>2, ThreadSets DEF GetRecords, TypeOK, ClientSteps
<1>3. ASSUME NEW c \in Clients, FindElements(c) PROVE TypeOK'
  <2>1. Candidates(keys, asked[c]) \in Seq(Times)
    BY <1>3, CandidatesType DEF FindElements, TypeOK, ClientTyped
  <2>2. \A w \in Workers : WorkerTyped(w)'
    BY <1>3, <1>w, ThreadSets, ClientStepKeepsWorkers DEF FindElements
  <2>3. \A x \in Clients : ClientTyped(x)'
    BY <1>3, ThreadSets DEF FindElements, TypeOK, ClientTyped, ClientSteps
  <2> QED BY <1>3, <2>1, <2>2, <2>3, ThreadSets DEF FindElements, TypeOK, ClientSteps
<1>4. ASSUME NEW c \in Clients, ReadElement(c) PROVE TypeOK'
  <2> DEFINE t == Head(elements[c])
  <2>1. t \in Times /\ elements' \in [Clients -> Seq(Times)]
    BY <1>4, HeadTailToSet DEF ReadElement, TypeOK
  <2>2. loads' \in Seq(Loads)
    <3>1. CASE loads' = Append(loads, Load(t, "reload"))
      <4>1. Load(t, "reload") \in Loads /\ loads \in Seq(Loads)
        BY <2>1, RecordFields DEF TypeOK
      <4> QED BY <3>1, <4>1, AppendToSet
    <3>2. CASE loads' = loads
      BY <3>2 DEF TypeOK
    <3> QED BY <1>4, <3>1, <3>2 DEF ReadElement, Post
  <2>3. PICK R \in SUBSET Records : holds' = [holds EXCEPT ![c] = R]
    <3>1. CASE UNCHANGED holds
      BY <3>1, <1>w, ThreadSets DEF TypeOK
    <3>2. CASE Locked(t) # NoRecord /\ Hold(c, holds[c] \union {Locked(t)})
      <4>1. Locked(t) \in Records
        BY <3>2, <2>1, LockedType
      <4>2. holds[c] \in SUBSET Records
        BY ThreadSets DEF TypeOK
      <4> QED BY <3>2, <4>1, <4>2 DEF Hold
    <3> QED BY <1>4, <3>1, <3>2 DEF ReadElement
  <2>4. \A w \in Workers : WorkerTyped(w)'
    BY <1>4, <1>w, <2>3, ThreadSets, ClientStepKeepsWorkers DEF ReadElement
  <2>5. \A x \in Clients : ClientTyped(x)'
    BY <1>4 DEF ReadElement, TypeOK, ClientTyped
  <2>6. holds' \in [Threads -> SUBSET Records]
    BY <2>3 DEF TypeOK
  <2> QED BY <1>4, <2>1, <2>2, <2>4, <2>5, <2>6 DEF ReadElement, TypeOK
<1>5. ASSUME NEW c \in Clients, Return(c) PROVE TypeOK'
  <2>1. \A w \in Workers : WorkerTyped(w)'
    BY <1>5, ThreadSets, ClientStepKeepsWorkers DEF Return
  <2>2. \A x \in Clients : ClientTyped(x)'
    BY <1>5, ThreadSets DEF Return, TypeOK, ClientTyped, ClientSteps
  <2> QED BY <1>5, <2>1, <2>2, ThreadSets DEF Return, TypeOK, ClientSteps
<1>6. ASSUME NEW t \in Times, LoadNewData(t) PROVE TypeOK'
  <2>1. loads' \in Seq(Loads)
    BY <1>6, RecordFields, AppendToSet DEF LoadNewData, Post, TypeOK
  <2> QED BY <1>6, <2>1 DEF LoadNewData, TypeOK, ClientTyped, WorkerTyped
<1>7. ASSUME NEW w \in Loaders, TakeLoad(w) PROVE TypeOK'
  <2>1. Head(loads) \in Loads /\ Tail(loads) \in Seq(Loads) /\ Head(loads) \in Jobs
    BY <1>7, HeadTailToSet, RecordFields DEF TakeLoad, TypeOK
  <2>2. /\ \A c \in Clients : ClientTyped(c)'
        /\ \A x \in Workers \ {w} : WorkerTyped(x)'
    BY <1>7, <1>w, ThreadSets, WorkerStepKeepsOthers DEF TakeLoad
  <2>3. WorkerTyped(w)'
    BY <1>7, <2>1, ThreadSets DEF TakeLoad, TypeOK, WorkerTyped, LoaderSteps
  <2> QED BY <1>7, <2>1, <2>2, <2>3, ThreadSets DEF TakeLoad, TypeOK, LoaderSteps
<1>8. ASSUME NEW w \in FileLoaders, NEW f \in Times, OpenFile(w, f) PROVE TypeOK'
  <2>1. /\ \A c \in Clients : ClientTyped(c)'
        /\ \A x \in Workers \ {w} : WorkerTyped(x)'
    BY <1>8, <1>w, ThreadSets, WorkerStepKeepsOthers DEF OpenFile
  <2>2. WorkerTyped(w)'
    <3>1. w \in Workers /\ w \in Threads /\ w \notin Loaders
      BY ThreadSets
    <3>2. job'[w] \in Jobs /\ pc'[w] = "lock"
      BY <1>8, <3>1, RecordFields DEF OpenFile, TypeOK
    <3>3. mutex'[MutexOf(w)] # w
      BY <1>8, <3>1 DEF OpenFile, TypeOK, WorkerTyped
    <3>4. holds'[w] = {}
      BY <1>8, <3>1 DEF OpenFile, TypeOK, WorkerTyped
    <3> QED BY <3>1, <3>2, <3>3, <3>4 DEF WorkerTyped, LoaderSteps
  <2> QED BY <1>8, <2>1, <2>2, RecordFields, ThreadSets DEF OpenFile, TypeOK, LoaderSteps
<1>9. ASSUME NEW w \in Workers, LockMutex(w) PROVE TypeOK'
  <2>1. /\ \A c \in Clients : ClientTyped(c)'
        /\ \A x \in Workers \ {w} : WorkerTyped(x)'
    BY <1>9, <1>w, ThreadSets, WorkerStepKeepsOthers DEF LockMutex
  <2>2. WorkerTyped(w)'
    BY <1>9, ThreadSets DEF LockMutex, Acquire, TypeOK, WorkerTyped, LoaderSteps
  <2> QED BY <1>9, <2>1, <2>2, ThreadSets DEF LockMutex, Acquire, TypeOK, LoaderSteps
<1>10. ASSUME NEW w \in Workers, LookUp(w) PROVE TypeOK'
  <2>1. {Locked(job[w].time)} \ {NoRecord} \subseteq Records
    <3>1. job[w].time \in Times
      BY <1>10, RecordFields DEF LookUp, TypeOK, WorkerTyped
    <3> QED BY <3>1, LockedType
  <2>2. /\ \A c \in Clients : ClientTyped(c)'
        /\ \A x \in Workers \ {w} : WorkerTyped(x)'
    BY <1>10, <1>w, ThreadSets, WorkerStepKeepsOthers DEF LookUp
  <2>3. WorkerTyped(w)'
    BY <1>10, ThreadSets DEF LookUp, TypeOK, WorkerTyped, LoaderSteps
  <2> QED BY <1>10, <2>1, <2>2, <2>3, ThreadSets DEF LookUp, TypeOK, LoaderSteps
<1>11. ASSUME NEW w \in Workers, Create(w) PROVE TypeOK'
  <2>1. PICK r \in Records : holds' = [holds EXCEPT ![w] = {r}]
    BY <1>11 DEF Create, Unused
  <2>2. /\ \A c \in Clients : ClientTyped(c)'
        /\ \A x \in Workers \ {w} : WorkerTyped(x)'
    BY <1>11, <1>w, <2>1, ThreadSets, WorkerStepKeepsOthers DEF Create
  <2>3. WorkerTyped(w)'
    BY <1>11, <2>1, ThreadSets DEF Create, TypeOK, WorkerTyped, LoaderSteps
  <2>4. holds' \in [Threads -> SUBSET Records]
    BY <2>1 DEF TypeOK
  <2>5. pc' \in [Threads -> ClientSteps \union LoaderSteps]
    BY <1>11 DEF Create, TypeOK, LoaderSteps
  <2> QED BY <1>11, <2>2, <2>3, <2>4, <2>5 DEF Create, TypeOK
<1>12. ASSUME NEW w \in Workers, LoadFails(w) PROVE TypeOK'
  <2>1. mutex[MutexOf(w)] = w
    BY <1>12 DEF LoadFails, TypeOK, WorkerTyped
  <2>2. /\ \A c \in Clients : ClientTyped(c)'
        /\ \A x \in Workers \ {w} : WorkerTyped(x)'
    BY <1>12, <1>w, <2>1, ThreadSets, WorkerStepKeepsOthers DEF LoadFails
  <2>3. WorkerTyped(w)'
    BY <1>12, ThreadSets DEF LoadFails, Release, TypeOK, WorkerTyped, LoaderSteps
  <2> QED BY <1>12, <2>2, <2>3, ThreadSets DEF LoadFails, Release, TypeOK, LoaderSteps
<1>13. ASSUME NEW w \in Workers, StoreRadarProductRecord(w) PROVE TypeOK'
  <2>1. PICK new \in holds[w] :
          LET t == new.time
              stored == StoredRecord(t, new)
          IN  /\ keys' = keys \union {t}
              /\ pointer' = [pointer EXCEPT ![t] = stored]
              /\ recent' = UpdateRecentRecords(stored)
              /\ lastStored' = <<t>> \o Without(lastStored, t)
              /\ holds' = [holds EXCEPT ![w] = {stored}]
    BY <1>13 DEF StoreRadarProductRecord
  <2> DEFINE t == new.time
             stored == StoredRecord(t, new)
  <2>2. new \in Records /\ t \in Times
    BY <1>13, <2>1, ThreadSets, RecordFields DEF TypeOK
  <2>3. stored \in Records
    BY <2>2, LockedType DEF StoredRecord
  <2>4. recent' \in Seq(Records) /\ lastStored' \in Seq(Times)
    BY <2>1, <2>2, <2>3, UpdateFacts, PromotedFacts DEF TypeOK, Promoted
  <2> HIDE DEF t, stored
  <2>5. /\ keys' = keys \union {t} /\ pointer' = [pointer EXCEPT ![t] = stored]
        /\ holds' = [holds EXCEPT ![w] = {stored}]
    BY <2>1 DEF t, stored
  <2>6. mutex[MutexOf(w)] = w
    BY <1>13 DEF StoreRadarProductRecord, TypeOK, WorkerTyped
  <2>7. /\ \A c \in Clients : ClientTyped(c)'
        /\ \A x \in Workers \ {w} : WorkerTyped(x)'
    BY <1>13, <1>w, <2>5, <2>6, ThreadSets, WorkerStepKeepsOthers
    DEF StoreRadarProductRecord
  <2>8. WorkerTyped(w)'
    BY <1>13, <2>3, <2>5, ThreadSets
    DEF StoreRadarProductRecord, Release, TypeOK, WorkerTyped, LoaderSteps
  <2>9. holds' \in [Threads -> SUBSET Records]
    BY <2>3, <2>5 DEF TypeOK
  <2>10. pc' \in [Threads -> ClientSteps \union LoaderSteps]
    BY <1>13 DEF StoreRadarProductRecord, TypeOK, LoaderSteps
  <2>11. mutex' \in [{"load", "file"} -> Workers \union {NoThread}]
    BY <1>13, ThreadSets DEF StoreRadarProductRecord, Release, TypeOK
  <2>12. keys' \subseteq Times /\ pointer' \in [Times -> Records \union {NoRecord}]
    BY <2>2, <2>3, <2>5 DEF TypeOK
  <2> QED BY <1>13, <2>4, <2>7, <2>8, <2>9, <2>10, <2>11, <2>12
          DEF StoreRadarProductRecord, TypeOK
<1>14. ASSUME NEW w \in Workers, CompleteRequest(w) PROVE TypeOK'
  <2>1. PICK r \in holds[w] :
          \/ /\ w \in Loaders
             /\ completed' = Append(completed, [record |-> r, kind |-> job[w].kind])
             /\ UNCHANGED fileIndex
          \/ /\ w \in FileLoaders
             /\ fileIndex' = [fileIndex EXCEPT ![job[w].time] = r]
             /\ UNCHANGED completed
    BY <1>14 DEF CompleteRequest
  <2>2. r \in Records /\ job[w].time \in Times
    BY <1>14, ThreadSets, RecordFields DEF CompleteRequest, TypeOK, WorkerTyped
  <2>3. w \in Loaders => [record |-> r, kind |-> job[w].kind] \in Requests
    BY <1>14, <2>2, RecordFields DEF CompleteRequest, TypeOK, WorkerTyped, Requests
  <2>4. completed' \in Seq(Requests)
    <3>1. completed \in Seq(Requests)
      BY DEF TypeOK
    <3> QED BY <2>1, <2>3, <3>1, AppendToSet
  <2>5. fileIndex' \in [Times -> Records \union {NoRecord}]
    <3>1. fileIndex \in [Times -> Records \union {NoRecord}]
      BY DEF TypeOK
    <3> QED BY <2>1, <2>2, <3>1
  <2>6. /\ \A c \in Clients : ClientTyped(c)'
        /\ \A x \in Workers \ {w} : WorkerTyped(x)'
    BY <1>14, <1>w, ThreadSets, WorkerStepKeepsOthers DEF CompleteRequest
  <2>7. WorkerTyped(w)'
    BY <1>14, ThreadSets DEF CompleteRequest, TypeOK, WorkerTyped, LoaderSteps
  <2> QED BY <1>14, <2>4, <2>5, <2>6, <2>7, ThreadSets
          DEF CompleteRequest, TypeOK, LoaderSteps
<1>15. CASE RequestComplete
  <2>1. completed' \in Seq(Requests)
    BY <1>15, HeadTailToSet DEF RequestComplete, TypeOK
  <2> QED BY <1>15, <2>1 DEF RequestComplete, TypeOK, ClientTyped, WorkerTyped
<1>16. CASE UNCHANGED vars
  BY <1>16 DEF vars, TypeOK, ClientTyped, WorkerTyped
<1> QED BY <1>1, <1>2, <1>3, <1>4, <1>5, <1>6, <1>7, <1>8, <1>9, <1>10, <1>11,
           <1>12, <1>13, <1>14, <1>15, <1>16
        DEF Next, GetProductRecords, LoadNexradFile

(* Type correctness, for any number of volumes, threads and cached records. *)
THEOREM StoreTypeCorrect == Spec => []TypeOK
BY TypeInit, TypeNext, PTL DEF Spec

-----------------------------------------------------------------------------
(* The recent list.                                                        *)

(* Only the store of a record changes the recent list. *)
LEMMA RecentSteps ==
  ASSUME TypeOK, [Next]_vars
  PROVE  /\ cacheLimit \in Nat \ {0} /\ recent \in Seq(Records)
         /\ \/ UNCHANGED recent
            \/ \E r \in Records : recent' = UpdateRecentRecords(r)
<1> USE DEF clients, threads, cache, map
<1>1. ASSUME NEW w \in Workers, StoreRadarProductRecord(w)
      PROVE  \E r \in Records : recent' = UpdateRecentRecords(r)
  <2>1. PICK new \in holds[w] : recent' = UpdateRecentRecords(StoredRecord(new.time, new))
    BY <1>1 DEF StoreRadarProductRecord
  <2>2. new \in Records /\ new.time \in Times
    BY <2>1, ThreadSets, RecordFields DEF TypeOK
  <2>3. StoredRecord(new.time, new) \in Records
    BY <2>2, LockedType DEF StoredRecord
  <2> QED BY <2>1, <2>3
<1>2. ASSUME \A w \in Workers : ~StoreRadarProductRecord(w)
      PROVE  UNCHANGED recent
  BY <1>2
  DEF Next, SetCacheLimit, GetRecords, GetProductRecords, FindElements, ReadElement,
      Return, LoadNewData, TakeLoad, OpenFile, LoadNexradFile, LockMutex, LookUp,
      Create, LoadFails, CompleteRequest, RequestComplete, vars
<1>3. cacheLimit \in Nat \ {0} /\ recent \in Seq(Records)
  BY DEF TypeOK
<1> QED BY <1>1, <1>2, <1>3

(***************************************************************************)
(* The recent list never holds a record twice: cacheLimit_ is the number   *)
(* of volumes it keeps.                                                    *)
(***************************************************************************)
THEOREM RecentRecordsDistinct == Spec => []RecentDistinct
<1>1. Init => RecentDistinct
  BY DEF Init, RecentDistinct
<1>2. ASSUME TypeOK, RecentDistinct, [Next]_vars PROVE RecentDistinct'
  <2>1. CASE UNCHANGED recent
    BY <1>2, <2>1 DEF RecentDistinct
  <2>2. ASSUME NEW r \in Records, recent' = UpdateRecentRecords(r)
        PROVE  RecentDistinct'
    <3>1. Distinct(recent)
      BY <1>2 DEF RecentDistinct, Distinct
    <3>2. Distinct(UpdateRecentRecords(r))
      BY <1>2, <3>1, RecentSteps, UpdateDistinct
    <3> QED BY <2>2, <3>2 DEF RecentDistinct, Distinct
  <2> QED BY <1>2, <2>1, <2>2, RecentSteps
<1> QED BY <1>1, <1>2, StoreTypeCorrect, PTL DEF Spec

-----------------------------------------------------------------------------
(* One record per volume.                                                  *)

(* A pointer of the map points to a record of its own time. *)
PointsToOwnTime == \A t \in Times : pointer[t] # NoRecord => pointer[t].time = t

SharedHolders(r) ==
  \/ r \in ToSet(recent)
  \/ r \in InRequests
  \/ r # NoRecord /\ \E f \in Times : fileIndex[f] = r
  \/ \E c \in Clients : r \in holds[c]
  \/ \E w \in Workers : pc[w] \in {"create", "complete"} /\ r \in holds[w]

(* A record is shared if it has one of the holders that others see. *)
LEMMA SharedMember ==
  /\ \A r : r \in Shared <=> SharedHolders(r)
  /\ \A r : (r \in Shared)' <=> SharedHolders(r)'
<1>1. \A r : r \in Indexed <=> r # NoRecord /\ \E f \in Times : fileIndex[f] = r
  BY DEF Indexed
<1>2. \A r : (r \in Indexed)' <=> r # NoRecord /\ \E f \in Times : fileIndex'[f] = r
  BY DEF Indexed
<1>3. \A r : r \in UNION {holds[c] : c \in Clients} <=> \E c \in Clients : r \in holds[c]
  OBVIOUS
<1>4. \A r : r \in UNION {holds'[c] : c \in Clients} <=> \E c \in Clients : r \in holds'[c]
  OBVIOUS
<1>5. \A r : r \in UNION {holds[w] : w \in {x \in Workers : pc[x] \in {"create", "complete"}}}
          <=> \E w \in Workers : pc[w] \in {"create", "complete"} /\ r \in holds[w]
  OBVIOUS
<1>6. \A r : r \in UNION {holds'[w] : w \in {x \in Workers : pc'[x] \in {"create", "complete"}}}
          <=> \E w \in Workers : pc'[w] \in {"create", "complete"} /\ r \in holds'[w]
  OBVIOUS
<1> DEFINE A == UNION {holds[c] : c \in Clients}
           B == UNION {holds[w] : w \in {x \in Workers : pc[x] \in {"create", "complete"}}}
           C == UNION {holds'[c] : c \in Clients}
           D == UNION {holds'[w] : w \in {x \in Workers : pc'[x] \in {"create", "complete"}}}
<1>7. /\ Shared = ToSet(recent) \union InRequests \union Indexed \union A \union B
      /\ Shared' = ToSet(recent') \union InRequests' \union Indexed' \union C \union D
  <2>1. Shared = ToSet(recent) \union InRequests \union Indexed \union A \union B
    BY Zenon DEF Shared
  <2>2. Shared' = ToSet(recent)' \union InRequests' \union Indexed' \union C \union D
    BY Zenon DEF Shared
  <2> QED BY <2>1, <2>2
<1>8. /\ \A r : r \in A <=> \E c \in Clients : r \in holds[c]
      /\ \A r : r \in B <=> \E w \in Workers :
                              pc[w] \in {"create", "complete"} /\ r \in holds[w]
      /\ \A r : r \in C <=> \E c \in Clients : r \in holds'[c]
      /\ \A r : r \in D <=> \E w \in Workers :
                              pc'[w] \in {"create", "complete"} /\ r \in holds'[w]
  BY <1>3, <1>4, <1>5, <1>6
<1> HIDE DEF A, B, C, D
<1>9. \A r : r \in Shared <=> SharedHolders(r)
  BY <1>1, <1>7, <1>8 DEF SharedHolders
<1>10. \A r : (r \in Shared)' <=> SharedHolders(r)'
  BY <1>2, <1>7, <1>8 DEF SharedHolders
<1> QED BY <1>9, <1>10

LiveHolders(r) ==
  \/ r \in ToSet(recent)
  \/ r \in InRequests
  \/ r # NoRecord /\ \E f \in Times : fileIndex[f] = r
  \/ \E th \in Threads : r \in holds[th]

(* A record is alive if it has a holder. *)
LEMMA LiveMember ==
  /\ \A r : r \in Live <=> LiveHolders(r)
  /\ \A r : (r \in Live)' <=> LiveHolders(r)'
<1> DEFINE A == UNION {holds[th] : th \in Threads}
           B == UNION {holds'[th] : th \in Threads}
<1>1. /\ \A r : r \in Indexed <=> r # NoRecord /\ \E f \in Times : fileIndex[f] = r
      /\ \A r : (r \in Indexed)' <=> r # NoRecord /\ \E f \in Times : fileIndex'[f] = r
  BY DEF Indexed
<1>2. /\ \A r : r \in A <=> \E th \in Threads : r \in holds[th]
      /\ \A r : r \in B <=> \E th \in Threads : r \in holds'[th]
  OBVIOUS
<1>3. Live = ToSet(recent) \union InRequests \union Indexed \union A
  BY Zenon DEF Live
<1>4. Live' = ToSet(recent)' \union InRequests' \union Indexed' \union B
  BY Zenon DEF Live
<1> HIDE DEF A, B
<1>5. \A r : r \in Live <=> LiveHolders(r)
  BY <1>1, <1>2, <1>3 DEF LiveHolders
<1>6. \A r : (r \in Live)' <=> LiveHolders(r)'
  BY <1>1, <1>2, <1>4 DEF LiveHolders
<1> QED BY <1>5, <1>6

(* What is alive are records: no holder has a null pointer. *)
LEMMA LiveRecords == TypeOK => Live \subseteq Records
<1> SUFFICES ASSUME TypeOK, NEW r, LiveHolders(r) PROVE r \in Records
  BY LiveMember
<1>1. CASE r \in ToSet(recent)
  BY <1>1 DEF TypeOK, ToSet
<1>2. CASE r \in InRequests
  <2>1. PICK i \in DOMAIN completed : r = completed[i].record
    BY <1>2 DEF InRequests
  <2>2. completed \in Seq(Requests) /\ i \in 1 .. Len(completed)
    BY DEF TypeOK
  <2>3. completed[i] \in Requests
    BY <2>2
  <2> QED BY <2>1, <2>3 DEF Requests
<1>3. CASE r # NoRecord /\ \E f \in Times : fileIndex[f] = r
  BY <1>3 DEF TypeOK
<1>4. CASE \E th \in Threads : r \in holds[th]
  BY <1>4 DEF TypeOK
<1> QED BY <1>1, <1>2, <1>3, <1>4 DEF LiveHolders

LEMMA SharedIsLive == Shared \subseteq Live
<1> SUFFICES ASSUME NEW r, SharedHolders(r) PROVE r \in Live
  BY SharedMember
<1>1. Clients \subseteq Threads /\ Workers \subseteq Threads
  BY DEF Threads
<1>2. \A th \in Threads : r \in holds[th] => r \in UNION {holds[x] : x \in Threads}
  OBVIOUS
<1> QED BY <1>1, <1>2 DEF SharedHolders, Live, Indexed

(* A step that stores nothing shares only records the map leads to. *)
LEMMA NothingStored ==
  ASSUME SharedIsFound, UNCHANGED pointer,
         \A r : SharedHolders(r)' => SharedHolders(r) \/ pointer[r.time] = r
  PROVE  SharedIsFound'
BY SharedMember DEF SharedIsFound

(* What a weak pointer is locked to is what the map leads to. *)
LEMMA LockedIsFound ==
  ASSUME TypeOK, PointsToOwnTime, NEW t \in Times, Locked(t) # NoRecord
  PROVE  pointer[Locked(t).time] = Locked(t)
BY DEF TypeOK, PointsToOwnTime, Locked

(* The map leads to a record when it is stored. *)
LEMMA StoredIsFound ==
  ASSUME TypeOK, PointsToOwnTime, SharedIsFound, NEW t \in Times,
         NEW new \in Records, new.time = t,
         pointer' = [pointer EXCEPT ![t] = StoredRecord(t, new)],
         \A r : SharedHolders(r)' => SharedHolders(r) \/ r = StoredRecord(t, new)
  PROVE  PointsToOwnTime' /\ SharedIsFound'
<1> DEFINE stored == StoredRecord(t, new)
<1>1. stored \in Records /\ stored.time = t
  BY LockedType DEF StoredRecord, Locked, PointsToOwnTime
<1>2. ASSUME NEW r \in Shared, r.time = t PROVE r = stored
  <2>1. pointer[t] = r /\ r \in Live
    BY <1>2, SharedIsLive DEF SharedIsFound
  <2>2. Locked(t) = r
    BY <2>1 DEF Locked
  <2>3. r # NoRecord
    BY <2>1, LiveRecords, StoreAssumption
  <2> QED BY <2>2, <2>3 DEF StoredRecord
<1> HIDE DEF stored
<1>3. pointer' = [pointer EXCEPT ![t] = stored]
  BY DEF stored
<1>4. PointsToOwnTime'
  BY <1>1, <1>3 DEF PointsToOwnTime, TypeOK
<1>5. ASSUME NEW r, SharedHolders(r)' PROVE pointer'[r.time] = r
  <2>1. CASE r = stored
    BY <1>1, <1>3, <2>1 DEF TypeOK
  <2>2. CASE r # stored
    <3>1. r \in Shared
      BY <1>5, <2>2, SharedMember DEF stored
    <3>2. pointer[r.time] = r /\ r.time # t
      BY <1>2, <2>2, <3>1 DEF SharedIsFound
    <3> QED BY <1>3, <3>2 DEF TypeOK
  <2> QED BY <2>1, <2>2
<1>6. SharedIsFound'
  BY <1>5, SharedMember DEF SharedIsFound
<1> QED BY <1>4, <1>6

(* A completed request keeps its record alive, and no other. *)
LEMMA RequestAppended ==
  ASSUME TypeOK, NEW r, NEW k,
         \/ completed' = Append(completed, [record |-> r, kind |-> k])
         \/ UNCHANGED completed
  PROVE  InRequests' \subseteq InRequests \union {r}
<1>1. ASSUME completed' = Append(completed, [record |-> r, kind |-> k]),
             NEW i \in DOMAIN completed'
      PROVE  completed'[i].record \in InRequests \union {r}
  <2>1. completed \in Seq(Requests)
    BY DEF TypeOK
  <2>2. \/ i \in DOMAIN completed /\ completed'[i] = completed[i]
        \/ completed'[i] = [record |-> r, kind |-> k]
    BY <1>1, <2>1
  <2> QED BY <2>2 DEF InRequests
<1> QED BY <1>1 DEF InRequests

(* A request that is handled adds no record. *)
LEMMA RequestRemoved ==
  ASSUME TypeOK, completed # <<>>, completed' = Tail(completed)
  PROVE  InRequests' \subseteq InRequests
<1>1. ASSUME NEW i \in DOMAIN completed'
      PROVE  completed'[i].record \in InRequests
  <2>1. completed \in Seq(Requests)
    BY DEF TypeOK
  <2>2. i + 1 \in DOMAIN completed /\ completed'[i] = completed[i + 1]
    BY <2>1, HeadTailProperties
  <2> QED BY <2>2 DEF InRequests
<1> QED BY <1>1 DEF InRequests

(* Every step keeps SharedIsFound, with PointsToOwnTime. *)
LEMMA SharedNext ==
  TypeOK /\ PointsToOwnTime /\ SharedIsFound /\ [Next]_vars
    => PointsToOwnTime' /\ SharedIsFound'
<1> SUFFICES ASSUME TypeOK, PointsToOwnTime, SharedIsFound, [Next]_vars
             PROVE  PointsToOwnTime' /\ SharedIsFound'
  OBVIOUS
<1> USE DEF clients, threads, cache, map, Goto, Hold
<1>k. UNCHANGED pointer => PointsToOwnTime'
  BY DEF PointsToOwnTime
<1>1. ASSUME NEW n \in CacheLimits, SetCacheLimit(n)
      PROVE  PointsToOwnTime' /\ SharedIsFound'
  BY <1>1, <1>k, NothingStored DEF SetCacheLimit, SharedHolders, InRequests
<1>2. ASSUME NEW c \in Clients,
             \/ \E q \in Times \union {Latest} : GetRecords(c, q)
             \/ FindElements(c)
      PROVE  PointsToOwnTime' /\ SharedIsFound'
  <2>1. \A w \in Workers : pc'[w] = pc[w]
    BY <1>2, ThreadSets DEF GetRecords, FindElements, TypeOK
  <2> QED BY <1>2, <2>1, <1>k, NothingStored
          DEF GetRecords, FindElements, SharedHolders, InRequests
<1>3. ASSUME NEW c \in Clients, ReadElement(c)
      PROVE  PointsToOwnTime' /\ SharedIsFound'
  <2> DEFINE t == Head(elements[c])
  <2>1. t \in Times
    BY <1>3, HeadTailToSet DEF ReadElement, TypeOK
  <2>2. ASSUME NEW r, NEW th \in Threads, r \in holds'[th]
        PROVE  r \in holds[th] \/ pointer[r.time] = r
    <3>1. CASE UNCHANGED holds
      BY <2>2, <3>1
    <3>2. CASE Locked(t) # NoRecord /\ Hold(c, holds[c] \union {Locked(t)})
      <4>1. pointer[Locked(t).time] = Locked(t)
        BY <2>1, <3>2, LockedIsFound
      <4>2. r \in holds[th] \/ r = Locked(t)
        BY <2>2, <3>2 DEF TypeOK
      <4> QED BY <4>1, <4>2
    <3> QED BY <1>3, <3>1, <3>2 DEF ReadElement
  <2>3. ASSUME NEW r, SharedHolders(r)'
        PROVE  SharedHolders(r) \/ pointer[r.time] = r
    BY <1>3, <2>2, <2>3, ThreadSets DEF ReadElement, SharedHolders, InRequests
  <2> QED BY <1>3, <2>3, <1>k, NothingStored DEF ReadElement
<1>4. ASSUME NEW c \in Clients, Return(c)
      PROVE  PointsToOwnTime' /\ SharedIsFound'
  <2>1. \A th \in Threads : holds'[th] \subseteq holds[th]
    BY <1>4 DEF Return, TypeOK
  <2>2. \A w \in Workers : pc'[w] = pc[w]
    BY <1>4, ThreadSets DEF Return, TypeOK
  <2>3. ASSUME NEW r, SharedHolders(r)' PROVE SharedHolders(r)
    BY <1>4, <2>1, <2>2, <2>3, ThreadSets DEF Return, SharedHolders, InRequests
  <2> QED BY <1>4, <2>3, <1>k, NothingStored DEF Return
<1>5. ASSUME NEW t \in Times, LoadNewData(t)
      PROVE  PointsToOwnTime' /\ SharedIsFound'
  BY <1>5, <1>k, NothingStored DEF LoadNewData, SharedHolders, InRequests
<1>6. ASSUME NEW w \in Workers,
             \/ w \in Loaders /\ TakeLoad(w)
             \/ w \in FileLoaders /\ \E f \in Times : OpenFile(w, f)
             \/ LockMutex(w)
             \/ LoadFails(w)
      PROVE  PointsToOwnTime' /\ SharedIsFound'
  <2>1. UNCHANGED <<pointer, holds, recent, completed, fileIndex>>
    BY <1>6 DEF TakeLoad, OpenFile, LockMutex, LoadFails
  <2>2. PICK s : pc' = [pc EXCEPT ![w] = s]
    BY <1>6 DEF TakeLoad, OpenFile, LockMutex, LoadFails
  <2>3. WorkerTyped(w) /\ w \in Threads
    BY ThreadSets DEF TypeOK
  <2>4. holds[w] = {}
    BY <1>6, <2>3 DEF TakeLoad, OpenFile, LockMutex, LoadFails, WorkerTyped
  <2>5. \A x \in Workers : x # w => pc'[x] = pc[x]
    BY <2>2, ThreadSets DEF TypeOK
  <2>6. ASSUME NEW r, SharedHolders(r)' PROVE SharedHolders(r)
    BY <2>1, <2>4, <2>5, <2>6 DEF SharedHolders, InRequests
  <2> QED BY <2>1, <2>6, <1>k, NothingStored
<1>7. ASSUME NEW w \in Workers, LookUp(w)
      PROVE  PointsToOwnTime' /\ SharedIsFound'
  <2> DEFINE t == job[w].time
  <2>1. t \in Times
    BY <1>7, RecordFields DEF LookUp, TypeOK, WorkerTyped
  <2>2. /\ holds' = [holds EXCEPT ![w] = {Locked(t)} \ {NoRecord}]
        /\ UNCHANGED <<pointer, recent, completed, fileIndex>>
    BY <1>7 DEF LookUp
  <2>3. \A x \in Threads : x # w => pc'[x] = pc[x] /\ holds'[x] = holds[x]
    BY <1>7, <2>2 DEF LookUp, TypeOK
  <2>4. \A r \in holds'[w] : pointer[r.time] = r
    BY <2>1, <2>2, LockedIsFound, ThreadSets DEF TypeOK
  <2>5. ASSUME NEW r, SharedHolders(r)'
        PROVE  SharedHolders(r) \/ pointer[r.time] = r
    BY <2>2, <2>3, <2>4, <2>5, ThreadSets DEF SharedHolders, InRequests
  <2> QED BY <2>2, <2>5, <1>k, NothingStored
<1>8. ASSUME NEW w \in Workers, Create(w)
      PROVE  PointsToOwnTime' /\ SharedIsFound'
  <2>1. UNCHANGED <<pointer, recent, completed, fileIndex>>
    BY <1>8 DEF Create
  <2>2. PICK R : holds' = [holds EXCEPT ![w] = R]
    BY <1>8 DEF Create
  <2>3. \A x \in Threads : x # w => pc'[x] = pc[x] /\ holds'[x] = holds[x]
    BY <1>8, <2>2 DEF Create, TypeOK
  <2>4. pc'[w] = "store"
    BY <1>8, ThreadSets DEF Create, TypeOK
  <2>5. ASSUME NEW r, SharedHolders(r)' PROVE SharedHolders(r)
    BY <2>1, <2>3, <2>4, <2>5, ThreadSets DEF SharedHolders, InRequests
  <2> QED BY <2>1, <2>5, <1>k, NothingStored
<1>9. ASSUME NEW w \in Workers, StoreRadarProductRecord(w)
      PROVE  PointsToOwnTime' /\ SharedIsFound'
  <2>1. PICK new \in holds[w] :
          LET t == new.time
              stored == StoredRecord(t, new)
          IN  /\ pointer' = [pointer EXCEPT ![t] = stored]
              /\ recent' = UpdateRecentRecords(stored)
              /\ holds' = [holds EXCEPT ![w] = {stored}]
    BY <1>9 DEF StoreRadarProductRecord
  <2> DEFINE t == new.time
             stored == StoredRecord(t, new)
  <2>2. new \in Records /\ t \in Times
    BY <2>1, ThreadSets, RecordFields DEF TypeOK
  <2>3. stored \in Records
    BY <2>2, LockedType DEF StoredRecord
  <2>4. ToSet(recent') \subseteq {stored} \union ToSet(recent)
    BY <2>1, <2>3, UpdateToSet DEF TypeOK
  <2>5. \A x \in Threads : x # w => pc'[x] = pc[x] /\ holds'[x] = holds[x]
    BY <1>9, <2>1 DEF StoreRadarProductRecord, TypeOK
  <2>6. holds'[w] = {stored}
    BY <2>1, ThreadSets DEF TypeOK
  <2>7. UNCHANGED <<completed, fileIndex>>
    BY <1>9 DEF StoreRadarProductRecord
  <2> HIDE DEF stored
  <2>8. ASSUME NEW r, SharedHolders(r)' PROVE SharedHolders(r) \/ r = stored
    BY <2>4, <2>5, <2>6, <2>7, <2>8, ThreadSets DEF SharedHolders, InRequests
  <2> QED BY <2>1, <2>2, <2>8, StoredIsFound DEF stored
<1>10. ASSUME NEW w \in Workers, CompleteRequest(w)
       PROVE  PointsToOwnTime' /\ SharedIsFound'
  <2>1. PICK r \in holds[w] :
          \/ /\ completed' = Append(completed, [record |-> r, kind |-> job[w].kind])
             /\ UNCHANGED fileIndex
          \/ /\ fileIndex' = [fileIndex EXCEPT ![job[w].time] = r]
             /\ UNCHANGED completed
    BY <1>10 DEF CompleteRequest
  <2>2. InRequests' \subseteq InRequests \union {r}
    BY <2>1, RequestAppended
  <2>3. \A f \in Times : fileIndex'[f] = fileIndex[f] \/ fileIndex'[f] = r
    BY <2>1 DEF TypeOK
  <2>4. /\ SharedHolders(r)
        /\ UNCHANGED <<pointer, recent>>
    BY <1>10 DEF CompleteRequest, SharedHolders
  <2>5. \A x \in Threads : x # w => pc'[x] = pc[x] /\ holds'[x] = holds[x]
    BY <1>10 DEF CompleteRequest, TypeOK
  <2>6. holds'[w] = {}
    BY <1>10, ThreadSets DEF CompleteRequest, TypeOK
  <2>7. ASSUME NEW s, SharedHolders(s)', s # r PROVE SharedHolders(s)
    BY <2>2, <2>3, <2>4, <2>5, <2>6, <2>7, ThreadSets DEF SharedHolders
  <2> QED BY <2>4, <2>7, <1>k, NothingStored
<1>11. CASE RequestComplete
  <2>1. InRequests' \subseteq InRequests
    BY <1>11, RequestRemoved DEF RequestComplete
  <2>2. UNCHANGED <<pointer, recent, fileIndex, holds, pc>>
    BY <1>11 DEF RequestComplete
  <2>3. ASSUME NEW r, SharedHolders(r)' PROVE SharedHolders(r)
    BY <2>1, <2>2, <2>3 DEF SharedHolders
  <2> QED BY <2>2, <2>3, <1>k, NothingStored
<1>12. CASE UNCHANGED vars
  <2>1. UNCHANGED <<pointer, recent, completed, fileIndex, holds, pc>>
    BY <1>12 DEF vars
  <2>2. ASSUME NEW r, SharedHolders(r)' PROVE SharedHolders(r)
    BY <2>1, <2>2 DEF SharedHolders, InRequests
  <2> QED BY <2>1, <2>2, <1>k, NothingStored
<1>13. ASSUME NEW w \in Workers, LoadNexradFile(w)
       PROVE  PointsToOwnTime' /\ SharedIsFound'
  BY <1>6, <1>7, <1>8, <1>9, <1>10, <1>13 DEF LoadNexradFile
<1>14. ASSUME NEW c \in Clients, GetProductRecords(c)
       PROVE  PointsToOwnTime' /\ SharedIsFound'
  BY <1>2, <1>3, <1>4, <1>14 DEF GetProductRecords
<1>15. ASSUME NEW w \in Workers,
              \/ w \in Loaders /\ TakeLoad(w)
              \/ w \in FileLoaders /\ \E f \in Times : OpenFile(w, f)
       PROVE  PointsToOwnTime' /\ SharedIsFound'
  BY <1>6, <1>15
<1>16. Loaders \subseteq Workers /\ FileLoaders \subseteq Workers
  BY DEF Workers
<1>17. Queries \subseteq Times \union {Latest} /\ Files \subseteq Times
  BY StoreAssumption
<1> QED BY <1>1, <1>2, <1>5, <1>11, <1>12, <1>13, <1>14, <1>15, <1>16, <1>17
        DEF Next

(***************************************************************************)
(* No volume is ever in memory twice: whatever order loads from the        *)
(* network, loads of files and evictions come in, the map leads to every   *)
(* record that anyone uses.  The invariant is inductive together with the  *)
(* time of what a pointer points to.                                       *)
(***************************************************************************)
THEOREM OneRecordPerVolume == Spec => []SharedIsFound
<1>1. Init => PointsToOwnTime /\ SharedIsFound
  <2> SUFFICES ASSUME Init PROVE PointsToOwnTime /\ SharedIsFound
    OBVIOUS
  <2>1. PointsToOwnTime
    BY DEF Init, PointsToOwnTime
  <2>2. \A r : ~SharedHolders(r)
    BY ThreadSets DEF Init, SharedHolders, InRequests, ToSet
  <2> QED BY <2>1, <2>2, SharedMember DEF SharedIsFound
<1> QED BY <1>1, SharedNext, StoreTypeCorrect, PTL DEF Spec

(* What a pointer of the map points to has the pointer's time. *)
LEMMA OwnTime == Spec => []PointsToOwnTime
<1>1. Init => PointsToOwnTime
  BY DEF Init, PointsToOwnTime
<1> QED BY <1>1, SharedNext, StoreTypeCorrect, OneRecordPerVolume, PTL DEF Spec

-----------------------------------------------------------------------------
(* What was stored last.                                                   *)

(* The recent list has the records of the volumes stored last, in their    *)
(* order, and as many as there are or as the least limit allows.           *)
Remembered ==
  /\ cacheLimit >= MinCacheLimit
  /\ Distinct(lastStored)
  /\ Len(recent) <= Len(lastStored)
  /\ Len(recent) >= MinCacheLimit \/ Len(recent) = Len(lastStored)
  /\ \A i \in 1 .. Len(recent) : recent[i].time = lastStored[i]

(* What is stored last comes first. *)
LEMMA PlacedFacts ==
  ASSUME NEW q \in Seq(Times), NEW t \in Times
  PROVE  /\ Promoted(q, t) \in Seq(Times)
         /\ Len(Promoted(q, t)) = Len(Without(q, t)) + 1
         /\ Promoted(q, t)[1] = t
         /\ \A i \in 2 .. Len(Promoted(q, t)) :
              Promoted(q, t)[i] = Without(q, t)[i - 1]
BY PromotedFacts

(* Storing a record moves it, or puts it, to the front of both lists. *)
LEMMA StoreRemembers ==
  ASSUME TypeOK, PointsToOwnTime, SharedIsFound, Remembered,
         NEW t \in Times, NEW new \in Records, new.time = t,
         recent' = UpdateRecentRecords(StoredRecord(t, new)),
         lastStored' = Promoted(lastStored, t), cacheLimit' = cacheLimit
  PROVE  Remembered'
<1> DEFINE r == StoredRecord(t, new)
           u == UpdateRecentRecords(r)
           p == Pushed(r)
           a == Without(recent, r)
           z == Promoted(lastStored, t)
           b == Without(lastStored, t)
<1>t. /\ recent \in Seq(Records) /\ lastStored \in Seq(Times)
      /\ cacheLimit \in Nat \ {0} /\ MinCacheLimit \in Nat \ {0}
  BY StoreAssumption DEF TypeOK
<1>r. r \in Records /\ r.time = t
  BY LockedType DEF StoredRecord, Locked, PointsToOwnTime
<1>u. /\ u \in Seq(Records)
      /\ Len(u) = IF Len(p) > cacheLimit THEN cacheLimit ELSE Len(p)
      /\ \A i \in 1 .. Len(u) : i \in 1 .. Len(p) /\ u[i] = p[i]
  BY <1>t, <1>r, UpdateFacts
<1>p. /\ p \in Seq(Records) /\ Len(p) = Len(a) + 1 /\ p[1] = r
      /\ \A i \in 2 .. Len(p) : p[i] = a[i - 1]
  BY <1>t, <1>r, PushedFacts
<1>z. /\ z \in Seq(Times) /\ Len(z) = Len(b) + 1 /\ z[1] = t
      /\ \A i \in 2 .. Len(z) : z[i] = b[i - 1]
      /\ Distinct(z)
  <2>1. lastStored \in Seq(Times) /\ Distinct(lastStored)
    BY <1>t DEF Remembered
  <2>2. /\ z \in Seq(Times) /\ Len(z) = Len(b) + 1 /\ z[1] = t
        /\ \A i \in 2 .. Len(z) : z[i] = b[i - 1]
    BY <2>1, PlacedFacts
  <2>3. Distinct(z)
    BY <2>1, PromotedDistinct
  <2> QED BY <2>2, <2>3
<1>a. /\ a \in Seq(Records)
      /\ \/ r \notin ToSet(recent) /\ a = recent
         \/ \E m \in 1 .. Len(recent) :
              /\ recent[m] = r
              /\ Len(a) = Len(recent) - 1
              /\ \A j \in 1 .. (Len(recent) - 1) :
                   a[j] = IF j < m THEN recent[j] ELSE recent[j + 1]
  BY <1>t, WithoutFacts
<1>b. /\ b \in Seq(Times)
      /\ \/ t \notin ToSet(lastStored) /\ b = lastStored
         \/ \E m \in 1 .. Len(lastStored) :
              /\ lastStored[m] = t
              /\ Len(b) = Len(lastStored) - 1
              /\ \A j \in 1 .. (Len(lastStored) - 1) :
                   b[j] = IF j < m THEN lastStored[j] ELSE lastStored[j + 1]
  BY <1>t, WithoutFacts
<1>f. ASSUME NEW k \in 1 .. Len(recent), recent[k].time = t PROVE recent[k] = r
  <2>1. recent[k] \in Shared
    BY <1>t DEF Shared, ToSet
  <2>2. pointer[t] = recent[k] /\ recent[k] \in Live
    BY <1>f, <2>1, SharedIsLive DEF SharedIsFound
  <2>3. recent[k] # NoRecord
    BY <2>2, LiveRecords, StoreAssumption
  <2> QED BY <2>2, <2>3 DEF StoredRecord, Locked
<1>d. DOMAIN lastStored = 1 .. Len(lastStored) /\ DOMAIN recent = 1 .. Len(recent)
  BY <1>t
<1>l. Len(recent) \in Nat /\ Len(lastStored) \in Nat /\ Len(u) \in Nat /\ Len(p) \in Nat
      /\ Len(z) \in Nat /\ Len(a) \in Nat /\ Len(b) \in Nat
  BY <1>t, <1>u, <1>p, <1>z, <1>a, <1>b
<1> HIDE DEF r, u, p, a, z, b
<1>1. /\ Len(a) <= Len(b)
      /\ Len(a) + 1 >= MinCacheLimit \/ Len(a) = Len(b)
      /\ \A j \in 1 .. Len(a) : a[j].time = b[j]
  <2>1. CASE r \notin ToSet(recent) /\ a = recent
    <3>1. ASSUME NEW m \in 1 .. Len(lastStored), lastStored[m] = t PROVE m > Len(recent)
      <4>1. CASE m <= Len(recent)
        <5>1. recent[m].time = t /\ m \in 1 .. Len(recent)
          BY <1>l, <3>1, <4>1 DEF Remembered
        <5>2. recent[m] = r
          BY <1>f, <5>1
        <5> QED BY <1>d, <2>1, <5>1, <5>2 DEF ToSet
      <4> QED BY <1>l, <4>1
    <3>2. CASE b = lastStored
      <4>1. a = recent /\ b = lastStored
        BY <2>1, <3>2
      <4>2. /\ Len(recent) <= Len(lastStored)
            /\ Len(recent) >= MinCacheLimit \/ Len(recent) = Len(lastStored)
            /\ \A j \in 1 .. Len(recent) : recent[j].time = lastStored[j]
        BY DEF Remembered
      <4>3. Len(recent) + 1 >= MinCacheLimit \/ Len(recent) = Len(lastStored)
        BY <1>t, <1>l, <4>2
      <4> QED BY <4>1, <4>2, <4>3
    <3>3. ASSUME NEW m \in 1 .. Len(lastStored), lastStored[m] = t,
                 Len(b) = Len(lastStored) - 1,
                 \A j \in 1 .. (Len(lastStored) - 1) :
                   b[j] = IF j < m THEN lastStored[j] ELSE lastStored[j + 1]
          PROVE  /\ Len(a) <= Len(b)
                 /\ Len(a) + 1 >= MinCacheLimit
                 /\ \A j \in 1 .. Len(a) : a[j].time = b[j]
      <4>1. m > Len(recent)
        BY <3>1, <3>3
      <4>2. Len(recent) <= Len(lastStored) - 1 /\ Len(recent) >= MinCacheLimit
        BY <1>l, <4>1 DEF Remembered
      <4>3. \A j \in 1 .. Len(recent) : b[j] = lastStored[j]
        BY <1>l, <3>3, <4>1, <4>2
      <4> QED BY <1>l, <1>t, <2>1, <3>3, <4>2, <4>3 DEF Remembered
    <3>4. CASE b # lastStored
      <4>1. PICK m \in 1 .. Len(lastStored) :
              /\ lastStored[m] = t
              /\ Len(b) = Len(lastStored) - 1
              /\ \A j \in 1 .. (Len(lastStored) - 1) :
                   b[j] = IF j < m THEN lastStored[j] ELSE lastStored[j + 1]
        BY <1>b, <3>4
      <4> QED BY <3>3, <4>1
    <3> QED BY <3>2, <3>4
  <2>2. ASSUME NEW m \in 1 .. Len(recent), recent[m] = r, Len(a) = Len(recent) - 1,
               \A j \in 1 .. (Len(recent) - 1) :
                 a[j] = IF j < m THEN recent[j] ELSE recent[j + 1]
        PROVE  /\ Len(a) <= Len(b)
               /\ Len(a) + 1 >= MinCacheLimit \/ Len(a) = Len(b)
               /\ \A j \in 1 .. Len(a) : a[j].time = b[j]
    <3>1. m \in 1 .. Len(lastStored) /\ lastStored[m] = t
      BY <1>l, <1>r, <2>2 DEF Remembered
    <3>2. t \in ToSet(lastStored)
      BY <1>d, <3>1 DEF ToSet
    <3>3. PICK n \in 1 .. Len(lastStored) :
            /\ lastStored[n] = t
            /\ Len(b) = Len(lastStored) - 1
            /\ \A j \in 1 .. (Len(lastStored) - 1) :
                 b[j] = IF j < n THEN lastStored[j] ELSE lastStored[j + 1]
      BY <1>b, <3>2
    <3>4. n = m
      BY <1>d, <3>1, <3>3 DEF Remembered, Distinct
    <3>5. ASSUME NEW j \in 1 .. Len(a) PROVE a[j].time = b[j]
      <4>1. /\ j \in 1 .. (Len(recent) - 1) /\ j \in 1 .. (Len(lastStored) - 1)
            /\ j \in 1 .. Len(recent) /\ j + 1 \in 1 .. Len(recent)
        BY <1>l, <2>2 DEF Remembered
      <4>2. recent[j].time = lastStored[j] /\ recent[j + 1].time = lastStored[j + 1]
        BY <4>1 DEF Remembered
      <4>3. CASE j < m
        <5>1. a[j] = recent[j] /\ b[j] = lastStored[j]
          BY <2>2, <3>3, <3>4, <4>1, <4>3
        <5> QED BY <4>2, <5>1
      <4>4. CASE ~(j < m)
        <5>1. a[j] = recent[j + 1] /\ b[j] = lastStored[j + 1]
          BY <2>2, <3>3, <3>4, <4>1, <4>4
        <5> QED BY <4>2, <5>1
      <4> QED BY <4>3, <4>4
    <3> QED BY <1>l, <1>t, <2>2, <3>3, <3>5 DEF Remembered
  <2> QED BY <1>a, <2>1, <2>2
<1>2. recent' = u /\ lastStored' = z /\ cacheLimit' = cacheLimit
  BY DEF r, u, z
<1>3. Len(u) <= Len(z) /\ (Len(u) >= MinCacheLimit \/ Len(u) = Len(z))
  BY <1>l, <1>t, <1>u, <1>p, <1>z, <1>1 DEF Remembered
<1>4. ASSUME NEW i \in 1 .. Len(u) PROVE u[i].time = z[i]
  <2>1. i \in 1 .. Len(p) /\ u[i] = p[i] /\ i \in 1 .. Len(z)
    BY <1>l, <1>u, <1>3
  <2>2. CASE i = 1
    BY <1>p, <1>r, <1>z, <2>1, <2>2
  <2>3. CASE i # 1
    <3>1. i \in 2 .. Len(p) /\ i \in 2 .. Len(z) /\ i - 1 \in 1 .. Len(a)
      BY <1>l, <1>p, <2>1, <2>3
    <3>2. p[i] = a[i - 1] /\ z[i] = b[i - 1]
      BY <1>p, <1>z, <3>1
    <3> QED BY <1>1, <2>1, <3>1, <3>2
  <2> QED BY <2>2, <2>3
<1> QED BY <1>2, <1>3, <1>4, <1>z DEF Remembered

(* Every step keeps what is remembered. *)
LEMMA RememberedNext ==
  TypeOK /\ PointsToOwnTime /\ SharedIsFound /\ Remembered /\ [Next]_vars
    => Remembered'
<1> SUFFICES ASSUME TypeOK, PointsToOwnTime, SharedIsFound, Remembered, [Next]_vars
             PROVE  Remembered'
  OBVIOUS
<1> USE DEF clients, threads, cache, map
<1>1. ASSUME NEW w \in Workers, StoreRadarProductRecord(w) PROVE Remembered'
  <2>1. PICK new \in holds[w] :
          /\ recent' = UpdateRecentRecords(StoredRecord(new.time, new))
          /\ lastStored' = Promoted(lastStored, new.time)
    BY <1>1 DEF StoreRadarProductRecord, Promoted
  <2>2. new \in Records /\ new.time \in Times
    BY <2>1, ThreadSets, RecordFields DEF TypeOK
  <2>3. cacheLimit' = cacheLimit
    BY <1>1 DEF StoreRadarProductRecord
  <2> QED BY <2>1, <2>2, <2>3, StoreRemembers
<1>2. ASSUME NEW n \in CacheLimits, SetCacheLimit(n) PROVE Remembered'
  <2>1. cacheLimit' >= MinCacheLimit /\ recent' = recent /\ lastStored' = lastStored
    BY <1>2, StoreAssumption DEF SetCacheLimit, CappedLimit
  <2> QED BY <2>1 DEF Remembered
<1>3. ASSUME UNCHANGED cache PROVE Remembered'
  BY <1>3 DEF Remembered
<1> QED
  BY <1>1, <1>2, <1>3
  DEF Next, GetRecords, GetProductRecords, FindElements, ReadElement, Return,
      LoadNewData, TakeLoad, OpenFile, LoadNexradFile, LockMutex, LookUp, Create,
      LoadFails, CompleteRequest, RequestComplete, vars

(***************************************************************************)
(* As many volumes as the least cache limit allows, those stored last, are *)
(* in memory, whatever is loaded again, opened or evicted and however the  *)
(* limit changes: the recent list has their records, in order, and by      *)
(* OneRecordPerVolume the map leads to them.                               *)
(***************************************************************************)
THEOREM LastStoredStay == Spec => []LastStoredInMemory
<1>1. Init => Remembered
  BY StoreAssumption DEF Init, Remembered, Distinct
<1>2. ASSUME TypeOK, SharedIsFound, Remembered PROVE LastStoredInMemory
  <2> SUFFICES ASSUME NEW i \in DOMAIN lastStored, i <= MinCacheLimit
               PROVE  Locked(lastStored[i]) # NoRecord
    BY DEF LastStoredInMemory
  <2>1. lastStored \in Seq(Times) /\ recent \in Seq(Records) /\ MinCacheLimit \in Nat
    BY <1>2, StoreAssumption DEF TypeOK
  <2>2. i \in 1 .. Len(recent)
    BY <1>2, <2>1 DEF Remembered
  <2>3. recent[i].time = lastStored[i] /\ recent[i] \in Shared /\ recent[i] \in Records
    BY <1>2, <2>1, <2>2 DEF Remembered, Shared, ToSet
  <2>4. pointer[lastStored[i]] = recent[i] /\ recent[i] \in Live
    BY <1>2, <2>3, SharedIsLive DEF SharedIsFound
  <2> QED BY <2>3, <2>4, StoreAssumption DEF Locked
<1> QED BY <1>1, <1>2, RememberedNext, StoreTypeCorrect, OneRecordPerVolume, OwnTime,
           PTL DEF Spec

-----------------------------------------------------------------------------
(* The store implements a RecordCache.                                     *)

(* What the clients were given is in memory. *)
LEMMA GivenInMemory ==
  /\ TypeOK /\ SharedIsFound => \A c \in Clients : holds[c] \subseteq InMemory
  /\ TypeOK' /\ SharedIsFound' => \A c \in Clients : holds'[c] \subseteq InMemory'
<1>1. ASSUME TypeOK, SharedIsFound, NEW c \in Clients, NEW r \in holds[c]
      PROVE  r \in InMemory
  <2>1. r \in Records /\ c \in Threads
    BY <1>1, ThreadSets DEF TypeOK
  <2>2. pointer[r.time] = r
    BY <1>1, SharedMember DEF SharedIsFound, SharedHolders
  <2>3. r \in Live
    BY <1>1, <2>1, LiveMember DEF LiveHolders
  <2> QED BY <2>1, <2>2, <2>3, RecordFields DEF InMemory
<1>2. ASSUME TypeOK', SharedIsFound', NEW c \in Clients, NEW r \in holds'[c]
      PROVE  r \in InMemory'
  <2>1. r \in Records /\ c \in Threads
    BY <1>2, ThreadSets DEF TypeOK
  <2>2. pointer'[r.time] = r
    BY <1>2, SharedMember DEF SharedIsFound, SharedHolders
  <2>3. (r \in Live)'
    BY <1>2, <2>1, LiveMember DEF LiveHolders
  <2> QED BY <2>1, <2>2, <2>3, RecordFields DEF InMemory
<1> QED BY <1>1, <1>2

(* A step that leaves the pointers alone and keeps no record alive that    *)
(* was expired brings nothing into memory.                                 *)
LEMMA NothingLoaded ==
  ASSUME UNCHANGED pointer,
         \A r : LiveHolders(r)' => LiveHolders(r) \/ r \notin {pointer[t] : t \in Times}
  PROVE  InMemory' \subseteq InMemory
BY LiveMember DEF InMemory

(* Such a step, of a thread that is not a client, is a Forget. *)
LEMMA Forgets ==
  ASSUME TypeOK', SharedIsFound', InMemory' \subseteq InMemory,
         \A c \in Clients : holds'[c] = holds[c]
  PROVE  Cache!Next
<1>1. [c \in Clients |-> holds[c]]' = [c \in Clients |-> holds[c]]
  OBVIOUS
<1>2. \A c \in Clients : [d \in Clients |-> holds[d]]'[c] \subseteq InMemory'
  BY GivenInMemory
<1>3. Cache!Forget
  BY <1>1, <1>2 DEF Cache!Forget, Cache!KeepsGiven
<1> QED BY <1>3 DEF Cache!Next

(* The store begins as an empty cache. *)
LEMMA CacheInit == Init => Cache!Init
<1> SUFFICES ASSUME Init PROVE Cache!Init
  OBVIOUS
<1>1. \A r : ~LiveHolders(r)
  BY ThreadSets DEF Init, LiveHolders, InRequests, ToSet
<1>2. InMemory = {}
  BY <1>1, LiveMember DEF InMemory
<1>3. [c \in Clients |-> holds[c]] = [c \in Clients |-> {}]
  BY ThreadSets DEF Init
<1> QED BY <1>2, <1>3 DEF Cache!Init

(* StoreRadarProductRecord keeps the record in memory or loads the new one. *)
LEMMA StoreCache ==
  ASSUME TypeOK, TypeOK', PointsToOwnTime, SharedIsFound',
         NEW w \in Workers, StoreRadarProductRecord(w)
  PROVE  Cache!Next
<1>1. PICK new \in holds[w] :
        LET t == new.time
            stored == StoredRecord(t, new)
        IN  /\ pointer' = [pointer EXCEPT ![t] = stored]
            /\ recent' = UpdateRecentRecords(stored)
            /\ holds' = [holds EXCEPT ![w] = {stored}]
  BY DEF StoreRadarProductRecord, Hold
<1> DEFINE t == new.time
           stored == StoredRecord(t, new)
<1>2. new \in Records /\ t \in Times /\ w \in Threads
  BY <1>1, ThreadSets, RecordFields DEF TypeOK
<1>3. stored \in Records
  BY <1>2, LockedType DEF StoredRecord
<1>4. ToSet(recent') \subseteq {stored} \union ToSet(recent)
  BY <1>1, <1>3, UpdateToSet DEF TypeOK
<1>5. /\ \A x \in Threads : x # w => holds'[x] = holds[x]
      /\ holds'[w] = {stored}
  BY <1>1, <1>2 DEF TypeOK
<1>6. UNCHANGED <<completed, fileIndex>>
  BY DEF StoreRadarProductRecord
<1>7. pointer' = [pointer EXCEPT ![t] = stored]
  BY <1>1
<1>8. \A c \in Clients : holds'[c] = holds[c]
  BY <1>5, ThreadSets
<1>9. stored = IF Locked(t) # NoRecord THEN Locked(t) ELSE new
  BY DEF StoredRecord
<1> HIDE DEF t, stored
<1>10. \A r : LiveHolders(r)' => LiveHolders(r) \/ r = stored
  BY <1>4, <1>5, <1>6 DEF LiveHolders, InRequests
<1>11. CASE Locked(t) # NoRecord
  <2>1. stored = pointer[t] /\ stored \in Live
    BY <1>9, <1>11 DEF Locked
  <2>2. UNCHANGED pointer
    BY <1>2, <1>7, <2>1 DEF TypeOK
  <2>3. InMemory' \subseteq InMemory
    BY <1>10, <2>1, <2>2, LiveMember, NothingLoaded
  <2> QED BY <1>8, <2>3, Forgets
<1>12. CASE Locked(t) = NoRecord
  <2>1. stored = new
    BY <1>9, <1>12
  <2>2. \A s \in InMemory : s.time # new.time
    <3> SUFFICES ASSUME NEW s \in InMemory, s.time = t PROVE FALSE
      BY DEF t
    <3>1. PICK u \in Times : pointer[u] = s /\ s \in Live
      BY DEF InMemory
    <3>2. s # NoRecord
      BY <3>1, LiveRecords, StoreAssumption
    <3>3. u = t
      BY <3>1, <3>2 DEF PointsToOwnTime
    <3> QED BY <1>12, <3>1, <3>2, <3>3 DEF Locked
  <2>3. new \in InMemory'
    <3>1. pointer'[t] = new
      BY <1>2, <1>7, <2>1 DEF TypeOK
    <3>2. (new \in Live)'
      BY <1>2, <1>5, <2>1, LiveMember DEF LiveHolders
    <3> QED BY <1>2, <3>1, <3>2 DEF InMemory
  <2>4. InMemory' \subseteq InMemory \union {new}
    <3> SUFFICES ASSUME NEW r \in InMemory', r # new PROVE r \in InMemory
      OBVIOUS
    <3>1. PICK u \in Times : pointer'[u] = r
      BY DEF InMemory
    <3>2. r \in Live
      BY <1>10, <2>1, LiveMember DEF InMemory
    <3>3. pointer[u] = r
      BY <1>7, <2>1, <3>1 DEF TypeOK
    <3> QED BY <3>2, <3>3 DEF InMemory
  <2>5. [c \in Clients |-> holds[c]]' = [c \in Clients |-> holds[c]]
    BY <1>8
  <2>6. \A c \in Clients : [d \in Clients |-> holds[d]]'[c] \subseteq InMemory'
    BY GivenInMemory
  <2>7. Cache!Load(new)
    BY <2>2, <2>3, <2>4, <2>5, <2>6 DEF Cache!Load, Cache!KeepsGiven
  <2> QED BY <1>2, <2>7 DEF Cache!Next
<1> QED BY <1>11, <1>12

(* Every step of the store is one of the cache. *)
LEMMA CacheNext ==
  ASSUME TypeOK, TypeOK', PointsToOwnTime, SharedIsFound, SharedIsFound', [Next]_vars
  PROVE  Cache!Next
<1> USE DEF clients, threads, cache, map, Goto, Hold
<1>1. ASSUME UNCHANGED <<pointer, holds, recent, completed, fileIndex>>
      PROVE  Cache!Next
  <2>1. InMemory' \subseteq InMemory
    BY <1>1, NothingLoaded DEF LiveHolders, InRequests
  <2> QED BY <1>1, <2>1, Forgets
<1>2. ASSUME NEW c \in Clients,
             \/ \E q \in Times \union {Latest} : GetRecords(c, q)
             \/ FindElements(c)
      PROVE  Cache!Next
  BY <1>1, <1>2 DEF GetRecords, FindElements
<1>3. ASSUME NEW c \in Clients, ReadElement(c)
      PROVE  Cache!Next
  <2> DEFINE t == Head(elements[c])
  <2>1. t \in Times
    BY <1>3, HeadTailToSet DEF ReadElement, TypeOK
  <2>2. UNCHANGED <<pointer, recent, completed, fileIndex>>
    BY <1>3 DEF ReadElement
  <2>3. CASE Locked(t) # NoRecord /\ holds' = [holds EXCEPT ![c] = holds[c] \union {Locked(t)}]
    <3> DEFINE given == [d \in Clients |-> holds[d]]
    <3>1. Locked(t) \in InMemory
      BY <2>1, <2>3 DEF InMemory, Locked
    <3>2. given' = [given EXCEPT ![c] = given[c] \union {Locked(t)}]
      BY <2>3, ThreadSets DEF TypeOK
    <3>3. ASSUME NEW r PROVE LiveHolders(r)' <=> LiveHolders(r)
      <4>1. \A th \in Threads : holds'[th] = IF th = c THEN holds[th] \union {Locked(t)}
                                                       ELSE holds[th]
        BY <2>3 DEF TypeOK
      <4>2. LiveHolders(Locked(t))
        BY <3>1, LiveMember DEF InMemory
      <4>3. LiveHolders(r)' => LiveHolders(r) \/ r = Locked(t)
        BY <2>2, <4>1 DEF LiveHolders, InRequests
      <4>4. LiveHolders(r) => LiveHolders(r)'
        BY <2>2, <4>1 DEF LiveHolders, InRequests
      <4> QED BY <4>2, <4>3, <4>4
    <3>4. InMemory' = InMemory
      BY <2>2, <3>3, LiveMember DEF InMemory
    <3>5. Cache!Give(c)
      BY <3>1, <3>2, <3>4 DEF Cache!Give
    <3> QED BY <3>5 DEF Cache!Next
  <2>4. CASE UNCHANGED holds
    BY <1>1, <2>2, <2>4
  <2> QED BY <1>3, <2>3, <2>4 DEF ReadElement
<1>4. ASSUME NEW c \in Clients, Return(c)
      PROVE  Cache!Next
  <2> DEFINE given == [d \in Clients |-> holds[d]]
  <2>1. given' = [given EXCEPT ![c] = {}]
    BY <1>4, ThreadSets DEF Return, TypeOK
  <2>2. \A th \in Threads : holds'[th] \subseteq holds[th]
    BY <1>4 DEF Return, TypeOK
  <2>3. UNCHANGED <<pointer, recent, completed, fileIndex>>
    BY <1>4 DEF Return
  <2>4. InMemory' \subseteq InMemory
    BY <2>2, <2>3, NothingLoaded DEF LiveHolders, InRequests
  <2>5. \A d \in Clients : given'[d] \subseteq InMemory'
    BY GivenInMemory
  <2>6. Cache!Release(c)
    BY <2>1, <2>4, <2>5 DEF Cache!Release, Cache!KeepsGiven
  <2> QED BY <2>6 DEF Cache!Next
<1>5. ASSUME NEW w \in Workers,
             \/ w \in Loaders /\ TakeLoad(w)
             \/ w \in FileLoaders /\ \E f \in Times : OpenFile(w, f)
             \/ LockMutex(w)
             \/ LoadFails(w)
      PROVE  Cache!Next
  BY <1>1, <1>5 DEF TakeLoad, OpenFile, LockMutex, LoadFails
<1>6. ASSUME NEW w \in Workers, LookUp(w)
      PROVE  Cache!Next
  <2> DEFINE t == job[w].time
  <2>1. /\ holds' = [holds EXCEPT ![w] = {Locked(t)} \ {NoRecord}]
        /\ UNCHANGED <<pointer, recent, completed, fileIndex>>
    BY <1>6 DEF LookUp
  <2>2. \A r \in holds'[w] : LiveHolders(r)
    BY <2>1, ThreadSets, LiveMember DEF Locked, TypeOK
  <2>3. \A x \in Threads : x # w => holds'[x] = holds[x]
    BY <2>1 DEF TypeOK
  <2>4. \A r : LiveHolders(r)' => LiveHolders(r)
    BY <2>1, <2>2, <2>3 DEF LiveHolders, InRequests
  <2>5. InMemory' \subseteq InMemory
    BY <2>1, <2>4, NothingLoaded
  <2> QED BY <2>3, <2>5, ThreadSets, Forgets
<1>7. ASSUME NEW w \in Workers, Create(w)
      PROVE  Cache!Next
  <2>1. PICK new \in Unused : holds' = [holds EXCEPT ![w] = {new}]
    BY <1>7 DEF Create
  <2>2. UNCHANGED <<pointer, recent, completed, fileIndex>>
    BY <1>7 DEF Create
  <2>3. \A x \in Threads : holds'[x] = IF x = w THEN {new} ELSE holds[x]
    BY <2>1 DEF TypeOK
  <2>4. \A r : LiveHolders(r)' => LiveHolders(r) \/ r = new
    BY <2>2, <2>3 DEF LiveHolders, InRequests
  <2>5. new \notin {pointer[t] : t \in Times}
    BY DEF Unused
  <2>6. InMemory' \subseteq InMemory
    BY <2>2, <2>4, <2>5, NothingLoaded
  <2> QED BY <2>3, <2>6, ThreadSets, Forgets
<1>8. ASSUME NEW w \in Workers, CompleteRequest(w)
      PROVE  Cache!Next
  <2>1. PICK r \in holds[w] :
          \/ /\ completed' = Append(completed, [record |-> r, kind |-> job[w].kind])
             /\ UNCHANGED fileIndex
          \/ /\ fileIndex' = [fileIndex EXCEPT ![job[w].time] = r]
             /\ UNCHANGED completed
    BY <1>8 DEF CompleteRequest
  <2>2. InRequests' \subseteq InRequests \union {r}
    BY <2>1, RequestAppended
  <2>3. \A f \in Times : fileIndex'[f] = fileIndex[f] \/ fileIndex'[f] = r
    BY <2>1 DEF TypeOK
  <2>4. UNCHANGED <<pointer, recent>>
    BY <1>8 DEF CompleteRequest
  <2>5. \A x \in Threads : holds'[x] = IF x = w THEN {} ELSE holds[x]
    BY <1>8 DEF CompleteRequest, TypeOK
  <2>6. LiveHolders(r)
    BY ThreadSets DEF LiveHolders
  <2>7. \A s : LiveHolders(s)' => LiveHolders(s) \/ s = r
    BY <2>2, <2>3, <2>4, <2>5 DEF LiveHolders
  <2>8. InMemory' \subseteq InMemory
    BY <2>4, <2>6, <2>7, NothingLoaded
  <2> QED BY <2>5, <2>8, ThreadSets, Forgets
<1>9. CASE RequestComplete
  <2>1. InRequests' \subseteq InRequests
    BY <1>9, RequestRemoved DEF RequestComplete
  <2>2. UNCHANGED <<pointer, recent, fileIndex, holds>>
    BY <1>9 DEF RequestComplete
  <2>3. InMemory' \subseteq InMemory
    BY <2>1, <2>2, NothingLoaded DEF LiveHolders
  <2> QED BY <2>2, <2>3, Forgets
<1>10. ASSUME NEW w \in Workers, LoadNexradFile(w)
       PROVE  Cache!Next
  BY <1>5, <1>6, <1>7, <1>8, <1>10, StoreCache DEF LoadNexradFile
<1>11. ASSUME NEW c \in Clients, GetProductRecords(c)
       PROVE  Cache!Next
  BY <1>2, <1>3, <1>4, <1>11 DEF GetProductRecords
<1>12. ASSUME NEW n \in CacheLimits, SetCacheLimit(n)
       PROVE  Cache!Next
  BY <1>1, <1>12 DEF SetCacheLimit
<1>13. ASSUME NEW t \in Times, LoadNewData(t)
       PROVE  Cache!Next
  BY <1>1, <1>13 DEF LoadNewData
<1>14. CASE UNCHANGED vars
  BY <1>1, <1>14 DEF vars
<1>15. ASSUME NEW w \in Workers,
              \/ w \in Loaders /\ TakeLoad(w)
              \/ w \in FileLoaders /\ \E f \in Times : OpenFile(w, f)
       PROVE  Cache!Next
  BY <1>5, <1>15
<1>16. Loaders \subseteq Workers /\ FileLoaders \subseteq Workers
  BY DEF Workers
<1>17. Queries \subseteq Times \union {Latest} /\ Files \subseteq Times
  BY StoreAssumption
<1> QED BY <1>2, <1>9, <1>10, <1>11, <1>12, <1>13, <1>14, <1>15, <1>16, <1>17
        DEF Next

(***************************************************************************)
(* The store implements a RecordCache: the records its pointers lead to    *)
(* and that are alive change as the abstract cache lets them, and a client *)
(* is only given, and keeps, records that are in memory.  Each step is one *)
(* of the cache: a record found is given, a volume is loaded when          *)
(* StoreRadarProductRecord finds no record alive, all else forgets.        *)
(***************************************************************************)
THEOREM StoreImplementsCache == Spec => ImplementsCache
<1>2. Spec => []PointsToOwnTime
  BY OwnTime
<1>3. TypeOK /\ TypeOK' /\ PointsToOwnTime /\ SharedIsFound /\ SharedIsFound'
        /\ [Next]_vars
      => [Cache!Next]_<<InMemory, [c \in Clients |-> holds[c]]>>
  BY CacheNext
<1>4. Spec => Cache!Spec
  BY <1>2, <1>3, CacheInit, StoreTypeCorrect, OneRecordPerVolume, PTL
     DEF Spec, Cache!Spec
<1> QED BY <1>4 DEF ImplementsCache
-----------------------------------------------------------------------------
(* What a RecordCache keeps, and so the store.                             *)

Given    == [c \in Clients |-> holds[c]]
Coherent == Cache!TypeInvariant /\ Cache!OnePerVolume

(* A cache stays coherent, whatever it gives, loads and forgets. *)
LEMMA CoherentNext ==
  Coherent /\ [Cache!Next]_<<InMemory, Given>> => Coherent'
<1> SUFFICES ASSUME Coherent, [Cache!Next]_<<InMemory, Given>> PROVE Coherent'
  OBVIOUS
<1>0. /\ InMemory \subseteq Records /\ Given \in [Clients -> SUBSET InMemory]
      /\ \A r, s \in InMemory : r.time = s.time => r = s
  BY DEF Coherent, Cache!TypeInvariant, Cache!OnePerVolume, Given
<1>1. Given' \in [Clients -> SUBSET InMemory'] /\ InMemory' \subseteq Records
        /\ (\A r, s \in InMemory' : r.time = s.time => r = s)
      => Coherent'
  BY DEF Coherent, Cache!TypeInvariant, Cache!OnePerVolume, Given
<1> HIDE DEF Given
<1>2. CASE Cache!Forget
  BY <1>0, <1>1, <1>2 DEF Cache!Forget, Cache!KeepsGiven, Given
<1>3. ASSUME NEW c \in Clients, Cache!Give(c) PROVE Coherent'
  <2>1. /\ \E r \in InMemory : Given' = [Given EXCEPT ![c] = Given[c] \union {r}]
        /\ InMemory' = InMemory
    BY <1>3 DEF Cache!Give, Given
  <2> QED BY <1>0, <1>1, <2>1
<1>4. ASSUME NEW c \in Clients, Cache!Release(c) PROVE Coherent'
  <2>1. /\ Given' = [Given EXCEPT ![c] = {}] /\ InMemory' \subseteq InMemory
        /\ \A d \in Clients : Given'[d] \subseteq InMemory'
    BY <1>4 DEF Cache!Release, Cache!KeepsGiven, Given
  <2> QED BY <1>0, <1>1, <2>1
<1>5. ASSUME NEW r \in Records, Cache!Load(r) PROVE Coherent'
  <2>1. /\ \A s \in InMemory : s.time # r.time
        /\ InMemory' \subseteq InMemory \union {r} /\ Given' = Given
        /\ \A d \in Clients : Given'[d] \subseteq InMemory'
    BY <1>5 DEF Cache!Load, Cache!KeepsGiven, Given
  <2> QED BY <1>0, <1>1, <2>1
<1>6. CASE UNCHANGED <<InMemory, Given>>
  BY <1>0, <1>1, <1>6
<1> QED BY <1>2, <1>3, <1>4, <1>5, <1>6 DEF Cache!Next

(***************************************************************************)
(* Two clients that use the same volume share its record: what a client    *)
(* was given stays in memory, where a volume has one record at most.  It   *)
(* follows from the abstract cache alone.                                  *)
(***************************************************************************)
THEOREM StoreIsCoherent == Spec => [](Cache!TypeInvariant /\ Cache!OnePerVolume)
<1>1. Cache!Init => Coherent
  BY DEF Cache!Init, Coherent, Cache!TypeInvariant, Cache!OnePerVolume
<1>2. Coherent => Cache!TypeInvariant /\ Cache!OnePerVolume
  BY DEF Coherent
<1>3. Spec => Cache!Init /\ [][Cache!Next]_<<InMemory, Given>>
  BY StoreImplementsCache, PTL DEF ImplementsCache, Cache!Spec, Given
<1> QED BY <1>1, <1>2, <1>3, CoherentNext, PTL
=============================================================================

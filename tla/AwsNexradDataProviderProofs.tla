--------------------- MODULE AwsNexradDataProviderProofs ---------------------
(***************************************************************************)
(* Proofs about AwsNexradDataProvider for any number of threads, days and  *)
(* objects, any limits, and with or without failing requests and late      *)
(* uploads.                                                                *)
(***************************************************************************)
EXTENDS AwsNexradDataProvider, SequencesExt, SequenceTheorems,
        WellFoundedInduction, FiniteSetTheorems, TLAPS

-----------------------------------------------------------------------------
(* What is used of lists.                                                  *)

(* No element occurs twice. *)
Distinct(s) == \A i, j \in DOMAIN s : s[i] = s[j] => i = j

(* RemoveAt drops one element and keeps the order of the others. *)
LEMMA RemoveAtFacts ==
  ASSUME NEW S, NEW s \in Seq(S), NEW i \in 1 .. Len(s)
  PROVE  /\ RemoveAt(s, i) \in Seq(S)
         /\ Len(RemoveAt(s, i)) = Len(s) - 1
         /\ \A j \in 1 .. (Len(s) - 1) :
              RemoveAt(s, i)[j] = IF j < i THEN s[j] ELSE s[j + 1]
<1> DEFINE a == SubSeq(s, 1, i - 1)
           b == SubSeq(s, i + 1, Len(s))
<1>1. /\ a \in Seq(S) /\ Len(a) = i - 1
      /\ \A j \in 1 .. (i - 1) : a[j] = s[j]
  OBVIOUS
<1>2. /\ b \in Seq(S) /\ Len(b) = Len(s) - i
      /\ \A j \in 1 .. (Len(s) - i) : b[j] = s[j + i]
  OBVIOUS
<1>3. RemoveAt(s, i) = a \o b
  BY DEF RemoveAt
<1> HIDE DEF a, b
<1>4. /\ a \o b \in Seq(S) /\ Len(a \o b) = Len(s) - 1
  <2>1. a \o b \in Seq(S) /\ Len(a \o b) = Len(a) + Len(b)
    BY <1>1, <1>2, ConcatProperties
  <2> QED BY <1>1, <1>2, <2>1
<1>5. \A j \in 1 .. (Len(s) - 1) :
        (a \o b)[j] = IF j < i THEN s[j] ELSE s[j + 1]
  BY <1>1, <1>2, ConcatProperties
<1> QED
  BY <1>3, <1>4, <1>5

(* Removing one element of a list without duplicates leaves the others. *)
LEMMA RemoveAtDistinct ==
  ASSUME NEW S, NEW s \in Seq(S), NEW i \in DOMAIN s, Distinct(s)
  PROVE  /\ RemoveAt(s, i) \in Seq(S)
         /\ Distinct(RemoveAt(s, i))
         /\ ToSet(RemoveAt(s, i)) = ToSet(s) \ {s[i]}
<1> DEFINE r == RemoveAt(s, i)
<1>1. /\ r \in Seq(S) /\ Len(r) = Len(s) - 1
      /\ \A j \in 1 .. (Len(s) - 1) : r[j] = IF j < i THEN s[j] ELSE s[j + 1]
  BY RemoveAtFacts
<1> HIDE DEF r
<1>2. Distinct(r)
  <2> SUFFICES ASSUME NEW j \in 1 .. Len(r), NEW k \in 1 .. Len(r),
                      r[j] = r[k]
               PROVE  j = k
    BY <1>1, LenProperties DEF Distinct
  <2> DEFINE old(n) == IF n < i THEN n ELSE n + 1
  <2>1. /\ old(j) \in DOMAIN s /\ old(k) \in DOMAIN s
        /\ s[old(j)] = s[old(k)]
    BY <1>1
  <2>2. old(j) = old(k)
    BY <2>1 DEF Distinct
  <2> QED BY <1>1, <2>2
<1>3. ToSet(r) \subseteq ToSet(s) \ {s[i]}
  BY <1>1 DEF ToSet, Distinct
<1>4. ASSUME NEW j \in DOMAIN s, j # i
      PROVE  s[j] \in ToSet(r)
  <2>1. CASE j < i
    BY <1>1, <2>1 DEF ToSet
  <2>2. CASE j > i
    <3>1. j - 1 \in DOMAIN r /\ r[j - 1] = s[j]
      BY <1>1, <2>2
    <3> QED BY <3>1 DEF ToSet
  <2> QED BY <1>4, <2>1, <2>2
<1>5. ToSet(s) \ {s[i]} \subseteq ToSet(r)
  BY <1>4 DEF ToSet
<1> QED BY <1>1, <1>2, <1>3, <1>5 DEF r

-----------------------------------------------------------------------------
(* Lemmas on the date list.                                                *)

(* UpdateObjectDates adds the date and keeps the list free of duplicates. *)
LEMMA MostRecentFacts ==
  ASSUME NEW S, NEW s \in Seq(S), NEW d \in S, Distinct(s)
  PROVE  /\ MostRecent(s, d) \in Seq(S)
         /\ Distinct(MostRecent(s, d))
         /\ ToSet(MostRecent(s, d)) = ToSet(s) \union {d}
<1>1. ASSUME NEW q \in Seq(S), Distinct(q), d \notin ToSet(q)
      PROVE  /\ Append(q, d) \in Seq(S)
             /\ Distinct(Append(q, d))
             /\ ToSet(Append(q, d)) = ToSet(q) \union {d}
  <2>1. /\ Append(q, d) \in Seq(S) /\ Len(Append(q, d)) = Len(q) + 1
        /\ \A j \in 1 .. Len(q) : Append(q, d)[j] = q[j]
        /\ Append(q, d)[Len(q) + 1] = d
    OBVIOUS
  <2> DEFINE z == Append(q, d)
  <2> HIDE DEF z
  <2>2. Distinct(z)
    BY <1>1, <2>1 DEF Distinct, ToSet, z
  <2>3. ToSet(z) = ToSet(q) \union {d}
    BY <2>1 DEF ToSet, z
  <2> QED BY <2>1, <2>2, <2>3 DEF z
<1>2. CASE \E i \in DOMAIN s : s[i] = d
  <2> DEFINE i == CHOOSE i \in DOMAIN s : s[i] = d
  <2>1. i \in DOMAIN s /\ s[i] = d
    BY <1>2
  <2> HIDE DEF i
  <2>2. /\ RemoveAt(s, i) \in Seq(S) /\ Distinct(RemoveAt(s, i))
        /\ ToSet(RemoveAt(s, i)) = ToSet(s) \ {d}
    BY <2>1, RemoveAtDistinct
  <2>3. MostRecent(s, d) = Append(RemoveAt(s, i), d)
    BY <1>2 DEF MostRecent, i
  <2>4. d \in ToSet(s)
    BY <2>1 DEF ToSet
  <2> QED BY <1>1, <2>2, <2>3, <2>4
<1>3. CASE ~ \E i \in DOMAIN s : s[i] = d
  <2>1. MostRecent(s, d) = Append(s, d)
    BY <1>3 DEF MostRecent
  <2>2. d \notin ToSet(s)
    BY <1>3 DEF ToSet
  <2> QED BY <1>1, <2>1, <2>2
<1> QED BY <1>2, <1>3

-----------------------------------------------------------------------------
(* Types, the date list and the local variables.                           *)

(***************************************************************************)
(* What a thread's local variables say in each step: no date a thread      *)
(* works with is in the future, the date of a listing that found objects   *)
(* is a real one, and the keys it still has to store are of that date.     *)
(***************************************************************************)
LocalsOf(th) ==
  /\ day[th] <= now
  /\ today[th] <= now
  /\ pc[th] \in {"store", "dates", "lockRefresh"} => day[th] \in Day
  /\ pc[th] = "lockRefresh" => th \notin Queriers
  /\ th \in Queriers /\ pc[th] # "idle" => day[th] \in Day
  /\ leg[th] # "none" => pc[th] \in ListingSteps
  /\ leg[th] = "yesterday" => day[th] < now
  /\ pending[th] \subseteq OnDay(TimePoint, day[th])
  /\ pending[th] # {} => pc[th] = "store"

LocalsOK == \A th \in Threads : LocalsOf(th)

Base == TypeOK /\ DatesDistinct /\ LocalsOK

(* A non-empty set of natural numbers up to a bound has a greatest one. *)
LEMMA GreatestExists ==
  ASSUME NEW n \in Nat, NEW S, S \subseteq 0 .. n, S # {}
  PROVE  \E m \in S : \A k \in S : k <= m
<1> DEFINE T == {n - k : k \in S}
           Less == {ss \in Nat \X Nat : ss[1] < ss[2]}
<1>1. T \subseteq Nat /\ T # {}
  <2>1. ASSUME NEW v \in T PROVE v \in Nat
    <3>1. PICK k \in S : v = n - k
      BY <2>1
    <3> QED BY <3>1
  <2>2. PICK k \in S : TRUE
    OBVIOUS
  <2>3. n - k \in T
    BY <2>2
  <2> QED BY <2>1, <2>3
<1>2. IsWellFoundedOn(Less, Nat)
  BY NatLessThanWellFounded DEF OpToRel
<1> HIDE DEF T, Less
<1>2a. PICK u \in T : \A v \in T : ~ (<<v, u>> \in Less)
  BY <1>1, <1>2, WFMin
<1>2b. \A v \in T : u <= v
  <2> SUFFICES ASSUME NEW v \in T, ~ (u <= v) PROVE FALSE
    OBVIOUS
  <2>1. u \in Nat /\ v \in Nat /\ v < u
    BY <1>1
  <2>2. <<v, u>> \in Less
    BY <2>1 DEF Less
  <2> QED BY <1>2a, <2>2
<1> USE DEF T
<1>3. PICK m \in S : u = n - m
  BY <1>2a
<1>4. \A k \in S : k <= m
  <2> SUFFICES ASSUME NEW k \in S PROVE k <= m
    OBVIOUS
  <2>1. u <= n - k
    BY <1>2b
  <2> QED BY <1>3, <2>1
<1> QED BY <1>4

(* FindLatestKey finds a key if there is one. *)
LEMMA LatestFacts ==
  ASSUME NEW S, S \subseteq TimePoint, S # {}
  PROVE  Latest(S) \in S /\ IsLatest(Latest(S), S)
<1> DEFINE days == {t[1] : t \in S}
<1>1. days \subseteq 0 .. LastDay /\ days # {}
  BY ProviderAssumption DEF TimePoint, Day
<1>2. PICK d \in days : \A k \in days : k <= d
  BY <1>1, GreatestExists, ProviderAssumption
<1> DEFINE slots == {t[2] : t \in {u \in S : u[1] = d}}
<1>3. slots \subseteq 0 .. SlotsPerDay /\ slots # {}
  BY <1>2, ProviderAssumption DEF TimePoint
<1>4. PICK n \in slots : \A k \in slots : k <= n
  BY <1>3, GreatestExists, ProviderAssumption
<1>5. PICK t \in S : t[1] = d /\ t[2] = n
  BY <1>4
<1>6. ASSUME NEW s \in S PROVE s = t \/ Earlier(s, t)
  <2>1. s[1] <= d /\ (s[1] = d => s[2] <= n)
    BY <1>2, <1>4
  <2>2. /\ s \in TimePoint /\ t \in TimePoint
        /\ s[1] \in Int /\ s[2] \in Int /\ t[1] \in Int /\ t[2] \in Int
    BY ProviderAssumption DEF TimePoint, Day
  <2>3. s[1] = t[1] /\ s[2] = t[2] => s = t
    BY <2>2 DEF TimePoint
  <2> QED BY <1>5, <2>1, <2>2, <2>3 DEF Earlier
<1>7. IsLatest(t, S)
  BY <1>6 DEF IsLatest
<1> QED BY <1>7 DEF Latest, IsLatest

(* Base holds at first. *)
LEMMA BaseInit == Init => Base
<1> SUFFICES ASSUME Init PROVE Base
  OBVIOUS
<1> USE ProviderAssumption
<1>1. TypeOK
  BY DEF Init, TypeOK, Day, Steps
<1>2. DatesDistinct
  BY DEF Init, DatesDistinct
<1>3. LocalsOK
  BY DEF Init, LocalsOK, LocalsOf, Day
<1> QED BY <1>1, <1>2, <1>3 DEF Base

(* Every step keeps Base. *)
LEMMA BaseNext == Base /\ [Next]_vars => Base'
<1> SUFFICES ASSUME Base, [Next]_vars PROVE Base'
  OBVIOUS
<1> USE ProviderAssumption
<1>0. TypeOK /\ DatesDistinct /\ LocalsOK
  BY DEF Base
<1> USE DEF Day, Steps, ListingSteps
<1>1. ASSUME NEW t \in TimePoint, Publish(t)
      PROVE  Base'
  <2>1. TypeOK'
    BY <1>0, <1>1 DEF Publish, TypeOK, env, mutexes, meta, locals, counts
  <2>2. DatesDistinct'
    BY <1>0, <1>1 DEF Publish, DatesDistinct
  <2>3. LocalsOK'
    <3> SUFFICES ASSUME NEW x \in Threads PROVE LocalsOf(x)'
      BY DEF LocalsOK
    <3>1. LocalsOf(x)
      BY <1>0 DEF LocalsOK
    <3> QED BY <1>0, <1>1, <3>1 DEF Publish, TypeOK, LocalsOf, env, mutexes,
               meta, locals, counts
  <2> QED BY <2>1, <2>2, <2>3 DEF Base
<1>2. ASSUME Midnight
      PROVE  Base'
  <2>1. TypeOK'
    BY <1>0, <1>2 DEF Midnight, TypeOK, env, mutexes, meta, locals, counts
  <2>2. DatesDistinct'
    BY <1>0, <1>2 DEF Midnight, DatesDistinct
  <2>3. LocalsOK'
    <3> SUFFICES ASSUME NEW x \in Threads PROVE LocalsOf(x)'
      BY DEF LocalsOK
    <3>1. LocalsOf(x)
      BY <1>0 DEF LocalsOK
    <3> QED BY <1>0, <1>2, <3>1 DEF Midnight, TypeOK, LocalsOf, env, mutexes,
               meta, locals, counts
  <2> QED BY <2>1, <2>2, <2>3 DEF Base
<1>3. ASSUME NEW th \in Threads, ListResponse(th)
      PROVE  Base'
  <2>1. TypeOK'
    BY <1>0, <1>3 DEF ListResponse, OnDay, TypeOK, env, mutexes, meta, locals,
       counts
  <2>2. DatesDistinct'
    BY <1>0, <1>3 DEF ListResponse, DatesDistinct
  <2>3. LocalsOK'
    <3> SUFFICES ASSUME NEW x \in Threads PROVE LocalsOf(x)'
      BY DEF LocalsOK
    <3>1. LocalsOf(x)
      BY <1>0 DEF LocalsOK
    <3> QED BY <1>0, <1>3, <3>1 DEF ListResponse, OnDay, DayOf, TimePoint,
               TypeOK, LocalsOf, env, mutexes, meta, locals, counts
  <2> QED BY <2>1, <2>2, <2>3 DEF Base
<1>4. ASSUME NEW th \in Threads, ListError(th)
      PROVE  Base'
  <2>1. TypeOK'
    BY <1>0, <1>4 DEF ListError, OnDay, TypeOK, env, mutexes, meta, locals, counts
  <2>2. DatesDistinct'
    BY <1>0, <1>4 DEF ListError, DatesDistinct
  <2>3. LocalsOK'
    <3> SUFFICES ASSUME NEW x \in Threads PROVE LocalsOf(x)'
      BY DEF LocalsOK
    <3>1. LocalsOf(x)
      BY <1>0 DEF LocalsOK
    <3> QED BY <1>0, <1>4, <3>1 DEF ListError, TypeOK, LocalsOf, env, mutexes,
               meta, locals, counts
  <2> QED BY <2>1, <2>2, <2>3 DEF Base
<1>5. ASSUME NEW th \in Threads, NEW t \in TimePoint, StoreObject(th, t)
      PROVE  Base'
  <2>1. TypeOK'
    BY <1>0, <1>5 DEF StoreObject, IsEarliest, CountsNew, TypeOK, env, mutexes,
       meta, locals, counts
  <2>2. DatesDistinct'
    BY <1>0, <1>5 DEF StoreObject, DatesDistinct
  <2>3. LocalsOK'
    <3> SUFFICES ASSUME NEW x \in Threads PROVE LocalsOf(x)'
      BY DEF LocalsOK
    <3>1. LocalsOf(x)
      BY <1>0 DEF LocalsOK
    <3> QED BY <1>0, <1>5, <3>1 DEF StoreObject, IsEarliest, CountsNew, TypeOK,
               LocalsOf, env, mutexes, meta, locals, counts
  <2> QED BY <2>1, <2>2, <2>3 DEF Base
<1>6. ASSUME NEW th \in Threads, UpdateObjectDates(th)
      PROVE  Base'
  <2>1. day[th] \in Day
    BY <1>0, <1>6 DEF UpdateObjectDates, LocalsOK, LocalsOf
  <2>1a. objectDates \in Seq(Day) /\ Distinct(objectDates)
    BY <1>0 DEF TypeOK, DatesDistinct, Distinct
  <2>2. /\ MostRecent(objectDates, day[th]) \in Seq(Day)
        /\ Distinct(MostRecent(objectDates, day[th]))
    BY <2>1a, <2>1, MostRecentFacts
  <2>3. objectDates' \in Seq(Day) /\ DatesDistinct'
    BY <1>0, <1>6, <2>2 DEF UpdateObjectDates, TypeOK, DatesDistinct, Distinct
  <2>4. TypeOK'
    BY <1>0, <1>6, <2>3 DEF UpdateObjectDates, TypeOK, env, mutexes, meta,
       locals, counts
  <2>5. LocalsOK'
    <3> SUFFICES ASSUME NEW x \in Threads PROVE LocalsOf(x)'
      BY DEF LocalsOK
    <3>1. LocalsOf(x)
      BY <1>0 DEF LocalsOK
    <3> QED BY <1>0, <1>6, <3>1 DEF UpdateObjectDates, TypeOK, LocalsOf, env,
               mutexes, meta, locals, counts
  <2> QED BY <2>3, <2>4, <2>5 DEF Base
<1>7. ASSUME NEW th \in Threads, PruneReadClock(th)
      PROVE  Base'
  <2>1. TypeOK'
    BY <1>0, <1>7 DEF PruneReadClock, TypeOK, env, mutexes, meta, locals,
       counts
  <2>2. DatesDistinct'
    BY <1>0, <1>7 DEF PruneReadClock, DatesDistinct
  <2>3. LocalsOK'
    <3> SUFFICES ASSUME NEW x \in Threads PROVE LocalsOf(x)'
      BY DEF LocalsOK
    <3>1. LocalsOf(x)
      BY <1>0 DEF LocalsOK
    <3> QED BY <1>0, <1>7, <3>1 DEF PruneReadClock, TypeOK, LocalsOf, env,
               mutexes, meta, locals, counts
  <2> QED BY <2>1, <2>2, <2>3 DEF Base
<1>8. ASSUME NEW th \in Threads, PruneLock(th)
      PROVE  Base'
  <2>1. TypeOK'
    BY <1>0, <1>8 DEF PruneLock, TypeOK, env, mutexes, meta, locals, counts
  <2>2. DatesDistinct'
    BY <1>0, <1>8 DEF PruneLock, DatesDistinct
  <2>3. LocalsOK'
    <3> SUFFICES ASSUME NEW x \in Threads PROVE LocalsOf(x)'
      BY DEF LocalsOK
    <3>1. LocalsOf(x)
      BY <1>0 DEF LocalsOK
    <3> QED BY <1>0, <1>8, <3>1 DEF PruneLock, TypeOK, LocalsOf, env, mutexes,
               meta, locals, counts
  <2> QED BY <2>1, <2>2, <2>3 DEF Base
<1>9. ASSUME NEW th \in Threads, NEW i \in DOMAIN objectDates, PruneDate(th, i)
      PROVE  Base'
  <2>2. /\ RemoveAt(objectDates, i) \in Seq(Day)
        /\ Distinct(RemoveAt(objectDates, i))
    BY <1>0, <1>9, RemoveAtDistinct DEF TypeOK, DatesDistinct, Distinct
  <2>3. objectDates' \in Seq(Day) /\ DatesDistinct'
    BY <1>0, <1>9, <2>2 DEF PruneDate, TypeOK, DatesDistinct, Distinct
  <2>4. TypeOK'
    BY <1>0, <1>9, <2>3 DEF PruneDate, TypeOK, env, mutexes, meta, locals,
       counts
  <2>5. LocalsOK'
    <3> SUFFICES ASSUME NEW x \in Threads PROVE LocalsOf(x)'
      BY DEF LocalsOK
    <3>1. LocalsOf(x)
      BY <1>0 DEF LocalsOK
    <3> QED BY <1>0, <1>9, <3>1 DEF PruneDate, TypeOK, LocalsOf, env, mutexes,
               meta, locals, counts
  <2> QED BY <2>3, <2>4, <2>5 DEF Base
<1>10. ASSUME NEW th \in Threads, PruneUnlock(th)
      PROVE  Base'
  <2>1. TypeOK'
    BY <1>0, <1>10 DEF PruneUnlock, TypeOK, env, mutexes, meta, locals, counts
  <2>2. DatesDistinct'
    BY <1>0, <1>10 DEF PruneUnlock, DatesDistinct
  <2>3. LocalsOK'
    <3> SUFFICES ASSUME NEW x \in Threads PROVE LocalsOf(x)'
      BY DEF LocalsOK
    <3>1. LocalsOf(x)
      BY <1>0 DEF LocalsOK
    <3> QED BY <1>0, <1>10, <3>1 DEF PruneUnlock, TypeOK, LocalsOf, env,
               mutexes, meta, locals, counts
  <2> QED BY <2>1, <2>2, <2>3 DEF Base
<1>11. ASSUME NEW th \in Threads, UpdateMetadata(th)
      PROVE  Base'
  <2>a. Latest(objects) \in TimePoint \union {NoTime}
    BY <1>0, LatestFacts DEF TypeOK, Latest
  <2>b. Latest(objects \ {Latest(objects)}) \in TimePoint \union {NoTime}
    <3>1. objects \ {Latest(objects)} \subseteq TimePoint
      BY <1>0 DEF TypeOK
    <3> QED BY <3>1, LatestFacts DEF Latest
  <2>1. TypeOK'
    BY <1>0, <2>a, <2>b, <1>11 DEF UpdateMetadata, FindLatestKey, TypeOK, env,
       mutexes, meta, locals, counts
  <2>2. DatesDistinct'
    BY <1>0, <2>a, <2>b, <1>11 DEF UpdateMetadata, DatesDistinct
  <2>3. LocalsOK'
    <3> SUFFICES ASSUME NEW x \in Threads PROVE LocalsOf(x)'
      BY DEF LocalsOK
    <3>1. LocalsOf(x)
      BY <1>0 DEF LocalsOK
    <3> QED BY <1>0, <2>a, <2>b, <1>11, <3>1 DEF UpdateMetadata, FindLatestKey,
               TypeOK, LocalsOf, env, mutexes, meta, locals, counts
  <2> QED BY <2>1, <2>2, <2>3 DEF Base
<1>12. ASSUME NEW th \in Queriers, NEW d \in Day, Query(th, d)
      PROVE  Base'
  <2>0. th \in Threads
    BY DEF Threads
  <2>1. TypeOK'
    BY <1>0, <2>0, <1>12 DEF Query, TypeOK, env, mutexes, meta, locals, counts
  <2>2. DatesDistinct'
    BY <1>0, <2>0, <1>12 DEF Query, DatesDistinct
  <2>3. LocalsOK'
    <3> SUFFICES ASSUME NEW x \in Threads PROVE LocalsOf(x)'
      BY DEF LocalsOK
    <3>1. LocalsOf(x)
      BY <1>0 DEF LocalsOK
    <3> QED BY <1>0, <2>0, <1>12, <3>1 DEF Query, TypeOK, LocalsOf, env,
               mutexes, meta, locals, counts
  <2> QED BY <2>1, <2>2, <2>3 DEF Base
<1>13. ASSUME NEW th \in Queriers, QueryReturn(th)
      PROVE  Base'
  <2>0. th \in Threads
    BY DEF Threads
  <2>1. day[th] \in Day
    BY <1>0, <2>0, <1>13 DEF QueryReturn, Return, LocalsOK, LocalsOf
  <2>1a. objectDates \in Seq(Day) /\ Distinct(objectDates)
    BY <1>0 DEF TypeOK, DatesDistinct, Distinct
  <2>2. /\ MostRecent(objectDates, day[th]) \in Seq(Day)
        /\ Distinct(MostRecent(objectDates, day[th]))
    BY <2>1a, <2>1, MostRecentFacts
  <2>3. objectDates' \in Seq(Day) /\ DatesDistinct'
    BY <1>0, <2>0, <1>13, <2>2 DEF QueryReturn, Return, TypeOK, DatesDistinct,
       Distinct
  <2>4. TypeOK'
    BY <1>0, <2>0, <1>13, <2>3 DEF QueryReturn, Return, TypeOK, env, mutexes,
       meta, locals, counts
  <2>5. LocalsOK'
    <3> SUFFICES ASSUME NEW x \in Threads PROVE LocalsOf(x)'
      BY DEF LocalsOK
    <3>1. LocalsOf(x)
      BY <1>0 DEF LocalsOK
    <3> QED BY <1>0, <2>0, <1>13, <3>1 DEF QueryReturn, Return, TypeOK,
               LocalsOf, env, mutexes, meta, locals, counts
  <2> QED BY <2>3, <2>4, <2>5 DEF Base
<1>14. ASSUME NEW th \in Refreshers, RefreshReadClock(th)
      PROVE  Base'
  <2>0. th \in Threads
    BY DEF Threads
  <2>1. TypeOK'
    BY <1>0, <2>0, <1>14 DEF RefreshReadClock, TypeOK, env, mutexes, meta,
       locals, counts
  <2>2. DatesDistinct'
    BY <1>0, <2>0, <1>14 DEF RefreshReadClock, DatesDistinct
  <2>3. LocalsOK'
    <3> SUFFICES ASSUME NEW x \in Threads PROVE LocalsOf(x)'
      BY DEF LocalsOK
    <3>1. LocalsOf(x)
      BY <1>0 DEF LocalsOK
    <3> QED BY <1>0, <2>0, <1>14, <3>1 DEF RefreshReadClock, TypeOK, LocalsOf,
               env, mutexes, meta, locals, counts
  <2> QED BY <2>1, <2>2, <2>3 DEF Base
<1>15. ASSUME NEW th \in Refreshers, RefreshLock(th)
      PROVE  Base'
  <2>0. th \in Threads
    BY DEF Threads
  <2>1. TypeOK'
    BY <1>0, <2>0, <1>15 DEF RefreshLock, Yesterday, TypeOK, LocalsOK,
       LocalsOf, env, mutexes, meta, locals, counts
  <2>2. DatesDistinct'
    BY <1>0, <2>0, <1>15 DEF RefreshLock, DatesDistinct
  <2>3. LocalsOK'
    <3> SUFFICES ASSUME NEW x \in Threads PROVE LocalsOf(x)'
      BY DEF LocalsOK
    <3>1. LocalsOf(x)
      BY <1>0 DEF LocalsOK
    <3> QED BY <1>0, <2>0, <1>15, <3>1 DEF RefreshLock, Yesterday, TypeOK,
               LocalsOf, env, mutexes, meta, locals, counts
  <2> QED BY <2>1, <2>2, <2>3 DEF Base
<1>16. ASSUME NEW th \in Refreshers, RefreshYesterdayListed(th)
      PROVE  Base'
  <2>0. th \in Threads
    BY DEF Threads
  <2>1. TypeOK'
    BY <1>0, <2>0, <1>16 DEF RefreshYesterdayListed, RefreshDateAfter, TypeOK,
       LocalsOK, LocalsOf, env, mutexes, meta, locals, counts
  <2>2. DatesDistinct'
    BY <1>0, <2>0, <1>16 DEF RefreshYesterdayListed, DatesDistinct
  <2>3. LocalsOK'
    <3> SUFFICES ASSUME NEW x \in Threads PROVE LocalsOf(x)'
      BY DEF LocalsOK
    <3>1. LocalsOf(x)
      BY <1>0 DEF LocalsOK
    <3> QED BY <1>0, <2>0, <1>16, <3>1 DEF RefreshYesterdayListed,
               RefreshDateAfter, TypeOK, LocalsOf, env, mutexes, meta, locals,
               counts
  <2> QED BY <2>1, <2>2, <2>3 DEF Base
<1>17. ASSUME NEW th \in Refreshers, RefreshReturn(th)
      PROVE  Base'
  <2>0. th \in Threads
    BY DEF Threads
  <2>1. TypeOK'
    BY <1>0, <2>0, <1>17 DEF RefreshReturn, RefreshDateAfter, Return, TypeOK,
       env, mutexes, meta, locals, counts
  <2>2. DatesDistinct'
    BY <1>0, <2>0, <1>17 DEF RefreshReturn, DatesDistinct
  <2>3. LocalsOK'
    <3> SUFFICES ASSUME NEW x \in Threads PROVE LocalsOf(x)'
      BY DEF LocalsOK
    <3>1. LocalsOf(x)
      BY <1>0 DEF LocalsOK
    <3> QED BY <1>0, <2>0, <1>17, <3>1 DEF RefreshReturn, RefreshDateAfter,
               Return, TypeOK, LocalsOf, env, mutexes, meta, locals, counts
  <2> QED BY <2>1, <2>2, <2>3 DEF Base
<1>18. CASE UNCHANGED vars
  BY <1>0, <1>18 DEF vars, Base, TypeOK, DatesDistinct, LocalsOK, LocalsOf,
     env, mutexes, meta, locals, counts
<1> QED
  BY <1>1, <1>2, <1>3, <1>4, <1>5, <1>6, <1>7, <1>8, <1>9,
     <1>10, <1>11, <1>12, <1>13, <1>14, <1>15, <1>16, <1>17, <1>18
  DEF Next, ListObjects, GetTimePointsByDate, Refresh

(* Type correctness: no interleaving takes a variable out of its type. *)
THEOREM TypeCorrect == Spec => []TypeOK
<1>1. Spec => []Base
  BY BaseInit, BaseNext, PTL DEF Spec
<1>2. Base => TypeOK
  BY DEF Base
<1> QED BY <1>1, <1>2, PTL

(* However many threads update the dates, objectDates_ has no duplicates. *)
THEOREM DatesStayDistinct == Spec => []DatesDistinct
<1>1. Spec => []Base
  BY BaseInit, BaseNext, PTL DEF Spec
<1>2. Base => DatesDistinct
  BY DEF Base
<1> QED BY <1>1, <1>2, PTL

-----------------------------------------------------------------------------
(* No object escapes PruneObjects.                                         *)

(* A step that neither adds an object nor takes away a date or a thread    *)
(* that is going to list one keeps every object prunable.                  *)
LEMMA PrunableKept ==
  ASSUME EveryObjectPrunable, objects' \subseteq objects,
         CachedDates \subseteq CachedDates',
         \A x \in Threads : WillListDate(x) =>
           \/ WillListDate(x)' /\ day'[x] = day[x]
           \/ day[x] \in CachedDates'
  PROVE  EveryObjectPrunable'
BY DEF EveryObjectPrunable

(* There are no objects at first. *)
LEMMA PrunableInit == Init => EveryObjectPrunable
BY DEF Init, EveryObjectPrunable

(* Every step keeps EveryObjectPrunable. *)
LEMMA PrunableNext ==
  Base /\ EveryObjectPrunable /\ [Next]_vars => EveryObjectPrunable'
<1> SUFFICES ASSUME Base, EveryObjectPrunable, [Next]_vars
             PROVE  EveryObjectPrunable'
  OBVIOUS
<1> USE DEF env, mutexes, meta, locals, counts
<1>0. TypeOK /\ DatesDistinct /\ LocalsOK
  BY DEF Base
<1>e. CachedDates = ToSet(objectDates) /\ CachedDates' = ToSet(objectDates')
  BY DEF CachedDates, ToSet
<1>1. ASSUME NEW t \in TimePoint, Publish(t)
      PROVE  EveryObjectPrunable'
  BY <1>1, PrunableKept DEF Publish, CachedDates, WillListDate
<1>2. CASE Midnight
  BY <1>2, PrunableKept DEF Midnight, CachedDates, WillListDate
<1>3. ASSUME NEW th \in Threads, ListResponse(th)
      PROVE  EveryObjectPrunable'
  BY <1>0, <1>3, PrunableKept
  DEF ListResponse, CachedDates, WillListDate, TypeOK
<1>4. ASSUME NEW th \in Threads, ListError(th)
      PROVE  EveryObjectPrunable'
  BY <1>0, <1>4, PrunableKept
  DEF ListError, CachedDates, WillListDate, TypeOK
<1>5. ASSUME NEW th \in Threads, NEW t \in TimePoint, StoreObject(th, t)
      PROVE  EveryObjectPrunable'
  <2>1. /\ pending[th] \subseteq OnDay(TimePoint, day[th])
        /\ t \in pending[th]
    BY <1>0, <1>5 DEF LocalsOK, LocalsOf, StoreObject, IsEarliest
  <2>2. DayOf(t) = day[th]
    BY <2>1 DEF OnDay
  <2>3. \A x \in Threads : WillListDate(x) => WillListDate(x)'
    BY <1>0, <1>5 DEF StoreObject, CountsNew, WillListDate, TypeOK
  <2>4. t \notin objects => WillListDate(th)'
    BY <1>0, <1>5 DEF StoreObject, CountsNew, WillListDate, TypeOK
  <2>5. /\ objects' = objects \union {t} /\ CachedDates' = CachedDates
        /\ day' = day
    BY <1>5 DEF StoreObject, CachedDates
  <2> QED BY <2>2, <2>3, <2>4, <2>5 DEF EveryObjectPrunable
<1>6. ASSUME NEW th \in Threads, UpdateObjectDates(th)
      PROVE  EveryObjectPrunable'
  <2>1. day[th] \in Day /\ objectDates \in Seq(Day) /\ Distinct(objectDates)
    BY <1>0, <1>6
    DEF UpdateObjectDates, LocalsOK, LocalsOf, TypeOK, DatesDistinct, Distinct
  <2>2. CachedDates' = CachedDates \union {day[th]}
    BY <1>e, <1>6, <2>1, MostRecentFacts DEF UpdateObjectDates
  <2>3. \A x \in Threads \ {th} : WillListDate(x) => WillListDate(x)'
    BY <1>0, <1>6 DEF UpdateObjectDates, WillListDate, TypeOK
  <2>4. objects' = objects /\ day' = day
    BY <1>6 DEF UpdateObjectDates
  <2> QED BY <2>2, <2>3, <2>4, PrunableKept
<1>7. ASSUME NEW th \in Threads,
             \/ PruneReadClock(th) \/ PruneLock(th) \/ PruneUnlock(th)
             \/ UpdateMetadata(th)
      PROVE  EveryObjectPrunable'
  BY <1>0, <1>7, PrunableKept
  DEF PruneReadClock, PruneLock, PruneUnlock, UpdateMetadata, CachedDates,
      WillListDate, TypeOK
<1>8. ASSUME NEW th \in Threads, NEW i \in DOMAIN objectDates, PruneDate(th, i)
      PROVE  EveryObjectPrunable'
  <2>1. CachedDates' = CachedDates \ {objectDates[i]}
    <3>1. objectDates \in Seq(Day) /\ Distinct(objectDates)
      BY <1>0 DEF TypeOK, DatesDistinct, Distinct
    <3> QED BY <1>e, <1>8, <3>1, RemoveAtDistinct DEF PruneDate
  <2>2. \A t \in objects' : t \in objects /\ DayOf(t) # objectDates[i]
    BY <1>8 DEF PruneDate, OnDay
  <2>3. UNCHANGED <<day, pc, newObjects>>
    BY <1>8 DEF PruneDate
  <2> QED BY <2>1, <2>2, <2>3 DEF EveryObjectPrunable, WillListDate
<1>9. ASSUME NEW th \in Queriers, NEW d \in Day, Query(th, d)
      PROVE  EveryObjectPrunable'
  <2>1. th \in Threads
    BY DEF Threads
  <2> QED BY <1>0, <1>9, <2>1, PrunableKept
          DEF Query, CachedDates, WillListDate, TypeOK
<1>10. ASSUME NEW th \in Queriers, QueryReturn(th)
      PROVE  EveryObjectPrunable'
  <2>1. th \in Threads /\ ~ WillListDate(th)
    BY <1>10 DEF Threads, QueryReturn, WillListDate
  <2>2. day[th] \in Day /\ objectDates \in Seq(Day) /\ Distinct(objectDates)
    BY <1>0, <1>10, <2>1
    DEF QueryReturn, LocalsOK, LocalsOf, TypeOK, DatesDistinct, Distinct
  <2>3. CachedDates \subseteq CachedDates'
    BY <1>e, <1>10, <2>2, MostRecentFacts DEF QueryReturn
  <2>4. \A x \in Threads \ {th} :
          WillListDate(x) => WillListDate(x)' /\ day'[x] = day[x]
    BY <1>0, <1>10, <2>1 DEF QueryReturn, Return, WillListDate, TypeOK
  <2>5. objects' = objects
    BY <1>10 DEF QueryReturn
  <2> QED BY <2>1, <2>3, <2>4, <2>5, PrunableKept
<1>11. ASSUME NEW th \in Refreshers,
             \/ RefreshReadClock(th) \/ RefreshLock(th)
             \/ RefreshYesterdayListed(th) \/ RefreshReturn(th)
      PROVE  EveryObjectPrunable'
  <2>1. th \in Threads
    BY DEF Threads
  <2> QED BY <1>0, <1>11, <2>1, PrunableKept
          DEF RefreshReadClock, RefreshLock, RefreshYesterdayListed,
              RefreshReturn, Return, CachedDates, WillListDate, TypeOK
<1>12. CASE UNCHANGED vars
  BY <1>12, PrunableKept DEF vars, CachedDates, WillListDate
<1> QED
  BY <1>1, <1>2, <1>3, <1>4, <1>5, <1>6, <1>7, <1>8, <1>9, <1>10, <1>11, <1>12
  DEF Next, ListObjects, GetTimePointsByDate, Refresh

(***************************************************************************)
(* Whatever the interleaving of listings, queries, refreshes and prunings, *)
(* every cached object can be found through objectDates_, or the thread    *)
(* that stored it is about to put its date there: PruneObjects never loses *)
(* track of an object.                                                     *)
(***************************************************************************)
THEOREM ObjectsStayPrunable == Spec => []EveryObjectPrunable
<1>1. Init => Base /\ EveryObjectPrunable
  BY BaseInit, PrunableInit
<1>2. Base /\ EveryObjectPrunable /\ [Next]_vars => (Base /\ EveryObjectPrunable)'
  BY BaseNext, PrunableNext
<1> QED BY <1>1, <1>2, PTL DEF Spec

-----------------------------------------------------------------------------
(* What pruning leaves.                                                    *)

(* A list without duplicates has as many dates as entries. *)
LEMMA DistinctCardinality ==
  ASSUME NEW S, NEW s \in Seq(S), Distinct(s)
  PROVE  /\ IsFiniteSet(ToSet(s))
         /\ Cardinality(ToSet(s)) = Len(s)
<1>1. /\ Len(s) \in Nat /\ DOMAIN s = 1 .. Len(s)
      /\ s \in [1 .. Len(s) -> S]
  BY LenProperties
<1>2. /\ IsFiniteSet(1 .. Len(s)) /\ Cardinality(1 .. Len(s)) = Len(s)
  BY <1>1, FS_Interval
<1> DEFINE f == [i \in 1 .. Len(s) |-> s[i]]
<1>3. f \in Bijection(1 .. Len(s), ToSet(s))
  <2>1. f \in [1 .. Len(s) -> ToSet(s)]
    BY <1>1 DEF ToSet
  <2>2. \A a, b \in 1 .. Len(s) : f[a] = f[b] => a = b
    BY <1>1 DEF Distinct
  <2>3. \A e \in ToSet(s) : \E a \in 1 .. Len(s) : f[a] = e
    BY <1>1 DEF ToSet
  <2> HIDE DEF f
  <2> QED BY <2>1, <2>2, <2>3
          DEF Bijection, Injection, Surjection, IsInjective
<1>4. ExistsBijection(1 .. Len(s), ToSet(s))
  BY <1>3 DEF ExistsBijection
<1> QED BY <1>1, <1>2, <1>4, FS_Bijection, FS_SameCardinalityBij

(* Only PruneDate takes objects or dates away. *)
LEMMA OnlyPruneDateErases ==
  ASSUME Base, [Next]_vars,
         ~ (objects \subseteq objects' /\ CachedDates \subseteq CachedDates')
  PROVE  \E th \in Threads : \E i \in DOMAIN objectDates : PruneDate(th, i)
<1>0. objectDates \in Seq(Day) /\ Distinct(objectDates)
  BY DEF Base, TypeOK, DatesDistinct, Distinct
<1>e. CachedDates = ToSet(objectDates) /\ CachedDates' = ToSet(objectDates')
  BY DEF CachedDates, ToSet
<1>1. ASSUME NEW t \in TimePoint, Publish(t) PROVE FALSE
  BY <1>e, <1>1 DEF Publish
<1>2. ASSUME Midnight PROVE FALSE
  BY <1>e, <1>2 DEF Midnight
<1>3. ASSUME NEW th \in Threads,
             \/ ListResponse(th) \/ ListError(th) \/ PruneReadClock(th)
             \/ PruneLock(th) \/ PruneUnlock(th) \/ UpdateMetadata(th)
             \/ \E t \in TimePoint : StoreObject(th, t)
      PROVE  FALSE
  BY <1>e, <1>3
  DEF ListResponse, ListError, PruneReadClock, PruneLock, PruneUnlock,
      UpdateMetadata, StoreObject
<1>4. ASSUME NEW th \in Threads, UpdateObjectDates(th) PROVE FALSE
  <2>1. day[th] \in Day
    BY <1>4 DEF Base, UpdateObjectDates, LocalsOK, LocalsOf
  <2> QED BY <1>0, <1>e, <1>4, <2>1, MostRecentFacts DEF UpdateObjectDates
<1>5. ASSUME NEW th \in Queriers, GetTimePointsByDate(th) PROVE FALSE
  <2>1. QueryReturn(th) => day[th] \in Day
    BY DEF Base, QueryReturn, LocalsOK, LocalsOf, Threads
  <2> QED BY <1>0, <1>e, <1>5, <2>1, MostRecentFacts
          DEF GetTimePointsByDate, Query, QueryReturn
<1>6. ASSUME NEW th \in Refreshers, Refresh(th) PROVE FALSE
  BY <1>e, <1>6
  DEF Refresh, RefreshReadClock, RefreshLock, RefreshYesterdayListed,
      RefreshReturn
<1>7. ASSUME UNCHANGED vars PROVE FALSE
  BY <1>e, <1>7 DEF vars
<1> QED BY <1>1, <1>2, <1>3, <1>4, <1>5, <1>6, <1>7 DEF Next, ListObjects

(* Whatever a step erases is older than yesterday, although the date that  *)
(* a prune goes by may be out of date when it gets the mutex.              *)
LEMMA OlderErased ==
  ASSUME Base, [Next]_vars, NEW t \in objects, t \notin objects'
  PROVE  DayOf(t) < Yesterday(now)
<1>1. PICK th \in Threads, i \in DOMAIN objectDates : PruneDate(th, i)
  BY OnlyPruneDateErases
<1>2. DayOf(t) = objectDates[i] /\ objectDates[i] < Yesterday(today[th])
  BY <1>1 DEF PruneDate, NextPrunable, OnDay
<1>3. /\ today[th] <= now /\ today[th] \in Int /\ now \in Int
      /\ objectDates[i] \in Int
  BY ProviderAssumption DEF Base, LocalsOK, LocalsOf, TypeOK, Day
<1> QED BY <1>2, <1>3 DEF Yesterday

(* No step takes an object of today or yesterday out of the cache.         *)
THEOREM RecentKept == Spec => RecentObjectsKept
<1>1. ASSUME Base, [Next]_vars
      PROVE  \A t \in objects \ objects' : DayOf(t) < Yesterday(now)
  BY <1>1, OlderErased
<1>2. Spec => []Base
  BY BaseInit, BaseNext, PTL DEF Spec
<1>3. Base /\ [Next]_vars =>
        [\A t \in objects \ objects' : DayOf(t) < Yesterday(now)]_vars
  BY <1>1
<1> QED BY <1>2, <1>3, PTL DEF Spec, RecentObjectsKept

(* Nor does it leave fewer than MinDates - 1 dates in the cache. *)
THEOREM MinDatesStay == Spec => MinDatesKept
<1>1. ASSUME Base, [Next]_vars, CachedDates \ CachedDates' # {}
      PROVE  Cardinality(CachedDates') >= MinDates - 1
  <2>1. PICK th \in Threads, i \in DOMAIN objectDates : PruneDate(th, i)
    BY <1>1, OnlyPruneDateErases
  <2>2. objectDates \in Seq(Day) /\ Distinct(objectDates)
    BY <1>1 DEF Base, TypeOK, DatesDistinct, Distinct
  <2>3. objectDates' = RemoveAt(objectDates, i) /\ Len(objectDates) >= MinDates
    BY <2>1 DEF PruneDate, OverLimit
  <2>4. objectDates' \in Seq(Day) /\ Distinct(objectDates')
    BY <2>2, <2>3, RemoveAtDistinct
  <2>5. Len(objectDates') = Len(objectDates) - 1
    BY <2>2, <2>3, RemoveAtFacts, LenProperties
  <2>6. CachedDates' = ToSet(objectDates')
    BY DEF CachedDates, ToSet
  <2>7. Cardinality(CachedDates') = Len(objectDates')
    BY <2>4, <2>6, DistinctCardinality
  <2> QED BY <2>2, <2>3, <2>5, <2>7, LenProperties, ProviderAssumption
<1>2. Spec => []Base
  BY BaseInit, BaseNext, PTL DEF Spec
<1>3. Base /\ [Next]_vars =>
        [CachedDates \ CachedDates' # {} =>
           Cardinality(CachedDates') >= MinDates - 1]_vars
  BY <1>1
<1> QED BY <1>2, <1>3, PTL DEF Spec, MinDatesKept

-----------------------------------------------------------------------------
(* The metadata.                                                           *)

(* The thread has changed the cache and has not updated the metadata yet.  *)
WillUpdateMetadata(th) ==
  \/ pc[th] \in {"store", "dates"} /\ newObjects[th]
  \/ pc[th] \in {"clock", "lockPrune", "prune", "metadata"}

(***************************************************************************)
(* The inductive form of MetadataFresh: a thread that stored known keys    *)
(* only is busy too, but need not update anything.                         *)
(***************************************************************************)
MetadataInv == (\E th \in Threads : WillUpdateMetadata(th)) \/ MetadataCurrent

(* A thread that is going to update the metadata does not forget it. *)
LEMMA UpdateNotForgotten ==
  ASSUME Base, [Next]_vars, NEW x \in Threads, WillUpdateMetadata(x),
         ~ UpdateMetadata(x)
  PROVE  WillUpdateMetadata(x)'
<1> USE DEF env, mutexes, meta, locals, counts
<1>0. TypeOK
  BY DEF Base
<1>1. CASE \/ \E t \in TimePoint : Publish(t)
           \/ Midnight
           \/ UNCHANGED vars
  BY <1>1 DEF Publish, Midnight, vars, WillUpdateMetadata
<1>2. ASSUME NEW th \in Threads,
             \/ ListResponse(th) \/ ListError(th) \/ UpdateObjectDates(th)
      PROVE  WillUpdateMetadata(x)'
  BY <1>0, <1>2
  DEF ListResponse, ListError, UpdateObjectDates, WillUpdateMetadata, TypeOK
<1>3. ASSUME NEW th \in Threads, NEW t \in TimePoint, StoreObject(th, t)
      PROVE  WillUpdateMetadata(x)'
  BY <1>0, <1>3 DEF StoreObject, CountsNew, WillUpdateMetadata, TypeOK
<1>4. ASSUME NEW th \in Threads,
             \/ PruneReadClock(th) \/ PruneLock(th) \/ PruneUnlock(th)
             \/ \E i \in DOMAIN objectDates : PruneDate(th, i)
      PROVE  WillUpdateMetadata(x)'
  BY <1>0, <1>4
  DEF PruneReadClock, PruneLock, PruneUnlock, PruneDate, WillUpdateMetadata,
      TypeOK
<1>5. ASSUME NEW th \in Threads, UpdateMetadata(th)
      PROVE  WillUpdateMetadata(x)'
  BY <1>0, <1>5 DEF UpdateMetadata, WillUpdateMetadata, TypeOK
<1>6. ASSUME NEW th \in Queriers, GetTimePointsByDate(th)
      PROVE  WillUpdateMetadata(x)'
  <2>1. th \in Threads
    BY DEF Threads
  <2> QED BY <1>0, <1>6, <2>1
          DEF GetTimePointsByDate, Query, QueryReturn, Return,
              WillUpdateMetadata, TypeOK
<1>7. ASSUME NEW th \in Refreshers, Refresh(th)
      PROVE  WillUpdateMetadata(x)'
  <2>1. th \in Threads
    BY DEF Threads
  <2> QED BY <1>0, <1>7, <2>1
          DEF Refresh, RefreshReadClock, RefreshLock, RefreshYesterdayListed,
              RefreshReturn, Return, WillUpdateMetadata, TypeOK
<1> QED BY <1>1, <1>2, <1>3, <1>4, <1>5, <1>6, <1>7 DEF Next, ListObjects

(* Only threads that then update the metadata change the cache. *)
LEMMA ChangeIsNoted ==
  ASSUME Base, [Next]_vars, <<objects, meta>>' # <<objects, meta>>
  PROVE  \E th \in Threads : WillUpdateMetadata(th)' \/ UpdateMetadata(th)
<1> USE DEF env, mutexes, meta, locals, counts
<1>0. TypeOK
  BY DEF Base
<1>1. ASSUME NEW th \in Threads, NEW t \in TimePoint, StoreObject(th, t),
             <<objects, meta>>' # <<objects, meta>>
      PROVE  WillUpdateMetadata(th)'
  <2>1. t \notin objects
    BY <1>1 DEF StoreObject
  <2> QED BY <1>0, <1>1, <2>1
          DEF StoreObject, CountsNew, WillUpdateMetadata, TypeOK
<1>2. ASSUME NEW th \in Threads, NEW i \in DOMAIN objectDates, PruneDate(th, i)
      PROVE  WillUpdateMetadata(th)'
  BY <1>2 DEF PruneDate, WillUpdateMetadata
<1> QED BY <1>1, <1>2
    DEF Next, ListObjects, GetTimePointsByDate, Refresh, Publish, Midnight,
        ListResponse, ListError, UpdateObjectDates, PruneReadClock, PruneLock,
        PruneUnlock, Query, QueryReturn, RefreshReadClock, RefreshLock,
        RefreshYesterdayListed, RefreshReturn, vars

(***************************************************************************)
(* Between listings last_modified and update_period describe the newest    *)
(* objects, in whatever order several threads inserted, pruned and updated *)
(* the metadata before.                                                    *)
(***************************************************************************)
THEOREM MetadataStaysFresh == Spec => []MetadataFresh
<1>1. Init => MetadataInv
  <2>1. Cardinality({}) = 0
    BY FS_EmptySet
  <2> QED BY <2>1 DEF Init, MetadataInv, MetadataCurrent
<1>2. ASSUME Base, [Next]_vars, NEW th \in Threads, UpdateMetadata(th)
      PROVE  MetadataCurrent'
  <2>1. objects' = objects
    BY <1>2 DEF UpdateMetadata
  <2> QED BY <1>2, <2>1 DEF UpdateMetadata, FindLatestKey, MetadataCurrent
<1>3. ASSUME Base, [Next]_vars, MetadataInv PROVE MetadataInv'
  <2>1. CASE \E th \in Threads : UpdateMetadata(th)
    BY <1>2, <1>3, <2>1 DEF MetadataInv
  <2>2. CASE ~ \E th \in Threads : UpdateMetadata(th)
    <3>1. CASE \E th \in Threads : WillUpdateMetadata(th)
      BY <1>3, <2>2, <3>1, UpdateNotForgotten DEF MetadataInv
    <3>2. CASE <<objects, meta>>' # <<objects, meta>>
      BY <1>3, <2>2, <3>2, ChangeIsNoted DEF MetadataInv
    <3>3. CASE <<objects, meta>>' = <<objects, meta>> /\ MetadataCurrent
      BY <3>3 DEF MetadataInv, MetadataCurrent, meta
    <3> QED BY <1>3, <3>1, <3>2, <3>3 DEF MetadataInv
  <2> QED BY <2>1, <2>2
<1>4. MetadataInv => MetadataFresh
  BY DEF MetadataInv, MetadataFresh, WillUpdateMetadata, Busy
<1>5. Spec => []Base
  BY BaseInit, BaseNext, PTL DEF Spec
<1> QED BY <1>1, <1>3, <1>4, <1>5, PTL DEF Spec

-----------------------------------------------------------------------------
(* Midnight.                                                               *)

(* Of yesterday, the cache lacks only what could not be listed. *)
Covered == OnDay(bucket, Yesterday(now)) \subseteq objects \union missed

(* A refresh of today has listed yesterday before, and one that has the    *)
(* listing of yesterday has stored its keys or still holds them, but for   *)
(* those that could not be listed.                                         *)
Listed(th) ==
  /\ leg[th] = "today" /\ day[th] = now => Covered
  /\ leg[th] = "yesterday" /\ day[th] = Yesterday(now) /\ pc[th] # "request" =>
       OnDay(bucket, Yesterday(now)) \subseteq objects \union missed \union pending[th]

(* The inductive form of MissedOnlyByFailure. *)
MidnightInv ==
  /\ refreshDate <= now
  /\ refreshDate = now => Covered
  /\ \A th \in Refreshers : Listed(th)

(* An upload to yesterday is late, and nobody takes away what the cache    *)
(* has of yesterday or forgets what it lacks.                              *)
LEMMA CoveredStays ==
  ASSUME Base, [Next]_vars, now' = now
  PROVE  /\ OnDay(bucket, Yesterday(now))'
              \subseteq OnDay(bucket, Yesterday(now)) \union missed'
         /\ OnDay(objects, Yesterday(now)) \subseteq objects'
         /\ OnDay(missed, Yesterday(now)) \subseteq objects' \union missed'
         /\ Covered => Covered'
<1>1. \/ bucket' = bucket
      \/ \E n \in TimePoint :
           bucket' = bucket \union {n} /\ (DayOf(n) # now => n \in missed')
  BY DEF Next, Publish, Midnight, ListObjects, GetTimePointsByDate, Refresh,
         ListResponse, ListError, StoreObject, UpdateObjectDates,
         PruneReadClock, PruneLock, PruneDate, PruneUnlock, UpdateMetadata,
         Query, QueryReturn, RefreshReadClock, RefreshLock,
         RefreshYesterdayListed, RefreshReturn, vars, env
<1>2. now \in Int /\ Yesterday(now) # now
  BY ProviderAssumption DEF Base, TypeOK, Day, Yesterday
<1>3. OnDay(bucket, Yesterday(now))'
        \subseteq OnDay(bucket, Yesterday(now)) \union missed'
  <2> SUFFICES ASSUME NEW t, t \in bucket', DayOf(t) = Yesterday(now)
               PROVE  t \in bucket \/ t \in missed'
    BY DEF OnDay, Yesterday
  <2>1. CASE bucket' = bucket
    BY <2>1
  <2>2. ASSUME NEW n \in TimePoint, bucket' = bucket \union {n},
               DayOf(n) # now => n \in missed'
        PROVE  t \in bucket \/ t \in missed'
    <3>1. CASE t = n
      <4>1. DayOf(n) = Yesterday(now)
        BY <3>1
      <4> QED BY <1>2, <2>2, <3>1, <4>1
    <3> QED BY <2>2, <3>1
  <2> QED BY <1>1, <2>1, <2>2
<1>4. OnDay(objects, Yesterday(now)) \subseteq objects'
  BY <1>2, OlderErased DEF OnDay, Yesterday
<1>5. missed \subseteq missed' \union objects'
  BY DEF Next, Publish, Midnight, ListObjects, GetTimePointsByDate, Refresh,
         ListResponse, ListError, StoreObject, UpdateObjectDates,
         PruneReadClock, PruneLock, PruneDate, PruneUnlock, UpdateMetadata,
         Query, QueryReturn, RefreshReadClock, RefreshLock,
         RefreshYesterdayListed, RefreshReturn, vars
<1>6. Yesterday(now)' = Yesterday(now)
  BY DEF Yesterday
<1> QED BY <1>3, <1>4, <1>5, <1>6 DEF Covered, OnDay

(* Every step keeps MidnightInv. *)
LEMMA MidnightNext ==
  ASSUME Base, Base', [Next]_vars, MidnightInv
  PROVE  MidnightInv'
<1> USE ProviderAssumption
<1> USE DEF env, mutexes, meta, locals, counts
<1>t. /\ now \in Int /\ refreshDate \in Int /\ refreshDate <= now
      /\ \A th \in Threads : day[th] \in Int /\ day[th] <= now
      /\ \A th \in Threads : leg[th] = "yesterday" => day[th] < now
  BY DEF Base, TypeOK, LocalsOK, LocalsOf, Day, MidnightInv
<1>u. Refreshers \subseteq Threads
  BY DEF Threads
<1>1. CASE Midnight
  <2>1. now' = now + 1 /\ refreshDate' = refreshDate /\ leg' = leg /\ day' = day
    BY <1>1 DEF Midnight
  <2>2. refreshDate' <= now' /\ refreshDate' # now'
    BY <1>t, <2>1
  <2>3. \A th \in Refreshers : Listed(th)'
    BY <1>t, <1>u, <2>1 DEF Listed, Yesterday
  <2> QED BY <2>2, <2>3 DEF MidnightInv
<1>2. CASE now' = now
  <2>c. /\ OnDay(bucket, Yesterday(now))'
             \subseteq OnDay(bucket, Yesterday(now)) \union missed'
        /\ OnDay(objects, Yesterday(now)) \subseteq objects'
        /\ OnDay(missed, Yesterday(now)) \subseteq objects' \union missed'
        /\ Covered => Covered'
    BY <1>2, CoveredStays
  <2>y. Yesterday(now)' = Yesterday(now)
    BY <1>2 DEF Yesterday
  <2>k. ASSUME NEW x \in Refreshers,
               leg'[x] = leg[x] /\ day'[x] = day[x] /\ pending'[x] = pending[x],
               pc[x] = "request" => pc'[x] = "request"
        PROVE  Listed(x)'
    <3>1. Listed(x)
      BY DEF MidnightInv
    <3>2. ASSUME leg[x] = "yesterday", day[x] = Yesterday(now), pc'[x] # "request"
          PROVE  OnDay(bucket, Yesterday(now))'
                   \subseteq objects' \union missed' \union pending[x]
      <4>1. OnDay(bucket, Yesterday(now)) \subseteq objects \union missed \union pending[x]
        BY <2>k, <3>1, <3>2 DEF Listed
      <4>2. OnDay(bucket, Yesterday(now))
              \subseteq objects' \union missed' \union pending[x]
        BY <2>c, <4>1 DEF OnDay
      <4> QED BY <2>c, <4>2
    <3> QED BY <1>2, <2>c, <2>k, <2>y, <3>1, <3>2 DEF Listed
  <2>o. ASSUME NEW th, NEW x \in Refreshers, x # th,
               \/ ListObjects(th) \/ GetTimePointsByDate(th) \/ Refresh(th)
        PROVE  Listed(x)'
    <3>1. /\ leg'[x] = leg[x] /\ day'[x] = day[x] /\ pending'[x] = pending[x]
          /\ pc'[x] = pc[x]
      BY <1>u, <2>o
      DEF ListObjects, GetTimePointsByDate, Refresh, ListResponse, ListError,
          StoreObject, UpdateObjectDates, PruneReadClock, PruneLock, PruneDate,
          PruneUnlock, UpdateMetadata, Query, QueryReturn, RefreshReadClock,
          RefreshLock, RefreshYesterdayListed, RefreshReturn, Return, Base,
          TypeOK
    <3> QED BY <2>k, <3>1
  <2>1. CASE (\E t \in TimePoint : Publish(t)) \/ UNCHANGED vars
    <3>1. UNCHANGED <<leg, day, pending, pc, refreshDate>>
      BY <2>1 DEF Publish, vars
    <3> QED BY <1>2, <2>c, <2>k, <3>1 DEF MidnightInv
  <2>2. ASSUME NEW th \in Queriers, GetTimePointsByDate(th)
        PROVE  MidnightInv'
    <3>1. th \notin Refreshers /\ refreshDate' = refreshDate
      BY <2>2 DEF GetTimePointsByDate, Query, QueryReturn
    <3> QED BY <1>2, <2>c, <2>o, <2>2, <3>1 DEF MidnightInv
  <2>3. ASSUME NEW th \in Threads, ListObjects(th)
        PROVE  MidnightInv'
    <3>1. refreshDate' = refreshDate /\ leg' = leg /\ day' = day
      BY <2>3
      DEF ListObjects, ListResponse, ListError, StoreObject, UpdateObjectDates,
          PruneReadClock, PruneLock, PruneDate, PruneUnlock, UpdateMetadata
    <3>2. ASSUME th \in Refreshers
          PROVE  Listed(th)'
      <4>1. CASE ListResponse(th)
        <5>1. pending'[th] = OnDay(bucket, day[th])
          BY <4>1 DEF ListResponse, Base, TypeOK
        <5>2. leg'[th] = "yesterday" /\ day'[th] = Yesterday(now) =>
                OnDay(bucket, Yesterday(now)) \subseteq pending'[th]
          BY <3>1, <5>1
        <5> QED BY <1>2, <2>c, <2>y, <3>1, <3>2, <5>2 DEF MidnightInv, Listed
      <4>e. CASE ListError(th)
        <5>1. leg[th] = "yesterday" =>
                missed' = missed \union (OnDay(bucket, day[th]) \ objects)
          BY <4>e DEF ListError
        <5>2. bucket' = bucket /\ objects' = objects
          BY <4>e DEF ListError
        <5> QED BY <1>2, <2>c, <2>y, <3>1, <3>2, <5>1, <5>2
                DEF MidnightInv, Listed, OnDay
      <4>2. ASSUME NEW t \in TimePoint, StoreObject(th, t)
            PROVE  Listed(th)'
        <5>1. /\ pending'[th] = pending[th] \ {t} /\ objects' = objects \union {t}
              /\ missed' = missed \ {t} /\ pc[th] # "request"
          BY <4>2 DEF StoreObject, Base, TypeOK
        <5>2. Listed(th) /\ bucket' = bucket
          BY <3>2, <4>2 DEF MidnightInv, StoreObject
        <5> QED BY <1>2, <2>c, <2>y, <3>1, <5>1, <5>2 DEF Listed
      <4>3. CASE \/ UpdateObjectDates(th) \/ PruneReadClock(th) \/ PruneLock(th)
                 \/ PruneUnlock(th) \/ UpdateMetadata(th)
                 \/ \E i \in DOMAIN objectDates : PruneDate(th, i)
        <5>1. pending' = pending /\ pc[th] # "request"
          BY <4>3 DEF UpdateObjectDates, PruneReadClock, PruneLock, PruneUnlock,
                      UpdateMetadata, PruneDate
        <5> QED BY <2>k, <3>1, <3>2, <5>1
      <4> QED BY <2>3, <4>1, <4>e, <4>2, <4>3 DEF ListObjects
    <3> QED BY <1>2, <2>c, <2>o, <2>3, <3>1, <3>2 DEF MidnightInv
  <2>4. ASSUME NEW th \in Refreshers, Refresh(th)
        PROVE  MidnightInv'
    <3>t. th \in Threads /\ Listed(th)
      BY <1>u DEF MidnightInv
    <3>p. pending[th] # {} => pc[th] = "store"
      BY <3>t DEF Base, LocalsOK, LocalsOf
    <3>1. CASE RefreshReadClock(th)
      <4>1. leg'[th] = "none" /\ refreshDate' = refreshDate
        BY <3>t, <3>1
        DEF RefreshReadClock, Base, TypeOK, LocalsOK, LocalsOf, ListingSteps
      <4>2. Listed(th)'
        BY <4>1 DEF Listed
      <4> QED BY <1>2, <2>c, <2>o, <2>4, <4>1, <4>2 DEF MidnightInv
    <3>2. CASE RefreshLock(th)
      <4>1. /\ refreshDate' = refreshDate /\ pc'[th] = "request"
            /\ leg'[th] = "today" => day'[th] = day[th] /\ ~(refreshDate < day[th])
        BY <3>t, <3>2 DEF RefreshLock, YesterdayDue, Base, TypeOK
      <4>2. leg'[th] = "today" /\ day'[th] = now => refreshDate = now
        BY <1>t, <3>t, <4>1
      <4>3. Listed(th)'
        BY <1>2, <2>c, <4>1, <4>2 DEF MidnightInv, Listed
      <4> QED BY <1>2, <2>c, <2>o, <2>4, <4>1, <4>3 DEF MidnightInv
    <3>3. CASE RefreshYesterdayListed(th)
      <4>1. /\ leg[th] = "yesterday" /\ pc[th] = "returned" /\ pc'[th] = "request"
            /\ leg'[th] = "today" /\ day'[th] = day[th] + 1
            /\ refreshDate' = refreshDate \/ refreshDate' = day[th]
        BY <3>t, <3>3 DEF RefreshYesterdayListed, RefreshDateAfter, Base, TypeOK
      <4>2. day'[th] = now => Covered
        BY <1>t, <3>t, <3>p, <4>1 DEF Listed, Yesterday, Covered
      <4>3. Listed(th)'
        BY <1>2, <2>c, <4>1, <4>2 DEF Listed
      <4>4. refreshDate' <= now /\ (refreshDate' = now => refreshDate = now)
        BY <1>t, <3>t, <4>1
      <4> QED BY <1>2, <2>c, <2>o, <2>4, <4>3, <4>4 DEF MidnightInv
    <3>4. CASE RefreshReturn(th)
      <4>1. /\ leg[th] = "today" /\ leg'[th] = "none"
            /\ refreshDate' = refreshDate \/ refreshDate' = day[th]
        BY <3>t, <3>4
        DEF RefreshReturn, RefreshDateAfter, Return, Base, TypeOK
      <4>2. refreshDate' <= now /\ (refreshDate' = now => Covered)
        BY <1>t, <3>t, <4>1 DEF Listed, MidnightInv
      <4>3. Listed(th)'
        BY <4>1 DEF Listed
      <4> QED BY <1>2, <2>c, <2>o, <2>4, <4>2, <4>3 DEF MidnightInv
    <3> QED BY <2>4, <3>1, <3>2, <3>3, <3>4 DEF Refresh
  <2> QED BY <1>t, <1>2, <2>1, <2>2, <2>3, <2>4 DEF Next, Midnight
<1>3. Midnight \/ now' = now
  BY DEF Next, Publish, env, Midnight, ListObjects, GetTimePointsByDate, Refresh,
         ListResponse, ListError, StoreObject, UpdateObjectDates,
         PruneReadClock, PruneLock, PruneDate, PruneUnlock, UpdateMetadata,
         Query, QueryReturn, RefreshReadClock, RefreshLock,
         RefreshYesterdayListed, RefreshReturn, vars
<1> QED BY <1>1, <1>2, <1>3

(***************************************************************************)
(* Of yesterday's scans, a Refresh that takes today for refreshed has      *)
(* brought all but those that the request for yesterday failed to list and *)
(* those uploaded late, whenever midnight passed, whatever failed before,  *)
(* and whatever other threads listed and pruned meanwhile.                 *)
(***************************************************************************)
THEOREM OnlyFailuresMiss == Spec => []MissedOnlyByFailure
<1>1. Init => MidnightInv
  <2>1. StartDay \in Nat \ {0} /\ Refreshers \subseteq Threads
    BY ProviderAssumption DEF Day, Threads
  <2> QED BY <2>1 DEF Init, MidnightInv, Listed
<1>2. Base /\ Base' /\ [Next]_vars /\ MidnightInv => MidnightInv'
  BY MidnightNext
<1>3. MidnightInv => MissedOnlyByFailure
  BY DEF MidnightInv, MissedOnlyByFailure, Covered
<1>4. Spec => []Base
  BY BaseInit, BaseNext, PTL DEF Spec
<1> QED BY <1>1, <1>2, <1>3, <1>4, PTL DEF Spec
=============================================================================

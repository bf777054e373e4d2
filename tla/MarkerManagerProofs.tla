-------------------------- MODULE MarkerManagerProofs --------------------------
(***************************************************************************)
(* Proofs about MarkerManager: types, and that ids, positions, rows and    *)
(* icons agree.                                                            *)
(***************************************************************************)
EXTENDS MarkerManager, SequencesExt, SequenceTheorems, WellFoundedInduction,
        TLAPS

-----------------------------------------------------------------------------
(* What is used of lists.                                                  *)

(* No element occurs twice. *)
Distinct(s) == \A i, j \in DOMAIN s : s[i] = s[j] => i = j

(* Append adds one element. *)
LEMMA AppendToSet ==
  ASSUME NEW S, NEW q \in Seq(S), NEW j \in S
  PROVE  Append(q, j) \in Seq(S) /\ ToSet(Append(q, j)) = ToSet(q) \union {j}
<1>1. /\ Append(q, j) \in Seq(S) /\ Len(Append(q, j)) = Len(q) + 1
      /\ \A i \in 1 .. Len(q) : Append(q, j)[i] = q[i]
      /\ Append(q, j)[Len(q) + 1] = j
  OBVIOUS
<1> DEFINE z == Append(q, j)
<1> HIDE DEF z
<1> QED BY <1>1 DEF ToSet, z

(* RemoveAt drops one element and keeps the order of the others. *)
LEMMA RemoveAtFacts ==
  ASSUME NEW S, NEW s \in Seq(S), NEW i \in 1 .. Len(s)
  PROVE  /\ RemoveAt(s, i) \in Seq(S)
         /\ Len(RemoveAt(s, i)) = Len(s) - 1
         /\ \A j \in 1 .. (Len(s) - 1) :
              RemoveAt(s, i)[j] = IF j < i THEN s[j] ELSE s[j + 1]
<1> DEFINE a == SubSeq(s, 1, i - 1)
           b == SubSeq(s, i + 1, Len(s))
<1>1. /\ a \in Seq(S) /\ Len(a) = i - 1
      /\ \A j \in 1 .. (i - 1) : a[j] = s[j]
  OBVIOUS
<1>2. /\ b \in Seq(S) /\ Len(b) = Len(s) - i
      /\ \A j \in 1 .. (Len(s) - i) : b[j] = s[j + i]
  OBVIOUS
<1>3. RemoveAt(s, i) = a \o b
  BY DEF RemoveAt
<1> HIDE DEF a, b
<1>4. /\ a \o b \in Seq(S) /\ Len(a \o b) = Len(s) - 1
  <2>1. a \o b \in Seq(S) /\ Len(a \o b) = Len(a) + Len(b)
    BY <1>1, <1>2, ConcatProperties
  <2> QED BY <1>1, <1>2, <2>1
<1>5. \A j \in 1 .. (Len(s) - 1) :
        (a \o b)[j] = IF j < i THEN s[j] ELSE s[j + 1]
  BY <1>1, <1>2, ConcatProperties
<1> QED
  BY <1>3, <1>4, <1>5

(* Removing one element of a list without duplicates leaves the others. *)
LEMMA RemoveAtDistinct ==
  ASSUME NEW S, NEW s \in Seq(S), NEW i \in DOMAIN s, Distinct(s)
  PROVE  /\ RemoveAt(s, i) \in Seq(S)
         /\ Distinct(RemoveAt(s, i))
         /\ ToSet(RemoveAt(s, i)) = ToSet(s) \ {s[i]}
<1> DEFINE r == RemoveAt(s, i)
<1>1. /\ r \in Seq(S) /\ Len(r) = Len(s) - 1
      /\ \A j \in 1 .. (Len(s) - 1) : r[j] = IF j < i THEN s[j] ELSE s[j + 1]
  BY RemoveAtFacts
<1> HIDE DEF r
<1>2. Distinct(r)
  <2> SUFFICES ASSUME NEW j \in 1 .. Len(r), NEW k \in 1 .. Len(r),
                      r[j] = r[k]
               PROVE  j = k
    BY <1>1, LenProperties DEF Distinct
  <2> DEFINE old(n) == IF n < i THEN n ELSE n + 1
  <2>1. /\ old(j) \in DOMAIN s /\ old(k) \in DOMAIN s
        /\ s[old(j)] = s[old(k)]
    BY <1>1
  <2>2. old(j) = old(k)
    BY <2>1 DEF Distinct
  <2> QED BY <1>1, <2>2
<1>3. ToSet(r) \subseteq ToSet(s) \ {s[i]}
  BY <1>1 DEF ToSet, Distinct
<1>4. ASSUME NEW j \in DOMAIN s, j # i
      PROVE  s[j] \in ToSet(r)
  <2>1. CASE j < i
    BY <1>1, <2>1 DEF ToSet
  <2>2. CASE j > i
    <3>1. j - 1 \in DOMAIN r /\ r[j - 1] = s[j]
      BY <1>1, <2>2
    <3> QED BY <3>1 DEF ToSet
  <2> QED BY <1>4, <2>1, <2>2
<1>5. ToSet(s) \ {s[i]} \subseteq ToSet(r)
  BY <1>4 DEF ToSet
<1> QED BY <1>1, <1>2, <1>3, <1>5 DEF r

(* A set of numbers that is not empty has a least element. *)
LEMMA LeastNumber ==
  ASSUME NEW T \in SUBSET Nat, T # {} PROVE \E x \in T : \A y \in T : ~ (y < x)
<1> DEFINE Less == {ss \in Nat \X Nat : ss[1] < ss[2]}
<1>1. IsWellFoundedOn(Less, Nat)
  BY NatLessThanWellFounded DEF OpToRel
<1> HIDE DEF Less
<1>2. PICK x \in T : \A y \in T : ~ (<<y, x>> \in Less)
  BY <1>1, WFMin
<1>3. ASSUME NEW y \in T, y < x PROVE FALSE
  <2>1. <<y, x>> \in Less
    BY <1>3 DEF Less
  <2> QED BY <1>2, <2>1
<1> QED BY <1>3

(* What occurs in a sequence has a first position. *)
LEMMA FirstPosition ==
  ASSUME NEW S, NEW s \in Seq(S), NEW x, \E i \in DOMAIN s : s[i] = x
  PROVE  \E i \in DOMAIN s : s[i] = x /\ \A j \in 1 .. i - 1 : s[j] # x
<1> DEFINE At == {i \in 1 .. Len(s) : s[i] = x}
<1>1. Len(s) \in Nat /\ DOMAIN s = 1 .. Len(s)
  BY LenProperties
<1>2. At # {} /\ At \in SUBSET Nat
  BY <1>1
<1> HIDE DEF At
<1>3. PICK i \in At : \A j \in At : ~ (j < i)
  BY <1>2, LeastNumber
<1>4. ASSUME NEW j \in 1 .. i - 1 PROVE s[j] # x
  BY <1>1, <1>3 DEF At
<1> QED BY <1>1, <1>3, <1>4 DEF At

-----------------------------------------------------------------------------
(* The type invariant in two parts: what the operations change, and the    *)
(* rest.  No two ids have one position, also when a record has no id of    *)
(* its own.                                                                *)
StoreType ==
  /\ records \in Seq(Record) /\ lastId \in Nat
  /\ DOMAIN index \subseteq Nat \ {0}
  /\ index \in [DOMAIN index -> DOMAIN records]
  /\ rows \in Seq(Nat) /\ drawn \in Seq(Nat)

Injective == \A a, b \in DOMAIN index : index[a] = index[b] => a = b

(* In the order of the file: the ids that are known are those of the       *)
(* records, each at the position of its record, and a new id is larger.    *)
Order ==
  /\ DOMAIN index = ToSet(Ids(records))
  /\ \A i \in DOMAIN records : index[records[i].id] = i
  /\ \A id \in DOMAIN index : id <= lastId

LifeType ==
  /\ reader \in Readers /\ fileRead \in BOOLEAN /\ queue \in Seq(Signal)
  /\ run \in {"up", "saving", "down"} /\ file \in Seq(Marker)
  /\ made \in 0 .. MaxTags /\ calls \in Nat /\ sessions \in Nat

UserType ==
  /\ dialogs \in [Dialogs -> Dialog]
  /\ shown \in [Dialogs -> 0 .. MaxTags] /\ adds \in [Dialogs -> 0 .. MaxTags]
  /\ wanted \subseteq Marker /\ kept \subseteq Tags
  /\ upsets \subseteq Upsets

CountType == told \in Int /\ gone \in Nat

(* The parts make up the type invariant. *)
LEMMA TypeParts ==
  /\ TypeOK <=> StoreType /\ LifeType /\ UserType /\ CountType
  /\ TypeOK' <=> (StoreType /\ LifeType /\ UserType /\ CountType)'
BY DEF TypeOK, StoreType, LifeType, UserType, CountType

-----------------------------------------------------------------------------
(* Lists of records and their ids.                                         *)

(* The fields of a record. *)
LEMMA RecordFields ==
  ASSUME NEW r \in Record
  PROVE  r.id \in Nat /\ r.id # 0 /\ r.tag \in Tags /\ r.name \in Names
BY DEF Record

(* The ids of a list of records, one by one. *)
LEMMA IdsFacts ==
  ASSUME NEW s \in Seq(Record)
  PROVE  /\ Ids(s) \in Seq(Nat) /\ Len(Ids(s)) = Len(s)
         /\ DOMAIN Ids(s) = DOMAIN s
         /\ \A i \in DOMAIN s : Ids(s)[i] = s[i].id /\ s[i].id \in Nat /\ s[i].id # 0
<1>1. DOMAIN s = 1 .. Len(s) /\ Len(s) \in Nat
  BY LenProperties
<1>2. \A i \in DOMAIN s : s[i] \in Record
  BY <1>1, ElementOfSeq
<1>3. \A i \in 1 .. Len(s) : s[i].id \in Nat /\ s[i].id # 0
  BY <1>1, <1>2, RecordFields
<1>4. Ids(s) = [i \in 1 .. Len(s) |-> s[i].id]
  BY <1>1 DEF Ids
<1> QED BY <1>1, <1>3, <1>4

(* A record with a new id at the end. *)
LEMMA AppendIds ==
  ASSUME NEW s \in Seq(Record), NEW r \in Record
  PROVE  Append(s, r) \in Seq(Record) /\ Ids(Append(s, r)) = Append(Ids(s), r.id)
<1> DEFINE t == Append(s, r)
<1>1. /\ t \in Seq(Record) /\ Len(t) = Len(s) + 1 /\ Len(s) \in Nat
      /\ \A i \in 1 .. Len(s) : t[i] = s[i]
      /\ t[Len(s) + 1] = r
  BY AppendProperties, LenProperties
<1> HIDE DEF t
<1>2. /\ Ids(s) \in Seq(Nat) /\ Len(Ids(s)) = Len(s)
      /\ \A i \in 1 .. Len(s) : Ids(s)[i] = s[i].id
  BY IdsFacts, LenProperties
<1>3. /\ Ids(t) \in Seq(Nat) /\ Len(Ids(t)) = Len(t)
      /\ \A i \in 1 .. Len(t) : Ids(t)[i] = t[i].id
  BY <1>1, IdsFacts, LenProperties
<1> DEFINE u == Append(Ids(s), r.id)
<1>4. /\ u \in Seq(Nat) /\ Len(u) = Len(s) + 1
      /\ \A i \in 1 .. Len(s) : u[i] = Ids(s)[i]
      /\ u[Len(s) + 1] = r.id
  BY <1>2, RecordFields, AppendProperties
<1> HIDE DEF u
<1>5. ASSUME NEW i \in 1 .. Len(t) PROVE Ids(t)[i] = u[i]
  <2>1. Ids(t)[i] = t[i].id
    BY <1>3
  <2>2. CASE i = Len(s) + 1
    BY <1>1, <1>4, <2>1, <2>2
  <2>3. CASE i # Len(s) + 1
    <3>1. i \in 1 .. Len(s)
      BY <1>1, <2>3
    <3>2. t[i] = s[i] /\ u[i] = Ids(s)[i] /\ Ids(s)[i] = s[i].id
      BY <1>1, <1>2, <1>4, <3>1
    <3> QED BY ONLY <2>1, <3>2
  <2> QED BY ONLY <2>2, <2>3
<1>6. Ids(t) = u
  <2>1. Len(Ids(t)) = Len(u) /\ \A i \in 1 .. Len(Ids(t)) : Ids(t)[i] = u[i]
    BY <1>1, <1>3, <1>4, <1>5
  <2> QED BY <1>3, <1>4, <2>1, SeqEqual
<1> QED BY <1>1, <1>6 DEF t, u

(* Removing a record removes its id. *)
LEMMA RemoveIds ==
  ASSUME NEW s \in Seq(Record), NEW p \in 1 .. Len(s)
  PROVE  Ids(RemoveAt(s, p)) = RemoveAt(Ids(s), p)
<1> DEFINE t == RemoveAt(s, p)
           u == RemoveAt(Ids(s), p)
<1>0. Len(s) \in Nat /\ DOMAIN s = 1 .. Len(s)
  BY LenProperties
<1>1. /\ t \in Seq(Record) /\ Len(t) = Len(s) - 1
      /\ \A j \in 1 .. (Len(s) - 1) : t[j] = IF j < p THEN s[j] ELSE s[j + 1]
  BY RemoveAtFacts
<1>2. /\ Ids(s) \in Seq(Nat) /\ Len(Ids(s)) = Len(s)
      /\ \A i \in 1 .. Len(s) : Ids(s)[i] = s[i].id
  BY <1>0, IdsFacts
<1>3. /\ u \in Seq(Nat) /\ Len(u) = Len(s) - 1
      /\ \A j \in 1 .. (Len(s) - 1) : u[j] = IF j < p THEN Ids(s)[j] ELSE Ids(s)[j + 1]
  BY <1>2, RemoveAtFacts
<1> HIDE DEF t, u
<1>4. /\ Ids(t) \in Seq(Nat) /\ Len(Ids(t)) = Len(t)
      /\ \A i \in 1 .. Len(t) : Ids(t)[i] = t[i].id
  BY <1>1, IdsFacts, LenProperties
<1>5. ASSUME NEW i \in 1 .. Len(t) PROVE Ids(t)[i] = u[i]
  <2>1. i \in 1 .. (Len(s) - 1) /\ i \in 1 .. Len(s) /\ i + 1 \in 1 .. Len(s)
    BY <1>0, <1>1
  <2>2. Ids(t)[i] = t[i].id
    BY <1>4
  <2>3. CASE i < p
    <3>1. t[i] = s[i] /\ u[i] = Ids(s)[i]
      BY <1>1, <1>3, <2>1, <2>3
    <3>2. Ids(s)[i] = s[i].id
      BY <1>2, <2>1
    <3> QED BY ONLY <2>2, <3>1, <3>2
  <2>4. CASE ~ (i < p)
    <3>1. t[i] = s[i + 1] /\ u[i] = Ids(s)[i + 1]
      BY <1>1, <1>3, <2>1, <2>4
    <3>2. Ids(s)[i + 1] = s[i + 1].id
      BY <1>2, <2>1
    <3> QED BY ONLY <2>2, <3>1, <3>2
  <2> QED BY ONLY <2>3, <2>4
<1>6. Ids(t) = u
  <2>1. Len(Ids(t)) = Len(u) /\ \A i \in 1 .. Len(Ids(t)) : Ids(t)[i] = u[i]
    BY <1>1, <1>3, <1>4, <1>5
  <2> QED BY <1>3, <1>4, <2>1, SeqEqual
<1> QED BY <1>6 DEF t, u

(* Inserting at the end is appending. *)
LEMMA InsertAtEnd ==
  ASSUME NEW S, NEW s \in Seq(S), NEW e \in S
  PROVE  InsertAt(s, Len(s) + 1, e) = Append(s, e)
<1>1. Len(s) \in Nat /\ (Len(s) + 1) - 1 = Len(s)
  BY LenProperties
<1>2. SubSeq(s, 1, Len(s)) = s /\ SubSeq(s, Len(s) + 1, Len(s)) = <<>>
  BY <1>1
<1>3. InsertAt(s, Len(s) + 1, e) = (s \o <<e>>) \o <<>>
  BY <1>1, <1>2 DEF InsertAt
<1> QED BY <1>3

(* Inserting anywhere keeps the type. *)
LEMMA InsertAtType ==
  ASSUME NEW S, NEW s \in Seq(S), NEW e \in S, NEW i \in 1 .. Len(s) + 1
  PROVE  InsertAt(s, i, e) \in Seq(S)
<1>1. SubSeq(s, 1, i - 1) \in Seq(S) /\ SubSeq(s, i, Len(s)) \in Seq(S)
  OBVIOUS
<1> QED BY <1>1 DEF InsertAt

(* The row of an id that has one. *)
LEMMA RowOfFacts ==
  ASSUME rows \in Seq(Nat), NEW id \in ToSet(rows)
  PROVE  RowOf(id) \in 1 .. Len(rows) /\ rows[RowOf(id)] = id
<1>1. DOMAIN rows = 1 .. Len(rows)
  BY LenProperties
<1>2. \E i \in DOMAIN rows : rows[i] = id
  BY DEF ToSet
<1>3. \E i \in DOMAIN rows : rows[i] = id /\ \A j \in 1 .. i - 1 : rows[j] # id
  BY <1>2, FirstPosition
<1> QED BY ONLY <1>1, <1>3 DEF RowOf

-----------------------------------------------------------------------------
(* The operations of the manager keep the types and the positions apart.   *)

(* add_marker, whose row may be beyond the others. *)
LEMMA AddType ==
  ASSUME MarkerAssumption, StoreType, Injective, NEW tag \in Tags, add_marker(tag)
  PROVE  StoreType' /\ Injective'
<1> DEFINE id == lastId + 1
           r  == [id |-> id, tag |-> tag, name |-> NewName]
<1>1. /\ records \in Seq(Record) /\ lastId \in Nat /\ DOMAIN index \subseteq Nat \ {0}
      /\ index \in [DOMAIN index -> DOMAIN records] /\ rows \in Seq(Nat)
  BY DEF StoreType
<1>2. Len(records) \in Nat /\ DOMAIN records = 1 .. Len(records)
  BY <1>1, LenProperties
<1>3. id \in Nat \ {0} /\ r \in Record
  BY <1>1 DEF MarkerAssumption, Record
<1>4. /\ records' = Append(records, r) /\ lastId' = id
      /\ index' = [k \in DOMAIN index \union {id} |->
                     IF k \in DOMAIN index THEN index[k] ELSE Len(records) + 1]
      /\ HandleMarkerAdded(id) \/ InsertBeyond(id)
      /\ drawn' = Ids(records')
  BY DEF add_marker, ReloadMarkers
<1> HIDE DEF id, r
<1>5. /\ records' \in Seq(Record) /\ Len(records') = Len(records) + 1
      /\ DOMAIN records' = 1 .. Len(records) + 1
  <2>1. Append(records, r) \in Seq(Record) /\ Len(Append(records, r)) = Len(records) + 1
    BY <1>1, <1>3, AppendProperties
  <2> QED BY <1>4, <2>1, LenProperties
<1>6. \A k \in DOMAIN index : index[k] \in 1 .. Len(records)
  BY <1>1, <1>2
<1>7. DOMAIN index' = DOMAIN index \union {id}
  BY <1>4
<1>8. \A k \in DOMAIN index' :
        index'[k] = IF k \in DOMAIN index THEN index[k] ELSE Len(records) + 1
  BY <1>4
<1>9. \A k \in DOMAIN index' : index'[k] \in 1 .. Len(records) + 1
  BY <1>2, <1>6, <1>8
<1>10. index' \in [DOMAIN index' -> DOMAIN records'] /\ DOMAIN index' \subseteq Nat \ {0}
  <2>1. index' \in [DOMAIN index' -> 1 .. Len(records) + 1]
    BY <1>4, <1>9
  <2> QED BY <1>1, <1>3, <1>5, <1>7, <2>1
<1>11. drawn' \in Seq(Nat)
  BY <1>4, <1>5, IdsFacts
<1>12. rows' \in Seq(Nat)
  <2>1. index'[id] \in Nat \ {0}
    BY <1>2, <1>7, <1>9
  <2>2. CASE HandleMarkerAdded(id)
    <3>1. Len(rows) \in Nat
      BY <1>1, LenProperties
    <3>2. index'[id] \in 1 .. Len(rows) + 1 /\ rows' = InsertAt(rows, index'[id], id)
      BY <2>1, <2>2, <3>1 DEF HandleMarkerAdded
    <3>3. id \in Nat
      BY <1>3
    <3> QED BY <1>1, <3>2, <3>3, InsertAtType
  <2>3. CASE InsertBeyond(id)
    <3>1. rows' = [i \in 1 .. index'[id] |-> IF i = index'[id] THEN id ELSE 0]
      BY <2>3 DEF InsertBeyond
    <3> QED BY <1>3, <2>1, <3>1
  <2> QED BY <1>4, <2>2, <2>3
<1>13. Injective'
  <2> SUFFICES ASSUME NEW a \in DOMAIN index', NEW b \in DOMAIN index', index'[a] = index'[b]
               PROVE  a = b
    BY DEF Injective
  <2>1. CASE a \in DOMAIN index /\ b \in DOMAIN index
    BY <1>8, <2>1 DEF Injective
  <2>2. CASE a = id /\ b = id
    BY <2>2
  <2>3. CASE a \in DOMAIN index /\ b \notin DOMAIN index
    BY <1>2, <1>6, <1>8, <2>3
  <2>4. CASE a \notin DOMAIN index /\ b \in DOMAIN index
    BY <1>2, <1>6, <1>8, <2>4
  <2> QED BY <1>7, <2>1, <2>2, <2>3, <2>4
<1> QED BY <1>3, <1>4, <1>5, <1>10, <1>11, <1>12, <1>13 DEF StoreType

(* set_marker, which changes no id. *)
LEMMA SetType ==
  ASSUME StoreType, Injective, NEW id, NEW name \in Names, set_marker(id, name)
  PROVE  /\ StoreType' /\ Injective'
         /\ Ids(records') = Ids(records) /\ UNCHANGED <<index, lastId, rows>>
         /\ drawn' = drawn \/ drawn' = Ids(records')
<1>1. /\ records \in Seq(Record) /\ lastId \in Nat /\ DOMAIN index \subseteq Nat \ {0}
      /\ index \in [DOMAIN index -> DOMAIN records] /\ rows \in Seq(Nat)
      /\ drawn \in Seq(Nat)
  BY DEF StoreType
<1>2. CASE ~ Has(id) /\ UNCHANGED <<records, index, lastId, rows, drawn>>
  BY <1>2 DEF StoreType, Injective
<1>3. CASE Has(id) /\ records' = [records EXCEPT ![index[id]].name = name]
           /\ ReloadMarkers(records') /\ UNCHANGED <<index, lastId, rows>>
  <2> DEFINE p == index[id]
             r == [records[p] EXCEPT !.name = name]
  <2>1. p \in DOMAIN records /\ Len(records) \in Nat /\ DOMAIN records = 1 .. Len(records)
    BY <1>1, <1>3, LenProperties DEF Has
  <2>2. r \in Record /\ r.id = records[p].id
    <3>1. records[p] \in Record
      BY <1>1, <2>1, ElementOfSeq
    <3> QED BY <3>1 DEF Record
  <2>3. records' = [records EXCEPT ![p] = r]
    BY <1>3
  <2> HIDE DEF p, r
  <2>4. /\ records' \in Seq(Record) /\ Len(records') = Len(records)
        /\ DOMAIN records' = DOMAIN records
    BY <1>1, <2>1, <2>2, <2>3, ExceptSeq
  <2>5. Ids(records') = Ids(records)
    <3>1. \A i \in DOMAIN records : records'[i] = IF i = p THEN r ELSE records[i]
      BY <2>1, <2>3
    <3>2. \A i \in DOMAIN records : records'[i].id = records[i].id
      BY <2>2, <3>1
    <3> QED BY <2>4, <3>2 DEF Ids
  <2>6. drawn' = Ids(records') /\ drawn' \in Seq(Nat)
    BY <1>3, <2>4, IdsFacts DEF ReloadMarkers
  <2>7. index' = index /\ lastId' = lastId /\ rows' = rows
    BY <1>3
  <2>8. StoreType' /\ Injective'
    BY <1>1, <2>4, <2>6, <2>7 DEF StoreType, Injective
  <2> QED BY <2>5, <2>6, <2>7, <2>8
<1> QED BY <1>2, <1>3 DEF set_marker

(* What remove_marker does to the store if it finds the marker. *)
LEMMA RemoveFacts ==
  ASSUME StoreType, NEW id, remove_marker(id), Has(id)
  PROVE  /\ id \in DOMAIN index /\ index[id] \in 1 .. Len(records)
         /\ records' = RemoveAt(records, index[id])
         /\ DOMAIN index' = DOMAIN index \ {id}
         /\ \A k \in DOMAIN index' :
              index'[k] = IF index[k] > index[id] THEN index[k] - 1 ELSE index[k]
         /\ HandleMarkerRemoved(id) /\ drawn' = Ids(records') /\ lastId' = lastId
<1>1. /\ records' = RemoveAt(records, index[id])
      /\ index' = Restrict(MovedUp(index[id]), DOMAIN index \ {id})
      /\ HandleMarkerRemoved(id) /\ drawn' = Ids(records') /\ lastId' = lastId
  BY DEF remove_marker, ReloadMarkers
<1>2. id \in DOMAIN index /\ index[id] \in 1 .. Len(records)
  BY LenProperties DEF Has, StoreType
<1>3. DOMAIN index' = DOMAIN index \ {id}
  BY <1>1 DEF Restrict
<1>4. \A k \in DOMAIN index' :
        index'[k] = IF index[k] > index[id] THEN index[k] - 1 ELSE index[k]
  BY <1>1 DEF Restrict, MovedUp
<1> QED BY <1>1, <1>2, <1>3, <1>4

(* remove_marker leaves every row that is not of this marker. *)
LEMMA RemoveType ==
  ASSUME StoreType, Injective, NEW id, remove_marker(id)
  PROVE  StoreType' /\ Injective'
<1>1. /\ records \in Seq(Record) /\ lastId \in Nat /\ DOMAIN index \subseteq Nat \ {0}
      /\ index \in [DOMAIN index -> DOMAIN records] /\ rows \in Seq(Nat)
  BY DEF StoreType
<1>2. CASE ~ Has(id)
  <2>1. UNCHANGED <<records, index, lastId, rows, drawn>>
    BY <1>2 DEF remove_marker
  <2> QED BY <2>1 DEF StoreType, Injective
<1>3. CASE Has(id)
  <2> DEFINE p == index[id]
  <2>1. /\ id \in DOMAIN index /\ p \in 1 .. Len(records)
        /\ records' = RemoveAt(records, p)
        /\ DOMAIN index' = DOMAIN index \ {id}
        /\ \A k \in DOMAIN index' :
             index'[k] = IF index[k] > p THEN index[k] - 1 ELSE index[k]
        /\ HandleMarkerRemoved(id) /\ drawn' = Ids(records') /\ lastId' = lastId
    BY <1>3, RemoveFacts
  <2>2. /\ Len(records) \in Nat /\ DOMAIN records = 1 .. Len(records)
        /\ records' \in Seq(Record) /\ Len(records') = Len(records) - 1
        /\ DOMAIN records' = 1 .. Len(records')
    BY <1>1, <2>1, RemoveAtFacts, LenProperties
  <2>3. \A k \in DOMAIN index : index[k] \in 1 .. Len(records)
    BY <1>1, <2>2
  <2>4. \A k \in DOMAIN index' : k \in DOMAIN index /\ index[k] # p
    BY <2>1 DEF Injective
  <2> HIDE DEF p
  <2>5. \A k \in DOMAIN index' : index'[k] \in 1 .. Len(records')
    BY <2>1, <2>2, <2>3, <2>4
  <2>6. index' \in [DOMAIN index' -> DOMAIN records']
    <3>1. index' = [k \in DOMAIN index' |-> index'[k]]
      BY <1>3 DEF remove_marker, Restrict
    <3> QED BY <2>2, <2>5, <3>1
  <2>7. Injective'
    <3> SUFFICES ASSUME NEW a \in DOMAIN index', NEW b \in DOMAIN index', index'[a] = index'[b]
                 PROVE  a = b
      BY DEF Injective
    <3>1. index[a] = index[b]
      BY <2>1, <2>2, <2>3, <2>4
    <3> QED BY <2>4, <3>1 DEF Injective
  <2>8. drawn' \in Seq(Nat)
    BY <2>1, <2>2, IdsFacts
  <2>9. rows' \in Seq(Nat)
    <3>1. CASE id \in ToSet(rows) /\ rows' = RemoveAt(rows, RowOf(id))
      BY <1>1, <3>1, RowOfFacts, RemoveAtFacts
    <3>2. CASE rows' = rows
      BY <1>1, <3>2
    <3> QED BY <2>1, <3>1, <3>2 DEF HandleMarkerRemoved
  <2> QED BY <1>1, <2>1, <2>2, <2>6, <2>7, <2>8, <2>9 DEF StoreType
<1> QED BY <1>2, <1>3

(* remove_marker keeps the order, and rows that show it. *)
LEMMA RemoveOrder ==
  ASSUME StoreType, Order, NEW id, remove_marker(id)
  PROVE  /\ Order'
         /\ rows = <<>> => rows' = <<>>
         /\ rows = Ids(records) => rows' = Ids(records')
         /\ records = <<>> => records' = <<>>
         /\ drawn' = Ids(records') \/ (drawn' = drawn /\ Ids(records') = Ids(records))
<1>1. /\ records \in Seq(Record) /\ lastId \in Nat /\ DOMAIN index \subseteq Nat \ {0}
      /\ index \in [DOMAIN index -> DOMAIN records] /\ rows \in Seq(Nat)
      /\ Len(records) \in Nat /\ DOMAIN records = 1 .. Len(records)
  BY LenProperties DEF StoreType
<1>2. CASE ~ Has(id)
  <2>1. UNCHANGED <<records, index, lastId, rows, drawn>>
    BY <1>2 DEF remove_marker
  <2> QED BY <2>1 DEF Order
<1>3. CASE Has(id)
  <2> DEFINE p == index[id]
             u == Ids(records)
  <2>1. /\ id \in DOMAIN index /\ p \in 1 .. Len(records)
        /\ records' = RemoveAt(records, p)
        /\ DOMAIN index' = DOMAIN index \ {id}
        /\ \A k \in DOMAIN index' :
             index'[k] = IF index[k] > p THEN index[k] - 1 ELSE index[k]
        /\ HandleMarkerRemoved(id) /\ drawn' = Ids(records') /\ lastId' = lastId
    BY <1>3, RemoveFacts
  <2>2. /\ u \in Seq(Nat) /\ Len(u) = Len(records) /\ DOMAIN u = 1 .. Len(records)
        /\ \A i \in 1 .. Len(records) : u[i] = records[i].id
    BY <1>1, IdsFacts
  <2>3. \A i \in 1 .. Len(records) : index[u[i]] = i
    BY <1>1, <2>2 DEF Order
  <2>4. Distinct(u)
    BY <2>2, <2>3 DEF Distinct
  <2>5. DOMAIN index = ToSet(u)
    BY DEF Order
  <2> HIDE DEF p, u
  <2>6. u[p] = id
    <3>1. PICK i \in DOMAIN u : u[i] = id
      BY <2>1, <2>5 DEF ToSet
    <3> QED BY <2>2, <2>3, <3>1 DEF p
  <2>7. Ids(records') = RemoveAt(u, p)
    BY <1>1, <2>1, RemoveIds DEF u
  <2> DEFINE w == RemoveAt(u, p)
  <2>8. w \in Seq(Nat) /\ ToSet(w) = ToSet(u) \ {id}
    <3>1. p \in DOMAIN u
      BY <2>1, <2>2
    <3> QED BY <2>2, <2>4, <2>6, <3>1, RemoveAtDistinct
  <2>9. /\ Len(w) = Len(records) - 1
        /\ \A j \in 1 .. (Len(records) - 1) : w[j] = IF j < p THEN u[j] ELSE u[j + 1]
    <3>1. p \in 1 .. Len(u)
      BY <2>1, <2>2
    <3> QED BY ONLY <2>2, <3>1, RemoveAtFacts
  <2> HIDE DEF w
  <2>10. DOMAIN index' = ToSet(w)
    BY <2>1, <2>5, <2>8
  <2>11. /\ records' \in Seq(Record) /\ Len(records') = Len(w)
         /\ DOMAIN records' = 1 .. Len(w)
         /\ \A j \in 1 .. Len(w) : w[j] = records'[j].id
    <3>1. records' \in Seq(Record)
      BY <1>1, <2>1, RemoveAtFacts
    <3> QED BY <2>7, <3>1, IdsFacts, LenProperties DEF w
  <2>12. ASSUME NEW j \in 1 .. Len(w) PROVE index'[w[j]] = j
    <3>1. w[j] \in DOMAIN index'
      BY <2>8, <2>10, LenProperties DEF ToSet
    <3>2. /\ index'[w[j]] = IF index[w[j]] > p THEN index[w[j]] - 1 ELSE index[w[j]]
          /\ w[j] = IF j < p THEN u[j] ELSE u[j + 1]
          /\ j \in 1 .. Len(records) /\ j + 1 \in 1 .. Len(records)
      BY <1>1, <2>1, <2>9, <3>1
    <3>3. index[u[j]] = j /\ index[u[j + 1]] = j + 1
      BY <2>3, <3>2
    <3> QED BY <2>1, <3>2, <3>3
  <2>13. Order'
    <3>1. DOMAIN index' = ToSet(Ids(records'))
      BY <2>7, <2>10 DEF w
    <3>2. \A i \in DOMAIN records' : index'[records'[i].id] = i
      BY <2>11, <2>12
    <3>3. \A k \in DOMAIN index' : k <= lastId'
      BY <2>1 DEF Order
    <3> QED BY <3>1, <3>2, <3>3 DEF Order
  <2>14. ASSUME rows = <<>> PROVE rows' = <<>>
    <3>1. id \notin ToSet(rows)
      BY <2>14 DEF ToSet
    <3> QED BY <2>1, <2>14, <3>1 DEF HandleMarkerRemoved
  <2>15. ASSUME rows = u PROVE rows' = Ids(records')
    <3>1. id \in ToSet(rows)
      BY <2>1, <2>5, <2>15
    <3>2. RowOf(id) \in 1 .. Len(rows) /\ rows[RowOf(id)] = id
      BY <1>1, <3>1, RowOfFacts
    <3>3. RowOf(id) = p
      BY <2>2, <2>3, <2>15, <3>2 DEF p
    <3> QED BY <2>1, <2>7, <2>15, <3>1, <3>3 DEF HandleMarkerRemoved
  <2>16. records # <<>>
    BY <2>1
  <2> QED BY <2>1, <2>13, <2>14, <2>15, <2>16 DEF u
<1> QED BY <1>2, <1>3

(* add_marker keeps the order, and rows and icons that show it. *)
LEMMA AddOrder ==
  ASSUME MarkerAssumption, StoreType, Order, NEW tag \in Tags, add_marker(tag)
  PROVE  /\ Order'
         /\ rows = Ids(records) => rows' = Ids(records')
         /\ drawn' = Ids(records')
<1> DEFINE id == lastId + 1
           r  == [id |-> id, tag |-> tag, name |-> NewName]
           u  == Ids(records)
<1>1. /\ records \in Seq(Record) /\ lastId \in Nat /\ DOMAIN index \subseteq Nat \ {0}
      /\ rows \in Seq(Nat) /\ Len(records) \in Nat /\ DOMAIN records = 1 .. Len(records)
  BY LenProperties DEF StoreType
<1>2. id \in Nat \ {0} /\ r \in Record /\ r.id = id
  BY <1>1 DEF MarkerAssumption, Record
<1>3. /\ records' = Append(records, r) /\ lastId' = id
      /\ index' = [k \in DOMAIN index \union {id} |->
                     IF k \in DOMAIN index THEN index[k] ELSE Len(records) + 1]
      /\ HandleMarkerAdded(id) \/ InsertBeyond(id)
      /\ drawn' = Ids(records')
  BY DEF add_marker, ReloadMarkers
<1>4. id \notin DOMAIN index
  BY <1>1 DEF Order
<1> HIDE DEF id, r
<1>5. Ids(records') = Append(u, id)
  BY <1>1, <1>2, <1>3, AppendIds
<1>6. /\ u \in Seq(Nat) /\ Len(u) = Len(records)
      /\ \A i \in 1 .. Len(records) : u[i] = records[i].id
  BY <1>1, IdsFacts
<1>7. DOMAIN index = ToSet(u)
  BY DEF Order
<1>8. \A i \in 1 .. Len(records) : u[i] \in DOMAIN index /\ index[u[i]] = i
  <2>1. \A i \in 1 .. Len(records) : index[u[i]] = i
    BY <1>1, <1>6 DEF Order
  <2>2. \A i \in 1 .. Len(records) : u[i] \in ToSet(u)
    BY <1>6, LenProperties DEF ToSet
  <2> QED BY <1>7, <2>1, <2>2
<1> HIDE DEF u
<1>9. ToSet(Append(u, id)) = ToSet(u) \union {id}
  BY <1>2, <1>6, AppendToSet
<1>10. /\ records' \in Seq(Record) /\ Len(records') = Len(records) + 1
       /\ DOMAIN records' = 1 .. Len(records) + 1
       /\ \A i \in 1 .. Len(records) + 1 :
            records'[i].id = IF i = Len(records) + 1 THEN id ELSE u[i]
  <2>1. /\ records' \in Seq(Record) /\ Len(records') = Len(records) + 1
        /\ \A i \in 1 .. Len(records) : records'[i] = records[i]
        /\ records'[Len(records) + 1] = r
    BY <1>1, <1>2, <1>3, AppendProperties
  <2>2. \A i \in 1 .. Len(records) + 1 : i # Len(records) + 1 => i \in 1 .. Len(records)
    BY <1>1
  <2> QED BY <1>2, <1>6, <2>1, <2>2, LenProperties
<1>11. ASSUME NEW i \in DOMAIN records' PROVE index'[records'[i].id] = i
  <2>1. i \in 1 .. Len(records) + 1
    BY <1>10
  <2>2. CASE i = Len(records) + 1
    BY <1>3, <1>4, <1>10, <2>1, <2>2
  <2>3. CASE i # Len(records) + 1
    <3>1. i \in 1 .. Len(records) /\ records'[i].id = u[i]
      BY <1>1, <1>10, <2>1, <2>3
    <3> QED BY <1>3, <1>8, <3>1
  <2> QED BY <2>2, <2>3
<1>12. DOMAIN index' = DOMAIN index \union {id}
  BY <1>3
<1>13. \A k \in DOMAIN index' : k <= lastId'
  <2>1. \A k \in DOMAIN index : k <= lastId
    BY DEF Order
  <2>2. \A k \in DOMAIN index : k <= id
    BY <1>1, <2>1 DEF id
  <2> QED BY <1>2, <1>3, <1>12, <2>2
<1>14. Order'
  BY <1>5, <1>7, <1>9, <1>11, <1>12, <1>13 DEF Order
<1>15. ASSUME rows = u PROVE rows' = Ids(records')
  <2>1. index'[id] = Len(rows) + 1
    BY <1>3, <1>4, <1>6, <1>15
  <2>2. rows' = InsertAt(rows, Len(rows) + 1, id)
    <3>1. Len(rows) \in Nat
      BY <1>1, LenProperties
    <3> QED BY <1>3, <2>1, <3>1 DEF HandleMarkerAdded, InsertBeyond
  <2>3. id \in Nat
    BY <1>2
  <2> QED BY <1>1, <1>5, <1>15, <2>2, <2>3, InsertAtEnd
<1> QED BY <1>3, <1>14, <1>15 DEF u

-----------------------------------------------------------------------------
(* The file that is read.                                                  *)

(* The entries of the file as records with the next ids. *)
Read == [i \in DOMAIN file |->
           [id |-> lastId + i, tag |-> file[i].tag, name |-> file[i].name]]

(* The types of the entries, and their ids. *)
LEMMA ReadFacts ==
  ASSUME lastId \in Nat, file \in Seq(Marker)
  PROVE  /\ Read \in Seq(Record) /\ Len(Read) = Len(file) /\ Len(file) \in Nat
         /\ DOMAIN Read = 1 .. Len(file) /\ DOMAIN Ids(Read) = 1 .. Len(file)
         /\ \A i \in 1 .. Len(file) : Read[i].id = lastId + i /\ Ids(Read)[i] = lastId + i
<1>1. Len(file) \in Nat /\ DOMAIN file = 1 .. Len(file)
  BY LenProperties
<1>2. Read = [i \in 1 .. Len(file) |->
                [id |-> lastId + i, tag |-> file[i].tag, name |-> file[i].name]]
  BY <1>1 DEF Read
<1>3. \A i \in 1 .. Len(file) : Read[i] \in Record /\ Read[i].id = lastId + i
  <2> SUFFICES ASSUME NEW i \in 1 .. Len(file)
               PROVE  Read[i] \in Record /\ Read[i].id = lastId + i
    OBVIOUS
  <2>1. file[i] \in Marker
    BY ElementOfSeq
  <2>2. file[i].tag \in Tags /\ file[i].name \in Names
    BY <2>1 DEF Marker
  <2>3. lastId + i \in Nat \ {0}
    BY <1>1
  <2>4. Read[i] = [id |-> lastId + i, tag |-> file[i].tag, name |-> file[i].name]
    BY <1>2
  <2> QED BY <2>2, <2>3, <2>4 DEF Record
<1>4. Read \in Seq(Record) /\ Len(Read) = Len(file) /\ DOMAIN Read = 1 .. Len(file)
  BY <1>1, <1>2, <1>3
<1>5. DOMAIN Ids(Read) = DOMAIN Read /\ \A i \in DOMAIN Read : Ids(Read)[i] = Read[i].id
  BY DEF Ids
<1> QED BY <1>1, <1>3, <1>4, <1>5

(* Reading the file keeps the types and the positions apart. *)
LEMMA ReadType ==
  ASSUME StoreType, Injective, file \in Seq(Marker), ReadFile
  PROVE  StoreType' /\ Injective'
<1>1. /\ records \in Seq(Record) /\ lastId \in Nat /\ DOMAIN index \subseteq Nat \ {0}
      /\ index \in [DOMAIN index -> DOMAIN records]
      /\ Len(records) \in Nat /\ DOMAIN records = 1 .. Len(records)
  BY LenProperties DEF StoreType
<1> DEFINE new == ToSet(Ids(Read))
<1>2. /\ records' = records \o Read
      /\ index' = [id \in DOMAIN index \union new |->
                     IF id \in DOMAIN index THEN index[id] ELSE Len(records) + (id - lastId)]
      /\ lastId' = lastId + Len(file) /\ rows' = rows /\ drawn' = drawn
  BY DEF ReadFile, Read
<1>3. /\ Read \in Seq(Record) /\ Len(Read) = Len(file) /\ Len(file) \in Nat
      /\ DOMAIN Ids(Read) = 1 .. Len(file)
      /\ \A i \in 1 .. Len(file) : Ids(Read)[i] = lastId + i
  BY <1>1, ReadFacts
<1>4. \A id \in new : \E i \in 1 .. Len(file) : id = lastId + i
  BY <1>3 DEF ToSet
<1> HIDE DEF new
<1>5. \A id \in new : id \in Nat \ {0} /\ id - lastId \in 1 .. Len(file)
  BY <1>1, <1>3, <1>4
<1>6. /\ records' \in Seq(Record) /\ Len(records') = Len(records) + Len(file)
      /\ DOMAIN records' = 1 .. Len(records) + Len(file)
  <2>1. records' \in Seq(Record) /\ Len(records') = Len(records) + Len(Read)
    BY <1>1, <1>2, <1>3, ConcatProperties
  <2> QED BY <1>3, <2>1, LenProperties
<1>7. \A k \in DOMAIN index : index[k] \in 1 .. Len(records)
  BY <1>1
<1>8. /\ DOMAIN index' = DOMAIN index \union new
      /\ \A k \in DOMAIN index' :
           index'[k] = IF k \in DOMAIN index THEN index[k] ELSE Len(records) + (k - lastId)
  BY <1>2
<1>9. ASSUME NEW k \in DOMAIN index' PROVE index'[k] \in 1 .. Len(records) + Len(file)
  <2>1. CASE k \in DOMAIN index
    <3>1. index'[k] \in 1 .. Len(records)
      BY <1>7, <1>8, <2>1
    <3> QED BY <1>1, <1>3, <3>1
  <2>2. CASE k \notin DOMAIN index
    <3>1. k \in new /\ index'[k] = Len(records) + (k - lastId)
      BY <1>8, <2>2
    <3>2. k \in Nat /\ k - lastId \in 1 .. Len(file)
      BY <1>5, <3>1
    <3> QED BY <1>1, <1>3, <3>1, <3>2
  <2> QED BY <2>1, <2>2
<1>10. index' \in [DOMAIN index' -> DOMAIN records'] /\ DOMAIN index' \subseteq Nat \ {0}
  <2>1. index' = [k \in DOMAIN index' |-> index'[k]]
    BY <1>2
  <2> QED BY <1>1, <1>5, <1>6, <1>8, <1>9, <2>1
<1>11. Injective'
  <2> SUFFICES ASSUME NEW a \in DOMAIN index', NEW b \in DOMAIN index', index'[a] = index'[b]
               PROVE  a = b
    BY DEF Injective
  <2>1. CASE a \in DOMAIN index /\ b \in DOMAIN index
    BY <1>8, <2>1 DEF Injective
  <2>2. CASE a \notin DOMAIN index /\ b \notin DOMAIN index
    <3>1. /\ a \in Nat /\ b \in Nat
          /\ Len(records) + (a - lastId) = Len(records) + (b - lastId)
      BY <1>5, <1>8, <2>2
    <3> QED BY <1>1, <3>1
  <2>3. \A c \in DOMAIN index' : c \notin DOMAIN index => index'[c] > Len(records)
    <3> SUFFICES ASSUME NEW c \in DOMAIN index', c \notin DOMAIN index
                 PROVE  index'[c] > Len(records)
      OBVIOUS
    <3>1. c \in Nat /\ c - lastId \in 1 .. Len(file) /\ index'[c] = Len(records) + (c - lastId)
      BY <1>5, <1>8
    <3> QED BY <1>1, <1>3, <3>1
  <2>4. \A c \in DOMAIN index : index'[c] = index[c] /\ index[c] \in 1 .. Len(records)
    BY <1>7, <1>8
  <2>5. CASE (a \in DOMAIN index) # (b \in DOMAIN index)
    BY <1>1, <2>3, <2>4, <2>5
  <2> QED BY <2>1, <2>2, <2>5
<1>12. lastId' \in Nat
  BY <1>1, <1>2, <1>3
<1> QED BY <1>2, <1>6, <1>10, <1>11, <1>12 DEF StoreType

(* What is read first is in the order of the file. *)
LEMMA ReadOrder ==
  ASSUME StoreType, Order, file \in Seq(Marker), records = <<>>, ReadFile
  PROVE  Order'
<1>1. lastId \in Nat
  BY DEF StoreType
<1> DEFINE new == ToSet(Ids(Read))
<1>2. /\ records' = <<>> \o Read
      /\ index' = [id \in DOMAIN index \union new |->
                     IF id \in DOMAIN index THEN index[id] ELSE Len(records) + (id - lastId)]
      /\ lastId' = lastId + Len(file)
  BY DEF ReadFile, Read
<1>3. /\ Read \in Seq(Record) /\ Len(Read) = Len(file) /\ Len(file) \in Nat
      /\ DOMAIN Read = 1 .. Len(file) /\ DOMAIN Ids(Read) = 1 .. Len(file)
      /\ \A i \in 1 .. Len(file) : Read[i].id = lastId + i /\ Ids(Read)[i] = lastId + i
  BY <1>1, ReadFacts
<1>4. records' = Read
  BY <1>2, <1>3
<1>5. DOMAIN index = {} /\ Len(records) = 0
  <2>1. Len(records) = 0 /\ DOMAIN records = {}
    OBVIOUS
  <2> QED BY <2>1 DEF Order, ToSet, Ids
<1>6. new = {lastId + i : i \in 1 .. Len(file)}
  BY <1>3 DEF ToSet
<1> HIDE DEF new
<1>7. DOMAIN index' = new /\ \A k \in new : index'[k] = 0 + (k - lastId)
  BY <1>2, <1>5
<1>8. ASSUME NEW i \in 1 .. Len(file) PROVE index'[lastId + i] = i
  <2>1. lastId + i \in new
    BY <1>6
  <2>2. index'[lastId + i] = 0 + ((lastId + i) - lastId)
    BY <1>7, <2>1
  <2> QED BY <1>1, <2>2
<1>9. \A k \in new : k <= lastId'
  BY <1>1, <1>2, <1>3, <1>6
<1>10. DOMAIN index' = ToSet(Ids(records'))
  BY <1>4, <1>7 DEF new
<1>11. \A i \in DOMAIN records' : index'[records'[i].id] = i
  BY <1>3, <1>4, <1>8
<1> QED BY <1>7, <1>9, <1>10, <1>11 DEF Order

-----------------------------------------------------------------------------
(* The steps, one by one.                                                  *)

(* A call of the user that adds no marker. *)
Calls ==
  /\ UNCHANGED <<reader, fileRead, queue, run, file, made, sessions>>
  /\ calls' \in {calls, calls + 1} /\ upsets \subseteq upsets'
  /\ \/ \E id : \E name \in Names : set_marker(id, name)
     \/ \E id : remove_marker(id)
     \/ UNCHANGED <<records, index, lastId, rows, announced, drawn>>

(* What the user's calls do to the store. *)
LEMMA UserCalls ==
  ASSUME UserStep
  PROVE  (\E d \in Adders : Add(d)) \/ Calls
<1>1. ASSUME NEW d, NEW id, Edit(d, id) PROVE Calls
  BY <1>1 DEF Edit, Stays, Calls
<1>2. ASSUME NEW d, NEW name \in Names, NEW open, Accept(d, name, open) PROVE Calls
  <2>1. set_marker(dialogs[d].id, name) /\ Call /\ Stays /\ upsets \subseteq upsets'
    BY <1>2 DEF Accept
  <2> QED BY <2>1 DEF Call, Stays, Calls
<1>3. ASSUME NEW d, Cancel(d) PROVE Calls
  <2>1. Stays /\ UNCHANGED <<calls, upsets>>
    BY <1>3 DEF Cancel
  <2>2. \/ remove_marker(dialogs[d].id)
        \/ UNCHANGED <<records, index, lastId, rows, announced, drawn>>
    BY <1>3 DEF Cancel
  <2> QED BY <2>1, <2>2 DEF Stays, Calls
<1>4. ASSUME NEW d, Delete(d) PROVE Calls
  <2>1. remove_marker(dialogs[d].id) /\ Call /\ Stays /\ UNCHANGED upsets
    BY <1>4 DEF Delete
  <2> QED BY <2>1 DEF Call, Stays, Calls
<1>5. ASSUME NEW i, RemoveSelected(i) PROVE Calls
  <2>1. /\ remove_marker(rows[ViewRow(i)]) /\ Call /\ Stays /\ upsets \subseteq upsets'
    BY <1>5 DEF RemoveSelected
  <2> QED BY <2>1 DEF Call, Stays, Calls
<1> QED BY <1>1, <1>2, <1>3, <1>4, <1>5 DEF UserStep

(* Every step keeps the types of the store and the positions apart. *)
LEMMA StoreStep ==
  ASSUME MarkerAssumption, TypeOK, Injective, [Next]_vars
  PROVE  StoreType' /\ Injective'
<1>1. StoreType /\ LifeType
  BY TypeParts
<1>2. /\ records \in Seq(Record) /\ drawn \in Seq(Nat) /\ rows \in Seq(Nat)
      /\ Ids(records) \in Seq(Nat)
  BY <1>1, IdsFacts DEF StoreType
<1>3. ASSUME UNCHANGED <<records, index, lastId, rows, drawn>> PROVE StoreType' /\ Injective'
  BY <1>1, <1>3 DEF StoreType, Injective
<1>4. CASE ReaderStep
  <2>1. CASE ReadFile
    BY <1>1, <2>1, ReadType DEF LifeType
  <2>2. CASE ResetIds
    BY <1>1, <2>2 DEF ResetIds, StoreType, Injective
  <2>3. CASE ReadIcons \/ AnnounceUpdate \/ AnnounceInitialized
    BY <1>3, <2>3 DEF ReadIcons, AnnounceUpdate, AnnounceInitialized
  <2> QED BY <1>4, <2>1, <2>2, <2>3 DEF ReaderStep
<1>5. CASE Deliver
  <2>1. /\ UNCHANGED <<records, index, lastId>>
        /\ drawn' \in {drawn, Ids(records)} /\ rows' \in {rows, rows \o Ids(records)}
    BY <1>5 DEF Deliver, ReloadMarkers, HandleMarkersInitialized
  <2>2. rows \o Ids(records) \in Seq(Nat)
    BY <1>2
  <2>3. drawn' \in Seq(Nat) /\ rows' \in Seq(Nat)
    BY <1>2, <2>1, <2>2
  <2> QED BY <1>1, <2>1, <2>3 DEF StoreType, Injective
<1>6. CASE LoadLayer
  <2>1. UNCHANGED <<records, index, lastId, rows>> /\ drawn' = Ids(records)
    BY <1>6 DEF LoadLayer, ReloadMarkers
  <2> QED BY <1>1, <1>2, <2>1 DEF StoreType, Injective
<1>7. CASE UserStep
  <2>1. ASSUME NEW d \in Adders, Add(d) PROVE StoreType' /\ Injective'
    <3>1. add_marker(made') /\ made' \in Tags
      BY <1>1, <2>1 DEF Add, LifeType, Tags, MarkerAssumption
    <3> QED BY <1>1, <3>1, AddType
  <2>2. CASE Calls
    BY <1>1, <1>3, <2>2, SetType, RemoveType DEF Calls
  <2> QED BY <1>7, <2>1, <2>2, UserCalls
<1>8. CASE Lifecycle
  <2>1. CASE Start
    <3>1. records' = <<>> /\ index' = <<>> /\ lastId' = 0 /\ rows' = <<>> /\ drawn' = <<>>
      BY <2>1 DEF Start
    <3>2. index' \in [DOMAIN index' -> DOMAIN records'] /\ DOMAIN index' = {}
      BY <3>1
    <3> QED BY <3>1, <3>2 DEF StoreType, Injective
  <2>2. CASE ExitUnread \/ BeginSave \/ EndSave \/ Die
    BY <1>3, <2>2 DEF ExitUnread, BeginSave, EndSave, Die, program
  <2> QED BY <1>8, <2>1, <2>2 DEF Lifecycle
<1>9. CASE UNCHANGED vars
  BY <1>3, <1>9 DEF vars, program
<1> QED BY <1>4, <1>5, <1>6, <1>7, <1>8, <1>9 DEF Next

(* What is saved are markers. *)
LEMMA StoredType ==
  ASSUME NEW s \in Seq(Record)
  PROVE  Stored(s) \in Seq(Marker)
<1>1. DOMAIN s = 1 .. Len(s) /\ Len(s) \in Nat
  BY LenProperties
<1>2. ASSUME NEW i \in 1 .. Len(s) PROVE [tag |-> s[i].tag, name |-> s[i].name] \in Marker
  <2>1. s[i] \in Record
    BY ElementOfSeq
  <2> QED BY <2>1, RecordFields DEF Marker
<1> QED BY <1>1, <1>2 DEF Stored

(* Every step keeps the types of the reader, the file and the counters. *)
LEMMA LifeStep ==
  ASSUME MarkerAssumption, TypeOK, [Next]_vars
  PROVE  LifeType'
<1>1. StoreType /\ LifeType
  BY TypeParts
<1>2. records \in Seq(Record) /\ Len(records) \in Nat
  BY <1>1, LenProperties DEF StoreType
<1>3. CASE ReaderStep
  <2>1. UNCHANGED <<run, file, made, calls, sessions>>
    BY <1>3 DEF ReaderStep, counters
  <2>2. reader' \in Readers /\ fileRead' \in BOOLEAN
    BY <1>1, <1>3 DEF ReaderStep, ReadIcons, ResetIds, ReadFile, AnnounceUpdate,
                     AnnounceInitialized, LifeType, Readers
  <2>3. queue' \in Seq(Signal)
    <3>1. [kind |-> "updated", count |-> 0] \in Signal
      BY DEF Signal
    <3>2. [kind |-> "initialized", count |-> Len(records)] \in Signal
      BY <1>2 DEF Signal
    <3>3. \A x \in Signal : Append(queue, x) \in Seq(Signal)
      BY <1>1 DEF LifeType
    <3>4. \/ queue' = queue
          \/ queue' = Append(queue, [kind |-> "updated", count |-> 0])
          \/ queue' = Append(queue, [kind |-> "initialized", count |-> Len(records)])
      BY <1>3 DEF ReaderStep, ReadIcons, ResetIds, ReadFile, AnnounceUpdate, AnnounceInitialized
    <3> QED BY <1>1, <3>1, <3>2, <3>3, <3>4 DEF LifeType
  <2> QED BY <1>1, <2>1, <2>2, <2>3 DEF LifeType
<1>4. CASE Deliver
  <2>1. queue # <<>> /\ queue' = Tail(queue)
        /\ UNCHANGED <<reader, fileRead, run, file, made, calls, sessions>>
    BY <1>4 DEF Deliver, counters
  <2>2. queue' \in Seq(Signal)
    BY <1>1, <2>1 DEF LifeType
  <2> QED BY <1>1, <2>1, <2>2 DEF LifeType
<1>5. CASE LoadLayer
  BY <1>1, <1>5 DEF LoadLayer, counters, LifeType
<1>6. CASE UserStep
  <2>1. ASSUME NEW d \in Adders, Add(d) PROVE LifeType'
    <3>1. /\ UNCHANGED <<reader, fileRead, queue, run, file, calls, sessions>>
          /\ made < MaxTags /\ made' = made + 1
      BY <2>1 DEF Add
    <3> QED BY <1>1, <3>1 DEF LifeType, MarkerAssumption
  <2>2. CASE Calls
    <3>1. /\ UNCHANGED <<reader, fileRead, queue, run, file, made, sessions>>
          /\ calls' \in {calls, calls + 1}
      BY <2>2 DEF Calls
    <3>2. calls \in Nat
      BY <1>1 DEF LifeType
    <3>3. calls' \in Nat
      BY <3>1, <3>2
    <3> QED BY <1>1, <3>1, <3>3 DEF LifeType
  <2> QED BY <1>6, <2>1, <2>2, UserCalls
<1>7. CASE Lifecycle
  <2>1. CASE Start
    <3>1. /\ UNCHANGED <<file, made, calls>> /\ run' = "up" /\ sessions' = sessions + 1
          /\ reader' = "icons" /\ fileRead' = FALSE /\ queue' = <<>>
      BY <2>1 DEF Start
    <3>2. sessions' \in Nat /\ queue' \in Seq(Signal) /\ reader' \in Readers
      BY <1>1, <3>1 DEF LifeType, Readers
    <3> QED BY <1>1, <3>1, <3>2 DEF LifeType
  <2>2. CASE ExitUnread \/ Die
    <3>1. /\ UNCHANGED <<reader, fileRead, queue, file, made, calls, sessions>>
          /\ run' = "down"
      BY <2>2 DEF ExitUnread, Die, program, counters
    <3> QED BY <1>1, <3>1 DEF LifeType
  <2>3. CASE BeginSave
    <3>1. /\ UNCHANGED <<reader, fileRead, queue, made, calls, sessions>>
          /\ run' = "saving" /\ file' = <<>>
      BY <2>3 DEF BeginSave, program, counters
    <3> QED BY <1>1, <3>1 DEF LifeType
  <2>4. CASE EndSave
    <3>1. Stored(records) \in Seq(Marker)
      BY <1>2, StoredType
    <3>2. /\ UNCHANGED <<reader, fileRead, queue, made, calls, sessions>>
          /\ run' = "down" /\ file' = Stored(records)
      BY <2>4 DEF EndSave, program, counters
    <3> QED BY <1>1, <3>1, <3>2 DEF LifeType
  <2> QED BY <1>7, <2>1, <2>2, <2>3, <2>4 DEF Lifecycle
<1>8. CASE UNCHANGED vars
  BY <1>1, <1>8 DEF vars, program, counters, LifeType
<1> QED BY <1>3, <1>4, <1>5, <1>6, <1>7, <1>8 DEF Next

(* A marker that is found has a tag. *)
LEMMA FoundTag ==
  ASSUME StoreType, NEW id, Has(id)
  PROVE  id \in Nat /\ Tag(id) \in Tags
<1>1. id \in DOMAIN index /\ index[id] \in DOMAIN records /\ records \in Seq(Record)
  BY DEF Has, StoreType
<1>2. records[index[id]] \in Record
  BY <1>1, ElementOfSeq, LenProperties
<1> QED BY <1>1, <1>2, RecordFields DEF StoreType, Tag

(* What the user wants stays a set of markers. *)
LEMMA WantedType ==
  ASSUME wanted \subseteq Marker
  PROVE  /\ \A T : Without(T) \subseteq Marker
         /\ \A t : \A name \in Names : Renamed(t, name) \subseteq Marker
<1>1. \A m \in Marker : \A name \in Names : [m EXCEPT !.name = name] \in Marker
  BY DEF Marker
<1> QED BY <1>1 DEF Without, Renamed

(* The user's calls keep the types of the dialogs and of the history. *)
LEMMA UserTypes ==
  ASSUME MarkerAssumption, StoreType, UserType, lastId' \in Nat, made \in Nat, UserStep
  PROVE  UserType'
<1>1. /\ dialogs \in [Dialogs -> Dialog]
      /\ shown \in [Dialogs -> 0 .. MaxTags] /\ adds \in [Dialogs -> 0 .. MaxTags]
      /\ wanted \subseteq Marker /\ kept \subseteq Tags /\ upsets \subseteq Upsets
  BY DEF UserType
<1>2. MaxTags \in Nat /\ NewName \in Names
      /\ Adders \subseteq Dialogs /\ RowEditors \subseteq Dialogs /\ IconEditors \subseteq Dialogs
  BY DEF MarkerAssumption
<1>3. \A d \in Dialogs : dialogs[d].id \in Nat /\ dialogs[d] \in Dialog
  BY <1>1 DEF Dialog
<1>4. \A open \in BOOLEAN, id \in Nat, adding \in BOOLEAN :
        [open |-> open, id |-> id, adding |-> adding] \in Dialog
  BY DEF Dialog
<1>5. \A d \in Dialogs, open \in BOOLEAN : [dialogs[d] EXCEPT !.open = open] \in Dialog
  BY <1>3 DEF Dialog
<1>6. \A T : Without(T) \subseteq Marker
  BY <1>1, WantedType
<1>7. CASE \E d \in Adders : Add(d)
  <2>1. PICK d \in Adders : Add(d)
    BY <1>7
  <2>2. /\ dialogs' = [dialogs EXCEPT ![d] = [open |-> TRUE, id |-> lastId', adding |-> TRUE]]
        /\ made < MaxTags /\ made' = made + 1
        /\ shown' = [shown EXCEPT ![d] = made'] /\ adds' = [adds EXCEPT ![d] = made']
        /\ wanted' = wanted \union {[tag |-> made', name |-> NewName]}
        /\ upsets' \subseteq upsets \union {"early"} /\ kept' = kept
    BY <2>1 DEF Add
  <2>3. made' \in 0 .. MaxTags /\ made' \in Tags
    BY <1>2, <2>2 DEF Tags
  <2>4. [open |-> TRUE, id |-> lastId', adding |-> TRUE] \in Dialog
    BY <1>4
  <2>5. dialogs' \in [Dialogs -> Dialog]
    BY <1>1, <2>2, <2>4
  <2>6. shown' \in [Dialogs -> 0 .. MaxTags] /\ adds' \in [Dialogs -> 0 .. MaxTags]
    BY <1>1, <2>2, <2>3
  <2>7. wanted' \subseteq Marker
    BY <1>1, <1>2, <2>2, <2>3 DEF Marker
  <2> QED BY <1>1, <2>2, <2>5, <2>6, <2>7 DEF UserType, Upsets
<1>8. ASSUME NEW d \in Dialogs, NEW id, Edit(d, id) PROVE UserType'
  <2>1. UNCHANGED <<wanted, kept, upsets>>
    BY <1>8 DEF Edit
  <2>2. CASE Has(id)
    <3>1. /\ dialogs' = [dialogs EXCEPT ![d] = [open |-> TRUE, id |-> id, adding |-> FALSE]]
          /\ shown' = [shown EXCEPT ![d] = Tag(id)] /\ adds' = [adds EXCEPT ![d] = 0]
      BY <1>8, <2>2 DEF Edit
    <3>2. id \in Nat /\ Tag(id) \in 0 .. MaxTags /\ 0 \in 0 .. MaxTags
      BY <1>2, <2>2, FoundTag DEF Tags
    <3>3. dialogs' \in [Dialogs -> Dialog]
      BY <1>1, <1>4, <3>1, <3>2
    <3>4. shown' \in [Dialogs -> 0 .. MaxTags] /\ adds' \in [Dialogs -> 0 .. MaxTags]
      BY <1>1, <3>1, <3>2
    <3> QED BY <1>1, <2>1, <3>3, <3>4 DEF UserType
  <2>3. CASE ~ Has(id)
    <3>1. dialogs' = [dialogs EXCEPT ![d].open = TRUE] /\ UNCHANGED <<shown, adds>>
      BY <1>8, <2>3 DEF Edit
    <3>2. dialogs' \in [Dialogs -> Dialog]
      BY <1>1, <1>5, <3>1
    <3> QED BY <1>1, <2>1, <3>1, <3>2 DEF UserType
  <2> QED BY <2>2, <2>3
<1>9. ASSUME NEW d \in Dialogs, NEW name \in Names, NEW open \in BOOLEAN, Accept(d, name, open)
      PROVE  UserType'
  <2>1. /\ Applied(d, open) /\ wanted' = Renamed(shown[d], name)
        /\ upsets' \subseteq upsets \union {"shared"} /\ UNCHANGED <<shown, kept>>
    BY <1>9 DEF Accept
  <2>2. adds' \in [Dialogs -> 0 .. MaxTags]
    <3>1. \E E : adds' = [e \in Dialogs |-> IF e \in E THEN 0 ELSE adds[e]]
      BY <1>9 DEF Accept
    <3> QED BY <1>1, <1>2, <3>1
  <2>3. dialogs' \in [Dialogs -> Dialog]
    <3>1. [open |-> open, id |-> dialogs[d].id, adding |-> FALSE] \in Dialog
      BY <1>3, <1>4
    <3>2. dialogs' = [dialogs EXCEPT ![d] = [open |-> open, id |-> dialogs[d].id, adding |-> FALSE]]
      BY <2>1 DEF Applied
    <3> QED BY ONLY <1>1, <3>1, <3>2
  <2>4. wanted' \subseteq Marker
    BY <1>1, <2>1, WantedType
  <2> QED BY <1>1, <2>1, <2>2, <2>3, <2>4 DEF UserType, Upsets
<1>10. ASSUME NEW d \in Dialogs, Cancel(d) \/ Delete(d) PROVE UserType'
  <2>1. /\ dialogs' = [dialogs EXCEPT ![d].open = FALSE] /\ adds' = [adds EXCEPT ![d] = 0]
        /\ (\E T : Removed(T)) /\ UNCHANGED <<shown, upsets>>
    BY <1>10 DEF Cancel, Delete
  <2>2. dialogs' \in [Dialogs -> Dialog]
    BY <1>1, <1>5, <2>1
  <2>3. adds' \in [Dialogs -> 0 .. MaxTags]
    BY <1>1, <1>2, <2>1
  <2>4. wanted' \subseteq Marker /\ kept' \subseteq kept
    BY <1>6, <2>1 DEF Removed
  <2> QED BY <1>1, <2>1, <2>2, <2>3, <2>4 DEF UserType
<1>11. ASSUME NEW i, RemoveSelected(i) PROVE UserType'
  <2>1. /\ \E T : Removed(T)
        /\ upsets' \subseteq upsets \union {"sorted"} /\ UNCHANGED <<dialogs, shown, adds>>
    BY <1>11 DEF RemoveSelected
  <2>2. wanted' \subseteq Marker /\ kept' \subseteq kept
    BY <1>6, <2>1 DEF Removed
  <2> QED BY <1>1, <2>1, <2>2 DEF UserType, Upsets
<1> QED BY <1>2, <1>7, <1>8, <1>9, <1>10, <1>11 DEF UserStep

(* Every step keeps the types of the dialogs and of the history. *)
LEMMA UserTypeStep ==
  ASSUME MarkerAssumption, TypeOK, StoreType', [Next]_vars
  PROVE  UserType'
<1>1. StoreType /\ LifeType /\ UserType
  BY TypeParts
<1>2. ASSUME UNCHANGED <<dialogs, shown, adds, wanted, kept, upsets>> PROVE UserType'
  BY <1>1, <1>2 DEF UserType
<1>3. CASE ReaderStep
  BY <1>2, <1>3 DEF ReaderStep, history, ReadIcons, ResetIds, ReadFile, AnnounceUpdate,
                   AnnounceInitialized
<1>4. CASE Deliver \/ LoadLayer
  BY <1>2, <1>4 DEF Deliver, LoadLayer, history
<1>5. CASE UserStep
  <2>1. lastId' \in Nat /\ made \in Nat
    BY <1>1 DEF StoreType, LifeType
  <2> QED BY <1>1, <1>5, <2>1, UserTypes
<1>6. CASE Start
  <2>1. /\ dialogs' = [d \in Dialogs |-> Closed]
        /\ shown' = [d \in Dialogs |-> 0] /\ adds' = [d \in Dialogs |-> 0]
        /\ wanted' = ToSet(file) /\ UNCHANGED <<kept, upsets>>
    BY <1>6 DEF Start
  <2>2. Closed \in Dialog /\ MaxTags \in Nat
    BY DEF Closed, Dialog, MarkerAssumption
  <2>3. wanted' \subseteq Marker
    BY <1>1, <2>1, LenProperties, ElementOfSeq DEF LifeType, ToSet
  <2> QED BY <1>1, <2>1, <2>2, <2>3 DEF UserType
<1>7. CASE ExitUnread \/ BeginSave
  BY <1>2, <1>7 DEF ExitUnread, BeginSave, program, history
<1>8. CASE EndSave
  <2>1. /\ UNCHANGED <<dialogs, shown, adds, wanted, upsets>>
        /\ kept' = kept \union TagsOf(Stored(records))
    BY <1>8 DEF EndSave, program
  <2>2. TagsOf(Stored(records)) \subseteq Tags
    <3>1. Stored(records) \in Seq(Marker)
      BY <1>1, StoredType DEF StoreType
    <3>2. \A i \in DOMAIN Stored(records) : Stored(records)[i] \in Marker
      BY ONLY <3>1, LenProperties, ElementOfSeq
    <3>3. \A m \in Marker : m.tag \in Tags
      BY DEF Marker
    <3> QED BY ONLY <3>2, <3>3 DEF TagsOf
  <2> QED BY <1>1, <2>1, <2>2 DEF UserType
<1>9. CASE Die
  <2>1. /\ UNCHANGED <<dialogs, shown, adds, wanted, kept>>
        /\ upsets' \subseteq upsets \union {"torn"}
    BY <1>9 DEF Die, program
  <2> QED BY <1>1, <2>1 DEF UserType, Upsets
<1>10. CASE UNCHANGED vars
  BY <1>2, <1>10 DEF vars, program, history
<1> QED BY <1>3, <1>4, <1>5, <1>6, <1>7, <1>8, <1>9, <1>10 DEF Next, Lifecycle

-----------------------------------------------------------------------------
(* Rows and icons follow the records.                                      *)

Updated == [kind |-> "updated", count |-> 0]
Initialized(c) == [kind |-> "initialized", count |-> c]

(* How far the reader and its signals are, and what the rows and the icons *)
(* show by then.                                                           *)
Phase ==
  \/ reader \in {"icons", "reset", "read"} /\ queue = <<>> /\ records = <<>> /\ rows = <<>>
  \/ reader = "announce" /\ queue = <<>> /\ rows = <<>>
  \/ reader = "initialize" /\ queue = <<Updated>> /\ rows = <<>>
  \/ reader = "initialize" /\ queue = <<>> /\ rows = <<>> /\ drawn = Ids(records)
  \/ /\ reader = "done" /\ rows = <<>>
     /\ \E c \in Nat : /\ c = 0 => records = <<>>
                      /\ \/ queue = <<Updated, Initialized(c)>>
                         \/ queue = <<Initialized(c)>> /\ drawn = Ids(records)
  \/ reader = "done" /\ queue = <<>> /\ rows = Ids(records) /\ drawn = Ids(records)

(* If no marker is added before there are rows. *)
Views == "early" \notin upsets => Order /\ Phase

(* What a step of the GUI thread keeps. *)
Followed ==
  /\ UNCHANGED <<reader, queue>>
  /\ rows = <<>> => rows' = <<>>
  /\ rows = Ids(records) => rows' = Ids(records')
  /\ drawn = Ids(records) => drawn' = Ids(records')
  /\ records = <<>> => records' = <<>>

(* Such a step keeps the phase. *)
LEMMA FollowedPhase ==
  ASSUME Phase, Followed
  PROVE  Phase'
<1>1. /\ reader' = reader /\ queue' = queue /\ (rows = <<>> => rows' = <<>>)
      /\ rows = Ids(records) => rows' = Ids(records')
      /\ drawn = Ids(records) => drawn' = Ids(records')
      /\ records = <<>> => records' = <<>>
  BY DEF Followed
<1> QED BY <1>1 DEF Phase

(* Steps that leave the store as it is. *)
LEMMA StoreUnchanged ==
  ASSUME Views, UNCHANGED <<records, index, lastId, rows, drawn, reader, queue>>,
         upsets \subseteq upsets'
  PROVE  Views'
<1>1. Order => Order'
  BY DEF Order
<1>2. Phase => Phase'
  BY FollowedPhase DEF Followed
<1> QED BY <1>1, <1>2 DEF Views

(* The reader's steps. *)
LEMMA ReaderViews ==
  ASSUME TypeOK, Injective, Views, ReaderStep
  PROVE  Views'
<1> SUFFICES ASSUME "early" \notin upsets, Order, Phase
             PROVE  Order' /\ Phase'
  BY DEF Views, ReaderStep, history
<1>1. StoreType /\ file \in Seq(Marker)
  BY TypeParts DEF LifeType
<1>2. records \in Seq(Record) /\ Len(records) \in Nat
  BY <1>1, LenProperties DEF StoreType
<1>3. CASE ReadIcons
  BY <1>3 DEF ReadIcons, Order, Phase
<1>4. CASE ResetIds
  <2>1. records = <<>> /\ queue = <<>> /\ rows = <<>>
    BY <1>4 DEF ResetIds, Phase
  <2>2. DOMAIN index = {}
    BY <2>1 DEF Order, ToSet, Ids
  <2> QED BY <1>4, <2>1, <2>2 DEF ResetIds, Order, Phase
<1>5. CASE ReadFile
  <2>1. records = <<>> /\ queue = <<>> /\ rows = <<>>
    BY <1>5 DEF ReadFile, Phase
  <2>2. Order'
    BY <1>1, <1>5, <2>1, ReadOrder
  <2>3. reader' = "announce" /\ queue' = queue /\ rows' = rows
    BY <1>5 DEF ReadFile
  <2> QED BY <2>1, <2>2, <2>3 DEF Phase
<1>6. CASE AnnounceUpdate
  <2>1. queue = <<>> /\ rows = <<>>
    BY <1>6 DEF AnnounceUpdate, Phase
  <2>2. /\ reader' = "initialize" /\ queue' = Append(queue, Updated)
        /\ UNCHANGED <<records, index, lastId, rows, drawn>>
    BY <1>6 DEF AnnounceUpdate, Updated
  <2>3. queue' = <<Updated>>
    BY <2>1, <2>2
  <2>4. Order'
    BY <2>2 DEF Order
  <2> QED BY <2>1, <2>2, <2>3, <2>4 DEF Phase
<1>7. CASE AnnounceInitialized
  <2> DEFINE c == Len(records)
  <2>1. /\ rows = <<>>
        /\ queue = <<Updated>> \/ (queue = <<>> /\ drawn = Ids(records))
    BY <1>7 DEF AnnounceInitialized, Phase
  <2>2. /\ reader' = "done" /\ queue' = Append(queue, Initialized(c))
        /\ UNCHANGED <<records, index, lastId, rows, drawn>>
    BY <1>7 DEF AnnounceInitialized, Initialized
  <2>3. c \in Nat /\ (c = 0 => records = <<>>)
    BY <1>2
  <2> HIDE DEF c
  <2>4. \/ queue' = <<Updated, Initialized(c)>>
        \/ queue' = <<Initialized(c)>> /\ drawn' = Ids(records')
    <3>1. CASE queue = <<Updated>>
      <4> DEFINE x == Initialized(c)
                 y == Updated
      <4>1. queue' = Append(<<y>>, x)
        BY <2>2, <3>1
      <4> HIDE DEF x, y
      <4>2. queue' = <<y, x>>
        <5>1. \A S : \A a, b \in S : Append(<<a>>, b) = <<a, b>>
          <6> SUFFICES ASSUME NEW S, NEW a \in S, NEW b \in S
                       PROVE  Append(<<a>>, b) = <<a, b>>
            OBVIOUS
          <6>1. <<a>> \in Seq(S) /\ Len(<<a>>) = 1 /\ <<a>>[1] = a
            OBVIOUS
          <6>2. <<a, b>> \in Seq(S) /\ Len(<<a, b>>) = 2 /\ <<a, b>>[1] = a /\ <<a, b>>[2] = b
            OBVIOUS
          <6> DEFINE s == <<a>>
                     t == <<a, b>>
          <6> HIDE DEF s, t
          <6>3. /\ Append(s, b) \in Seq(S) /\ Len(Append(s, b)) = 2
                /\ Append(s, b)[1] = a /\ Append(s, b)[2] = b
            BY <6>1, AppendProperties DEF s
          <6>4. \A i \in 1 .. 2 : i = 1 \/ i = 2
            OBVIOUS
          <6>5. Append(s, b) = t
            BY <6>2, <6>3, <6>4, SeqEqual DEF t
          <6> QED BY <6>5 DEF s, t
        <5>2. x \in {x, y} /\ y \in {x, y}
          OBVIOUS
        <5> QED BY ONLY <4>1, <5>1, <5>2
      <4> QED BY <4>2 DEF x, y
    <3>2. CASE queue = <<>> /\ drawn = Ids(records)
      <4> DEFINE x == Initialized(c)
      <4>1. queue' = Append(<<>>, x)
        BY <2>2, <3>2
      <4> HIDE DEF x
      <4>2. queue' = <<x>>
        BY <4>1
      <4> QED BY <2>2, <3>2, <4>2 DEF x
    <3> QED BY <2>1, <3>1, <3>2
  <2>5. Order'
    BY <2>2 DEF Order
  <2>6. \E n \in Nat : /\ n = 0 => records' = <<>>
                     /\ \/ queue' = <<Updated, Initialized(n)>>
                        \/ queue' = <<Initialized(n)>> /\ drawn' = Ids(records')
    BY <2>2, <2>3, <2>4
  <2>7. reader' = "done" /\ rows' = <<>>
    BY <1>7, <2>1 DEF AnnounceInitialized
  <2> QED BY <2>5, <2>6, <2>7 DEF Phase
<1> QED BY <1>3, <1>4, <1>5, <1>6, <1>7 DEF ReaderStep

(* The signals that are delivered. *)
LEMMA DeliveredViews ==
  ASSUME TypeOK, Views, Deliver
  PROVE  Views'
<1> SUFFICES ASSUME "early" \notin upsets, Order, Phase
             PROVE  Order' /\ Phase'
  BY DEF Views, Deliver, history
<1>1. records \in Seq(Record) /\ Ids(records) \in Seq(Nat)
  BY TypeParts, IdsFacts DEF StoreType
<1>2. /\ UNCHANGED <<records, index, lastId, reader>> /\ queue # <<>> /\ queue' = Tail(queue)
      /\ \/ /\ Head(queue).kind = "updated" /\ drawn' = Ids(records) /\ rows' = rows
         \/ /\ Head(queue).kind = "initialized" /\ drawn' = drawn
            /\ rows' = IF Head(queue).count = 0 THEN rows ELSE rows \o Ids(records)
  BY DEF Deliver, ReloadMarkers, HandleMarkersInitialized
<1>3. Order'
  BY <1>2 DEF Order
<1>4. Updated.kind = "updated" /\ \A c : Initialized(c).kind = "initialized" /\ Initialized(c).count = c
  BY DEF Updated, Initialized
<1>5. CASE reader = "initialize" /\ queue = <<Updated>> /\ rows = <<>>
  <2>1. Head(queue) = Updated /\ queue' = <<>>
    BY <1>2, <1>5
  <2>2. drawn' = Ids(records') /\ rows' = <<>>
    BY <1>2, <1>4, <1>5, <2>1
  <2> QED BY <1>2, <1>3, <1>5, <2>1, <2>2 DEF Phase
<1>6. ASSUME NEW c \in Nat, c = 0 => records = <<>>, reader = "done", rows = <<>>,
             queue = <<Updated, Initialized(c)>>
      PROVE  Phase'
  <2>1. Head(queue) = Updated /\ queue' = <<Initialized(c)>>
    BY <1>2, <1>6
  <2>2. drawn' = Ids(records') /\ rows' = <<>> /\ reader' = "done" /\ records' = records
    BY <1>2, <1>4, <1>6, <2>1
  <2> QED BY <1>6, <2>1, <2>2 DEF Phase
<1>7. ASSUME NEW c \in Nat, c = 0 => records = <<>>, reader = "done", rows = <<>>,
             queue = <<Initialized(c)>>, drawn = Ids(records)
      PROVE  Phase'
  <2>1. Head(queue) = Initialized(c) /\ queue' = <<>>
    BY <1>2, <1>7
  <2>2. drawn' = Ids(records) /\ rows' = IF c = 0 THEN <<>> ELSE <<>> \o Ids(records)
    BY <1>2, <1>4, <1>7, <2>1
  <2>3. rows' = Ids(records)
    <3>1. records = <<>> => Ids(records) = <<>>
      BY DEF Ids
    <3> QED BY <1>1, <1>7, <2>2, <3>1
  <2> QED BY <1>2, <1>7, <2>1, <2>2, <2>3 DEF Phase
<1> QED BY <1>2, <1>3, <1>5, <1>6, <1>7 DEF Phase

(* The user's calls. *)
LEMMA UserViews ==
  ASSUME MarkerAssumption, TypeOK, Injective, Views, UserStep
  PROVE  Views'
<1>1. StoreType /\ LifeType
  BY TypeParts
<1>2. ASSUME NEW d \in Adders, Add(d) PROVE Views'
  <2>1. /\ upsets' = IF reader = "done" /\ queue = <<>> THEN upsets ELSE upsets \union {"early"}
        /\ add_marker(made') /\ made' \in Tags /\ UNCHANGED <<reader, queue>>
    BY <1>1, <1>2 DEF Add, LifeType, Tags, MarkerAssumption
  <2> SUFFICES ASSUME "early" \notin upsets' PROVE Order' /\ Phase'
    BY DEF Views
  <2>2. reader = "done" /\ queue = <<>> /\ Order /\ Phase
    BY <2>1 DEF Views
  <2>3. rows = Ids(records)
    BY <2>2 DEF Phase
  <2>4. Order' /\ rows' = Ids(records') /\ drawn' = Ids(records')
    BY <1>1, <2>1, <2>2, <2>3, AddOrder
  <2> QED BY <2>1, <2>2, <2>4 DEF Phase
<1>3. CASE Calls
  <2>1. UNCHANGED <<reader, queue>> /\ upsets \subseteq upsets'
    BY <1>3 DEF Calls
  <2>2. ASSUME NEW id, NEW name \in Names, set_marker(id, name) PROVE Views'
    <3>1. /\ Ids(records') = Ids(records) /\ UNCHANGED <<index, lastId, rows>>
          /\ drawn' = drawn \/ drawn' = Ids(records')
          /\ records' \in Seq(Record) /\ records \in Seq(Record)
      BY <1>1, <2>2, SetType DEF StoreType
    <3>2. /\ DOMAIN Ids(records) = DOMAIN records /\ DOMAIN Ids(records') = DOMAIN records'
          /\ \A i \in DOMAIN records : Ids(records)[i] = records[i].id
          /\ \A i \in DOMAIN records' : Ids(records')[i] = records'[i].id
      BY DEF Ids
    <3>3. Order => Order'
      BY <3>1, <3>2 DEF Order
    <3>4. records = <<>> => records' = <<>>
      <4>1. DOMAIN records' = DOMAIN records
        BY <3>1, <3>2
      <4> QED BY <3>1, <4>1, LenProperties, EmptySeq
    <3>5. Followed
      BY <2>1, <3>1, <3>4 DEF Followed
    <3> QED BY <2>1, <3>3, <3>5, FollowedPhase DEF Views
  <2>3. ASSUME NEW id, remove_marker(id) PROVE Views'
    <3> SUFFICES ASSUME "early" \notin upsets' PROVE Order' /\ Phase'
      BY DEF Views
    <3>1. Order /\ Phase
      BY <2>1 DEF Views
    <3>2. /\ Order' /\ (rows = <<>> => rows' = <<>>) /\ (records = <<>> => records' = <<>>)
          /\ rows = Ids(records) => rows' = Ids(records')
          /\ drawn' = Ids(records') \/ (drawn' = drawn /\ Ids(records') = Ids(records))
      BY <1>1, <2>3, <3>1, RemoveOrder
    <3>3. Followed
      BY <2>1, <3>2 DEF Followed
    <3> QED BY <3>1, <3>2, <3>3, FollowedPhase
  <2>4. CASE UNCHANGED <<records, index, lastId, rows, drawn>>
    BY <2>1, <2>4, StoreUnchanged
  <2> QED BY <1>3, <2>2, <2>3, <2>4 DEF Calls
<1> QED BY <1>2, <1>3, UserCalls

(* Every step. *)
LEMMA ViewsStep ==
  ASSUME MarkerAssumption, TypeOK, Injective, Views, [Next]_vars
  PROVE  Views'
<1>1. CASE ReaderStep
  BY <1>1, ReaderViews
<1>2. CASE Deliver
  BY <1>2, DeliveredViews
<1>3. CASE LoadLayer
  <2>1. /\ UNCHANGED <<records, index, lastId, reader, queue, rows, upsets>>
        /\ drawn' = Ids(records')
    BY <1>3 DEF LoadLayer, ReloadMarkers, history
  <2>2. Order => Order'
    BY <2>1 DEF Order
  <2>3. Followed
    BY <2>1 DEF Followed
  <2> QED BY <2>1, <2>2, <2>3, FollowedPhase DEF Views
<1>4. CASE UserStep
  BY <1>4, UserViews
<1>5. CASE Start
  <2>1. /\ records' = <<>> /\ index' = <<>> /\ lastId' = 0 /\ reader' = "icons"
        /\ queue' = <<>> /\ rows' = <<>>
    BY <1>5 DEF Start
  <2>2. Order' /\ Phase'
    BY <2>1 DEF Order, Phase, ToSet, Ids
  <2> QED BY <2>2 DEF Views
<1>6. CASE ExitUnread \/ BeginSave \/ EndSave \/ Die
  <2>1. /\ UNCHANGED <<records, index, lastId, rows, drawn, reader, queue>>
        /\ upsets \subseteq upsets'
    BY <1>6 DEF ExitUnread, BeginSave, EndSave, Die, program, history
  <2> QED BY <2>1, StoreUnchanged
<1>7. CASE UNCHANGED vars
  BY <1>7, StoreUnchanged DEF vars, program, history
<1> QED BY <1>1, <1>2, <1>3, <1>4, <1>5, <1>6, <1>7 DEF Next, Lifecycle

(* The rows that the views have been told of.  While MarkersInitialized is *)
(* on its way, the number it carries is that of the records there are and  *)
(* of those removed since.                                                 *)
Tally ==
  /\ reader # "done" => told = 0 /\ gone = 0
  /\ reader = "done" /\ queue # <<>> =>
       told = 0 /\ queue[Len(queue)].count = Len(records) + gone
  /\ reader = "done" /\ queue = <<>> => told = Len(rows) + gone

Tallied == "early" \notin upsets => Tally

(* The signal is on its way when the reader is done and not all is handled. *)
LEMMA WhenCounted ==
  ASSUME Phase
  PROVE  Counted <=> reader = "done" /\ queue # <<>>
<1>1. Updated.kind = "updated" /\ \A c : Initialized(c).kind = "initialized"
  BY DEF Updated, Initialized
<1>2. CASE reader # "done"
  <2>1. queue = <<>> \/ queue = <<Updated>>
    BY <1>2 DEF Phase
  <2>2. CASE queue = <<>>
    BY <1>2, <2>2 DEF Counted
  <2>3. CASE queue = <<Updated>>
    BY <1>1, <1>2, <2>3 DEF Counted
  <2> QED BY <2>1, <2>2, <2>3
<1>3. CASE reader = "done" /\ queue = <<>>
  BY <1>3 DEF Counted
<1>4. CASE reader = "done" /\ queue # <<>>
  <2>1. PICK c \in Nat : queue = <<Updated, Initialized(c)>> \/ queue = <<Initialized(c)>>
    BY <1>4 DEF Phase
  <2>2. CASE queue = <<Updated, Initialized(c)>>
    <3>1. 2 \in DOMAIN queue /\ queue[2] = Initialized(c)
      BY <2>2
    <3> QED BY <1>1, <1>4, <3>1 DEF Counted
  <2>3. CASE queue = <<Initialized(c)>>
    <3>1. 1 \in DOMAIN queue /\ queue[1] = Initialized(c)
      BY <2>3
    <3> QED BY <1>1, <1>4, <3>1 DEF Counted
  <2> QED BY <2>1, <2>2, <2>3
<1> QED BY <1>2, <1>3, <1>4

(* Rows and records that show each other are as many. *)
LEMMA SameLength ==
  ASSUME NEW s \in Seq(Record)
  PROVE  Len(Ids(s)) = Len(s) /\ Len(s) \in Nat
BY LenProperties DEF Ids

(* What a call that adds no marker does to the numbers. *)
LEMMA CallsCount ==
  ASSUME MarkerAssumption, TypeOK, Injective, Order, Phase, Tally, Calls
  PROVE  Tally'
<1>1. StoreType /\ CountType /\ UNCHANGED <<reader, queue>>
  BY TypeParts DEF Calls
<1>2. records \in Seq(Record) /\ rows \in Seq(Nat)
      /\ Len(records) \in Nat /\ Len(rows) \in Nat /\ told \in Int /\ gone \in Nat
  BY <1>1, LenProperties DEF StoreType, CountType
<1>3. ASSUME Len(records') = Len(records), rows' = rows, UNCHANGED <<told, gone>>
      PROVE  Tally'
  BY <1>1, <1>3 DEF Tally
<1>4. ASSUME NEW id, NEW name \in Names, set_marker(id, name) PROVE Tally'
  <2>1. Ids(records') = Ids(records) /\ rows' = rows /\ records' \in Seq(Record)
    BY <1>1, <1>4, SetType DEF StoreType
  <2>2. UNCHANGED <<told, gone>>
    BY <1>4 DEF set_marker, announced
  <2> QED BY <1>2, <1>3, <2>1, <2>2, SameLength
<1>5. ASSUME NEW id, remove_marker(id) PROVE Tally'
  <2>1. CASE ~ Has(id)
    <3>1. UNCHANGED <<records, rows, told, gone>>
      BY <1>5, <2>1 DEF remove_marker, announced
    <3> QED BY <1>3, <3>1
  <2>2. CASE Has(id)
    <3>1. /\ id \in DOMAIN index /\ index[id] \in 1 .. Len(records)
          /\ records' = RemoveAt(records, index[id]) /\ HandleMarkerRemoved(id)
      BY <1>1, <1>5, <2>2, RemoveFacts
    <3>2. Len(records') = Len(records) - 1
      BY <1>2, <3>1, RemoveAtFacts
    <3>3. gone' = gone + IF Counted THEN 1 ELSE 0
      BY <1>5, <2>2 DEF remove_marker
    <3>4. CASE rows = <<>> /\ (reader # "done" \/ queue # <<>>)
      <4>1. rows' = rows /\ told' = told
        BY <3>1, <3>4 DEF HandleMarkerRemoved, ToSet
      <4>2. CASE reader # "done"
        <5>1. gone' = gone
          BY <1>2, <3>3, <4>2, WhenCounted
        <5> QED BY <1>1, <4>1, <4>2, <5>1 DEF Tally
      <4>3. CASE reader = "done"
        <5>1. gone' = gone + 1
          BY <3>3, <3>4, <4>3, WhenCounted
        <5>2. told' = 0 /\ queue[Len(queue)].count = Len(records) + gone
          BY <3>4, <4>1, <4>3 DEF Tally
        <5>3. queue[Len(queue)].count = Len(records') + gone'
          BY <1>2, <3>2, <5>1, <5>2
        <5>4. /\ UNCHANGED <<reader, queue>>
              /\ queue'[Len(queue')].count = Len(records') + gone'
          BY <1>1, <5>3
        <5> QED BY <3>4, <4>3, <5>2, <5>4 DEF Tally
      <4> QED BY <4>2, <4>3
    <3>5. CASE reader = "done" /\ queue = <<>> /\ rows = Ids(records)
      <4>1. id \in ToSet(rows)
        BY <3>1, <3>5 DEF Order
      <4>2. rows' = RemoveAt(rows, RowOf(id)) /\ told' = told - 1
        BY <3>1, <4>1 DEF HandleMarkerRemoved
      <4>3. RowOf(id) \in 1 .. Len(rows)
        BY <1>2, <4>1, RowOfFacts
      <4>4. Len(rows') = Len(rows) - 1
        BY <1>2, <4>2, <4>3, RemoveAtFacts
      <4>5. gone' = gone /\ told = Len(rows) + gone
        BY <1>2, <3>3, <3>5, WhenCounted DEF Tally
      <4>6. told' = Len(rows') + gone'
        BY <1>2, <4>2, <4>4, <4>5
      <4> QED BY <1>1, <3>5, <4>6 DEF Tally
    <3>6. \/ rows = <<>> /\ (reader # "done" \/ queue # <<>>)
          \/ reader = "done" /\ queue = <<>> /\ rows = Ids(records)
      <4>1. \A a, b : <<a>> # <<>> /\ <<a, b>> # <<>>
        OBVIOUS
      <4> QED BY <4>1 DEF Phase
    <3> QED BY <3>4, <3>5, <3>6
  <2> QED BY <2>1, <2>2
<1>6. CASE UNCHANGED <<records, index, lastId, rows, announced, drawn>>
  BY <1>3, <1>6 DEF announced
<1> QED BY <1>4, <1>5, <1>6 DEF Calls

(* Adding a marker. *)
LEMMA AddCount ==
  ASSUME MarkerAssumption, TypeOK, Order, Phase, Tally, NEW d \in Adders, Add(d),
         "early" \notin upsets'
  PROVE  Tally'
<1>1. StoreType /\ LifeType /\ CountType
  BY TypeParts
<1>2. /\ upsets' = IF reader = "done" /\ queue = <<>> THEN upsets
                   ELSE upsets \union {"early"}
      /\ add_marker(made') /\ made' \in Tags /\ UNCHANGED <<reader, queue>>
  BY <1>1 DEF Add, LifeType, Tags, MarkerAssumption
<1>3. reader = "done" /\ queue = <<>> /\ rows = Ids(records) /\ told = Len(rows) + gone
  BY <1>2 DEF Phase, Tally
<1>4. rows' = Ids(records')
  BY <1>1, <1>2, <1>3, AddOrder
<1>5. records \in Seq(Record) /\ records' \in Seq(Record) /\ Len(records) \in Nat
      /\ Len(records') = Len(records) + 1
  <2>1. records \in Seq(Record) /\ Len(records) \in Nat
    BY <1>1, LenProperties DEF StoreType
  <2> DEFINE r == [id |-> lastId + 1, tag |-> made', name |-> NewName]
  <2>2. records' = Append(records, r) /\ r \in Record
    BY <1>1, <1>2 DEF add_marker, Record, StoreType, MarkerAssumption
  <2> HIDE DEF r
  <2> QED BY <2>1, <2>2, AppendProperties
<1>6. told' = told + 1 /\ gone' = gone
  BY <1>2 DEF add_marker, HandleMarkerAdded, InsertBeyond
<1>7. Len(rows) = Len(records) /\ Len(rows') = Len(records')
  BY <1>3, <1>4, <1>5, SameLength
<1>8. told' = Len(rows') + gone'
  BY <1>1, <1>3, <1>5, <1>6, <1>7 DEF CountType
<1> QED BY <1>2, <1>3, <1>8 DEF Tally

(* A signal is handled. *)
LEMMA DeliveredCount ==
  ASSUME TypeOK, Order, Phase, Tally, Deliver
  PROVE  Tally'
<1>1. records \in Seq(Record) /\ Len(records) \in Nat /\ gone \in Nat
      /\ Len(Ids(records)) = Len(records) /\ Ids(records) \in Seq(Nat)
  BY TypeParts, SameLength, IdsFacts DEF StoreType, CountType
<1>2. /\ UNCHANGED <<records, reader, gone>> /\ queue # <<>> /\ queue' = Tail(queue)
      /\ \/ Head(queue).kind = "updated" /\ rows' = rows /\ told' = told
         \/ /\ Head(queue).kind = "initialized"
            /\ rows' = IF Head(queue).count = 0 THEN rows ELSE rows \o Ids(records)
            /\ told' = told + Head(queue).count
  BY DEF Deliver, HandleMarkersInitialized
<1>3. /\ Updated.kind = "updated"
      /\ \A c : Initialized(c).kind = "initialized" /\ Initialized(c).count = c
  BY DEF Updated, Initialized
<1>4. CASE reader # "done"
  <2>1. queue = <<Updated>>
    BY <1>2, <1>4 DEF Phase
  <2>2. told' = told
    BY <1>2, <1>3, <2>1
  <2> QED BY <1>2, <1>4, <2>2 DEF Tally
<1>5. ASSUME NEW c \in Nat, reader = "done", queue = <<Updated, Initialized(c)>>
      PROVE  Tally'
  <2> DEFINE x == Initialized(c)
             y == Updated
  <2>1. queue = <<y, x>> /\ Head(queue) = y /\ queue' = <<x>>
    BY <1>2, <1>5
  <2>2. told' = told
    BY <1>2, <1>3, <2>1
  <2>3. queue[Len(queue)] = x /\ queue'[Len(queue')] = x /\ queue' # <<>>
    <3> HIDE DEF x, y
    <3> QED BY <2>1
  <2> HIDE DEF x, y
  <2> QED BY <1>2, <1>5, <2>2, <2>3 DEF Tally
<1>6. ASSUME NEW c \in Nat, reader = "done", queue = <<Initialized(c)>>, rows = <<>>
      PROVE  Tally'
  <2> DEFINE x == Initialized(c)
  <2>1. Head(queue) = x /\ queue' = <<>> /\ queue[Len(queue)] = x
    <3>1. queue = <<x>>
      BY <1>6
    <3> HIDE DEF x
    <3> QED BY <1>2, <3>1
  <2>2. x.kind = "initialized" /\ x.count = c
    BY <1>3
  <2> HIDE DEF x
  <2>3. told = 0 /\ c = Len(records) + gone
    BY <1>2, <1>6, <2>1, <2>2 DEF Tally
  <2>4. told' = c /\ rows' = IF c = 0 THEN <<>> ELSE <<>> \o Ids(records)
    BY <1>2, <1>6, <2>1, <2>2, <2>3
  <2>5. Len(rows') = Len(records)
    BY <1>1, <2>3, <2>4
  <2> QED BY <1>2, <1>6, <2>1, <2>3, <2>4, <2>5 DEF Tally
<1> QED BY <1>2, <1>4, <1>5, <1>6 DEF Phase

(* The reader's steps. *)
LEMMA ReaderCount ==
  ASSUME TypeOK, Phase, Tally, ReaderStep
  PROVE  Tally'
<1>1. /\ records \in Seq(Record) /\ Len(records) \in Nat
      /\ queue \in Seq(Signal)
  BY TypeParts, LenProperties DEF StoreType, LifeType
<1>2. CASE AnnounceInitialized
  <2> DEFINE x == [kind |-> "initialized", count |-> Len(records)]
  <2>1. /\ reader' = "done" /\ queue' = Append(queue, x) /\ records' = records
        /\ UNCHANGED <<told, gone>> /\ reader # "done"
    BY <1>2 DEF AnnounceInitialized, announced
  <2>2. x \in Signal /\ x.count = Len(records)
    BY <1>1 DEF Signal
  <2> HIDE DEF x
  <2>3. queue' # <<>> /\ queue'[Len(queue')] = x
    BY <1>1, <2>1, <2>2, AppendProperties
  <2> QED BY <1>1, <2>1, <2>2, <2>3 DEF Tally
<1>3. CASE ReadIcons \/ ResetIds \/ ReadFile \/ AnnounceUpdate
  <2>1. UNCHANGED <<told, gone>> /\ reader # "done" /\ reader' # "done"
    BY <1>3 DEF ReadIcons, ResetIds, ReadFile, AnnounceUpdate, announced
  <2> QED BY <2>1 DEF Tally
<1> QED BY <1>2, <1>3 DEF ReaderStep

(* Every step keeps the numbers, and their types. *)
LEMMA CountStep ==
  ASSUME MarkerAssumption, TypeOK, Injective, Views, Tallied, [Next]_vars
  PROVE  CountType' /\ Tallied'
<1>1. StoreType /\ LifeType /\ CountType
  BY TypeParts
<1>2. told \in Int /\ gone \in Nat
  BY <1>1 DEF CountType
<1>3. ASSUME UNCHANGED <<records, rows, reader, queue, told, gone>>,
             upsets \subseteq upsets'
      PROVE  CountType' /\ Tallied'
  BY <1>2, <1>3 DEF CountType, Tallied, Tally
<1>4. CASE ReaderStep
  <2>1. UNCHANGED <<told, gone, upsets>>
    BY <1>4 DEF ReaderStep, ReadIcons, ResetIds, ReadFile, AnnounceUpdate,
                AnnounceInitialized, announced, history
  <2> QED BY <1>2, <1>4, <2>1, ReaderCount DEF Views, Tallied, CountType
<1>5. CASE Deliver
  <2>1. UNCHANGED <<gone, upsets>> /\ queue # <<>>
        /\ (told' = told \/ told' = told + Head(queue).count)
    BY <1>5 DEF Deliver, HandleMarkersInitialized, history
  <2>2. Head(queue) \in Signal
    BY <1>1, <2>1 DEF LifeType
  <2>3. told' \in Int
    BY <1>2, <2>1, <2>2 DEF Signal
  <2> QED BY <1>2, <1>5, <2>1, <2>3, DeliveredCount DEF Views, Tallied, CountType
<1>6. CASE LoadLayer
  BY <1>3, <1>6 DEF LoadLayer, announced, history
<1>7. CASE UserStep
  <2>1. ASSUME NEW d \in Adders, Add(d) PROVE CountType' /\ Tallied'
    <3>1. told' = told + 1 /\ gone' = gone /\ upsets \subseteq upsets'
      BY <2>1 DEF Add, add_marker, HandleMarkerAdded, InsertBeyond
    <3> QED BY <1>2, <2>1, <3>1, AddCount DEF Views, Tallied, CountType
  <2>2. CASE Calls
    <3>1. upsets \subseteq upsets'
      BY <2>2 DEF Calls
    <3>2. ASSUME NEW id, NEW name, set_marker(id, name)
          PROVE  told' = told /\ gone' = gone
      BY <3>2 DEF set_marker, announced
    <3>3. ASSUME NEW id, remove_marker(id)
          PROVE  /\ told' = told \/ told' = told - 1
                 /\ gone' = gone \/ gone' = gone + 1
      <4>1. CASE ~ Has(id)
        BY <3>3, <4>1 DEF remove_marker, announced
      <4>2. CASE Has(id)
        <5>1. HandleMarkerRemoved(id) /\ gone' = gone + IF Counted THEN 1 ELSE 0
          BY <3>3, <4>2 DEF remove_marker
        <5>2. told' = told \/ told' = told - 1
          BY <5>1 DEF HandleMarkerRemoved
        <5>3. gone' = gone \/ gone' = gone + 1
          BY <1>2, <5>1
        <5> QED BY <5>2, <5>3
      <4> QED BY <4>1, <4>2
    <3>4. /\ told' = told \/ told' = told - 1
          /\ gone' = gone \/ gone' = gone + 1
      <4>1. \/ \E id : \E name \in Names : set_marker(id, name)
            \/ \E id : remove_marker(id)
            \/ UNCHANGED <<records, index, lastId, rows, announced, drawn>>
        BY <2>2 DEF Calls
      <4>2. CASE \E id : \E name \in Names : set_marker(id, name)
        BY <3>2, <4>2
      <4>3. CASE \E id : remove_marker(id)
        BY <3>3, <4>3
      <4>4. CASE UNCHANGED <<records, index, lastId, rows, announced, drawn>>
        BY <4>4 DEF announced
      <4> QED BY <4>1, <4>2, <4>3, <4>4
    <3>5. told' \in Int /\ gone' \in Nat
      BY <1>2, <3>4
    <3> QED BY <2>2, <3>1, <3>5, CallsCount DEF Views, Tallied, CountType
  <2> QED BY <1>7, <2>1, <2>2, UserCalls
<1>8. CASE Start
  <2>1. told' = 0 /\ gone' = 0 /\ reader' = "icons"
    BY <1>8 DEF Start
  <2> QED BY <2>1 DEF CountType, Tallied, Tally
<1>9. CASE ExitUnread \/ BeginSave \/ EndSave \/ Die
  BY <1>3, <1>9 DEF ExitUnread, BeginSave, EndSave, Die, program, announced, history
<1>10. CASE UNCHANGED vars
  BY <1>3, <1>10 DEF vars, program, announced, history
<1> QED BY <1>4, <1>5, <1>6, <1>7, <1>8, <1>9, <1>10 DEF Next, Lifecycle

-----------------------------------------------------------------------------

(* At first nothing is read, and the file has its markers. *)
LEMMA InitInv ==
  ASSUME MarkerAssumption, Init
  PROVE  TypeOK /\ Injective /\ Views /\ Tallied
<1>1. /\ records = <<>> /\ index = <<>> /\ lastId = 0 /\ reader = "icons"
      /\ fileRead = FALSE /\ queue = <<>> /\ rows = <<>> /\ drawn = <<>>
      /\ dialogs = [d \in Dialogs |-> Closed] /\ run = "up"
      /\ file = [i \in DOMAIN Saved |-> [tag |-> i, name |-> Saved[i]]]
      /\ made = Len(Saved) /\ calls = 0 /\ sessions = 1
      /\ shown = [d \in Dialogs |-> 0] /\ adds = [d \in Dialogs |-> 0]
      /\ wanted = ToSet(file) /\ kept = TagsOf(file) /\ upsets = {}
      /\ told = 0 /\ gone = 0
  BY DEF Init
<1>2. /\ MaxTags \in Nat /\ Len(Saved) \in Nat /\ Len(Saved) <= MaxTags
      /\ DOMAIN Saved = 1 .. Len(Saved) /\ Saved \in Seq(Names)
  BY LenProperties DEF MarkerAssumption
<1>3. StoreType /\ Injective
  <2>1. index \in [DOMAIN index -> DOMAIN records] /\ DOMAIN index = {}
    BY <1>1
  <2> QED BY <1>1, <2>1 DEF StoreType, Injective
<1>4. \A i \in DOMAIN Saved : [tag |-> i, name |-> Saved[i]] \in Marker
  BY <1>2, ElementOfSeq DEF Marker, Tags
<1>5. file \in Seq(Marker) /\ DOMAIN file = DOMAIN Saved
      /\ \A i \in DOMAIN file : file[i] \in Marker
  BY <1>1, <1>2, <1>4
<1>6. LifeType
  <2>1. made \in 0 .. MaxTags /\ calls \in Nat /\ sessions \in Nat
    BY <1>1, <1>2
  <2>2. reader \in Readers /\ queue \in Seq(Signal)
    BY <1>1 DEF Readers
  <2>3. file \in Seq(Marker)
    BY <1>5
  <2> QED BY <1>1, <2>1, <2>2, <2>3 DEF LifeType
<1>7. wanted \subseteq Marker /\ kept \subseteq Tags
  <2>1. \A m \in Marker : m.tag \in Tags
    BY DEF Marker
  <2> QED BY <1>1, <1>5, <2>1 DEF ToSet, TagsOf
<1>8. UserType
  <2>1. Closed \in Dialog
    BY DEF Closed, Dialog
  <2> QED BY <1>1, <1>2, <1>7, <2>1 DEF UserType
<1>9. Order /\ Phase
  BY <1>1 DEF Order, Phase, ToSet, Ids
<1>10. CountType /\ Tally
  BY <1>1 DEF CountType, Tally
<1> QED BY <1>3, <1>6, <1>8, <1>9, <1>10, TypeParts DEF Views, Tallied

(* The state of the markers has its types, whatever the user does, and     *)
(* whenever the program dies and starts again.                             *)
THEOREM MarkerTypeCorrect == Spec => []TypeOK
<1>1. MarkerAssumption
  BY MarkerAssumption
<1> DEFINE Inv == TypeOK /\ Injective /\ Views /\ Tallied
<1>2. Init => Inv
  BY <1>1, InitInv
<1>3. Inv /\ [Next]_vars => Inv'
  BY <1>1, StoreStep, LifeStep, UserTypeStep, CountStep, TypeParts, ViewsStep
<1>4. Inv => TypeOK
  OBVIOUS
<1> QED BY <1>2, <1>3, <1>4, PTL DEF Spec

(* Ids, positions, rows and icons agree for any markers, dialogs and calls *)
(* of the user: MarkerModel inserts and removes rows at the positions that *)
(* the manager's map gives for them, and what it tells its views differs   *)
(* from its rows by the markers removed while their number was on its way. *)
THEOREM MarkerViewsAgree == Spec => []ViewsAgree
<1>1. MarkerAssumption
  BY MarkerAssumption
<1> DEFINE Inv == TypeOK /\ Injective /\ Views /\ Tallied
<1>2. Init => Inv
  BY <1>1, InitInv
<1>3. Inv /\ [Next]_vars => Inv'
  BY <1>1, StoreStep, LifeStep, UserTypeStep, CountStep, TypeParts, ViewsStep
<1>4. Inv => ViewsAgree
  <2>1. reader = "done" /\ queue = <<>> /\ Phase => rows = Ids(records) /\ drawn = Ids(records)
    BY DEF Phase
  <2> QED BY <2>1 DEF Views, Order, Tallied, Tally, ViewsAgree
<1> QED BY <1>2, <1>3, <1>4, PTL DEF Spec
-----------------------------------------------------------------------------
(* The records as a set.                                                   *)

Held == ToSet(records)

(* The markers of a set of records. *)
Markers(R) == {[tag |-> r.tag, name |-> r.name] : r \in R}

(* Tags and markers of a list are those of its records. *)
LEMMA ListSets ==
  ASSUME NEW s \in Seq(Record)
  PROVE  /\ ToSet(s) \subseteq Record
         /\ ToSet(Stored(s)) = Markers(ToSet(s))
         /\ TagsOf(s) = {r.tag : r \in ToSet(s)}
         /\ TagsOf(Stored(s)) = TagsOf(s)
<1>1. DOMAIN Stored(s) = DOMAIN s
      /\ \A i \in DOMAIN s : Stored(s)[i] = [tag |-> s[i].tag, name |-> s[i].name]
  BY DEF Stored
<1>2. \A i \in DOMAIN s : s[i] \in Record
  BY LenProperties, ElementOfSeq
<1>3. ToSet(Stored(s)) = Markers(ToSet(s))
  BY <1>1 DEF ToSet, Markers
<1>4. TagsOf(s) = {r.tag : r \in ToSet(s)}
  BY DEF ToSet, TagsOf
<1>5. TagsOf(Stored(s)) = TagsOf(s)
  BY <1>1 DEF TagsOf
<1> QED BY <1>2, <1>3, <1>4, <1>5 DEF ToSet

(* In order, an id names one record, and get_marker finds it. *)
LEMMA HeldFacts ==
  ASSUME StoreType, Order
  PROVE  /\ Held \subseteq Record
         /\ \A r, s \in Held : r.id = s.id => r = s
         /\ \A r \in Held : r.id \in Nat \ {0} /\ r.id <= lastId
         /\ \A id : Has(id) => \E r \in Held : r.id = id /\ r.tag = Tag(id)
         /\ \A id : ~ Has(id) => \A r \in Held : r.id # id
<1>1. /\ records \in Seq(Record) /\ index \in [DOMAIN index -> DOMAIN records]
      /\ DOMAIN records = 1 .. Len(records) /\ Len(records) \in Nat
  BY LenProperties DEF StoreType
<1>2. Held \subseteq Record
  BY <1>1, ListSets DEF Held
<1>3. ASSUME NEW r \in Held
      PROVE  \E i \in DOMAIN records : r = records[i] /\ index[r.id] = i /\ r.id \in DOMAIN index
  <2>1. PICK i \in DOMAIN records : r = records[i]
    BY DEF Held, ToSet
  <2>2. index[r.id] = i
    BY <2>1 DEF Order
  <2>3. r.id \in DOMAIN index
    BY <2>1 DEF Order, ToSet, Ids
  <2> QED BY <2>1, <2>2, <2>3
<1>4. ASSUME NEW r \in Held, NEW s \in Held, r.id = s.id PROVE r = s
  BY <1>3, <1>4
<1>5. ASSUME NEW r \in Held PROVE r.id \in Nat \ {0} /\ r.id <= lastId
  <2>1. r.id \in DOMAIN index
    BY <1>3
  <2> QED BY <2>1 DEF Order, StoreType
<1>6. ASSUME NEW id, Has(id) PROVE \E r \in Held : r.id = id /\ r.tag = Tag(id)
  <2>1. id \in DOMAIN index
    BY <1>6 DEF Has
  <2>2. PICK i \in DOMAIN records : records[i].id = id
    BY <2>1 DEF Order, ToSet, Ids
  <2>3. index[id] = i
    BY <2>2 DEF Order
  <2> QED BY <2>2, <2>3 DEF Held, ToSet, Tag
<1>7. ASSUME NEW id, ~ Has(id), NEW r \in Held PROVE r.id # id
  <2>1. SUFFICES ASSUME r.id = id PROVE FALSE
    OBVIOUS
  <2>2. id \in DOMAIN index /\ index[id] \in 1 .. Len(records)
    BY <1>1, <1>3, <2>1
  <2> QED BY <1>1, <1>7, <2>2 DEF Has
<1> QED BY <1>2, <1>4, <1>5, <1>6, <1>7

(* add_marker adds a record with the next id. *)
LEMMA AddHeld ==
  ASSUME MarkerAssumption, StoreType, NEW tag \in Tags, add_marker(tag)
  PROVE  /\ Held' = Held \union {[id |-> lastId + 1, tag |-> tag, name |-> NewName]}
         /\ lastId' = lastId + 1
<1> DEFINE r == [id |-> lastId + 1, tag |-> tag, name |-> NewName]
<1>1. r \in Record
  BY DEF StoreType, MarkerAssumption, Record
<1>2. records' = Append(records, r) /\ lastId' = lastId + 1 /\ records \in Seq(Record)
  BY DEF add_marker, StoreType
<1> HIDE DEF r
<1>3. Held' = Held \union {r}
  BY <1>1, <1>2, AppendToSet DEF Held
<1> QED BY <1>2, <1>3 DEF r

(* set_marker renames the record with the id. *)
LEMMA SetHeld ==
  ASSUME StoreType, Order, NEW id, NEW name \in Names, set_marker(id, name)
  PROVE  Held' = {IF r.id = id THEN [r EXCEPT !.name = name] ELSE r : r \in Held}
<1>1. /\ records \in Seq(Record) /\ index \in [DOMAIN index -> DOMAIN records]
      /\ DOMAIN records = 1 .. Len(records)
  BY LenProperties DEF StoreType
<1>2. CASE ~ Has(id)
  <2>1. records' = records
    BY <1>2 DEF set_marker
  <2>2. \A r \in Held : r.id # id
    BY <1>2, HeldFacts
  <2> QED BY <2>1, <2>2 DEF Held
<1>3. CASE Has(id)
  <2> DEFINE p == index[id]
             New(r) == IF r.id = id THEN [r EXCEPT !.name = name] ELSE r
  <2>1. p \in DOMAIN records /\ records' = [records EXCEPT ![p].name = name]
    BY <1>1, <1>3 DEF Has, set_marker
  <2>2. records[p].id = id
    <3>1. PICK i \in DOMAIN records : records[i].id = id
      BY <1>3 DEF Has, Order, ToSet, Ids
    <3> QED BY <3>1 DEF Order
  <2>3. \A i \in DOMAIN records : records[i].id = id => i = p
    BY DEF Order
  <2> HIDE DEF p
  <2>4. DOMAIN records' = DOMAIN records
        /\ \A i \in DOMAIN records :
             records'[i] = IF i = p THEN [records[i] EXCEPT !.name = name] ELSE records[i]
    BY <2>1
  <2>5. \A i \in DOMAIN records : records'[i] = New(records[i])
    BY <2>2, <2>3, <2>4
  <2> HIDE DEF New
  <2>6. Held' = {New(r) : r \in Held}
    BY <2>4, <2>5 DEF Held, ToSet
  <2> QED BY <2>6 DEF New
<1> QED BY <1>2, <1>3

(* remove_marker takes the record with the id away. *)
LEMMA RemoveHeld ==
  ASSUME StoreType, Order, NEW id, remove_marker(id)
  PROVE  Held' = {r \in Held : r.id # id}
<1>1. /\ records \in Seq(Record) /\ index \in [DOMAIN index -> DOMAIN records]
      /\ DOMAIN records = 1 .. Len(records) /\ Len(records) \in Nat
  BY LenProperties DEF StoreType
<1>2. CASE ~ Has(id)
  <2>1. records' = records
    BY <1>2 DEF remove_marker
  <2>2. \A r \in Held : r.id # id
    BY <1>2, HeldFacts
  <2> QED BY <2>1, <2>2 DEF Held
<1>3. CASE Has(id)
  <2> DEFINE p == index[id]
  <2>1. p \in DOMAIN records /\ records' = RemoveAt(records, p)
    BY <1>1, <1>3 DEF Has, remove_marker
  <2>2. records[p].id = id
    <3>1. PICK i \in DOMAIN records : records[i].id = id
      BY <1>3 DEF Has, Order, ToSet, Ids
    <3> QED BY <3>1 DEF Order
  <2>3. \A i, j \in DOMAIN records : records[i].id = records[j].id => i = j
    BY DEF Order
  <2> HIDE DEF p
  <2>4. Distinct(records)
    BY <2>3 DEF Distinct
  <2>5. Held' = Held \ {records[p]}
    BY <1>1, <2>1, <2>4, RemoveAtDistinct DEF Held
  <2>6. \A r \in Held : r.id = id <=> r = records[p]
    BY <2>1, <2>2, HeldFacts DEF Held, ToSet
  <2> QED BY <2>5, <2>6
<1> QED BY <1>2, <1>3

(* What is read first is the file. *)
LEMMA ReadHeld ==
  ASSUME StoreType, file \in Seq(Marker), records = <<>>, ReadFile
  PROVE  /\ records' \in Seq(Record) /\ Len(records') = Len(file)
         /\ \A i \in 1 .. Len(file) :
              /\ records'[i].id > lastId
              /\ records'[i].tag = file[i].tag /\ records'[i].name = file[i].name
         /\ Markers(Held') = ToSet(file)
<1>1. lastId \in Nat
  BY DEF StoreType
<1>2. records' = <<>> \o Read
  BY DEF ReadFile, Read
<1>3. /\ Read \in Seq(Record) /\ Len(Read) = Len(file) /\ Len(file) \in Nat
      /\ \A i \in 1 .. Len(file) : Read[i].id = lastId + i
  BY <1>1, ReadFacts
<1>4. records' = Read
  BY <1>2, <1>3
<1>5. DOMAIN file = 1 .. Len(file) /\ DOMAIN Read = 1 .. Len(file)
  BY <1>3, LenProperties
<1>6. \A i \in 1 .. Len(file) : Read[i].tag = file[i].tag /\ Read[i].name = file[i].name
  BY <1>5 DEF Read
<1>7. \A i \in 1 .. Len(file) : file[i] = [tag |-> file[i].tag, name |-> file[i].name]
  <2>1. \A m \in Marker : m = [tag |-> m.tag, name |-> m.name]
    BY DEF Marker
  <2> QED BY <2>1, ElementOfSeq
<1>8. Markers(Held') = ToSet(file)
  BY <1>4, <1>5, <1>6, <1>7 DEF Markers, Held, ToSet
<1>9. \A i \in 1 .. Len(file) : Read[i].id > lastId
  BY <1>1, <1>3
<1> QED BY <1>3, <1>4, <1>6, <1>8, <1>9
-----------------------------------------------------------------------------
(* Who has which marker.                                                   *)

Unread == reader \in {"icons", "reset", "read"}

(* A marker is in one record and in one place of the file; no marker is    *)
(* newer than those made.                                                  *)
Tagged ==
  /\ \A r, s \in Held : r.tag = s.tag => r = s
  /\ \A r \in Held : r.tag <= made
  /\ \A i, j \in DOMAIN file : file[i].tag = file[j].tag => i = j
  /\ \A i \in DOMAIN file : file[i].tag <= made
  /\ \A t \in kept : t <= made

(* A dialog's id and the marker it shows mean the same record, if there is *)
(* one; a marker it adds is the one it shows.                              *)
Linked ==
  /\ \A d \in Dialogs : shown[d] <= made /\ dialogs[d].id <= lastId
  /\ \A d \in Dialogs : \A r \in Held : r.id = dialogs[d].id <=> r.tag = shown[d]
  /\ \A d \in Dialogs : adds[d] # 0 => adds[d] = shown[d] /\ dialogs[d].adding

(* Before the file is read there is nothing to open a dialog for.          *)
Untouched ==
  /\ Unread => drawn = <<>> /\ \A d \in Dialogs : /\ dialogs[d] = Closed
                                                /\ shown[d] = 0 /\ adds[d] = 0
  /\ fileRead => ~ Unread
  /\ run = "saving" => ~ Unread

Links == Tagged /\ Linked /\ Untouched

(* The records are the markers the user wants, and a dialog that would     *)
(* remove its marker is one that still adds it.                            *)
Wants ==
  upsets \subseteq {"torn"} =>
    /\ run # "down" /\ ~ Unread => Markers(Held) = wanted
    /\ run = "up" /\ Unread => wanted = ToSet(file)
    /\ \A d \in Dialogs : \A r \in Held :
         dialogs[d].adding /\ r.id = dialogs[d].id => adds[d] = shown[d]

(* What is kept is in the file, and in the records once they are read; it  *)
(* is no marker of a dialog that would remove it.                          *)
Keeps ==
  upsets \subseteq {"shared"} =>
    /\ run # "saving" => kept \subseteq TagsOf(file)
    /\ run # "down" /\ ~ Unread => \A t \in kept : \E r \in Held : r.tag = t
    /\ run # "down" => \A d \in Dialogs : dialogs[d].adding => shown[d] \notin kept

Base == MarkerAssumption /\ StoreType /\ LifeType /\ UserType /\ Order /\ Phase

(* What the types and the order say of records, dialogs and the file. *)
LEMMA BaseFacts ==
  ASSUME Base
  PROVE  /\ Held \subseteq Record
         /\ \A r \in Held : /\ r.id \in Nat \ {0} /\ r.tag \in Nat \ {0} /\ r.name \in Names
                            /\ r = [id |-> r.id, tag |-> r.tag, name |-> r.name]
         /\ \A r, s \in Held : r.id = s.id => r = s
         /\ \A r \in Held : r.id <= lastId
         /\ made \in Nat /\ lastId \in Nat /\ MaxTags \in Nat
         /\ \A d \in Dialogs : dialogs[d].id \in Nat /\ shown[d] \in Nat /\ adds[d] \in Nat
         /\ kept \subseteq Nat \ {0}
         /\ \A i \in DOMAIN file : file[i].tag \in Nat \ {0}
<1>1. StoreType /\ Order /\ LifeType /\ UserType /\ MarkerAssumption
  BY DEF Base
<1>2. /\ Held \subseteq Record
      /\ \A r, s \in Held : r.id = s.id => r = s
      /\ \A r \in Held : r.id \in Nat \ {0} /\ r.id <= lastId
  BY <1>1, HeldFacts
<1>3. MaxTags \in Nat /\ Tags \subseteq Nat \ {0}
  BY <1>1 DEF MarkerAssumption, Tags
<1>4. \A r \in Held : /\ r.tag \in Nat \ {0} /\ r.name \in Names
                      /\ r = [id |-> r.id, tag |-> r.tag, name |-> r.name]
  <2>1. \A r \in Record : /\ r.tag \in Tags /\ r.name \in Names
                          /\ r = [id |-> r.id, tag |-> r.tag, name |-> r.name]
    BY DEF Record
  <2> QED BY <1>2, <1>3, <2>1
<1>5. made \in Nat /\ lastId \in Nat
  BY <1>1, <1>3 DEF LifeType, StoreType
<1>6. \A d \in Dialogs : dialogs[d].id \in Nat /\ shown[d] \in Nat /\ adds[d] \in Nat
  BY <1>1, <1>3 DEF UserType, Dialog
<1>7. kept \subseteq Nat \ {0}
  BY <1>1, <1>3 DEF UserType
<1>8. \A i \in DOMAIN file : file[i].tag \in Nat \ {0}
  <2>1. \A i \in DOMAIN file : file[i] \in Marker
    BY <1>1, LenProperties, ElementOfSeq DEF LifeType
  <2> QED BY <1>3, <2>1 DEF Marker
<1> QED BY <1>2, <1>4, <1>5, <1>6, <1>7, <1>8, <1>3

(* Before the file is read the user can do nothing but add a marker early. *)
LEMMA CallsAreLate ==
  ASSUME Base, Untouched, UserStep, "early" \notin upsets'
  PROVE  ~ Unread /\ UNCHANGED <<reader, run, file>>
<1>1. UNCHANGED <<reader, run, file>>
  BY DEF UserStep, Add, Edit, Accept, Cancel, Delete, RemoveSelected, Stays
<1> SUFFICES ASSUME Unread PROVE FALSE
  BY <1>1
<1>2. rows = <<>> /\ drawn = <<>>
  BY DEF Base, Phase, Unread, Untouched
<1>3. \A d \in Dialogs : ~ dialogs[d].open
  BY DEF Untouched, Closed
<1>4. ASSUME NEW d \in Adders, Add(d) PROVE FALSE
  BY <1>4 DEF Add, Unread
<1>5. ASSUME NEW d \in Dialogs,
             (\E name \in Names, open \in BOOLEAN : Accept(d, name, open)) \/ Cancel(d) \/ Delete(d)
      PROVE  FALSE
  BY <1>3, <1>5 DEF Accept, Cancel, Delete
<1> QED BY <1>2, <1>4, <1>5 DEF UserStep
(* Adding a marker. *)
LEMMA AddLinks ==
  ASSUME Base, Links, Wants, Keeps, NEW d \in Adders, Add(d), "early" \notin upsets', ~ Unread
  PROVE  Links' /\ Wants' /\ Keeps'
<1> DEFINE n == [id |-> lastId + 1, tag |-> made + 1, name |-> NewName]
<1>1. /\ made' = made + 1 /\ add_marker(made') /\ made' \in Tags /\ d \in Dialogs
      /\ dialogs' = [dialogs EXCEPT ![d] = [open |-> TRUE, id |-> lastId', adding |-> TRUE]]
      /\ shown' = [shown EXCEPT ![d] = made'] /\ adds' = [adds EXCEPT ![d] = made']
      /\ wanted' = wanted \union {[tag |-> made', name |-> NewName]}
      /\ upsets' = upsets
      /\ UNCHANGED <<reader, fileRead, run, file, kept>>
  BY DEF Add, Base, MarkerAssumption, LifeType, Tags
<1>2. Held' = Held \union {n} /\ lastId' = lastId + 1
  BY <1>1, AddHeld DEF Base
<1>3. n.id = lastId + 1 /\ n.tag = made + 1 /\ n.name = NewName
  OBVIOUS
<1> HIDE DEF n
<1>4. /\ dialogs \in [Dialogs -> Dialog] /\ shown \in [Dialogs -> 0 .. MaxTags]
      /\ adds \in [Dialogs -> 0 .. MaxTags]
  BY DEF Base, UserType
<1>5. /\ dialogs'[d].id = lastId + 1 /\ dialogs'[d].adding
      /\ shown'[d] = made + 1 /\ adds'[d] = made + 1
      /\ \A e \in Dialogs \ {d} : /\ dialogs'[e] = dialogs[e]
                                  /\ shown'[e] = shown[e] /\ adds'[e] = adds[e]
  BY <1>1, <1>2, <1>4
<1>6. Tagged'
  BY <1>1, <1>2, <1>3, BaseFacts DEF Links, Tagged
<1>7. Linked'
  <2>1. \A r \in Held : r.id <= lastId /\ r.tag <= made /\ r.id \in Nat /\ r.tag \in Nat
    BY BaseFacts DEF Links, Tagged
  <2>2. \A e \in Dialogs : shown'[e] <= made' /\ dialogs'[e].id <= lastId'
    BY <1>1, <1>2, <1>5, BaseFacts DEF Links, Linked
  <2>3. ASSUME NEW e \in Dialogs, NEW r \in Held'
        PROVE  r.id = dialogs'[e].id <=> r.tag = shown'[e]
    <3>1. CASE e = d
      BY <1>2, <1>3, <1>5, <2>1, <2>3, <3>1, BaseFacts
    <3>2. CASE e # d /\ r \in Held
      BY <1>5, <3>2 DEF Links, Linked
    <3>3. CASE e # d /\ r = n
      <4>1. dialogs[e].id <= lastId /\ shown[e] <= made
        BY DEF Links, Linked
      <4> QED BY <1>3, <1>5, <3>3, <4>1, BaseFacts
    <3> QED BY <1>2, <2>3, <3>1, <3>2, <3>3
  <2>4. \A e \in Dialogs : adds'[e] # 0 => adds'[e] = shown'[e] /\ dialogs'[e].adding
    BY <1>5 DEF Links, Linked
  <2> QED BY <2>2, <2>3, <2>4 DEF Linked
<1>8. Untouched'
  BY <1>1 DEF Links, Untouched, Unread
<1>9. Wants'
  <2> SUFFICES ASSUME upsets \subseteq {"torn"}
               PROVE  /\ run # "down" => Markers(Held') = wanted'
                      /\ \A e \in Dialogs : \A r \in Held' :
                           dialogs'[e].adding /\ r.id = dialogs'[e].id => adds'[e] = shown'[e]
    BY <1>1 DEF Wants, Unread
  <2>1. Markers(Held') = Markers(Held) \union {[tag |-> made + 1, name |-> NewName]}
    BY <1>2, <1>3 DEF Markers
  <2>2. ASSUME NEW e \in Dialogs, NEW r \in Held', dialogs'[e].adding, r.id = dialogs'[e].id
        PROVE  adds'[e] = shown'[e]
    <3>1. CASE e = d
      BY <1>5, <3>1
    <3>2. CASE e # d /\ r \in Held
      BY <1>5, <2>2, <3>2 DEF Wants
    <3>3. CASE e # d /\ r = n
      <4>1. dialogs[e].id <= lastId
        BY DEF Links, Linked
      <4> QED BY <1>3, <1>5, <2>2, <3>3, <4>1, BaseFacts
    <3> QED BY <1>2, <2>2, <3>1, <3>2, <3>3
  <2> QED BY <1>1, <2>1, <2>2 DEF Wants
<1>10. Keeps'
  <2>1. made + 1 \notin kept
    BY BaseFacts DEF Links, Tagged
  <2> QED BY <1>1, <1>2, <1>5, <2>1 DEF Keeps, Unread
<1> QED BY <1>6, <1>7, <1>8, <1>9, <1>10 DEF Links

(* Opening a dialog for a marker. *)
LEMMA EditLinks ==
  ASSUME Base, Links, Wants, Keeps, NEW d \in Dialogs, NEW id, Edit(d, id), ~ Unread
  PROVE  Links' /\ Wants' /\ Keeps'
<1>1. /\ UNCHANGED <<records, index, lastId, wanted, kept, upsets, reader, fileRead, run,
                     file, made>>
      /\ Held' = Held
  BY DEF Edit, Stays, Held
<1>2. /\ dialogs \in [Dialogs -> Dialog] /\ shown \in [Dialogs -> 0 .. MaxTags]
      /\ adds \in [Dialogs -> 0 .. MaxTags]
  BY DEF Base, UserType
<1>3. Tagged' /\ Untouched'
  BY <1>1 DEF Links, Tagged, Untouched, Unread
<1>4. \A e \in Dialogs \ {d} : /\ dialogs'[e] = dialogs[e]
                               /\ shown'[e] = shown[e] /\ adds'[e] = adds[e]
  BY <1>2 DEF Edit
<1>5. CASE Has(id)
  <2>1. /\ dialogs'[d].id = id /\ ~ dialogs'[d].adding
        /\ shown'[d] = Tag(id) /\ adds'[d] = 0
    BY <1>2, <1>5 DEF Edit
  <2>2. PICK s \in Held : s.id = id /\ s.tag = Tag(id)
    BY <1>5, HeldFacts DEF Base
  <2>3. Linked'
    <3>1. dialogs'[d].id <= lastId /\ shown'[d] <= made
      BY <2>1, <2>2, BaseFacts DEF Links, Tagged
    <3>2. \A r \in Held : r.id = dialogs'[d].id <=> r.tag = shown'[d]
      BY <2>1, <2>2, BaseFacts DEF Links, Tagged
    <3> QED BY <1>1, <1>4, <2>1, <3>1, <3>2 DEF Links, Linked
  <2>4. Wants'
    BY <1>1, <1>4, <2>1 DEF Wants, Unread
  <2>5. Keeps'
    BY <1>1, <1>4, <2>1 DEF Keeps, Unread
  <2> QED BY <1>3, <2>3, <2>4, <2>5 DEF Links
<1>6. CASE ~ Has(id)
  <2>1. /\ dialogs'[d].id = dialogs[d].id /\ dialogs'[d].adding = dialogs[d].adding
        /\ shown' = shown /\ adds' = adds
    BY <1>2, <1>6 DEF Edit, Dialog
  <2>2. \A e \in Dialogs : dialogs'[e].id = dialogs[e].id /\ dialogs'[e].adding = dialogs[e].adding
    BY <1>4, <2>1
  <2>3. Linked'
    BY <1>1, <2>1, <2>2 DEF Links, Linked
  <2>4. Wants'
    BY <1>1, <2>1, <2>2 DEF Wants, Unread
  <2>5. Keeps'
    BY <1>1, <2>1, <2>2 DEF Keeps, Unread
  <2> QED BY <1>3, <2>3, <2>4, <2>5 DEF Links
<1> QED BY <1>5, <1>6

(* Accepting what a dialog shows. *)
LEMMA AcceptLinks ==
  ASSUME Base, Links, Wants, Keeps, NEW d \in Dialogs, NEW name \in Names, NEW open \in BOOLEAN,
         Accept(d, name, open), ~ Unread
  PROVE  Links' /\ Wants' /\ Keeps'
<1> DEFINE others == {e \in Dialogs \ {d} : adds[e] = shown[d] /\ adds[e] # 0}
           New(r) == IF r.id = dialogs[d].id THEN [r EXCEPT !.name = name] ELSE r
<1>1. /\ set_marker(dialogs[d].id, name) /\ Applied(d, open)
      /\ adds' = [e \in Dialogs |-> IF e \in others \union {d} THEN 0 ELSE adds[e]]
      /\ wanted' = Renamed(shown[d], name)
      /\ upsets' = IF others = {} THEN upsets ELSE upsets \union {"shared"}
      /\ UNCHANGED <<shown, kept, reader, fileRead, run, file, made>>
  BY DEF Accept, Stays
<1>2. lastId' = lastId
  BY <1>1, SetType DEF set_marker
<1>3. Held' = {New(r) : r \in Held}
  BY <1>1, SetHeld DEF Base
<1>4. \A r \in Held : /\ New(r).id = r.id /\ New(r).tag = r.tag
                      /\ New(r).name = IF r.id = dialogs[d].id THEN name ELSE r.name
  <2> SUFFICES ASSUME NEW r \in Held
               PROVE  /\ New(r).id = r.id /\ New(r).tag = r.tag
                      /\ New(r).name = IF r.id = dialogs[d].id THEN name ELSE r.name
    OBVIOUS
  <2>1. r = [id |-> r.id, tag |-> r.tag, name |-> r.name]
    BY BaseFacts
  <2>2. CASE r.id = dialogs[d].id
    <3>1. New(r) = [id |-> r.id, tag |-> r.tag, name |-> name]
      BY <2>1, <2>2
    <3> QED BY <2>2, <3>1
  <2>3. CASE r.id # dialogs[d].id
    BY <2>3
  <2> QED BY <2>2, <2>3
<1> HIDE DEF New
<1>5. /\ dialogs \in [Dialogs -> Dialog] /\ adds \in [Dialogs -> 0 .. MaxTags]
  BY DEF Base, UserType
<1>6. /\ \A e \in Dialogs : dialogs'[e].id = dialogs[e].id
      /\ \A e \in Dialogs \ {d} : dialogs'[e].adding = dialogs[e].adding
      /\ ~ dialogs'[d].adding
  BY <1>1, <1>5 DEF Applied
<1>7. /\ \A e \in Dialogs : adds'[e] = adds[e] \/ adds'[e] = 0
      /\ adds'[d] = 0
      /\ others = {} => \A e \in Dialogs \ {d} : adds'[e] = adds[e]
  BY <1>1
<1> HIDE DEF others
<1>8. Tagged' /\ Untouched'
  BY <1>1, <1>3, <1>4 DEF Links, Tagged, Untouched, Unread
<1>9. Linked'
  <2>1. \A e \in Dialogs : adds'[e] # 0 => adds'[e] = shown'[e] /\ dialogs'[e].adding
    BY <1>1, <1>6, <1>7 DEF Links, Linked
  <2> QED BY <1>1, <1>2, <1>3, <1>4, <1>6, <2>1 DEF Links, Linked
<1>10. Wants'
  <2> SUFFICES ASSUME upsets' \subseteq {"torn"}
               PROVE  /\ run # "down" => Markers(Held') = wanted'
                      /\ \A e \in Dialogs : \A r \in Held' :
                           dialogs'[e].adding /\ r.id = dialogs'[e].id => adds'[e] = shown'[e]
    BY <1>1 DEF Wants, Unread
  <2>1. others = {} /\ upsets \subseteq {"torn"}
    BY <1>1
  <2>2. ASSUME run # "down" PROVE Markers(Held') = wanted'
    <3>1. wanted = Markers(Held)
      BY <2>1, <2>2 DEF Wants
    <3> DEFINE Ren(m) == IF m.tag = shown[d] THEN [m EXCEPT !.name = name] ELSE m
               Mk(r) == [tag |-> r.tag, name |-> r.name]
    <3>2. wanted' = {Ren(m) : m \in wanted}
      BY <1>1 DEF Renamed
    <3>3. \A r \in Held : Ren(Mk(r)) = Mk(New(r))
      BY <1>4 DEF Links, Linked
    <3>4. Markers(Held) = {Mk(r) : r \in Held} /\ Markers(Held') = {Mk(r) : r \in Held'}
      BY DEF Markers
    <3> HIDE DEF Ren, Mk
    <3> QED BY <1>3, <3>1, <3>2, <3>3, <3>4
  <2>3. ASSUME NEW e \in Dialogs, NEW r \in Held', dialogs'[e].adding, r.id = dialogs'[e].id
        PROVE  adds'[e] = shown'[e]
    <3>1. e # d
      BY <1>6, <2>3
    <3>2. PICK s \in Held : r = New(s)
      BY <1>3
    <3>3. s.id = dialogs[e].id /\ dialogs[e].adding
      BY <1>4, <1>6, <2>3, <3>1, <3>2
    <3>4. adds[e] = shown[e]
      BY <2>1, <3>3 DEF Wants
    <3> QED BY <1>1, <1>7, <2>1, <3>1, <3>4
  <2> QED BY <2>2, <2>3
<1>11. Keeps'
  <2>1. upsets \subseteq upsets'
    BY <1>1
  <2> QED BY <1>1, <1>3, <1>4, <1>6, <2>1 DEF Keeps, Unread
<1> QED BY <1>8, <1>9, <1>10, <1>11 DEF Links
(* What the removals have in common: the records and the adding dialogs    *)
(* become fewer.                                                           *)
Fewer(T) ==
  /\ Held' \subseteq Held /\ lastId' = lastId
  /\ \A e \in Dialogs : /\ dialogs'[e].id = dialogs[e].id
                        /\ dialogs'[e].adding = dialogs[e].adding
  /\ \A e \in Dialogs : adds'[e] = adds[e] \/ adds'[e] = 0
  /\ \A e \in Dialogs : \A r \in Held' :
       dialogs[e].adding /\ r.id = dialogs[e].id => adds'[e] = adds[e]
  /\ Removed(T) /\ upsets \subseteq upsets'
  /\ UNCHANGED <<shown, reader, fileRead, run, file, made>>

(* Removals that take away what the user means keep the invariants.        *)
LEMMA FewerLinks ==
  ASSUME Base, Links, Wants, Keeps, ~ Unread, NEW T, Fewer(T),
         upsets' \subseteq {"torn"} => \A r \in Held : r \in Held' <=> r.tag \notin T,
         upsets' \subseteq {"shared"} => \A r \in Held : r.tag \in kept \ T => r \in Held'
  PROVE  Links' /\ Wants' /\ Keeps'
<1>1. /\ wanted' = {m \in wanted : m.tag \notin T} /\ kept' = kept \ T
      /\ Held' \subseteq Held /\ lastId' = lastId
      /\ \A e \in Dialogs : /\ dialogs'[e].id = dialogs[e].id
                            /\ dialogs'[e].adding = dialogs[e].adding
      /\ \A e \in Dialogs : adds'[e] = adds[e] \/ adds'[e] = 0
      /\ \A e \in Dialogs : \A r \in Held' :
           dialogs[e].adding /\ r.id = dialogs[e].id => adds'[e] = adds[e]
      /\ UNCHANGED <<shown, reader, fileRead, run, file, made>>
      /\ upsets \subseteq upsets'
  BY DEF Fewer, Removed, Without
<1>2. Tagged'
  BY <1>1 DEF Links, Tagged
<1>3. Linked'
  BY <1>1 DEF Links, Linked
<1>4. Untouched'
  BY <1>1 DEF Links, Untouched, Unread
<1>5. Wants'
  <2> SUFFICES ASSUME upsets' \subseteq {"torn"}
               PROVE  /\ run # "down" => Markers(Held') = wanted'
                      /\ \A e \in Dialogs : \A r \in Held' :
                           dialogs'[e].adding /\ r.id = dialogs'[e].id => adds'[e] = shown'[e]
    BY <1>1 DEF Wants, Unread
  <2>1. upsets \subseteq {"torn"} /\ \A r \in Held : r \in Held' <=> r.tag \notin T
    BY <1>1
  <2>2. ASSUME run # "down" PROVE Markers(Held') = wanted'
    <3>1. wanted = Markers(Held)
      BY <2>1, <2>2 DEF Wants
    <3> QED BY <1>1, <2>1, <3>1 DEF Markers
  <2>3. \A e \in Dialogs : \A r \in Held' :
          dialogs'[e].adding /\ r.id = dialogs'[e].id => adds'[e] = shown'[e]
    BY <1>1, <2>1 DEF Wants
  <2> QED BY <2>2, <2>3
<1>6. Keeps'
  <2> SUFFICES ASSUME upsets' \subseteq {"shared"}
               PROVE  /\ run # "saving" => kept' \subseteq TagsOf(file)
                      /\ run # "down" => \A t \in kept' : \E r \in Held' : r.tag = t
                      /\ run # "down" => \A e \in Dialogs :
                                           dialogs'[e].adding => shown'[e] \notin kept'
    BY <1>1 DEF Keeps, Unread
  <2>1. upsets \subseteq {"shared"} /\ \A r \in Held : r.tag \in kept \ T => r \in Held'
    BY <1>1
  <2> QED BY <1>1, <2>1 DEF Keeps
<1> QED BY <1>2, <1>3, <1>4, <1>5, <1>6 DEF Links

(* Cancelling a dialog. *)
LEMMA CancelLinks ==
  ASSUME Base, Links, Wants, Keeps, NEW d \in Dialogs, Cancel(d), ~ Unread
  PROVE  Links' /\ Wants' /\ Keeps'
<1>1. /\ IF dialogs[d].adding THEN remove_marker(dialogs[d].id)
         ELSE UNCHANGED <<records, index, lastId, rows, announced, drawn>>
      /\ dialogs' = [dialogs EXCEPT ![d].open = FALSE]
      /\ adds' = [adds EXCEPT ![d] = 0]
      /\ Removed({adds[d]}) /\ upsets' = upsets
      /\ UNCHANGED <<shown, reader, fileRead, run, file, made>>
      /\ run # "down"
  BY DEF Cancel, Stays
<1>2. dialogs \in [Dialogs -> Dialog] /\ adds \in [Dialogs -> 0 .. MaxTags]
  BY DEF Base, UserType
<1>3. /\ \A e \in Dialogs : /\ dialogs'[e].id = dialogs[e].id
                            /\ dialogs'[e].adding = dialogs[e].adding
      /\ adds'[d] = 0 /\ \A e \in Dialogs \ {d} : adds'[e] = adds[e]
  BY <1>1, <1>2
<1>4. \A r \in Held : r.tag # 0
  BY BaseFacts
<1>5. CASE dialogs[d].adding
  <2>1. Held' = {r \in Held : r.id # dialogs[d].id} /\ lastId' = lastId
    BY <1>1, <1>5, RemoveHeld DEF Base, remove_marker
  <2>2. Fewer({adds[d]})
    BY <1>1, <1>3, <2>1 DEF Fewer
  <2>3. ASSUME upsets' \subseteq {"torn"}, NEW r \in Held
        PROVE  r \in Held' <=> r.tag \notin {adds[d]}
    <3>1. r.id = dialogs[d].id => adds[d] = shown[d] /\ r.tag = shown[d]
      BY <1>1, <1>5, <2>3 DEF Wants, Links, Linked
    <3>2. r.tag = adds[d] => r.id = dialogs[d].id
      BY <1>4 DEF Links, Linked
    <3> QED BY <2>1, <3>1, <3>2
  <2>4. ASSUME upsets' \subseteq {"shared"}, NEW r \in Held, r.tag \in kept \ {adds[d]}
        PROVE  r \in Held'
    <3>1. shown[d] \notin kept
      BY <1>1, <1>5, <2>4 DEF Keeps
    <3> QED BY <2>1, <2>4, <3>1 DEF Links, Linked
  <2> QED BY <2>2, <2>3, <2>4, FewerLinks
<1>6. CASE ~ dialogs[d].adding
  <2>1. Held' = Held /\ lastId' = lastId
    BY <1>1, <1>6 DEF Held
  <2>2. adds[d] = 0
    BY <1>6 DEF Links, Linked
  <2>3. Fewer({adds[d]})
    BY <1>1, <1>3, <1>6, <2>1, <2>2 DEF Fewer
  <2>4. \A r \in Held : r \in Held' /\ r.tag \notin {adds[d]}
    BY <1>4, <2>1, <2>2
  <2> QED BY <2>3, <2>4, FewerLinks
<1> QED BY <1>5, <1>6

(* Deleting the marker a dialog shows. *)
LEMMA DeleteLinks ==
  ASSUME Base, Links, Wants, Keeps, NEW d \in Dialogs, Delete(d), ~ Unread
  PROVE  Links' /\ Wants' /\ Keeps'
<1>1. /\ remove_marker(dialogs[d].id)
      /\ dialogs' = [dialogs EXCEPT ![d].open = FALSE]
      /\ adds' = [adds EXCEPT ![d] = 0]
      /\ Removed({shown[d]}) /\ upsets' = upsets
      /\ UNCHANGED <<shown, reader, fileRead, run, file, made>>
  BY DEF Delete, Stays
<1>2. dialogs \in [Dialogs -> Dialog] /\ adds \in [Dialogs -> 0 .. MaxTags]
  BY DEF Base, UserType
<1>3. /\ \A e \in Dialogs : /\ dialogs'[e].id = dialogs[e].id
                            /\ dialogs'[e].adding = dialogs[e].adding
      /\ adds'[d] = 0 /\ \A e \in Dialogs \ {d} : adds'[e] = adds[e]
  BY <1>1, <1>2
<1>4. Held' = {r \in Held : r.id # dialogs[d].id} /\ lastId' = lastId
  BY <1>1, RemoveHeld DEF Base, remove_marker
<1>5. Fewer({shown[d]})
  BY <1>1, <1>3, <1>4 DEF Fewer
<1>6. \A r \in Held : r \in Held' <=> r.tag \notin {shown[d]}
  BY <1>4 DEF Links, Linked
<1> QED BY <1>5, <1>6, FewerLinks

(* Removing a row of the view. *)
LEMMA RowLinks ==
  ASSUME Base, Links, Wants, Keeps, NEW i \in DOMAIN rows, RemoveSelected(i), ~ Unread
  PROVE  Links' /\ Wants' /\ Keeps'
<1> DEFINE T == IF Has(rows[i]) THEN {Tag(rows[i])} ELSE {}
<1>1. /\ remove_marker(rows[ViewRow(i)]) /\ Removed(T)
      /\ upsets' = IF rows[ViewRow(i)] = rows[i] THEN upsets ELSE upsets \union {"sorted"}
      /\ UNCHANGED <<dialogs, shown, adds, reader, fileRead, run, file, made>>
  BY DEF RemoveSelected, Stays
<1>2. Held' = {r \in Held : r.id # rows[ViewRow(i)]} /\ lastId' = lastId
  BY <1>1, RemoveHeld DEF Base, remove_marker
<1>3. Fewer(T)
  BY <1>1, <1>2 DEF Fewer
<1>4. ASSUME "sorted" \notin upsets', NEW r \in Held PROVE r \in Held' <=> r.tag \notin T
  <2>1. Held' = {s \in Held : s.id # rows[i]}
    BY <1>1, <1>2, <1>4
  <2>2. CASE Has(rows[i])
    <3>1. PICK s \in Held : s.id = rows[i] /\ s.tag = Tag(rows[i])
      BY <2>2, HeldFacts DEF Base
    <3>2. r.id = rows[i] <=> r.tag = Tag(rows[i])
      BY <3>1, BaseFacts DEF Links, Tagged
    <3> QED BY <2>1, <2>2, <3>2
  <2>3. CASE ~ Has(rows[i])
    <3>1. r.id # rows[i]
      BY <2>3, HeldFacts DEF Base
    <3> QED BY <2>1, <2>3, <3>1
  <2> QED BY <2>2, <2>3
<1> HIDE DEF T
<1> QED BY <1>3, <1>4, FewerLinks

(* The user's calls. *)
LEMMA UserLinks ==
  ASSUME Base, Links, Wants, Keeps, UserStep, "early" \notin upsets'
  PROVE  Links' /\ Wants' /\ Keeps'
<1>1. ~ Unread
  BY CallsAreLate DEF Links
<1>2. RowEditors \subseteq Dialogs /\ IconEditors \subseteq Dialogs
  BY DEF Base, MarkerAssumption
<1> QED BY <1>1, <1>2, AddLinks, EditLinks, AcceptLinks, CancelLinks, DeleteLinks, RowLinks
        DEF UserStep

(* The reader's steps. *)
LEMMA ReaderLinks ==
  ASSUME Base, Links, Wants, Keeps, ReaderStep
  PROVE  Links' /\ Wants' /\ Keeps'
<1>1. run = "up" /\ UNCHANGED <<run, file, made, shown, adds, wanted, kept, upsets, dialogs>>
  BY DEF ReaderStep, counters, history, ReadIcons, ResetIds, ReadFile, AnnounceUpdate,
         AnnounceInitialized
<1>2. CASE ReadFile
  <2>1. /\ records = <<>> /\ Unread /\ StoreType /\ file \in Seq(Marker)
        /\ drawn' = drawn /\ fileRead' = fileRead /\ reader' = "announce"
    BY <1>2 DEF ReadFile, Base, Phase, Unread, LifeType
  <2>2. /\ records' \in Seq(Record) /\ Len(records') = Len(file)
        /\ \A i \in 1 .. Len(file) :
             /\ records'[i].id > lastId
             /\ records'[i].tag = file[i].tag /\ records'[i].name = file[i].name
        /\ Markers(Held') = ToSet(file)
    BY <1>2, <2>1, ReadHeld
  <2>3. DOMAIN file = 1 .. Len(file) /\ DOMAIN records' = 1 .. Len(file)
    BY <2>1, <2>2, LenProperties
  <2>4. lastId' >= lastId /\ lastId' \in Nat
    <3>1. lastId' = lastId + Len(file) /\ Len(file) \in Nat
      BY <1>2, <2>1, LenProperties DEF ReadFile
    <3> QED BY <3>1, BaseFacts
  <2>5. \A r \in Held' : \E i \in DOMAIN file : r = records'[i] /\ r.tag = file[i].tag /\ r.id > lastId
    BY <2>2, <2>3 DEF Held, ToSet
  <2>6. Tagged'
    <3>1. \A r, s \in Held' : r.tag = s.tag => r = s
      BY <2>5 DEF Links, Tagged
    <3> QED BY <1>1, <2>5, <3>1 DEF Links, Tagged
  <2>7. Linked'
    <3>1. \A d \in Dialogs : dialogs[d].id = 0 /\ shown[d] = 0 /\ adds[d] = 0
      BY <2>1 DEF Links, Untouched, Closed
    <3>2. \A r \in Held' : r.id # 0 /\ r.tag # 0
      BY <2>5, BaseFacts
    <3> QED BY <1>1, <2>4, <3>1, <3>2, BaseFacts DEF Linked
  <2>8. Untouched' /\ ~ Unread'
    BY <1>1, <2>1 DEF Links, Untouched, Unread
  <2>9. \A d \in Dialogs : ~ dialogs[d].adding
    BY <2>1 DEF Links, Untouched, Closed
  <2>10. Wants'
    BY <1>1, <2>1, <2>2, <2>8, <2>9 DEF Wants
  <2>11. Keeps'
    <3>1. \A i \in DOMAIN file : \E r \in Held' : r.tag = file[i].tag
      BY <2>2, <2>3 DEF Held, ToSet
    <3> QED BY <1>1, <2>1, <2>8, <2>9, <3>1 DEF Keeps, TagsOf
  <2> QED BY <2>6, <2>7, <2>8, <2>10, <2>11 DEF Links
<1>3. CASE ResetIds
  <2>1. /\ records = <<>> /\ Unread /\ Unread' /\ lastId' = 0
        /\ UNCHANGED <<records, drawn, fileRead>>
    BY <1>3 DEF ResetIds, Base, Phase, Unread
  <2>2. Held = {} /\ Held' = {}
    BY <2>1 DEF Held, ToSet
  <2>3. Tagged'
    BY <1>1, <2>2 DEF Links, Tagged
  <2>4. Linked'
    <3>1. \A d \in Dialogs : dialogs[d].id = 0 /\ shown[d] = 0 /\ adds[d] = 0
      BY <2>1 DEF Links, Untouched, Closed
    <3> QED BY <1>1, <2>1, <2>2, <3>1, BaseFacts DEF Linked
  <2>5. Untouched' /\ Wants' /\ Keeps'
    BY <1>1, <2>1, <2>2 DEF Links, Untouched, Wants, Keeps
  <2> QED BY <2>3, <2>4, <2>5 DEF Links
<1>4. CASE ReadIcons \/ AnnounceUpdate \/ AnnounceInitialized
  <2>1. /\ Unread' = Unread /\ UNCHANGED <<records, lastId, drawn>> /\ Held' = Held
        /\ fileRead' => fileRead \/ ~ Unread
    BY <1>4 DEF ReadIcons, AnnounceUpdate, AnnounceInitialized, Unread, Held
  <2>2. Tagged' /\ Linked'
    BY <1>1, <2>1 DEF Links, Tagged, Linked
  <2>3. Untouched' /\ Wants' /\ Keeps'
    BY <1>1, <2>1 DEF Links, Untouched, Wants, Keeps
  <2> QED BY <2>2, <2>3 DEF Links
<1> QED BY <1>2, <1>3, <1>4 DEF ReaderStep

(* The program's end and its start. *)
LEMMA LifecycleLinks ==
  ASSUME Base, Links, Wants, Keeps, Lifecycle
  PROVE  Links' /\ Wants' /\ Keeps'
<1>0. records \in Seq(Record)
  BY DEF Base, StoreType
<1>1. CASE ExitUnread \/ BeginSave \/ EndSave \/ Die
  <2>1. /\ UNCHANGED <<records, lastId, reader, fileRead, drawn, dialogs, made, shown, adds, wanted>>
        /\ Held' = Held /\ Unread' = Unread /\ upsets \subseteq upsets'
    BY <1>1 DEF ExitUnread, BeginSave, EndSave, Die, program, counters, history, Held, Unread
  <2>2. Linked'
    BY <2>1 DEF Links, Linked
  <2>3. CASE ExitUnread
    <3>1. run' = "down" /\ run = "up" /\ UNCHANGED <<file, kept, upsets>>
      BY <2>3 DEF ExitUnread, history
    <3>2. Tagged' /\ Untouched' /\ Wants' /\ Keeps'
      BY <2>1, <3>1 DEF Links, Tagged, Untouched, Wants, Keeps
    <3> QED BY <2>2, <3>2 DEF Links
  <2>4. CASE BeginSave
    <3>1. run' = "saving" /\ run = "up" /\ fileRead /\ file' = <<>> /\ UNCHANGED <<kept, upsets>>
      BY <2>4 DEF BeginSave, MaySave, history
    <3>2. Tagged'
      BY <2>1, <3>1 DEF Links, Tagged
    <3>3. Untouched' /\ ~ Unread
      BY <2>1, <3>1 DEF Links, Untouched
    <3>4. Wants'
      BY <2>1, <3>1, <3>3 DEF Wants
    <3>5. Keeps'
      BY <2>1, <3>1, <3>3 DEF Keeps
    <3> QED BY <2>2, <3>2, <3>3, <3>4, <3>5 DEF Links
  <2>5. CASE EndSave
    <3>1. /\ run' = "down" /\ run = "saving" /\ file' = Stored(records)
          /\ kept' = kept \union TagsOf(file') /\ UNCHANGED upsets
      BY <2>5 DEF EndSave
    <3>2. TagsOf(file') = {r.tag : r \in Held}
      BY <1>0, <3>1, ListSets DEF Held
    <3>3. Tagged'
      <4>1. DOMAIN file' = DOMAIN records /\ \A i \in DOMAIN records : file'[i].tag = records[i].tag
        BY <3>1 DEF Stored
      <4>2. \A i \in DOMAIN records : records[i] \in Held
        BY DEF Held, ToSet
      <4>3. ASSUME NEW i \in DOMAIN records, NEW j \in DOMAIN records,
                   records[i].tag = records[j].tag
            PROVE  i = j
        <5>1. records[i] = records[j]
          BY <4>2, <4>3 DEF Links, Tagged
        <5> QED BY <5>1 DEF Base, Order
      <4>4. \A t \in kept' : t <= made
        BY <3>1, <3>2 DEF Links, Tagged
      <4> QED BY <2>1, <4>1, <4>2, <4>3, <4>4 DEF Links, Tagged
    <3>4. Untouched' /\ ~ Unread
      BY <2>1, <3>1 DEF Links, Untouched
    <3>5. Wants'
      BY <2>1, <3>1 DEF Wants
    <3>6. Keeps'
      <4> SUFFICES ASSUME upsets \subseteq {"shared"} PROVE kept' \subseteq TagsOf(file')
        BY <3>1 DEF Keeps
      <4>1. \A t \in kept : \E r \in Held : r.tag = t
        BY <3>1, <3>4 DEF Keeps
      <4> QED BY <3>1, <3>2, <4>1
    <3> QED BY <2>2, <3>3, <3>4, <3>5, <3>6 DEF Links
  <2>6. CASE Die
    <3>1. /\ run' = "down" /\ UNCHANGED <<file, kept>>
          /\ upsets' = IF run = "saving" THEN upsets \union {"torn"} ELSE upsets
      BY <2>6 DEF Die
    <3>2. Tagged' /\ Untouched'
      BY <2>1, <3>1 DEF Links, Tagged, Untouched
    <3>3. Wants'
      BY <2>1, <3>1 DEF Wants
    <3>4. Keeps'
      BY <2>1, <3>1 DEF Keeps
    <3> QED BY <2>2, <3>2, <3>3, <3>4 DEF Links
  <2> QED BY <1>1, <2>3, <2>4, <2>5, <2>6
<1>2. CASE Start
  <2>1. /\ run = "down" /\ run' = "up" /\ records' = <<>> /\ lastId' = 0 /\ reader' = "icons"
        /\ fileRead' = FALSE /\ drawn' = <<>> /\ dialogs' = [d \in Dialogs |-> Closed]
        /\ shown' = [d \in Dialogs |-> 0] /\ adds' = [d \in Dialogs |-> 0]
        /\ wanted' = ToSet(file) /\ UNCHANGED <<file, made, kept, upsets>>
    BY <1>2 DEF Start
  <2>2. Held' = {} /\ Unread'
    BY <2>1 DEF Held, ToSet, Unread
  <2>3. \A d \in Dialogs : /\ dialogs'[d] = Closed /\ dialogs'[d].id = 0 /\ ~ dialogs'[d].adding
                           /\ shown'[d] = 0 /\ adds'[d] = 0
    BY <2>1 DEF Closed
  <2>4. Tagged'
    BY <2>1, <2>2 DEF Links, Tagged
  <2>5. Linked'
    BY <2>1, <2>2, <2>3, BaseFacts DEF Linked
  <2>6. Untouched'
    BY <2>1, <2>3 DEF Untouched
  <2>7. Wants'
    BY <2>1, <2>2, <2>3 DEF Wants
  <2>8. Keeps'
    BY <2>1, <2>2, <2>3 DEF Keeps
  <2> QED BY <2>4, <2>5, <2>6, <2>7, <2>8 DEF Links
<1> QED BY <1>1, <1>2 DEF Lifecycle
(* The invariant of all this: it holds unless a marker was added early. *)
MarkersInv ==
  /\ TypeOK /\ Injective /\ Views /\ Tallied
  /\ "early" \notin upsets => Links
  /\ Wants /\ Keeps

(* At first the file has each marker once, and no dialog is open. *)
LEMMA InitMarkers ==
  ASSUME MarkerAssumption, Init
  PROVE  MarkersInv
<1>1. TypeOK /\ Injective /\ Views /\ Tallied
  BY InitInv
<1>2. /\ records = <<>> /\ lastId = 0 /\ reader = "icons" /\ fileRead = FALSE
      /\ drawn = <<>> /\ dialogs = [d \in Dialogs |-> Closed] /\ run = "up"
      /\ file = [i \in DOMAIN Saved |-> [tag |-> i, name |-> Saved[i]]]
      /\ made = Len(Saved) /\ shown = [d \in Dialogs |-> 0] /\ adds = [d \in Dialogs |-> 0]
      /\ wanted = ToSet(file) /\ kept = TagsOf(file)
  BY DEF Init
<1>3. DOMAIN Saved = 1 .. Len(Saved) /\ Len(Saved) \in Nat
  BY LenProperties DEF MarkerAssumption
<1>4. DOMAIN file = 1 .. Len(Saved) /\ \A i \in DOMAIN file : file[i].tag = i
  BY <1>2, <1>3
<1>5. Held = {} /\ Unread
  BY <1>2 DEF Held, ToSet, Unread
<1>6. \A d \in Dialogs : /\ dialogs[d] = Closed /\ dialogs[d].id = 0 /\ ~ dialogs[d].adding
                         /\ shown[d] = 0 /\ adds[d] = 0
  BY <1>2 DEF Closed
<1>7. Tagged
  BY <1>2, <1>3, <1>4, <1>5 DEF Tagged, TagsOf
<1>8. Linked
  BY <1>2, <1>3, <1>5, <1>6 DEF Linked
<1>9. Untouched
  BY <1>2, <1>6 DEF Untouched
<1>10. Wants
  BY <1>2, <1>5, <1>6 DEF Wants
<1>11. Keeps
  BY <1>2, <1>5, <1>6 DEF Keeps
<1> QED BY <1>1, <1>7, <1>8, <1>9, <1>10, <1>11 DEF MarkersInv, Links

(* Every step keeps it. *)
LEMMA MarkersStep ==
  ASSUME MarkerAssumption, MarkersInv, [Next]_vars
  PROVE  MarkersInv'
<1>1. TypeOK /\ Injective /\ Views /\ Tallied /\ Wants /\ Keeps
  BY DEF MarkersInv
<1>2. TypeOK' /\ Injective' /\ Views' /\ Tallied'
  BY <1>1, StoreStep, LifeStep, UserTypeStep, CountStep, TypeParts, ViewsStep
<1>3. CASE "early" \in upsets'
  BY <1>2, <1>3 DEF MarkersInv, Wants, Keeps
<1>4. CASE "early" \notin upsets'
  <2>1. upsets \subseteq upsets'
    <3>1. CASE UserStep
      BY <3>1, UserCalls DEF Add, Calls
    <3>2. CASE ~ UserStep
      BY <3>2 DEF Next, vars, ReaderStep, Deliver, LoadLayer, Lifecycle, history,
                  ExitUnread, BeginSave, EndSave, Die, Start
    <3> QED BY <3>1, <3>2
  <2>2. Base /\ Links
    BY <1>1, <1>4, <2>1, TypeParts DEF Base, Views, MarkersInv
  <2>3. Links' /\ Wants' /\ Keeps'
    <3>1. CASE ReaderStep
      BY <1>1, <2>2, <3>1, ReaderLinks
    <3>2. CASE UserStep
      BY <1>1, <1>4, <2>2, <3>2, UserLinks
    <3>3. CASE Lifecycle
      BY <1>1, <2>2, <3>3, LifecycleLinks
    <3>4. CASE Deliver \/ LoadLayer \/ UNCHANGED vars
      <4>1. /\ UNCHANGED <<records, lastId, reader, fileRead, dialogs, run, file, made,
                           shown, adds, wanted, kept, upsets>>
            /\ Held' = Held /\ Unread' = Unread
        BY <3>4 DEF Deliver, LoadLayer, vars, program, counters, history, Held, Unread
      <4>2. Unread => drawn' = <<>>
        <5> SUFFICES ASSUME Unread PROVE drawn' = <<>>
          OBVIOUS
        <5>1. queue = <<>> /\ records = <<>> /\ drawn = <<>>
          BY <2>2 DEF Base, Phase, Unread, Links, Untouched
        <5>2. Ids(records) = <<>>
          BY <5>1 DEF Ids
        <5> QED BY <3>4, <5>1, <5>2 DEF Deliver, LoadLayer, ReloadMarkers, vars, program
      <4>3. Tagged' /\ Linked' /\ Untouched'
        BY <2>2, <4>1, <4>2 DEF Links, Tagged, Linked, Untouched
      <4>4. Wants' /\ Keeps'
        BY <1>1, <4>1 DEF Wants, Keeps
      <4> QED BY <4>3, <4>4 DEF Links
    <3> QED BY <3>1, <3>2, <3>3, <3>4 DEF Next
  <2> QED BY <1>2, <2>3 DEF MarkersInv
<1> QED BY <1>3, <1>4

(* For any markers, dialogs, calls and sessions the records are what the   *)
(* user wants, whichever dialogs are left open, applied or cancelled       *)
(* (edit_marker_dialog.cpp:321), but for the exceptions of the property.   *)
THEOREM RecordsStayWanted == Spec => []RecordsAreWanted
<1>1. MarkerAssumption
  BY MarkerAssumption
<1>2. Init => MarkersInv
  BY <1>1, InitMarkers
<1>3. MarkersInv /\ [Next]_vars => MarkersInv'
  BY <1>1, MarkersStep
<1>4. MarkersInv => RecordsAreWanted
  <2> SUFFICES ASSUME MarkersInv, run # "down", fileRead, upsets \subseteq {"torn"}
               PROVE  ToSet(Stored(records)) = wanted
    BY DEF RecordsAreWanted
  <2>1. ~ Unread
    BY DEF MarkersInv, Links, Untouched
  <2>2. Markers(Held) = wanted
    BY <2>1 DEF MarkersInv, Wants
  <2>3. records \in Seq(Record)
    BY DEF MarkersInv, TypeOK
  <2> QED BY <2>2, <2>3, ListSets DEF Held
<1> QED BY <1>2, <1>3, <1>4, PTL DEF Spec

(* A marker that was saved and never removed stays in the file through any *)
(* number of sessions, also those that end before the file is read         *)
(* (marker_manager.cpp:217), but for the exceptions of the property.       *)
THEOREM FileStaysComplete == Spec => []FileKeepsMarkers
<1>1. MarkerAssumption
  BY MarkerAssumption
<1>2. Init => MarkersInv
  BY <1>1, InitMarkers
<1>3. MarkersInv /\ [Next]_vars => MarkersInv'
  BY <1>1, MarkersStep
<1>4. MarkersInv => FileKeepsMarkers
  BY DEF MarkersInv, Keeps, FileKeepsMarkers
<1> QED BY <1>2, <1>3, <1>4, PTL DEF Spec
=============================================================================

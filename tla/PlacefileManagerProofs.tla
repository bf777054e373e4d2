----------------------- MODULE PlacefileManagerProofs -----------------------
(***************************************************************************)
(* Proofs about PlacefileManager for any number of placefiles, records,    *)
(* sites and calls of the user.                                            *)
(***************************************************************************)
EXTENDS PlacefileManager, SequencesExt, SequenceTheorems,
        WellFoundedInduction, TLAPS

-----------------------------------------------------------------------------
(* What is used of lists.                                                  *)

(* Append adds one element. *)
LEMMA AppendToSet ==
  ASSUME NEW S, NEW q \in Seq(S), NEW j \in S
  PROVE  Append(q, j) \in Seq(S) /\ ToSet(Append(q, j)) = ToSet(q) \union {j}
<1>1. /\ Append(q, j) \in Seq(S) /\ Len(Append(q, j)) = Len(q) + 1
      /\ \A i \in 1 .. Len(q) : Append(q, j)[i] = q[i]
      /\ Append(q, j)[Len(q) + 1] = j
  OBVIOUS
<1> DEFINE z == Append(q, j)
<1> HIDE DEF z
<1> QED BY <1>1 DEF ToSet, z

(* A list consists of its head and its tail. *)
LEMMA HeadTailToSet ==
  ASSUME NEW S, NEW q \in Seq(S), q # <<>>
  PROVE  /\ Head(q) \in S /\ Tail(q) \in Seq(S)
         /\ ToSet(q) = {Head(q)} \union ToSet(Tail(q))
<1>1. /\ Len(q) \in Nat \ {0} /\ Head(q) = q[1] /\ Head(q) \in S
      /\ Tail(q) \in Seq(S) /\ Len(Tail(q)) = Len(q) - 1
      /\ \A i \in 1 .. (Len(q) - 1) : Tail(q)[i] = q[i + 1]
  BY EmptySeq, HeadTailProperties
<1> DEFINE z == Tail(q)
<1> HIDE DEF z
<1>2. ToSet(q) \subseteq {Head(q)} \union ToSet(z)
  <2> SUFFICES ASSUME NEW i \in 1 .. Len(q)
               PROVE  q[i] = Head(q) \/ q[i] \in ToSet(z)
    BY LenProperties DEF ToSet
  <2>1. CASE i = 1
    BY <1>1, <2>1
  <2>2. CASE i > 1
    <3>1. i - 1 \in 1 .. (Len(q) - 1)
      BY <1>1, <2>2
    <3>2. q[i] = z[i - 1] /\ i - 1 \in DOMAIN z
      BY <1>1, <3>1 DEF z
    <3> QED BY <3>2 DEF ToSet
  <2> QED BY <2>1, <2>2
<1>3. {Head(q)} \union ToSet(z) \subseteq ToSet(q)
  <2>1. Head(q) \in ToSet(q)
    BY <1>1 DEF ToSet
  <2>2. ASSUME NEW i \in DOMAIN z PROVE z[i] \in ToSet(q)
    <3>1. i \in 1 .. (Len(q) - 1)
      BY <1>1, LenProperties DEF z
    <3>2. i + 1 \in DOMAIN q /\ z[i] = q[i + 1]
      BY <1>1, <3>1 DEF z
    <3> QED BY <3>2 DEF ToSet
  <2> QED BY <2>1, <2>2 DEF ToSet
<1> QED BY <1>1, <1>2, <1>3 DEF z

(* RemoveAt drops one element and keeps the order of the others. *)
LEMMA RemoveAtFacts ==
  ASSUME NEW S, NEW s \in Seq(S), NEW i \in 1 .. Len(s)
  PROVE  /\ RemoveAt(s, i) \in Seq(S)
         /\ Len(RemoveAt(s, i)) = Len(s) - 1
         /\ \A j \in 1 .. (Len(s) - 1) :
              RemoveAt(s, i)[j] = IF j < i THEN s[j] ELSE s[j + 1]
<1> DEFINE a == SubSeq(s, 1, i - 1)
           b == SubSeq(s, i + 1, Len(s))
<1>1. /\ a \in Seq(S) /\ Len(a) = i - 1
      /\ \A j \in 1 .. (i - 1) : a[j] = s[j]
  OBVIOUS
<1>2. /\ b \in Seq(S) /\ Len(b) = Len(s) - i
      /\ \A j \in 1 .. (Len(s) - i) : b[j] = s[j + i]
  OBVIOUS
<1>3. RemoveAt(s, i) = a \o b
  BY DEF RemoveAt
<1> HIDE DEF a, b
<1>4. /\ a \o b \in Seq(S) /\ Len(a \o b) = Len(s) - 1
  <2>1. a \o b \in Seq(S) /\ Len(a \o b) = Len(a) + Len(b)
    BY <1>1, <1>2, ConcatProperties
  <2> QED BY <1>1, <1>2, <2>1
<1>5. \A j \in 1 .. (Len(s) - 1) :
        (a \o b)[j] = IF j < i THEN s[j] ELSE s[j + 1]
  BY <1>1, <1>2, ConcatProperties
<1> QED
  BY <1>3, <1>4, <1>5

(* A set of numbers that is not empty has a least element. *)
LEMMA LeastNumber ==
  ASSUME NEW T \in SUBSET Nat, T # {} PROVE \E x \in T : \A y \in T : ~ (y < x)
<1> DEFINE Less == {ss \in Nat \X Nat : ss[1] < ss[2]}
<1>1. IsWellFoundedOn(Less, Nat)
  BY NatLessThanWellFounded DEF OpToRel
<1> HIDE DEF Less
<1>2. PICK x \in T : \A y \in T : ~ (<<y, x>> \in Less)
  BY <1>1, WFMin
<1>3. ASSUME NEW y \in T, y < x PROVE FALSE
  <2>1. <<y, x>> \in Less
    BY <1>3 DEF Less
  <2> QED BY <1>2, <2>1
<1> QED BY <1>3

(* What occurs in a sequence has a first position. *)
LEMMA FirstPosition ==
  ASSUME NEW S, NEW s \in Seq(S), NEW x, \E i \in DOMAIN s : s[i] = x
  PROVE  \E i \in DOMAIN s : s[i] = x /\ \A j \in 1 .. i - 1 : s[j] # x
<1> DEFINE At == {i \in 1 .. Len(s) : s[i] = x}
<1>1. Len(s) \in Nat /\ DOMAIN s = 1 .. Len(s)
  BY LenProperties
<1>2. At # {} /\ At \in SUBSET Nat
  BY <1>1
<1> HIDE DEF At
<1>3. PICK i \in At : \A j \in At : ~ (j < i)
  BY <1>2, LeastNumber
<1>4. ASSUME NEW j \in 1 .. i - 1 PROVE s[j] # x
  BY <1>1, <1>3 DEF At
<1> QED BY <1>1, <1>3, <1>4 DEF At

-----------------------------------------------------------------------------
(* The inductive invariant.                                                *)

(* A record not made yet has nothing under way, one that was made has a    *)
(* name, and the record being destroyed is no longer in the vector.        *)
NotMadeYet ==
  /\ \A r \in Records : r > made => AtRest(r)
  /\ \A r \in Records : r <= made => name[r] \in Names
  /\ leaving \notin records

(* An update has copied a name.  If the record was renamed since, another  *)
(* update is queued.                                                       *)
RenamedIsQueued ==
  \A r \in Records :
    /\ pc[r] \in {"load", "check", "assign"} => using[r] \in Names
    /\ pc[r] \in {"load", "check",
         "assign"} /\ using[r] # name[r] => posted[r] > 0
    /\ pc[r] = "schedule" /\ file[r] = NoFile => posted[r] > 0

IInv == /\ PlacefileTypeOK /\ RecordsIndexed /\ NotMadeYet /\ RenamedIsQueued
        /\ EnabledIsRetried

(* A row leads to a record that is in the vector. *)
LEMMA CalledRecord ==
  ASSUME PlacefileTypeOK, RecordsIndexed, NEW n \in Names, recordMap[n] # NoRecord
  PROVE  /\ recordMap[n] \in records /\ recordMap[n] \in Records
         /\ recordMap[n] \in 1 .. made /\ name[recordMap[n]] = n
<1>1. recordMap[n] \in records
  BY DEF PlacefileTypeOK, RecordsTyped
<1>2. /\ records \subseteq 1 .. made /\ made \in 0 .. MaxRecords
      /\ MaxRecords \in Nat
  BY PlacefileAssumption DEF PlacefileTypeOK, RecordsTyped
<1>3. recordMap[n] \in 1 .. made
  BY <1>1, <1>2
<1>4. 1 .. made \subseteq Records
  BY <1>2 DEF Records
<1> QED BY <1>1, <1>3, <1>4 DEF RecordsIndexed

(* The record and the entry the reader is at. *)
LEMMA ReaderAt ==
  ASSUME PlacefileTypeOK, reader.entry <= Len(Settings)
  PROVE  /\ Entry.name \in Names /\ Entry.enabled \in BOOLEAN
         /\ Entry.titled \in BOOLEAN
         /\ reader.entry \in 1 .. Len(Settings)
<1>1. reader.entry \in 1 .. Len(Settings)
  BY PlacefileAssumption, LenProperties DEF PlacefileTypeOK, ThreadsTyped
<1>2. Entry \in [name : Names, enabled : BOOLEAN, titled : BOOLEAN]
  BY <1>1, PlacefileAssumption, ElementOfSeq DEF Entry
<1> QED BY <1>1, <1>2

(* Find returns a position of what it finds. *)
LEMMA FirstFound ==
  ASSUME NEW S, NEW s \in Seq(S), NEW x, Found(s, x)
  PROVE  Find(s, x) \in 1 .. Len(s) /\ s[Find(s, x)] = x
<1>1. Len(s) \in Nat /\ DOMAIN s = 1 .. Len(s)
  BY LenProperties
<1>2. \E i \in DOMAIN s : s[i] = x
  BY <1>1 DEF Found, Find
<1>3. \E i \in DOMAIN s : s[i] = x /\ \A j \in 1 .. i - 1 : s[j] # x
  BY <1>2, FirstPosition
<1>4. Find(s, x) \in DOMAIN s /\ s[Find(s, x)] = x
  BY <1>2, <1>3 DEF Find
<1> QED BY <1>1, <1>4

(* Removing the first occurrence keeps the list a list of names. *)
LEMMA WithoutFirstTyped ==
  ASSUME NEW s \in Seq(Names), NEW x PROVE WithoutFirst(s, x) \in Seq(Names)
<1>1. CASE Found(s, x)
  <2>1. Find(s, x) \in 1 .. Len(s)
    BY <1>1, FirstFound
  <2>2. RemoveAt(s, Find(s, x)) \in Seq(Names)
    BY <2>1, RemoveAtFacts
  <2> QED BY <1>1, <2>2 DEF WithoutFirst, RemoveAt
<1>2. CASE ~ Found(s, x)
  BY <1>2 DEF WithoutFirst
<1> QED BY <1>1, <1>2

(* What Enable changes. *)
LEMMA EnableFacts ==
  ASSUME PlacefileTypeOK, RecordsIndexed, NEW n \in Names, Enable(n)
  PROVE  /\ UNCHANGED <<site, made, records, recordMap, name, file, lastSite, pc,
                        using, reader, gui, leaving, queue>>
         /\ \/ posted' = [posted EXCEPT ![recordMap[n]] = @ + 1]
            \/ /\ posted' = posted
               /\ file[recordMap[n]] = NoFile => recordMap[n] \in dropped'
         /\ dropped \subseteq dropped'
         /\ \A q \in Records \ {recordMap[n]} :
              armed'[q] = armed[q] /\ enabled'[q] = enabled[q]
<1>1. recordMap[n] \in Records
  BY CalledRecord DEF Enable, Call
<1>2. /\ UNCHANGED <<site, made, records, recordMap, name, file, lastSite, pc,
                     using, reader, gui, leaving, queue>>
      /\ dropped \subseteq dropped'
  BY DEF Enable, threadVars
<1>3. \/ posted' = [posted EXCEPT ![recordMap[n]] = @ + 1]
      \/ /\ posted' = posted
         /\ file[recordMap[n]] = NoFile => recordMap[n] \in dropped'
  BY DEF Enable, Post
<1>4. ASSUME NEW q \in Records \ {recordMap[n]}
      PROVE  armed'[q] = armed[q] /\ enabled'[q] = enabled[q]
  BY <1>1, <1>4 DEF Enable, PlacefileTypeOK, FlagsTyped
<1> QED BY <1>2, <1>3, <1>4

(* What Rename changes. *)
LEMMA RenameFacts ==
  ASSUME PlacefileTypeOK, NEW n \in Names, NEW new \in Names, Rename(n, new)
  PROVE  /\ UNCHANGED <<site, made, records, lastSite>>
         /\ name' = [name EXCEPT ![recordMap[n]] = new]
         /\ file' = [file EXCEPT ![recordMap[n]] = NoFile]
         /\ \E m \in [Names -> records \cup {NoRecord}] :
              recordMap' = [m EXCEPT ![new] = recordMap[n]]
         /\ posted' = [posted EXCEPT ![recordMap[n]] = @ + 1]
<1>1. /\ UNCHANGED <<site, made, records, lastSite>>
      /\ name' = [name EXCEPT ![recordMap[n]] = new]
      /\ file' = [file EXCEPT ![recordMap[n]] = NoFile]
      /\ recordMap' = [ErasedFromMap(n) EXCEPT ![new] = recordMap[n]]
      /\ posted' = [posted EXCEPT ![recordMap[n]] = @ + 1]
  BY DEF Rename, Post
<1>2. ErasedFromMap(n) \in [Names -> records \cup {NoRecord}]
  BY DEF ErasedFromMap, PlacefileTypeOK, RecordsTyped
<1> QED BY <1>1, <1>2

(* What becomes of an entry of the settings. *)
PassedOver ==
  /\ UNCHANGED <<made, records, recordMap, name, enabled>>
  /\ reader' = [reader EXCEPT !.entry = @ + 1]

Inserted(m) ==
  /\ made < MaxRecords /\ made' = made + 1 /\ made + 1 \in Records
  /\ records' = records \cup {made + 1}
  /\ recordMap' = [recordMap EXCEPT ![m] = made + 1]
  /\ name' = [name EXCEPT ![made + 1] = m]
  /\ enabled' = [enabled EXCEPT ![made + 1] = Entry.enabled]
  /\ reader' = [reader EXCEPT !.at = "tell", !.record = made + 1]

(* ReadEntry passes over the entry or inserts a record. *)
LEMMA ReadFacts ==
  ASSUME PlacefileTypeOK, RecordsIndexed, ReadEntry
  PROVE  /\ UNCHANGED <<site, file, lastSite, armed, posted, pc, using, gui,
                        leaving, queue, dropped>>
         /\ reader.at = "add" /\ reader.entry \in 1 .. Len(Settings)
         /\ Len(Settings) \in Nat /\ Entry.enabled \in BOOLEAN
         /\ PassedOver \/ \E m \in Names : recordMap[m] = NoRecord /\ Inserted(m)
<1>1. /\ Entry.name \in Names /\ reader.entry \in 1 .. Len(Settings)
      /\ Len(Settings) \in Nat /\ Entry.enabled \in BOOLEAN
  BY ReaderAt, PlacefileAssumption, LenProperties DEF ReadEntry
<1>2. /\ UNCHANGED <<site, file, lastSite, armed, posted, pc, using, gui,
                     leaving, queue, dropped>>
      /\ reader.at = "add"
  BY DEF ReadEntry, Insert, threadVars
<1>3. CASE Taken(Entry.name)
  BY <1>1, <1>2, <1>3 DEF ReadEntry, PassedOver
<1>4. CASE ~ Taken(Entry.name)
  <2>1. /\ Insert(made + 1, Entry.name, Entry.enabled)
        /\ reader' = [reader EXCEPT !.at = "tell", !.record = made + 1]
    BY <1>4 DEF ReadEntry
  <2>2. recordMap[Entry.name] = NoRecord
    BY <1>1, <1>4, CalledRecord DEF Taken
  <2>3. made + 1 \in Records
    BY <2>1, PlacefileAssumption DEF Insert, PlacefileTypeOK, RecordsTyped,
         Records
  <2>4. Inserted(Entry.name)
    BY <2>1, <2>3 DEF Insert, Inserted
  <2> QED BY <1>1, <1>2, <2>2, <2>4
<1> QED BY <1>3, <1>4

(* Where the reader is, whatever becomes of its reference. *)
readerPlace == <<reader.at, reader.entry, reader.record>>

(* The reference is left behind only while the reader uses it. *)
LEMMA ReferenceMoves ==
  ASSUME PlacefileTypeOK, VectorMoves
  PROVE  UNCHANGED readerPlace /\ reader'.moved \in BOOLEAN
         /\ reader' \in [at : {"add", "tell", "done"},
                         entry : 1 .. Len(Settings) + 1,
                         record : Records \cup {NoRecord}, moved : BOOLEAN]
<1>1. reader \in [at : {"add", "tell", "done"}, entry : 1 .. Len(Settings) + 1,
                 record : Records \cup {NoRecord}, moved : BOOLEAN]
  BY DEF PlacefileTypeOK, ThreadsTyped
<1>2. reader' = [reader EXCEPT !.moved = (reader.at = "tell")]
  BY DEF VectorMoves
<1>3. reader' \in [at : {"add", "tell", "done"}, entry : 1 .. Len(Settings) + 1,
                  record : Records \cup {NoRecord}, moved : BOOLEAN]
  BY <1>1, <1>2
<1>4. /\ reader'.at = reader.at /\ reader'.entry = reader.entry
      /\ reader'.record = reader.record
  BY <1>1, <1>2
<1> QED BY <1>3, <1>4 DEF readerPlace

(* TellEntry goes on to the next entry.  A record that is enabled has an   *)
(* update queued or is one of dropped.                                     *)
LEMMA TellFacts ==
  ASSUME PlacefileTypeOK, TellEntry
  PROVE  /\ UNCHANGED <<site, made, records, recordMap, name, file, enabled,
                        lastSite, armed, pc, using, gui, leaving>>
         /\ reader.record \in 1 .. made /\ reader.record \in Records
         /\ posted' \in [Records -> Nat]
         /\ \A r \in Records : /\ posted'[r] >= posted[r]
                               /\ r > made => posted'[r] = posted[r]
         /\ dropped' \subseteq Records /\ dropped \subseteq dropped'
         /\ Entry.enabled =>
              posted'[reader.record] > 0 \/ reader.record \in dropped'
         /\ reader' = [reader EXCEPT !.at = "add", !.entry = @ + 1,
                                     !.moved = FALSE]
         /\ reader.entry \in 1 .. Len(Settings) /\ Len(Settings) \in Nat
<1>1. reader.entry \in 1 .. Len(Settings) /\ Len(Settings) \in Nat
  BY ReaderAt, PlacefileAssumption, LenProperties
     DEF TellEntry, PlacefileTypeOK, ThreadsTyped
<1>2. /\ reader.record \in 1 .. made /\ made \in 0 .. MaxRecords
      /\ MaxRecords \in Nat
  BY PlacefileAssumption
     DEF TellEntry, PlacefileTypeOK, RecordsTyped, ThreadsTyped
<1>3. /\ UNCHANGED <<site, made, records, recordMap, name, file, enabled,
                     lastSite, armed, pc, using, gui, leaving>>
      /\ reader' = [reader EXCEPT !.at = "add", !.entry = @ + 1,
                                  !.moved = FALSE]
  BY DEF TellEntry, threadVars, bounds
<1>5. reader.record \in Records
  BY <1>2 DEF Records
<1>6. posted \in [Records -> Nat] /\ records \subseteq 1 .. made
      /\ dropped \subseteq Records
  BY DEF PlacefileTypeOK, RecordsTyped, FlagsTyped
<1>7. CASE UNCHANGED <<posted, dropped>> /\ ~ Entry.enabled
  BY <1>1, <1>2, <1>3, <1>5, <1>6, <1>7
<1>8. ASSUME NEW q \in Referred, PostTo(q),
             dropped' = IF q # reader.record /\ Entry.enabled
                          THEN dropped \cup {reader.record} ELSE dropped
      PROVE  /\ posted' \in [Records -> Nat]
             /\ \A r \in Records : /\ posted'[r] >= posted[r]
                                   /\ r > made => posted'[r] = posted[r]
             /\ dropped' \subseteq Records /\ dropped \subseteq dropped'
             /\ Entry.enabled =>
                  posted'[reader.record] > 0 \/ reader.record \in dropped'
  <2>1. q \in 0 .. made
    BY <1>2, <1>6 DEF Referred, NoRecord
  <2>2. posted' = [r \in Records |-> posted[r] + IF r = q THEN 1 ELSE 0]
    BY <1>8 DEF PostTo
  <2>3. posted' \in [Records -> Nat]
    BY <1>6, <2>2
  <2>4. \A r \in Records : /\ posted'[r] >= posted[r]
                           /\ r > made => posted'[r] = posted[r]
    BY <1>2, <1>6, <2>1, <2>2 DEF Records
  <2>5. Entry.enabled => posted'[reader.record] > 0 \/ reader.record \in dropped'
    BY <1>5, <1>6, <1>8, <2>2
  <2>6. dropped' \subseteq Records /\ dropped \subseteq dropped'
    BY <1>5, <1>6, <1>8
  <2> QED BY <2>3, <2>4, <2>5, <2>6
<1>9. \/ UNCHANGED <<posted, dropped>> /\ ~ Entry.enabled
      \/ \E q \in Referred :
           /\ PostTo(q)
           /\ dropped' = IF q # reader.record /\ Entry.enabled
                          THEN dropped \cup {reader.record} ELSE dropped
  BY DEF TellEntry
<1> QED BY <1>1, <1>2, <1>3, <1>5, <1>7, <1>8, <1>9

(* The records have their types after every step. *)
LEMMA RecordsStep ==
  ASSUME PlacefileTypeOK, RecordsIndexed, [Next]_vars PROVE RecordsTyped'
<1>t. RecordsTyped /\ FlagsTyped /\ ThreadsTyped /\ GuiTyped /\ ModelsTyped
  BY DEF PlacefileTypeOK
<1> USE <1>t, PlacefileAssumption DEF RecordsTyped, Records, NoRecord
<1>1. ASSUME NEW n \in Names, AddUrl(n) PROVE RecordsTyped'
  BY <1>1 DEF AddUrl, Taken, Insert, Post, ShowUpdated, recordVars,
       threadVars, modelVars, bounds, NoFile
<1>2. ASSUME NEW n \in Names, Enable(n) PROVE RecordsTyped'
  <2>1. PICK r \in Records : r = recordMap[n]
    BY <1>2, CalledRecord DEF Enable, Call
  <2>2. /\ UNCHANGED <<site, made, records, recordMap, name, file, lastSite>>
        /\ posted' = [posted EXCEPT ![r] = @ + 1] \/ posted' = posted
    BY <1>2, <2>1, EnableFacts
  <2>3. CASE posted' = [posted EXCEPT ![r] = @ + 1]
    BY <2>2, <2>3
  <2>4. CASE posted' = posted
    BY <2>2, <2>4
  <2> QED BY <2>2, <2>3, <2>4
<1>3. ASSUME NEW n \in Names, Disable(n) PROVE RecordsTyped'
  <2>1. /\ recordMap[n] \in records /\ recordMap[n] \in Records
        /\ recordMap[n] \in 1 .. made /\ name[recordMap[n]] = n
    BY <1>3, CalledRecord DEF Disable, Call
  <2> QED BY <1>3, <2>1 DEF Disable, Call, ShowUpdated, recordVars,
       threadVars, modelVars, bounds, RecordsIndexed, NoFile
<1>4. ASSUME NEW n \in Names, SetThresholded(n) PROVE RecordsTyped'
  BY <1>4 DEF SetThresholded, Call, ShowUpdated, recordVars, threadVars,
       modelVars, bounds
<1>5. ASSUME NEW n \in Names, Refresh(n) PROVE RecordsTyped'
  <2>1. /\ recordMap[n] \in records /\ recordMap[n] \in Records
        /\ recordMap[n] \in 1 .. made /\ name[recordMap[n]] = n
    BY <1>5, CalledRecord DEF Refresh, Call
  <2> QED BY <1>5, <2>1 DEF Refresh, Call, Post, recordVars, threadVars,
       modelVars, bounds, RecordsIndexed, NoFile
<1>6. ASSUME NEW n \in Names, RemoveUrl(n) PROVE RecordsTyped'
  <2>1. /\ recordMap[n] \in records /\ recordMap[n] \in Records
        /\ recordMap[n] \in 1 .. made /\ name[recordMap[n]] = n
    BY <1>6, CalledRecord DEF RemoveUrl, Call
  <2> QED BY <1>6, <2>1 DEF RemoveUrl, Call, ErasedFromMap, recordVars,
       threadVars, modelVars, bounds, RecordsIndexed, NoFile
<1>7. ASSUME NEW n \in Names, NEW new \in Names, Rename(n, new)
      PROVE RecordsTyped'
  <2>1. PICK r \in Records : r = recordMap[n] /\ r \in records
    BY <1>7, CalledRecord DEF Rename, Call
  <2>2. /\ name' = [name EXCEPT ![r] = new]
        /\ file' = [file EXCEPT ![r] = NoFile]
        /\ posted' = [posted EXCEPT ![r] = @ + 1]
        /\ UNCHANGED <<site, made, records, lastSite>>
    BY <1>7, <2>1, RenameFacts
  <2>3. PICK m \in [Names -> records \cup {NoRecord}] :
          recordMap' = [m EXCEPT ![new] = r]
    BY <1>7, <2>1, RenameFacts
  <2>4. recordMap' \in [Names -> records' \cup {NoRecord}]
    BY <2>1, <2>2, <2>3
  <2>5. name' \in [Records -> Names \cup {"none"}]
    BY <2>2
  <2>6. file' \in [Records -> [source : Names \cup {"none"}, refresh : BOOLEAN]]
    BY <2>2 DEF NoFile
  <2>7. posted' \in [Records -> Nat]
    BY <2>2
  <2> QED BY <2>2, <2>4, <2>5, <2>6, <2>7
<1>8. ASSUME NEW s \in Sites, SetRadarSite(s) PROVE RecordsTyped'
  BY <1>8 DEF SetRadarSite, recordVars, threadVars, modelVars, bounds
<1>9. ASSUME Deliver PROVE RecordsTyped'
  BY <1>9 DEF Deliver, ShowUpdated, ShowInitialized, recordVars, threadVars,
       modelVars, bounds
<1>10. ASSUME CancelLeaving PROVE RecordsTyped'
  BY <1>10 DEF CancelLeaving, NoLongerEnabled, recordVars, threadVars,
       modelVars, bounds
<1>11. ASSUME JoinLeaving PROVE RecordsTyped'
  BY <1>11 DEF JoinLeaving, ShowRemoved, recordVars, threadVars, modelVars, bounds
<1>12. ASSUME ReadEntry PROVE RecordsTyped'
  <2>1. UNCHANGED <<site, file, lastSite, posted>>
    BY <1>12, ReadFacts
  <2>2. CASE PassedOver
    BY <2>1, <2>2 DEF PassedOver
  <2>3. ASSUME NEW m \in Names, Inserted(m) PROVE RecordsTyped'
    <3>1. recordMap' \in [Names -> records' \cup {NoRecord}]
      BY <2>3 DEF Inserted
    <3>2. name' \in [Records -> Names \cup {"none"}]
      BY <2>3 DEF Inserted
    <3>3. records' \subseteq 1 .. made' /\ made' \in 0 .. MaxRecords
      BY <2>3 DEF Inserted
    <3> QED BY <2>1, <3>1, <3>2, <3>3
  <2> QED BY <1>12, <2>2, <2>3, ReadFacts
<1>13. ASSUME TellEntry PROVE RecordsTyped'
  BY <1>13, TellFacts
<1>14. ASSUME ReadEnds PROVE RecordsTyped'
  BY <1>14 DEF ReadEnds, recordVars, threadVars, modelVars, bounds
<1>15. ASSUME NEW r \in Records, StartUpdate(r) PROVE RecordsTyped'
  BY <1>15 DEF StartUpdate, Goto, recordVars, threadVars, modelVars, bounds,
       ThreadsTyped
<1>16. ASSUME NEW r \in Records, Load(r) PROVE RecordsTyped'
  BY <1>16 DEF Load, Goto, recordVars, threadVars, modelVars, bounds
<1>17. ASSUME NEW r \in Records, LoadFails(r) PROVE RecordsTyped'
  BY <1>17 DEF LoadFails, Goto, Forget, AfterFailure, recordVars, threadVars,
       modelVars, bounds
<1>18. ASSUME NEW r \in Records, LoadThrows(r) PROVE RecordsTyped'
  BY <1>18 DEF LoadThrows, Goto, Forget, recordVars, threadVars, modelVars, bounds
<1>19. ASSUME NEW r \in Records, Check(r) PROVE RecordsTyped'
  BY <1>19 DEF Check, Goto, recordVars, threadVars, modelVars, bounds
<1>20. ASSUME NEW r \in Records, Assign(r) PROVE RecordsTyped'
  BY <1>20 DEF Assign, Goto, recordVars, threadVars, modelVars, bounds,
       ThreadsTyped
<1>21. ASSUME NEW r \in Records, Schedule(r) PROVE RecordsTyped'
  BY <1>21 DEF Schedule, Goto, Forget, recordVars, threadVars, modelVars, bounds
<1>22. ASSUME NEW r \in Records, Arm(r) PROVE RecordsTyped'
  BY <1>22 DEF Arm, Goto, recordVars, threadVars, modelVars, bounds
<1>23. ASSUME NEW r \in Records, Fire(r) PROVE RecordsTyped'
  BY <1>23 DEF Fire, Post, recordVars, threadVars, modelVars, bounds
<1>24. ASSUME UNCHANGED vars PROVE RecordsTyped'
  BY <1>24 DEF vars, recordVars, threadVars, modelVars, bounds
<1> QED BY <1>1, <1>2, <1>3, <1>4, <1>5, <1>6, <1>7, <1>8, <1>9, <1>10, <1>11,
     <1>12, <1>13, <1>14, <1>15, <1>16, <1>17, <1>18, <1>19, <1>20, <1>21,
     <1>22, <1>23, <1>24
     DEF Next, UserStep, ReaderStep, RecordStep

(* The flags have their types after every step. *)
LEMMA FlagsStep ==
  ASSUME PlacefileTypeOK, RecordsIndexed, [Next]_vars PROVE FlagsTyped'
<1>t. RecordsTyped /\ FlagsTyped /\ ThreadsTyped /\ GuiTyped /\ ModelsTyped
  BY DEF PlacefileTypeOK
<1> USE <1>t, PlacefileAssumption DEF FlagsTyped
<1>1. ASSUME NEW n \in Names, AddUrl(n) PROVE FlagsTyped'
  BY <1>1 DEF AddUrl, Taken, Insert, Post, ShowUpdated, recordVars,
       threadVars, modelVars, bounds
<1>2. ASSUME NEW n \in Names, Enable(n) PROVE FlagsTyped'
  <2>1. PICK r \in Records : r = recordMap[n]
    BY <1>2, CalledRecord DEF Enable, Call
  <2>2. enabled' = [enabled EXCEPT ![r] = TRUE]
    BY <1>2, <2>1 DEF Enable
  <2>3. PICK due : armed' = [armed EXCEPT ![r] = @ \/ due]
    BY <1>2, <2>1 DEF Enable
  <2>4. enabled' \in [Records -> BOOLEAN] /\ armed' \in [Records -> BOOLEAN]
    BY <2>2, <2>3, Zenon
  <2>5. dropped' \subseteq Records
    BY <1>2, <2>1 DEF Enable
  <2> QED BY <2>4, <2>5
<1>3. ASSUME NEW n \in Names, Disable(n) PROVE FlagsTyped'
  <2>1. /\ recordMap[n] \in records /\ recordMap[n] \in Records
        /\ recordMap[n] \in 1 .. made /\ name[recordMap[n]] = n
    BY <1>3, CalledRecord DEF Disable, Call
  <2> QED BY <1>3, <2>1 DEF Disable, Call, ShowUpdated, recordVars,
       threadVars, modelVars, bounds, RecordsTyped
<1>4. ASSUME NEW n \in Names, SetThresholded(n) PROVE FlagsTyped'
  BY <1>4 DEF SetThresholded, Call, ShowUpdated, recordVars, threadVars,
       modelVars, bounds
<1>5. ASSUME NEW n \in Names, Refresh(n) PROVE FlagsTyped'
  <2>1. /\ recordMap[n] \in records /\ recordMap[n] \in Records
        /\ recordMap[n] \in 1 .. made /\ name[recordMap[n]] = n
    BY <1>5, CalledRecord DEF Refresh, Call
  <2> QED BY <1>5, <2>1 DEF Refresh, Call, Post, recordVars, threadVars,
       modelVars, bounds, RecordsTyped
<1>6. ASSUME NEW n \in Names, RemoveUrl(n) PROVE FlagsTyped'
  <2>1. /\ recordMap[n] \in records /\ recordMap[n] \in Records
        /\ recordMap[n] \in 1 .. made /\ name[recordMap[n]] = n
    BY <1>6, CalledRecord DEF RemoveUrl, Call
  <2> QED BY <1>6, <2>1 DEF RemoveUrl, Call, ErasedFromMap, recordVars,
       threadVars, modelVars, bounds, RecordsTyped
<1>7. ASSUME NEW n \in Names, NEW new \in Names, Rename(n, new) PROVE FlagsTyped'
  <2>1. /\ recordMap[n] \in records /\ recordMap[n] \in Records
        /\ recordMap[n] \in 1 .. made /\ name[recordMap[n]] = n
    BY <1>7, CalledRecord DEF Rename, Call
  <2> QED BY <1>7, <2>1 DEF Rename, Call, ErasedFromMap, ShowRenamed, Post,
       recordVars, threadVars, modelVars, bounds, RecordsTyped
<1>8. ASSUME NEW s \in Sites, SetRadarSite(s) PROVE FlagsTyped'
  BY <1>8 DEF SetRadarSite, recordVars, threadVars, modelVars, bounds
<1>9. ASSUME Deliver PROVE FlagsTyped'
  BY <1>9 DEF Deliver, ShowUpdated, ShowInitialized, recordVars, threadVars,
       modelVars, bounds
<1>10. ASSUME CancelLeaving PROVE FlagsTyped'
  BY <1>10 DEF CancelLeaving, NoLongerEnabled, recordVars, threadVars,
       modelVars, bounds
<1>11. ASSUME JoinLeaving PROVE FlagsTyped'
  BY <1>11 DEF JoinLeaving, ShowRemoved, recordVars, threadVars, modelVars, bounds
<1>12. ASSUME ReadEntry PROVE FlagsTyped'
  <2>1. UNCHANGED <<armed, dropped>> /\ Entry.enabled \in BOOLEAN
    BY <1>12, ReadFacts
  <2>2. CASE PassedOver
    BY <2>1, <2>2 DEF PassedOver
  <2>3. ASSUME NEW m \in Names, Inserted(m) PROVE FlagsTyped'
    <3>1. enabled' \in [Records -> BOOLEAN]
      BY <2>1, <2>3, Zenon DEF Inserted
    <3> QED BY <2>1, <3>1
  <2> QED BY <1>12, <2>2, <2>3, ReadFacts
<1>13. ASSUME TellEntry PROVE FlagsTyped'
  BY <1>13, TellFacts
<1>14. ASSUME ReadEnds PROVE FlagsTyped'
  BY <1>14 DEF ReadEnds, recordVars, threadVars, modelVars, bounds
<1>15. ASSUME NEW r \in Records, StartUpdate(r) PROVE FlagsTyped'
  BY <1>15 DEF StartUpdate, Goto, recordVars, threadVars, modelVars, bounds
<1>16. ASSUME NEW r \in Records, Load(r) PROVE FlagsTyped'
  BY <1>16 DEF Load, Goto, recordVars, threadVars, modelVars, bounds
<1>17. ASSUME NEW r \in Records, LoadFails(r) PROVE FlagsTyped'
  BY <1>17 DEF LoadFails, Goto, Forget, AfterFailure, recordVars, threadVars,
       modelVars, bounds
<1>18. ASSUME NEW r \in Records, LoadThrows(r) PROVE FlagsTyped'
  BY <1>18 DEF LoadThrows, Goto, Forget, recordVars, threadVars, modelVars, bounds
<1>19. ASSUME NEW r \in Records, Check(r) PROVE FlagsTyped'
  BY <1>19 DEF Check, Goto, recordVars, threadVars, modelVars, bounds
<1>20. ASSUME NEW r \in Records, Assign(r) PROVE FlagsTyped'
  BY <1>20 DEF Assign, Goto, recordVars, threadVars, modelVars, bounds
<1>21. ASSUME NEW r \in Records, Schedule(r) PROVE FlagsTyped'
  BY <1>21 DEF Schedule, Goto, Forget, recordVars, threadVars, modelVars, bounds
<1>22. ASSUME NEW r \in Records, Arm(r) PROVE FlagsTyped'
  BY <1>22 DEF Arm, Goto, recordVars, threadVars, modelVars, bounds
<1>23. ASSUME NEW r \in Records, Fire(r) PROVE FlagsTyped'
  BY <1>23 DEF Fire, Post, recordVars, threadVars, modelVars, bounds
<1>24. ASSUME UNCHANGED vars PROVE FlagsTyped'
  BY <1>24 DEF vars, recordVars, threadVars, modelVars, bounds
<1> QED BY <1>1, <1>2, <1>3, <1>4, <1>5, <1>6, <1>7, <1>8, <1>9, <1>10, <1>11,
     <1>12, <1>13, <1>14, <1>15, <1>16, <1>17, <1>18, <1>19, <1>20, <1>21,
     <1>22, <1>23, <1>24
     DEF Next, UserStep, ReaderStep, RecordStep

(* The threads of the records and the reader are where their code is. *)
LEMMA ThreadsStep ==
  ASSUME PlacefileTypeOK, RecordsIndexed, [Next]_vars PROVE ThreadsTyped'
<1>t. RecordsTyped /\ FlagsTyped /\ ThreadsTyped /\ GuiTyped /\ ModelsTyped
  BY DEF PlacefileTypeOK
<1> USE <1>t, PlacefileAssumption DEF ThreadsTyped, RecordsTyped, Records,
     NoRecord
<1>1. ASSUME NEW n \in Names, AddUrl(n) PROVE ThreadsTyped'
  <2>1. UNCHANGED threadVars /\ VectorMoves /\ made' \in Nat /\ made' >= made
    BY <1>1 DEF AddUrl, Insert
  <2> QED BY <2>1, ReferenceMoves DEF threadVars, readerPlace
<1>2. ASSUME NEW n \in Names, Enable(n) PROVE ThreadsTyped'
  BY <1>2 DEF Enable, Call, ShowUpdated, Post, recordVars, threadVars,
       modelVars, bounds
<1>3. ASSUME NEW n \in Names, Disable(n) PROVE ThreadsTyped'
  BY <1>3 DEF Disable, Call, ShowUpdated, recordVars, threadVars, modelVars,
       bounds
<1>4. ASSUME NEW n \in Names, SetThresholded(n) PROVE ThreadsTyped'
  BY <1>4 DEF SetThresholded, Call, ShowUpdated, recordVars, threadVars,
       modelVars, bounds
<1>5. ASSUME NEW n \in Names, Refresh(n) PROVE ThreadsTyped'
  BY <1>5 DEF Refresh, Call, Post, recordVars, threadVars, modelVars, bounds
<1>6. ASSUME NEW n \in Names, RemoveUrl(n) PROVE ThreadsTyped'
  <2>1. UNCHANGED threadVars /\ VectorMoves /\ made' = made
    BY <1>6 DEF RemoveUrl, Call
  <2> QED BY <2>1, ReferenceMoves DEF threadVars, readerPlace
<1>7. ASSUME NEW n \in Names, NEW new \in Names, Rename(n, new)
      PROVE ThreadsTyped'
  BY <1>7 DEF Rename, Call, ErasedFromMap, ShowRenamed, Post, recordVars,
       threadVars, modelVars, bounds
<1>8. ASSUME NEW s \in Sites, SetRadarSite(s) PROVE ThreadsTyped'
  BY <1>8 DEF SetRadarSite, recordVars, threadVars, modelVars, bounds
<1>9. ASSUME Deliver PROVE ThreadsTyped'
  BY <1>9 DEF Deliver, ShowUpdated, ShowInitialized, recordVars, threadVars,
       modelVars, bounds
<1>10. ASSUME CancelLeaving PROVE ThreadsTyped'
  BY <1>10 DEF CancelLeaving, NoLongerEnabled, recordVars, threadVars,
       modelVars, bounds
<1>11. ASSUME JoinLeaving PROVE ThreadsTyped'
  BY <1>11 DEF JoinLeaving, ShowRemoved, recordVars, threadVars, modelVars, bounds
<1>12. ASSUME ReadEntry PROVE ThreadsTyped'
  <2>1. /\ UNCHANGED <<pc, using>> /\ reader.at = "add"
        /\ reader.entry \in 1 .. Len(Settings) /\ Len(Settings) \in Nat
    BY <1>12, ReadFacts
  <2>2. CASE PassedOver
    <3>1. /\ reader'.at = "add" /\ reader'.entry \in 1 .. Len(Settings) + 1
          /\ reader' = [reader EXCEPT !.entry = reader.entry + 1]
      BY <2>1, <2>2 DEF PassedOver
    <3> QED BY <2>1, <3>1
  <2>3. ASSUME NEW m \in Names, Inserted(m) PROVE ThreadsTyped'
    <3>1. made + 1 \in Records /\ made' = made + 1 /\ made \in Nat
      BY <2>3 DEF Inserted
    <3>2. /\ reader' = [reader EXCEPT !.at = "tell", !.record = made + 1]
          /\ reader'.at = "tell" /\ reader'.entry = reader.entry
          /\ reader'.record = made + 1
      BY <2>3 DEF Inserted
    <3>3. reader'.record \in 1 .. made'
      BY <3>1, <3>2
    <3>4. reader' \in [at : {"add", "tell", "done"},
         entry : 1 .. Len(Settings) + 1,
                      record : Records \cup {NoRecord}, moved : BOOLEAN]
      BY <3>1, <3>2
    <3>5. reader'.entry <= Len(Settings)
      BY <2>1, <3>2
    <3> QED BY <2>1, <3>3, <3>4, <3>5
  <2> QED BY <1>12, <2>2, <2>3, ReadFacts
<1>13. ASSUME TellEntry PROVE ThreadsTyped'
  <2>1. /\ UNCHANGED <<pc, using, made>>
        /\ reader.entry \in 1 .. Len(Settings) /\ Len(Settings) \in Nat
        /\ reader' = [reader EXCEPT !.at = "add", !.entry = @ + 1,
                                    !.moved = FALSE]
    BY <1>13, TellFacts
  <2>2. reader'.at = "add" /\ reader'.entry \in 1 .. Len(Settings) + 1
    BY <2>1
  <2> QED BY <2>1, <2>2
<1>14. ASSUME ReadEnds PROVE ThreadsTyped'
  BY <1>14 DEF ReadEnds, recordVars, threadVars, modelVars, bounds
<1>15. ASSUME NEW r \in Records, StartUpdate(r) PROVE ThreadsTyped'
  BY <1>15 DEF StartUpdate, Goto, recordVars, threadVars, modelVars, bounds
<1>16. ASSUME NEW r \in Records, Load(r) PROVE ThreadsTyped'
  BY <1>16 DEF Load, Goto, recordVars, threadVars, modelVars, bounds
<1>17. ASSUME NEW r \in Records, LoadFails(r) PROVE ThreadsTyped'
  BY <1>17 DEF LoadFails, Goto, Forget, AfterFailure, recordVars, threadVars,
       modelVars, bounds
<1>18. ASSUME NEW r \in Records, LoadThrows(r) PROVE ThreadsTyped'
  BY <1>18 DEF LoadThrows, Goto, Forget, recordVars, threadVars, modelVars, bounds
<1>19. ASSUME NEW r \in Records, Check(r) PROVE ThreadsTyped'
  BY <1>19 DEF Check, Goto, recordVars, threadVars, modelVars, bounds
<1>20. ASSUME NEW r \in Records, Assign(r) PROVE ThreadsTyped'
  BY <1>20 DEF Assign, Goto, recordVars, threadVars, modelVars, bounds
<1>21. ASSUME NEW r \in Records, Schedule(r) PROVE ThreadsTyped'
  BY <1>21 DEF Schedule, Goto, Forget, recordVars, threadVars, modelVars, bounds
<1>22. ASSUME NEW r \in Records, Arm(r) PROVE ThreadsTyped'
  BY <1>22 DEF Arm, Goto, recordVars, threadVars, modelVars, bounds
<1>23. ASSUME NEW r \in Records, Fire(r) PROVE ThreadsTyped'
  BY <1>23 DEF Fire, Post, recordVars, threadVars, modelVars, bounds
<1>24. ASSUME UNCHANGED vars PROVE ThreadsTyped'
  BY <1>24 DEF vars, recordVars, threadVars, modelVars, bounds
<1> QED BY <1>1, <1>2, <1>3, <1>4, <1>5, <1>6, <1>7, <1>8, <1>9, <1>10, <1>11,
     <1>12, <1>13, <1>14, <1>15, <1>16, <1>17, <1>18, <1>19, <1>20, <1>21,
     <1>22, <1>23, <1>24
     DEF Next, UserStep, ReaderStep, RecordStep

(* The GUI thread and its queue have their types. *)
LEMMA GuiStep ==
  ASSUME PlacefileTypeOK, RecordsIndexed, RenamedIsQueued, [Next]_vars
        PROVE GuiTyped'
<1> DEFINE Signals == {Updated(n) : n \in Names} \cup {Initialized}
<1>t. RecordsTyped /\ FlagsTyped /\ ThreadsTyped /\ GuiTyped /\ ModelsTyped
  BY DEF PlacefileTypeOK
<1> USE <1>t, PlacefileAssumption DEF GuiTyped
<1>0. /\ queue \in Seq(Signals) /\ Initialized \in Signals
      /\ \A n \in Names : Updated(n) \in Signals
  OBVIOUS
<1>1. ASSUME NEW n \in Names, AddUrl(n) PROVE GuiTyped'
  BY <1>1 DEF AddUrl, Taken, Insert, Post, ShowUpdated, recordVars,
       threadVars, modelVars, bounds
<1>2. ASSUME NEW n \in Names, Enable(n) PROVE GuiTyped'
  BY <1>2 DEF Enable, Call, ShowUpdated, Post, recordVars, threadVars,
       modelVars, bounds
<1>3. ASSUME NEW n \in Names, Disable(n) PROVE GuiTyped'
  BY <1>3 DEF Disable, Call, ShowUpdated, recordVars, threadVars, modelVars,
       bounds
<1>4. ASSUME NEW n \in Names, SetThresholded(n) PROVE GuiTyped'
  BY <1>4 DEF SetThresholded, Call, ShowUpdated, recordVars, threadVars,
       modelVars, bounds
<1>5. ASSUME NEW n \in Names, Refresh(n) PROVE GuiTyped'
  BY <1>5 DEF Refresh, Call, Post, recordVars, threadVars, modelVars, bounds
<1>6. ASSUME NEW n \in Names, RemoveUrl(n) PROVE GuiTyped'
  <2>1. /\ recordMap[n] \in records /\ recordMap[n] \in Records
        /\ recordMap[n] \in 1 .. made /\ name[recordMap[n]] = n
    BY <1>6, CalledRecord DEF RemoveUrl, Call
  <2> QED BY <1>6, <2>1 DEF RemoveUrl, Call, ErasedFromMap, recordVars,
       threadVars, modelVars, bounds, NoRecord, RecordsTyped
<1>7. ASSUME NEW n \in Names, NEW new \in Names, Rename(n, new) PROVE GuiTyped'
  BY <1>7 DEF Rename, Call, ErasedFromMap, ShowRenamed, Post, recordVars,
       threadVars, modelVars, bounds
<1>8. ASSUME NEW s \in Sites, SetRadarSite(s) PROVE GuiTyped'
  BY <1>8 DEF SetRadarSite, recordVars, threadVars, modelVars, bounds
<1>9. ASSUME Deliver PROVE GuiTyped'
  <2>1. Tail(queue) \in Seq(Signals)
    BY <1>9, <1>0, HeadTailToSet DEF Deliver
  <2> QED BY <1>9, <2>1 DEF Deliver
<1>10. ASSUME CancelLeaving PROVE GuiTyped'
  BY <1>10 DEF CancelLeaving, NoLongerEnabled, recordVars, threadVars,
       modelVars, bounds
<1>11. ASSUME JoinLeaving PROVE GuiTyped'
  BY <1>11 DEF JoinLeaving, ShowRemoved, recordVars, threadVars, modelVars, bounds
<1>12. ASSUME ReadEntry PROVE GuiTyped'
  BY <1>12 DEF ReadEntry, Insert, Taken, Entry, recordVars, threadVars,
       modelVars, bounds
<1>13. ASSUME TellEntry PROVE GuiTyped'
  <2>1. /\ Entry.name \in Names /\ Entry.enabled \in BOOLEAN
        /\ Entry.titled \in BOOLEAN /\ reader.entry \in 1 .. Len(Settings)
    BY <1>13, ReaderAt DEF TellEntry, ThreadsTyped
  <2>2. <<Updated(Entry.name)>> \in Seq(Signals) /\ <<>> \in Seq(Signals)
    BY <2>1, <1>0
  <2>3. queue' \in Seq(Signals)
    BY <1>13, <2>2, <1>0, ConcatProperties DEF TellEntry
  <2> QED BY <1>13, <2>3 DEF TellEntry
<1>14. ASSUME ReadEnds PROVE GuiTyped'
  <2>1. Append(queue, Initialized) \in Seq(Signals)
    BY <1>0, AppendToSet
  <2> QED BY <1>14, <2>1 DEF ReadEnds
<1>15. ASSUME NEW r \in Records, StartUpdate(r) PROVE GuiTyped'
  BY <1>15 DEF StartUpdate, Goto, recordVars, threadVars, modelVars, bounds
<1>16. ASSUME NEW r \in Records, Load(r) PROVE GuiTyped'
  BY <1>16 DEF Load, Goto, recordVars, threadVars, modelVars, bounds
<1>17. ASSUME NEW r \in Records, LoadFails(r) PROVE GuiTyped'
  BY <1>17 DEF LoadFails, Goto, Forget, AfterFailure, recordVars, threadVars,
       modelVars, bounds
<1>18. ASSUME NEW r \in Records, LoadThrows(r) PROVE GuiTyped'
  BY <1>18 DEF LoadThrows, Goto, Forget, recordVars, threadVars, modelVars, bounds
<1>19. ASSUME NEW r \in Records, Check(r) PROVE GuiTyped'
  BY <1>19 DEF Check, Goto, recordVars, threadVars, modelVars, bounds
<1>20. ASSUME NEW r \in Records, Assign(r) PROVE GuiTyped'
  <2>1. using[r] \in Names
    BY <1>20 DEF Assign, RenamedIsQueued
  <2>2. Append(queue, Updated(using[r])) \in Seq(Signals)
    BY <2>1, <1>0, AppendToSet
  <2> QED BY <1>20, <2>2 DEF Assign, recordVars
<1>21. ASSUME NEW r \in Records, Schedule(r) PROVE GuiTyped'
  BY <1>21 DEF Schedule, Goto, Forget, recordVars, threadVars, modelVars, bounds
<1>22. ASSUME NEW r \in Records, Arm(r) PROVE GuiTyped'
  BY <1>22 DEF Arm, Goto, recordVars, threadVars, modelVars, bounds
<1>23. ASSUME NEW r \in Records, Fire(r) PROVE GuiTyped'
  BY <1>23 DEF Fire, Post, recordVars, threadVars, modelVars, bounds
<1>24. ASSUME UNCHANGED vars PROVE GuiTyped'
  BY <1>24 DEF vars, recordVars, threadVars, modelVars, bounds
<1> QED BY <1>1, <1>2, <1>3, <1>4, <1>5, <1>6, <1>7, <1>8, <1>9, <1>10, <1>11,
     <1>12, <1>13, <1>14, <1>15, <1>16, <1>17, <1>18, <1>19, <1>20, <1>21,
     <1>22, <1>23, <1>24
     DEF Next, UserStep, ReaderStep, RecordStep

(* The lists the models keep have their types. *)
LEMMA ModelsStep ==
  ASSUME PlacefileTypeOK, RecordsIndexed, [Next]_vars PROVE ModelsTyped'
<1>t. RecordsTyped /\ FlagsTyped /\ ThreadsTyped /\ GuiTyped /\ ModelsTyped
  BY DEF PlacefileTypeOK
<1> USE <1>t, PlacefileAssumption DEF ModelsTyped
<1>a. ASSUME NEW n \in Names, ShowUpdated(n) PROVE ModelsTyped'
  <2>1. Append(rows, n) \in Seq(Names)
    BY AppendToSet
  <2> QED BY <1>a, <2>1 DEF ShowUpdated, WithRow
<1>b. ASSUME UNCHANGED modelVars PROVE ModelsTyped'
  BY <1>b DEF modelVars
<1>1. ASSUME NEW n \in Names, AddUrl(n) PROVE ModelsTyped'
  BY <1>1, <1>a DEF AddUrl
<1>2. ASSUME NEW n \in Names, Enable(n) PROVE ModelsTyped'
  BY <1>2, <1>a DEF Enable
<1>3. ASSUME NEW n \in Names, Disable(n) PROVE ModelsTyped'
  BY <1>3, <1>a DEF Disable
<1>4. ASSUME NEW n \in Names, SetThresholded(n) PROVE ModelsTyped'
  BY <1>4, <1>a DEF SetThresholded
<1>5. ASSUME NEW n \in Names, Refresh(n) PROVE ModelsTyped'
  BY <1>5, <1>b DEF Refresh
<1>6. ASSUME NEW n \in Names, RemoveUrl(n) PROVE ModelsTyped'
  BY <1>6, <1>b DEF RemoveUrl
<1>7. ASSUME NEW n \in Names, NEW new \in Names, Rename(n, new) PROVE ModelsTyped'
  <2>1. CASE Found(rows, n)
    <3>1. Find(rows, n) \in 1 .. Len(rows)
      BY <2>1, FirstFound
    <3>2. [rows EXCEPT ![Find(rows, n)] = new] \in Seq(Names)
      BY <3>1, ExceptSeq
    <3> QED BY <1>7, <2>1, <3>2 DEF Rename, ShowRenamed
  <2>2. CASE ~ Found(rows, n)
    <3>1. Append(rows, new) \in Seq(Names)
      BY AppendToSet
    <3> QED BY <1>7, <2>2, <3>1 DEF Rename, ShowRenamed
  <2> QED BY <2>1, <2>2
<1>8. ASSUME NEW s \in Sites, SetRadarSite(s) PROVE ModelsTyped'
  BY <1>8, <1>b DEF SetRadarSite
<1>9. ASSUME Deliver PROVE ModelsTyped'
  <2>1. CASE Head(queue).kind = "updated"
    <3>1. Head(queue).name \in Names
      <4>1. Head(queue) \in {Updated(n) : n \in Names} \cup {Initialized}
        BY <1>9, HeadTailToSet DEF Deliver, GuiTyped
      <4> QED BY <4>1, <2>1 DEF Updated, Initialized
    <3>2. CASE ShowUpdated(Head(queue).name)
      BY <1>a, <3>1, <3>2
    <3>3. CASE ShowInitialized
      BY <3>3 DEF ShowInitialized
    <3> QED BY <1>9, <3>2, <3>3 DEF Deliver
  <2>2. CASE ShowInitialized
    BY <2>2 DEF ShowInitialized
  <2> QED BY <1>9, <2>1, <2>2 DEF Deliver
<1>10. ASSUME CancelLeaving PROVE ModelsTyped'
  BY <1>10, <1>b DEF CancelLeaving
<1>11. ASSUME JoinLeaving PROVE ModelsTyped'
  BY <1>11, WithoutFirstTyped DEF JoinLeaving, ShowRemoved
<1>12. ASSUME ReadEntry PROVE ModelsTyped'
  BY <1>12, <1>b DEF ReadEntry
<1>13. ASSUME TellEntry PROVE ModelsTyped'
  BY <1>13, <1>b DEF TellEntry
<1>14. ASSUME ReadEnds PROVE ModelsTyped'
  BY <1>14, <1>b DEF ReadEnds
<1>15. ASSUME NEW r \in Records, StartUpdate(r) PROVE ModelsTyped'
  BY <1>15, <1>b DEF StartUpdate
<1>16. ASSUME NEW r \in Records, Load(r) PROVE ModelsTyped'
  BY <1>16, <1>b DEF Load
<1>17. ASSUME NEW r \in Records, LoadFails(r) PROVE ModelsTyped'
  BY <1>17, <1>b DEF LoadFails
<1>18. ASSUME NEW r \in Records, LoadThrows(r) PROVE ModelsTyped'
  BY <1>18, <1>b DEF LoadThrows
<1>19. ASSUME NEW r \in Records, Check(r) PROVE ModelsTyped'
  BY <1>19, <1>b DEF Check
<1>20. ASSUME NEW r \in Records, Assign(r) PROVE ModelsTyped'
  BY <1>20, <1>b DEF Assign
<1>21. ASSUME NEW r \in Records, Schedule(r) PROVE ModelsTyped'
  BY <1>21, <1>b DEF Schedule
<1>22. ASSUME NEW r \in Records, Arm(r) PROVE ModelsTyped'
  BY <1>22, <1>b DEF Arm
<1>23. ASSUME NEW r \in Records, Fire(r) PROVE ModelsTyped'
  BY <1>23, <1>b DEF Fire
<1>24. ASSUME UNCHANGED vars PROVE ModelsTyped'
  BY <1>24 DEF vars, recordVars, threadVars, modelVars, bounds
<1> QED BY <1>1, <1>2, <1>3, <1>4, <1>5, <1>6, <1>7, <1>8, <1>9, <1>10, <1>11,
     <1>12, <1>13, <1>14, <1>15, <1>16, <1>17, <1>18, <1>19, <1>20, <1>21,
     <1>22, <1>23, <1>24
     DEF Next, UserStep, ReaderStep, RecordStep

(* The map and the vector agree after every step. *)
LEMMA IndexStep ==
  ASSUME PlacefileTypeOK, RecordsIndexed, [Next]_vars PROVE RecordsIndexed'
<1>t. RecordsTyped /\ FlagsTyped /\ ThreadsTyped /\ GuiTyped /\ ModelsTyped
  BY DEF PlacefileTypeOK
<1> USE <1>t, PlacefileAssumption DEF RecordsTyped, RecordsIndexed, Records,
     NoRecord
<1>1. ASSUME NEW n \in Names, AddUrl(n) PROVE RecordsIndexed'
  BY <1>1 DEF AddUrl, Taken, Insert, Post, ShowUpdated, recordVars,
       threadVars, modelVars, bounds
<1>2. ASSUME NEW n \in Names, Enable(n) PROVE RecordsIndexed'
  BY <1>2 DEF Enable, Call, ShowUpdated, Post, recordVars, threadVars,
       modelVars, bounds
<1>3. ASSUME NEW n \in Names, Disable(n) PROVE RecordsIndexed'
  BY <1>3 DEF Disable, Call, ShowUpdated, recordVars, threadVars, modelVars,
       bounds
<1>4. ASSUME NEW n \in Names, SetThresholded(n) PROVE RecordsIndexed'
  BY <1>4 DEF SetThresholded, Call, ShowUpdated, recordVars, threadVars,
       modelVars, bounds
<1>5. ASSUME NEW n \in Names, Refresh(n) PROVE RecordsIndexed'
  BY <1>5 DEF Refresh, Call, Post, recordVars, threadVars, modelVars, bounds
<1>6. ASSUME NEW n \in Names, RemoveUrl(n) PROVE RecordsIndexed'
  BY <1>6 DEF RemoveUrl, Call, ErasedFromMap, recordVars, threadVars,
       modelVars, bounds
<1>7. ASSUME NEW n \in Names, NEW new \in Names, Rename(n, new)
      PROVE RecordsIndexed'
  BY <1>7 DEF Rename, Call, ErasedFromMap, ShowRenamed, Post, recordVars,
       threadVars, modelVars, bounds
<1>8. ASSUME NEW s \in Sites, SetRadarSite(s) PROVE RecordsIndexed'
  BY <1>8 DEF SetRadarSite, recordVars, threadVars, modelVars, bounds
<1>9. ASSUME Deliver PROVE RecordsIndexed'
  BY <1>9 DEF Deliver, ShowUpdated, ShowInitialized, recordVars, threadVars,
       modelVars, bounds
<1>10. ASSUME CancelLeaving PROVE RecordsIndexed'
  BY <1>10 DEF CancelLeaving, NoLongerEnabled, recordVars, threadVars,
       modelVars, bounds
<1>11. ASSUME JoinLeaving PROVE RecordsIndexed'
  BY <1>11 DEF JoinLeaving, ShowRemoved, recordVars, threadVars, modelVars, bounds
<1>12. ASSUME ReadEntry PROVE RecordsIndexed'
  BY <1>12 DEF ReadEntry, Insert, Taken, Entry, recordVars, threadVars,
       modelVars, bounds
<1>13. ASSUME TellEntry PROVE RecordsIndexed'
  BY <1>13 DEF TellEntry, Post, Entry, recordVars, threadVars, modelVars, bounds
<1>14. ASSUME ReadEnds PROVE RecordsIndexed'
  BY <1>14 DEF ReadEnds, recordVars, threadVars, modelVars, bounds
<1>15. ASSUME NEW r \in Records, StartUpdate(r) PROVE RecordsIndexed'
  BY <1>15 DEF StartUpdate, Goto, recordVars, threadVars, modelVars, bounds
<1>16. ASSUME NEW r \in Records, Load(r) PROVE RecordsIndexed'
  BY <1>16 DEF Load, Goto, recordVars, threadVars, modelVars, bounds
<1>17. ASSUME NEW r \in Records, LoadFails(r) PROVE RecordsIndexed'
  BY <1>17 DEF LoadFails, Goto, Forget, AfterFailure, recordVars, threadVars,
       modelVars, bounds
<1>18. ASSUME NEW r \in Records, LoadThrows(r) PROVE RecordsIndexed'
  BY <1>18 DEF LoadThrows, Goto, Forget, recordVars, threadVars, modelVars, bounds
<1>19. ASSUME NEW r \in Records, Check(r) PROVE RecordsIndexed'
  BY <1>19 DEF Check, Goto, recordVars, threadVars, modelVars, bounds
<1>20. ASSUME NEW r \in Records, Assign(r) PROVE RecordsIndexed'
  BY <1>20 DEF Assign, Goto, recordVars, threadVars, modelVars, bounds
<1>21. ASSUME NEW r \in Records, Schedule(r) PROVE RecordsIndexed'
  BY <1>21 DEF Schedule, Goto, Forget, recordVars, threadVars, modelVars, bounds
<1>22. ASSUME NEW r \in Records, Arm(r) PROVE RecordsIndexed'
  BY <1>22 DEF Arm, Goto, recordVars, threadVars, modelVars, bounds
<1>23. ASSUME NEW r \in Records, Fire(r) PROVE RecordsIndexed'
  BY <1>23 DEF Fire, Post, recordVars, threadVars, modelVars, bounds
<1>24. ASSUME UNCHANGED vars PROVE RecordsIndexed'
  BY <1>24 DEF vars, recordVars, threadVars, modelVars, bounds
<1> QED BY <1>1, <1>2, <1>3, <1>4, <1>5, <1>6, <1>7, <1>8, <1>9, <1>10, <1>11,
     <1>12, <1>13, <1>14, <1>15, <1>16, <1>17, <1>18, <1>19, <1>20, <1>21,
     <1>22, <1>23, <1>24
     DEF Next, UserStep, ReaderStep, RecordStep

(* Only records that were made have something under way. *)
LEMMA NotMadeStep ==
  ASSUME PlacefileTypeOK, RecordsIndexed, NotMadeYet, [Next]_vars
        PROVE NotMadeYet'
<1>t. RecordsTyped /\ FlagsTyped /\ ThreadsTyped /\ GuiTyped /\ ModelsTyped
  BY DEF PlacefileTypeOK
<1>p. pc \in [Records -> {"idle", "load", "check", "assign", "schedule", "arm"}]
  BY <1>t DEF ThreadsTyped
<1> USE <1>t, <1>p, PlacefileAssumption DEF RecordsTyped, NotMadeYet, AtRest,
     Records, NoRecord
<1>1. ASSUME NEW n \in Names, AddUrl(n) PROVE NotMadeYet'
  BY <1>1 DEF AddUrl, Taken, Insert, Post, ShowUpdated, recordVars,
       threadVars, modelVars, bounds, GuiTyped, FlagsTyped
<1>2. ASSUME NEW n \in Names, Enable(n) PROVE NotMadeYet'
  <2>1. recordMap[n] \in 1 .. made /\ recordMap[n] \in Records
    BY <1>2, CalledRecord DEF Enable, Call
  <2>2. UNCHANGED <<made, records, leaving, name, pc>>
    BY <1>2, EnableFacts
  <2>3. ASSUME NEW r \in Records, r > made PROVE AtRest(r)'
    <3>1. r # recordMap[n] /\ AtRest(r)
      BY <2>1, <2>3
    <3>2. armed'[r] = armed[r]
      <4>1. r \in Records \ {recordMap[n]}
        BY <2>3, <3>1
      <4> QED BY <1>2, <4>1, EnableFacts, Zenon
    <3>3. posted'[r] = posted[r]
      <4>1. \/ posted' = [posted EXCEPT ![recordMap[n]] = @ + 1]
            \/ posted' = posted
        BY <1>2, EnableFacts
      <4> QED BY <2>1, <2>3, <3>1, <4>1
    <3> QED BY <2>2, <3>1, <3>2, <3>3
  <2> QED BY <2>2, <2>3
<1>3. ASSUME NEW n \in Names, Disable(n) PROVE NotMadeYet'
  BY <1>3 DEF Disable, Call, ShowUpdated, recordVars, threadVars, modelVars,
       bounds, GuiTyped, FlagsTyped
<1>4. ASSUME NEW n \in Names, SetThresholded(n) PROVE NotMadeYet'
  BY <1>4 DEF SetThresholded, Call, ShowUpdated, recordVars, threadVars,
       modelVars, bounds, GuiTyped, FlagsTyped
<1>5. ASSUME NEW n \in Names, Refresh(n) PROVE NotMadeYet'
  <2>1. /\ recordMap[n] \in records /\ recordMap[n] \in Records
        /\ recordMap[n] \in 1 .. made /\ name[recordMap[n]] = n
    BY <1>5, CalledRecord DEF Refresh, Call
  <2> QED BY <1>5, <2>1 DEF Refresh, Call, Post, recordVars, threadVars,
       modelVars, bounds, FlagsTyped
<1>6. ASSUME NEW n \in Names, RemoveUrl(n) PROVE NotMadeYet'
  BY <1>6 DEF RemoveUrl, Call, ErasedFromMap, recordVars, threadVars,
       modelVars, bounds, GuiTyped, FlagsTyped
<1>7. ASSUME NEW n \in Names, NEW new \in Names, Rename(n, new) PROVE NotMadeYet'
  BY <1>7 DEF Rename, Call, ErasedFromMap, ShowRenamed, Post, recordVars,
       threadVars, modelVars, bounds, GuiTyped, FlagsTyped
<1>8. ASSUME NEW s \in Sites, SetRadarSite(s) PROVE NotMadeYet'
  BY <1>8 DEF SetRadarSite, recordVars, threadVars, modelVars, bounds,
       GuiTyped, FlagsTyped
<1>9. ASSUME Deliver PROVE NotMadeYet'
  BY <1>9 DEF Deliver, ShowUpdated, ShowInitialized, recordVars, threadVars,
       modelVars, bounds, GuiTyped, FlagsTyped
<1>10. ASSUME CancelLeaving PROVE NotMadeYet'
  BY <1>10 DEF CancelLeaving, NoLongerEnabled, recordVars, threadVars,
       modelVars, bounds, GuiTyped, FlagsTyped
<1>11. ASSUME JoinLeaving PROVE NotMadeYet'
  BY <1>11 DEF JoinLeaving, ShowRemoved, recordVars, threadVars, modelVars,
       bounds, GuiTyped, FlagsTyped
<1>12. ASSUME ReadEntry PROVE NotMadeYet'
  <2>1. UNCHANGED <<posted, armed, pc, leaving, gui>> /\ gui = "idle"
    BY <1>12, ReadFacts DEF ReadEntry
  <2>2. CASE PassedOver
    BY <2>1, <2>2 DEF PassedOver
  <2>3. ASSUME NEW m \in Names, Inserted(m) PROVE NotMadeYet'
    <3>1. /\ made' = made + 1 /\ records' = records \cup {made + 1}
          /\ name' = [name EXCEPT ![made + 1] = m] /\ made + 1 \in Records
      BY <2>3 DEF Inserted
    <3>2. leaving' \notin records'
      BY <2>1, <3>1 DEF GuiTyped
    <3>3. \A r \in Records : r <= made' => name'[r] \in Names
      BY <3>1
    <3> QED BY <2>1, <3>1, <3>2, <3>3
  <2> QED BY <1>12, <2>2, <2>3, ReadFacts
<1>13. ASSUME TellEntry PROVE NotMadeYet'
  <2>1. /\ UNCHANGED <<made, records, leaving, name, pc, armed>>
    BY <1>13, TellFacts
  <2>2. \A r \in Records : r > made => posted'[r] = posted[r]
    BY <1>13, TellFacts
  <2> QED BY <2>1, <2>2
<1>14. ASSUME ReadEnds PROVE NotMadeYet'
  BY <1>14 DEF ReadEnds, recordVars, threadVars, modelVars, bounds, GuiTyped,
       FlagsTyped
<1>15. ASSUME NEW r \in Records, StartUpdate(r) PROVE NotMadeYet'
  BY <1>15 DEF StartUpdate, Goto, recordVars, threadVars, modelVars, bounds,
       GuiTyped, FlagsTyped
<1>16. ASSUME NEW r \in Records, Load(r) PROVE NotMadeYet'
  BY <1>16 DEF Load, Goto, recordVars, threadVars, modelVars, bounds,
       GuiTyped, FlagsTyped
<1>17. ASSUME NEW r \in Records, LoadFails(r) PROVE NotMadeYet'
  BY <1>17 DEF LoadFails, Goto, Forget, AfterFailure, recordVars, threadVars,
       modelVars, bounds, GuiTyped, FlagsTyped
<1>18. ASSUME NEW r \in Records, LoadThrows(r) PROVE NotMadeYet'
  BY <1>18 DEF LoadThrows, Goto, Forget, recordVars, threadVars, modelVars,
       bounds, GuiTyped, FlagsTyped
<1>19. ASSUME NEW r \in Records, Check(r) PROVE NotMadeYet'
  BY <1>19 DEF Check, Goto, recordVars, threadVars, modelVars, bounds,
       GuiTyped, FlagsTyped
<1>20. ASSUME NEW r \in Records, Assign(r) PROVE NotMadeYet'
  BY <1>20 DEF Assign, Goto, recordVars, threadVars, modelVars, bounds,
       GuiTyped, FlagsTyped
<1>21. ASSUME NEW r \in Records, Schedule(r) PROVE NotMadeYet'
  BY <1>21 DEF Schedule, Goto, Forget, recordVars, threadVars, modelVars,
       bounds, GuiTyped, FlagsTyped
<1>22. ASSUME NEW r \in Records, Arm(r) PROVE NotMadeYet'
  BY <1>22 DEF Arm, Goto, recordVars, threadVars, modelVars, bounds, GuiTyped,
       FlagsTyped
<1>23. ASSUME NEW r \in Records, Fire(r) PROVE NotMadeYet'
  BY <1>23 DEF Fire, Post, recordVars, threadVars, modelVars, bounds,
       GuiTyped, FlagsTyped
<1>24. ASSUME UNCHANGED vars PROVE NotMadeYet'
  BY <1>24 DEF vars, recordVars, threadVars, modelVars, bounds, GuiTyped,
       FlagsTyped
<1> QED BY <1>1, <1>2, <1>3, <1>4, <1>5, <1>6, <1>7, <1>8, <1>9, <1>10, <1>11,
     <1>12, <1>13, <1>14, <1>15, <1>16, <1>17, <1>18, <1>19, <1>20, <1>21,
     <1>22, <1>23, <1>24
     DEF Next, UserStep, ReaderStep, RecordStep

(* A record renamed during an update has another update queued. *)
LEMMA RenamedStep ==
  ASSUME PlacefileTypeOK, RecordsIndexed, NotMadeYet, RenamedIsQueued, [Next]_vars
  PROVE  RenamedIsQueued'
<1>t. RecordsTyped /\ FlagsTyped /\ ThreadsTyped /\ GuiTyped /\ ModelsTyped
  BY DEF PlacefileTypeOK
<1> USE <1>t, PlacefileAssumption DEF RecordsTyped, ThreadsTyped, NotMadeYet,
     AtRest, RenamedIsQueued, Records, NoRecord, NoFile
<1>1. ASSUME NEW n \in Names, AddUrl(n) PROVE RenamedIsQueued'
  BY <1>1 DEF AddUrl, Taken, Insert, Post, ShowUpdated, recordVars,
       threadVars, modelVars, bounds
<1>2. ASSUME NEW n \in Names, Enable(n) PROVE RenamedIsQueued'
  <2>1. UNCHANGED <<pc, using, name, file>>
    BY <1>2, EnableFacts
  <2>2. PICK q \in Records : q = recordMap[n]
    BY <1>2, CalledRecord DEF Enable, Call
  <2>3. posted' = [posted EXCEPT ![q] = @ + 1] \/ posted' = posted
    BY <1>2, <2>2, EnableFacts
  <2>4. \A r \in Records : posted[r] > 0 => posted'[r] > 0
    BY <2>3
  <2> QED BY <2>1, <2>4
<1>3. ASSUME NEW n \in Names, Disable(n) PROVE RenamedIsQueued'
  BY <1>3 DEF Disable, Call, ShowUpdated, recordVars, threadVars, modelVars,
       bounds
<1>4. ASSUME NEW n \in Names, SetThresholded(n) PROVE RenamedIsQueued'
  BY <1>4 DEF SetThresholded, Call, ShowUpdated, recordVars, threadVars,
       modelVars, bounds
<1>5. ASSUME NEW n \in Names, Refresh(n) PROVE RenamedIsQueued'
  BY <1>5 DEF Refresh, Call, Post, recordVars, threadVars, modelVars, bounds
<1>6. ASSUME NEW n \in Names, RemoveUrl(n) PROVE RenamedIsQueued'
  BY <1>6 DEF RemoveUrl, Call, ErasedFromMap, recordVars, threadVars,
       modelVars, bounds
<1>7. ASSUME NEW n \in Names, NEW new \in Names, Rename(n, new)
      PROVE RenamedIsQueued'
  BY <1>7 DEF Rename, Call, ErasedFromMap, ShowRenamed, Post, recordVars,
       threadVars, modelVars, bounds
<1>8. ASSUME NEW s \in Sites, SetRadarSite(s) PROVE RenamedIsQueued'
  BY <1>8 DEF SetRadarSite, recordVars, threadVars, modelVars, bounds
<1>9. ASSUME Deliver PROVE RenamedIsQueued'
  BY <1>9 DEF Deliver, ShowUpdated, ShowInitialized, recordVars, threadVars,
       modelVars, bounds
<1>10. ASSUME CancelLeaving PROVE RenamedIsQueued'
  BY <1>10 DEF CancelLeaving, NoLongerEnabled, recordVars, threadVars,
       modelVars, bounds
<1>11. ASSUME JoinLeaving PROVE RenamedIsQueued'
  BY <1>11 DEF JoinLeaving, ShowRemoved, recordVars, threadVars, modelVars, bounds
<1>12. ASSUME ReadEntry PROVE RenamedIsQueued'
  <2>1. UNCHANGED <<pc, using, file, posted>>
    BY <1>12, ReadFacts
  <2>2. CASE PassedOver
    BY <2>1, <2>2 DEF PassedOver
  <2>3. ASSUME NEW m \in Names, Inserted(m) PROVE RenamedIsQueued'
    <3>1. \A r \in Records : r # made + 1 => name'[r] = name[r]
      BY <2>3 DEF Inserted
    <3>2. pc[made + 1] = "idle"
      BY <2>3 DEF Inserted
    <3> QED BY <2>1, <3>1, <3>2
  <2> QED BY <1>12, <2>2, <2>3, ReadFacts
<1>13. ASSUME TellEntry PROVE RenamedIsQueued'
  <2>1. /\ UNCHANGED <<pc, using, name, file>>
        /\ posted' \in [Records -> Nat]
        /\ \A r \in Records : posted'[r] >= posted[r]
    BY <1>13, TellFacts
  <2> QED BY <2>1
<1>14. ASSUME ReadEnds PROVE RenamedIsQueued'
  BY <1>14 DEF ReadEnds, recordVars, threadVars, modelVars, bounds
<1>15. ASSUME NEW r \in Records, StartUpdate(r) PROVE RenamedIsQueued'
  <2>1. name[r] \in Names
    <3>1. r <= made
      BY <1>15 DEF StartUpdate
    <3> QED BY <3>1
  <2>2. UNCHANGED <<name, file>>
    BY <1>15 DEF StartUpdate
  <2>3. ASSUME NEW q \in Records \ {r}
        PROVE  pc'[q] = pc[q] /\ using'[q] = using[q] /\ posted'[q] = posted[q]
    BY <1>15, <2>3 DEF StartUpdate, Goto
  <2>4. pc'[r] = "idle" \/ (pc'[r] = "load" /\ using'[r] = name[r])
    BY <1>15 DEF StartUpdate, Goto
  <2> QED BY <2>1, <2>2, <2>3, <2>4
<1>16. ASSUME NEW r \in Records, Load(r) PROVE RenamedIsQueued'
  BY <1>16 DEF Load, Goto, recordVars, threadVars, modelVars, bounds
<1>17. ASSUME NEW r \in Records, LoadFails(r) PROVE RenamedIsQueued'
  BY <1>17 DEF LoadFails, Goto, Forget, AfterFailure, recordVars, threadVars,
       modelVars, bounds
<1>18. ASSUME NEW r \in Records, LoadThrows(r) PROVE RenamedIsQueued'
  BY <1>18 DEF LoadThrows, Goto, Forget, recordVars, threadVars, modelVars, bounds
<1>19. ASSUME NEW r \in Records, Check(r) PROVE RenamedIsQueued'
  BY <1>19 DEF Check, Goto, recordVars, threadVars, modelVars, bounds
<1>20. ASSUME NEW r \in Records, Assign(r) PROVE RenamedIsQueued'
  BY <1>20 DEF Assign, Goto, recordVars, threadVars, modelVars, bounds
<1>21. ASSUME NEW r \in Records, Schedule(r) PROVE RenamedIsQueued'
  BY <1>21 DEF Schedule, Goto, Forget, recordVars, threadVars, modelVars, bounds
<1>22. ASSUME NEW r \in Records, Arm(r) PROVE RenamedIsQueued'
  BY <1>22 DEF Arm, Goto, recordVars, threadVars, modelVars, bounds
<1>23. ASSUME NEW r \in Records, Fire(r) PROVE RenamedIsQueued'
  BY <1>23 DEF Fire, Post, recordVars, threadVars, modelVars, bounds
<1>24. ASSUME UNCHANGED vars PROVE RenamedIsQueued'
  BY <1>24 DEF vars, recordVars, threadVars, modelVars, bounds
<1> QED BY <1>1, <1>2, <1>3, <1>4, <1>5, <1>6, <1>7, <1>8, <1>9, <1>10, <1>11,
     <1>12, <1>13, <1>14, <1>15, <1>16, <1>17, <1>18, <1>19, <1>20, <1>21,
     <1>22, <1>23, <1>24
     DEF Next, UserStep, ReaderStep, RecordStep

(* An enabled record without a placefile keeps being updated. *)
LEMMA RetriedStep ==
  ASSUME IInv, [Next]_vars PROVE EnabledIsRetried'
<1>t. RecordsTyped /\ FlagsTyped /\ ThreadsTyped /\ GuiTyped /\ ModelsTyped
      /\ PlacefileTypeOK /\ RecordsIndexed /\ NotMadeYet /\ RenamedIsQueued
      /\ EnabledIsRetried
  BY DEF IInv, PlacefileTypeOK
<1>p. /\ pc \in [Records -> {"idle", "load", "check", "assign", "schedule", "arm"}]
      /\ using \in [Records -> Names \cup {"none"}]
      /\ reader.at = "tell" =>
           reader.entry <= Len(Settings) /\ reader.record \in 1 .. made
  BY <1>t DEF ThreadsTyped
<1> USE <1>t, <1>p, PlacefileAssumption DEF RecordsTyped, EnabledIsRetried,
     AtRest, WaitsForSite, AboutToBeTold, Records, NoRecord, NoFile
<1>1. ASSUME NEW n \in Names, AddUrl(n) PROVE EnabledIsRetried'
  <2>1. UNCHANGED readerPlace
    BY <1>1, ReferenceMoves DEF AddUrl
  <2> QED BY <1>1, <2>1 DEF AddUrl, Taken, Insert, Post, ShowUpdated,
       recordVars, threadVars, modelVars, bounds, Entry, readerPlace
<1>2. ASSUME NEW n \in Names, Enable(n) PROVE EnabledIsRetried'
  <2>1. PICK q \in Records : q = recordMap[n]
    BY <1>2, CalledRecord DEF Enable, Call
  <2>2. /\ UNCHANGED <<site, records, name, file, pc, reader>>
        /\ dropped \subseteq dropped'
    BY <1>2, EnableFacts
  <2>3. ASSUME NEW r \in records, r # q, enabled'[r], file'[r] = NoFile,
               ~ (site = NoSite /\ name[r] \notin Local)
        PROVE  ~ AtRest(r)' \/ r \in dropped' \/ AboutToBeTold(r)'
    <3>1. r \in 1 .. made
      OBVIOUS
    <3>2. r \in Records
      BY <3>1
    <3>3. armed'[r] = armed[r] /\ enabled'[r] = enabled[r]
      <4>1. r \in Records \ {recordMap[n]}
        BY <2>1, <2>3, <3>2
      <4> QED BY <1>2, <4>1, EnableFacts, Zenon
    <3>4. posted'[r] = posted[r]
      <4>1. posted' = [posted EXCEPT ![q] = @ + 1] \/ posted' = posted
        BY <1>2, <2>1, EnableFacts
      <4> QED BY <2>3, <3>2, <4>1
    <3>5. ~ AtRest(r) \/ r \in dropped \/ AboutToBeTold(r)
      BY <2>2, <2>3, <3>3
    <3> QED BY <2>2, <3>3, <3>4, <3>5 DEF Entry
  <2>4. ASSUME file[q] = NoFile PROVE ~ AtRest(q)' \/ q \in dropped'
    <3>1. posted' = [posted EXCEPT ![q] = @ + 1] \/ q \in dropped'
      BY <1>2, <2>1, <2>4, EnableFacts
    <3>2. CASE posted' = [posted EXCEPT ![q] = @ + 1]
      BY <3>2
    <3> QED BY <3>1, <3>2
  <2> QED BY <2>2, <2>3, <2>4
<1>3. ASSUME NEW n \in Names, Disable(n) PROVE EnabledIsRetried'
  <2>1. /\ recordMap[n] \in records /\ recordMap[n] \in Records
        /\ recordMap[n] \in 1 .. made /\ name[recordMap[n]] = n
    BY <1>3, CalledRecord DEF Disable, Call
  <2> QED BY <1>3, <2>1 DEF Disable, Call, ShowUpdated, recordVars,
       threadVars, modelVars, bounds, FlagsTyped, Entry
<1>4. ASSUME NEW n \in Names, SetThresholded(n) PROVE EnabledIsRetried'
  BY <1>4 DEF SetThresholded, Call, ShowUpdated, recordVars, threadVars,
       modelVars, bounds, Entry
<1>5. ASSUME NEW n \in Names, Refresh(n) PROVE EnabledIsRetried'
  BY <1>5 DEF Refresh, Call, Post, recordVars, threadVars, modelVars, bounds,
       Entry
<1>6. ASSUME NEW n \in Names, RemoveUrl(n) PROVE EnabledIsRetried'
  <2>1. UNCHANGED readerPlace
    BY <1>6, ReferenceMoves DEF RemoveUrl
  <2> QED BY <1>6, <2>1 DEF RemoveUrl, Call, ErasedFromMap, recordVars,
       threadVars, modelVars, bounds, Entry, readerPlace
<1>7. ASSUME NEW n \in Names, NEW new \in Names, Rename(n, new)
      PROVE EnabledIsRetried'
  BY <1>7 DEF Rename, Call, ErasedFromMap, ShowRenamed, Post, recordVars,
       threadVars, modelVars, bounds, Entry
<1>8. ASSUME NEW s \in Sites, SetRadarSite(s) PROVE EnabledIsRetried'
  BY <1>8 DEF SetRadarSite, recordVars, threadVars, modelVars, bounds, Entry
<1>9. ASSUME Deliver PROVE EnabledIsRetried'
  BY <1>9 DEF Deliver, ShowUpdated, ShowInitialized, recordVars, threadVars,
       modelVars, bounds, Entry
<1>10. ASSUME CancelLeaving PROVE EnabledIsRetried'
  BY <1>10 DEF CancelLeaving, NoLongerEnabled, recordVars, threadVars,
       modelVars, bounds, Entry, FlagsTyped, NotMadeYet, GuiTyped
<1>11. ASSUME JoinLeaving PROVE EnabledIsRetried'
  BY <1>11 DEF JoinLeaving, ShowRemoved, recordVars, threadVars, modelVars,
       bounds, Entry
<1>12. ASSUME ReadEntry PROVE EnabledIsRetried'
  <2>1. /\ UNCHANGED <<site, file, armed, posted, pc, dropped>>
        /\ reader.at = "add" /\ Entry.enabled \in BOOLEAN
    BY <1>12, ReadFacts
  <2>2. CASE PassedOver
    BY <2>1, <2>2 DEF PassedOver
  <2>3. ASSUME NEW m \in Names, Inserted(m) PROVE EnabledIsRetried'
    <3>1. /\ records' = records \cup {made + 1} /\ made + 1 \in Records
          /\ reader'.at = "tell" /\ reader'.record = made + 1
      BY <2>3 DEF Inserted
    <3>3. Entry' = Entry
      BY <2>3 DEF Inserted, Entry
    <3>4. enabled'[made + 1] = Entry.enabled
      BY <2>3, <3>1 DEF Inserted, FlagsTyped
    <3>2. \A r \in records : /\ r # made + 1 /\ name'[r] = name[r]
                             /\ enabled'[r] = enabled[r]
      BY <2>3 DEF Inserted, FlagsTyped
    <3> QED BY <2>1, <3>1, <3>2, <3>3, <3>4
  <2> QED BY <1>12, <2>2, <2>3, ReadFacts
<1>13. ASSUME TellEntry PROVE EnabledIsRetried'
  <2>1. /\ UNCHANGED <<site, records, name, file, enabled, armed, pc>>
        /\ reader.record \in Records /\ records \subseteq Records
        /\ posted' \in [Records -> Nat]
        /\ \A r \in Records : posted'[r] >= posted[r]
        /\ dropped \subseteq dropped'
        /\ Entry.enabled =>
             posted'[reader.record] > 0 \/ reader.record \in dropped'
    BY <1>13, TellFacts
  <2>2. ASSUME NEW r \in records, enabled[r], file[r] = NoFile,
               ~ (site = NoSite /\ name[r] \notin Local)
        PROVE  ~ AtRest(r)' \/ r \in dropped'
    <3>1. ~ AtRest(r) \/ r \in dropped \/ AboutToBeTold(r)
      BY <2>2
    <3>2. r \in Records /\ posted[r] \in Nat /\ posted'[r] \in Nat
          /\ posted'[r] >= posted[r]
      BY <2>1
    <3>3. ~ AtRest(r) => ~ AtRest(r)'
      BY <2>1, <3>2
    <3>4. AboutToBeTold(r) => posted'[r] > 0 \/ r \in dropped'
      BY <2>1
    <3>5. posted'[r] > 0 => ~ AtRest(r)'
      BY <3>2
    <3> QED BY <2>1, <3>1, <3>3, <3>4, <3>5
  <2> QED BY <2>1, <2>2
<1>14. ASSUME ReadEnds PROVE EnabledIsRetried'
  BY <1>14 DEF ReadEnds, recordVars, threadVars, modelVars, bounds, Entry
<1>15. ASSUME NEW r \in Records, StartUpdate(r) PROVE EnabledIsRetried'
  BY <1>15 DEF StartUpdate, Goto, recordVars, threadVars, modelVars, bounds, Entry
<1>16. ASSUME NEW r \in Records, Load(r) PROVE EnabledIsRetried'
  BY <1>16 DEF Load, Goto, recordVars, threadVars, modelVars, bounds, Entry
<1>17. ASSUME NEW r \in Records, LoadFails(r) PROVE EnabledIsRetried'
  BY <1>17 DEF LoadFails, Goto, Forget, AfterFailure, recordVars, threadVars,
       modelVars, bounds, Entry
<1>18. ASSUME NEW r \in Records, LoadThrows(r) PROVE EnabledIsRetried'
  BY <1>18 DEF LoadThrows, Goto, Forget, recordVars, threadVars, modelVars,
       bounds, Entry
<1>19. ASSUME NEW r \in Records, Check(r) PROVE EnabledIsRetried'
  BY <1>19 DEF Check, Goto, recordVars, threadVars, modelVars, bounds, Entry
<1>20. ASSUME NEW r \in Records, Assign(r) PROVE EnabledIsRetried'
  BY <1>20 DEF Assign, Goto, recordVars, threadVars, modelVars, bounds, Entry,
       RenamedIsQueued
<1>21. ASSUME NEW r \in Records, Schedule(r) PROVE EnabledIsRetried'
  BY <1>21 DEF Schedule, Goto, Forget, recordVars, threadVars, modelVars,
       bounds, Entry, ToBeRefreshed, RenamedIsQueued
<1>22. ASSUME NEW r \in Records, Arm(r) PROVE EnabledIsRetried'
  BY <1>22 DEF Arm, Goto, recordVars, threadVars, modelVars, bounds, Entry,
       FlagsTyped
<1>23. ASSUME NEW r \in Records, Fire(r) PROVE EnabledIsRetried'
  BY <1>23 DEF Fire, Post, recordVars, threadVars, modelVars, bounds, Entry
<1>24. ASSUME UNCHANGED vars PROVE EnabledIsRetried'
  BY <1>24 DEF vars, recordVars, threadVars, modelVars, bounds, Entry
<1> QED BY <1>1, <1>2, <1>3, <1>4, <1>5, <1>6, <1>7, <1>8, <1>9, <1>10, <1>11,
     <1>12, <1>13, <1>14, <1>15, <1>16, <1>17, <1>18, <1>19, <1>20, <1>21,
     <1>22, <1>23, <1>24
     DEF Next, UserStep, ReaderStep, RecordStep

(* What holds at first. *)
LEMMA InvInit == Init => IInv
<1> SUFFICES ASSUME Init PROVE IInv
  OBVIOUS
<1> USE PlacefileAssumption
<1>1. RecordsTyped
  BY DEF Init, RecordsTyped, NoFile, NoRecord, Records
<1>2. FlagsTyped
  BY Zenon DEF Init, FlagsTyped
<1>3. ThreadsTyped
  <2>1. Len(Settings) \in Nat
    BY LenProperties
  <2> QED BY <2>1 DEF Init, ThreadsTyped
<1>4. GuiTyped /\ ModelsTyped
  <2>1. /\ <<>> \in Seq(Names)
        /\ <<>> \in Seq({Updated(n) : n \in Names} \cup {Initialized})
    OBVIOUS
  <2> QED BY <2>1 DEF Init, GuiTyped, ModelsTyped, NoRecord
<1>5. RecordsIndexed
  BY DEF Init, RecordsIndexed, Records, NoRecord
<1>6. NotMadeYet /\ RenamedIsQueued /\ EnabledIsRetried
  BY DEF Init, NotMadeYet, AtRest, RenamedIsQueued, EnabledIsRetried, Records,
       NoRecord
<1> QED BY <1>1, <1>2, <1>3, <1>4, <1>5, <1>6 DEF IInv, PlacefileTypeOK

(* The invariant is inductive. *)
LEMMA InvStep == IInv /\ [Next]_vars => IInv'
BY RecordsStep, FlagsStep, ThreadsStep, GuiStep, ModelsStep, IndexStep,
     NotMadeStep, RenamedStep,
   RetriedStep DEF IInv, PlacefileTypeOK

(* It holds of every behaviour. *)
LEMMA Invariant == Spec => []IInv
BY InvInit, InvStep, PTL DEF Spec

-----------------------------------------------------------------------------
(* The lists of rows and layers.                                           *)

(* Find finds what is in the list, and otherwise ends behind it. *)
LEMMA FoundIsIn ==
  ASSUME NEW S, NEW s \in Seq(S), NEW x
  PROVE  /\ Found(s, x) <=> x \in ToSet(s)
         /\ ~ Found(s, x) => Find(s, x) = Len(s) + 1
         /\ Find(s, x) \in 1 .. Len(s) + 1
<1>1. Len(s) \in Nat /\ DOMAIN s = 1 .. Len(s)
  BY LenProperties
<1>2. CASE x \in ToSet(s)
  <2>1. \E i \in DOMAIN s : s[i] = x /\ \A j \in 1 .. i - 1 : s[j] # x
    BY <1>2, FirstPosition DEF ToSet
  <2>2. Find(s, x) \in DOMAIN s
    BY <2>1 DEF Find
  <2> QED BY <1>1, <1>2, <2>2 DEF Found
<1>3. CASE x \notin ToSet(s)
  <2>1. Find(s, x) = Len(s) + 1
    BY <1>3 DEF Find, ToSet
  <2> QED BY <1>1, <1>3, <2>1 DEF Found
<1> QED BY <1>2, <1>3

(* Joining two lists joins their elements. *)
LEMMA ConcatToSet ==
  ASSUME NEW S, NEW s \in Seq(S), NEW t \in Seq(S)
  PROVE  /\ s \o t \in Seq(S) /\ Len(s \o t) = Len(s) + Len(t)
         /\ ToSet(s \o t) = ToSet(s) \cup ToSet(t)
<1>1. Range(s \o t) = Range(s) \cup Range(t)
  BY RangeConcatenation
<1>2. \A q : ToSet(q) = Range(q)
  BY DEF ToSet, Range
<1>3. ToSet(s \o t) = ToSet(s) \cup ToSet(t)
  BY <1>1, <1>2
<1> QED BY <1>3, ConcatProperties

(* InsertAt adds one element. *)
LEMMA InsertAtToSet ==
  ASSUME NEW S, NEW s \in Seq(S), NEW x \in S, NEW i \in 1 .. Len(s) + 1
  PROVE  /\ InsertAt(s, i, x) \in Seq(S)
         /\ ToSet(InsertAt(s, i, x)) = ToSet(s) \cup {x}
         /\ Len(InsertAt(s, i, x)) = Len(s) + 1
<1> DEFINE a == SubSeq(s, 1, i - 1)
           b == SubSeq(s, i, Len(s))
           c == <<x>>
<1>1. /\ a \in Seq(S) /\ Len(a) = i - 1
      /\ \A j \in 1 .. i - 1 : a[j] = s[j]
  OBVIOUS
<1>2. /\ b \in Seq(S) /\ Len(b) = Len(s) - i + 1
      /\ \A j \in 1 .. Len(s) - i + 1 : b[j] = s[j + i - 1]
  OBVIOUS
<1>3. Len(s) \in Nat /\ DOMAIN s = 1 .. Len(s)
      /\ DOMAIN a = 1 .. Len(a) /\ DOMAIN b = 1 .. Len(b)
  BY <1>1, <1>2, LenProperties
<1>4. InsertAt(s, i, x) = a \o c \o b
  BY DEF InsertAt
<1>6. c \in Seq(S) /\ Len(c) = 1 /\ ToSet(c) = {x}
  BY DEF ToSet
<1> HIDE DEF a, b, c
<1>5. ToSet(s) = ToSet(a) \cup ToSet(b)
  <2>1. ASSUME NEW j \in DOMAIN s PROVE s[j] \in ToSet(a) \cup ToSet(b)
    <3>1. CASE j < i
      BY <1>1, <1>3, <3>1 DEF ToSet
    <3>2. CASE j >= i
      <4>1. j - i + 1 \in DOMAIN b /\ b[j - i + 1] = s[j]
        BY <1>2, <1>3, <3>2
      <4> QED BY <4>1 DEF ToSet
    <3> QED BY <1>3, <3>1, <3>2
  <2>2. ToSet(a) \subseteq ToSet(s)
    BY <1>1, <1>3 DEF ToSet
  <2>3. ASSUME NEW j \in DOMAIN b PROVE b[j] \in ToSet(s)
    <3>1. j \in 1 .. Len(s) - i + 1
      BY <1>2, <1>3
    <3>2. j + i - 1 \in DOMAIN s
      BY <1>3, <3>1
    <3>3. b[j] = s[j + i - 1]
      BY <1>2, <3>1
    <3> QED BY <3>2, <3>3 DEF ToSet
  <2> QED BY <2>1, <2>2, <2>3 DEF ToSet
<1> DEFINE d == a \o c
<1>7. d \in Seq(S) /\ Len(d) = Len(a) + Len(c) /\ ToSet(d) = ToSet(a) \cup ToSet(c)
  BY <1>1, <1>6, ConcatToSet
<1> HIDE DEF d
<1>b. b \in Seq(S)
  BY <1>2
<1>8. /\ d \o b \in Seq(S) /\ Len(d \o b) = Len(d) + Len(b)
      /\ ToSet(d \o b) = ToSet(d) \cup ToSet(b)
  BY <1>b, <1>7, ConcatToSet
<1>9. Len(a) + Len(c) + Len(b) = Len(s) + 1
  BY <1>1, <1>2, <1>3, <1>6
<1>10. InsertAt(s, i, x) = d \o b
  BY <1>4 DEF d
<1> QED BY <1>5, <1>6, <1>7, <1>8, <1>9, <1>10

(* Removing or replacing the first occurrence leaves the other elements. *)
LEMMA OneChanged ==
  ASSUME NEW S, NEW s \in Seq(S), NEW x, NEW y \in S, Found(s, x)
  PROVE  /\ RemoveAt(s, Find(s, x)) \in Seq(S)
         /\ ToSet(s) \ {x} \subseteq ToSet(RemoveAt(s, Find(s, x)))
         /\ Len(RemoveAt(s, Find(s, x))) = Len(s) - 1
         /\ [s EXCEPT ![Find(s, x)] = y] \in Seq(S)
         /\ (ToSet(s) \ {x}) \cup {y} \subseteq ToSet([s EXCEPT ![Find(s, x)] = y])
<1>1. PICK i \in 1 .. Len(s) : i = Find(s, x) /\ s[i] = x
  BY FirstFound
<1>2. Len(s) \in Nat /\ DOMAIN s = 1 .. Len(s)
  BY LenProperties
<1> DEFINE r == RemoveAt(s, i)
           e == [s EXCEPT ![i] = y]
<1>3. /\ r \in Seq(S) /\ Len(r) = Len(s) - 1
      /\ \A j \in 1 .. Len(s) - 1 : r[j] = IF j < i THEN s[j] ELSE s[j + 1]
  BY RemoveAtFacts
<1>4. /\ e \in Seq(S) /\ Len(e) = Len(s)
      /\ \A j \in 1 .. Len(s) : e[j] = IF j = i THEN y ELSE s[j]
  BY ExceptSeq
<1> HIDE DEF r, e
<1>5. DOMAIN r = 1 .. Len(s) - 1 /\ DOMAIN e = 1 .. Len(s)
  BY <1>3, <1>4, LenProperties
<1>6. ASSUME NEW j \in DOMAIN s, s[j] # x PROVE s[j] \in ToSet(r)
  <2>1. CASE j < i
    BY <1>2, <1>3, <1>5, <2>1 DEF ToSet
  <2>2. CASE j > i
    <3>1. j - 1 \in DOMAIN r /\ r[j - 1] = s[j]
      BY <1>2, <1>3, <1>5, <2>2
    <3> QED BY <3>1 DEF ToSet
  <2> QED BY <1>1, <1>2, <1>6, <2>1, <2>2
<1>7. ASSUME NEW j \in DOMAIN s, s[j] # x PROVE s[j] \in ToSet(e)
  BY <1>1, <1>2, <1>4, <1>5, <1>7 DEF ToSet
<1>8. y \in ToSet(e)
  BY <1>4, <1>5 DEF ToSet
<1>9. ToSet(s) \ {x} \subseteq ToSet(r) /\ ToSet(s) \ {x} \subseteq ToSet(e)
  BY <1>6, <1>7 DEF ToSet
<1> QED BY <1>1, <1>3, <1>4, <1>8, <1>9 DEF r, e

(* Induction over a set of numbers. *)
LEMMA NumberInduction ==
  ASSUME NEW T, 0 \in T, \A n \in Nat : n \in T => n + 1 \in T
  PROVE  \A n \in Nat : n \in T
<1> SUFFICES ASSUME Nat \ T # {} PROVE FALSE
  OBVIOUS
<1>1. PICK x \in Nat \ T : \A y \in Nat \ T : ~ (y < x)
  BY LeastNumber
<1>2. x # 0 /\ x - 1 \in Nat /\ x - 1 < x
  BY <1>1
<1>3. x - 1 \in T
  BY <1>1, <1>2
<1> QED BY <1>1, <1>2, <1>3

(* What Kept leaves. *)
LEMMA KeptFacts ==
  ASSUME NEW S, NEW s \in Seq(S), NEW keep
  PROVE  Kept(s, keep) \in Seq(S) /\ ToSet(Kept(s, keep)) = ToSet(s) \cap keep
<1> DEFINE Step(f, i) ==
      IF i = 0 THEN <<>>
      ELSE IF s[i] \in keep THEN Append(f[i - 1], s[i]) ELSE f[i - 1]
           T == {n \in Nat : \E f : f = [i \in 0 .. n |-> Step(f, i)]}
<1>1. 0 \in T
  <2>1. [i \in 0 .. 0 |-> <<>>] =
          [i \in 0 .. 0 |-> Step([j \in 0 .. 0 |-> <<>>], i)]
    OBVIOUS
  <2> QED BY <2>1
<1>2. ASSUME NEW n \in T PROVE n + 1 \in T
  <2>1. PICK f : f = [i \in 0 .. n |-> Step(f, i)]
    OBVIOUS
  <2> DEFINE g == [i \in 0 .. n + 1 |-> IF i <= n THEN f[i] ELSE Step(f, i)]
  <2>2. g = [i \in 0 .. n + 1 |-> Step(g, i)]
    <3>1. ASSUME NEW i \in 0 .. n + 1 PROVE g[i] = Step(g, i)
      <4>1. CASE i = 0
        BY <2>1, <4>1
      <4>2. CASE i # 0
        <5>1. i - 1 \in 0 .. n /\ g[i - 1] = f[i - 1]
          BY <4>2
        <5>2. g[i] = Step(f, i)
          <6> HIDE DEF Step
          <6>1. CASE i <= n
            <7>1. i \in 0 .. n /\ g[i] = f[i]
              BY <6>1
            <7> HIDE DEF g
            <7> QED BY <2>1, <7>1
          <6>2. CASE i = n + 1
            BY <6>2
          <6> QED BY <6>1, <6>2
        <5> QED BY <4>2, <5>1, <5>2
      <4> QED BY <4>1, <4>2
    <3> QED BY <3>1
  <2> HIDE DEF g, Step
  <2>3. n + 1 \in Nat
    OBVIOUS
  <2> QED BY <2>2, <2>3
<1>3. Len(s) \in Nat /\ DOMAIN s = 1 .. Len(s)
  BY LenProperties
<1>4. Len(s) \in T
  <2> HIDE DEF T
  <2> QED BY <1>1, <1>2, <1>3, NumberInduction
<1> DEFINE kept == CHOOSE f : f = [i \in 0 .. Len(s) |-> Step(f, i)]
<1>5. kept = [i \in 0 .. Len(s) |-> Step(kept, i)]
  BY <1>4
<1>6. Kept(s, keep) = kept[Len(s)]
  BY DEF Kept
<1> HIDE DEF kept
<1>7. kept[0] = <<>> /\ \A i \in 1 .. Len(s) : kept[i] =
        IF s[i] \in keep THEN Append(kept[i - 1], s[i]) ELSE kept[i - 1]
  <2>1. ASSUME NEW i \in 0 .. Len(s) PROVE kept[i] = Step(kept, i)
    <3> HIDE DEF Step
    <3> QED BY <1>5
  <2>2. ASSUME NEW i \in 1 .. Len(s) PROVE kept[i] =
        IF s[i] \in keep THEN Append(kept[i - 1], s[i]) ELSE kept[i - 1]
    <3>1. i \in 0 .. Len(s) /\ i # 0
      OBVIOUS
    <3> QED BY <2>1, <3>1
  <2>3. kept[0] = <<>>
    BY <1>3, <2>1
  <2> QED BY <2>2, <2>3
<1> DEFINE P == {n \in Nat : n <= Len(s) =>
                   /\ kept[n] \in Seq(S)
                   /\ ToSet(kept[n]) = {s[i] : i \in 1 .. n} \cap keep}
<1>8. 0 \in P
  <2>1. <<>> \in Seq(S) /\ ToSet(<<>>) = {}
    BY DEF ToSet
  <2>2. {s[i] : i \in 1 .. 0} = {}
    OBVIOUS
  <2> QED BY <1>7, <2>1, <2>2
<1>9. ASSUME NEW n \in P PROVE n + 1 \in P
  <2> SUFFICES ASSUME n + 1 <= Len(s)
               PROVE  /\ kept[n + 1] \in Seq(S)
                      /\ ToSet(kept[n + 1]) = {s[i] : i \in 1 .. n + 1} \cap keep
    OBVIOUS
  <2>1. /\ kept[n] \in Seq(S) /\ n + 1 \in 1 .. Len(s)
        /\ ToSet(kept[n]) = {s[i] : i \in 1 .. n} \cap keep
    BY <1>3
  <2>2. s[n + 1] \in S
    BY <2>1, ElementOfSeq
  <2>3. {s[i] : i \in 1 .. n + 1} = {s[i] : i \in 1 .. n} \cup {s[n + 1]}
    OBVIOUS
  <2>4. CASE s[n + 1] \in keep
    <3>1. kept[n + 1] = Append(kept[n], s[n + 1])
      <4>1. PICK i \in 1 .. Len(s) : i = n + 1
        BY <2>1
      <4>2. kept[i] = Append(kept[i - 1], s[i])
        BY <1>7, <2>4, <4>1
      <4>3. i - 1 = n
        BY <4>1
      <4> QED BY <4>1, <4>2, <4>3
    <3>2. /\ Append(kept[n], s[n + 1]) \in Seq(S)
          /\ ToSet(Append(kept[n], s[n + 1])) = ToSet(kept[n]) \cup {s[n + 1]}
      BY <2>1, <2>2, AppendToSet
    <3> QED BY <2>1, <2>3, <2>4, <3>1, <3>2
  <2>5. CASE s[n + 1] \notin keep
    <3>1. kept[n + 1] = kept[n]
      BY <1>7, <2>1, <2>5
    <3> QED BY <2>1, <2>3, <2>5, <3>1
  <2> QED BY <2>4, <2>5
<1>10. Len(s) \in P
  <2> HIDE DEF P
  <2>1. \A n \in Nat : n \in P => n + 1 \in P
    BY <1>9
  <2> QED BY <1>3, <1>8, <2>1, NumberInduction
<1>11. ToSet(s) = {s[i] : i \in 1 .. Len(s)}
  BY <1>3 DEF ToSet
<1> QED BY <1>3, <1>6, <1>10, <1>11

(* One immovable layer put in its place, if the one before it is there. *)
LEMMA PlaceFacts ==
  ASSUME NEW s \in Seq(Layers), NEW i \in 1 .. Len(ImmovableLayers),
         i # 1 => Found(s, ImmovableLayers[i - 1])
  PROVE  /\ PlaceImmovable(s, i) \in Seq(Layers)
         /\ Found(PlaceImmovable(s, i), ImmovableLayers[i])
<1> DEFINE l == ImmovableLayers[i]
           before == IF i = 1 THEN 0 ELSE Find(s, ImmovableLayers[i - 1])
           shorter == RemoveAt(s, Find(s, l))
<1>1. ImmovableLayers \in Seq(Layers)
  <2>1. DefaultLayers \in Seq(Layers)
    BY LayerAssumption, SeqMonotonic DEF Layers
  <2> QED BY <2>1, KeptFacts DEF ImmovableLayers
<1>2. l \in Layers
  BY <1>1, ElementOfSeq
<1>3. Len(s) \in Nat /\ before \in 0 .. Len(s)
  BY LenProperties, FirstFound
<1>4. Find(s, l) \in 1 .. Len(s) + 1
  BY FoundIsIn
<1>5. CASE Find(s, l) < before
  <2>1. Found(s, l)
    BY <1>3, <1>4, <1>5 DEF Found
  <2>2. shorter \in Seq(Layers) /\ Len(shorter) = Len(s) - 1
    BY <1>2, <2>1, OneChanged
  <2> DEFINE at == IF before < Len(s) THEN before + 1 ELSE before
  <2>3. at \in 1 .. Len(shorter) + 1
    BY <1>3, <1>4, <1>5, <2>2
  <2>4. PlaceImmovable(s, i) = InsertAt(shorter, at, l)
    BY <1>5 DEF PlaceImmovable
  <2> HIDE DEF at, shorter, l
  <2>5. /\ InsertAt(shorter, at, l) \in Seq(Layers)
        /\ l \in ToSet(InsertAt(shorter, at, l))
    BY <1>2, <2>2, <2>3, InsertAtToSet
  <2>6. Found(PlaceImmovable(s, i), l)
    BY <2>4, <2>5, FoundIsIn
  <2> QED BY <2>4, <2>5, <2>6 DEF l
<1>6. CASE ~ (Find(s, l) < before) /\ Found(s, l)
  BY <1>6 DEF PlaceImmovable
<1>7. CASE ~ (Find(s, l) < before) /\ ~ Found(s, l)
  <2>1. PlaceImmovable(s, i) = InsertAt(s, before + 1, l)
    BY <1>7 DEF PlaceImmovable
  <2>2. before + 1 \in 1 .. Len(s) + 1
    BY <1>3
  <2> HIDE DEF before, l
  <2>3. /\ InsertAt(s, before + 1, l) \in Seq(Layers)
        /\ l \in ToSet(InsertAt(s, before + 1, l))
    BY <1>2, <2>2, InsertAtToSet
  <2>4. Found(PlaceImmovable(s, i), l)
    BY <2>1, <2>3, FoundIsIn
  <2> QED BY <2>1, <2>3, <2>4 DEF l
<1> QED BY <1>5, <1>6, <1>7

(* All immovable layers put in their places. *)
LEMMA PlacedTyped ==
  ASSUME NEW s \in Seq(Layers) PROVE PlacedImmovable(s) \in Seq(Layers)
<1> DEFINE N == Len(ImmovableLayers)
           Step(f, i) == IF i = 0 THEN s ELSE PlaceImmovable(f[i - 1], i)
           T == {n \in Nat : \E f : f = [i \in 0 .. n |-> Step(f, i)]}
<1>0. N \in Nat
  <2>1. ImmovableLayers \in Seq(ToSet(DefaultLayers))
    BY LayerAssumption, KeptFacts DEF ImmovableLayers
  <2> QED BY <2>1, LenProperties
<1> HIDE DEF N
<1>1. 0 \in T
  <2>1. [i \in 0 .. 0 |-> s] = [i \in 0 .. 0 |-> Step([j \in 0 .. 0 |-> s], i)]
    OBVIOUS
  <2> QED BY <2>1
<1>2. ASSUME NEW n \in T PROVE n + 1 \in T
  <2>1. PICK f : f = [i \in 0 .. n |-> Step(f, i)]
    OBVIOUS
  <2> DEFINE g == [i \in 0 .. n + 1 |-> IF i <= n THEN f[i] ELSE Step(f, i)]
  <2>2. ASSUME NEW i \in 0 .. n + 1 PROVE g[i] = Step(g, i)
    <3>1. g[i] = Step(f, i)
      <4>1. CASE i <= n
        <5>1. i \in 0 .. n /\ g[i] = f[i]
          BY <4>1
        <5> HIDE DEF g, Step
        <5> QED BY <2>1, <5>1
      <4>2. CASE i = n + 1
        BY <4>2
      <4> QED BY <4>1, <4>2
    <3>2. i # 0 => i - 1 \in 0 .. n /\ g[i - 1] = f[i - 1]
      OBVIOUS
    <3> HIDE DEF g
    <3> QED BY <3>1, <3>2
  <2>3. g = [i \in 0 .. n + 1 |-> Step(g, i)] /\ n + 1 \in Nat
    BY <2>2
  <2> HIDE DEF g, Step
  <2> QED BY <2>3
<1>3. N \in T
  <2> HIDE DEF T
  <2> QED BY <1>0, <1>1, <1>2, NumberInduction
<1> DEFINE placed == CHOOSE f : f = [i \in 0 .. N |-> Step(f, i)]
<1>4. placed = [i \in 0 .. N |-> Step(placed, i)]
  BY <1>3
<1>5. PlacedImmovable(s) = placed[N]
  BY DEF PlacedImmovable, N
<1> HIDE DEF placed
<1>6. ASSUME NEW i \in 0 .. N PROVE placed[i] = Step(placed, i)
  <2> HIDE DEF Step
  <2> QED BY <1>4
<1> DEFINE P == {n \in Nat : n <= N =>
                   /\ placed[n] \in Seq(Layers)
                   /\ n # 0 => Found(placed[n], ImmovableLayers[n])}
<1>7. 0 \in P
  BY <1>0, <1>6
<1>8. ASSUME NEW n \in P PROVE n + 1 \in P
  <2> SUFFICES ASSUME n + 1 <= N
               PROVE  /\ placed[n + 1] \in Seq(Layers)
                      /\ Found(placed[n + 1], ImmovableLayers[n + 1])
    OBVIOUS
  <2>1. PICK i \in 1 .. N : i = n + 1
    BY <1>0
  <2>2. placed[n] \in Seq(Layers) /\ n = i - 1
        /\ (i # 1 => Found(placed[n], ImmovableLayers[i - 1]))
    BY <1>0, <2>1
  <2>3. placed[i] = PlaceImmovable(placed[n], i)
    BY <1>6, <2>1, <2>2
  <2> QED BY <2>1, <2>2, <2>3, PlaceFacts DEF N
<1>9. N \in P
  <2> HIDE DEF P
  <2> QED BY <1>0, <1>7, <1>8, NumberInduction
<1> QED BY <1>0, <1>5, <1>9

(* All default layers completed. *)
LEMMA CompletedTyped ==
  ASSUME NEW s \in Seq(Layers) PROVE CompletedDefaults(s) \in Seq(Layers)
<1> DEFINE N == Len(DefaultLayers)
           Step(f, k) == IF k = 0 THEN s
                         ELSE CompleteDefault(f[k - 1], N + 1 - k)
           T == {n \in Nat : \E f : f = [k \in 0 .. n |-> Step(f, k)]}
<1>0. N \in Nat /\ DefaultLayers \in Seq(Layers)
  BY LayerAssumption, LenProperties, SeqMonotonic DEF Layers
<1> HIDE DEF N
<1>1. 0 \in T
  <2>1. [k \in 0 .. 0 |-> s] = [k \in 0 .. 0 |-> Step([j \in 0 .. 0 |-> s], k)]
    OBVIOUS
  <2> QED BY <2>1
<1>2. ASSUME NEW n \in T PROVE n + 1 \in T
  <2>1. PICK f : f = [k \in 0 .. n |-> Step(f, k)]
    OBVIOUS
  <2> DEFINE g == [k \in 0 .. n + 1 |-> IF k <= n THEN f[k] ELSE Step(f, k)]
  <2>2. ASSUME NEW k \in 0 .. n + 1 PROVE g[k] = Step(g, k)
    <3>1. g[k] = Step(f, k)
      <4>1. CASE k <= n
        <5>1. k \in 0 .. n /\ g[k] = f[k]
          BY <4>1
        <5> HIDE DEF g, Step
        <5> QED BY <2>1, <5>1
      <4>2. CASE k = n + 1
        BY <4>2
      <4> QED BY <4>1, <4>2
    <3>2. k # 0 => k - 1 \in 0 .. n /\ g[k - 1] = f[k - 1]
      OBVIOUS
    <3> HIDE DEF g
    <3> QED BY <3>1, <3>2
  <2>3. g = [k \in 0 .. n + 1 |-> Step(g, k)] /\ n + 1 \in Nat
    BY <2>2
  <2> HIDE DEF g, Step
  <2> QED BY <2>3
<1>3. N \in T
  <2> HIDE DEF T
  <2> QED BY <1>0, <1>1, <1>2, NumberInduction
<1> DEFINE completed == CHOOSE f : f = [k \in 0 .. N |-> Step(f, k)]
<1>4. completed = [k \in 0 .. N |-> Step(completed, k)]
  BY <1>3
<1>5. CompletedDefaults(s) = completed[N]
  BY DEF CompletedDefaults, N
<1> HIDE DEF completed
<1>6. ASSUME NEW k \in 0 .. N PROVE completed[k] = Step(completed, k)
  <2> HIDE DEF Step
  <2> QED BY <1>4
<1>7. ASSUME NEW q \in Seq(Layers), NEW i \in 1 .. N
      PROVE  CompleteDefault(q, i) \in Seq(Layers)
  <2>1. DefaultLayers[i] \in Layers /\ Len(q) \in Nat
    BY <1>0, ElementOfSeq, LenProperties DEF N
  <2> DEFINE at == IF i = N THEN Len(q) + 1 ELSE Find(q, DefaultLayers[i + 1])
  <2>2. at \in 1 .. Len(q) + 1
    BY <2>1, FoundIsIn
  <2>3. CompleteDefault(q, i) = IF Found(q, DefaultLayers[i]) THEN q
                                ELSE InsertAt(q, at, DefaultLayers[i])
    BY DEF CompleteDefault, N
  <2> HIDE DEF at
  <2> QED BY <2>1, <2>2, <2>3, InsertAtToSet
<1> DEFINE P == {n \in Nat : n <= N => completed[n] \in Seq(Layers)}
<1>8. 0 \in P
  BY <1>0, <1>6
<1>9. ASSUME NEW n \in P PROVE n + 1 \in P
  <2> SUFFICES ASSUME n + 1 <= N PROVE completed[n + 1] \in Seq(Layers)
    OBVIOUS
  <2>1. PICK k \in 1 .. N : k = n + 1
    BY <1>0
  <2>2. completed[n] \in Seq(Layers) /\ n = k - 1 /\ N + 1 - k \in 1 .. N
    BY <1>0, <2>1
  <2>3. completed[k] = CompleteDefault(completed[n], N + 1 - k)
    BY <1>6, <2>1, <2>2
  <2> QED BY <1>7, <2>1, <2>2, <2>3
<1>10. N \in P
  <2> HIDE DEF P
  <2> QED BY <1>0, <1>8, <1>9, NumberInduction
<1> QED BY <1>0, <1>5, <1>10

(* The layers read from the file are layers. *)
LEMMA ValidatedTyped == ValidateLayerSettings(SavedLayers) \in Seq(Layers)
<1>1. Kept(SavedLayers, Layers) \in Seq(Layers)
  <2>1. /\ Kept(SavedLayers, Layers) \in Seq(Layers \cup {UnknownLayer})
        /\ ToSet(Kept(SavedLayers, Layers)) \subseteq Layers
    BY PlacefileAssumption, KeptFacts
  <2> DEFINE q == Kept(SavedLayers, Layers)
  <2> HIDE DEF q
  <2>2. q \in Seq(Range(q)) /\ Range(q) = ToSet(q)
    BY <2>1, SeqOfRange DEF q, Range, ToSet
  <2> QED BY <2>1, <2>2, SeqMonotonic DEF q
<1>2. PlacedImmovable(Kept(SavedLayers, Layers)) \in Seq(Layers)
  BY <1>1, PlacedTyped
<1> QED BY <1>2, CompletedTyped DEF ValidateLayerSettings

(* What a signal makes of the layers. *)
LEMMA LayersChanged ==
  ASSUME NEW s \in Seq(Layers), NEW n \in Names, NEW m
  PROVE  /\ HandleUpdated(s, n) \in Seq(Layers)
         /\ ToSet(s) \cup {n} \subseteq ToSet(HandleUpdated(s, n))
         /\ HandleRenamed(s, m, n) \in Seq(Layers)
         /\ (ToSet(s) \ {m}) \cup {n} \subseteq ToSet(HandleRenamed(s, m, n))
         /\ HandleRemoved(s, m) \in Seq(Layers)
         /\ ToSet(s) \ {m} \subseteq ToSet(HandleRemoved(s, m))
         /\ \A known : /\ SynchronizePlacefileLayers(s, known) \in Seq(Layers)
                      /\ ToSet(s) \cap known
                           \subseteq ToSet(SynchronizePlacefileLayers(s, known))
<1>1. n \in Layers
  BY DEF Layers
<1>2. /\ AddPlacefile(s, n) \in Seq(Layers)
      /\ ToSet(AddPlacefile(s, n)) = ToSet(s) \cup {n}
  <2> DEFINE at == IF Find(s, RadarSite) <= Len(s) THEN Find(s, RadarSite) + 1
                   ELSE Find(s, RadarSite)
  <2>1. at \in 1 .. Len(s) + 1
    BY FoundIsIn, LenProperties
  <2>2. AddPlacefile(s, n) = InsertAt(s, at, n)
    BY DEF AddPlacefile
  <2> HIDE DEF at
  <2> QED BY <1>1, <2>1, <2>2, InsertAtToSet
<1>3. /\ HandleUpdated(s, n) \in Seq(Layers)
      /\ ToSet(s) \cup {n} \subseteq ToSet(HandleUpdated(s, n))
  BY <1>2, FoundIsIn DEF HandleUpdated
<1>4. /\ HandleRenamed(s, m, n) \in Seq(Layers)
      /\ (ToSet(s) \ {m}) \cup {n} \subseteq ToSet(HandleRenamed(s, m, n))
  BY <1>1, <1>2, OneChanged DEF HandleRenamed
<1>5. /\ HandleRemoved(s, m) \in Seq(Layers)
      /\ ToSet(s) \ {m} \subseteq ToSet(HandleRemoved(s, m))
  BY <1>1, OneChanged DEF HandleRemoved
<1>6. ASSUME NEW known
      PROVE  /\ SynchronizePlacefileLayers(s, known) \in Seq(Layers)
             /\ ToSet(s) \cap known
                  \subseteq ToSet(SynchronizePlacefileLayers(s, known))
  BY KeptFacts DEF SynchronizePlacefileLayers
<1> QED BY <1>3, <1>4, <1>5, <1>6

(* Removing the first occurrence leaves the others, in rows and layers. *)
LEMMA KeepsOthers ==
  ASSUME NEW S, NEW s \in Seq(S), NEW x
  PROVE  /\ WithoutFirst(s, x) \in Seq(S)
         /\ ToSet(s) \ {x} \subseteq ToSet(WithoutFirst(s, x))
<1>1. CASE ~ Found(s, x)
  BY <1>1 DEF WithoutFirst
<1>2. CASE Found(s, x)
  <2>1. PICK y \in S : TRUE
    BY <1>2, FirstFound, ElementOfSeq
  <2> QED BY <1>2, <2>1, OneChanged DEF WithoutFirst, RemoveAt
<1> QED BY <1>1, <1>2

(* What a signal makes of the rows. *)
LEMMA RowsChanged ==
  ASSUME rows \in Seq(Names), NEW n \in Names, NEW m
  PROVE  /\ ToSet(rows) \cup {n} \subseteq ToSet(WithRow(n))
         /\ (ToSet(rows) \ {m}) \cup {n} \subseteq
              ToSet(IF Found(rows, m) THEN [rows EXCEPT ![Find(rows, m)] = n]
                    ELSE Append(rows, n))
         /\ ToSet(rows) \ {m} \subseteq ToSet(WithoutFirst(rows, m))
<1>1. ToSet(Append(rows, n)) = ToSet(rows) \cup {n}
  BY AppendToSet
<1>2. ToSet(rows) \cup {n} \subseteq ToSet(WithRow(n))
  BY <1>1, FoundIsIn DEF WithRow
<1>3. ToSet(rows) \ {m} \subseteq ToSet(WithoutFirst(rows, m))
  BY OneChanged DEF WithoutFirst, RemoveAt
<1> QED BY <1>1, <1>2, <1>3, OneChanged

-----------------------------------------------------------------------------
(* A record is in the lists, or a signal that puts it there is to come.    *)

(* A row for n is under way in the queue q, and a layer as well, ahead of  *)
(* the signal that the placefiles have been read.                          *)
ToCome(q, n)     == Updated(n) \in ToSet(q)
ToComeInTime(q, n) ==
  \E i \in DOMAIN q : /\ q[i] = Updated(n)
                      /\ \A j \in 1 .. i - 1 : q[j] # Initialized
Telling(r) == reader.at = "tell" /\ reader.record = r /\ Entry.name = name[r]

(* The end of the reading is told once. *)
Once(q) == \A i, j \in DOMAIN q : q[i] = Initialized /\ q[j] = Initialized => i = j
EndIsTold ==
  /\ synchronized \/ Initialized \in ToSet(queue) => reader.at = "done"
  /\ ~ (synchronized /\ Initialized \in ToSet(queue))
  /\ Once(queue)

(* Every record has its row or will get it. *)
RowsComplete ==
  \A r \in records : name[r] \in ToSet(rows) \/ ToCome(queue, name[r]) \/ Telling(r)

(* And its layer; before the layers are synchronized it has been met, too. *)
LayersComplete ==
  ~ early =>
    \A r \in records :
      \/ synchronized /\ (name[r] \in ToSet(layers) \/ ToCome(queue, name[r]))
      \/ /\ ~ synchronized
         /\ \/ name[r] \in met \cap ToSet(layers)
            \/ ToComeInTime(queue, name[r])
            \/ Telling(r)

(* The name of the record that is being destroyed is free. *)
LeavesItsName == gui # "idle" => \A r \in records : name[r] # name[leaving]

Listed == /\ EndIsTold /\ RowsComplete /\ LayersComplete /\ LeavesItsName
          /\ layers \in Seq(Layers)

Signals == {Updated(n) : n \in Names} \cup {Initialized}

(* A signal is queued. *)
LEMMA QueueGrows ==
  ASSUME NEW q \in Seq(Signals), NEW x \in Signals
  PROVE  /\ Append(q, x) \in Seq(Signals)
         /\ ToSet(Append(q, x)) = ToSet(q) \cup {x}
         /\ \A n : ToComeInTime(q, n) => ToComeInTime(Append(q, x), n)
         /\ \A n : x = Updated(n) /\ Initialized \notin ToSet(q) =>
              ToComeInTime(Append(q, x), n)
         /\ Once(q) /\ (x # Initialized \/ Initialized \notin ToSet(q)) =>
              Once(Append(q, x))
<1> DEFINE p == Append(q, x)
<1>1. /\ p \in Seq(Signals) /\ ToSet(p) = ToSet(q) \cup {x}
      /\ Len(q) \in Nat /\ DOMAIN q = 1 .. Len(q) /\ DOMAIN p = 1 .. Len(q) + 1
      /\ \A i \in 1 .. Len(q) : p[i] = q[i]
      /\ p[Len(q) + 1] = x
  BY AppendToSet, AppendProperties, LenProperties
<1> HIDE DEF p
<1>2. ASSUME NEW n, ToComeInTime(q, n) PROVE ToComeInTime(p, n)
  <2>1. PICK i \in DOMAIN q : /\ q[i] = Updated(n)
                              /\ \A j \in 1 .. i - 1 : q[j] # Initialized
    BY <1>2 DEF ToComeInTime
  <2>2. /\ i \in DOMAIN p /\ p[i] = Updated(n)
        /\ \A j \in 1 .. i - 1 : p[j] # Initialized
    BY <1>1, <2>1
  <2> QED BY <2>2 DEF ToComeInTime
<1>3. ASSUME NEW n, x = Updated(n), Initialized \notin ToSet(q)
      PROVE  ToComeInTime(p, n)
  <2>1. \A j \in 1 .. Len(q) : p[j] # Initialized
    BY <1>1, <1>3 DEF ToSet
  <2>2. Len(q) + 1 \in DOMAIN p /\ Len(q) + 1 - 1 = Len(q)
    BY <1>1
  <2> QED BY <1>1, <1>3, <2>1, <2>2 DEF ToComeInTime
<1>4. ASSUME Once(q), x # Initialized \/ Initialized \notin ToSet(q)
      PROVE  Once(p)
  BY <1>1, <1>4 DEF Once, ToSet
<1> QED BY <1>1, <1>2, <1>3, <1>4 DEF p

(* A signal is delivered. *)
LEMMA QueueShrinks ==
  ASSUME NEW q \in Seq(Signals), q # <<>>
  PROVE  /\ Tail(q) \in Seq(Signals) /\ Head(q) \in Signals
         /\ ToSet(q) = {Head(q)} \cup ToSet(Tail(q))
         /\ \A n : ToComeInTime(q, n) /\ Head(q) # Updated(n) =>
              Head(q) # Initialized /\ ToComeInTime(Tail(q), n)
         /\ Once(q) => /\ Once(Tail(q))
                       /\ Head(q) = Initialized => Initialized \notin ToSet(Tail(q))
<1> DEFINE t == Tail(q)
<1>1. /\ t \in Seq(Signals) /\ Head(q) \in Signals /\ Head(q) = q[1]
      /\ ToSet(q) = {Head(q)} \cup ToSet(t)
      /\ Len(q) \in Nat \ {0}
      /\ DOMAIN q = 1 .. Len(q) /\ DOMAIN t = 1 .. Len(q) - 1
      /\ \A i \in 1 .. Len(q) - 1 : t[i] = q[i + 1]
  BY HeadTailToSet, HeadTailProperties, EmptySeq, LenProperties
<1> HIDE DEF t
<1>2. ASSUME NEW n, ToComeInTime(q, n), Head(q) # Updated(n)
      PROVE  Head(q) # Initialized /\ ToComeInTime(t, n)
  <2>1. PICK i \in DOMAIN q : /\ q[i] = Updated(n)
                              /\ \A j \in 1 .. i - 1 : q[j] # Initialized
    BY <1>2 DEF ToComeInTime
  <2>2. i > 1 /\ 1 \in 1 .. i - 1 /\ i - 1 \in DOMAIN t
    BY <1>1, <1>2, <2>1
  <2>3. t[i - 1] = Updated(n)
    BY <1>1, <2>1, <2>2
  <2>4. \A j \in 1 .. i - 1 - 1 : t[j] # Initialized
    BY <1>1, <2>1, <2>2
  <2> QED BY <1>1, <2>1, <2>2, <2>3, <2>4 DEF ToComeInTime
<1>3. ASSUME Once(q) PROVE Once(t)
  <2> SUFFICES ASSUME NEW i \in DOMAIN t, NEW j \in DOMAIN t,
                      t[i] = Initialized, t[j] = Initialized
               PROVE  i = j
    BY DEF Once
  <2>1. i + 1 \in DOMAIN q /\ j + 1 \in DOMAIN q /\ q[i + 1] = q[j + 1]
    BY <1>1
  <2>2. i + 1 = j + 1
    BY <1>1, <1>3, <2>1 DEF Once
  <2> QED BY <1>1, <2>2
<1>4. ASSUME Once(q), Head(q) = Initialized, NEW i \in DOMAIN t, t[i] = Initialized
      PROVE  FALSE
  <2>1. i + 1 \in DOMAIN q /\ q[i + 1] = Initialized /\ 1 \in DOMAIN q
    BY <1>1, <1>4
  <2>2. i + 1 = 1
    BY <1>1, <1>4, <2>1 DEF Once
  <2> QED BY <1>1, <2>2
<1>5. Once(q) /\ Head(q) = Initialized => Initialized \notin ToSet(t)
  BY <1>4 DEF ToSet
<1> QED BY <1>1, <1>2, <1>3, <1>5 DEF t

(* What the listing of the records is about. *)
ListVars == <<records, name, rows, layers, met, synchronized, early,
              readerPlace>>

(* A step that at most announces an update, or goes on with a destructor. *)
LEMMA QuietListed ==
  ASSUME PlacefileTypeOK, Listed, UNCHANGED ListVars, UNCHANGED leaving,
         gui' = gui \/ gui # "idle",
         queue' = queue \/ \E n \in Names : queue' = Append(queue, Updated(n))
  PROVE  Listed'
<1>1. queue \in Seq(Signals)
  BY DEF PlacefileTypeOK, GuiTyped, Signals
<1>2. /\ Initialized \in ToSet(queue') => Initialized \in ToSet(queue)
      /\ Once(queue')
      /\ \A n : ToCome(queue, n) => ToCome(queue', n)
      /\ \A n : ToComeInTime(queue, n) => ToComeInTime(queue', n)
  <2>1. CASE queue' = queue
    BY <2>1 DEF Listed, EndIsTold
  <2>2. ASSUME NEW m \in Names, queue' = Append(queue, Updated(m))
        PROVE  <1>2
    <3> DEFINE x == Updated(m)
    <3>1. x \in Signals /\ x # Initialized
      BY DEF Signals, Updated, Initialized
    <3> HIDE DEF x
    <3>2. Once(queue)
      BY DEF Listed, EndIsTold
    <3> QED BY <1>1, <2>2, <3>1, <3>2, QueueGrows DEF ToCome, x
  <2> QED BY <2>1, <2>2
<1>3. /\ records' = records /\ name' = name /\ rows' = rows /\ layers' = layers
      /\ met' = met /\ synchronized' = synchronized /\ early' = early
      /\ reader'.at = reader.at /\ reader'.entry = reader.entry
      /\ reader'.record = reader.record /\ leaving' = leaving
  BY DEF ListVars, readerPlace
<1>4. EndIsTold'
  BY <1>2, <1>3 DEF Listed, EndIsTold
<1>5. \A r : Telling(r)' <=> Telling(r)
  BY <1>3 DEF Telling, Entry
<1>6. RowsComplete'
  BY <1>2, <1>3, <1>5 DEF Listed, RowsComplete
<1>7. LayersComplete'
  BY <1>2, <1>3, <1>5 DEF Listed, LayersComplete
<1>8. LeavesItsName' /\ (layers \in Seq(Layers))'
  BY <1>3 DEF Listed, LeavesItsName
<1> QED BY <1>4, <1>6, <1>7, <1>8 DEF Listed

(* The models show an update, of a record that is new or was there before. *)
LEMMA ShownListed ==
  ASSUME PlacefileTypeOK, Listed, NEW n \in Names, ShowUpdated(n),
         UNCHANGED <<early, readerPlace, leaving, gui>>, gui = "idle",
         \A r \in records' : (r \in records /\ name'[r] = name[r]) \/ name'[r] = n,
         \/ queue' = queue
         \/ queue # <<>> /\ Head(queue) = Updated(n) /\ queue' = Tail(queue)
  PROVE  Listed'
<1>1. queue \in Seq(Signals) /\ rows \in Seq(Names)
  BY DEF PlacefileTypeOK, GuiTyped, ModelsTyped, Signals
<1>2. /\ ToSet(queue') \subseteq ToSet(queue)
      /\ Once(queue')
      /\ \A m : m # n /\ ToCome(queue, m) => ToCome(queue', m)
      /\ \A m : m # n /\ ToComeInTime(queue, m) => ToComeInTime(queue', m)
  <2>1. CASE queue' = queue
    BY <2>1 DEF Listed, EndIsTold
  <2>2. CASE queue # <<>> /\ Head(queue) = Updated(n) /\ queue' = Tail(queue)
    <3>1. \A m : m # n => Updated(n) # Updated(m)
      BY DEF Updated
    <3> QED BY <1>1, <2>2, <3>1, QueueShrinks DEF ToCome, Listed, EndIsTold
  <2> QED BY <2>1, <2>2
<1>3. /\ ToSet(rows) \cup {n} \subseteq ToSet(rows')
      /\ ToSet(layers) \cup {n} \subseteq ToSet(layers')
      /\ layers' \in Seq(Layers)
      /\ synchronized' = synchronized
      /\ met \subseteq met' /\ (~ synchronized => n \in met')
  BY <1>1, RowsChanged, LayersChanged DEF ShowUpdated, Listed
<1>4. EndIsTold'
  BY <1>2, <1>3 DEF Listed, EndIsTold, readerPlace
<1>5. \A r \in records' : name'[r] # n =>
        r \in records /\ name'[r] = name[r] /\ (Telling(r)' <=> Telling(r))
  BY DEF Telling, Entry, readerPlace
<1>6. RowsComplete'
  BY <1>2, <1>3, <1>5 DEF Listed, RowsComplete
<1>7. LayersComplete'
  BY <1>2, <1>3, <1>5 DEF Listed, LayersComplete
<1>8. LeavesItsName'
  BY DEF LeavesItsName
<1> QED BY <1>3, <1>4, <1>6, <1>7, <1>8 DEF Listed

(* The placefiles have been read: the layers are synchronized. *)
LEMMA InitializedListed ==
  ASSUME PlacefileTypeOK, Listed, ShowInitialized, queue # <<>>,
         Head(queue) = Initialized, queue' = Tail(queue), gui' = "idle",
         UNCHANGED <<records, name, early, reader, leaving>>
  PROVE  Listed'
<1>1. queue \in Seq(Signals)
  BY DEF PlacefileTypeOK, GuiTyped, Signals
<1>n. \A n : Updated(n) # Initialized
  BY DEF Updated, Initialized
<1>2. /\ Initialized \in ToSet(queue) /\ Initialized \notin ToSet(queue')
      /\ Once(queue')
      /\ \A m : ToCome(queue, m) => ToCome(queue', m)
      /\ \A m : ~ ToComeInTime(queue, m)
  BY <1>1, <1>n, QueueShrinks DEF ToCome, Listed, EndIsTold
<1>3. reader.at = "done" /\ ~ synchronized
  BY <1>2 DEF Listed, EndIsTold
<1>4. /\ rows' = rows /\ synchronized'
      /\ layers' = SynchronizePlacefileLayers(layers, met)
      /\ layers \in Seq(Layers)
  BY DEF ShowInitialized, Listed
<1>6. EndIsTold'
  BY <1>2, <1>3 DEF EndIsTold
<1>7. \A r : ~ Telling(r)
  BY <1>3 DEF Telling
<1>8. RowsComplete'
  BY <1>2, <1>4, <1>7 DEF Listed, RowsComplete
<1>9. layers' \in Seq(Layers) /\ ToSet(layers) \cap met \subseteq ToSet(layers')
  BY <1>4, KeptFacts DEF SynchronizePlacefileLayers
<1>10. LayersComplete'
  BY <1>2, <1>3, <1>4, <1>7, <1>9 DEF Listed, LayersComplete
<1>11. LeavesItsName'
  BY DEF LeavesItsName
<1> QED BY <1>6, <1>8, <1>9, <1>10, <1>11 DEF Listed

(* A record is renamed. *)
LEMMA RenameListed ==
  ASSUME PlacefileTypeOK, RecordsIndexed, Listed, NEW n \in Names,
         NEW new \in Names, Rename(n, new)
  PROVE  Listed'
<1>1. PICK r \in records : r = recordMap[n] /\ name[r] = n /\ r \in Records
  BY CalledRecord DEF Rename, Call
<1>2. /\ UNCHANGED <<queue, records, reader, gui, leaving, met, synchronized>>
      /\ gui = "idle"
      /\ name' = [name EXCEPT ![r] = new]
      /\ ~ early' => ~ early /\ synchronized
      /\ ShowRenamed(n, new)
  BY <1>1 DEF Rename, Call, ShowRenamed
<1>3. /\ name'[r] = new
      /\ \A q \in records : q # r => name'[q] = name[q] /\ name[q] # n
  <2>1. records \subseteq Records
    BY PlacefileAssumption DEF PlacefileTypeOK, RecordsTyped, Records
  <2>2. name'[r] = new /\ \A q \in records : q # r => name'[q] = name[q]
    BY <1>1, <1>2, <2>1 DEF PlacefileTypeOK, RecordsTyped
  <2>3. \A q \in records : name[q] = n => recordMap[n] = q
    BY <2>1 DEF RecordsIndexed
  <2> QED BY <1>1, <2>2, <2>3
<1>4. /\ (ToSet(rows) \ {n}) \cup {new} \subseteq ToSet(rows')
      /\ (ToSet(layers) \ {n}) \cup {new} \subseteq ToSet(layers')
      /\ layers' \in Seq(Layers)
  BY <1>2, RowsChanged, LayersChanged
     DEF ShowRenamed, Listed, PlacefileTypeOK, ModelsTyped
<1>5. \A q \in records : q # r => (Telling(q)' <=> Telling(q))
  BY <1>2, <1>3 DEF Telling, Entry
<1>6. RowsComplete'
  BY <1>2, <1>3, <1>4, <1>5 DEF Listed, RowsComplete
<1>7. LayersComplete'
  BY <1>2, <1>3, <1>4, <1>5 DEF Listed, LayersComplete
<1>8. LeavesItsName' /\ EndIsTold'
  BY <1>2 DEF Listed, LeavesItsName, EndIsTold
<1> QED BY <1>4, <1>6, <1>7, <1>8 DEF Listed

(* A record leaves the vector, and its row and its layer go. *)
LEMMA RemoveListed ==
  ASSUME PlacefileTypeOK, RecordsIndexed, Listed,
         (\E n \in Names : RemoveUrl(n)) \/ JoinLeaving
  PROVE  Listed'
<1>1. ASSUME NEW n \in Names, RemoveUrl(n) PROVE Listed'
  <2>1. PICK r \in records : r = recordMap[n] /\ name[r] = n /\ r \in Records
    BY <1>1, CalledRecord DEF RemoveUrl, Call
  <2>2. /\ UNCHANGED <<queue, name, rows, layers, met, synchronized, early>>
        /\ reader'.at = reader.at /\ reader'.entry = reader.entry
        /\ reader'.record = reader.record
        /\ records' = records \ {r} /\ leaving' = r
    BY <1>1, <2>1, ReferenceMoves
       DEF RemoveUrl, recordVars, modelVars, readerPlace
  <2>3. \A q : Telling(q)' <=> Telling(q)
    BY <2>2 DEF Telling, Entry
  <2>4. \A q \in records : q # r => name[q] # n
    <3>1. records \subseteq Records
      BY PlacefileAssumption DEF PlacefileTypeOK, RecordsTyped, Records
    <3> QED BY <2>1, <3>1 DEF RecordsIndexed
  <2>5. LeavesItsName'
    BY <2>1, <2>2, <2>4 DEF LeavesItsName
  <2>6. RowsComplete'
    BY <2>2, <2>3 DEF Listed, RowsComplete
  <2>7. LayersComplete'
    BY <2>2, <2>3 DEF Listed, LayersComplete
  <2> QED BY <2>2, <2>5, <2>6, <2>7 DEF Listed, EndIsTold
<1>2. ASSUME JoinLeaving PROVE Listed'
  <2>1. /\ UNCHANGED <<queue, name, reader, met, synchronized, early, records>>
        /\ gui # "idle" /\ gui' = "idle" /\ ShowRemoved(name[leaving])
    BY <1>2 DEF JoinLeaving, recordVars, ShowRemoved
  <2>2. /\ ToSet(rows) \ {name[leaving]} \subseteq ToSet(rows')
        /\ layers' \in Seq(Layers)
        /\ ToSet(layers) \ {name[leaving]} \subseteq ToSet(layers')
    <3>1. layers \in Seq(Layers) /\ rows \in Seq(Names)
      BY DEF Listed, PlacefileTypeOK, ModelsTyped
    <3>2. /\ rows' = WithoutFirst(rows, name[leaving])
          /\ layers' = WithoutFirst(layers, name[leaving])
      BY <2>1 DEF ShowRemoved, HandleRemoved, RemoveAt, WithoutFirst
    <3> QED BY <3>1, <3>2, KeepsOthers
  <2>3. \A q : Telling(q)' <=> Telling(q)
    BY <2>1 DEF Telling, Entry
  <2>4. \A q \in records : name[q] # name[leaving]
    BY <2>1 DEF Listed, LeavesItsName
  <2>6. RowsComplete'
    BY <2>1, <2>2, <2>3, <2>4 DEF Listed, RowsComplete
  <2>7. LayersComplete'
    BY <2>1, <2>2, <2>3, <2>4 DEF Listed, LayersComplete
  <2> QED BY <2>1, <2>2, <2>6, <2>7 DEF Listed, EndIsTold, LeavesItsName
<1> QED BY <1>1, <1>2

(* The reader adds a record, tells of it, and ends. *)
LEMMA ReaderListed ==
  ASSUME PlacefileTypeOK, RecordsIndexed, Listed, ReaderStep PROVE Listed'
<1>q. queue \in Seq(Signals)
  BY DEF PlacefileTypeOK, GuiTyped, Signals
<1>1. ASSUME ReadEntry PROVE Listed'
  <2>1. /\ UNCHANGED <<queue, rows, layers, met, synchronized, early, gui, leaving>>
        /\ gui = "idle" /\ reader.at = "add"
        /\ reader'.at # "done"
    BY <1>1 DEF ReadEntry, modelVars, PlacefileTypeOK, ThreadsTyped
  <2>2. \A r : ~ Telling(r)
    BY <2>1 DEF Telling
  <2>3. ~ synchronized /\ Initialized \notin ToSet(queue)
    BY <2>1 DEF Listed, EndIsTold
  <2>4. \A r \in records' : (r \in records /\ name'[r] = name[r]) \/ Telling(r)'
    <3>1. CASE Taken(Entry.name)
      BY <1>1, <3>1 DEF ReadEntry
    <3>2. CASE ~ Taken(Entry.name)
      <4>0. PICK k \in Records : k = made + 1
        BY <1>1, <3>2, PlacefileAssumption
           DEF ReadEntry, Insert, PlacefileTypeOK, RecordsTyped, Records
      <4>1. /\ k = made + 1 /\ records' = records \cup {k}
            /\ name' = [name EXCEPT ![k] = Entry.name]
            /\ reader' = [reader EXCEPT !.at = "tell", !.record = k]
        BY <1>1, <3>2, <4>0 DEF ReadEntry, Insert
      <4>2. /\ name'[k] = Entry.name
            /\ \A r \in records : name'[r] = name[r]
        <5>1. records \subseteq Records /\ \A r \in records : r # k
          BY <4>1, PlacefileAssumption DEF PlacefileTypeOK, RecordsTyped, Records
        <5> QED BY <4>1, <5>1 DEF PlacefileTypeOK, RecordsTyped
      <4>3. /\ reader'.at = "tell" /\ reader'.record = k
            /\ reader'.entry = reader.entry
        BY <4>1 DEF PlacefileTypeOK, ThreadsTyped
      <4>4. Telling(k)'
        BY <4>2, <4>3 DEF Telling, Entry
      <4> QED BY <4>1, <4>2, <4>4
    <3> QED BY <3>1, <3>2
  <2>5. RowsComplete'
    BY <2>1, <2>2, <2>4 DEF Listed, RowsComplete
  <2>6. LayersComplete'
    BY <2>1, <2>2, <2>3, <2>4 DEF Listed, LayersComplete
  <2> QED BY <2>1, <2>3, <2>5, <2>6 DEF Listed, EndIsTold, LeavesItsName
<1>2. ASSUME TellEntry PROVE Listed'
  <2> DEFINE x == Updated(Entry.name)
             q == IF Entry.enabled THEN Append(queue, x) ELSE queue
  <2>1. /\ UNCHANGED <<records, name, rows, layers, met, synchronized, early,
                       gui, leaving>>
        /\ reader.at = "tell" /\ reader'.at = "add"
    BY <1>2 DEF TellEntry, modelVars, PlacefileTypeOK, ThreadsTyped
  <2>2. x \in Signals /\ x # Initialized
    <3>1. Entry.name \in Names
      BY <2>1, ReaderAt DEF PlacefileTypeOK, ThreadsTyped
    <3> QED BY <3>1 DEF Signals, Updated, Initialized
  <2>3. queue' = Append(q, x)
    <3> HIDE DEF x
    <3>1. queue' = queue \o (IF Entry.enabled THEN <<x>> ELSE <<>>) \o <<x>>
      BY <1>2 DEF TellEntry, x
    <3>2. queue \o <<>> = queue /\ queue \o <<x>> = Append(queue, x)
      BY <1>q, <2>2, AppendIsConcat, ConcatEmptySeq
    <3>3. q \in Seq(Signals)
      BY <1>q, <2>2
    <3>4. queue' = q \o <<x>>
      BY <3>1, <3>2
    <3> QED BY <2>2, <3>3, <3>4, AppendIsConcat
  <2>4. ~ synchronized /\ Initialized \notin ToSet(queue) /\ Once(queue)
    BY <2>1 DEF Listed, EndIsTold
  <2>5. /\ q \in Seq(Signals) /\ ToSet(queue) \subseteq ToSet(q)
        /\ Initialized \notin ToSet(q) /\ Once(q)
        /\ \A n : ToComeInTime(queue, n) => ToComeInTime(q, n)
    <3> HIDE DEF x
    <3> QED BY <1>q, <2>2, <2>4, QueueGrows
  <2>6. /\ ToSet(queue') = ToSet(q) \cup {x}
        /\ Initialized \notin ToSet(queue') /\ Once(queue')
        /\ \A n : ToComeInTime(q, n) => ToComeInTime(queue', n)
        /\ ToComeInTime(queue', Entry.name)
    <3>1. \A n : x = Updated(n) /\ Initialized \notin ToSet(q)
                   => ToComeInTime(queue', n)
      <4> HIDE DEF x, q
      <4> QED BY <2>2, <2>3, <2>5, QueueGrows
    <3>2. ToComeInTime(queue', Entry.name)
      BY <2>5, <3>1
    <3> HIDE DEF x, q
    <3> QED BY <2>2, <2>3, <2>5, <3>2, QueueGrows
  <2> HIDE DEF q
  <2>7. \A r : Telling(r) => name[r] = Entry.name
    BY DEF Telling
  <2>8. \A r : ~ Telling(r)'
    BY <2>1 DEF Telling
  <2>9. RowsComplete'
    BY <2>1, <2>5, <2>6, <2>7 DEF Listed, RowsComplete, ToCome
  <2>10. LayersComplete'
    BY <2>1, <2>4, <2>5, <2>6, <2>7 DEF Listed, LayersComplete
  <2> QED BY <2>1, <2>4, <2>6, <2>9, <2>10 DEF Listed, EndIsTold, LeavesItsName
<1>3. ASSUME ReadEnds PROVE Listed'
  <2>1. /\ UNCHANGED <<records, name, rows, layers, met, synchronized, early,
                       gui, leaving>>
        /\ reader.at = "add" /\ reader'.at = "done"
        /\ queue' = Append(queue, Initialized)
    BY <1>3 DEF ReadEnds, recordVars, modelVars, PlacefileTypeOK, ThreadsTyped
  <2>2. ~ synchronized /\ Initialized \notin ToSet(queue) /\ Once(queue)
    BY <2>1 DEF Listed, EndIsTold
  <2>3. Initialized \in Signals
    BY DEF Signals
  <2>4. /\ ToSet(queue') = ToSet(queue) \cup {Initialized} /\ Once(queue')
        /\ \A n : ToComeInTime(queue, n) => ToComeInTime(queue', n)
    BY <1>q, <2>1, <2>2, <2>3, QueueGrows
  <2>5. \A r : ~ Telling(r)
    BY <2>1 DEF Telling
  <2>6. RowsComplete'
    BY <2>1, <2>4, <2>5 DEF Listed, RowsComplete, ToCome
  <2>7. LayersComplete'
    BY <2>1, <2>2, <2>4, <2>5 DEF Listed, LayersComplete
  <2> QED BY <2>1, <2>2, <2>4, <2>6, <2>7 DEF Listed, EndIsTold, LeavesItsName
<1> QED BY <1>1, <1>2, <1>3 DEF ReaderStep

(* Every step keeps the records listed. *)
LEMMA ListedStep ==
  ASSUME PlacefileTypeOK, RecordsIndexed, RenamedIsQueued, Listed, [Next]_vars
  PROVE  Listed'
<1> USE DEF ListVars, recordVars, threadVars, modelVars, bounds, readerPlace
<1>1. ASSUME NEW n \in Names, AddUrl(n) PROVE Listed'
  <2>1. /\ records' = records \cup {made + 1}
        /\ name' = [name EXCEPT ![made + 1] = n]
        /\ UNCHANGED <<early, readerPlace, leaving, gui, queue>> /\ gui = "idle"
        /\ ShowUpdated(n) /\ made < MaxRecords
    BY <1>1, ReferenceMoves DEF AddUrl, Insert
  <2>2. /\ records \subseteq Records /\ made + 1 \in Records
        /\ made + 1 \notin records
    BY <2>1, PlacefileAssumption DEF PlacefileTypeOK, RecordsTyped, Records
  <2>3. name'[made + 1] = n /\ \A r \in records : name'[r] = name[r]
    BY <2>1, <2>2 DEF PlacefileTypeOK, RecordsTyped
  <2>4. \A r \in records' : (r \in records /\ name'[r] = name[r]) \/ name'[r] = n
    BY <2>1, <2>3
  <2> QED BY <2>1, <2>4, ShownListed
<1>2. ASSUME NEW n \in Names, Enable(n) \/ Disable(n) \/ SetThresholded(n)
      PROVE  Listed'
  <2>1. /\ UNCHANGED <<records, name, early, reader, leaving, gui, queue>>
        /\ gui = "idle" /\ ShowUpdated(n)
    BY <1>2 DEF Enable, Disable, SetThresholded, Call
  <2> QED BY <2>1, ShownListed
<1>3. ASSUME NEW n \in Names, Refresh(n) PROVE Listed'
  BY <1>3, QuietListed DEF Refresh
<1>4. ASSUME NEW n \in Names, NEW new \in Names, Rename(n, new) PROVE Listed'
  BY <1>4, RenameListed
<1>5. ASSUME NEW s \in Sites, SetRadarSite(s) PROVE Listed'
  BY <1>5, QuietListed DEF SetRadarSite
<1>6. ASSUME Deliver PROVE Listed'
  <2>1. /\ UNCHANGED <<records, name, early, reader, leaving, gui>> /\ gui = "idle"
        /\ queue # <<>> /\ queue' = Tail(queue)
    BY <1>6 DEF Deliver
  <2>2. Head(queue) \in Signals
    BY <2>1, QueueShrinks DEF PlacefileTypeOK, GuiTyped, Signals
  <2>3. CASE Head(queue) = Initialized
    <3>1. ShowInitialized
      BY <1>6, <2>3 DEF Deliver, Initialized
    <3> QED BY <2>1, <2>3, <3>1, InitializedListed
  <2>4. ASSUME NEW n \in Names, Head(queue) = Updated(n) PROVE Listed'
    <3>1. ShowUpdated(n)
      BY <1>6, <2>4 DEF Deliver, Updated
    <3> QED BY <2>1, <2>4, <3>1, ShownListed
  <2> QED BY <2>2, <2>3, <2>4 DEF Signals
<1>7. ASSUME CancelLeaving PROVE Listed'
  BY <1>7, QuietListed DEF CancelLeaving
<1>8. ASSUME NEW r \in Records, Assign(r) PROVE Listed'
  <2>1. using[r] \in Names
    BY <1>8 DEF Assign, RenamedIsQueued
  <2> QED BY <1>8, <2>1, QuietListed DEF Assign
<1>9. ASSUME NEW r \in Records,
             \/ StartUpdate(r) \/ Load(r) \/ LoadFails(r) \/ LoadThrows(r)
             \/ Check(r) \/ Schedule(r) \/ Arm(r) \/ Fire(r)
      PROVE  Listed'
  <2>1. UNCHANGED <<ListVars, leaving, gui, queue>>
    BY <1>9 DEF StartUpdate, Load, LoadFails, LoadThrows, Check, Schedule, Arm,
         Fire
  <2> QED BY <2>1, QuietListed
<1>10. ASSUME UNCHANGED vars PROVE Listed'
  BY <1>10, QuietListed DEF vars
<1> QED BY <1>1, <1>2, <1>3, <1>4, <1>5, <1>6, <1>7, <1>8, <1>9, <1>10,
     RemoveListed, ReaderListed DEF Next, UserStep, RecordStep

(* At first there is no record, no row, and no signal. *)
LEMMA InitListed == Init => Listed
<1> SUFFICES ASSUME Init PROVE Listed
  OBVIOUS
<1>1. ToSet(queue) = {} /\ DOMAIN queue = {}
  BY DEF Init, ToSet
<1>2. layers \in Seq(Layers)
  BY ValidatedTyped DEF Init
<1> QED BY <1>1, <1>2 DEF Init, Listed, EndIsTold, Once, RowsComplete,
     LayersComplete, LeavesItsName

-----------------------------------------------------------------------------
(* The type invariant of the placefiles holds of every behaviour. *)
THEOREM PlacefileTypeCorrect == Spec => []PlacefileTypeOK
<1>1. IInv => PlacefileTypeOK
  BY DEF IInv
<1> QED BY <1>1, Invariant, PTL

(* The map and the vector of records always agree, whichever thread adds,  *)
(* renames or removes: RecordsIndexed for every instance.                  *)
THEOREM RecordsStayIndexed == Spec => []RecordsIndexed
<1>1. IInv => RecordsIndexed
  BY DEF IInv
<1> QED BY <1>1, Invariant, PTL

(* An enabled placefile that is not loaded is retried, up to the two ways  *)
(* out EnabledIsRetried names.                                             *)
THEOREM EnabledStaysRetried == Spec => []EnabledIsRetried
<1>1. IInv => EnabledIsRetried
  BY DEF IInv
<1> QED BY <1>1, Invariant, PTL

(* Once no signal is under way, every record has its row, and its layer    *)
(* unless a record was renamed before the layers were synchronized:        *)
(* updates delivered after a rename or a removal take nothing away, and    *)
(* the synchronization erases the layer of no record.                      *)
THEOREM RecordsStayListed == Spec => []RecordsListed
<1>1. IInv /\ Listed => RecordsListed
  <2> SUFFICES ASSUME IInv, Listed, Settled, NEW r \in records
               PROVE  /\ Found(rows, name[r])
                      /\ synchronized /\ ~ early => Found(layers, name[r])
    BY DEF RecordsListed
  <2>1. ToSet(queue) = {}
    BY DEF Settled, ToSet
  <2>2. ~ Telling(r) /\ ~ ToCome(queue, name[r])
    BY <2>1 DEF Settled, Telling, ToCome
  <2>3. /\ name[r] \in ToSet(rows)
        /\ synchronized /\ ~ early => name[r] \in ToSet(layers)
    BY <2>2 DEF Listed, RowsComplete, LayersComplete
  <2> QED BY <2>3, FoundIsIn DEF Listed, IInv, PlacefileTypeOK, ModelsTyped
<1>2. Init => Listed
  BY InitListed
<1>3. IInv /\ Listed /\ [Next]_vars => Listed'
  BY ListedStep DEF IInv
<1> QED BY <1>1, <1>2, <1>3, Invariant, PTL DEF Spec
=============================================================================

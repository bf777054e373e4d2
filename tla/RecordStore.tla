------------------------------ MODULE RecordStore ------------------------------
(***************************************************************************)
(* The radar product records a RadarProductManager keeps                   *)
(* (scwx-qt/source/scwx/qt/manager/radar_product_manager.cpp).             *)
(*                                                                         *)
(* Each volume time has a weak pointer to its record.  What keeps a record *)
(* alive is a list of the records stored last, the threads and requests    *)
(* that use it, and the index of the files opened.  A client that asks for *)
(* an expired record posts a load of it, and a completed load goes back to *)
(* the GUI thread as a DataReloaded signal.  The store of one product is   *)
(* modelled: level 2, or one level 3 product.                              *)
(***************************************************************************)
EXTENDS Integers, Sequences, FiniteSets, SequencesExt

CONSTANTS
  Times,         \* volume times, in seconds
  Latest,        \* the default time point, which asks for the latest record
  Queries,       \* the times clients ask for
  Files,         \* the volumes of which there are files
  Level2,        \* whether the product is of level 2
  Clients,       \* threads that ask for records
  Loaders,       \* threads of threadPool_, which run LoadLevel2/3Data jobs
  FileLoaders,   \* threads that run LoadFile
  Copies,        \* distinguishes the record objects of one volume time
  NoRecord,      \* a null pointer
  NoTime,        \* a client has no time to look for
  NoJob,         \* the job of an idle loading thread
  NoThread,      \* the owner of a free mutex
  MinCacheLimit, \* the least number of cached records (6 in the code)
  CacheLimits,   \* the values SetCacheLimit is called with
  LoadMayFail,   \* whether objects may be missing or invalid
  MaxLoads       \* bound on the posted loads and completed requests that wait

Workers == Loaders \union FileLoaders
Threads == Clients \union Workers

(* RadarProductRecord objects, with record->time(). *)
Records == [time : Times, copy : Copies]

(* A client's load of an expired record, the load of new data announced by *)
(* a refresh, and the load of a file.                                      *)
Load(t, k) == [time |-> t, kind |-> k]
Loads      == [time : Times, kind : {"reload", "update"}]
Jobs       == Loads \union [time : Times, kind : {"file"}]

(* A completed request with the record it was given. *)
Requests == [record : Records, kind : {"reload", "update"}]

ASSUME StoreAssumption ==
  /\ Times \subseteq Nat \ {0} /\ IsFiniteSet(Times)
  /\ Latest = 0
  /\ Queries \subseteq Times \union {Latest}
  /\ Files \subseteq Times
  /\ NoTime \notin Times \union {Latest}
  /\ NoJob \notin Jobs
  /\ NoRecord \notin Records
  /\ NoThread \notin Threads
  /\ Clients \intersect Workers = {}
  /\ Loaders \intersect FileLoaders = {}
  /\ MinCacheLimit \in Nat \ {0}
  /\ CacheLimits \subseteq Nat
  /\ Level2 \in BOOLEAN
  /\ LoadMayFail \in BOOLEAN
  /\ MaxLoads \in Nat

VARIABLES
  keys,        \* the keys of the record map
  pointer,     \* weak pointers of the record map
  recent,      \* the recent list, most recent first
  cacheLimit,  \* cacheLimit_
  pc,          \* where each thread is
  asked,       \* the time each client asks for
  job,         \* what each loading thread loads
  elements,    \* elements of the map a client has still to look at
  holds,       \* the shared pointers among each thread's locals
  loads,       \* posted loads
  mutex,       \* owners of the load mutex and of the file load mutex
  completed,   \* completed reload requests on their way to the GUI thread
  fileIndex,   \* fileIndex_, by the volume time of the file
  lastStored   \* auxiliary: the volumes stored so far, the last one first; no
               \* action reads it

map     == <<keys, pointer>>
cache   == <<recent, cacheLimit, lastStored>>
clients == <<asked, elements>>
threads == <<pc, clients, job, holds>>
vars    == <<map, cache, threads, loads, mutex, completed, fileIndex>>

Indexed   == {fileIndex[f] : f \in Times} \ {NoRecord}

InRequests == {completed[i].record : i \in DOMAIN completed}

(* The records some shared pointer keeps alive. *)
Live == ToSet(recent) \union InRequests \union Indexed
          \union (UNION {holds[th] : th \in Threads})

(* A new object: neither alive nor what an expired pointer pointed to. *)
Unused == Records \ (Live \union {pointer[t] : t \in Times})

(* weak_ptr::lock *)
Locked(t) == IF pointer[t] \in Live THEN pointer[t] ELSE NoRecord

Init ==
  /\ keys = {}
  /\ pointer = [t \in Times |-> NoRecord]
  /\ recent = <<>>
  /\ cacheLimit = MinCacheLimit
  /\ pc = [th \in Threads |-> "idle"]
  /\ asked = [c \in Clients |-> NoTime]
  /\ job = [w \in Workers |-> NoJob]
  /\ elements = [c \in Clients |-> <<>>]
  /\ holds = [th \in Threads |-> {}]
  /\ loads = <<>>
  /\ mutex = [k \in {"load", "file"} |-> NoThread]
  /\ completed = <<>>
  /\ fileIndex = [f \in Times |-> NoRecord]
  /\ lastStored = <<>>

Goto(th, step)  == pc' = [pc EXCEPT ![th] = step]
Hold(th, R)     == holds' = [holds EXCEPT ![th] = R]
MutexOf(w)      == IF w \in Loaders THEN "load" ELSE "file"
Acquire(w)      == mutex' = [mutex EXCEPT ![MutexOf(w)] = w]
Release(w)      == mutex' = [mutex EXCEPT ![MutexOf(w)] = NoThread]

-----------------------------------------------------------------------------
AnyLimit(n)    == n
CappedLimit(n) == IF n < MinCacheLimit THEN MinCacheLimit ELSE n

(* SetCacheLimit; the list is only cut when the next record is stored. *)
SetCacheLimit(n) ==
  /\ cacheLimit' = CappedLimit(n)
  /\ UNCHANGED <<map, recent, lastStored, threads, loads, mutex, completed,
                 fileIndex>>

-----------------------------------------------------------------------------
(* GetLevel2ProductRecords and GetLevel3ProductRecord, by client c.        *)

Greatest(S) == CHOOSE t \in S : \A s \in S : s <= t
Least(S)    == CHOOSE t \in S : \A s \in S : t <= s
UpTo(K, q)  == {t \in K : t <= q}
Before(K, t) == {s \in K : s < t}

(* util::GetBoundedElementIterator on a map that is not empty. *)
Bounded(K, q) == IF UpTo(K, q) # {} THEN Greatest(UpTo(K, q)) ELSE Least(K)

(* The elements of the map that may hold the record for time q. *)
Candidates(K, q) ==
  IF K = {} THEN <<>>
  ELSE IF q = Latest THEN <<Greatest(K)>>
  ELSE LET t == Bounded(K, q)
       IN  IF Level2 /\ Before(K, t) # {} THEN <<t, Greatest(Before(K, t))>>
                                          ELSE <<t>>

(* PopulateProductTimes adds the times the provider lists around q to the  *)
(* map, and lists nothing when asked for the latest...                     *)
GetRecords(c, q) ==
  /\ pc[c] = "idle"
  /\ \E listed \in IF q = Latest THEN {{}} ELSE SUBSET Times :
       keys' = keys \union listed
  /\ asked' = [asked EXCEPT ![c] = q]
  /\ Goto(c, "find")
  /\ UNCHANGED <<pointer, cache, elements, job, holds, loads, mutex,
                 completed, fileIndex>>

(* ... and pointers to its elements are taken under the mutex.  The time   *)
(* asked for is not used again.                                            *)
FindElements(c) ==
  /\ pc[c] = "find"
  /\ elements' = [elements EXCEPT ![c] = Candidates(keys, asked[c])]
  /\ asked' = [asked EXCEPT ![c] = NoTime]
  /\ Goto(c, "read")
  /\ UNCHANGED <<map, cache, job, holds, loads, mutex, completed, fileIndex>>

(* LoadLevel2Data and LoadLevel3Data post a load to the pool. *)
Post(t, kind) ==
  /\ Len(loads) + Len(completed) < MaxLoads
  /\ loads' = Append(loads, Load(t, kind))

(* Without the mutex, each record is locked; an expired one is reloaded.   *)
ReadElement(c) ==
  /\ pc[c] = "read"
  /\ elements[c] # <<>>
  /\ LET t == Head(elements[c])
     IN  \/ /\ Locked(t) # NoRecord
            /\ Hold(c, holds[c] \union {Locked(t)})
            /\ UNCHANGED loads
         \/ /\ Locked(t) = NoRecord
            /\ Post(t, "reload")
            /\ UNCHANGED holds
  /\ elements' = [elements EXCEPT ![c] = Tail(elements[c])]
  /\ UNCHANGED <<map, cache, pc, asked, job, mutex, completed, fileIndex>>

(* The client has used the records. *)
Return(c) ==
  /\ pc[c] = "read"
  /\ elements[c] = <<>>
  /\ Goto(c, "idle")
  /\ Hold(c, {})
  /\ UNCHANGED <<map, cache, clients, job, loads, mutex, completed, fileIndex>>

(* A map loads the volume that a refresh has announced. *)
LoadNewData(t) ==
  /\ Post(t, "update")
  /\ UNCHANGED <<map, cache, threads, mutex, completed, fileIndex>>

-----------------------------------------------------------------------------
(* LoadNexradFile, on a thread of the pool or on a thread for files.       *)

TakeLoad(w) ==
  /\ pc[w] = "idle"
  /\ loads # <<>>
  /\ job' = [job EXCEPT ![w] = Head(loads)]
  /\ loads' = Tail(loads)
  /\ Goto(w, "lock")
  /\ UNCHANGED <<map, cache, clients, holds, mutex, completed, fileIndex>>

(* A file that is not in the index is loaded; a loaded one is not again.   *)
OpenFile(w, f) ==
  /\ pc[w] = "idle"
  /\ fileIndex[f] = NoRecord
  /\ job' = [job EXCEPT ![w] = Load(f, "file")]
  /\ Goto(w, "lock")
  /\ UNCHANGED <<map, cache, clients, holds, loads, mutex, completed, fileIndex>>

LockMutex(w) ==
  /\ pc[w] = "lock"
  /\ mutex[MutexOf(w)] = NoThread
  /\ Acquire(w)
  /\ Goto(w, IF w \in Loaders THEN "look" ELSE "create")
  /\ UNCHANGED <<map, cache, clients, job, holds, loads, completed, fileIndex>>

(* LoadProviderData: the record may have been loaded in the meantime. *)
LookUp(w) ==
  /\ pc[w] = "look"
  /\ Hold(w, {Locked(job[w].time)} \ {NoRecord})
  /\ Goto(w, "create")
  /\ UNCHANGED <<map, cache, clients, job, loads, mutex, completed, fileIndex>>

CreateKeepsFound(w) ==
  /\ pc[w] = "create"
  /\ \E r \in Unused : r.time = job[w].time /\ Hold(w, holds[w] \union {r})
  /\ Goto(w, "store")
  /\ UNCHANGED <<map, cache, clients, job, loads, mutex, completed, fileIndex>>

(* A record of its own is made, of the file of the record found or of the  *)
(* object downloaded.  Its time is the time asked for, not the file's.     *)
Create(w) ==
  /\ pc[w] = "create"
  /\ \E r \in Unused : r.time = job[w].time /\ Hold(w, {r})
  /\ Goto(w, "store")
  /\ UNCHANGED <<map, cache, clients, job, loads, mutex, completed, fileIndex>>

(* No object has that time, or it is not valid: a request completes with   *)
(* no record, and whoever made it does nothing.                            *)
LoadFails(w) ==
  /\ LoadMayFail
  /\ pc[w] = "create"
  /\ holds[w] = {}
  /\ Release(w)
  /\ Goto(w, "idle")
  /\ job' = [job EXCEPT ![w] = NoJob]
  /\ UNCHANGED <<map, cache, clients, holds, loads, completed, fileIndex>>

-----------------------------------------------------------------------------
(* StoreRadarProductRecord and UpdateRecentRecords.                        *)

Without(s, r) ==
  IF r \in ToSet(s) THEN RemoveAt(s, CHOOSE i \in DOMAIN s : s[i] = r) ELSE s

KeepsPlace(r) ==
  LET list == IF r \in ToSet(recent) THEN recent ELSE <<r>> \o recent
  IN  IF Len(list) > cacheLimit THEN SubSeq(list, 1, cacheLimit) ELSE list

(* r becomes the first of the list, and the last ones fall off. *)
UpdateRecentRecords(r) ==
  LET list == <<r>> \o Without(recent, r)
  IN  IF Len(list) > cacheLimit THEN SubSeq(list, 1, cacheLimit) ELSE list

StoredAnyway(t, new) == new

(* The record of time t to use: the one that is alive, or the new one. *)
StoredRecord(t, new) == IF Locked(t) # NoRecord THEN Locked(t) ELSE new

StoreRadarProductRecord(w) ==
  /\ pc[w] = "store"
  /\ \E new \in holds[w] :
       LET t == new.time
           stored == StoredRecord(t, new)
       IN  /\ keys' = keys \union {t}
           /\ pointer' = [pointer EXCEPT ![t] = stored]
           /\ recent' = UpdateRecentRecords(stored)
           /\ lastStored' = <<t>> \o Without(lastStored, t)
           /\ Hold(w, {stored})
  /\ Release(w)
  /\ Goto(w, "complete")
  /\ UNCHANGED <<cacheLimit, clients, job, loads, completed, fileIndex>>

(* RequestComplete goes to the GUI thread, or enters the file in the index. *)
CompleteRequest(w) ==
  /\ pc[w] = "complete"
  /\ \E r \in holds[w] :
       \/ /\ w \in Loaders
          /\ completed' = Append(completed, [record |-> r, kind |-> job[w].kind])
          /\ UNCHANGED fileIndex
       \/ /\ w \in FileLoaders
          /\ fileIndex' = [fileIndex EXCEPT ![job[w].time] = r]
          /\ UNCHANGED completed
  /\ Hold(w, {})
  /\ job' = [job EXCEPT ![w] = NoJob]
  /\ Goto(w, "idle")
  /\ UNCHANGED <<map, cache, clients, loads, mutex>>

(* The GUI thread handles the request and lets go of it.  Of a reload it   *)
(* emits DataReloaded.                                                     *)
RequestComplete ==
  /\ completed # <<>>
  /\ completed' = Tail(completed)
  /\ UNCHANGED <<map, cache, threads, loads, mutex, fileIndex>>

-----------------------------------------------------------------------------
GetProductRecords(c) == FindElements(c) \/ ReadElement(c) \/ Return(c)

LoadNexradFile(w) ==
  \/ LockMutex(w) \/ LookUp(w) \/ Create(w) \/ LoadFails(w)
  \/ StoreRadarProductRecord(w) \/ CompleteRequest(w)

Next ==
  \/ \E n \in CacheLimits : SetCacheLimit(n)
  \/ \E c \in Clients : \E q \in Queries : GetRecords(c, q)
  \/ \E c \in Clients : GetProductRecords(c)
  \/ \E t \in Times : LoadNewData(t)
  \/ \E w \in Loaders : TakeLoad(w)
  \/ \E w \in FileLoaders : \E f \in Files : OpenFile(w, f)
  \/ \E w \in Workers : LoadNexradFile(w)
  \/ RequestComplete

Spec == Init /\ [][Next]_vars

-----------------------------------------------------------------------------
(* Properties.                                                             *)

ClientSteps == {"idle", "find", "read"}
LoaderSteps == {"idle", "lock", "look", "create", "store", "complete"}

ClientTyped(c) ==
  /\ pc[c] \in ClientSteps
  /\ pc[c] = "find" => asked[c] # NoTime

(* A thread that loads holds its mutex from "look" to "store", no record   *)
(* before it has looked for one, and exactly one that it stores.           *)
WorkerTyped(w) ==
  /\ pc[w] \in LoaderSteps
  /\ pc[w] # "idle" => job[w] \in IF w \in Loaders THEN Loads ELSE Jobs
  /\ pc[w] \in {"idle", "lock", "look"} => holds[w] = {}
  /\ pc[w] \in {"store", "complete"} => \E r \in Records : holds[w] = {r}
  /\ pc[w] \in {"look", "create", "store"} <=> mutex[MutexOf(w)] = w

(* Every variable has its type, and every thread the locals and the mutex  *)
(* that its place in the code needs.                                       *)
TypeOK ==
  /\ keys \subseteq Times
  /\ pointer \in [Times -> Records \union {NoRecord}]
  /\ recent \in Seq(Records)
  /\ cacheLimit \in Nat \ {0}
  /\ pc \in [Threads -> ClientSteps \union LoaderSteps]
  /\ asked \in [Clients -> Times \union {Latest, NoTime}]
  /\ job \in [Workers -> Jobs \union {NoJob}]
  /\ elements \in [Clients -> Seq(Times)]
  /\ holds \in [Threads -> SUBSET Records]
  /\ loads \in Seq(Loads)
  /\ mutex \in [{"load", "file"} -> Workers \union {NoThread}]
  /\ completed \in Seq(Requests)
  /\ fileIndex \in [Times -> Records \union {NoRecord}]
  /\ lastStored \in Seq(Times)
  /\ \A c \in Clients : ClientTyped(c)
  /\ \A w \in Workers : WorkerTyped(w)

(* The records others can see: all but those a thread has just made. *)
Shared ==
  ToSet(recent) \union InRequests \union Indexed
    \union (UNION {holds[c] : c \in Clients})
    \union (UNION {holds[w] : w \in {x \in Workers : pc[x] \in {"create", "complete"}}})

(* However loads of the same time from the network and from files overlap, *)
(* the map leads to every record in use: no volume is ever in memory       *)
(* twice, and a request for it is served without loading it again.         *)
SharedIsFound == \A r \in Shared : pointer[r.time] = r

(* The recent list never holds a record twice, so that it keeps as many    *)
(* volumes as cacheLimit_ says.                                            *)
RecentDistinct ==
  \A i, j \in DOMAIN recent : recent[i] = recent[j] => i = j

(* A view is told that a volume was loaded and only then asks for it: until *)
(* it does, and for as long as it may ask for it again, nothing but the    *)
(* recent list keeps the record.  As many volumes as the least cache limit *)
(* allows, those stored last, are in memory, whatever was loaded twice     *)
(* meanwhile, opened from a file or evicted, and however the limit changed.*)
LastStoredInMemory ==
  \A i \in DOMAIN lastStored :
    i <= MinCacheLimit => Locked(lastStored[i]) # NoRecord

-----------------------------------------------------------------------------
(* Refinement.                                                             *)

(* The records the map leads to, that is {Locked(t) : t \in Times}. *)
InMemory == {pointer[t] : t \in Times} \intersect Live

Cache == INSTANCE RecordCache WITH
           inMemory <- InMemory,
           given <- [c \in Clients |-> holds[c]]

(* With its weak pointers, loads under two mutexes and an evicting list    *)
(* the store still does what a RecordCache does: the record of a volume    *)
(* never changes under those who use it, is never replaced by another copy *)
(* while it is alive, and comes into memory by one load at a time.         *)
ImplementsCache == Cache!Spec
=============================================================================

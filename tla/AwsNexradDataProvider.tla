------------------------ MODULE AwsNexradDataProvider ------------------------
(***************************************************************************)
(* The listing cache of one NEXRAD data provider (one radar site and, for  *)
(* level 3, one product): wxdata/source/scwx/provider/                     *)
(* aws_nexrad_data_provider.cpp.                                           *)
(*                                                                         *)
(* The S3 bucket holds one object per volume scan.  The provider lists the *)
(* bucket one UTC day at a time.  It keeps the keys it saw in objects_ and *)
(* the days it has listed, least recently used first, in objectDates_.     *)
(* Pool threads call GetTimePointsByDate and Refresh at the same time, and *)
(* one call takes and releases objectsMutex_ many times, so every critical *)
(* section is an action of its own.                                        *)
(*                                                                         *)
(* A time point is a pair <<day, slot>>; floor<days> is its first part.    *)
(***************************************************************************)
EXTENDS Integers, Sequences, FiniteSets, SequencesExt

CONSTANTS
  Queriers,         \* threads that call GetTimePointsByDate
  Refreshers,       \* threads that call Refresh
  NoThread,         \* the owner of a free mutex
  NoTime,           \* the default-initialized time point
  LastDay,          \* bound on the clock: dates are 1 .. LastDay
  SlotsPerDay,      \* bound on the volume scans of a day
  StartDay,         \* the date when the program starts
  Archive,          \* what the bucket holds when the program starts
  MaxObjects,       \* kMaxObjects_ (2500 in the code)
  MinDates,         \* kMinDatesBeforePruning_ (6 in the code)
  RequestsMayFail,  \* whether a ListObjectsV2 request may fail
  LateUploads       \* whether a scan may be uploaded after its day has ended

Threads   == Queriers \union Refreshers
Day       == 1 .. LastDay
TimePoint == Day \X (1 .. SlotsPerDay)

DayOf(t) == t[1]

ASSUME ProviderAssumption ==
  /\ Queriers \intersect Refreshers = {}
  /\ NoThread \notin Threads
  /\ NoTime \notin TimePoint
  /\ LastDay \in Nat /\ SlotsPerDay \in Nat
  /\ StartDay \in Day
  /\ Archive \subseteq {t \in TimePoint : DayOf(t) <= StartDay}
  /\ MaxObjects \in Nat
  /\ MinDates \in Nat \ {0}
  /\ RequestsMayFail \in BOOLEAN
  /\ LateUploads \in BOOLEAN

VARIABLES
  bucket,        \* the keys in the S3 bucket (environment)
  now,           \* the current date (environment)
  objects,       \* objects_: the cached keys, by time point
  objectDates,   \* objectDates_: the cached dates, least recent use first
  objectsMutex,  \* owner of objectsMutex_ while PruneObjects loops
  refreshMutex,  \* owner of refreshMutex_
  refreshDate,   \* refreshDate_; 0 is the default-initialized time point
  lastModified,  \* lastModified_: the object whose time stamp it is
  updatePeriod,  \* updatePeriod_: the two objects whose distance it is
  pc,            \* where each thread is
  leg,           \* which listing of Refresh a thread is at
  day,           \* the date argument of each thread's call
  today,         \* "today" in each thread's PruneObjects
  pending,       \* the listed keys a thread still has to store
  newObjects,    \* newObjects > 0
  totalObjects,  \* totalObjects > 0
  success,       \* whether the listing succeeded
  missed         \* auxiliary: the scans that a listing of yesterday by Refresh
                 \* could not bring and no listing has brought since; no
                 \* action reads it

env     == <<bucket, now>>
meta    == <<lastModified, updatePeriod>>
mutexes == <<objectsMutex, refreshMutex>>
counts  == <<newObjects, totalObjects, success>>
locals  == <<pc, leg, day, today, pending, counts>>
vars    == <<env, objects, objectDates, mutexes, refreshDate, meta, locals,
             missed>>

Earlier(s, t)    == s[1] < t[1] \/ (s[1] = t[1] /\ s[2] < t[2])
IsEarliest(t, S) == t \in S /\ \A s \in S : s = t \/ Earlier(t, s)
IsLatest(t, S)   == t \in S /\ \A s \in S : s = t \/ Earlier(s, t)
OnDay(S, d)      == {t \in S : DayOf(t) = d}
Latest(S)        == IF S = {} THEN NoTime ELSE CHOOSE t \in S : IsLatest(t, S)

CachedDates == {objectDates[i] : i \in DOMAIN objectDates}

(* today - days {1} *)
DayAfter(d)  == d + 1
Yesterday(d) == d - 1

(***************************************************************************)
(* objectDates_.remove(d); objectDates_.push_back(d).  By DatesDistinct    *)
(* there is never more than one occurrence to remove.                      *)
(***************************************************************************)
MostRecent(s, d) ==
  Append(IF \E i \in DOMAIN s : s[i] = d
           THEN RemoveAt(s, CHOOSE i \in DOMAIN s : s[i] = d)
           ELSE s,
         d)

FindLatestKey == Latest(objects)

(* A call returns: its local variables are gone. *)
Return(th) ==
  /\ pc' = [pc EXCEPT ![th] = "idle"]
  /\ leg' = [leg EXCEPT ![th] = "none"]
  /\ day' = [day EXCEPT ![th] = 0]
  /\ newObjects' = [newObjects EXCEPT ![th] = FALSE]
  /\ totalObjects' = [totalObjects EXCEPT ![th] = FALSE]
  /\ success' = [success EXCEPT ![th] = FALSE]
  /\ UNCHANGED <<today, pending>>

Init ==
  /\ bucket = Archive
  /\ now = StartDay
  /\ objects = {}
  /\ objectDates = <<>>
  /\ objectsMutex = NoThread
  /\ refreshMutex = NoThread
  /\ refreshDate = 0
  /\ lastModified = NoTime
  /\ updatePeriod = {}
  /\ pc = [th \in Threads |-> "idle"]
  /\ leg = [th \in Threads |-> "none"]
  /\ day = [th \in Threads |-> 0]
  /\ today = [th \in Threads |-> 0]
  /\ pending = [th \in Threads |-> {}]
  /\ newObjects = [th \in Threads |-> FALSE]
  /\ totalObjects = [th \in Threads |-> FALSE]
  /\ success = [th \in Threads |-> FALSE]
  /\ missed = {}

-----------------------------------------------------------------------------
(* The environment: the bucket grows and the clock advances.               *)

Publish(t) ==
  /\ t \notin bucket
  /\ DayOf(t) = now \/ (LateUploads /\ DayOf(t) = now - 1)
  /\ bucket' = bucket \union {t}
  /\ missed' = IF DayOf(t) = now THEN missed ELSE missed \union {t}
  /\ UNCHANGED <<now, objects, objectDates, mutexes, refreshDate, meta, locals>>

Midnight ==
  /\ now < LastDay
  /\ now' = now + 1
  /\ UNCHANGED <<bucket, objects, objectDates, mutexes, refreshDate, meta,
                 locals, missed>>

-----------------------------------------------------------------------------
(* GetTimePointsByDate(d), for a date that is not in the future.  What it  *)
(* returns is OnDay(objects, d), read in the section that finds d cached,  *)
(* or after the listing; nothing else depends on the read.                 *)

Query(th, d) ==
  /\ pc[th] = "idle"
  /\ objectsMutex = NoThread
  /\ d <= now
  /\ pc' = [pc EXCEPT ![th] = IF d \in CachedDates THEN "touch" ELSE "request"]
  /\ day' = [day EXCEPT ![th] = d]
  /\ UNCHANGED <<env, objects, objectDates, mutexes, refreshDate, meta, leg,
                 today, pending, counts, missed>>

(* UpdateObjectDates, on a cache hit or after a successful listing.        *)
QueryReturn(th) ==
  /\ objectsMutex = NoThread
  /\ pc[th] = "touch" \/ pc[th] = "returned"
  /\ objectDates' = IF pc[th] = "touch" \/ success[th]
                      THEN MostRecent(objectDates, day[th]) ELSE objectDates
  /\ Return(th)
  /\ UNCHANGED <<env, objects, mutexes, refreshDate, meta, missed>>

-----------------------------------------------------------------------------
(* ListObjects(day[th]).                                                   *)

(* The answer is one page of at most 1000 keys; a day has fewer.           *)
ListResponse(th) ==
  /\ pc[th] = "request"
  /\ LET listed == OnDay(bucket, day[th])
     IN  /\ pending' = [pending EXCEPT ![th] = listed]
         /\ pc' = [pc EXCEPT ![th] = IF listed = {} THEN "returned" ELSE "store"]
  /\ newObjects' = [newObjects EXCEPT ![th] = FALSE]
  /\ totalObjects' = [totalObjects EXCEPT ![th] = FALSE]
  /\ success' = [success EXCEPT ![th] = TRUE]
  /\ UNCHANGED <<env, objects, objectDates, mutexes, refreshDate, meta, leg,
                 day, today, missed>>

ListError(th) ==
  /\ RequestsMayFail
  /\ pc[th] = "request"
  /\ pc' = [pc EXCEPT ![th] = "returned"]
  /\ newObjects' = [newObjects EXCEPT ![th] = FALSE]
  /\ totalObjects' = [totalObjects EXCEPT ![th] = FALSE]
  /\ success' = [success EXCEPT ![th] = FALSE]
  /\ missed' = IF leg[th] = "yesterday"
                 THEN missed \union (OnDay(bucket, day[th]) \ objects)
                 ELSE missed
  /\ UNCHANGED <<env, objects, objectDates, mutexes, refreshDate, meta, leg,
                 day, today, pending>>

(* "if (inserted) newObjects++", as "newObjects > 0". *)
CountsOverwritten(th, t) == newObjects[th] \/ t \in objects
CountsNew(th, t) == newObjects[th] \/ t \notin objects

(* One key is stored per critical section, in key order.  The housekeeping *)
(* is done only if a key was new.                                          *)
StoreObject(th, t) ==
  /\ pc[th] = "store"
  /\ objectsMutex = NoThread
  /\ IsEarliest(t, pending[th])
  /\ objects' = objects \union {t}
  /\ missed' = missed \ {t}
  /\ newObjects' = [newObjects EXCEPT ![th] = CountsNew(th, t)]
  /\ totalObjects' = [totalObjects EXCEPT ![th] = TRUE]
  /\ pending' = [pending EXCEPT ![th] = @ \ {t}]
  /\ pc' = [pc EXCEPT ![th] = IF pending[th] # {t} THEN "store"
                              ELSE IF newObjects'[th] THEN "dates"
                              ELSE "returned"]
  /\ UNCHANGED <<env, objectDates, mutexes, refreshDate, meta, leg, day, today,
                 success>>

(* UpdateObjectDates(date).                                                *)
UpdateObjectDates(th) ==
  /\ pc[th] = "dates"
  /\ objectsMutex = NoThread
  /\ objectDates' = MostRecent(objectDates, day[th])
  /\ pc' = [pc EXCEPT ![th] = "clock"]
  /\ UNCHANGED <<env, objects, mutexes, refreshDate, meta, leg, day, today,
                 pending, counts, missed>>

(* PruneObjects reads the clock before it takes the mutex.                 *)
PruneReadClock(th) ==
  /\ pc[th] = "clock"
  /\ today' = [today EXCEPT ![th] = now]
  /\ pc' = [pc EXCEPT ![th] = "lockPrune"]
  /\ UNCHANGED <<env, objects, objectDates, mutexes, refreshDate, meta, leg,
                 day, pending, counts, missed>>

PruneLock(th) ==
  /\ pc[th] = "lockPrune"
  /\ objectsMutex = NoThread
  /\ objectsMutex' = th
  /\ pc' = [pc EXCEPT ![th] = "prune"]
  /\ UNCHANGED <<env, objects, objectDates, refreshMutex, refreshDate, meta,
                 leg, day, today, pending, counts, missed>>

OverLimitOffByOne ==
  Cardinality(objects) > MaxObjects /\ Len(objectDates) >= MinDates - 1
OverLimit == Cardinality(objects) > MaxObjects /\ Len(objectDates) >= MinDates

PrunableTooSoon(th, i) ==
  /\ i \in DOMAIN objectDates
  /\ objectDates[i] < today[th]
  /\ \A j \in 1 .. (i - 1) : objectDates[j] >= today[th]

MostRecentlyUsedFirst(th, i) ==
  /\ i \in DOMAIN objectDates
  /\ objectDates[i] < Yesterday(today[th])
  /\ \A j \in (i + 1) .. Len(objectDates) :
       objectDates[j] >= Yesterday(today[th])

(* objectDates[i] is the next date older than yesterday.                   *)
NextPrunable(th, i) ==
  /\ i \in DOMAIN objectDates
  /\ objectDates[i] < Yesterday(today[th])
  /\ \A j \in 1 .. (i - 1) : objectDates[j] >= Yesterday(today[th])

(* One turn of the loop that erases: the date and all its objects go.      *)
PruneDate(th, i) ==
  /\ pc[th] = "prune"
  /\ OverLimit
  /\ NextPrunable(th, i)
  /\ objects' = objects \ OnDay(objects, objectDates[i])
  /\ objectDates' = RemoveAt(objectDates, i)
  /\ UNCHANGED <<env, mutexes, refreshDate, meta, locals, missed>>

PruneUnlock(th) ==
  /\ pc[th] = "prune"
  /\ ~(OverLimit /\ \E i \in DOMAIN objectDates : NextPrunable(th, i))
  /\ objectsMutex' = NoThread
  /\ today' = [today EXCEPT ![th] = 0]
  /\ pc' = [pc EXCEPT ![th] = "metadata"]
  /\ UNCHANGED <<env, objects, objectDates, refreshMutex, refreshDate, meta,
                 leg, day, pending, counts, missed>>

MetadataOfTwo(th) ==
  /\ pc[th] = "metadata"
  /\ objectsMutex = NoThread
  /\ LET last == FindLatestKey
     IN  IF Cardinality(objects) >= 2
           THEN /\ lastModified' = last
                /\ updatePeriod' = {Latest(objects \ {last}), last}
           ELSE UNCHANGED meta
  /\ pc' = [pc EXCEPT ![th] = "returned"]
  /\ UNCHANGED <<env, objects, objectDates, mutexes, refreshDate, leg, day,
                 today, pending, counts, missed>>

(* UpdateMetadata: the time stamps of the last two objects.                *)
UpdateMetadata(th) ==
  /\ pc[th] = "metadata"
  /\ objectsMutex = NoThread
  /\ LET last == FindLatestKey
     IN  /\ lastModified' = IF objects # {} THEN last ELSE lastModified
         /\ updatePeriod' = IF Cardinality(objects) >= 2
                              THEN {Latest(objects \ {last}), last}
                              ELSE updatePeriod
  /\ pc' = [pc EXCEPT ![th] = "returned"]
  /\ UNCHANGED <<env, objects, objectDates, mutexes, refreshDate, leg, day,
                 today, pending, counts, missed>>

-----------------------------------------------------------------------------
(* Refresh().                                                              *)

(* "today" is computed before the mutex is taken.                          *)
RefreshReadClock(th) ==
  /\ pc[th] = "idle"
  /\ day' = [day EXCEPT ![th] = now]
  /\ pc' = [pc EXCEPT ![th] = "lockRefresh"]
  /\ UNCHANGED <<env, objects, objectDates, mutexes, refreshDate, meta, leg,
                 today, pending, counts, missed>>

OnlyFirstRefreshIsDue(th) == refreshDate = 0
YesterdayDue(th) == refreshDate < day[th]

(* List yesterday first if no object from today has been seen yet.         *)
RefreshLock(th) ==
  /\ pc[th] = "lockRefresh"
  /\ refreshMutex = NoThread
  /\ refreshMutex' = th
  /\ LET first == IF YesterdayDue(th) THEN "yesterday" ELSE "today"
     IN  /\ leg' = [leg EXCEPT ![th] = first]
         /\ day' = [day EXCEPT ![th] = IF first = "yesterday" THEN Yesterday(@) ELSE @]
  /\ pc' = [pc EXCEPT ![th] = "request"]
  /\ UNCHANGED <<env, objects, objectDates, objectsMutex, refreshDate, meta,
                 today, pending, counts, missed>>

RefreshDateAfter(th) == IF totalObjects[th] THEN day[th] ELSE refreshDate

RefreshYesterdayListed(th) ==
  /\ pc[th] = "returned"
  /\ leg[th] = "yesterday"
  /\ refreshDate' = RefreshDateAfter(th)
  /\ leg' = [leg EXCEPT ![th] = "today"]
  /\ day' = [day EXCEPT ![th] = @ + 1]
  /\ pc' = [pc EXCEPT ![th] = "request"]
  /\ UNCHANGED <<env, objects, objectDates, mutexes, meta, today, pending,
                 counts, missed>>

RefreshReturn(th) ==
  /\ pc[th] = "returned"
  /\ leg[th] = "today"
  /\ refreshDate' = RefreshDateAfter(th)
  /\ refreshMutex' = NoThread
  /\ Return(th)
  /\ UNCHANGED <<env, objects, objectDates, objectsMutex, meta, missed>>

-----------------------------------------------------------------------------
ListObjects(th) ==
  \/ ListResponse(th)
  \/ ListError(th)
  \/ \E t \in TimePoint : StoreObject(th, t)
  \/ UpdateObjectDates(th)
  \/ PruneReadClock(th)
  \/ PruneLock(th)
  \/ \E i \in DOMAIN objectDates : PruneDate(th, i)
  \/ PruneUnlock(th)
  \/ UpdateMetadata(th)

GetTimePointsByDate(th) ==
  \/ \E d \in Day : Query(th, d)
  \/ QueryReturn(th)

Refresh(th) ==
  \/ RefreshReadClock(th)
  \/ RefreshLock(th)
  \/ RefreshYesterdayListed(th)
  \/ RefreshReturn(th)

Next ==
  \/ \E t \in TimePoint : Publish(t)
  \/ Midnight
  \/ \E th \in Threads : ListObjects(th)
  \/ \E th \in Queriers : GetTimePointsByDate(th)
  \/ \E th \in Refreshers : Refresh(th)

Spec == Init /\ [][Next]_vars

(***************************************************************************)
(* Fairness.  Every call runs to its end: a mutex that is released again   *)
(* and again is acquired in the end, so the steps that wait for one are    *)
(* strongly fair.  RefreshDataSync calls Refresh again after every         *)
(* refresh, and neither of its two listings fails for ever.  Nobody is     *)
(* obliged to query or publish, and midnight need not come.                *)
(***************************************************************************)
Proceed(th) == ListObjects(th) \/ QueryReturn(th)

Fairness ==
  /\ \A th \in Threads : SF_vars(Proceed(th))
  /\ \A th \in Refreshers : SF_vars(Refresh(th))
  /\ \A th \in Refreshers : \A l \in {"yesterday", "today"} :
       SF_vars(leg[th] = l /\ ListResponse(th))

FairSpec == Spec /\ Fairness

-----------------------------------------------------------------------------
(* Properties.                                                             *)

ListingSteps == {"request", "store", "dates", "clock", "lockPrune", "prune",
                 "metadata", "returned"}
Steps        == ListingSteps \union {"idle", "touch", "lockRefresh"}

(* Every variable has its type: no date leaves the range of the clock and  *)
(* only a refreshing thread holds refreshMutex_.                           *)
TypeOK ==
  /\ bucket \subseteq TimePoint
  /\ now \in Day
  /\ objects \subseteq TimePoint
  /\ objectDates \in Seq(Day)
  /\ objectsMutex \in Threads \union {NoThread}
  /\ refreshMutex \in Refreshers \union {NoThread}
  /\ refreshDate \in 0 .. LastDay
  /\ lastModified \in TimePoint \union {NoTime}
  /\ updatePeriod \subseteq TimePoint \union {NoTime}
  /\ pc \in [Threads -> Steps]
  /\ leg \in [Threads -> {"none", "yesterday", "today"}]
  /\ day \in [Threads -> 0 .. LastDay]
  /\ today \in [Threads -> 0 .. LastDay]
  /\ pending \in [Threads -> SUBSET TimePoint]
  /\ newObjects \in [Threads -> BOOLEAN]
  /\ totalObjects \in [Threads -> BOOLEAN]
  /\ success \in [Threads -> BOOLEAN]
  /\ missed \subseteq TimePoint

(* UpdateObjectDates keeps objectDates_ free of duplicates, whatever       *)
(* threads interleave their updates: PruneObjects erases one list entry    *)
(* per date, and a second entry would count towards                        *)
(* kMinDatesBeforePruning_ for a date that is no longer cached.            *)
DatesDistinct ==
  \A i, j \in DOMAIN objectDates : objectDates[i] = objectDates[j] => i = j

(* The thread has stored an object and is still going to list its date.    *)
WillListDate(th) == pc[th] \in {"store", "dates"} /\ newObjects[th]

(* PruneObjects finds what it may erase through objectDates_ alone.  An    *)
(* object of a date that is not in the list would stay for ever.  No       *)
(* interleaving of listings, prunings and queries leaves such an object:   *)
(* its date is listed, or the thread that inserted it is about to list it. *)
EveryObjectPrunable ==
  \A t \in objects :
    \/ DayOf(t) \in CachedDates
    \/ \E th \in Threads : day[th] = DayOf(t) /\ WillListDate(th)

Busy(th) == pc[th] \in {"store", "dates", "clock", "lockPrune", "prune",
                        "metadata"}

MetadataCurrent ==
  /\ objects # {} => lastModified = Latest(objects)
  /\ Cardinality(objects) >= 2 =>
       updatePeriod = {Latest(objects \ {Latest(objects)}), Latest(objects)}

(* When no listing is under way, last_modified and update_period speak of  *)
(* the newest objects in the cache: no order of insertions, prunings and   *)
(* metadata updates of several threads leaves them stale.  RefreshDataSync *)
(* computes the time of the next refresh from the two.                     *)
MetadataFresh == (\A th \in Threads : ~Busy(th)) => MetadataCurrent

(* "Keep at least today, yesterday, and three more dates": whoever prunes, *)
(* with a "today" read before it got the mutex, never drops an object of   *)
(* the actual today or yesterday.                                          *)
RecentObjectsKept ==
  [][\A t \in objects \ objects' : DayOf(t) < Yesterday(now)]_vars

(* ... and at least MinDates - 1 dates are left: the list has one entry per *)
(* date, so its length, which the loop tests, counts dates.                *)
MinDatesKept ==
  [][CachedDates \ CachedDates' # {} =>
       Cardinality(CachedDates') >= MinDates - 1]_vars

(* "First list objects for yesterday, to ensure we haven't missed any      *)
(* objects near midnight": once Refresh takes today for refreshed, the     *)
(* cache has all of yesterday.  The code does not keep this: when the      *)
(* listing of yesterday fails and that of today succeeds, refreshDate_ is  *)
(* today, and no later Refresh lists yesterday again.                      *)
MidnightCovered ==
  refreshMutex = NoThread /\ refreshDate = now =>
    OnDay(bucket, Yesterday(now)) \subseteq objects

(* What it does keep: of yesterday, the cache lacks only what the request  *)
(* for it failed to list, or what was uploaded late, whenever midnight     *)
(* passed, and whatever other threads listed and pruned meanwhile.         *)
MissedOnlyByFailure ==
  refreshMutex = NoThread /\ refreshDate = now =>
    OnDay(bucket, Yesterday(now)) \ missed \subseteq objects

(* In the end the cache has every scan uploaded while the program runs     *)
(* that is of today or yesterday, on whichever day the clock and the       *)
(* uploads stop, although listings fail now and then: until a refresh has  *)
(* seen an object of today, the next one makes up for what a failed        *)
(* listing of yesterday has missed.                                        *)
Recent(t) == StartDay <= DayOf(t) /\ now <= DayOf(t) + 1

PublishedEventuallyCached ==
  <>[](\A t \in bucket :
         Recent(t) => t \in objects \/ (t \in missed /\ refreshDate = now))
=============================================================================

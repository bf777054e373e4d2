--------------------------- MODULE PlacefileManager ---------------------------
(***************************************************************************)
(* The placefiles: PlacefileManager, the placefiles its list shows         *)
(* (PlacefileModel) and their layers (LayerModel).                         *)
(*                                                                         *)
(* Each record has a pool of one thread, which runs its updates, and a     *)
(* timer.  An update holds refreshMutex_ from end to end.  The user's      *)
(* calls run on the GUI thread; the records of the settings file are added *)
(* by the manager's own thread.  A signal reaches the models at once when  *)
(* it is emitted on the GUI thread, and through its queue otherwise.       *)
(***************************************************************************)
EXTENDS LayerModel

CONSTANTS
  Local,       \* the names of placefiles that are local files
  Sites,       \* the radar sites
  NoSite,      \* radarSite_ before a map has a site
  Settings,    \* the settings file: <<[name, enabled, titled], ...>>
  SavedLayers, \* the layers of the last session, as read from their file
  MaxRecords,  \* bound on the records made
  MaxCalls,    \* bound on the calls of the user
  MaxQueue     \* no timer expires while more signals are queued than this

Records  == 1 .. MaxRecords
NoRecord == 0
NoFile   == [source |-> "none", refresh |-> FALSE]

ASSUME PlacefileAssumption ==
  /\ Local \subseteq Names
  /\ NoSite \notin Sites
  /\ Settings \in Seq([name : Names, enabled : BOOLEAN, titled : BOOLEAN])
  /\ SavedLayers \in Seq(Layers \cup {UnknownLayer})
  /\ MaxRecords \in Nat \ {0}
  /\ MaxCalls \in Nat
  /\ MaxQueue \in Nat
  /\ "none" \notin Names

VARIABLES
  site,         \* radarSite_
  records,      \* placefileRecords_
  recordMap,    \* placefileRecordMap_
  name,         \* name_ of each record
  file,         \* placefile_: where it is from, and whether it is to be refreshed
  enabled,      \* enabled_
  lastSite,     \* lastRadarSite_
  posted,       \* the updates in the queue of the record's pool
  armed,        \* whether refreshTimer_ is pending
  pc,           \* where the record's thread is
  using,        \* the name the update has copied
  reader,       \* the manager's thread: where it is, at which entry, with which record,
                \* and whether its reference to the record's place may have moved
  gui,          \* the GUI thread: "idle", or where it is in the destructor of a record
  leaving,      \* that record
  queue,        \* the queue of the GUI thread
  rows,         \* PlacefileModel: placefileNames_
  layers,       \* LayerModel: layers_
  met,          \* LayerModel: initialPlacefiles_
  synchronized, \* LayerModel: placefilesInitialized_
  dropped,      \* history: the records enabled to no effect, whose update threw, or
                \* whose first update went to another record or to none
  early,        \* history: a record was renamed before the layers were synchronized
  made, calls   \* for the bounds

recordVars == <<name, file, enabled, lastSite, posted, armed>>
threadVars == <<pc, using>>
modelVars  == <<rows, layers, met, synchronized>>
bounds     == <<made, calls>>
vars == <<site, records, recordMap, recordVars, threadVars, reader, gui,
          leaving, queue, modelVars, dropped, early, bounds>>

Updated(n)  == [kind |-> "updated", name |-> n]
Initialized == [kind |-> "initialized", name |-> "none"]

Init ==
  /\ site \in Sites \cup {NoSite}
  /\ records = {}
  /\ recordMap = [n \in Names |-> NoRecord]
  /\ name = [r \in Records |-> "none"]
  /\ file = [r \in Records |-> NoFile]
  /\ enabled = [r \in Records |-> FALSE]
  /\ lastSite = [r \in Records |-> NoSite]
  /\ posted = [r \in Records |-> 0]
  /\ armed = [r \in Records |-> FALSE]
  /\ pc = [r \in Records |-> "idle"]
  /\ using = [r \in Records |-> "none"]
  /\ reader = [at |-> "add", entry |-> 1, record |-> NoRecord,
               moved |-> FALSE]
  /\ gui = "idle"
  /\ leaving = NoRecord
  /\ queue = <<>>
  /\ rows = <<>>
  /\ layers = ValidateLayerSettings(SavedLayers)
  /\ met = {}
  /\ synchronized = FALSE
  /\ dropped = {}
  /\ early = FALSE
  /\ made = 0
  /\ calls = 0

-----------------------------------------------------------------------------
(* The models.                                                             *)

(* HandlePlacefileUpdate of both: a name that has no row gets one. *)
OnlyKnownRows(n) == rows
WithRow(n) == IF Found(rows, n) THEN rows ELSE Append(rows, n)

ShowUpdated(n) ==
  /\ rows' = WithRow(n)
  /\ layers' = HandleUpdated(layers, n)
  /\ met' = IF synchronized THEN met ELSE met \cup {n}
  /\ UNCHANGED synchronized

ShowRenamed(old, new) ==
  /\ rows' = IF Found(rows, old) THEN [rows EXCEPT ![Find(rows, old)] = new]
             ELSE Append(rows, new)
  /\ layers' = HandleRenamed(layers, old, new)
  /\ UNCHANGED <<met, synchronized>>

WithoutFirst(s, x) ==
  IF Found(s, x)
  THEN SubSeq(s, 1, Find(s, x) - 1) \o SubSeq(s, Find(s, x) + 1, Len(s))
  ELSE s

ShowRemoved(n) ==
  /\ rows' = WithoutFirst(rows, n)
  /\ layers' = HandleRemoved(layers, n)
  /\ UNCHANGED <<met, synchronized>>

ShowInitialized ==
  /\ synchronized' = TRUE
  /\ layers' = SynchronizePlacefileLayers(layers, met)
  /\ met' = {}
  /\ UNCHANGED rows

Deliver ==
  /\ gui = "idle"
  /\ queue # <<>>
  /\ queue' = Tail(queue)
  /\ \/ /\ Head(queue).kind = "updated"
        /\ ShowUpdated(Head(queue).name)
     \/ /\ Head(queue).kind = "initialized"
        /\ ShowInitialized
  /\ UNCHANGED <<site, records, recordMap, recordVars, threadVars, reader, gui,
                 leaving, dropped, early, bounds>>

-----------------------------------------------------------------------------
(* A record's thread and its timer.                                        *)

Post(r) == posted' = [posted EXCEPT ![r] = @ + 1]

Fire(r) ==
  /\ armed[r]
  /\ Len(queue) <= MaxQueue
  /\ armed' = [armed EXCEPT ![r] = FALSE]
  /\ Post(r)
  /\ UNCHANGED <<site, records, recordMap, name, file, enabled, lastSite,
                 threadVars, reader, gui, leaving, queue, modelVars, dropped,
                 early, bounds>>

Goto(r, at) == pc' = [pc EXCEPT ![r] = at]

(* The copy of the name ends with the update. *)
Forget(r) == using' = [using EXCEPT ![r] = "none"]

(* A placefile that is not a local file waits for a site.  The destructor  *)
(* of the record competes for the mutex.                                   *)
StartUpdate(r) ==
  /\ pc[r] = "idle"
  /\ posted[r] > 0
  /\ posted' = [posted EXCEPT ![r] = @ - 1]
  /\ dropped' = dropped \ {r}
  /\ IF name[r] \notin Local /\ site = NoSite
     THEN UNCHANGED <<pc, using>>
     ELSE /\ Goto(r, "load")
          /\ using' = [using EXCEPT ![r] = name[r]]
  /\ UNCHANGED <<site, records, recordMap, name, file, enabled, lastSite, armed,
                 reader, gui, leaving, queue, modelVars, early, bounds>>

Load(r) ==
  /\ pc[r] = "load"
  /\ Goto(r, "check")
  /\ UNCHANGED <<site, records, recordMap, recordVars, using, reader, gui, leaving,
                 queue, modelVars, dropped, early, bounds>>

NoRetry(r) == "idle"
AfterFailure(r) == IF enabled[r] THEN "arm" ELSE "idle"

LoadFails(r) ==
  /\ pc[r] = "load"
  /\ Goto(r, AfterFailure(r))
  /\ Forget(r)
  /\ UNCHANGED <<site, records, recordMap, recordVars, reader, gui, leaving, queue, modelVars, dropped, early, bounds>>

(* The exception is logged, and nothing is scheduled. *)
LoadThrows(r) ==
  /\ pc[r] = "load"
  /\ Goto(r, "idle")
  /\ Forget(r)
  /\ dropped' = dropped \cup {r}
  /\ UNCHANGED <<site, records, recordMap, recordVars, reader, gui, leaving,
                 queue, modelVars, early, bounds>>

(* The name may have changed during the download. *)
Check(r) ==
  /\ pc[r] = "check"
  /\ Goto(r, IF name[r] = using[r] THEN "assign" ELSE "schedule")
  /\ UNCHANGED <<site, records, recordMap, recordVars, using, reader,
                 gui, leaving, queue, modelVars, dropped, early, bounds>>

Assign(r) ==
  /\ pc[r] = "assign"
  /\ \E refresh \in BOOLEAN :
       file' = [file EXCEPT ![r] = [source |-> using[r], refresh |-> refresh]]
  /\ lastSite' = [lastSite EXCEPT ![r] = IF site = NoSite THEN @ ELSE site]
  /\ queue' = Append(queue, Updated(using[r]))
  /\ Goto(r, "schedule")
  /\ UNCHANGED <<site, records, recordMap, name, enabled, posted, armed, using,
                 reader, gui, leaving, modelVars, dropped, early, bounds>>

(* ScheduleRefresh: a timer is armed for what is enabled and asks for it. *)
ToBeRefreshed(r) == enabled[r] /\ file[r].refresh

Schedule(r) ==
  /\ pc[r] = "schedule"
  /\ Goto(r, IF ToBeRefreshed(r) THEN "arm" ELSE "idle")
  /\ Forget(r)
  /\ UNCHANGED <<site, records, recordMap, recordVars, reader, gui, leaving,
                 queue, modelVars, dropped, early, bounds>>

(* After a failure this is done without timerMutex_. *)
Arm(r) ==
  /\ pc[r] = "arm"
  /\ armed' = [armed EXCEPT ![r] = TRUE]
  /\ Goto(r, "idle")
  /\ UNCHANGED <<site, records, recordMap, name, file, enabled, lastSite, posted,
                 using, reader, gui, leaving, queue, modelVars, dropped,
                 early, bounds>>

RecordStep(r) ==
  \/ StartUpdate(r) \/ Load(r) \/ LoadFails(r) \/ LoadThrows(r)
  \/ Check(r) \/ Assign(r) \/ Schedule(r) \/ Arm(r)

-----------------------------------------------------------------------------
(* Adding records.                                                         *)

TakenByTitled(n) == \E r \in records : name[r] = n /\ file[r] # NoFile
Taken(n) == \E r \in records : name[r] = n

(* AddUrl, up to where it releases the lock. *)
Insert(r, n, on) ==
  /\ made < MaxRecords
  /\ made' = r
  /\ records' = records \cup {r}
  /\ recordMap' = [recordMap EXCEPT ![n] = r]
  /\ name' = [name EXCEPT ![r] = n]
  /\ enabled' = [enabled EXCEPT ![r] = on]
  /\ UNCHANGED <<file, lastSite, armed>>

(* The elements of the vector move when one is added or erased, and a      *)
(* reference that the reader keeps to one is left behind.                  *)
VectorMoves == reader' = [reader EXCEPT !.moved = (reader.at = "tell")]

(* The user adds a placefile, which is not enabled and has no title yet. *)
AddUrl(n) ==
  /\ gui = "idle"
  /\ calls < MaxCalls
  /\ calls' = calls + 1
  /\ ~ Taken(n)
  /\ Insert(made + 1, n, FALSE)
  /\ ShowUpdated(n)
  /\ Post(made + 1)
  /\ VectorMoves
  /\ UNCHANGED <<site, threadVars, gui, leaving, queue, dropped, early>>

Entry == Settings[reader.entry]

(* The settings are read.  The GUI thread holds the lock while it destroys *)
(* a record.                                                               *)
ReadEntry ==
  /\ reader.at = "add"
  /\ reader.entry <= Len(Settings)
  /\ gui = "idle"
  /\ IF Taken(Entry.name)
     THEN /\ reader' = [reader EXCEPT !.entry = @ + 1]
          /\ UNCHANGED <<records, recordMap, name, enabled, file, lastSite, armed,
                         made>>
     ELSE /\ Insert(made + 1, Entry.name, Entry.enabled)
          /\ reader' = [reader EXCEPT !.at = "tell", !.record = made + 1]
  /\ UNCHANGED <<site, posted, threadVars, gui, leaving, queue, modelVars,
                 dropped, early, calls>>

(* The update is queued through a reference to the vector's element, which *)
(* is used after the lock is released.  Once the vector has moved it may   *)
(* lead to any record, or to none.                                         *)
Referred == IF reader.moved THEN records \cup {NoRecord} ELSE {reader.record}

PostTo(r) == posted' = [q \in Records |-> posted[q] + IF q = r THEN 1 ELSE 0]

(* PlacefileEnabled and PlacefileUpdated make the models do the same. *)
TellEntry ==
  /\ reader.at = "tell"
  /\ queue' = queue \o (IF Entry.enabled THEN <<Updated(Entry.name)>> ELSE <<>>)
                    \o <<Updated(Entry.name)>>
  /\ IF Entry.enabled \/ ~ Entry.titled
     THEN \E r \in Referred :
            /\ PostTo(r)
            /\ dropped' = IF r # reader.record /\ Entry.enabled
                          THEN dropped \cup {reader.record} ELSE dropped
     ELSE UNCHANGED <<posted, dropped>>
  /\ reader' = [reader EXCEPT !.at = "add", !.entry = @ + 1, !.moved = FALSE]
  /\ UNCHANGED <<site, records, recordMap, name, file, enabled, lastSite, armed,
                 threadVars, gui, leaving, modelVars, early, bounds>>

ReadEnds ==
  /\ reader.at = "add"
  /\ reader.entry > Len(Settings)
  /\ reader' = [reader EXCEPT !.at = "done"]
  /\ queue' = Append(queue, Initialized)
  /\ UNCHANGED <<site, records, recordMap, recordVars, threadVars, gui, leaving,
                 modelVars, dropped, early, bounds>>

-----------------------------------------------------------------------------
(* The user's calls, on the GUI thread, for a row of the list.             *)

KeptInMap(n) == recordMap
ErasedFromMap(n) == [recordMap EXCEPT ![n] = NoRecord]

Call(n) ==
  /\ gui = "idle"
  /\ calls < MaxCalls
  /\ calls' = calls + 1
  /\ Found(rows, n)
  /\ recordMap[n] # NoRecord

(* Enabling updates at once if the site has changed since the last update, *)
(* and arms the timer otherwise; with no placefile it does neither.        *)
Enable(n) ==
  LET r   == recordMap[n]
      now == site # NoSite /\ lastSite[r] # site
  IN  /\ Call(n)
      /\ enabled' = [enabled EXCEPT ![r] = TRUE]
      /\ ShowUpdated(n)
      /\ IF now THEN Post(r) ELSE UNCHANGED posted
      /\ armed' = [armed EXCEPT ![r] = @ \/ (~ now /\ file[r].refresh)]
      /\ dropped' = IF ~ now /\ file[r] = NoFile THEN dropped \cup {r} ELSE dropped
      /\ UNCHANGED <<site, records, recordMap, name, file, lastSite, threadVars,
                     reader, gui, leaving, queue, early, made>>

Disable(n) ==
  LET r == recordMap[n]
  IN  /\ Call(n)
      /\ enabled' = [enabled EXCEPT ![r] = FALSE]
      /\ armed' = [armed EXCEPT ![r] = FALSE]
      /\ ShowUpdated(n)
      /\ UNCHANGED <<site, records, recordMap, name, file, lastSite, posted,
                     threadVars, reader, gui, leaving, queue, dropped, early, made>>

SetThresholded(n) ==
  /\ Call(n)
  /\ ShowUpdated(n)
  /\ UNCHANGED <<site, records, recordMap, recordVars, threadVars, reader, gui,
                 leaving, queue, dropped, early, made>>

Refresh(n) ==
  /\ Call(n)
  /\ Post(recordMap[n])
  /\ UNCHANGED <<site, records, recordMap, name, file, enabled, lastSite, armed,
                 threadVars, reader, gui, leaving, queue, modelVars, dropped, early,
                 made>>

(* set_placefile_url. *)
Rename(n, new) ==
  LET r == recordMap[n]
  IN  /\ Call(n)
      /\ recordMap[new] = NoRecord
      /\ name' = [name EXCEPT ![r] = new]
      /\ file' = [file EXCEPT ![r] = NoFile]
      /\ recordMap' = [ErasedFromMap(n) EXCEPT ![new] = r]
      /\ ShowRenamed(n, new)
      /\ Post(r)
      /\ early' = (early \/ ~ synchronized)
      /\ UNCHANGED <<site, records, enabled, lastSite, armed, threadVars, reader,
                     gui, leaving, queue, dropped, made>>

(* A map has got a site, or another one. *)
SetRadarSite(s) ==
  /\ gui = "idle"
  /\ calls < MaxCalls
  /\ calls' = calls + 1
  /\ site # s
  /\ site' = s
  /\ posted' = [r \in Records |->
                  posted[r] + IF r \in records /\ enabled[r] THEN 1 ELSE 0]
  /\ UNCHANGED <<records, recordMap, name, file, enabled, lastSite, armed,
                 threadVars, reader, gui, leaving, queue, modelVars, dropped,
                 early, made>>

(* RemoveUrl destroys the record with the lock held: its destructor waits  *)
(* for the update under way, and then for the queue of the pool.           *)
RemoveUrl(n) ==
  LET r == recordMap[n]
  IN  /\ Call(n)
      /\ records' = records \ {r}
      /\ recordMap' = ErasedFromMap(n)
      /\ leaving' = r
      /\ gui' = "lock"
      /\ VectorMoves
      /\ UNCHANGED <<site, recordVars, threadVars, queue, modelVars, dropped,
                     early, made>>

StillEnabled(r) == enabled
NoLongerEnabled(r) == [enabled EXCEPT ![r] = FALSE]

CancelLeaving ==
  /\ gui = "lock"
  /\ pc[leaving] = "idle"
  /\ enabled' = NoLongerEnabled(leaving)
  /\ armed' = [armed EXCEPT ![leaving] = FALSE]
  /\ gui' = "join"
  /\ UNCHANGED <<site, records, recordMap, name, file, lastSite, posted,
                 threadVars, reader, leaving, queue, modelVars, dropped, early,
                 bounds>>

AtRest(r) == pc[r] = "idle" /\ posted[r] = 0 /\ ~ armed[r]

JoinLeaving ==
  /\ gui = "join"
  /\ AtRest(leaving)
  /\ ShowRemoved(name[leaving])
  /\ gui' = "idle"
  /\ leaving' = NoRecord
  /\ UNCHANGED <<site, records, recordMap, recordVars, threadVars, reader, queue,
                 dropped, early, bounds>>

UserStep ==
  \/ \E n \in Names :
       \/ AddUrl(n) \/ Enable(n) \/ Disable(n) \/ SetThresholded(n)
       \/ Refresh(n) \/ RemoveUrl(n)
       \/ \E new \in Names : Rename(n, new)
  \/ \E s \in Sites : SetRadarSite(s)

ReaderStep == ReadEntry \/ TellEntry \/ ReadEnds

Next ==
  \/ UserStep
  \/ Deliver \/ CancelLeaving \/ JoinLeaving
  \/ ReaderStep
  \/ \E r \in Records : RecordStep(r) \/ Fire(r)

(* Requests are answered, timers expire, every thread goes on.  Between    *)
(* two updates the mutex is free for a moment; the destructor gets it in   *)
(* the end.                                                                *)
Fairness ==
  /\ WF_vars(Deliver)
  /\ WF_vars(ReaderStep)
  /\ SF_vars(CancelLeaving)
  /\ WF_vars(JoinLeaving)
  /\ \A r \in Records : WF_vars(RecordStep(r)) /\ WF_vars(Fire(r))

Spec == Init /\ [][Next]_vars /\ Fairness

-----------------------------------------------------------------------------
(* Properties.                                                             *)

RecordsTyped ==
  /\ site \in Sites \cup {NoSite}
  /\ made \in 0 .. MaxRecords
  /\ records \subseteq 1 .. made
  /\ recordMap \in [Names -> records \cup {NoRecord}]
  /\ name \in [Records -> Names \cup {"none"}]
  /\ file \in [Records -> [source : Names \cup {"none"}, refresh : BOOLEAN]]
  /\ lastSite \in [Records -> Sites \cup {NoSite}]
  /\ posted \in [Records -> Nat]

FlagsTyped ==
  /\ enabled \in [Records -> BOOLEAN]
  /\ armed \in [Records -> BOOLEAN]
  /\ dropped \subseteq Records

ThreadsTyped ==
  /\ pc \in [Records -> {"idle", "load", "check", "assign", "schedule", "arm"}]
  /\ using \in [Records -> Names \cup {"none"}]
  /\ reader \in [at : {"add", "tell", "done"}, entry : 1 .. Len(Settings) + 1,
                 record : Records \cup {NoRecord}, moved : BOOLEAN]
  /\ reader.at = "tell" =>
       reader.entry <= Len(Settings) /\ reader.record \in 1 .. made

GuiTyped ==
  /\ gui \in {"idle", "lock", "join"}
  /\ leaving \in Records \cup {NoRecord}
  /\ (gui = "idle") = (leaving = NoRecord)
  /\ queue \in Seq({Updated(n) : n \in Names} \cup {Initialized})

ModelsTyped ==
  /\ rows \in Seq(Names)
  /\ met \subseteq Names
  /\ synchronized \in BOOLEAN

PlacefileTypeOK ==
  RecordsTyped /\ FlagsTyped /\ ThreadsTyped /\ GuiTyped /\ ModelsTyped

(* The vector and the map of records, which every operation changes        *)
(* separately, always agree: the map leads to each record by its present   *)
(* name, and to nothing else.                                              *)
RecordsIndexed ==
  \A r \in Records, n \in Names :
    recordMap[n] = r <=> r \in records /\ name[r] = n

(* When no signal is under way, every record has its row in the list of    *)
(* placefiles, and a layer once the layers have been synchronized, unless  *)
(* it was renamed before that: an update that is delivered late, after     *)
(* a rename or a removal, takes no record's row away.                      *)
Settled == queue = <<>> /\ gui = "idle" /\ reader.at # "tell"

RecordsListed ==
  Settled => \A r \in records :
    /\ Found(rows, name[r])
    /\ synchronized /\ ~ early => Found(layers, name[r])

(* A placefile that is enabled but not loaded is being updated or will be, *)
(* whatever updates, calls of the user and timers overlap.  There are      *)
(* three ways to end this: an exception, enabling it when there is nothing *)
(* to schedule a refresh of, and a first update that is queued through a   *)
(* reference the vector has left behind.                                   *)
WaitsForSite(r)  == site = NoSite /\ name[r] \notin Local
AboutToBeTold(r) == reader.at = "tell" /\ reader.record = r /\ Entry.enabled

EnabledIsRetried ==
  \A r \in records :
    enabled[r] /\ file[r] = NoFile /\ ~ WaitsForSite(r) =>
      \/ ~ AtRest(r)
      \/ r \in dropped
      \/ AboutToBeTold(r)

(* RemoveUrl returns: the update under way and those queued behind it end, *)
(* and none of them arms the timer again once the destructor had the       *)
(* mutex.                                                                  *)
RemovalEnds == (gui = "lock") ~> (gui = "idle")
===============================================================================

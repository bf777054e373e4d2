# Verification of WeatherGuard-wx (Supercell Wx)

TLA+ models of the parts of the program where threads, timers and late answers
meet, model-checked with TLC on small instances, with theorems checked by TLAPS
for instances of any size. Paths below are relative to `src/`; `…/qt/` stands
for `scwx-qt/source/scwx/qt/` and `wxdata/` for `wxdata/source/scwx/`.

1. [The system](#1-the-system): inventory of the components
2. [The modules](#2-the-modules): what models what
3. [The runs](#3-the-runs): bounds, fairness, and what they show
4. [The proofs](#4-the-proofs)
5. [What was found](#5-what-was-found)
6. [What is not modelled](#6-what-is-not-modelled)
7. [Plan](#7-plan)

To run: `tlc -workers 2 -config MCStore.cfg MCRecordStore` (and likewise for
each row of section 3), `tlapm RecordStoreProofs.tla` (and likewise for the
other `*Proofs` modules). `PROJECT.json` says which lines
of the source each definition models.

## 1. The system

The program is a Qt application that shows NEXRAD weather radar on up to four
maps. `wxdata` is a library without a user interface (providers, decoders,
parsers); `scwx-qt` is the application. It runs a GUI thread, a thread pool per
manager (boost::asio), and S3 and HTTP requests that block the pool thread which
makes them. Qt signals between threads are either direct calls or events queued
to the receiver's thread.

The main flow: a map selects a radar product → its `RadarProductManager` starts
to refresh the product's **provider**, which lists the S3 bucket → new data are
announced → the map asks for the **record**, which is loaded unless it is in
memory → its view computes a sweep and paints it. The **timeline** drives the
same maps through archived times.

### Components that are modelled

**Listing cache** — `wxdata/provider/aws_nexrad_data_provider.cpp`.
*State:* `objects_` (keys by time), `objectDates_` (dates listed, least recently
used first), `lastModified_`, `updatePeriod_`, `refreshDate_`, two mutexes.
*Operations:* `GetTimePointsByDate`, `ListObjects`, `PruneObjects`,
`UpdateMetadata`, `UpdateObjectDates`, `Refresh`.
*Used by* pool threads of the radar product manager, many at a time.
*Hard:* one call takes and releases `objectsMutex_` many times, with a network
request between; midnight passes at any point; listings fail.
*Correct means:* every object belongs to a date that pruning can find, pruning
never removes today, yesterday or too many dates, the metadata that set the
refresh interval are those of the newest objects, no scan is missed at midnight.

**Refresh scheduler** — `…/qt/manager/radar_product_manager.cpp`
(`EnableRefresh`, `RefreshData`, `RefreshDataSync`, `ProviderManager::Disable`).
*State:* `refreshMap_` (which product each map, by UUID, keeps refreshed),
`refreshEnabled_` and `refreshTimer_` of each provider manager.
*Hard:* requests run on the GUI thread and on four pool threads; a refresh under
way, a timer that has just expired and a cancellation meet in any order; a level
3 request first lists the available products, which may fail.
*Correct means:* what a map shows is being refreshed, the chain refresh → timer
→ refresh never breaks and never goes on after it was disabled, what nobody
shows is not refreshed.

**Record store** — the same file (`GetLevel2ProductRecords`,
`GetLevel3ProductRecord`, `LoadLevel2Data`, `LoadLevel3Data`, `LoadNexradFile`,
`StoreRadarProductRecord`, `UpdateRecentRecords`, `SetCacheLimit`) and
`wxdata/include/scwx/util/map.hpp`.
*State:* a map from volume times to weak pointers, the list of recent records
that keeps them alive, the file index, the load mutexes.
*Hard:* a record dies when its last holder lets go, and a load, a file load and a
query of the same volume overlap.
*Correct means:* a volume is never in memory twice, a record in use is found, and
eviction removes only the least recently stored.

**Timeline manager** — `…/qt/manager/timeline_manager.cpp`, the connections in
`…/qt/main/main_window.cpp`, the slots of the maps.
*State:* view type, pinned, selected and adjusted time, loop, animation state and
timer, the sweep monitor (which maps have answered), two pools of one thread.
*Operations:* the slots of the animation dock, `SelectTime`, `Step`, `PlaySync`,
the sweep and paint signals of the maps.
*Hard:* three threads select times, one of them without the mutex; waits with
timeouts for maps that may not answer; a self-rearming timer.
*Correct means:* the maps show the timeline's time and update themselves only in
the live view, requests are served, an animation neither dies nor goes on.

**Warnings** — `wxdata/provider/warnings_provider.cpp`,
`wxdata/network/dir_list.cpp`, `…/qt/manager/text_event_manager.cpp`,
`alert_manager.cpp`, `…/qt/model/alert_model.cpp`, `…/qt/map/alert_layer.cpp`,
`…/qt/ui/alert_dialog.cpp`.
*State:* the listing with a flag per file that says it is to be downloaded; the
messages of each event; a 15 s timer; the rows, the records of the layer, the
dialog and the judging of alerts that are made from `AlertUpdated`.
*Hard:* every listing replaces the map of files, a failed one by an empty map; the
signal is emitted outside the lock, queued to the GUI thread and posted on to
another pool; an exception ends the chain of refreshes.
*Correct means:* each message is stored once, announced in order and drawn in place
of the earlier ones; the newest message of an event is judged.

**Placefiles** — `…/qt/manager/placefile_manager.cpp`,
`…/qt/model/placefile_model.cpp`, `layer_model.cpp`.
*State:* a vector of records and a map by name; per record an enabled flag, a
failure count, a placefile, a timer and a pool of one thread; rows and layers.
*Hard:* rename, disable and remove while an update runs; the destructor joins the
pool; updates are announced through the queue, renames and removals at once.
*Correct means:* map and vector agree, an enabled placefile is retried, a removal
returns, every record is listed.

**Markers** — `…/qt/manager/marker_manager.cpp`, `…/qt/model/marker_model.cpp`,
`…/qt/map/marker_layer.cpp`, `…/qt/ui/edit_marker_dialog.cpp`,
`marker_settings_widget.cpp`.
*State:* a vector of markers, an index by id, the next id; rows, icons, the dialogs
that edit a marker; the file.
*Hard:* the file is read on a pool thread while the user adds markers; ids restart;
rows are made from counts in queued signals; the file is written at exit.
*Correct means:* ids, positions, rows and icons agree; the user gets the markers
asked for; the file loses none.

**Product display and manager lifecycle** — `…/qt/map/map_widget.cpp`,
`…/qt/view/radar_product_view.cpp`, `level2_product_view.cpp`,
`level3_product_view.cpp`, `level3_radial_view.cpp`,
`…/qt/manager/radar_product_manager.cpp` (`Instance`, destructor, notifications).
*State:* the map's site, product, selected time, auto-update and auto-refresh flags;
the view with its selected time and sweep; the managers with their
records, queued loads and shared pointers.
*Hard:* sweeps, loads, announcements and the timeline's selections run on five kinds of
thread; loads complete late and in any order; a manager is destroyed by the
thread that drops the last pointer to it.
*Correct means:* the map shows what was selected last, a live map the newest volume;
destroying a manager ends.

### Components that are not modelled

| Component | State and operations | Hard behaviour | Why not |
|---|---|---|---|
| Settings: `…/qt/settings/*`, `settings_manager.cpp` | value, staged value, default, range, callbacks | staged values while values change; commit by category | one thread after start-up; next in the plan |
| Downloads, updates: `download_manager.cpp`, `update_manager.cpp` | queue on one thread, digest check; latest release | cancel during a download; versions compared as text | no state that another thread changes in use |
| Position: `position_manager.cpp` | one source, the UUIDs that want it | source replaced while in use | calls come from the GUI thread only |
| List models: `…/qt/model/*` except those above | rows | drag and drop, reset | answer queries about what managers report |
| Overlay products, layers: `…/qt/map/*layer*` | messages by product | loads that complete for a former site | output; the alert and marker layers are modelled with their managers |
| Text parsing: `wxdata/awips/*` | none (pure) | ends of events, wrapped codes | pure functions a unit test reaches |
| WSR-88D decoding: `wxdata/wsr88d/*` | immutable files | elevation selection between cuts | field layouts; restating them as data shows nothing |
| Tables, utilities: `wxdata/common`, `wxdata/util`, `…/qt/config`, `…/qt/util` | constants, pure functions | — | — |
| Wrappers: font, resource, media, hotkey, thread, log managers | handles | — | input and output |
| Graphics: `…/qt/gl` | buffers | one swap under a mutex | output |
| User interface: `…/qt/ui`, `…/qt/main`, `…/qt/types` | widgets | forwards signals | the dialogs that matter are actions of the modules above |

The parsers, decoders, tables and graphics are by far the largest part of the source
by lines, and the part with the least to check: nothing in them happens in
an order that could differ.

How they interact: the managers are singletons or are shared per site through
`Instance()`. Pool threads emit signals; `NewDataAvailable` and `DataReloaded`
are queued to the GUI thread, the timeline's signals are direct. Shared state is
guarded by one mutex per structure, several of which are released in the middle
of an operation: that is where most hazards of `PROJECT.json` are.

## 2. The modules

Each component has a module `X`, a module `MCX` for TLC, and a module `XProofs`,
which begins with the facts about lists and numbers that its proofs use.
One action is one critical section, one request, one signal delivered or one
step to a place where another thread may see the difference. `pc` says where a
thread is; the other locals of a call are functions over the threads.

**AwsNexradDataProvider.** A time is a pair of day and slot; the bucket and the
date are the environment (`Publish`, `Midnight`). `GetTimePointsByDate`,
`Refresh` and `ListObjects` are split at each lock; `StoreObject` stores one key,
since the code locks for each; `PruneDate` is one round of the pruning loop under
the mutex. Counts only matter as zero or not. Level 2 and level 3 providers
differ in the form of keys only. `missed` is an auxiliary variable: the scans that a
`Refresh` did not get of yesterday because the request failed, or that were uploaded
late.

**RefreshScheduler.** A level 2 request runs at once on `Gui`, a level 3 one is a
job of the pool. Each provider manager has a thread of its own for its timer, as
in the code. Maps only ever enable; the overlay views (`Overlays`), which have UUIDs and
level 3 products of their own, also disable. `Expire` is the timer's handler; a
cancelled timer is no longer `armed`. `wanted` and `requests` are history and bound. `faults` is drawn once
from `FaultSets`: which of a failing listing and a throwing refresh a behaviour may
have, so that one run checks safety with faults and liveness without.

**RecordStore.** Records are pairs of a volume time and a copy, so that two
objects for one volume can be told apart. Reference counts are not counters:
a record lives as long as it is in `Live`, that is recent, in a request, indexed
as a file, or held by a thread (`holds`), and a weak pointer to a record that is not
live reads as expired (`Locked`). The module is one product; `Level2` says which
kind. The look-up between the bounds of a query (`Bounded`, `Candidates`)
follows `map.hpp`. `lastStored` is an auxiliary variable: the volumes stored so far,
the last one first.

**RecordCache** is what the store promises to those who use it: a set of records
in memory with one per volume, what each client was given, and four actions
(`Give`, `Release`, `Load`, `Forget`). It knows no map, list, thread or lock.
RecordStore implements it with `inMemory` mapped to the live records that pointers
lead to (`InMemory`) and `given` to the clients' `holds`: reading an element
that is alive is `Give`, the end of a query is `Release`, `StoreRadarProductRecord`
is `Load` unless it finds a record alive, and evicting, expiring and completing
requests are `Forget`.

**TimelineManager.** `SelectTime` is one path for all three threads (`EnterSelect`,
`LockSelect`, `LiveStateTold`, `AssignSelected`, `SelectDone`), with the signals
delivered map by map (`TellLiveState`, `TellSelected`), because the slots run on
the selecting thread. `Step` and `PlaySync` add the monitor: reset, select, wait,
time out. A map that sweeps answers when it likes or never (`ComputeSweep`,
`Paint`). Times are minutes. `overlapped` is a history variable: the last
selection begun has met another one.

**WarningsPipeline.** The pool of the text event manager has one thread (`PoolStep`):
a refresh lists, requests, receives and handles each file, emits, and arms the
timer of the next (`TimerFires`); a file the user opens goes the same way. A message
is a value with an event, a WMO header and segments; the listing is the version of each
file, and `Storable` is the comparison of headers in
`HandleMessage`. `Deliver` gives `AlertUpdated` to the rows, the layer's records, the
dialog and the alert manager at once, as the GUI thread does; `AlertStep` is the
thread that judges. Faults: a listing fails, a download fails, a change does not show in
the listing, an exception is thrown.

**PlacefileManager** uses **LayerModel**, the layer operations as functions of the
sequence of layers. Each record has a thread for its updates (`RecordStep`) and a
timer (`Fire`); an update is split at every lock and at the request. The destructor
is `CancelLeaving` and `JoinLeaving` on the GUI thread. Signals emitted on the GUI thread
act at once, the others go through `queue` and `Deliver`. The reader of the settings
keeps a reference to the vector's last element while the GUI thread may move the
elements: what it leads to then is any record or none (`Referred`). `dropped` and `early` are
history: a placefile enabled with nothing to schedule, and a record renamed before the
layers were synchronized.

**MarkerManager.** A reader (`ReadIcons`, `ResetIds`, `ReadFile`, `AnnounceUpdate`,
`AnnounceInitialized`) and the GUI thread with two dialogs and the sorted view;
`BeginSave`, `EndSave`, `ExitUnread`, `Die` and `Start` are the program's end and
restart. A record carries a tag the program does not see, so that the user's markers can
be followed from session to session. `MarkersInitialized` carries the number of markers
with which it was emitted, and that many rows are announced (`told`) though the ids are those
found when it is delivered; `gone` counts the markers removed in between, each of
which leaves a row without an id behind the others. `upsets` is history (section 5).

**ProductDisplay.** One map. `widget` is the manager of the map and `view.manager` that of the
view; a manager lives as long as something holds it (`Held`: the map, the view, a sweep
under way, the timeline's thread while it selects), and whoever drops the last pointer
runs `Destruct`. A load under way holds none (section 6). The view's and the widget's sweep threads, a pool of
loads per manager, the timeline's thread (`StartSelect`, `TellMap`, `EndSelect`), the
GUI thread with its queue, and the servers interleave. A volume is a time, its content
the times at which the elevation was scanned, so that choosing a volume and choosing
a scan differ as in the code. A switch of the site reads the view's time (`CarryTime`),
selects it again (`Reselect`) and tells the timeline (`FinishSwitch`), with the
timeline's thread in between. How records are kept is left to RecordStore: here they stay
once loaded, until their manager is destroyed. A load queued twice for one volume is one, a
manager made and dropped inside one job is not kept, and enabling a level 3 refresh is one step.
`upsets` is history: what happened that the properties except. So are `seen`, the volumes the
last query listed, and `due`, the last volume announced while the map updates itself,
dropped when anything else is selected. `DisplayAssumption`
says what a level 2 volume is: its scans begin with it and end before the next one
begins; without that the two records `GetLevel2Data` looks at need not have the
scan wanted.

## 3. The runs

| Run | Instance | Checks |
|---|---|---|
| `provider` | one query thread, one refresh thread; 3 dates from the first; pruning above 1 object and at 2 dates; requests may fail, uploads may be late | `TypeOK`, `EveryObjectPrunable`, `MetadataFresh`, `MissedOnlyByFailure`, `RecentObjectsKept`, `MinDatesKept`, `PublishedEventuallyCached` |
| `refresh` | two maps and an overlay view, a level 2 and a level 3 product, two pool threads, three requests; with and without failing listings and throwing refreshes | `TypeOK`, `AssociatedIsEnabled`, `ChainAlive`, `KeepsRefreshing`, `DisabledEnds` |
| `store` | three volumes with two possible objects each; a client that asks for the second, a thread that loads all three again and again, a thread that opens a file of the second; cache limit 2 (the least) or 3; loads may fail | `TypeOK`, `SharedIsFound`, `LastStoredInMemory`, `ImplementsCache` |
| `timeline_safety` | two maps, one site, two calls from the dock, two attempts per step | `TypeOK`, `MapsFollowTimeline` |
| `timeline_live` | one map, two calls, two attempts per step, the clock passes a minute | `RequestsServed`, `KeepsPlaying`, `PauseEnds` |
| `warnings` | five messages: two of one event, the second with three segments, one of another, a copy of the first, a product without VTEC; two files, one published while the program runs; one file opened; two providers; a failing listing, or the other three faults | `TypeOK`, `EachMessageOnce`, `SignalsInOrder`, `NewestJudged`, `SegmentsReplaced`, `DialogCorrected`, `PublishedArrives` |
| `placefiles` | two names, one of them a local file; one site; settings with one enabled placefile; five default layers; saved layers with one unknown, one out of order and two missing; two records, two calls, one queued signal before timers wait | `PlacefileTypeOK`, `RecordsIndexed`, `RecordsListed`, `EnabledIsRetried`, `RemovalEnds` |
| `markers` | two saved markers in an order that sorting changes, a third to be added; two dialogs; three calls; two sessions | `TypeOK`, `ViewsAgree`, `RecordsAreWanted`, `FileKeepsMarkers` |
| `display` | two sites, a level 2 and a level 3 product, two volumes of two scans; two calls or uploads; three managers; a file of the other site; one load may fail | `TypeOK`, `ShowsSelection`, `LiveShowsNewest` |
| `provider_midnight` | one refresh thread, two dates, requests may fail | counterexample to `MidnightCovered` |
| `refresh_orphan` | one map, two level 3 products, two pool threads | counterexample to `EnabledIsAssociated` |
| `display_site_switch` | as `display`, one call | counterexample to `LoadingCompletes` |

**What they show.**
*Provider.* `EveryObjectPrunable`: between two critical sections of a listing other
threads prune its date, and still no object ends up outside the list pruning works
from. `MetadataFresh`: whichever thread updates the metadata last, they describe the
cache. `RecentObjectsKept`, `MinDatesKept`: a "today" read before the lock is never so
stale that pruning takes what the code's comment promises to keep, in any step of any
interleaving. `MissedOnlyByFailure`: with failing listings and late uploads, a refresh that
takes today for refreshed has of yesterday all but what a failed request or a late
upload kept from it; that a failure is not made up for is `provider_midnight`.
`PublishedEventuallyCached`: on whichever day the clock stops, the cache gets all scans of
today and yesterday in the end, also when listings fail now and then, but for
those missed when an object of today was first seen.
*Scheduler.* `AssociatedIsEnabled`, `ChainAlive`: the checks made without a lock never
leave a shown product without refresh; `KeepsRefreshing`, `DisabledEnds`: the chain goes
on while it is wanted, and no longer.
*Store.* `SharedIsFound`: whatever loads overlap, all holders of a volume share one
object. `LastStoredInMemory`: eviction, the order of the recent list and the weak pointers
together keep the volumes stored last, as many as the least limit, also when a volume is
stored twice or opened from a file and when the limit is lowered.
`ImplementsCache`: a client never loses a record it still uses, and no second copy of
it comes into memory meanwhile.
*Timeline.* `MapsFollowTimeline`: whenever no selection is under way and the last one begun
met no other, the maps agree with the timeline; what an overlap leaves behind ends with
the next selection. `RequestsServed`,
`KeepsPlaying`, `PauseEnds`: maps that never answer block nothing for good.
*Warnings.* `EachMessageOnce`: although a failed listing and a new provider make all files
load again, no event holds a header twice. `SignalsInOrder`: the indices announced are those of
the messages, in order, each once. `NewestJudged`: however stores, deliveries and
judging overlap, the newest message of an event is judged or its alert is on the way.
`SegmentsReplaced`: two messages of an event are never drawn for the same time.
`DialogCorrected`: the dialog's count is right or about to be corrected.
`PublishedArrives`: a published message reaches the events in the end, also when
listings fail now and then.
*Placefiles.* `RecordsIndexed`: the map and the vector, searched and changed separately,
agree. `RecordsListed`: a late update takes no record's row away.
`EnabledIsRetried`: an enabled placefile that is not loaded has an update queued,
running or timed. `RemovalEnds`: the destructor's join returns.
*Markers.* `ViewsAgree`: rows, icons, ids and positions follow the records, and the rows
announced are those and one more for each marker removed while `MarkersInitialized` was queued.
`RecordsAreWanted`: after any dialogs and removals the markers are those the user asked
for. `FileKeepsMarkers`: from session to session the file loses no marker.
*Display.* `ShowsSelection`: once everything is done, the map shows the scan of the last
selection, whatever was loaded, announced, switched and computed in between.
`LiveShowsNewest`: a live map does not stay behind the newest volume announced.

The exceptions each of these states are history variables, set by the steps at which the
thing happens; section 5 lists them. A property does not catch what it excepts: the notes of
the hazards in `PROJECT.json` say which hazards that leaves uncovered.

**Why the bounds are enough to matter.** Thresholds are lowered, not removed
(2500 objects → 1, 6 dates → 2, 30 attempts → 2, 6 records → 2), so pruning, giving
up and eviction happen in most behaviours. Two threads of each kind of conflict
are present: a race of the code is between two critical sections, and each pair
meets in some run. Two maps are the least for which a selection can be half
delivered, three managers the least for which a site is left and entered again, two
sessions the least for which a file read differs from a file written. The theorems of
section 4 remove the bounds for the safety properties. Each property
has a mutant in `PROJECT.json`, a plausible bug the run finds, such as a count
overwritten, a mutex not released, an index off by one or a timer handler that does
not look at the animation state. The remaining bounds are on the environment: dates
(`LastDay`), calls and requests (`MaxRequests`, `MaxCalls`, `MaxInputs`), loads waiting
(`MaxLoads`), what clients ask for and which files there are (`Queries`, `Files`),
objects made (`MaxProviders`, `MaxRecords`, `MaxTags`, `MaxManagers`), sessions
(`MaxSessions`).

**Deadlock** is checked where the system always has a next step (the provider and
the store). It is off for the others: scheduler, timeline and placefiles rest when no
request is left; an exception ends the chain of warnings; the program with the markers
may be down for good; a map rests, and a destructor may hang (`display_site_switch`).

**Fairness.**
*Provider:* strong fairness of each thread's steps, since a mutex that is released
again and again goes to a waiting thread in the end (the operating system's
scheduler); neither of the two listings of a refresh fails for ever; `RefreshDataSync`
refreshes again after each refresh. Nobody is obliged to query or to upload, and
midnight need not come.
*Scheduler:* weak fairness of each pool thread, of each call under way and of each
timer; its critical sections are single actions, so that nothing is disabled
again. Nobody is obliged to request anything.
*Timeline:* strong fairness of the three threads. Waits time out, so the maps owe
nothing: they may never sweep and never paint. Nor do the user and the clock.
*Warnings:* weak fairness of the pool with its timer, of the GUI's queue and of the alert
thread; strong fairness of a listing that succeeds, that is, listings do not fail for ever.
`PublishedArrives` is stated for behaviours whose only fault is a failing listing.
*Placefiles:* weak fairness of queue, reader, records and timers; strong fairness of
the destructor's locks, which updates release and take again.
*Markers, display:* none; only safety is claimed.

## 4. The proofs

All theorems are of the form `Spec => …` and hold for every value of the
constants that meets the module's one `ASSUME`, which says that identifiers are
distinct and numbers are numbers; for the display also that there are finitely many
volume times (a latest one exists), that what stands for no file, time or sweep is none,
and where the scans of a volume lie.

| Theorem | States | Argument |
|---|---|---|
| `TypeCorrect`, `DatesStayDistinct` | `TypeOK` of the provider; no date is listed twice | together inductive (`Base`): a date is appended only after it was removed, in one critical section |
| `ObjectsStayPrunable` | `EveryObjectPrunable` | inductive over `Base`: an object's date is in the list, or a thread still has to put it there |
| `MetadataStaysFresh` | `MetadataFresh` | not inductive: it says nothing while a thread is busy. `MetadataInv`: some thread will still update the metadata, or they are current |
| `RecentKept`, `MinDatesStay` | `RecentObjectsKept`, `MinDatesKept` | action properties: only `PruneDate` erases; the list has no duplicates (`DatesDistinct`), so its length counts dates |
| `OnlyFailuresMiss` | `MissedOnlyByFailure`, with failing requests and late uploads | `MidnightInv`: a refresh about to list today has yesterday's scans stored, on their way or missed, and pruning does not take them (`OlderErased`) |
| `SchedulerTypeCorrect`, `TimersAreEnabled` | `TypeOK`; a disabled provider manager has no timer | arming and disabling both hold the timer's mutex |
| `AssociatedStaysEnabled` | `AssociatedIsEnabled` | inductive as stated: its second disjunct, a thread about to enable, is what the race needs |
| `ChainsStayAlive` | `ChainAlive`, which assumes that refreshes do not throw | each thread carries the chain from the cancelled timer to the armed one (`Carries`) |
| `StoreTypeCorrect`, `RecentRecordsDistinct`, `LastStoredStay` | `TypeOK`; no record is recent twice; `LastStoredInMemory` | lemmas about `UpdateRecentRecords` as a function of the list (`UpdateFacts`, `UpdateToSet`, `UpdateDistinct`); `Remembered`: the recent list has the volumes of `lastStored` in their order, as many as there are or as the least limit allows, over `SharedIsFound`, by which storing a volume again moves the record already there |
| `OneRecordPerVolume` | `SharedIsFound` | inductive with `TypeOK`: a thread's own record is not shared until it is stored, and storing looks at the pointer under the lock |
| `StoreImplementsCache` | `ImplementsCache` | a step simulation, one step per action, over `TypeOK`, `SharedIsFound` and `PointsToOwnTime`; what is given is in memory because what is shared is found (`GivenInMemory`) |
| `StoreIsCoherent` | one record per volume, what is given is in memory, of the store | inductive in RecordCache, carried over by the simulation |
| `TimelineTypeCorrect`, `MutexesStayHeld` | `TypeOK`; no thread returns with a mutex | one lemma per group of actions; `MutexesHeld` is inductive with `TypeOK` |
| `MapsKeepFollowing` | `MapsFollowTimeline` | `FollowInv`: unless the last selection begun met another, at most one thread announces, and the maps agree with what it has announced so far; when none announces they agree with the timeline |
| `PipelineTypeCorrect`, `MessagesStayDistinct`, `SignalsStayInOrder` | `TypeOK`, `EachMessageOnce`, `SignalsInOrder` | together inductive (`StoreInv`), with what the pool's thread is about to emit (`EmitStage`, `EmitLast`): the signal not yet sent is the next index |
| `NewestStaysJudged`, `DialogStaysCorrected` | `NewestJudged`, `DialogCorrected` | `AlertInv` over `StoreInv`: what was delivered is handed on, and what is handed on is judged or newer ones follow |
| `SegmentsStayReplaced` | `SegmentsReplaced` | inductive over `StoreInv` with `RecordsDelivered`: records come from delivered messages only, so every later message has cut them |
| `PlacefileTypeCorrect`, `RecordsStayIndexed`, `EnabledStaysRetried` | `PlacefileTypeOK`, `RecordsIndexed`, `EnabledIsRetried` | together inductive, with `NotMadeYet` (records not yet made have no work) and `RenamedIsQueued` (a rename under an update leaves another update queued) |
| `RecordsStayListed` | `RecordsListed` | not inductive: it says nothing while signals are under way. `Listed`: every record's name is in the rows, or an update for it is queued, or the reader is about to tell it (`RowsComplete`); the same for layers, and before the synchronization a name has been met, or its update is queued ahead of the end of reading (`LayersComplete`), which is told once (`EndIsTold`); the name of a record being destroyed is no other's (`LeavesItsName`). Under it, what each layer operation keeps, and that the layers read from any file are a sequence of layers (`ValidatedTyped`) |
| `MarkerTypeCorrect`, `MarkerViewsAgree` | `TypeOK`, `ViewsAgree` of the markers | `ViewsAgree` says nothing while signals are queued. Inductive: `TypeOK`, `Injective` (an id leads to one place) and, unless a marker was added early, `Order` (rows and icons are the records' ids in order, up to what is queued), `Tally` (the count a queued signal carries is that of the records and of those gone since) and `Phase` (what may be queued where the reader is) |
| `RecordsStayWanted`, `FileStaysComplete` | `RecordsAreWanted`, `FileKeepsMarkers` | `MarkersInv`: unless a marker was added early, it has one record and one place in the file (`Tagged`); a dialog's id and the marker it shows mean the same record (`Linked`); before the file is read nothing is open (`Untouched`); `Wants` and `Keeps` say what is missing while a dialog or a write is under way |
| `DisplayTypeCorrect` | `TypeOK` of the display | in four parts (records and pools, map and view, threads and queues, history), one lemma per action; destroying a manager keeps every index in range, those of the sweeps and of the timeline's thread because they are held |
| `SelectionStaysShown` | `ShowsSelection` | not inductive: it says nothing until everything is done. `Steady`: a site has one living manager, those being destroyed are held by nobody, a live timeline has selected for its site, one sweep at most is under way. `Sound`, unless something excepted has happened: map and view have one manager and the time chosen (`Aimed`), and either the view is to compute again, being asked or about to be selected for (`ToUpdate`), or its sweep under way will have the right picture (`Promising`), or it has it (`Settled`); a picture may lack a record only while that record's load is still to be told (`Awaited`). `ScanOfAll`: choosing between two volumes, `GetLevel2Data` finds the newest scan among all of them |
| `LatestStaysShown` | `LiveShowsNewest` | `LiveInv`, over `TypeOK`, `Steady` and `Sound`. `Going`: a volume is due only while the map updates itself and the timeline is live. `Heard`: what a held manager announces, it has listed. `OwnTimes`: a record has the volume of its own time. `Follows`: the load of the volume due is posted, waiting or still to be told (`Coming`), or the view has selected it or a newer one and has seen it or will query again, and no sweep under way takes the time back (`Newest`, `Ahead`; a sweep of level 3 can, `Levels`) |

Only model-checked: liveness (`PublishedEventuallyCached`, `KeepsRefreshing`,
`DisabledEnds`, `RequestsServed`, `KeepsPlaying`, `PauseEnds`, `PublishedArrives`,
`RemovalEnds`), since fairness and ENABLED are beyond the proof system; and the
counterexamples. Every safety property of a passing run has a theorem. No module has a
RECURSIVE operator. The loops over the layers are
recursive functions; what they keep is proved by induction on the numbers as sets
(`NumberInduction`, from `LeastNumber`: a set of numbers has a least one), since the
library's induction takes an operator. What the loops compute for every input, that is,
that the immovable layers end up in order, is not proved.

## 5. What was found

Three runs show the code doing other than its comments say.

* `provider_midnight` — `Refresh` does not look whether yesterday's listing succeeded: when it
  fails and today's brings an object, yesterday is not listed again and the scans
  uploaded just before midnight stay out of the cache
  (`aws_nexrad_data_provider.cpp:346`; the comment at `:344` says that yesterday is listed
  "to ensure we haven't missed any objects near midnight").
* `refresh_orphan` — the check and the assignment of `refreshEnabled_` are outside
  the mutex: of two products that one map enables in turn, the first stays enabled with no
  map that shows it (`radar_product_manager.cpp:712`; `radar_product_manager.hpp:57`
  says that the second disables it).
* `display_site_switch` — the destructor of a manager takes the load mutexes to
  "ensure loading is complete" and joins the pool, but a load still queued there
  needs them: switching the site with a reload queued hangs the GUI thread
  (`radar_product_manager.cpp:161`).

**What the properties except**, each by a history variable that is set where it happens:

* Timeline, `overlapped`: a live selection takes no mutex; overlapping another one it
  leaves maps that update themselves in an archived view, until a selection that meets
  no other one (`timeline_manager.cpp:552`).
* Placefiles, `dropped`: enabling when there is nothing to schedule a refresh of, so
  that nothing retries (`placefile_manager.cpp:263`); or, when the reader of the settings uses
  its reference to a record after the vector has moved, queuing the update of another record or
  of none (`:499`). `early`: a rename before the layers are
  synchronized erases the renamed layer.
* Markers, `early`: a marker added before the rows exist gets an id that is given again and
  a row twice or beyond the others; added before the default icons it throws. `sorted`: a row of the
  sorted view is used as a row of the model (`marker_settings_widget.cpp:88`, `:125`).
  `shared`: one dialog accepts the marker another is adding, and the other's
  cancel removes it (`edit_marker_dialog.cpp:324`). `torn`: a death while the file is
  written loses it.
* Display, `failed`: an object is listed but does not load. `raced`: the level 3 view
  writes the time it has found over a newer selection
  (`level3_radial_view.cpp:151`), or a switch of the site does so with the time it has read
  (`map_widget.cpp:925`), or a reload of the volume found is reported before its time is
  written, when it is not yet the selected one (`level3_product_view.cpp:147`).
  `strayed`: after a file of another site the view keeps the old manager
  (`map_widget.cpp:1984`). `crossed`: the timeline's thread remembers the
  site as it is at the end of its selection (`timeline_manager.cpp:608`). `returned`: the
  site is changed and changed back before the timeline's thread selects, which then
  takes the site for the one it selected last and tells the map nothing (`:538`).
  Only `LiveShowsNewest` excepts `outran`, level 3 completions out of order that show
  the older volume, `misdated`: after a switch a manager is asked for a time it has
  not listed, and an older volume is stored under that time
  (`radar_product_manager.cpp:1120`), and `overtaken`, a case of `raced` in which the lost
  selection has the time of the one before: the sweep of level 3 that was asked for a
  volume finds an older one, and writes it back after the volume has been loaded and
  selected again (`level3_radial_view.cpp:151`), so that the live map stays behind.
  The run reaches all of these but `returned`, which takes more calls than it makes; a
  simulation with up to seven met it.

**Observed while modelling**, behaviours of the models that contradict no text of the
repository:

* A query that found its date in the cache puts the date back after another thread
  has pruned it, now without objects (`aws_nexrad_data_provider.cpp:198`, `:228`).
* A level 3 request, which is queued, undoes a level 2 request made after it
  (`radar_product_manager.cpp:634`).
* `PlacefileUpdated` delivered after a rename or a removal adds a layer for a name
  that is gone (`layer_model.cpp:975`).
* A saved immovable layer that comes too early is put one place too far, since the
  iterator is used after an erasure before it; with no layer behind, the insertion is past
  the end of the vector (`layer_model.cpp:246`).
* A load started by auto-update overrides an archived selection made meanwhile, as
  `autoUpdateEnabled_` is not looked at again (`map_widget.cpp:1793`); one announced
  before a switch asks the new site's manager for the old site's time (`:1834`).
* After a file is opened the map no longer refreshes by itself: nothing calls
  `SetAutoRefresh(true)`.
* With no data at the new site the old sweep stays on the map.
* Setting up an adding dialog again leaves the marker that was not accepted.
* `SetValue` of a setting keeps the staged value and calls the staged callbacks with
  the current one (`settings_variable.cpp:278`).

## 6. What is not modelled

* The components of the second table of section 1, with the reasons in
  `PROJECT.json`.
* In the provider: pages beyond the first of a listing (a day of one site has some 300
  keys, a page 1000), `LoadObjectByKey` and the listing of level 3 products,
  which are reads; objects that are uploaded again under the same key, whose entry
  `insert_or_assign` replaces with a newer time of modification
  (`aws_nexrad_data_provider.cpp:276`): the model's bucket only gets new ones.
* In the scheduler: the length of the interval. The timer expires at any time,
  which covers every length.
* In the store: the data race on a `weak_ptr` that is read while
  `StoreRadarProductRecord` assigns it is read as one of the two values; the
  iterator kept over an insertion into `level3ProviderManagerMap_` is read as
  valid, and the content of records is not modelled.
* In the timeline: `adjustedTime_` and the cache limit (they go to other parts), the
  loop's speed and delay (they set how long a timer runs), exceptions.
* In the warnings: which segments sound (location, settings, clock), the distances of
  the list, the lines drawn, the timer of the proxy model, destruction, the data race on
  the provider pointer (`text_event_manager.cpp:45`), which is read as one of the two.
* In the placefiles: a crash on the reference that has come to dangle
  (`placefile_manager.cpp:499`), titles, thresholds, the lengths of back-off, `WritePlacefileSettings`,
  parsing, drag and drop and reset of layers.
* In the markers: icon sheets, colours and positions, entries of the file that cannot be
  parsed, and `move_marker`, which nothing calls.
* In the display: drawing, elevations, storm tracks, several maps, the overlay view,
  eviction (RecordStore has it), `Cleanup` at exit. The pointer a load has to the manager it
  stores in (`radar_product_manager.cpp:1131`): a load that came to hold the last one would
  join the pool its own thread belongs to. The selection of the timeline's site after a
  sweep (`main_window.cpp:941`, `:1525`): it differs from what the timeline has only
  after a file of another site, a state both properties except (`strayed`).

Further hazards noted while reading, beside those of `PROJECT.json`: the overlay's load does not look
whether its site is still shown (`overlay_product_view.cpp:162`), a first page of
1000 keys only (`aws_nexrad_data_provider.cpp:245`), an update period that spans
an outage (`radar_product_manager.cpp:768`), a selection of the live view that
overtakes queued ones (`timeline_manager.cpp:127`), the delay at the loop's end that
needs an exact minute (`timeline_manager.cpp:478`), a file left behind when its digest is wrong
(`download_manager.cpp:245`), versions compared as text
(`update_manager.cpp:222`), a refresh that arms its timer again after
the destructor of the text event manager has cancelled it (`text_event_manager.cpp:73`).

## 7. Plan

Done: AwsNexradDataProvider, RefreshScheduler, RecordStore with
RecordCache, TimelineManager, ProductDisplay with the managers' lifecycle,
WarningsPipeline, PlacefileManager with LayerModel, MarkerManager; proofs for all of
them, of every safety property that a passing run checks.

Next:

1. **ProductDisplay over RecordCache:** records that are evicted while a view is about to use them,
   through the abstract cache rather than the store's own steps.
2. **SettingsVariable:** value, staged value and callbacks. *Commit and reset are all
   or nothing; a callback sees the new value.*
3. **Pure operators** against a reference definition over bounded inputs: the choice
   of elevation cuts (`Ar2vFile`), VTEC windows, layer moves.
4. **Download and position managers** as small modules.

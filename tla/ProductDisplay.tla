---------------------------- MODULE ProductDisplay ----------------------------
(***************************************************************************)
(* What one map shows: MapWidget, its RadarProductView and the             *)
(* RadarProductManagers it goes through                                    *)
(* (scwx-qt/source/scwx/qt/map/map_widget.cpp, view/*_view.cpp and         *)
(* manager/radar_product_manager.cpp), driven by the timeline.             *)
(*                                                                         *)
(* The GUI thread handles the user's calls and the queued signals; the     *)
(* timeline's thread picks archived times; a sweep is computed by the      *)
(* view's thread, the first one by the widget's; every manager loads       *)
(* volumes on a pool of its own.  A manager lives as long as a shared      *)
(* pointer to it does, and whoever drops the last one runs its destructor. *)
(*                                                                         *)
(* A volume is named by its time, and its content by the times at which    *)
(* the selected elevation was scanned.  RecordStore tells how the records  *)
(* of one product are kept; here they stay once they are loaded.           *)
(***************************************************************************)
EXTENDS Integers, Sequences, FiniteSets, FiniteSetsExt

CONSTANTS
  Sites,        \* radar sites
  Products,     \* radar products, one of each group
  Level2,       \* the product of level 2
  Times,        \* volume times
  Latest,       \* the default time point
  Scans,        \* the scan times of a level 2 volume at the selected elevation
  Picks,        \* the archived times the user picks
  Files,        \* the files the user opens
  StartSite,    \* the site of the settings
  Published,    \* the volumes there are at the start
  Uploads,      \* the volumes uploaded later
  NoFile,       \* no file behind a record
  NoTime,       \* no time
  NoProduct,    \* nothing is refreshed
  NoSweep,      \* the view has not computed a sweep yet
  MaxManagers,  \* bound on the managers created
  MaxInputs     \* bound on the user's calls and the uploads

Ids      == 1 .. MaxManagers
AnyTime  == Times \union Picks \union {Latest}
Volumes  == [site : Sites, product : Products, time : Times]
Sweepers == {"view", "widget"}

(* The scans of a volume begin with it and end before the next one begins. *)
ASSUME DisplayAssumption ==
  /\ Level2 \in Products /\ StartSite \in Sites
  /\ Times \subseteq Nat \ {0} /\ Picks \subseteq Nat \ {0} /\ Latest = 0
  /\ IsFiniteSet(Times)
  /\ Scans \in [Times -> SUBSET (Nat \ {0})]
  /\ \A v \in Times : Scans[v] # {} /\ IsFiniteSet(Scans[v])
  /\ \A v \in Times : \A a \in Scans[v] :
       v <= a /\ \A w \in Times : v < w => a < w
  /\ Published \subseteq Volumes /\ Uploads \subseteq Volumes
  /\ Files \subseteq Volumes
  /\ NoFile \notin Times /\ NoTime \notin Times
  /\ NoSweep \notin [site : Sites, product : Products, time : Nat]
  /\ MaxManagers \in Nat \ {0} /\ MaxInputs \in Nat

VARIABLES
  published,  \* the volumes on the servers
  site,       \* the radar site of each manager created
  listed,     \* the volume times the providers of each manager have listed
  keys,       \* the keys of each manager's record maps
  file,       \* the volume behind each record that is loaded
  refresh,    \* the product whose refresh the map has enabled in each manager
  pool,       \* the loads each manager's threadPool_ has to run
  dying,      \* the managers being destroyed, by which thread and how far
  widget,     \* radarProductManager_ of the map
  view,       \* its RadarProductView
  autoRefresh, autoUpdate,
  updates,    \* the ComputeSweeps posted to the view's thread
  widgetPool, \* the jobs posted to the map's thread
  sweeping,   \* the ComputeSweep each thread is in
  events,     \* the queue of the GUI thread
  gui,        \* whether the GUI thread is changing the radar site, and how far
  timeline,   \* radarSite_, previousRadarSite_, viewType_ and selectedTime_
  asks,       \* the times posted to the timeline's thread
  selecting,  \* the time it is selecting, how far it is, and its manager
  opening,    \* the files posted to be loaded
  opened,     \* fileIndex_
  inputs,     \* the user's calls and the uploads so far, for the bound
  chosen,     \* the time last selected, or found for it (ghost)
  seen,       \* the keys the last query for it has seen (ghost)
  due,        \* the last volume announced to the map it is to show (ghost)
  upsets      \* what has happened that the properties except (ghost)

servers  == <<published, listed>>
records  == <<keys, file>>
managers == <<site, refresh>>
loading  == <<pool, opening, opened>>
display  == <<widget, view, updates, sweeping>>
flags    == <<autoRefresh, autoUpdate>>
ticker   == <<timeline, asks, selecting>>
ghosts   == <<chosen, seen, due, upsets>>
vars == <<servers, records, managers, loading, dying, display, flags,
          widgetPool, events, gui, ticker, inputs, ghosts>>

Idle         == [on |-> FALSE]
NotSelecting == [time |-> NoTime]

-----------------------------------------------------------------------------
(* Managers and who holds them.                                            *)

Made == 1 .. Len(site)

Held == {widget, view.manager}
          \union {sweeping[c].manager : c \in {d \in Sweepers : sweeping[d].on}}
          \union (IF selecting = NotSelecting THEN {} ELSE {selecting.manager})

(* RadarProductManager::Instance: the one that lives, or a new one. *)
Living(s)   == {m \in Held : site[m] = s}
Instance(s) == IF Living(s) # {} THEN Max(Living(s)) ELSE Len(site) + 1
MayHave(s)  == Living(s) # {} \/ Len(site) < MaxManagers
InstanceUnmade(s) == UNCHANGED site
TakeInstance(s) == site' = IF Living(s) # {} THEN site ELSE Append(site, s)

(* A thread that drops the last pointer to a manager runs its destructor,  *)
(* and does nothing else until it ends.                                    *)
Step(th, A) ==
  /\ \A d \in dying : d.by # th
  /\ A
  /\ dying' = dying \union
       {[manager |-> m, by |-> th, locked |-> FALSE] : m \in Held \ Held'}

(* ~RadarProductManagerImpl takes the load mutexes, and then joins the     *)
(* pool.                                                                   *)
LockLoads(d) ==
  /\ ~d.locked
  /\ dying' = (dying \ {d}) \union {[d EXCEPT !.locked = TRUE]}
  /\ UNCHANGED <<listed, records, refresh>>

NoTimes == [p \in Products |-> {}]
NoFiles == [p \in Products |-> [t \in Times |-> NoFile]]

MayJoin(d) == d.locked /\ pool[d.manager] = {}

Join(d) ==
  /\ MayJoin(d)
  /\ dying' = dying \ {d}
  /\ listed' = [listed EXCEPT ![d.manager] = NoTimes]
  /\ keys' = [keys EXCEPT ![d.manager] = NoTimes]
  /\ file' = [file EXCEPT ![d.manager] = NoFiles]
  /\ refresh' = [refresh EXCEPT ![d.manager] = NoProduct]

Destruct ==
  /\ \E d \in dying : LockLoads(d) \/ Join(d)
  /\ UNCHANGED <<published, site, loading, display, flags, widgetPool,
                 events, gui, ticker, inputs, ghosts>>

LoadsLocked(m) == \E d \in dying : d.manager = m /\ d.locked
-----------------------------------------------------------------------------
(* Queries of the record map.                                              *)

UpTo(K, t)   == {k \in K : k <= t}
Before(K, t) == {k \in K : k < t}

(* util::GetBoundedElementIterator *)
Bounded(K, t) == IF UpTo(K, t) # {} THEN Max(UpTo(K, t)) ELSE Min(K)

(* The keys of the records that are asked for time t, of level 2 also the  *)
(* one before.                                                             *)
Previous(K, b) == IF Before(K, b) # {} THEN {Max(Before(K, b))} ELSE {}

Candidates(p, K, t) ==
  IF K = {} THEN {}
  ELSE IF t = Latest THEN {Max(K)}
  ELSE {Bounded(K, t)}
         \union (IF p = Level2 THEN Previous(K, Bounded(K, t)) ELSE {})

(* Ar2vFile::GetElevationScan: the newest scan, not newer than t. *)
ScanAmong(S, t) == IF t = Latest THEN Max(S) ELSE Bounded(S, t)
ScanOf(v, t)    == ScanAmong(Scans[v], t)

(* GetLevel2Data takes the scan of the earlier record unless the later one *)
(* has a newer one that is not newer than t.                               *)
NewestScan(a, b, t) == IF a < b THEN b ELSE a
LaterScan(a, b, t)  == IF b <= t /\ a < b THEN b ELSE a

(* What is shown for time t from the records at the keys C, given the      *)
(* volume f[k] behind each: a scan, or the volume of a level 3 product.    *)
Shown(s, p, f, C, t) ==
  IF C = {} THEN NoSweep
  ELSE [site |-> s, product |-> p, time |->
          IF p = Level2
          THEN LaterScan(ScanOf(f[Min(C)], t), ScanOf(f[Max(C)], t), t)
          ELSE f[Max(C)]]

IsLoaded(m, p) == {k \in keys[m][p] : file[m][p][k] # NoFile}

(* PopulateProductTimes: the volume times of the three days around t, which *)
(* the provider lists unless it has; none for the epoch.                   *)
Listing(m, p) ==
  IF listed[m][p] = {} THEN published[site[m]][p] ELSE listed[m][p]

Populated(m, p, t) ==
  IF t = Latest THEN keys[m][p] ELSE keys[m][p] \union Listing(m, p)

Reload(p, k) == [kind |-> "reload", product |-> p, time |-> k]

-----------------------------------------------------------------------------
(* ComputeSweep, by thread c of the view, or of the widget for Initialize. *)

Sweep(c, m) ==
  LET t == view.time
      p == view.product
      K == Populated(m, p, t)
      C == Candidates(p, K, t)
      L == C \intersect IsLoaded(m, p)
  IN  /\ {d \in Sweepers : sweeping[d].on /\ ~sweeping[d].old} = {}
      /\ keys' = [keys EXCEPT ![m][p] = K]
      /\ listed' = [listed EXCEPT ![m][p] = IF t = Latest THEN @ ELSE Listing(m, p)]
      /\ pool' = [pool EXCEPT ![m] = @ \union {Reload(p, k) : k \in C \ L}]
      /\ sweeping' = [sweeping EXCEPT ![c] =
            [on |-> TRUE, old |-> FALSE, manager |-> m, asked |-> t,
             adjusted |-> p = Level2,
             found |-> IF p = Level2 \/ C = {} THEN t ELSE Max(C),
             sweep |-> Shown(site[m], p, file[m][p], L, t)]]
      /\ seen' = K

StartUpdate ==
  /\ updates > 0
  /\ ~sweeping["view"].on
  /\ Sweep("view", view.manager)
  /\ updates' = updates - 1
  /\ UNCHANGED <<published, file, managers, opening, opened, widget,
                 view, flags, widgetPool, events, gui, ticker, inputs, chosen, due,
                 upsets>>

(* A level 3 view takes over the time of the record it has found.  A       *)
(* selection made since the query is overwritten, also one of the same     *)
(* time, and a record reloaded since then was not of the selected time.    *)
Adjust(c) ==
  /\ sweeping[c].on /\ ~sweeping[c].adjusted
  /\ sweeping' = [sweeping EXCEPT ![c].adjusted = TRUE]
  /\ \/ /\ sweeping[c].old \/ sweeping[c].found = sweeping[c].asked
        /\ UNCHANGED <<view, chosen, upsets>>
     \/ /\ ~sweeping[c].old /\ sweeping[c].found # sweeping[c].asked
        /\ view' = [view EXCEPT !.time = sweeping[c].found]
        /\ IF view.time = sweeping[c].asked
           THEN /\ chosen' = sweeping[c].found
                /\ upsets' = upsets \union
                     (IF seen = {} THEN {"overtaken"} ELSE {})
           ELSE upsets' = upsets \union {"raced"} /\ UNCHANGED chosen
  /\ UNCHANGED <<servers, records, managers, loading, widget, updates, flags,
                 widgetPool, events, gui, ticker, inputs, seen, due>>

(* SweepComputed, or SweepNotComputed with the old sweep kept.  The window *)
(* then tells the timeline of the map's site, which it has already, but    *)
(* for a map that has strayed to the site of a file.                       *)
EndSweep(c) ==
  /\ sweeping[c].on /\ sweeping[c].adjusted
  /\ sweeping' = [sweeping EXCEPT ![c] = Idle]
  /\ view' = IF sweeping[c].old \/ sweeping[c].sweep = NoSweep THEN view
             ELSE [view EXCEPT !.sweep = sweeping[c].sweep]
  /\ UNCHANGED <<servers, records, managers, loading, widget, updates, flags,
                 widgetPool, events, gui, ticker, inputs, ghosts>>

-----------------------------------------------------------------------------
(* Loads.                                                                  *)

Reply(m, l) ==
  IF l.kind = "reload"
  THEN <<[kind |-> "reloaded", manager |-> m, product |-> l.product,
          time |-> l.time]>>
  ELSE IF l.connected
  THEN <<[kind |-> "loaded", request |-> l.request, site |-> site[m],
          product |-> l.product, time |-> l.time]>>
  ELSE <<>>

(* StoreRadarProductRecord of the living manager of site s: what is stored *)
(* first stays.  A manager made for the record goes with the request, and  *)
(* the record with it.                                                     *)
Store(s, p, k, v) ==
  IF Living(s) = {} THEN UNCHANGED records
  ELSE /\ keys' = [keys EXCEPT ![Instance(s)][p] = @ \union {k}]
       /\ file' = [file EXCEPT ![Instance(s)][p][k] = IF @ = NoFile THEN v ELSE @]

(* LoadNexradFile for a load of manager m's pool: the record in the map, or *)
(* what FindKey leads to.  The pointer to the manager it stores through is *)
(* gone when the step ends, and is not counted among those that hold one.  *)
RunLoad(m) == \E l \in pool[m] :
  LET v == IF file[m][l.product][l.time] # NoFile
           THEN file[m][l.product][l.time]
           ELSE Bounded(listed[m][l.product], l.time)
  IN  /\ ~LoadsLocked(m)
      /\ listed[m][l.product] # {} \/ file[m][l.product][l.time] # NoFile
      /\ pool' = [pool EXCEPT ![m] = @ \ {l}]
      /\ Store(site[m], l.product, l.time, v)
      /\ events' = events \o Reply(m, l)
      /\ upsets' = upsets \union (IF v # l.time THEN {"misdated"} ELSE {})
      /\ UNCHANGED <<servers, managers, opening, opened, display, flags,
                     widgetPool, gui, ticker, inputs, chosen, seen, due>>

(* The object is missing, cannot be loaded or is not valid: the request    *)
(* completes without a record.  The bound is one such load.                *)
LoadFails(m) == \E l \in pool[m] :
  /\ ~LoadsLocked(m)
  /\ file[m][l.product][l.time] = NoFile
  /\ "failed" \in upsets => listed[m][l.product] = {}
  /\ pool' = [pool EXCEPT ![m] = @ \ {l}]
  /\ upsets' = upsets \union {"failed"}
  /\ UNCHANGED <<servers, records, managers, opening, opened, display, flags,
                 widgetPool, events, gui, ticker, inputs, chosen, seen, due>>

(* LoadNexradFile for a file, whose record goes to the living manager of   *)
(* its own site.                                                           *)
LoadFile(f) ==
  /\ f \in opening
  /\ opening' = opening \ {f}
  /\ opened' = opened \union {f}
  /\ Store(f.site, f.product, f.time, f.time)
  /\ events' = Append(events, [kind |-> "opened", file |-> f])
  /\ UNCHANGED <<servers, managers, pool, display, flags, widgetPool, gui,
                 ticker, inputs, ghosts>>

-----------------------------------------------------------------------------
(* Jobs of the map's own thread: the first sweep of a new view, and the    *)
(* loads of announced volumes, which take radarProductManager_ as it is    *)
(* when they run.                                                          *)

InitJob == [kind |-> "init"]

StartInitialize ==
  /\ widgetPool # <<>> /\ Head(widgetPool) = InitJob
  /\ ~sweeping["widget"].on
  /\ Sweep("widget", view.manager)
  /\ widgetPool' = Tail(widgetPool)
  /\ UNCHANGED <<published, file, managers, opening, opened, widget,
                 view, updates, flags, events, gui, ticker, inputs, chosen, due,
                 upsets>>

(* LoadLevel3Data without a provider manager of the product does nothing. *)
HasProvider(m, p) == p = Level2 \/ refresh[m] = p \/ listed[m][p] # {}

PostLoad ==
  /\ widgetPool # <<>> /\ Head(widgetPool) # InitJob
  /\ ~sweeping["widget"].on
  /\ widgetPool' = Tail(widgetPool)
  /\ LET job == Head(widgetPool)
     IN pool' = IF HasProvider(widget, job.product)
                THEN [pool EXCEPT ![widget] = @ \union {job}] ELSE pool
  /\ UNCHANGED <<servers, records, managers, opening, opened, display,
                 flags, events, gui, ticker, inputs, ghosts>>

-----------------------------------------------------------------------------
(* Volumes are uploaded, and a refresh announces the latest if the listing *)
(* of the provider has grown.                                              *)

Publish == \E u \in Uploads :
  /\ inputs < MaxInputs
  /\ inputs' = inputs + 1
  /\ \A v \in published[u.site][u.product] : v < u.time
  /\ published' = [published EXCEPT ![u.site][u.product] = @ \union {u.time}]
  /\ UNCHANGED <<listed, records, managers, loading, display, flags,
                 widgetPool, events, gui, ticker, ghosts>>

RefreshDataSync(m) ==
  LET p == refresh[m]
  IN  /\ m \in Held
      /\ p # NoProduct
      /\ ~(published[site[m]][p] \subseteq listed[m][p])
      /\ listed' = [listed EXCEPT ![m][p] = published[site[m]][p]]
      /\ events' = Append(events,
            [kind |-> "announced", manager |-> m, product |-> p,
             time |-> Max(published[site[m]][p])])
      /\ UNCHANGED <<published, records, managers, loading, display, flags,
                     widgetPool, gui, ticker, inputs, ghosts>>

-----------------------------------------------------------------------------
(* SelectRadarProduct(group, product, code, time, update), once the map's  *)
(* manager is m and automatic refresh is on or not.  A view of another     *)
(* product is destroyed, which waits for what it has to compute (here too  *)
(* if the map's thread still initializes it, and then drops it), and its   *)
(* successor computes its first sweep on the map's thread.                 *)

Enable(m, p, on) ==
  refresh' = IF on THEN [refresh EXCEPT ![m] = p] ELSE refresh

Drained == updates = 0 /\ ~sweeping["view"].on

Select(m, p, t, update, on) ==
  /\ chosen' = t /\ seen' = {}
  /\ Enable(m, p, on)
  /\ \/ /\ p = view.product
        /\ view' = [view EXCEPT !.time = t]
        /\ updates' = updates + (IF update THEN 1 ELSE 0)
        /\ UNCHANGED <<sweeping, widgetPool>>
     \/ /\ p # view.product
        /\ Drained
        /\ view' = [manager |-> m, product |-> p, time |-> t,
                    sweep |-> NoSweep]
        /\ widgetPool' = Append(widgetPool, InitJob)
        /\ sweeping' = IF sweeping["widget"].on
                       THEN [sweeping EXCEPT !["widget"].old = TRUE]
                       ELSE sweeping
        /\ UNCHANGED updates

(* SelectRadarProduct(record): SetRadarSite gives the map and the overlay  *)
(* the manager of the record's site, and the view keeps its own.           *)
SelectRecord(s, p, t, on) ==
  /\ MayHave(s)
  /\ TakeInstance(s)
  /\ widget' = Instance(s)
  /\ upsets' = upsets \union (IF s # site[widget] THEN {"strayed"} ELSE {})
                \union (IF p # Level2 /\ t < view.time THEN {"outran"} ELSE {})
  /\ Select(Instance(s), p, t, TRUE, on)

(* MapWidget::SelectTime *)
SelectTime(t) ==
  /\ view' = [view EXCEPT !.time = t]
  /\ updates' = updates + 1
  /\ chosen' = t /\ seen' = {}
-----------------------------------------------------------------------------
(* The signals the GUI thread handles, each queued once it crosses to it.  *)

Rest     == Tail(events)
Shows(p) == autoRefresh /\ view.product = p
Live     == autoUpdate /\ timeline.live

(* A load thread posts DataReloaded, and a refresh NewDataAvailable, to the *)
(* manager.  The latter reaches a map of this manager once more queued.    *)
Announce(e) ==
  /\ events' = IF e.manager = widget
               THEN Append(Rest, [e EXCEPT !.kind = "new"]) ELSE Rest
  /\ UNCHANGED <<servers, records, managers, loading, display, flags,
                 widgetPool, gui, ticker, inputs, ghosts>>

(* The map has the volume loaded, and shows it then if it updates by       *)
(* itself now.                                                             *)
RequestNew(e) ==
  /\ events' = Rest
  /\ widgetPool' = IF Shows(e.product)
                   THEN Append(widgetPool,
                          [kind |-> "update", product |-> e.product,
                           time |-> e.time, request |-> site[widget],
                           connected |-> autoUpdate])
                   ELSE widgetPool
  /\ due' = IF Shows(e.product) /\ Live /\ e.manager = widget
            THEN e.time ELSE due
  /\ UNCHANGED <<servers, records, managers, loading, display, flags, gui,
                 ticker, inputs, chosen, seen, upsets>>

(* The view is updated if it shows what was reloaded. *)
Lost(e) == \E c \in Sweepers :
  /\ sweeping[c].on /\ ~sweeping[c].old /\ ~sweeping[c].adjusted
  /\ sweeping[c].found = e.time /\ view.time # e.time

UpdateReloaded(e) ==
  LET mine  == view.manager = e.manager /\ view.product = e.product
      shown == mine /\ (e.product = Level2 \/ view.time = e.time)
  IN  /\ events' = Rest
      /\ updates' = updates + (IF shown THEN 1 ELSE 0)
      /\ upsets' = IF mine /\ ~shown /\ Lost(e) THEN upsets \union {"raced"}
                   ELSE upsets
      /\ UNCHANGED <<servers, records, managers, loading, widget, view,
                     sweeping, flags, widgetPool, gui, ticker, inputs, chosen,
                     seen, due>>

(* The map shows the volume that was loaded instead of its latest scan. *)
ShowLoadedVolume(e) ==
  /\ events' = Rest
  /\ Select(widget, e.product, e.time, TRUE, autoRefresh)
  /\ UNCHANGED <<servers, records, site, widget, loading, flags, gui, ticker,
                 inputs, due, upsets>>

(* The map verifies that it still shows site and product. *)
ShowLoaded(e) ==
  /\ events' = Rest
  /\ \/ /\ site[widget] = e.request /\ view.product = e.product
        /\ e.product = Level2
        /\ Select(widget, e.product, Latest, TRUE, autoRefresh)
        /\ UNCHANGED <<site, widget, upsets>>
     \/ /\ site[widget] = e.request /\ view.product = e.product
        /\ e.product # Level2
        /\ SelectRecord(e.site, e.product, e.time, autoRefresh)
     \/ /\ site[widget] # e.request \/ view.product # e.product
        /\ UNCHANGED <<managers, display, widgetPool, chosen, seen, upsets>>
  /\ UNCHANGED <<servers, records, loading, flags, gui, ticker, inputs, due>>

(* What MainWindow does with the record of a file. *)
ShowFile(f) ==
  /\ autoRefresh' = FALSE
  /\ SelectRecord(f.site, f.product, f.time, FALSE)
  /\ due' = NoTime
  /\ UNCHANGED <<servers, records, pool, opened, autoUpdate, gui, ticker>>

Deliver ==
  /\ events # <<>> /\ ~gui.on
  /\ LET e == Head(events)
     IN  \/ e.kind = "announced" /\ Announce(e)
         \/ e.kind = "new" /\ RequestNew(e)
         \/ e.kind = "reloaded" /\ UpdateReloaded(e)
         \/ e.kind = "loaded" /\ ShowLoaded(e)
         \/ /\ e.kind = "opened" /\ ShowFile(e.file)
            /\ events' = Rest /\ UNCHANGED <<opening, inputs>>

-----------------------------------------------------------------------------
(* The timeline.                                                           *)

Current(t) == timeline.time = t /\ timeline.site = timeline.previous

Crossing == IF selecting # NotSelecting THEN {"crossed"} ELSE {}

(* SelectTime() at site s, of a timeline that is live or not. *)
SelectLive(s, live) ==
  /\ timeline' = [site |-> s, previous |-> s, live |-> live, time |-> Latest]
  /\ upsets' = upsets \union Crossing
  /\ \/ /\ timeline.time = Latest /\ timeline.previous = s
        /\ UNCHANGED <<autoUpdate, view, updates, chosen, seen>>
     \/ /\ timeline.time # Latest \/ timeline.previous # s
        /\ autoUpdate' = TRUE
        /\ SelectTime(Latest)

(* GetActiveVolumeTimes asks the provider that is refreshed, if any. *)
Listed(m) ==
  IF m \in Made /\ refresh[m] # NoProduct
  THEN [listed EXCEPT ![m][refresh[m]] = Listing(m, refresh[m])] ELSE listed

(* SelectTime on the timeline's thread: of an archived time the volumes of *)
(* its site are listed and the maps stop updating; then they are given the *)
(* time, and the site is remembered.                                       *)
StartSelect ==
  /\ asks # <<>> /\ selecting = NotSelecting
  /\ asks' = Tail(asks)
  /\ \/ /\ Head(asks) # Latest /\ ~Current(Head(asks))
        /\ MayHave(timeline.site) /\ TakeInstance(timeline.site)
        /\ listed' = Listed(Instance(timeline.site))
        /\ autoUpdate' = FALSE
        /\ selecting' = [time |-> Head(asks), told |-> FALSE,
                         manager |-> Instance(timeline.site)]
        /\ due' = NoTime
        /\ UNCHANGED <<timeline, view, updates, chosen, seen, upsets>>
     \/ /\ Head(asks) # Latest /\ Current(Head(asks))
        /\ UNCHANGED <<site, listed, autoUpdate, selecting, timeline, view,
                       updates, ghosts>>
     \/ /\ Head(asks) = Latest
        /\ SelectLive(timeline.site, timeline.live)
        /\ UNCHANGED <<site, listed, selecting, due>>
  /\ UNCHANGED <<published, records, refresh, loading, widget, sweeping,
                 autoRefresh, widgetPool, events, gui, inputs>>

TellMap ==
  /\ selecting # NotSelecting /\ ~selecting.told
  /\ selecting' = [selecting EXCEPT !.told = TRUE]
  /\ timeline' = [timeline EXCEPT !.time = selecting.time]
  /\ SelectTime(selecting.time)
  /\ UNCHANGED <<servers, records, managers, loading, widget, sweeping, flags,
                 widgetPool, events, gui, asks, inputs, due, upsets>>

EndSelect ==
  /\ selecting # NotSelecting /\ selecting.told
  /\ selecting' = NotSelecting
  /\ timeline' = [timeline EXCEPT !.previous = timeline.site]
  /\ UNCHANGED <<servers, records, managers, loading, display, flags,
                 widgetPool, events, gui, asks, inputs, ghosts>>

-----------------------------------------------------------------------------
(* What only LiveShowsNewest excepts. *)
Tolerated == {"outran", "misdated", "overtaken"}

(* The user's calls, as many as the bound, and none once something has     *)
(* happened that the properties except.                                    *)

Call ==
  /\ ~gui.on /\ inputs < MaxInputs /\ upsets \subseteq Tolerated
  /\ inputs' = inputs + 1

(* SelectRadarSite: the map and its view get the manager of the site, the  *)
(* product is selected again with the time the view has by then, and the   *)
(* timeline is told.                                                       *)
SelectSite(s) ==
  /\ Call
  /\ s # site[widget] /\ MayHave(s)
  /\ TakeInstance(s)
  /\ widget' = Instance(s)
  /\ view' = [view EXCEPT !.manager = Instance(s)]
  /\ gui' = [on |-> TRUE, carried |-> NoTime, reselected |-> FALSE]
  /\ due' = NoTime
  /\ upsets' = upsets \union Crossing
  /\ UNCHANGED <<servers, records, refresh, loading, updates, sweeping, flags,
                 widgetPool, events, ticker, chosen, seen>>

CarryTime ==
  /\ gui.on /\ gui.carried = NoTime
  /\ gui' = [gui EXCEPT !.carried = view.time]
  /\ UNCHANGED <<servers, records, managers, loading, display, flags,
                 widgetPool, events, ticker, inputs, ghosts>>

(* A time the view was given since then is written over. *)
Reselect ==
  /\ gui.on /\ gui.carried # NoTime /\ ~gui.reselected
  /\ gui' = [gui EXCEPT !.reselected = TRUE]
  /\ Enable(widget, view.product, autoRefresh)
  /\ view' = [view EXCEPT !.time = gui.carried]
  /\ upsets' = IF view.time = gui.carried THEN upsets
               ELSE upsets \union {"raced"}
  /\ UNCHANGED <<servers, records, site, loading, widget, updates, sweeping,
                 flags, widgetPool, events, ticker, inputs, chosen, seen, due>>

FinishSwitch ==
  LET s == site[widget]
  IN  /\ gui.on /\ gui.reselected
      /\ gui' = Idle
      /\ \/ /\ timeline.site # s /\ timeline.live
            /\ SelectLive(s, TRUE)
            /\ UNCHANGED asks
         \/ /\ timeline.site # s /\ ~timeline.live
            /\ timeline' = [timeline EXCEPT !.site = s]
            /\ asks' = Append(asks, timeline.time)
            /\ upsets' = upsets \union
                 (IF timeline.previous = s THEN {"returned"} ELSE {})
            /\ UNCHANGED <<autoUpdate, view, updates, chosen, seen>>
         \/ /\ timeline.site = s
            /\ UNCHANGED <<timeline, asks, autoUpdate, view, updates, chosen,
                           seen, upsets>>
      /\ UNCHANGED <<servers, records, managers, loading, widget, sweeping,
                     autoRefresh, widgetPool, events, selecting, inputs, due>>

SelectProduct(p) ==
  /\ Call
  /\ Select(widget, p, timeline.time, TRUE, autoRefresh)
  /\ due' = NoTime
  /\ UNCHANGED <<servers, records, site, loading, widget, flags, events,
                 gui, ticker, upsets>>

(* An archived time is picked: SetDateTime or SetViewType. *)
PickTime(t) ==
  /\ Call
  /\ timeline' = [timeline EXCEPT !.live = FALSE]
  /\ asks' = Append(asks, t)
  /\ due' = NoTime
  /\ UNCHANGED <<servers, records, managers, loading, display, flags,
                 widgetPool, events, gui, selecting, chosen, seen, upsets>>

GoLive ==
  /\ Call
  /\ ~timeline.live
  /\ SelectLive(timeline.site, TRUE)
  /\ UNCHANGED <<servers, records, managers, loading, widget, sweeping,
                 autoRefresh, widgetPool, events, gui, asks, selecting, due>>

(* A file that was loaded before is shown at once. *)
OpenFile(f) ==
  /\ Call
  /\ \/ /\ f \in opened
        /\ ShowFile(f)
        /\ UNCHANGED <<opening, events>>
     \/ /\ f \notin opened
        /\ opening' = opening \union {f}
        /\ UNCHANGED <<servers, records, managers, pool, opened,
                       display, flags, widgetPool, events, gui, ticker, ghosts>>

-----------------------------------------------------------------------------
(* The map of the settings at startup, whose view is to be initialized.    *)
Init ==
  /\ published = [s \in Sites |-> [p \in Products |->
        {v.time : v \in {u \in Published : u.site = s /\ u.product = p}}]]
  /\ site = <<StartSite>>
  /\ listed = [m \in Ids |-> NoTimes] /\ keys = [m \in Ids |-> NoTimes]
  /\ file = [m \in Ids |-> NoFiles]
  /\ refresh \in {[m \in Ids |-> IF m = 1 THEN p ELSE NoProduct] : p \in Products}
  /\ pool = [m \in Ids |-> {}] /\ dying = {}
  /\ widget = 1
  /\ view = [manager |-> 1, product |-> refresh[1], time |-> Latest,
             sweep |-> NoSweep]
  /\ autoRefresh = TRUE /\ autoUpdate = TRUE
  /\ updates = 0 /\ widgetPool = <<InitJob>>
  /\ sweeping = [c \in Sweepers |-> Idle]
  /\ events = <<>> /\ gui = Idle
  /\ timeline = [site |-> StartSite, previous |-> StartSite, live |-> TRUE,
                 time |-> Latest]
  /\ asks = <<>> /\ selecting = NotSelecting
  /\ opening = {} /\ opened = {} /\ inputs = 0
  /\ chosen = Latest /\ seen = {} /\ due = NoTime /\ upsets = {}

GuiStep ==
  \/ Step("gui", Deliver)
  \/ Step("gui", CarryTime)
  \/ Step("gui", Reselect)
  \/ Step("gui", FinishSwitch)
  \/ \E s \in Sites : Step("gui", SelectSite(s))
  \/ \E p \in Products : Step("gui", SelectProduct(p))
  \/ \E t \in Picks : Step("gui", PickTime(t))
  \/ Step("gui", GoLive)
  \/ \E f \in Files : Step("gui", OpenFile(f))

TimelineStep ==
  \/ Step("timeline", StartSelect)
  \/ Step("timeline", TellMap)
  \/ Step("timeline", EndSelect)

SweepStep ==
  \/ Step("view", StartUpdate)
  \/ Step("widget", StartInitialize)
  \/ Step("widget", PostLoad)
  \/ \E c \in Sweepers : Step(c, Adjust(c))
  \/ \E c \in Sweepers : Step(c, EndSweep(c))

LoadStep ==
  \/ \E m \in Made : Step("load", RunLoad(m))
  \/ \E m \in Made : Step("load", LoadFails(m))
  \/ \E f \in Files : Step("load", LoadFile(f))

ServerStep ==
  \/ Step("server", Publish)
  \/ \E m \in Made : Step("server", RefreshDataSync(m))

Next == GuiStep \/ TimelineStep \/ SweepStep \/ LoadStep \/ ServerStep \/ Destruct

Spec == Init /\ [][Next]_vars

-----------------------------------------------------------------------------
Threads  == Sweepers \union {"gui", "timeline", "load", "server"}
Pictures == {NoSweep} \union [site : Sites, product : Products, time : Nat]
Updates  == [kind : {"update"}, product : Products, time : Times,
             request : Sites, connected : BOOLEAN]
Loads    == Updates \union [kind : {"reload"}, product : Products, time : Times]
Sweeping == {Idle} \union
  [on : {TRUE}, old : BOOLEAN, manager : Made, asked : AnyTime,
   adjusted : BOOLEAN, found : AnyTime, sweep : Pictures]
Selecting == {NotSelecting} \union
  [time : AnyTime, told : BOOLEAN, manager : Made]
Signals  ==
  [kind : {"announced", "new", "reloaded"}, manager : Made,
   product : Products, time : Times]
  \union [kind : {"loaded"}, request : Sites, site : Sites,
          product : Products, time : Times]
  \union [kind : {"opened"}, file : Files]

RecordsTyped ==
  /\ published \in [Sites -> [Products -> SUBSET Times]]
  /\ listed \in [Ids -> [Products -> SUBSET Times]]
  /\ keys \in [Ids -> [Products -> SUBSET Times]]
  /\ file \in [Ids -> [Products -> [Times -> Times \union {NoFile}]]]
  /\ refresh \in [Ids -> Products \union {NoProduct}]
  /\ pool \in [Ids -> SUBSET Loads]
  /\ opening \subseteq Files /\ opened \subseteq Files

DisplayTyped ==
  /\ site \in Seq(Sites) /\ Len(site) \in Ids
  /\ dying \subseteq [manager : Made, by : Threads, locked : BOOLEAN]
  /\ widget \in Made
  /\ view \in [manager : Made, product : Products, time : AnyTime,
               sweep : Pictures]
  /\ sweeping \in [Sweepers -> Sweeping]
  /\ selecting \in Selecting
  /\ updates \in Nat /\ widgetPool \in Seq(Updates \union {InitJob})

ControlTyped ==
  /\ autoRefresh \in BOOLEAN /\ autoUpdate \in BOOLEAN
  /\ events \in Seq(Signals)
  /\ gui \in {Idle} \union [on : {TRUE}, carried : AnyTime \union {NoTime},
                            reselected : BOOLEAN]
  /\ timeline \in [site : Sites, previous : Sites, live : BOOLEAN,
                   time : AnyTime]
  /\ asks \in Seq(AnyTime)
  /\ inputs \in 0 .. MaxInputs

GhostsTyped ==
  /\ chosen \in AnyTime /\ seen \subseteq Times
  /\ due \in Times \union {NoTime}
  /\ upsets \subseteq {"failed", "raced", "strayed", "crossed", "returned"}
                  \union Tolerated

TypeOK == RecordsTyped /\ DisplayTyped /\ ControlTyped /\ GhostsTyped

(* Nothing is left to be done. *)
Quiescent ==
  /\ events = <<>> /\ ~gui.on /\ asks = <<>> /\ selecting = NotSelecting
  /\ updates = 0 /\ widgetPool = <<>> /\ \A c \in Sweepers : ~sweeping[c].on
  /\ opening = {} /\ dying = {} /\ \A m \in Held : pool[m] = {}

(* Once all is done, the map shows what was selected last: the newest scan *)
(* of level 2 that is not newer than the selected time, or the volume of   *)
(* level 3, among the volumes its last query has listed, whatever was      *)
(* loaded, announced, switched and computed in between                     *)
(* (radar_product_manager.cpp:1515).  An object that did not load, a       *)
(* selection overwritten by the one of an earlier query, a file of another *)
(* site, and a switch while the timeline selects or back before it has     *)
(* selected are excepted.                                                  *)
ShowsSelection ==
  Quiescent /\ upsets \subseteq Tolerated =>
    LET p     == view.product
        f     == file[widget][p]
        shown == Shown(site[widget], p, f, Candidates(p, seen, chosen), chosen)
    IN  /\ view.manager = widget
        /\ shown # NoSweep => view.sweep = shown
        /\ p = Level2 /\ seen # {} /\ (\A k \in seen : f[k] \in {k, NoFile}) =>
             shown.time = ScanAmong(UNION {Scans[v] : v \in seen}, chosen)

(* While the map updates by itself and the timeline is live, it does not   *)
(* keep showing a volume older than the last one announced                 *)
(* (map_widget.cpp:1793).  Also excepted are completions of level 3 that   *)
(* outrun one another, a selection overtaken by the time found for an      *)
(* earlier one of the same time (level3_radial_view.cpp:151), and a volume *)
(* stored under the time of another, which then is not loaded.             *)
LiveShowsNewest ==
  Quiescent /\ upsets = {} /\ Live /\ due # NoTime =>
    view.sweep # NoSweep /\ view.sweep.time >= due

(* The destructor of a manager takes the load mutexes when "loading is     *)
(* complete" (radar_product_manager.cpp:161).                              *)
LoadingCompletes ==
  \A d \in dying : d.locked => pool[d.manager] = {}
=============================================================================

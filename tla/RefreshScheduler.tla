--------------------------- MODULE RefreshScheduler ---------------------------
(***************************************************************************)
(* How a RadarProductManager keeps the products on display refreshed:      *)
(* EnableRefresh, RefreshData, RefreshDataSync and the refresh timers of   *)
(* scwx-qt/source/scwx/qt/manager/radar_product_manager.cpp.               *)
(*                                                                         *)
(* A map is identified by a UUID, and so is the overlay view of a map,     *)
(* which shows a level 3 product of its own.  Selecting a product          *)
(* associates the UUID with the provider manager of the product.  Only     *)
(* overlay views ask to disable a refresh.  An enabled provider manager is *)
(* refreshed in a chain: a refresh on the manager's pool arms the timer,   *)
(* whose handler, on the provider manager's own thread, posts the next     *)
(* refresh.  EnableRefresh runs on the GUI thread for level 2, and as a    *)
(* pool job for level 3, so several run at the same time.                  *)
(***************************************************************************)
EXTENDS Integers, Sequences, FiniteSets

CONSTANTS
  Uuids,            \* the maps and overlay views
  Overlays,         \* the overlay views
  Level2,           \* provider managers of level 2
  Level3,           \* provider managers of level 3 products
  NoProvider,       \* no entry in refreshMap_
  Gui,              \* the thread that calls EnableRefresh
  Workers,          \* the threads of threadPool_ (4 in the code)
  NoJob,            \* the job of an idle thread
  MaxRequests,      \* bound on the calls of EnableRefresh
  FaultSets         \* the sets of faults: "listing" if RequestAvailableProducts
                    \* may fail, "throw" if Refresh may throw an exception

Providers == Level2 \union Level3
Runners   == Workers \union {Gui} \union Providers

ASSUME SchedulerAssumption ==
  /\ Overlays \subseteq Uuids
  /\ Level2 \intersect Level3 = {}
  /\ NoProvider \notin Providers
  /\ Gui \notin Workers \union Providers
  /\ Workers \intersect Providers = {}
  /\ MaxRequests \in Nat
  /\ FaultSets \subseteq SUBSET {"listing", "throw"}

VARIABLES
  queue,           \* jobs posted to threadPool_
  pc,              \* where each thread is; a provider names its own thread
  job,             \* what each thread is doing
  refreshMap,      \* refreshMap_: the provider manager of each UUID
  refreshEnabled,  \* refreshEnabled_ of each provider manager
  armed,           \* the provider managers with a pending refreshTimer_
  faults,          \* what may fail in this behaviour
  requests         \* calls of EnableRefresh so far, for the bound

threads == <<pc, job>>
gui     == <<faults, requests>>
vars    == <<queue, threads, refreshMap, refreshEnabled, armed, gui>>

EnableJob(u, p, e) == [kind |-> "enable", uuid |-> u, provider |-> p, enabled |-> e]
RefreshJob(p)      == [kind |-> "refresh", provider |-> p]

EnableJobs  == [kind : {"enable"}, uuid : Uuids, provider : Providers,
                enabled : BOOLEAN]
RefreshJobs == [kind : {"refresh"}, provider : Providers]
Jobs        == EnableJobs \union RefreshJobs

Init ==
  /\ queue = <<>>
  /\ pc = [r \in Runners |-> "idle"]
  /\ job = [r \in Runners |-> NoJob]
  /\ refreshMap = [u \in Uuids |-> NoProvider]
  /\ refreshEnabled = [p \in Providers |-> FALSE]
  /\ armed = {}
  /\ faults \in FaultSets
  /\ requests = 0

Goto(r, step) == pc' = [pc EXCEPT ![r] = step] /\ UNCHANGED job
Start(r, step, j) == pc' = [pc EXCEPT ![r] = step] /\ job' = [job EXCEPT ![r] = j]
Stop(r) == Start(r, "idle", NoJob)

-----------------------------------------------------------------------------
(* RadarProductManager::EnableRefresh, called by the GUI thread.           *)

(* A map only enables; an overlay view has a level 3 product. *)
MayAsk(u, p, e) ==
  /\ u \in Overlays => p \in Level3
  /\ u \notin Overlays => e

Asked ==
  /\ requests < MaxRequests
  /\ requests' = requests + 1
  /\ pc[Gui] = "idle"
  /\ UNCHANGED faults

(* Level 2 is enabled at once. *)
EnableLevel2(u, p, e) ==
  /\ MayAsk(u, p, e)
  /\ Asked
  /\ Start(Gui, "map", EnableJob(u, p, e))
  /\ UNCHANGED <<queue, refreshMap, refreshEnabled, armed>>

(* Level 3 is enabled by a pool job, as it has to list the products first. *)
EnableLevel3(u, p, e) ==
  /\ MayAsk(u, p, e)
  /\ Asked
  /\ queue' = Append(queue, EnableJob(u, p, e))
  /\ UNCHANGED <<threads, refreshMap, refreshEnabled, armed>>

FirstStep(j) == IF j.kind = "enable" THEN "available" ELSE "refresh"

(* A pool thread takes the oldest job. *)
RunJob(w) ==
  /\ pc[w] = "idle"
  /\ queue # <<>>
  /\ Start(w, FirstStep(Head(queue)), Head(queue))
  /\ queue' = Tail(queue)
  /\ UNCHANGED <<refreshMap, refreshEnabled, armed, gui>>

(* The product is in the list of the site's products. *)
Available(w) ==
  /\ pc[w] = "available"
  /\ Goto(w, "map")
  /\ UNCHANGED <<queue, refreshMap, refreshEnabled, armed, gui>>

(* It is not, or the listing failed: the request is dropped. *)
NotAvailable(w) ==
  /\ "listing" \in faults
  /\ pc[w] = "available"
  /\ Stop(w)
  /\ UNCHANGED <<queue, refreshMap, refreshEnabled, armed, gui>>

-----------------------------------------------------------------------------
(* RadarProductManagerImpl::EnableRefresh.                                 *)

AnyReference(u) == refreshMap[u] # NoProvider

(* No other UUID is associated with the provider manager of u. *)
LastReference(u) ==
  /\ refreshMap[u] # NoProvider
  /\ \A v \in Uuids : refreshMap[v] = refreshMap[u] => v = u

(* ProviderManager::Disable, under refreshTimerMutex_. *)
Disable(p) ==
  /\ refreshEnabled' = [refreshEnabled EXCEPT ![p] = FALSE]
  /\ armed' = armed \ {p}

(* The section under refreshMapMutex_, for request j. *)
Associate(j) ==
  LET old == refreshMap[j.uuid]
      new == IF j.enabled THEN j.provider ELSE NoProvider
  IN  /\ refreshMap' = [refreshMap EXCEPT ![j.uuid] = new]
      /\ IF old # new /\ LastReference(j.uuid)
           THEN Disable(old)
           ELSE UNCHANGED <<refreshEnabled, armed>>

UpdateMap(r) ==
  /\ pc[r] = "map"
  /\ Associate(job[r])
  /\ IF job[r].enabled THEN Goto(r, "check") ELSE Stop(r)
  /\ UNCHANGED <<queue, gui>>

(* With the mutex released, look whether the refresh is enabled already... *)
CheckEnabled(r) ==
  /\ pc[r] = "check"
  /\ IF refreshEnabled[job[r].provider] THEN Stop(r) ELSE Goto(r, "set")
  /\ UNCHANGED <<queue, refreshMap, refreshEnabled, armed, gui>>

EnableWithoutRefresh(r) ==
  /\ pc[r] = "set"
  /\ refreshEnabled' = [refreshEnabled EXCEPT ![job[r].provider] = TRUE]
  /\ Stop(r)
  /\ UNCHANGED <<queue, refreshMap, armed, gui>>

(* ... and enable it and call RefreshData if it is not. *)
SetEnabled(r) ==
  /\ pc[r] = "set"
  /\ refreshEnabled' = [refreshEnabled EXCEPT ![job[r].provider] = TRUE]
  /\ Start(r, "cancel", RefreshJob(job[r].provider))
  /\ UNCHANGED <<queue, refreshMap, armed, gui>>

-----------------------------------------------------------------------------
(* RefreshData: cancel the timer, then post RefreshDataSync to the pool.   *)

CancelTimer(r) ==
  /\ pc[r] = "cancel"
  /\ armed' = armed \ {job[r].provider}
  /\ Goto(r, "post")
  /\ UNCHANGED <<queue, refreshMap, refreshEnabled, gui>>

RefreshHere(r) ==
  /\ pc[r] = "post"
  /\ Goto(r, "refresh")
  /\ UNCHANGED <<queue, refreshMap, refreshEnabled, armed, gui>>

PostRefresh(r) ==
  /\ pc[r] = "post"
  /\ queue' = Append(queue, job[r])
  /\ Stop(r)
  /\ UNCHANGED <<refreshMap, refreshEnabled, armed, gui>>

(* RefreshDataSync: provider_->Refresh() ... *)
Refresh(w) ==
  /\ pc[w] = "refresh"
  /\ Goto(w, "schedule")
  /\ UNCHANGED <<queue, refreshMap, refreshEnabled, armed, gui>>

(* ... throws, and the job's handler only logs it: nothing is scheduled. *)
RefreshThrows(w) ==
  /\ "throw" \in faults
  /\ pc[w] = "refresh"
  /\ Stop(w)
  /\ UNCHANGED <<queue, refreshMap, refreshEnabled, armed, gui>>

(* Under refreshTimerMutex_; expires_after cancels a wait that is pending. *)
ScheduleAlways(w) ==
  /\ pc[w] = "schedule"
  /\ armed' = armed \union {job[w].provider}
  /\ Stop(w)
  /\ UNCHANGED <<queue, refreshMap, refreshEnabled, gui>>
Schedule(w) ==
  /\ pc[w] = "schedule"
  /\ armed' = IF refreshEnabled[job[w].provider]
                THEN armed \union {job[w].provider} ELSE armed
  /\ Stop(w)
  /\ UNCHANGED <<queue, refreshMap, refreshEnabled, gui>>

ExpireUnnoticed(p) ==
  /\ p \in armed
  /\ pc[p] = "idle"
  /\ armed' = armed \ {p}
  /\ UNCHANGED <<queue, threads, refreshMap, refreshEnabled, gui>>

(* The timer expires, and its handler calls RefreshData on the thread of   *)
(* the provider manager.  The handler of a cancelled timer does nothing.   *)
Expire(p) ==
  /\ p \in armed
  /\ pc[p] = "idle"
  /\ armed' = armed \ {p}
  /\ Start(p, "cancel", RefreshJob(p))
  /\ UNCHANGED <<queue, refreshMap, refreshEnabled, gui>>

-----------------------------------------------------------------------------
EnableRefresh(r) == UpdateMap(r) \/ CheckEnabled(r) \/ SetEnabled(r)
RefreshData(r)   == CancelTimer(r) \/ PostRefresh(r)

PoolJob(w) ==
  \/ RunJob(w)
  \/ Available(w) \/ NotAvailable(w)
  \/ Refresh(w) \/ RefreshThrows(w)
  \/ Schedule(w)

Next ==
  \/ \E u \in Uuids, p \in Level2, e \in BOOLEAN : EnableLevel2(u, p, e)
  \/ \E u \in Uuids, p \in Level3, e \in BOOLEAN : EnableLevel3(u, p, e)
  \/ \E w \in Workers : PoolJob(w)
  \/ \E r \in Runners : EnableRefresh(r) \/ RefreshData(r)
  \/ \E p \in Providers : Expire(p)

Spec == Init /\ [][Next]_vars

(* Every thread runs, refreshes end, and timers expire.  Nobody has to     *)
(* select a product.                                                       *)
Fairness ==
  /\ \A w \in Workers : WF_vars(PoolJob(w))
  /\ \A r \in Runners : WF_vars(EnableRefresh(r) \/ RefreshData(r))
  /\ \A p \in Providers : WF_vars(Expire(p))

FairSpec == Spec /\ Fairness

-----------------------------------------------------------------------------
(* Properties.                                                             *)

Steps == {"idle", "available", "map", "check", "set", "cancel", "post",
          "refresh", "schedule"}

EnableSteps  == {"available", "map", "check", "set"}
RefreshSteps == {"cancel", "post", "refresh", "schedule"}
RequestSteps == {"available", "refresh", "schedule"}

(* Every variable has its type, and a thread works on a job of the kind    *)
(* its step is for.  Requests to the provider are made by pool threads     *)
(* only: neither the GUI thread nor a timer's handler waits for one.       *)
TypeOK ==
  /\ queue \in Seq(Jobs)
  /\ pc \in [Runners -> Steps]
  /\ job \in [Runners -> Jobs \union {NoJob}]
  /\ \A r \in Runners :
       /\ pc[r] \in EnableSteps => job[r] \in EnableJobs /\ r \notin Providers
       /\ pc[r] \in RefreshSteps => job[r] \in RefreshJobs
       /\ pc[r] \in RequestSteps => r \in Workers
  /\ refreshMap \in [Uuids -> Providers \union {NoProvider}]
  /\ refreshEnabled \in [Providers -> BOOLEAN]
  /\ armed \subseteq Providers
  /\ faults \in FaultSets
  /\ requests \in 0 .. MaxRequests

(* A thread is past the map and is going to look at refreshEnabled_. *)
WillEnable(p) ==
  \E r \in Runners : pc[r] \in {"check", "set"} /\ job[r].provider = p

(* The product of every map is being refreshed, or a thread is about to    *)
(* enable its refresh.  The check at line 712 is made without a lock and   *)
(* on behalf of one UUID, while other threads disable the same provider    *)
(* manager on behalf of others: no such race leaves a map without refresh. *)
AssociatedIsEnabled ==
  \A u \in Uuids :
    refreshMap[u] # NoProvider =>
      refreshEnabled[refreshMap[u]] \/ WillEnable(refreshMap[u])

(* A refresh of p is queued, running, waiting for its timer, or about to   *)
(* be posted.                                                              *)
InChain(p) ==
  \/ p \in armed
  \/ \E i \in DOMAIN queue : queue[i] = RefreshJob(p)
  \/ \E r \in Runners : pc[r] \in RefreshSteps /\ job[r] = RefreshJob(p)

(* Cancelling, disabling and enabling again may cut the chain of refreshes *)
(* at any point; an enabled provider manager always has one, unless        *)
(* Refresh throws an exception.                                            *)
ChainAlive ==
  "throw" \notin faults => \A p \in Providers : refreshEnabled[p] => InChain(p)

(* A disabled provider manager has no timer: neither a refresh that ends   *)
(* while Disable runs nor one that was already cancelled arms it again.    *)
ArmedIsEnabled == \A p \in armed : refreshEnabled[p]

Quiet ==
  /\ \A r \in Runners : pc[r] \notin EnableSteps
  /\ \A i \in DOMAIN queue : queue[i].kind = "refresh"

(* "If a second product refresh is enabled for the same UUID, the first    *)
(* product refresh is disabled (unless still enabled under a different     *)
(* UUID)": once all requests are served, only what a UUID is associated    *)
(* with is being refreshed.                                                *)
EnabledIsAssociated ==
  Quiet => \A p \in Providers :
             refreshEnabled[p] => \E u \in Uuids : refreshMap[u] = p

(* A product that stays selected is refreshed again and again, unless      *)
(* Refresh throws an exception.                                            *)
KeepsRefreshing ==
  "throw" \notin faults =>
    \A p \in Providers :
      \/ []<>(\A u \in Uuids : refreshMap[u] # p)
      \/ []<>(\E w \in Workers : pc[w] = "refresh" /\ job[w] = RefreshJob(p))

(* A disabled refresh ends: at most the refresh under way is completed. *)
DisabledEnds ==
  \A p \in Providers : ~refreshEnabled[p] ~> (refreshEnabled[p] \/ ~InChain(p))
=============================================================================

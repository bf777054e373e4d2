------------------------ MODULE RefreshSchedulerProofs ------------------------
(***************************************************************************)
(* Proofs about RefreshScheduler for any number of maps, provider managers *)
(* and pool threads.                                                       *)
(***************************************************************************)
EXTENDS RefreshScheduler, SequencesExt, SequenceTheorems, TLAPS

-----------------------------------------------------------------------------
(* What is used of lists.                                                  *)

(* Append adds one element. *)
LEMMA AppendToSet ==
  ASSUME NEW S, NEW q \in Seq(S), NEW j \in S
  PROVE  Append(q, j) \in Seq(S) /\ ToSet(Append(q, j)) = ToSet(q) \union {j}
<1>1. /\ Append(q, j) \in Seq(S) /\ Len(Append(q, j)) = Len(q) + 1
      /\ \A i \in 1 .. Len(q) : Append(q, j)[i] = q[i]
      /\ Append(q, j)[Len(q) + 1] = j
  OBVIOUS
<1> DEFINE z == Append(q, j)
<1> HIDE DEF z
<1> QED BY <1>1 DEF ToSet, z

(* A list consists of its head and its tail. *)
LEMMA HeadTailToSet ==
  ASSUME NEW S, NEW q \in Seq(S), q # <<>>
  PROVE  /\ Head(q) \in S /\ Tail(q) \in Seq(S)
         /\ ToSet(q) = {Head(q)} \union ToSet(Tail(q))
<1>1. /\ Len(q) \in Nat \ {0} /\ Head(q) = q[1] /\ Head(q) \in S
      /\ Tail(q) \in Seq(S) /\ Len(Tail(q)) = Len(q) - 1
      /\ \A i \in 1 .. (Len(q) - 1) : Tail(q)[i] = q[i + 1]
  BY EmptySeq, HeadTailProperties
<1> DEFINE z == Tail(q)
<1> HIDE DEF z
<1>2. ToSet(q) \subseteq {Head(q)} \union ToSet(z)
  <2> SUFFICES ASSUME NEW i \in 1 .. Len(q)
               PROVE  q[i] = Head(q) \/ q[i] \in ToSet(z)
    BY LenProperties DEF ToSet
  <2>1. CASE i = 1
    BY <1>1, <2>1
  <2>2. CASE i > 1
    <3>1. i - 1 \in 1 .. (Len(q) - 1)
      BY <1>1, <2>2
    <3>2. q[i] = z[i - 1] /\ i - 1 \in DOMAIN z
      BY <1>1, <3>1 DEF z
    <3> QED BY <3>2 DEF ToSet
  <2> QED BY <2>1, <2>2
<1>3. {Head(q)} \union ToSet(z) \subseteq ToSet(q)
  <2>1. Head(q) \in ToSet(q)
    BY <1>1 DEF ToSet
  <2>2. ASSUME NEW i \in DOMAIN z PROVE z[i] \in ToSet(q)
    <3>1. i \in 1 .. (Len(q) - 1)
      BY <1>1, LenProperties DEF z
    <3>2. i + 1 \in DOMAIN q /\ z[i] = q[i + 1]
      BY <1>1, <3>1 DEF z
    <3> QED BY <3>2 DEF ToSet
  <2> QED BY <2>1, <2>2 DEF ToSet
<1> QED BY <1>1, <1>2, <1>3 DEF z

-----------------------------------------------------------------------------
(* Types.                                                                  *)

(* The variables have their types at first. *)
LEMMA TypeInit == Init => TypeOK
<1> SUFFICES ASSUME Init PROVE TypeOK
  OBVIOUS
<1> QED BY SchedulerAssumption DEF Init, TypeOK, Steps, EnableSteps, RefreshSteps, RequestSteps

(* Every step keeps TypeOK. *)
LEMMA TypeNext == TypeOK /\ [Next]_vars => TypeOK'
<1> SUFFICES ASSUME TypeOK, [Next]_vars PROVE TypeOK'
  OBVIOUS
<1> USE SchedulerAssumption
<1> USE DEF threads, gui, Steps, EnableSteps, RefreshSteps, RequestSteps, Goto, Start, Stop
<1>r. \A w \in Workers : w \in Runners /\ w \notin Providers
  BY DEF Runners
<1>g. Gui \in Runners /\ Gui \notin Providers
  BY DEF Runners
<1>p. \A p \in Providers : p \in Runners
  BY DEF Runners
<1>j. \A p \in Providers : RefreshJob(p) \in RefreshJobs /\ RefreshJob(p) \in Jobs
  BY DEF RefreshJob, RefreshJobs, Jobs
<1>e. \A u \in Uuids, p \in Providers, e \in BOOLEAN :
        EnableJob(u, p, e) \in EnableJobs /\ EnableJob(u, p, e) \in Jobs
  BY DEF EnableJob, EnableJobs, Jobs
<1>k. /\ \A j \in EnableJobs : /\ j.kind = "enable" /\ j.uuid \in Uuids
                               /\ j.provider \in Providers
                               /\ j.enabled \in BOOLEAN /\ j \in Jobs
      /\ \A j \in RefreshJobs : j.kind = "refresh" /\ j.provider \in Providers
                                /\ j \in Jobs
      /\ \A j \in Jobs : j \in EnableJobs \/ j \in RefreshJobs
  BY DEF EnableJobs, RefreshJobs, Jobs
<1>l. \A p \in Level2 \union Level3 : p \in Providers
  BY DEF Providers
<1>1. ASSUME NEW u \in Uuids, NEW p \in Level2, NEW e \in BOOLEAN,
             EnableLevel2(u, p, e)
      PROVE  TypeOK'
  BY <1>1, <1>g, <1>e, <1>l DEF EnableLevel2, Asked, TypeOK
<1>2. ASSUME NEW u \in Uuids, NEW p \in Level3, NEW e \in BOOLEAN,
             EnableLevel3(u, p, e)
      PROVE  TypeOK'
  <2>1. queue' \in Seq(Jobs)
    BY <1>2, <1>e, <1>l, AppendToSet DEF EnableLevel3, TypeOK
  <2> QED BY <1>2, <1>l, <2>1 DEF EnableLevel3, Asked, TypeOK
<1>3. ASSUME NEW w \in Workers, RunJob(w)
      PROVE  TypeOK'
  <2>1. Head(queue) \in Jobs /\ queue' \in Seq(Jobs)
    BY <1>3, HeadTailToSet DEF RunJob, TypeOK
  <2> QED BY <1>3, <1>r, <1>k, <2>1 DEF RunJob, FirstStep, TypeOK
<1>4. ASSUME NEW w \in Workers,
             \/ Available(w) \/ NotAvailable(w) \/ Refresh(w) \/ RefreshThrows(w)
      PROVE  TypeOK'
  BY <1>4, <1>r DEF Available, NotAvailable, Refresh, RefreshThrows, TypeOK
<1>5. ASSUME NEW w \in Workers, Schedule(w)
      PROVE  TypeOK'
  BY <1>5, <1>r, <1>k DEF Schedule, TypeOK
<1>6. ASSUME NEW r \in Runners, UpdateMap(r)
      PROVE  TypeOK'
  <2>1. job[r] \in EnableJobs /\ r \notin Providers
    BY <1>6 DEF UpdateMap, TypeOK
  <2>2. refreshMap' \in [Uuids -> Providers \union {NoProvider}]
    BY <1>6, <1>k, <2>1 DEF UpdateMap, Associate, TypeOK
  <2>3. refreshEnabled' \in [Providers -> BOOLEAN] /\ armed' \subseteq Providers
    <3>1. refreshEnabled \in [Providers -> BOOLEAN] /\ armed \subseteq Providers
      BY DEF TypeOK
    <3> QED BY <1>6, <3>1 DEF UpdateMap, Associate, Disable
  <2>4. UNCHANGED <<queue, gui>>
    BY <1>6 DEF UpdateMap
  <2>5. /\ pc' \in [Runners -> Steps]
        /\ job' \in [Runners -> Jobs \union {NoJob}]
        /\ \A x \in Runners :
             /\ pc'[x] \in EnableSteps => job'[x] \in EnableJobs /\ x \notin Providers
             /\ pc'[x] \in RefreshSteps => job'[x] \in RefreshJobs
             /\ pc'[x] \in RequestSteps => x \in Workers
    BY <1>6, <2>1 DEF UpdateMap, TypeOK
  <2> QED BY <2>2, <2>3, <2>4, <2>5 DEF TypeOK
<1>7. ASSUME NEW r \in Runners, CheckEnabled(r)
      PROVE  TypeOK'
  BY <1>7, <1>k DEF CheckEnabled, TypeOK
<1>8. ASSUME NEW r \in Runners, SetEnabled(r)
      PROVE  TypeOK'
  BY <1>8, <1>k, <1>j DEF SetEnabled, TypeOK
<1>9. ASSUME NEW r \in Runners, CancelTimer(r)
      PROVE  TypeOK'
  BY <1>9, <1>k DEF CancelTimer, TypeOK
<1>10. ASSUME NEW r \in Runners, PostRefresh(r)
      PROVE  TypeOK'
  <2>1. job[r] \in Jobs
    BY <1>10, <1>k DEF PostRefresh, TypeOK
  <2>2. queue' \in Seq(Jobs)
    BY <1>10, <2>1, AppendToSet DEF PostRefresh, TypeOK
  <2> QED BY <1>10, <2>2 DEF PostRefresh, TypeOK
<1>11. ASSUME NEW p \in Providers, Expire(p)
      PROVE  TypeOK'
  BY <1>11, <1>p, <1>j DEF Expire, TypeOK
<1>12. CASE UNCHANGED vars
  BY <1>12 DEF vars, TypeOK
<1> QED BY <1>1, <1>2, <1>3, <1>4, <1>5, <1>6, <1>7, <1>8, <1>9, <1>10, <1>11,
           <1>12
        DEF Next, PoolJob, EnableRefresh, RefreshData

(* Type correctness: every thread works on a job of the right kind. *)
THEOREM SchedulerTypeCorrect == Spec => []TypeOK
BY TypeInit, TypeNext, PTL DEF Spec

-----------------------------------------------------------------------------
(* Timers.                                                                 *)

(***************************************************************************)
(* No timer is armed for a disabled provider manager, however refreshes,   *)
(* expiring timers and requests of several maps overlap.                   *)
(***************************************************************************)
THEOREM TimersAreEnabled == Spec => []ArmedIsEnabled
<1> USE DEF threads, gui, Goto, Start, Stop
<1>1. Init => ArmedIsEnabled
  BY DEF Init, ArmedIsEnabled
<1>2. ASSUME TypeOK, TypeOK', ArmedIsEnabled, [Next]_vars PROVE ArmedIsEnabled'
  <2> USE <1>2
  <2>1. ASSUME NEW u \in Uuids, NEW p, NEW e,
               EnableLevel2(u, p, e) \/ EnableLevel3(u, p, e)
        PROVE  ArmedIsEnabled'
    BY <2>1 DEF EnableLevel2, EnableLevel3, ArmedIsEnabled
  <2>2. ASSUME NEW w \in Workers, PoolJob(w) PROVE ArmedIsEnabled'
    BY <2>2
    DEF PoolJob, RunJob, Available, NotAvailable, Refresh, RefreshThrows,
        Schedule, ArmedIsEnabled
  <2>3. ASSUME NEW r \in Runners, UpdateMap(r) PROVE ArmedIsEnabled'
    BY <2>3 DEF UpdateMap, Associate, Disable, ArmedIsEnabled, TypeOK
  <2>4. ASSUME NEW r \in Runners,
               \/ CheckEnabled(r) \/ SetEnabled(r) \/ RefreshData(r)
        PROVE  ArmedIsEnabled'
    BY <2>4
    DEF CheckEnabled, SetEnabled, RefreshData, CancelTimer, PostRefresh,
        ArmedIsEnabled, TypeOK
  <2>5. ASSUME NEW p \in Providers, Expire(p) PROVE ArmedIsEnabled'
    BY <2>5 DEF Expire, ArmedIsEnabled
  <2>6. CASE UNCHANGED vars
    BY <2>6 DEF vars, ArmedIsEnabled
  <2> QED BY <2>1, <2>2, <2>3, <2>4, <2>5, <2>6 DEF Next, EnableRefresh
<1> QED BY <1>1, <1>2, SchedulerTypeCorrect, PTL DEF Spec

-----------------------------------------------------------------------------
(* Associations.                                                           *)

(* At first no product is associated. *)
LEMMA AssociatedInit == Init => AssociatedIsEnabled
BY DEF Init, AssociatedIsEnabled

(* A step that leaves the map alone, disables nobody and keeps every       *)
(* thread that is about to enable something, or enables it.                *)
LEMMA AssociatedKept ==
  ASSUME TypeOK, AssociatedIsEnabled, refreshMap' = refreshMap,
         \A p \in Providers : refreshEnabled[p] => refreshEnabled'[p],
         \A r \in Runners : pc[r] \in {"check", "set"} =>
           \/ pc'[r] \in {"check", "set"} /\ job'[r] = job[r]
           \/ refreshEnabled'[job[r].provider]
  PROVE  AssociatedIsEnabled'
<1> SUFFICES ASSUME NEW u \in Uuids, refreshMap[u] # NoProvider
             PROVE  \/ refreshEnabled'[refreshMap[u]]
                    \/ WillEnable(refreshMap[u])'
  BY DEF AssociatedIsEnabled, WillEnable
<1>1. refreshMap[u] \in Providers
  BY DEF TypeOK
<1>2. CASE refreshEnabled[refreshMap[u]]
  BY <1>1, <1>2
<1>3. CASE WillEnable(refreshMap[u])
  <2>1. PICK r \in Runners :
          pc[r] \in {"check", "set"} /\ job[r].provider = refreshMap[u]
    BY <1>3 DEF WillEnable
  <2> QED BY <2>1 DEF WillEnable
<1> QED BY <1>2, <1>3 DEF AssociatedIsEnabled

(* Every step keeps AssociatedIsEnabled. *)
LEMMA AssociatedNext ==
  TypeOK /\ AssociatedIsEnabled /\ [Next]_vars => AssociatedIsEnabled'
<1> SUFFICES ASSUME TypeOK, AssociatedIsEnabled, [Next]_vars
             PROVE  AssociatedIsEnabled'
  OBVIOUS
<1> USE SchedulerAssumption
<1> USE DEF threads, gui, Goto, Start, Stop
<1>1. ASSUME NEW u \in Uuids, NEW p, NEW e,
             EnableLevel2(u, p, e) \/ EnableLevel3(u, p, e)
      PROVE  AssociatedIsEnabled'
  BY <1>1, AssociatedKept DEF EnableLevel2, EnableLevel3, Asked, TypeOK
<1>2. ASSUME NEW w \in Workers, PoolJob(w)
      PROVE  AssociatedIsEnabled'
  BY <1>2, AssociatedKept
  DEF PoolJob, RunJob, Available, NotAvailable, Refresh, RefreshThrows,
      Schedule, Runners, TypeOK
<1>3. ASSUME NEW r \in Runners, UpdateMap(r)
      PROVE  AssociatedIsEnabled'
  <2> DEFINE j   == job[r]
             old == refreshMap[j.uuid]
             new == IF j.enabled THEN j.provider ELSE NoProvider
             Enables(p) == \E x \in Runners : /\ pc'[x] \in {"check", "set"}
                                              /\ job'[x].provider = p
  <2>1. /\ j \in EnableJobs /\ j.uuid \in Uuids /\ j.enabled \in BOOLEAN
        /\ pc[r] = "map"
    BY <1>3 DEF UpdateMap, TypeOK, EnableSteps, EnableJobs
  <2>2. /\ refreshMap' = [refreshMap EXCEPT ![j.uuid] = new]
        /\ refreshMap'[j.uuid] = new
        /\ \A u \in Uuids \ {j.uuid} : refreshMap'[u] = refreshMap[u]
    BY <1>3, <2>1 DEF UpdateMap, Associate, TypeOK
  <2>3. /\ \A x \in Runners \ {r} : pc'[x] = pc[x] /\ job'[x] = job[x]
        /\ j.enabled => pc'[r] = "check" /\ job'[r] = j
    BY <1>3 DEF UpdateMap, TypeOK
  <2>4. \A p : WillEnable(p) => Enables(p)
    BY <2>1, <2>3 DEF WillEnable
  <2>5. j.enabled => Enables(j.provider)
    BY <2>3
  <2>6. ASSUME NEW u \in Uuids, refreshMap'[u] # NoProvider, u # j.uuid,
               refreshEnabled[refreshMap[u]]
        PROVE  refreshEnabled'[refreshMap[u]]
    <3>1. CASE old # new /\ LastReference(j.uuid)
      <4>1. refreshMap[u] # old
        BY <2>1, <2>6, <3>1 DEF LastReference
      <4>2. refreshMap[u] \in Providers
        BY <2>2, <2>6 DEF TypeOK
      <4> QED BY <1>3, <2>6, <3>1, <4>1, <4>2
              DEF UpdateMap, Associate, Disable, TypeOK
    <3>2. CASE ~ (old # new /\ LastReference(j.uuid))
      BY <1>3, <2>6, <3>2 DEF UpdateMap, Associate
    <3> QED BY <3>1, <3>2
  <2> SUFFICES ASSUME NEW u \in Uuids, refreshMap'[u] # NoProvider
               PROVE  refreshEnabled'[refreshMap'[u]] \/ Enables(refreshMap'[u])
    BY DEF AssociatedIsEnabled, WillEnable
  <2> HIDE DEF j, old, Enables
  <2>7. CASE u = j.uuid
    BY <2>2, <2>5, <2>7
  <2>8. CASE u # j.uuid
    BY <2>2, <2>4, <2>6, <2>8 DEF AssociatedIsEnabled
  <2> QED BY <2>7, <2>8
<1>4. ASSUME NEW r \in Runners, CheckEnabled(r)
      PROVE  AssociatedIsEnabled'
  BY <1>4, AssociatedKept DEF CheckEnabled, TypeOK
<1>5. ASSUME NEW r \in Runners, SetEnabled(r)
      PROVE  AssociatedIsEnabled'
  <2>1. job[r].provider \in Providers
    BY <1>5 DEF SetEnabled, TypeOK, EnableSteps, EnableJobs
  <2> QED BY <1>5, <2>1, AssociatedKept DEF SetEnabled, TypeOK
<1>6. ASSUME NEW r \in Runners, RefreshData(r)
      PROVE  AssociatedIsEnabled'
  BY <1>6, AssociatedKept DEF RefreshData, CancelTimer, PostRefresh, TypeOK
<1>7. ASSUME NEW p \in Providers, Expire(p)
      PROVE  AssociatedIsEnabled'
  BY <1>7, AssociatedKept DEF Expire, Runners, TypeOK
<1>8. CASE UNCHANGED vars
  BY <1>8, AssociatedKept DEF vars
<1> QED BY <1>1, <1>2, <1>3, <1>4, <1>5, <1>6, <1>7, <1>8 DEF Next, EnableRefresh

(***************************************************************************)
(* A map whose product is associated with it is never left without a       *)
(* refresh, although refreshEnabled_ is tested and set without a lock      *)
(* while other threads disable the same provider manager.                  *)
(***************************************************************************)
THEOREM AssociatedStaysEnabled == Spec => []AssociatedIsEnabled
<1>1. Spec => []TypeOK
  BY SchedulerTypeCorrect
<1> QED BY <1>1, AssociatedInit, AssociatedNext, PTL DEF Spec

-----------------------------------------------------------------------------
(* Chains of refreshes.                                                    *)

(* The thread is in the part of p's chain from RefreshData to the timer. *)
Carries(r, p) == pc[r] \in RefreshSteps /\ job[r] = RefreshJob(p)

(* A chain is a timer, a refresh queued or a thread that carries it. *)
LEMMA ChainParts ==
  ASSUME NEW p
  PROVE  InChain(p) <=> \/ p \in armed
                        \/ RefreshJob(p) \in ToSet(queue)
                        \/ \E r \in Runners : Carries(r, p)
BY DEF InChain, ToSet, Carries

(* The same in the next state. *)
LEMMA ChainPartsNext ==
  ASSUME NEW p
  PROVE  InChain(p)' <=> \/ p \in armed'
                         \/ RefreshJob(p) \in ToSet(queue')
                         \/ \E r \in Runners : Carries(r, p)'
BY DEF InChain, ToSet, Carries

(* Jobs of different provider managers are different. *)
LEMMA JobOfProvider ==
  ASSUME NEW j \in RefreshJobs
  PROVE  j.provider \in Providers /\ j = RefreshJob(j.provider)
BY DEF RefreshJobs, RefreshJob

(* Every step keeps the chain alive. *)
LEMMA ChainNext ==
  ASSUME TypeOK, TypeOK', ChainAlive, [Next]_vars
  PROVE  ChainAlive'
<1> USE SchedulerAssumption
<1> USE DEF threads, gui, Goto, Start, Stop
<1> SUFFICES ASSUME NEW p \in Providers, refreshEnabled'[p],
                    "throw" \notin faults'
             PROVE  InChain(p)'
  BY DEF ChainAlive
<1>f. faults' = faults
  BY DEF vars, Next, EnableLevel2, EnableLevel3, Asked, PoolJob, RunJob,
         Available, NotAvailable, Refresh, RefreshThrows, Schedule,
         EnableRefresh, RefreshData, UpdateMap, CheckEnabled, SetEnabled,
         CancelTimer, PostRefresh, Expire
<1>a. refreshEnabled[p] => InChain(p)
  BY <1>f DEF ChainAlive
<1>q. queue \in Seq(Jobs) /\ queue' \in Seq(Jobs)
  BY DEF TypeOK
<1>1. ASSUME NEW u \in Uuids, NEW d \in Level2, NEW e \in BOOLEAN,
             EnableLevel2(u, d, e)
      PROVE  InChain(p)'
  <2>1. \A r \in Runners : Carries(r, p) => Carries(r, p)'
    BY <1>1 DEF EnableLevel2, Asked, Carries, RefreshSteps, TypeOK
  <2> QED BY <1>1, <1>a, <2>1, ChainParts, ChainPartsNext DEF EnableLevel2
<1>2. ASSUME NEW u \in Uuids, NEW d \in Level3, NEW e \in BOOLEAN,
             EnableLevel3(u, d, e)
      PROVE  InChain(p)'
  <2>1. EnableJob(u, d, e) \in Jobs
    BY DEF EnableJob, Jobs, EnableJobs, Providers
  <2>2. ToSet(queue) \subseteq ToSet(queue')
    BY <1>2, <1>q, <2>1, AppendToSet DEF EnableLevel3
  <2>3. \A r \in Runners : Carries(r, p) => Carries(r, p)'
    BY <1>2 DEF EnableLevel3, Carries
  <2> QED BY <1>2, <1>a, <2>2, <2>3, ChainParts, ChainPartsNext
          DEF EnableLevel3
<1>3. ASSUME NEW w \in Workers, RunJob(w)
      PROVE  InChain(p)'
  <2>1. ToSet(queue) = {Head(queue)} \union ToSet(queue')
    BY <1>3, <1>q, HeadTailToSet DEF RunJob
  <2>2. Head(queue) = RefreshJob(p) => Carries(w, p)'
    BY <1>3 DEF RunJob, FirstStep, RefreshJob, Carries, RefreshSteps, Runners,
                TypeOK
  <2>3. \A r \in Runners : Carries(r, p) => Carries(r, p)'
    BY <1>3 DEF RunJob, Carries, RefreshSteps, TypeOK
  <2> QED BY <1>3, <1>a, <2>1, <2>2, <2>3, ChainParts, ChainPartsNext
          DEF RunJob, Runners
<1>4. ASSUME NEW w \in Workers, Available(w) \/ NotAvailable(w) \/ Refresh(w)
      PROVE  InChain(p)'
  <2>1. \A r \in Runners : Carries(r, p) => Carries(r, p)'
    BY <1>4
    DEF Available, NotAvailable, Refresh, Carries, RefreshSteps, TypeOK
  <2> QED BY <1>4, <1>a, <2>1, ChainParts, ChainPartsNext
          DEF Available, NotAvailable, Refresh
<1>5. ASSUME NEW w \in Workers, Schedule(w)
      PROVE  InChain(p)'
  <2>1. refreshEnabled[p]
    BY <1>5 DEF Schedule
  <2>2. Carries(w, p) => p \in armed'
    BY <1>5, <2>1 DEF Schedule, Carries, RefreshJob
  <2>3. \A r \in Runners \ {w} : Carries(r, p) => Carries(r, p)'
    BY <1>5 DEF Schedule, Carries, TypeOK
  <2>4. armed \subseteq armed' /\ queue' = queue
    BY <1>5 DEF Schedule
  <2> QED BY <1>a, <2>1, <2>2, <2>3, <2>4, ChainParts, ChainPartsNext
<1>6. ASSUME NEW r \in Runners, UpdateMap(r)
      PROVE  InChain(p)'
  <2>1. refreshEnabled[p] /\ (p \in armed => p \in armed')
    BY <1>6 DEF UpdateMap, Associate, Disable, TypeOK
  <2>2. \A x \in Runners : Carries(x, p) => Carries(x, p)'
    BY <1>6 DEF UpdateMap, Carries, RefreshSteps, TypeOK
  <2> QED BY <1>6, <1>a, <2>1, <2>2, ChainParts, ChainPartsNext DEF UpdateMap
<1>7. ASSUME NEW r \in Runners, CheckEnabled(r)
      PROVE  InChain(p)'
  <2>1. \A x \in Runners : Carries(x, p) => Carries(x, p)'
    BY <1>7 DEF CheckEnabled, Carries, RefreshSteps, TypeOK
  <2> QED BY <1>7, <1>a, <2>1, ChainParts, ChainPartsNext DEF CheckEnabled
<1>8. ASSUME NEW r \in Runners, SetEnabled(r)
      PROVE  InChain(p)'
  <2>1. \A x \in Runners : Carries(x, p) => Carries(x, p)'
    BY <1>8 DEF SetEnabled, Carries, RefreshSteps, TypeOK
  <2>2. job[r].provider = p => Carries(r, p)'
    BY <1>8 DEF SetEnabled, Carries, RefreshSteps, TypeOK
  <2>3. job[r].provider # p => refreshEnabled[p]
    BY <1>8 DEF SetEnabled, TypeOK
  <2> QED BY <1>8, <1>a, <2>1, <2>2, <2>3, ChainParts, ChainPartsNext
          DEF SetEnabled
<1>9. ASSUME NEW r \in Runners, CancelTimer(r)
      PROVE  InChain(p)'
  <2>1. job[r] \in RefreshJobs
    BY <1>9 DEF CancelTimer, TypeOK, RefreshSteps
  <2>2. \A x \in Runners : Carries(x, p) => Carries(x, p)'
    BY <1>9 DEF CancelTimer, Carries, RefreshSteps, TypeOK
  <2>3. p \in armed /\ p \notin armed' => Carries(r, p)'
    BY <1>9, <2>1, JobOfProvider DEF CancelTimer, Carries, RefreshSteps, TypeOK
  <2> QED BY <1>9, <1>a, <2>2, <2>3, ChainParts, ChainPartsNext
          DEF CancelTimer
<1>10. ASSUME NEW r \in Runners, PostRefresh(r)
      PROVE  InChain(p)'
  <2>1. job[r] \in Jobs
    BY <1>10 DEF PostRefresh, TypeOK, RefreshSteps, Jobs
  <2>2. ToSet(queue') = ToSet(queue) \union {job[r]}
    BY <1>10, <1>q, <2>1, AppendToSet DEF PostRefresh
  <2>3. \A x \in Runners \ {r} : Carries(x, p) => Carries(x, p)'
    BY <1>10 DEF PostRefresh, Carries, TypeOK
  <2>4. Carries(r, p) => RefreshJob(p) \in ToSet(queue')
    BY <2>2 DEF Carries
  <2> QED BY <1>10, <1>a, <2>2, <2>3, <2>4, ChainParts, ChainPartsNext
          DEF PostRefresh
<1>11. ASSUME NEW d \in Providers, Expire(d)
      PROVE  InChain(p)'
  <2>1. \A x \in Runners : Carries(x, p) => Carries(x, p)'
    BY <1>11 DEF Expire, Carries, RefreshSteps, TypeOK
  <2>2. d \in Runners /\ Carries(d, d)'
    BY <1>11 DEF Expire, Carries, RefreshSteps, Runners, TypeOK
  <2> QED BY <1>11, <1>a, <2>1, <2>2, ChainParts, ChainPartsNext DEF Expire
<1>12. CASE UNCHANGED vars
  BY <1>12, <1>a DEF vars, InChain
<1>13. ASSUME NEW w \in Workers, RefreshThrows(w)
      PROVE  FALSE
  BY <1>13, <1>f DEF RefreshThrows
<1> QED BY <1>1, <1>2, <1>3, <1>4, <1>5, <1>6, <1>7, <1>8, <1>9, <1>10, <1>11,
           <1>12, <1>13
        DEF Next, PoolJob, EnableRefresh, RefreshData

(***************************************************************************)
(* If no refresh throws an exception, an enabled provider manager always   *)
(* has a refresh queued, running, about to be posted or waiting for its    *)
(* timer: no order of cancelling, expiring, disabling and enabling cuts    *)
(* the chain.                                                              *)
(***************************************************************************)
THEOREM ChainsStayAlive == Spec => []ChainAlive
<1>1. Init => ChainAlive
  BY DEF Init, ChainAlive
<1>2. TypeOK /\ TypeOK' /\ ChainAlive /\ [Next]_vars => ChainAlive'
  BY ChainNext
<1> QED BY <1>1, <1>2, SchedulerTypeCorrect, PTL DEF Spec
=============================================================================

------------------------ MODULE TimelineManagerProofs ------------------------
(***************************************************************************)
(* Proofs about TimelineManager for any number of maps, radar sites, times *)
(* and calls.                                                              *)
(***************************************************************************)
EXTENDS TimelineManager, SequencesExt, SequenceTheorems, TLAPS

-----------------------------------------------------------------------------
(* What is used of lists.                                                  *)

(* Append adds one element. *)
LEMMA AppendToSet ==
  ASSUME NEW S, NEW q \in Seq(S), NEW j \in S
  PROVE  Append(q, j) \in Seq(S) /\ ToSet(Append(q, j)) = ToSet(q) \union {j}
<1>1. /\ Append(q, j) \in Seq(S) /\ Len(Append(q, j)) = Len(q) + 1
      /\ \A i \in 1 .. Len(q) : Append(q, j)[i] = q[i]
      /\ Append(q, j)[Len(q) + 1] = j
  OBVIOUS
<1> DEFINE z == Append(q, j)
<1> HIDE DEF z
<1> QED BY <1>1 DEF ToSet, z

(* A list consists of its head and its tail. *)
LEMMA HeadTailToSet ==
  ASSUME NEW S, NEW q \in Seq(S), q # <<>>
  PROVE  /\ Head(q) \in S /\ Tail(q) \in Seq(S)
         /\ ToSet(q) = {Head(q)} \union ToSet(Tail(q))
<1>1. /\ Len(q) \in Nat \ {0} /\ Head(q) = q[1] /\ Head(q) \in S
      /\ Tail(q) \in Seq(S) /\ Len(Tail(q)) = Len(q) - 1
      /\ \A i \in 1 .. (Len(q) - 1) : Tail(q)[i] = q[i + 1]
  BY EmptySeq, HeadTailProperties
<1> DEFINE z == Tail(q)
<1> HIDE DEF z
<1>2. ToSet(q) \subseteq {Head(q)} \union ToSet(z)
  <2> SUFFICES ASSUME NEW i \in 1 .. Len(q)
               PROVE  q[i] = Head(q) \/ q[i] \in ToSet(z)
    BY LenProperties DEF ToSet
  <2>1. CASE i = 1
    BY <1>1, <2>1
  <2>2. CASE i > 1
    <3>1. i - 1 \in 1 .. (Len(q) - 1)
      BY <1>1, <2>2
    <3>2. q[i] = z[i - 1] /\ i - 1 \in DOMAIN z
      BY <1>1, <3>1 DEF z
    <3> QED BY <3>2 DEF ToSet
  <2> QED BY <2>1, <2>2
<1>3. {Head(q)} \union ToSet(z) \subseteq ToSet(q)
  <2>1. Head(q) \in ToSet(q)
    BY <1>1 DEF ToSet
  <2>2. ASSUME NEW i \in DOMAIN z PROVE z[i] \in ToSet(q)
    <3>1. i \in 1 .. (Len(q) - 1)
      BY <1>1, LenProperties DEF z
    <3>2. i + 1 \in DOMAIN q /\ z[i] = q[i + 1]
      BY <1>1, <3>1 DEF z
    <3> QED BY <3>2 DEF ToSet
  <2> QED BY <2>1, <2>2 DEF ToSet
<1> QED BY <1>1, <1>2, <1>3 DEF z

-----------------------------------------------------------------------------
(* Types.                                                                  *)

(* The three threads differ. *)
LEMMA ThreadNames ==
  /\ Gui \in Threads /\ Select \in Threads /\ Player \in Threads
  /\ Gui # Select /\ Gui # Player /\ Select # Player
BY DEF Gui, Select, Player, Threads

(* The variables have their types at first. *)
LEMMA TypeInit == Init => TypeOK
<1> SUFFICES ASSUME Init PROVE TypeOK
  OBVIOUS
<1> USE TimelineAssumption, ThreadNames
<1>1. DockTyped
  BY DEF Init, DockTyped
<1>2. QueuesTyped
  <2>1. <<>> \in Seq(SelectJobs \union StepJobs) /\ <<>> \in Seq({"PlaySync", "expired"})
    OBVIOUS
  <2> QED BY <2>1 DEF Init, QueuesTyped
<1>3. MonitorTyped
  BY DEF Init, MonitorTyped
<1>4. MapsTyped
  BY DEF Init, MapsTyped
<1>5. ThreadsTyped
  BY DEF Init, ThreadsTyped, ThreadTyped, Steps
<1>6. PlayTyped
  BY Zenon DEF Init, PlayTyped
<1> QED BY <1>1, <1>2, <1>3, <1>4, <1>5, <1>6 DEF Init, TypeOK

(* What the slots called by the dock have in common. *)
LEMMA TypeDock == ASSUME TypeOK, Dock PROVE TypeOK'
<1> USE TimelineAssumption, ThreadNames
<1>1. \A t \in Int : [kind |-> "select", time |-> t] \in SelectJobs \union StepJobs
  BY DEF SelectJobs
<1>2. \A d \in Directions :
        [kind |-> "step", direction |-> d] \in SelectJobs \union StepJobs
  BY DEF StepJobs
<1>3. Called
  BY DEF Dock, SetRadarSite, SetDateTime, SetViewType, SetLoopTime,
      AnimationStepBegin, AnimationStep, AnimationPlayPause, AnimationStepEnd
<1>4. LoopStart \in Int
  BY DEF TypeOK, DockTyped, LoopStart, LoopEnd
<1>5. ASSUME NEW j \in SelectJobs \union StepJobs, Post(j)
      PROVE  selectQueue' \in Seq(SelectJobs \union StepJobs)
  BY <1>5, AppendToSet DEF Post, TypeOK, QueuesTyped
<1>6. \/ UNCHANGED <<pc, time>>
      \/ SelectLive
  BY DEF Dock, SetRadarSite, SetDateTime, SetViewType, SetLoopTime,
      AnimationStepBegin, AnimationStep, AnimationPlayPause, AnimationStepEnd,
      SelectTimeAsync, StepAsync, Post
<1>7. ThreadsTyped'
  BY <1>3, <1>6 DEF TypeOK, ThreadsTyped, ThreadTyped, Called, SelectLive,
      Goto, Steps, Waits
<1>8. MonitorTyped' /\ MapsTyped' /\ (overlapped \in BOOLEAN)'
  BY <1>3 DEF Called, TypeOK, monitor, maps, MonitorTyped, MapsTyped
<1>9. DockTyped'
  <2> USE <1>3 DEF TypeOK, DockTyped, Called
  <2>1. CASE \E s \in Sites \union {NoSite} : SetRadarSite(s)
    BY <2>1 DEF SetRadarSite
  <2>2. CASE \E t \in DateTimes : SetDateTime(t)
    BY <2>2 DEF SetDateTime
  <2>3. CASE \E v \in {"live", "archive"} : SetViewType(v)
    BY <2>3 DEF SetViewType
  <2>4. CASE \E n \in LoopTimes : SetLoopTime(n)
    BY <2>4 DEF SetLoopTime
  <2>5. CASE AnimationStepBegin \/ AnimationPlayPause \/ AnimationStepEnd
    BY <2>5 DEF AnimationStepBegin, AnimationPlayPause, AnimationStepEnd
  <2>6. CASE \E d \in Directions : AnimationStep(d)
    BY <2>6 DEF AnimationStep
  <2> QED BY <2>1, <2>2, <2>3, <2>4, <2>5, <2>6 DEF Dock
<1>10. selectQueue' \in Seq(SelectJobs \union StepJobs)
  <2>1. \/ UNCHANGED selectQueue
        \/ \E t \in Int : SelectTimeAsync(t)
        \/ \E d \in Directions : StepAsync(d)
    BY <1>4 DEF Dock, SetRadarSite, SetDateTime, SetViewType, SetLoopTime,
        AnimationStepBegin, AnimationStep, AnimationPlayPause,
        AnimationStepEnd, TypeOK, DockTyped, SelectLive
  <2> QED BY <2>1, <1>1, <1>2, <1>5 DEF SelectTimeAsync, StepAsync, TypeOK,
              QueuesTyped
<1>11. playQueue' \in Seq({"PlaySync", "expired"})
  <2>1. UNCHANGED playQueue \/ playQueue' = Append(playQueue, "PlaySync")
    BY DEF Dock, SetRadarSite, SetDateTime, SetViewType, SetLoopTime,
        AnimationStepBegin, AnimationStep, AnimationPlayPause,
        AnimationStepEnd, Pause, Play, play
  <2> QED BY <2>1, AppendToSet DEF TypeOK, QueuesTyped
<1>12. QueuesTyped'
  BY <1>3, <1>6, <1>10, <1>11 DEF Called, SelectLive, Goto, TypeOK,
      QueuesTyped, ThreadsTyped
<1>13. PlayTyped'
  <2>1. Pause \/ Play \/ UNCHANGED <<animation, timer>>
    BY DEF Dock, SetRadarSite, SetDateTime, SetViewType, SetLoopTime,
        AnimationStepBegin, AnimationStep, AnimationPlayPause,
        AnimationStepEnd, play
  <2> QED BY <2>1, Zenon DEF Pause, Play, TypeOK, PlayTyped
<1> QED BY <1>7, <1>8, <1>9, <1>12, <1>13 DEF TypeOK

(* A selection, whichever thread makes it. *)
LEMMA TypeSelectTime ==
  ASSUME TypeOK, NEW t \in Threads, SelectTime(t) PROVE TypeOK'
<1> USE TimelineAssumption, ThreadNames
<1>1. DockTyped' /\ MonitorTyped'
  BY DEF context, TypeOK, DockTyped, MonitorTyped, ThreadsTyped,
      SelectUnchanged, ResetToLive, BeginSelect, LockSelect, TellLiveState,
      LiveStateTold, AssignSelected, TellSelected, SelectDone, SelectTime,
      rest, dock, site, monitor, Return, Goto
<1>2. PlayTyped' /\ (overlapped \in BOOLEAN)'
  BY Zenon DEF context, TypeOK, PlayTyped, SelectUnchanged, ResetToLive,
      BeginSelect, LockSelect, TellLiveState, LiveStateTold, AssignSelected,
      TellSelected, SelectDone, SelectTime, Overlap, rest, play
<1>3. \/ UNCHANGED maps
      \/ TellLiveState(t)
      \/ TellSelected(t)
  BY DEF context, maps, SelectUnchanged, ResetToLive, BeginSelect, LockSelect,
      TellLiveState, LiveStateTold, AssignSelected, TellSelected, SelectDone,
      SelectTime
<1>4. MapsTyped'
  <2>1. CASE UNCHANGED maps
    BY <2>1 DEF TypeOK, MapsTyped, maps
  <2>2. CASE TellLiveState(t)
    <3>1. (time[t] = Live) \in BOOLEAN
      OBVIOUS
    <3>2. autoUpdate' \in [Maps -> BOOLEAN]
      BY <2>2, <3>1, Zenon DEF TypeOK, MapsTyped, TellLiveState, IsLive
    <3> QED BY <2>2, <3>2 DEF TypeOK, MapsTyped, TellLiveState
  <2>3. CASE TellSelected(t)
    <3>1. told[t] + 1 \in Maps
      BY <2>3 DEF TellSelected, TypeOK, ThreadsTyped, Maps
    <3> QED BY <2>3, <3>1 DEF TypeOK, MapsTyped, ThreadsTyped, TellSelected
  <2> QED BY <1>3, <2>1, <2>2, <2>3
<1>5. UNCHANGED <<selectQueue, playQueue, step, attempts, event>>
  BY DEF context, SelectUnchanged, ResetToLive, BeginSelect, LockSelect,
      TellLiveState, LiveStateTold, AssignSelected, TellSelected, SelectDone,
      SelectTime, rest, stepper, play
<1>6. ThreadsTyped'
  <2>1. CASE SelectUnchanged(t)
    BY <1>5, <2>1 DEF context, SelectUnchanged, EnterSelect, Return, Goto,
        rest, locals, stepper, TypeOK, ThreadsTyped, ThreadTyped, Steps, Waits
  <2>2. CASE ResetToLive(t)
    BY <1>5, <2>2 DEF ResetToLive, EnterSelect, Return, Goto, rest, locals,
        stepper, TypeOK, ThreadsTyped, ThreadTyped, Steps, Waits
  <2>3. CASE BeginSelect(t)
    BY <1>5, <2>3 DEF context, BeginSelect, EnterSelect, Return, Goto, rest,
        locals, stepper, TypeOK, ThreadsTyped, ThreadTyped, Steps, Waits
  <2>4. CASE TellLiveState(t)
    BY <1>5, <2>4 DEF TellLiveState, EnterSelect, Return, Goto, rest, locals,
        stepper, TypeOK, ThreadsTyped, ThreadTyped, Steps, Waits
  <2>5. CASE LiveStateTold(t)
    BY <1>5, <2>5 DEF context, LiveStateTold, EnterSelect, Return, Goto, rest,
        locals, stepper, TypeOK, ThreadsTyped, ThreadTyped, Steps, Waits
  <2>6. CASE AssignSelected(t)
    BY <1>5, <2>6 DEF AssignSelected, EnterSelect, Return, Goto, rest, locals,
        stepper, TypeOK, ThreadsTyped, ThreadTyped, Steps, Waits
  <2>7. CASE TellSelected(t)
    BY <1>5, <2>7 DEF TellSelected, EnterSelect, Return, Goto, rest, locals,
        stepper, TypeOK, ThreadsTyped, ThreadTyped, Steps, Waits
  <2>8. CASE SelectDone(t)
    BY <1>5, <2>8 DEF SelectDone, EnterSelect, Return, Goto, rest, locals,
        stepper, TypeOK, ThreadsTyped, ThreadTyped, Steps, Waits
  <2>9. CASE LockSelect(t)
    BY <1>5, <2>9 DEF LockSelect, Goto, rest, locals, stepper,
                       TypeOK, ThreadsTyped, ThreadTyped, Steps, Waits
  <2> QED BY <2>1, <2>2, <2>3, <2>4, <2>5, <2>6, <2>7, <2>8, <2>9 DEF
              SelectTime
<1>7. pc'[Select] \in {"begin", "monitor", "next"} => pc'[Select] = pc[Select]
  BY DEF context, TypeOK, ThreadsTyped, Steps, SelectTime, SelectUnchanged,
      ResetToLive, BeginSelect, LockSelect, TellLiveState, LiveStateTold,
      AssignSelected, TellSelected, SelectDone, Return, Goto, rest
<1>8. QueuesTyped'
  BY <1>5, <1>7 DEF TypeOK, QueuesTyped
<1> QED BY <1>1, <1>2, <1>4, <1>6, <1>8 DEF TypeOK

(* The sweep monitor. *)
LEMMA TypeMonitor ==
  ASSUME TypeOK, NEW t \in Threads, LockMonitor(t) \/ WaitEnds(t) PROVE TypeOK'
<1> USE TimelineAssumption, ThreadNames
<1>1. DockTyped' /\ MapsTyped'
  BY DEF context, TypeOK, DockTyped, MapsTyped, LockMonitor, WaitEnds, rest,
      dock, site, maps
<1>2. PlayTyped' /\ (overlapped \in BOOLEAN)'
  BY Zenon DEF context, TypeOK, PlayTyped, LockMonitor, WaitEnds, rest, play
<1>3. MonitorTyped'
  BY DEF context, TypeOK, MonitorTyped, LockMonitor, WaitEnds, rest, monitor
<1>4. ThreadsTyped'
  BY DEF context, TypeOK, ThreadsTyped, ThreadTyped, Steps, Waits, Goto,
      LockMonitor, WaitEnds, rest, locals, stepper
<1>5. QueuesTyped'
  BY DEF context, TypeOK, QueuesTyped, ThreadsTyped, Goto, LockMonitor,
      WaitEnds, rest, play, stepper
<1> QED BY <1>1, <1>2, <1>3, <1>4, <1>5 DEF TypeOK

(* Requests and steps. *)
LEMMA TypeSelectJob ==
  ASSUME TypeOK, TakeSelectJob \/ StepBegin \/ StepAttempt \/ StepWoken
  PROVE  TypeOK'
<1> USE TimelineAssumption, ThreadNames
<1>1. DockTyped' /\ MapsTyped'
  BY DEF context, TypeOK, DockTyped, MapsTyped, TakeSelectJob, StepBegin,
      StepAttempt, StepWoken, dock, site, maps
<1>2. PlayTyped' /\ (overlapped \in BOOLEAN)'
  BY Zenon DEF context, TypeOK, PlayTyped, TakeSelectJob, StepBegin,
      StepAttempt, StepWoken, play
<1>3. MonitorTyped'
  BY DEF context, TypeOK, MonitorTyped, TakeSelectJob, StepBegin, StepAttempt,
      StepWoken, Woken, ResetAndSelect, RadarSweepMonitorReset, monitor
<1>4. CASE TakeSelectJob
  <2>1. /\ Head(selectQueue) \in SelectJobs \union StepJobs
        /\ Tail(selectQueue) \in Seq(SelectJobs \union StepJobs)
    BY <1>4 DEF context, TypeOK, QueuesTyped, TakeSelectJob
  <2>2. ThreadsTyped'
    <3>1. Head(selectQueue) \notin StepJobs => Head(selectQueue).time \in Int
      BY <2>1 DEF SelectJobs
    <3>2. CASE Head(selectQueue) \in StepJobs
      BY <1>4, <3>2 DEF context, TypeOK, ThreadsTyped, ThreadTyped, Steps,
          Waits, Goto, TakeSelectJob
    <3>3. CASE Head(selectQueue) \notin StepJobs
      BY <1>4, <3>1, <3>3 DEF context, TypeOK, ThreadsTyped, ThreadTyped,
          Steps, Waits, Goto, TakeSelectJob
    <3> QED BY <3>2, <3>3
  <2>3. QueuesTyped'
    BY <1>4, <2>1 DEF context, TypeOK, QueuesTyped, ThreadsTyped, Goto,
        TakeSelectJob, play
  <2> QED BY <1>1, <1>2, <1>3, <2>2, <2>3 DEF TypeOK
<1>5. CASE StepBegin
  <2>1. ThreadsTyped'
    BY <1>5 DEF context, TypeOK, DockTyped, ThreadsTyped, ThreadTyped, Steps,
        Waits, Goto, StepBegin, stepper
  <2>2. QueuesTyped'
    BY <1>5 DEF context, TypeOK, QueuesTyped, ThreadsTyped, Goto, StepBegin,
        play, stepper
  <2> QED BY <1>1, <1>2, <1>3, <2>1, <2>2 DEF TypeOK
<1>6. CASE StepAttempt
  <2>1. ThreadsTyped'
    BY <1>6 DEF context, TypeOK, ThreadsTyped, ThreadTyped, Steps, Waits, Goto,
        StepAttempt, ResetAndSelect, Stepped
  <2>2. QueuesTyped'
    BY <1>6 DEF context, TypeOK, QueuesTyped, ThreadsTyped, Goto, StepAttempt,
                ResetAndSelect, play
  <2> QED BY <1>1, <1>2, <1>3, <2>1, <2>2 DEF TypeOK
<1>7. CASE StepWoken
  <2>1. ThreadsTyped'
    BY <1>7 DEF context, TypeOK, ThreadsTyped, ThreadTyped, Steps, Waits, Goto,
        StepWoken, Woken, stepper, locals
  <2>2. QueuesTyped'
    BY <1>7 DEF context, TypeOK, QueuesTyped, ThreadsTyped, Goto, StepWoken,
        LastAttempt, play, stepper
  <2> QED BY <1>1, <1>2, <1>3, <2>1, <2>2 DEF TypeOK
<1> QED BY <1>4, <1>5, <1>6, <1>7

(* The animation and its timer. *)
LEMMA TypePlayJob ==
  ASSUME TypeOK, \/ TakePlayJob \/ PlayBegin \/ PlaySelect \/ PlayWoken
                 \/ TimerExpires \/ TimerHandler \/ PlayAgain
  PROVE  TypeOK'
<1> USE TimelineAssumption, ThreadNames
<1>1. DockTyped' /\ MapsTyped'
  BY DEF context, TypeOK, DockTyped, MapsTyped, TakePlayJob, PlayBegin,
      PlaySelect, PlayWoken, TimerExpires, TimerHandler, PlayAgain, dock, site,
      maps, rest
<1>2. PlayTyped' /\ (overlapped \in BOOLEAN)'
  BY Zenon DEF context, TypeOK, PlayTyped, TakePlayJob, PlayBegin, PlaySelect,
      PlayWoken, TimerExpires, TimerHandler, PlayAgain, Play, play, rest
<1>3. MonitorTyped'
  BY DEF context, TypeOK, MonitorTyped, TakePlayJob, PlayBegin, PlaySelect,
      PlayWoken, TimerExpires, TimerHandler, PlayAgain, Woken, ResetAndSelect,
      RadarSweepMonitorReset, monitor, rest
<1>4. NextInLoop \in Int
  BY DEF TypeOK, DockTyped, NextInLoop, LoopStart, LoopEnd
<1>5. ThreadsTyped'
  <2> USE DEF TypeOK, ThreadsTyped, ThreadTyped, Steps, Waits, Goto, locals,
          stepper
  <2>1. CASE TakePlayJob
    BY <1>4, <2>1 DEF context, TakePlayJob
  <2>2. CASE PlayBegin
    BY <1>4, <2>2 DEF context, PlayBegin
  <2>3. CASE PlaySelect
    BY <1>4, <2>3 DEF context, PlaySelect, ResetAndSelect
  <2>4. CASE PlayWoken
    BY <1>4, <2>4 DEF context, PlayWoken, Woken
  <2>5. CASE TimerExpires
    BY <1>4, <2>5 DEF context, TimerExpires
  <2>6. CASE TimerHandler
    BY <1>4, <2>6 DEF context, TimerHandler, rest
  <2>7. CASE PlayAgain
    BY <1>4, <2>7 DEF context, PlayAgain
  <2> QED BY <2>1, <2>2, <2>3, <2>4, <2>5, <2>6, <2>7
<1>6. /\ UNCHANGED <<selectQueue, step, attempts>>
      /\ UNCHANGED pc \/ \E l \in Steps : Goto(Player, l)
  BY DEF context, TakePlayJob, PlayBegin, PlaySelect, PlayWoken, TimerExpires,
         TimerHandler, PlayAgain, ResetAndSelect, stepper, rest, Steps
<1>7. \/ UNCHANGED playQueue
      \/ TakePlayJob
      \/ playQueue' = Append(playQueue, "PlaySync")
      \/ playQueue' = Append(playQueue, "expired")
  BY DEF context, PlayBegin, PlaySelect, PlayWoken, TimerExpires, TimerHandler,
      PlayAgain, Play, play, rest
<1>8. playQueue' \in Seq({"PlaySync", "expired"})
  <2>1. playQueue \in Seq({"PlaySync", "expired"})
    BY DEF TypeOK, QueuesTyped
  <2>2. CASE TakePlayJob
    BY <2>1, <2>2, HeadTailToSet DEF context, TakePlayJob
  <2> QED BY <1>7, <2>1, <2>2, AppendToSet
<1>9. QueuesTyped'
  BY <1>6, <1>8 DEF TypeOK, QueuesTyped, ThreadsTyped, Goto
<1> QED BY <1>1, <1>2, <1>3, <1>5, <1>9 DEF TypeOK

(* The signals of the maps, and the clock. *)
LEMMA TypeEvents ==
  ASSUME TypeOK, \/ HandleEvent \/ Tick
                 \/ \E m \in Maps : ComputeSweep(m) \/ Paint(m)
  PROVE  TypeOK'
<1> USE TimelineAssumption, ThreadNames
<1>1. DockTyped'
  <2>1. CASE HandleEvent \/ \E m \in Maps : ComputeSweep(m) \/ Paint(m)
    BY <2>1 DEF context, TypeOK, DockTyped, HandleEvent, ComputeSweep, Paint,
        Receive, dock, site
  <2>2. CASE Tick
    BY <2>2 DEF TypeOK, DockTyped, Tick, dock, site
  <2> QED BY <2>1, <2>2
<1>2. PlayTyped' /\ (overlapped \in BOOLEAN)'
  BY Zenon DEF context, TypeOK, PlayTyped, HandleEvent, Tick, ComputeSweep,
      Paint, Receive, play
<1>3. MapsTyped'
  BY DEF context, TypeOK, MapsTyped, HandleEvent, Tick, ComputeSweep, Paint,
      Receive, maps
<1>4. UNCHANGED <<selectQueue, playQueue, step, attempts, locals>>
  BY DEF context, HandleEvent, Tick, ComputeSweep, Paint, Receive, stepper,
      play
<1>5. CASE HandleEvent
  <2>1. event \in Events
    BY <1>5 DEF context, TypeOK, ThreadsTyped, ThreadTyped, HandleEvent
  <2>2. MonitorTyped'
    BY <1>5, <2>1 DEF context, TypeOK, MonitorTyped, HandleEvent, Completed,
        Notify, Events
  <2>3. \/ Goto(Gui, "idle")
        \/ Notify
    BY <1>5, <2>1 DEF context, HandleEvent, Completed, Events
  <2>4. ThreadsTyped'
    BY <1>4, <1>5, <2>3 DEF context, TypeOK, ThreadsTyped, ThreadTyped, Steps,
        Waits, Goto, Notify, locals, HandleEvent
  <2>5. QueuesTyped'
    BY <1>4, <2>3 DEF TypeOK, QueuesTyped, ThreadsTyped, Goto, Notify
  <2> QED BY <1>1, <1>2, <1>3, <2>2, <2>4, <2>5 DEF TypeOK
<1>6. ASSUME NEW m \in Maps, ComputeSweep(m) \/ Paint(m)
      PROVE  TypeOK'
  <2>1. \A k \in {"updated", "complete", "painted"} : [kind |-> k, map |-> m] \in Events
    BY DEF Events
  <2>2. MonitorTyped'
    BY <1>6, <2>1 DEF context, TypeOK, MonitorTyped, ComputeSweep, Paint,
        Receive, monitor
  <2>3. ThreadsTyped'
    BY <1>4, <1>6, <2>1 DEF context, TypeOK, ThreadsTyped, ThreadTyped, Steps,
        Waits, Goto, locals, ComputeSweep, Paint, Receive
  <2>4. QueuesTyped'
    BY <1>4, <1>6 DEF context, TypeOK, QueuesTyped, ThreadsTyped, Goto,
        ComputeSweep, Paint, Receive
  <2> QED BY <1>1, <1>2, <1>3, <2>2, <2>3, <2>4 DEF TypeOK
<1>7. CASE Tick
  <2>1. MonitorTyped' /\ ThreadsTyped' /\ QueuesTyped'
    BY <1>7 DEF Tick, TypeOK, MonitorTyped, ThreadsTyped, ThreadTyped,
        QueuesTyped, Waits, monitor, locals, stepper, play
  <2> QED BY <1>1, <1>2, <1>3, <2>1 DEF TypeOK
<1> QED BY <1>5, <1>6, <1>7

(* A step that changes nothing keeps the types. *)
LEMMA TypeStutter == ASSUME TypeOK, UNCHANGED vars PROVE TypeOK'
BY DEF TypeOK, DockTyped, PlayTyped, QueuesTyped, MonitorTyped, MapsTyped,
       ThreadsTyped, ThreadTyped, Waits, vars, dock, site, play, monitor, maps,
       stepper, locals

(* Every variable keeps its type, a Step never makes more attempts than it *)
(* may, only Step and PlaySync are ever in the sweep monitor, and a        *)
(* selection under selectTimeMutex_ is never a live one.                   *)
THEOREM TimelineTypeCorrect == Spec => []TypeOK
<1>1. TypeOK /\ [Next]_vars => TypeOK'
  <2> SUFFICES ASSUME TypeOK, [Next]_vars PROVE TypeOK'
    OBVIOUS
  <2> USE ThreadNames
  <2>1. CASE Dock
    BY <2>1, TypeDock
  <2>2. ASSUME NEW t \in Threads, Selects(t) PROVE TypeOK'
    BY <2>2, TypeSelectTime, TypeMonitor DEF Selects
  <2>3. CASE GuiThread
    BY <2>2, <2>3, TypeEvents DEF GuiThread
  <2>4. CASE SelectThread
    BY <2>2, <2>4, TypeSelectJob DEF SelectThread
  <2>5. CASE PlayThread
    BY <2>2, <2>5, TypePlayJob DEF PlayThread
  <2>6. CASE \E m \in Maps : ComputeSweep(m) \/ Paint(m)
    BY <2>6, TypeEvents
  <2>7. CASE Tick
    BY <2>7, TypeEvents
  <2>8. CASE UNCHANGED vars
    BY <2>8, TypeStutter
  <2> QED BY <2>1, <2>3, <2>4, <2>5, <2>6, <2>7, <2>8 DEF Next
<1> QED BY <1>1, TypeInit, PTL DEF Spec

-----------------------------------------------------------------------------
(* The mutexes.                                                            *)

(* SelectTime takes and releases its mutex in one thread. *)
LEMMA MutexSelectTime ==
  ASSUME TypeOK, MutexesHeld, NEW t \in Threads, SelectTime(t)
  PROVE  MutexesHeld'
<1> USE TimelineAssumption, ThreadNames DEF TypeOK, ThreadsTyped, ThreadTyped,
        Steps, MutexesHeld, HoldsSelect, HoldsMonitor, Waits, Goto, Return,
        EnterSelect, rest, locals, stepper, monitor
<1>1. CASE SelectUnchanged(t)
  BY <1>1 DEF context, SelectUnchanged
<1>2. CASE ResetToLive(t)
  BY <1>2 DEF ResetToLive
<1>3. CASE BeginSelect(t)
  BY <1>3 DEF context, BeginSelect
<1>4. CASE LockSelect(t)
  BY <1>4 DEF LockSelect
<1>5. CASE TellLiveState(t)
  BY <1>5 DEF TellLiveState
<1>6. CASE LiveStateTold(t)
  BY <1>6 DEF context, LiveStateTold
<1>7. CASE AssignSelected(t)
  BY <1>7 DEF AssignSelected
<1>8. CASE TellSelected(t)
  BY <1>8 DEF TellSelected
<1>9. CASE SelectDone(t)
  BY <1>9 DEF SelectDone
<1> QED BY <1>1, <1>2, <1>3, <1>4, <1>5, <1>6, <1>7, <1>8, <1>9 DEF SelectTime

(* A Step waits for the maps without a mutex. *)
LEMMA MutexSelectJob ==
  ASSUME TypeOK, MutexesHeld, TakeSelectJob \/ StepBegin \/ StepAttempt \/ StepWoken
  PROVE  MutexesHeld'
<1> USE TimelineAssumption, ThreadNames DEF TypeOK, ThreadsTyped, ThreadTyped,
        Steps, MutexesHeld, HoldsSelect, HoldsMonitor, Waits, Goto, Woken,
        ResetAndSelect, locals, stepper, monitor
<1>1. CASE TakeSelectJob
  <2>1. CASE Head(selectQueue) \in StepJobs
    BY <1>1, <2>1 DEF context, TakeSelectJob
  <2>2. CASE Head(selectQueue) \notin StepJobs
    BY <1>1, <2>2 DEF context, TakeSelectJob
  <2> QED BY <2>1, <2>2
<1>2. CASE StepBegin
  BY <1>2 DEF context, StepBegin
<1>3. CASE StepAttempt
  BY <1>3 DEF context, StepAttempt
<1>4. CASE StepWoken
  BY <1>4 DEF context, StepWoken
<1> QED BY <1>1, <1>2, <1>3, <1>4

(* So does PlaySync, and the timer handler holds none. *)
LEMMA MutexPlayJob ==
  ASSUME TypeOK, MutexesHeld,
         \/ TakePlayJob \/ PlayBegin \/ PlaySelect \/ PlayWoken
         \/ TimerExpires \/ TimerHandler \/ PlayAgain
  PROVE  MutexesHeld'
<1> USE TimelineAssumption, ThreadNames DEF TypeOK, ThreadsTyped, ThreadTyped,
        Steps, MutexesHeld, HoldsSelect, HoldsMonitor, Waits, Goto, Woken,
        ResetAndSelect, locals, stepper, monitor
<1>1. CASE TakePlayJob
  BY <1>1 DEF context, TakePlayJob
<1>2. CASE PlayBegin
  BY <1>2 DEF context, PlayBegin
<1>3. CASE PlaySelect
  BY <1>3 DEF context, PlaySelect
<1>4. CASE PlayWoken
  BY <1>4 DEF context, PlayWoken
<1>5. CASE TimerExpires
  BY <1>5 DEF context, TimerExpires
<1>6. CASE TimerHandler
  BY <1>6 DEF context, TimerHandler, rest
<1>7. CASE PlayAgain
  BY <1>7 DEF context, PlayAgain
<1> QED BY <1>1, <1>2, <1>3, <1>4, <1>5, <1>6, <1>7

(* What the other actions leave as it was. *)
LEMMA MutexOthers ==
  ASSUME TypeOK, MutexesHeld,
         \/ Dock \/ HandleEvent \/ Tick
         \/ \E m \in Maps : ComputeSweep(m) \/ Paint(m)
         \/ \E t \in Threads : LockMonitor(t) \/ WaitEnds(t)
         \/ UNCHANGED vars
  PROVE  MutexesHeld'
<1> USE TimelineAssumption, ThreadNames
    DEF TypeOK, ThreadsTyped, ThreadTyped, Steps, MutexesHeld, HoldsSelect,
        HoldsMonitor, Waits, Goto, locals, stepper, monitor
<1>1. CASE Dock
  <2>1. Called /\ (SelectLive \/ UNCHANGED <<pc, time>>)
    BY <1>1 DEF Dock, SetRadarSite, SetDateTime, SetViewType, SetLoopTime,
        AnimationStepBegin, AnimationStep, AnimationPlayPause,
        AnimationStepEnd, SelectTimeAsync, StepAsync, Post
  <2> QED BY <2>1 DEF Called, SelectLive
<1>2. CASE HandleEvent
  <2>1. Goto(Gui, "idle") \/ Notify
    BY <1>2 DEF context, HandleEvent, Completed, Events
  <2> QED BY <1>2, <2>1 DEF context, HandleEvent, Notify
<1>3. CASE Tick
  BY <1>3 DEF Tick
<1>4. CASE \E m \in Maps : ComputeSweep(m) \/ Paint(m)
  BY <1>4 DEF context, ComputeSweep, Paint, Receive
<1>5. CASE \E t \in Threads : LockMonitor(t)
  BY <1>5 DEF context, LockMonitor
<1>6. CASE \E t \in Threads : WaitEnds(t)
  BY <1>6 DEF context, WaitEnds, rest
<1>7. CASE UNCHANGED vars
  BY <1>7 DEF vars
<1> QED BY <1>1, <1>2, <1>3, <1>4, <1>5, <1>6, <1>7

(* Every thread returns both mutexes, and waits for the maps without the   *)
(* one their signals need.                                                 *)
THEOREM MutexesStayHeld == Spec => []MutexesHeld
<1>1. Init => MutexesHeld
  BY TimelineAssumption, ThreadNames DEF Init, MutexesHeld, HoldsSelect,
      HoldsMonitor
<1>2. TypeOK /\ MutexesHeld /\ [Next]_vars => MutexesHeld'
  <2> SUFFICES ASSUME TypeOK, MutexesHeld, [Next]_vars PROVE MutexesHeld'
    OBVIOUS
  <2> USE ThreadNames
  <2>1. ASSUME NEW t \in Threads, Selects(t) PROVE MutexesHeld'
    BY <2>1, MutexSelectTime, MutexOthers DEF Selects
  <2>2. CASE GuiThread
    BY <2>1, <2>2, MutexOthers DEF GuiThread
  <2>3. CASE SelectThread
    BY <2>1, <2>3, MutexSelectJob DEF SelectThread
  <2>4. CASE PlayThread
    BY <2>1, <2>4, MutexPlayJob DEF PlayThread
  <2>5. CASE \/ Dock \/ Tick \/ UNCHANGED vars
             \/ \E m \in Maps : ComputeSweep(m) \/ Paint(m)
    BY <2>5, MutexOthers
  <2> QED BY <2>2, <2>3, <2>4, <2>5 DEF Next
<1> QED BY <1>1, <1>2, TimelineTypeCorrect, PTL DEF Spec

-----------------------------------------------------------------------------
(* The maps follow the timeline.                                           *)

(* What a thread has announced so far. *)
Announced(t) ==
  LET isLive == time[t] = Live
  IN  /\ pc[t] = "live" =>
           /\ \A m \in Maps : m <= told[t] => autoUpdate[m] = isLive
           /\ isLive => selectedTime = Live
      /\ pc[t] = "assign" =>
           /\ told[t] = 0
           /\ \A m \in Maps : autoUpdate[m] = isLive
      /\ pc[t] = "tell" =>
           /\ selectedTime = time[t]
           /\ \A m \in Maps : autoUpdate[m] = isLive
           /\ \A m \in Maps : m <= told[t] => mapTime[m] = time[t]

(* If the last selection met no other one, one thread at a time announces, *)
(* and the maps agree with what it announced; the inductive strengthening  *)
(* of MapsFollowTimeline.                                                  *)
OneAtATime ==
  /\ \A t, u \in Threads : Announcing(t) /\ Announcing(u) => t = u
  /\ \A t \in Threads : Announced(t)
  /\ (\A t \in Threads : ~Announcing(t)) => Agree

FollowInv == ~overlapped => OneAtATime

(* A step that announces nothing. *)
Silent ==
  /\ UNCHANGED <<selectedTime, mapTime, autoUpdate, overlapped>>
  /\ \A t \in Threads :
       /\ Announcing(t)' <=> Announcing(t)
       /\ Announcing(t) => /\ pc'[t] = pc[t]
                          /\ time'[t] = time[t]
                          /\ told'[t] = told[t]

(* A step that announces nothing keeps FollowInv. *)
LEMMA FollowSilent == ASSUME FollowInv, Silent PROVE FollowInv'
<1> SUFFICES ASSUME ~overlapped' PROVE OneAtATime'
  BY DEF FollowInv
<1>1. OneAtATime /\ Silent
  BY DEF FollowInv, Silent
<1>2. (\A t, u \in Threads : Announcing(t) /\ Announcing(u) => t = u)'
  BY <1>1 DEF OneAtATime, Silent
<1>3. ASSUME NEW t \in Threads PROVE Announced(t)'
  <2>1. CASE Announcing(t)
    BY <1>1, <2>1 DEF OneAtATime, Silent, Announced
  <2>2. CASE ~Announcing(t)
    BY <1>1, <2>2 DEF Silent, Announced, Announcing
  <2> QED BY <2>1, <2>2
<1>4. (\A t \in Threads : ~Announcing(t))' => Agree'
  BY <1>1 DEF OneAtATime, Silent, Agree
<1> QED BY <1>2, <1>3, <1>4 DEF OneAtATime

(* A thread that announces, alone, and what the others see of it. *)
LEMMA FollowAlone ==
  ASSUME TypeOK, FollowInv, NEW t \in Threads, ~overlapped',
         \A u \in Threads \ {t} : ~Announcing(u) /\ pc'[u] = pc[u],
         Announcing(t)', Announced(t)'
  PROVE  OneAtATime'
<1>1. \A u \in Threads \ {t} : ~Announcing(u)'
  BY DEF Announcing
<1>2. \A u \in Threads \ {t} : Announced(u)'
  BY <1>1 DEF Announced, Announcing
<1> QED BY <1>1, <1>2 DEF OneAtATime

(* The beginning of an announcement. *)
LEMMA FollowBegin ==
  ASSUME TypeOK, FollowInv, NEW t \in Threads, ResetToLive(t) \/ LockSelect(t)
  PROVE  FollowInv'
<1> USE TimelineAssumption
<1> SUFFICES ASSUME ~overlapped' PROVE OneAtATime'
  BY DEF FollowInv
<1>1. \A u \in Threads \ {t} : ~Announcing(u) /\ pc'[u] = pc[u]
  BY DEF ResetToLive, LockSelect, Overlap, Goto, TypeOK, ThreadsTyped
<1>2. pc'[t] = "live" /\ told'[t] = 0 /\ time'[t] = time[t]
  BY DEF ResetToLive, LockSelect, Goto, TypeOK, ThreadsTyped
<1>3. \A m \in Maps : ~(m <= 0)
  BY DEF Maps
<1>4. time[t] = Live => selectedTime' = Live
  BY DEF ResetToLive, LockSelect, TypeOK, ThreadsTyped, ThreadTyped
<1>5. Announced(t)' /\ Announcing(t)'
  BY <1>2, <1>3, <1>4 DEF Announced, Announcing
<1> QED BY <1>1, <1>5, FollowAlone

(* What the thread that announces knows of the others. *)
LEMMA FollowOthers ==
  ASSUME FollowInv, NEW t \in Threads, Announcing(t), ~overlapped
  PROVE  OneAtATime /\ \A u \in Threads \ {t} : ~Announcing(u)
BY DEF FollowInv, OneAtATime

(* The next map is told whether the view is live. *)
LEMMA FollowTellLive ==
  ASSUME TypeOK, FollowInv, NEW t \in Threads, TellLiveState(t)
  PROVE  FollowInv'
<1> USE TimelineAssumption
<1> SUFFICES ASSUME ~overlapped' PROVE OneAtATime'
  BY DEF FollowInv
<1>1. /\ pc[t] = "live" /\ Announcing(t) /\ ~overlapped
      /\ UNCHANGED <<pc, time, selectedTime, mapTime>>
  BY DEF TellLiveState, Announcing
<1>2. OneAtATime /\ \A u \in Threads \ {t} : ~Announcing(u)
  BY <1>1, FollowOthers
<1>3. told[t] \in 0 .. MapCount /\ told'[t] = told[t] + 1
  BY DEF TellLiveState, TypeOK, ThreadsTyped
<1>4. ASSUME NEW m \in Maps, m <= told'[t] PROVE autoUpdate'[m] = (time[t] = Live)
  <2>1. autoUpdate' = [autoUpdate EXCEPT ![told[t] + 1] = (time[t] = Live)]
    BY DEF TellLiveState, IsLive
  <2>2. DOMAIN autoUpdate = Maps
    BY DEF TypeOK, MapsTyped
  <2>3. CASE m = told[t] + 1
    BY <2>1, <2>2, <2>3, Zenon
  <2>4. CASE m # told[t] + 1
    <3>1. m <= told[t]
      BY <1>3, <1>4, <2>4 DEF Maps
    <3>2. autoUpdate[m] = (time[t] = Live)
      BY <1>1, <1>2, <3>1 DEF OneAtATime, Announced
    <3> QED BY <2>1, <2>2, <2>4, <3>2, Zenon
  <2> QED BY <2>3, <2>4
<1>5. time[t] = Live => selectedTime = Live
  BY <1>1, <1>2 DEF OneAtATime, Announced
<1>6. Announced(t)' /\ Announcing(t)'
  BY <1>1, <1>4, <1>5 DEF Announced, Announcing
<1>7. \A u \in Threads \ {t} : ~Announcing(u) /\ pc'[u] = pc[u]
  BY <1>1, <1>2
<1> QED BY <1>6, <1>7, FollowAlone

(* All maps have been told; the thread goes on to assign the time. *)
LEMMA FollowLiveStateTold ==
  ASSUME TypeOK, FollowInv, NEW t \in Threads, LiveStateTold(t)
  PROVE  FollowInv'
<1> USE TimelineAssumption
<1> SUFFICES ASSUME ~overlapped' PROVE OneAtATime'
  BY DEF FollowInv
<1>1. /\ pc[t] = "live" /\ Announcing(t) /\ ~overlapped /\ told[t] = MapCount
      /\ UNCHANGED <<time, selectedTime, mapTime, autoUpdate>>
  BY DEF context, LiveStateTold, Announcing, maps
<1>2. OneAtATime /\ \A u \in Threads \ {t} : ~Announcing(u)
  BY <1>1, FollowOthers
<1>3. /\ told'[t] = 0
      /\ pc'[t] = IF time[t] = Live THEN "tell" ELSE "assign"
      /\ \A u \in Threads \ {t} : pc'[u] = pc[u]
  BY DEF context, LiveStateTold, Goto, TypeOK, ThreadsTyped
<1>4. \A m \in Maps : m <= told[t] /\ ~(m <= 0)
  BY <1>1 DEF Maps
<1>5. /\ \A m \in Maps : autoUpdate[m] = (time[t] = Live)
      /\ time[t] = Live => selectedTime = Live
  BY <1>1, <1>2, <1>4 DEF OneAtATime, Announced
<1>6. Announced(t)' /\ Announcing(t)'
  BY <1>1, <1>3, <1>4, <1>5 DEF Announced, Announcing
<1> QED BY <1>2, <1>3, <1>6, FollowAlone

(* The time is assigned, and no map knows it yet. *)
LEMMA FollowAssign ==
  ASSUME TypeOK, FollowInv, NEW t \in Threads, AssignSelected(t)
  PROVE  FollowInv'
<1> USE TimelineAssumption
<1> SUFFICES ASSUME ~overlapped' PROVE OneAtATime'
  BY DEF FollowInv
<1>1. /\ pc[t] = "assign" /\ Announcing(t) /\ ~overlapped
      /\ selectedTime' = time[t]
      /\ UNCHANGED <<time, told, mapTime, autoUpdate>>
  BY DEF AssignSelected, Announcing, maps, locals
<1>2. OneAtATime /\ \A u \in Threads \ {t} : ~Announcing(u)
  BY <1>1, FollowOthers
<1>3. pc'[t] = "tell" /\ \A u \in Threads \ {t} : pc'[u] = pc[u]
  BY DEF AssignSelected, Goto, TypeOK, ThreadsTyped
<1>4. /\ told[t] = 0
      /\ \A m \in Maps : autoUpdate[m] = (time[t] = Live)
  BY <1>1, <1>2 DEF OneAtATime, Announced
<1>5. \A m \in Maps : ~(m <= 0)
  BY DEF Maps
<1>6. Announced(t)' /\ Announcing(t)'
  BY <1>1, <1>3, <1>4, <1>5 DEF Announced, Announcing
<1> QED BY <1>2, <1>3, <1>6, FollowAlone

(* The next map is told the selected time. *)
LEMMA FollowTellSelected ==
  ASSUME TypeOK, FollowInv, NEW t \in Threads, TellSelected(t)
  PROVE  FollowInv'
<1> USE TimelineAssumption
<1> SUFFICES ASSUME ~overlapped' PROVE OneAtATime'
  BY DEF FollowInv
<1>1. /\ pc[t] = "tell" /\ Announcing(t) /\ ~overlapped
      /\ UNCHANGED <<pc, time, selectedTime, autoUpdate>>
  BY DEF TellSelected, Announcing
<1>2. OneAtATime /\ \A u \in Threads \ {t} : ~Announcing(u)
  BY <1>1, FollowOthers
<1>3. told[t] \in 0 .. MapCount /\ told'[t] = told[t] + 1
  BY DEF TellSelected, TypeOK, ThreadsTyped
<1>4. /\ selectedTime = time[t]
      /\ \A m \in Maps : autoUpdate[m] = (time[t] = Live)
      /\ \A m \in Maps : m <= told[t] => mapTime[m] = time[t]
  BY <1>1, <1>2 DEF OneAtATime, Announced
<1>5. \A m \in Maps : m <= told'[t] => mapTime'[m] = time[t]
  BY <1>3, <1>4 DEF TellSelected, TypeOK, MapsTyped, Maps
<1>6. Announced(t)' /\ Announcing(t)'
  BY <1>1, <1>4, <1>5 DEF Announced, Announcing
<1>7. \A u \in Threads \ {t} : ~Announcing(u) /\ pc'[u] = pc[u]
  BY <1>1, <1>2
<1> QED BY <1>6, <1>7, FollowAlone

(* All maps have been told the time: they agree with the timeline. *)
LEMMA FollowDone ==
  ASSUME TypeOK, FollowInv, NEW t \in Threads, SelectDone(t)
  PROVE  FollowInv'
<1> USE TimelineAssumption
<1> SUFFICES ASSUME ~overlapped' PROVE OneAtATime'
  BY DEF FollowInv
<1>1. /\ pc[t] = "tell" /\ Announcing(t) /\ ~overlapped /\ told[t] = MapCount
      /\ UNCHANGED <<selectedTime, mapTime, autoUpdate>>
  BY DEF SelectDone, Announcing, maps
<1>2. OneAtATime /\ \A u \in Threads \ {t} : ~Announcing(u)
  BY <1>1, FollowOthers
<1>3. pc'[t] \in {"wait", "idle"} /\ \A u \in Threads \ {t} : pc'[u] = pc[u]
  BY DEF SelectDone, Return, Goto, TypeOK, ThreadsTyped
<1>4. \A u \in Threads : ~Announcing(u)'
  BY <1>2, <1>3 DEF Announcing
<1>5. \A u \in Threads : Announced(u)'
  BY <1>4 DEF Announced, Announcing
<1>6. \A m \in Maps : m <= told[t]
  BY <1>1 DEF Maps
<1>7. /\ selectedTime = time[t]
      /\ \A m \in Maps : autoUpdate[m] = (time[t] = Live) /\ mapTime[m] = time[t]
  BY <1>1, <1>2, <1>6 DEF OneAtATime, Announced
<1>8. Agree'
  BY <1>1, <1>7 DEF Agree
<1> QED BY <1>4, <1>5, <1>8 DEF OneAtATime

(* Every other step is silent. *)
LEMMA SilentSteps ==
  ASSUME TypeOK,
         \/ Dock \/ HandleEvent \/ Tick \/ UNCHANGED vars
         \/ \E m \in Maps : ComputeSweep(m) \/ Paint(m)
         \/ \E t \in Threads : \/ LockMonitor(t) \/ WaitEnds(t)
                               \/ SelectUnchanged(t) \/ BeginSelect(t)
         \/ TakeSelectJob \/ StepBegin \/ StepAttempt \/ StepWoken
         \/ TakePlayJob \/ PlayBegin \/ PlaySelect \/ PlayWoken
         \/ TimerExpires \/ TimerHandler \/ PlayAgain
  PROVE  Silent
<1> USE ThreadNames
    DEF TypeOK, ThreadsTyped, Steps, Silent, Announcing, Goto, maps, locals
<1>1. CASE Dock
  <2>1. Called /\ (SelectLive \/ UNCHANGED <<pc, time>>)
    BY <1>1 DEF Dock, SetRadarSite, SetDateTime, SetViewType, SetLoopTime,
        AnimationStepBegin, AnimationStep, AnimationPlayPause,
        AnimationStepEnd, SelectTimeAsync, StepAsync, Post
  <2> QED BY <2>1 DEF Called, SelectLive
<1>2. CASE HandleEvent
  <2>1. Goto(Gui, "idle") \/ Notify
    BY <1>2, TimelineAssumption DEF context, HandleEvent, Completed, Events,
        ThreadTyped
  <2> QED BY <1>2, <2>1 DEF context, HandleEvent, Notify
<1>3. CASE Tick \/ UNCHANGED vars
  BY <1>3 DEF Tick, vars
<1>4. CASE \E m \in Maps : ComputeSweep(m) \/ Paint(m)
  BY <1>4 DEF context, ComputeSweep, Paint, Receive
<1>5. CASE \E t \in Threads : \/ LockMonitor(t) \/ WaitEnds(t)
                             \/ SelectUnchanged(t) \/ BeginSelect(t)
  BY <1>5 DEF context, LockMonitor, WaitEnds, SelectUnchanged, BeginSelect,
      EnterSelect, Return, rest
<1>6. CASE TakeSelectJob
  BY <1>6 DEF context, TakeSelectJob
<1>7. CASE StepBegin
  BY <1>7 DEF context, StepBegin
<1>8. CASE StepAttempt
  BY <1>8 DEF context, StepAttempt, ResetAndSelect
<1>9. CASE StepWoken
  BY <1>9 DEF context, StepWoken, Woken
<1>10. CASE TakePlayJob \/ TimerExpires \/ TimerHandler \/ PlayAgain
  BY <1>10 DEF context, TakePlayJob, TimerExpires, TimerHandler, PlayAgain,
      rest
<1>11. CASE PlayBegin
  BY <1>11 DEF context, PlayBegin
<1>12. CASE PlaySelect
  BY <1>12 DEF context, PlaySelect, ResetAndSelect
<1>13. CASE PlayWoken
  BY <1>13 DEF context, PlayWoken, Woken
<1> QED BY <1>1, <1>2, <1>3, <1>4, <1>5, <1>6, <1>7, <1>8, <1>9, <1>10, <1>11,
           <1>12, <1>13

(* After a selection that met no other one, no interleaving of requests,   *)
(* steps and the animation leaves a map with another time than the         *)
(* timeline, or updating itself in an archived view.                       *)
THEOREM MapsKeepFollowing == Spec => []MapsFollowTimeline
<1>1. Init => FollowInv
  <2> SUFFICES ASSUME Init PROVE OneAtATime
    BY DEF FollowInv
  <2>1. \A t \in Threads : ~Announcing(t) /\ Announced(t)
    BY DEF Init, Announcing, Announced
  <2>2. Agree
    BY DEF Init, Agree
  <2> QED BY <2>1, <2>2 DEF OneAtATime
<1>2. TypeOK /\ FollowInv /\ [Next]_vars => FollowInv'
  <2> SUFFICES ASSUME TypeOK, FollowInv, [Next]_vars PROVE FollowInv'
    OBVIOUS
  <2> USE ThreadNames
  <2>1. ASSUME NEW t \in Threads, Selects(t) PROVE FollowInv'
    BY <2>1, FollowBegin, FollowTellLive, FollowLiveStateTold, FollowAssign,
       FollowTellSelected, FollowDone, SilentSteps, FollowSilent
       DEF Selects, SelectTime
  <2>2. CASE GuiThread
    BY <2>1, <2>2, SilentSteps, FollowSilent DEF GuiThread
  <2>3. CASE SelectThread
    BY <2>1, <2>3, SilentSteps, FollowSilent DEF SelectThread
  <2>4. CASE PlayThread
    BY <2>1, <2>4, SilentSteps, FollowSilent DEF PlayThread
  <2>5. CASE \/ Dock \/ Tick \/ UNCHANGED vars
             \/ \E m \in Maps : ComputeSweep(m) \/ Paint(m)
    BY <2>5, SilentSteps, FollowSilent
  <2> QED BY <2>2, <2>3, <2>4, <2>5 DEF Next
<1>3. FollowInv => MapsFollowTimeline
  BY DEF FollowInv, OneAtATime, MapsFollowTimeline
<1> QED BY <1>1, <1>2, <1>3, TimelineTypeCorrect, PTL DEF Spec
=============================================================================

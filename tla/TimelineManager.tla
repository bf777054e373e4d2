---------------------------- MODULE TimelineManager ----------------------------
(***************************************************************************)
(* The time shown by the maps: live, picked, stepped or played.            *)
(* scwx-qt/source/scwx/qt/manager/timeline_manager.cpp with the slots      *)
(* MainWindow connects to it and MapWidget::SelectTime and SetAutoUpdate.  *)
(*                                                                         *)
(* Three threads select times: the GUI thread, the only thread of          *)
(* selectThreadPool_ (requests and steps), and the only one of             *)
(* playThreadPool_ (the animation and its timer).  The signals of a        *)
(* selection are delivered by the thread that selects, map by map.         *)
(* Step and PlaySync then wait for the maps under the sweep monitor.       *)
(*                                                                         *)
(* Times are minutes.  adjustedTime_, the cache limit and the loop's speed *)
(* and delay are left out: they go elsewhere or only set how long a timer  *)
(* runs.                                                                   *)
(***************************************************************************)
EXTENDS Integers, Sequences, FiniteSets

CONSTANTS
  MapCount,      \* mapCount_
  Sites,         \* radar sites
  NoSite,        \* the radar site "?"
  Live,          \* the default time point
  DateTimes,     \* the times picked in the animation dock
  LoopTimes,     \* the values of loopTime_
  FirstMinute,   \* the time of day at the start ...
  LastMinute,    \* ... and the bound on it
  MaxAttempts,   \* the attempts of one Step (30 in the code)
  NoThread,      \* nobody holds a mutex
  NoEvent,       \* the GUI thread has no map event in hand
  MaxCalls       \* bound on the calls from the animation dock

Gui     == "gui"
Select  == "select"
Player  == "play"
Threads == {Gui, Select, Player}
Maps    == 1 .. MapCount

ASSUME TimelineAssumption ==
  /\ MapCount \in Nat
  /\ NoSite \notin Sites
  /\ Live \in Int
  /\ DateTimes \subseteq Int
  /\ LoopTimes \subseteq Nat
  /\ LoopTimes # {}
  /\ FirstMinute \in Int
  /\ LastMinute \in Int
  /\ FirstMinute <= LastMinute
  /\ MaxAttempts \in Nat \ {0}
  /\ NoThread \notin Threads
  /\ MaxCalls \in Nat

Directions == {"back", "next"}

(* A job of selectThreadPool_, and a signal of a map. *)
SelectJobs == [kind : {"select"}, time : Int]
StepJobs   == [kind : {"step"}, direction : Directions]
Events     == [kind : {"updated", "complete", "painted"}, map : Maps]

VARIABLES
  clock,           \* system_clock::now()
  viewType,        \* viewType_
  pinnedTime,      \* pinnedTime_
  selectedTime,    \* selectedTime_
  radarSite,       \* radarSite_
  previousSite,    \* previousRadarSite_
  loopTime,        \* loopTime_
  animation,       \* animationState_
  timer,           \* whether animationTimer_ is pending
  selectQueue,     \* the jobs posted to selectThreadPool_
  playQueue,       \* the handlers posted to playThreadPool_
  selectMutex,     \* the owner of selectTimeMutex_
  monitorMutex,    \* the owner of radarSweepMonitorMutex_
  active,          \* radarSweepMonitorActive_
  updated,         \* radarSweepsUpdated_
  complete,        \* radarSweepsComplete_
  mapTime,         \* the time selected in each map
  autoUpdate,      \* autoUpdateEnabled_ of each map
  sweeping,        \* the maps with a ComputeSweep under way
  pc,              \* where each thread is
  time,            \* the time each thread is selecting
  told,            \* how many maps its signal has reached
  step,            \* what the select thread works on
  attempts,        \* the attempts of its Step so far
  event,           \* the map event the GUI thread is handling
  calls,           \* calls from the dock so far, for the bound
  overlapped       \* whether the last selection begun met another one (ghost)

dock    == <<viewType, pinnedTime, loopTime, calls>>
site    == <<radarSite, previousSite>>
play    == <<animation, timer, playQueue>>
monitor == <<monitorMutex, active, updated, complete>>
maps    == <<mapTime, autoUpdate, sweeping>>
stepper == <<selectQueue, step, attempts>>
locals  == <<time, told>>
vars == <<clock, dock, selectedTime, site, play, selectMutex, monitor, maps,
          stepper, pc, locals, event, overlapped>>

(* What only the dock, the clock and the selections change. *)
context == <<clock, dock, selectedTime, site, selectMutex, mapTime, autoUpdate,
             overlapped>>

NoStep == [kind |-> "none"]

Init ==
  /\ clock = FirstMinute
  /\ viewType = "live"
  /\ pinnedTime = Live
  /\ selectedTime = Live
  /\ radarSite = NoSite /\ previousSite = NoSite
  /\ loopTime \in LoopTimes
  /\ animation = "pause" /\ timer = FALSE
  /\ selectQueue = <<>> /\ playQueue = <<>>
  /\ selectMutex = NoThread /\ monitorMutex = NoThread
  /\ active = FALSE /\ updated = {} /\ complete = {}
  /\ mapTime = [m \in Maps |-> Live]
  /\ autoUpdate = [m \in Maps |-> TRUE]
  /\ sweeping = {}
  /\ pc = [t \in Threads |-> "idle"]
  /\ time = [t \in Threads |-> Live]
  /\ told = [t \in Threads |-> 0]
  /\ step = NoStep /\ attempts = 0
  /\ event = NoEvent
  /\ calls = 0
  /\ overlapped = FALSE

Goto(t, label) == pc' = [pc EXCEPT ![t] = label]

-----------------------------------------------------------------------------
(* The slots called by the animation dock and the main window, on the GUI  *)
(* thread.                                                                 *)

Called ==
  /\ pc[Gui] = "idle"
  /\ calls < MaxCalls
  /\ calls' = calls + 1
  /\ UNCHANGED <<clock, selectedTime, previousSite, selectMutex, monitor, maps,
                 step, attempts, told, event, overlapped>>

(* SelectTime() runs in the caller. *)
SelectLive ==
  /\ Goto(Gui, "enter")
  /\ time' = [time EXCEPT ![Gui] = Live]
  /\ UNCHANGED selectQueue

Post(job) ==
  /\ selectQueue' = Append(selectQueue, job)
  /\ UNCHANGED <<pc, time>>

SelectTimeAsync(t) == Post([kind |-> "select", time |-> t])
StepAsync(d)       == Post([kind |-> "step", direction |-> d])

(* Impl::Pause, under animationTimerMutex_. *)
Pause == animation' = "pause" /\ timer' = FALSE /\ UNCHANGED playQueue

PlayOnChange ==
  /\ animation' = "play"
  /\ timer' = FALSE
  /\ playQueue' = IF animation = "pause" THEN Append(playQueue, "PlaySync")
                                         ELSE playQueue

(* Impl::Play. *)
Play ==
  /\ animation' = "play"
  /\ timer' = FALSE
  /\ playQueue' = Append(playQueue, "PlaySync")

LoopEnd   == IF viewType = "live" \/ pinnedTime = Live THEN clock ELSE pinnedTime
LoopStart == LoopEnd - loopTime

SetRadarSite(s) ==
  /\ Called
  /\ radarSite # s
  /\ radarSite' = s
  /\ IF viewType = "live" THEN SelectLive ELSE SelectTimeAsync(selectedTime)
  /\ UNCHANGED <<viewType, pinnedTime, loopTime, play>>

SetDateTime(t) ==
  /\ Called
  /\ pinnedTime' = t
  /\ IF viewType = "archive" THEN SelectTimeAsync(t)
                             ELSE UNCHANGED <<selectQueue, pc, time>>
  /\ UNCHANGED <<viewType, loopTime, radarSite, play>>

SetViewType(v) ==
  /\ Called
  /\ viewType' = v
  /\ IF v = "live" THEN SelectLive ELSE SelectTimeAsync(pinnedTime)
  /\ UNCHANGED <<pinnedTime, loopTime, radarSite, play>>

SetLoopTime(n) ==
  /\ Called
  /\ loopTime' = n
  /\ UNCHANGED <<viewType, pinnedTime, radarSite, play, selectQueue, pc, time>>

AnimationStepBegin ==
  /\ Called
  /\ Pause
  /\ SelectTimeAsync(LoopStart)
  /\ UNCHANGED <<viewType, pinnedTime, loopTime, radarSite>>

AnimationStep(d) ==
  /\ Called
  /\ Pause
  /\ StepAsync(d)
  /\ UNCHANGED <<viewType, pinnedTime, loopTime, radarSite>>

AnimationPlayPause ==
  /\ Called
  /\ IF animation = "pause" THEN Play ELSE Pause
  /\ UNCHANGED <<viewType, pinnedTime, loopTime, radarSite, selectQueue, pc, time>>

AnimationStepEnd ==
  /\ Called
  /\ Pause
  /\ IF viewType = "live" THEN SelectLive ELSE SelectTimeAsync(pinnedTime)
  /\ UNCHANGED <<viewType, pinnedTime, loopTime, radarSite>>

Dock ==
  \/ \E s \in Sites \union {NoSite} : SetRadarSite(s)
  \/ \E t \in DateTimes : SetDateTime(t)
  \/ \E v \in {"live", "archive"} : SetViewType(v)
  \/ \E n \in LoopTimes : SetLoopTime(n)
  \/ AnimationStepBegin
  \/ \E d \in Directions : AnimationStep(d)
  \/ AnimationPlayPause
  \/ AnimationStepEnd

-----------------------------------------------------------------------------
(* Impl::SelectTime, in thread t.                                          *)

rest == <<clock, dock, site, play, monitor, stepper, event>>

(* Step and PlaySync go on to wait for the maps; the others are done. *)
Waits(t) == t = Player \/ (t = Select /\ step \in StepJobs)

ReturnLocked(t) ==
  Goto(t, IF Waits(t) THEN "wait" ELSE "idle") /\ UNCHANGED monitorMutex

(* Return to Step or PlaySync, which releases the monitor while it waits. *)
Return(t) ==
  IF Waits(t) THEN Goto(t, "wait") /\ monitorMutex' = NoThread
              ELSE Goto(t, "idle") /\ UNCHANGED monitorMutex

(* The thread is about to tell the maps of its selection. *)
Announcing(t) == pc[t] \in {"live", "assign", "tell"}
Overlap(t) == overlapped' = \E u \in Threads \ {t} : Announcing(u)

(* "Nothing to do". *)
SelectUnchanged(t) ==
  /\ pc[t] = "enter"
  /\ selectedTime = time[t] /\ radarSite = previousSite
  /\ Return(t)
  /\ UNCHANGED <<context, play, stepper, locals, active, updated, complete,
                 sweeping, event>>

EnterSelect(t) ==
  /\ pc[t] = "enter"
  /\ ~(selectedTime = time[t] /\ radarSite = previousSite)

(* A live selection takes no mutex. *)
ResetToLive(t) ==
  /\ EnterSelect(t)
  /\ time[t] = Live
  /\ selectedTime' = Live
  /\ previousSite' = radarSite
  /\ told' = [told EXCEPT ![t] = 0]
  /\ Goto(t, "live")
  /\ Overlap(t)
  /\ UNCHANGED <<clock, dock, radarSite, play, selectMutex, monitor, maps,
                 stepper, time, event>>

(* Any other one takes selectTimeMutex_ and looks up the volume times. *)
BeginSelect(t) ==
  /\ EnterSelect(t)
  /\ time[t] # Live
  /\ Goto(t, "lock")
  /\ UNCHANGED <<context, play, monitor, stepper, locals, sweeping, event>>

LockSelect(t) ==
  /\ pc[t] = "lock"
  /\ selectMutex = NoThread
  /\ selectMutex' = t
  /\ told' = [told EXCEPT ![t] = 0]
  /\ Goto(t, "live")
  /\ Overlap(t)
  /\ UNCHANGED <<rest, selectedTime, maps, time>>

LiveView(t) == viewType = "live"
IsLive(t)   == time[t] = Live

(* LiveStateUpdated: MapWidget::SetAutoUpdate of one map after the other. *)
TellLiveState(t) ==
  /\ pc[t] = "live"
  /\ told[t] < MapCount
  /\ told' = [told EXCEPT ![t] = told[t] + 1]
  /\ autoUpdate' = [autoUpdate EXCEPT ![told[t] + 1] = IsLive(t)]
  /\ UNCHANGED <<rest, selectedTime, selectMutex, mapTime, sweeping, pc,
                 time, overlapped>>

LiveStateTold(t) ==
  /\ pc[t] = "live"
  /\ told[t] = MapCount
  /\ told' = [told EXCEPT ![t] = 0]
  /\ Goto(t, IF time[t] = Live THEN "tell" ELSE "assign")
  /\ UNCHANGED <<context, play, monitor, stepper, sweeping, time, event>>

AssignSelected(t) ==
  /\ pc[t] = "assign"
  /\ selectedTime' = time[t]
  /\ Goto(t, "tell")
  /\ UNCHANGED <<rest, selectMutex, maps, locals, overlapped>>

(* SelectedTimeUpdated: MapWidget::SelectTime of one map after the other,  *)
(* which has the view of the map compute its sweep.                        *)
TellSelected(t) ==
  /\ pc[t] = "tell"
  /\ told[t] < MapCount
  /\ told' = [told EXCEPT ![t] = told[t] + 1]
  /\ mapTime' = [mapTime EXCEPT ![told[t] + 1] = time[t]]
  /\ sweeping' = sweeping \union {told[t] + 1}
  /\ UNCHANGED <<rest, selectedTime, selectMutex, autoUpdate, pc, time,
                 overlapped>>

SelectDone(t) ==
  /\ pc[t] = "tell"
  /\ told[t] = MapCount
  /\ IF selectMutex = t
       THEN selectMutex' = NoThread /\ previousSite' = radarSite
       ELSE UNCHANGED <<selectMutex, previousSite>>
  /\ Return(t)
  /\ UNCHANGED <<clock, dock, selectedTime, radarSite, play, active, updated,
                 complete, maps, stepper, locals, event, overlapped>>

SelectTime(t) ==
  \/ SelectUnchanged(t) \/ ResetToLive(t) \/ BeginSelect(t) \/ LockSelect(t)
  \/ TellLiveState(t) \/ LiveStateTold(t) \/ AssignSelected(t)
  \/ TellSelected(t) \/ SelectDone(t)

-----------------------------------------------------------------------------
(* The sweep monitor.                                                      *)

LockMonitor(t) ==
  /\ pc[t] = "monitor"
  /\ monitorMutex = NoThread
  /\ monitorMutex' = t
  /\ Goto(t, "next")
  /\ UNCHANGED <<context, play, stepper, locals, active, updated, complete,
                 sweeping, event>>

RadarSweepMonitorReset ==
  /\ updated' = {}
  /\ complete' = {}
  /\ active' = TRUE

(* Reset the monitor and select time n, with the monitor's mutex held. *)
ResetAndSelect(t, n) ==
  /\ RadarSweepMonitorReset
  /\ time' = [time EXCEPT ![t] = n]
  /\ Goto(t, "enter")
  /\ UNCHANGED monitorMutex

(* The wait times out, or ends for no reason. *)
WaitEnds(t) ==
  /\ pc[t] = "wait"
  /\ Goto(t, "woken")
  /\ UNCHANGED <<context, play, monitor, stepper, locals, sweeping, event>>

(* The mutex is locked again before RadarSweepMonitorWait returns. *)
Woken(t) ==
  /\ pc[t] = "woken"
  /\ monitorMutex = NoThread
  /\ active' = FALSE

-----------------------------------------------------------------------------
(* selectThreadPool_: requests to select a time, and Impl::Step.           *)

TakeSelectJob ==
  /\ pc[Select] = "idle"
  /\ selectQueue # <<>>
  /\ selectQueue' = Tail(selectQueue)
  /\ step' = Head(selectQueue)
  /\ attempts' = 0
  /\ IF Head(selectQueue) \in StepJobs
       THEN Goto(Select, "begin") /\ UNCHANGED time
       ELSE /\ Goto(Select, "enter")
            /\ time' = [time EXCEPT ![Select] = Head(selectQueue).time]
  /\ UNCHANGED <<context, play, monitor, sweeping, told, event>>

(* Under selectTimeMutex_; a step forward from the live view is no step. *)
StepBegin ==
  /\ pc[Select] = "begin"
  /\ selectMutex = NoThread
  /\ IF selectedTime = Live /\ step.direction = "next"
       THEN Goto(Select, "idle") /\ UNCHANGED time
       ELSE /\ Goto(Select, "monitor")
            /\ time' = [time EXCEPT ![Select] =
                          IF selectedTime = Live THEN clock ELSE selectedTime]
  /\ UNCHANGED <<context, play, monitor, stepper, sweeping, told, event>>

Stepped(d, t) == IF d = "back" THEN t - 1 ELSE t + 1

(* One attempt: the next minute, unless it is too far in the future. *)
StepAttempt ==
  /\ pc[Select] = "next"
  /\ LET n == Stepped(step.direction, time[Select])
     IN  IF step.direction = "next" /\ n > clock + 2
           THEN /\ Goto(Select, "idle")
                /\ monitorMutex' = NoThread
                /\ UNCHANGED <<active, updated, complete, time, attempts>>
           ELSE /\ ResetAndSelect(Select, n)
                /\ attempts' = attempts + 1
  /\ UNCHANGED <<context, play, sweeping, selectQueue, step, told, event>>

OneMoreAttempt == attempts > MaxAttempts
LastAttempt    == attempts = MaxAttempts

(* It goes on until a map was updated. *)
StepWoken ==
  /\ Woken(Select)
  /\ IF updated # {} \/ LastAttempt
       THEN Goto(Select, "idle") /\ UNCHANGED monitorMutex
       ELSE Goto(Select, "next") /\ monitorMutex' = Select
  /\ UNCHANGED <<context, play, stepper, locals, updated, complete, sweeping,
                 event>>

-----------------------------------------------------------------------------
(* playThreadPool_: Impl::PlaySync and the handler of animationTimer_.     *)

TakePlayJob ==
  /\ pc[Player] = "idle"
  /\ playQueue # <<>>
  /\ playQueue' = Tail(playQueue)
  /\ Goto(Player, IF Head(playQueue) = "PlaySync" THEN "begin" ELSE "fired")
  /\ UNCHANGED <<context, monitor, stepper, locals, animation, timer,
                 sweeping, event>>

(* The next minute of the loop, or its start. *)
NextInLoop ==
  IF selectedTime < LoopStart \/ selectedTime >= LoopEnd
    THEN LoopStart ELSE selectedTime + 1

PlayBegin ==
  /\ pc[Player] = "begin"
  /\ selectMutex = NoThread
  /\ time' = [time EXCEPT ![Player] = NextInLoop]
  /\ Goto(Player, "monitor")
  /\ UNCHANGED <<context, play, monitor, stepper, sweeping, told, event>>

PlaySelect ==
  /\ pc[Player] = "next"
  /\ ResetAndSelect(Player, time[Player])
  /\ UNCHANGED <<context, play, stepper, sweeping, told, event>>

(* expires_after cancels a wait that is pending. *)
PlayWoken ==
  /\ Woken(Player)
  /\ timer' = TRUE
  /\ Goto(Player, "idle")
  /\ UNCHANGED <<context, stepper, locals, animation, playQueue,
                 monitorMutex, updated, complete, sweeping, event>>

(* The pool's thread finds the timer expired and queues its handler. *)
TimerExpires ==
  /\ timer
  /\ pc[Player] = "idle"
  /\ timer' = FALSE
  /\ playQueue' = Append(playQueue, "expired")
  /\ UNCHANGED <<context, monitor, stepper, locals, animation, sweeping, pc,
                 event>>

HandlerReplays ==
  /\ pc[Player] = "fired"
  /\ Goto(Player, "idle")
  /\ playQueue' = Append(playQueue, "PlaySync")
  /\ UNCHANGED <<context, monitor, stepper, locals, animation, timer, sweeping,
                 event>>

(* The handler looks at animationState_ ... *)
TimerHandler ==
  /\ pc[Player] = "fired"
  /\ Goto(Player, IF animation = "play" THEN "play" ELSE "idle")
  /\ UNCHANGED <<context, play, monitor, stepper, locals, sweeping, event>>

(* ... and then calls Play. *)
PlayAgain ==
  /\ pc[Player] = "play"
  /\ Play
  /\ Goto(Player, "idle")
  /\ UNCHANGED <<context, monitor, stepper, locals, sweeping, event>>

-----------------------------------------------------------------------------
(* The signals of the maps, queued to the GUI thread.                      *)

(* A slot looks at radarSweepMonitorActive_ before it takes the mutex. *)
Receive(kind, m) ==
  /\ pc[Gui] = "idle"
  /\ IF active
       THEN Goto(Gui, "receive") /\ event' = [kind |-> kind, map |-> m]
       ELSE UNCHANGED <<pc, event>>
  /\ UNCHANGED <<context, play, monitor, stepper, locals>>

(* A sweep ends with data, without, or with nothing loaded; another one of *)
(* the same map may follow.                                                *)
ComputeSweep(m) ==
  /\ m \in sweeping
  /\ sweeping' \in {sweeping, sweeping \ {m}}
  /\ \/ \E kind \in {"updated", "complete"} : Receive(kind, m)
     \/ UNCHANGED <<context, play, monitor, stepper, locals, pc, event>>

(* A map is painted whenever its window system likes. *)
Paint(m) == Receive("painted", m) /\ UNCHANGED sweeping

(* All maps are done: notify_all. *)
Notify ==
  /\ active' = FALSE
  /\ pc' = [t \in Threads |-> IF t = Gui THEN "idle"
                              ELSE IF pc[t] = "wait" THEN "woken" ELSE pc[t]]

Completed(m) ==
  /\ complete' = complete \union {m}
  /\ IF complete' = Maps THEN Notify ELSE UNCHANGED active /\ Goto(Gui, "idle")
  /\ UNCHANGED updated

(* ReceiveRadarSweepUpdated, ReceiveRadarSweepNotUpdated and               *)
(* ReceiveMapWidgetPainted, with the mutex.                                *)
HandleEvent ==
  /\ pc[Gui] = "receive"
  /\ monitorMutex = NoThread
  /\ event' = NoEvent
  /\ CASE event.kind = "updated" ->
            /\ updated' = updated \union {event.map}
            /\ UNCHANGED <<complete, active>>
            /\ Goto(Gui, "idle")
       [] event.kind = "complete" -> Completed(event.map)
       [] event.kind = "painted" ->
            IF event.map \in updated \ complete
              THEN Completed(event.map)
              ELSE UNCHANGED <<updated, complete, active>> /\ Goto(Gui, "idle")
  /\ UNCHANGED <<context, play, stepper, locals, monitorMutex, sweeping>>

Tick ==
  /\ clock < LastMinute
  /\ clock' = clock + 1
  /\ UNCHANGED <<dock, selectedTime, site, play, selectMutex, monitor, maps,
                 stepper, pc, locals, event, overlapped>>

-----------------------------------------------------------------------------
(* What each thread does of its own accord. *)
Selects(t) == SelectTime(t) \/ LockMonitor(t) \/ WaitEnds(t)

SelectThread ==
  \/ TakeSelectJob \/ StepBegin \/ StepAttempt \/ StepWoken
  \/ Selects(Select)

PlayThread ==
  \/ TakePlayJob \/ PlayBegin \/ PlaySelect \/ PlayWoken
  \/ TimerExpires \/ TimerHandler \/ PlayAgain
  \/ Selects(Player)

GuiThread == Selects(Gui) \/ HandleEvent

Next ==
  \/ Dock
  \/ GuiThread \/ SelectThread \/ PlayThread
  \/ \E m \in Maps : ComputeSweep(m) \/ Paint(m)
  \/ Tick

Spec == Init /\ [][Next]_vars

(* Every thread runs, waits time out and the timer expires.  A thread that *)
(* finds a mutex free again and again gets it.  Nothing is assumed of the  *)
(* user, the clock and the maps.                                           *)
Fairness ==
  /\ SF_vars(GuiThread)
  /\ SF_vars(SelectThread)
  /\ SF_vars(PlayThread)

FairSpec == Spec /\ Fairness

-----------------------------------------------------------------------------
(* Properties.                                                             *)

Steps == {"idle", "enter", "lock", "live", "assign", "tell", "receive",
          "begin", "monitor", "next", "wait", "woken", "fired", "play"}

ThreadTyped(t) ==
  /\ pc[t] \in {"lock", "assign"} => time[t] # Live
  /\ pc[t] = "receive" => t = Gui /\ event \in Events
  /\ pc[t] \in {"begin", "monitor", "next", "wait", "woken"} => Waits(t)
  /\ pc[t] \in {"fired", "play"} => t = Player

DockTyped ==
  /\ clock \in FirstMinute .. LastMinute
  /\ viewType \in {"live", "archive"}
  /\ pinnedTime \in Int /\ selectedTime \in Int
  /\ radarSite \in Sites \union {NoSite} /\ previousSite \in Sites \union {NoSite}
  /\ loopTime \in LoopTimes
  /\ calls \in 0 .. MaxCalls

PlayTyped == animation \in {"pause", "play"} /\ timer \in BOOLEAN

QueuesTyped ==
  /\ selectQueue \in Seq(SelectJobs \union StepJobs)
  /\ playQueue \in Seq({"PlaySync", "expired"})
  /\ step \in SelectJobs \union StepJobs \union {NoStep}
  /\ attempts \in 0 .. MaxAttempts
  /\ pc[Select] \in {"begin", "monitor", "next"} => attempts < MaxAttempts

MonitorTyped ==
  /\ selectMutex \in Threads \union {NoThread}
  /\ monitorMutex \in Threads \union {NoThread}
  /\ active \in BOOLEAN /\ updated \subseteq Maps /\ complete \subseteq Maps
  /\ event \in Events \union {NoEvent}

MapsTyped ==
  /\ mapTime \in [Maps -> Int] /\ autoUpdate \in [Maps -> BOOLEAN]
  /\ sweeping \subseteq Maps

ThreadsTyped ==
  /\ pc \in [Threads -> Steps]
  /\ time \in [Threads -> Int]
  /\ told \in [Threads -> 0 .. MapCount]
  /\ \A t \in Threads : ThreadTyped(t)

(* Every variable has its type; only the threads that wait for the maps    *)
(* are ever in the sweep monitor, a Step makes no more than MaxAttempts    *)
(* attempts, and a locked selection is never live.                         *)
TypeOK ==
  /\ DockTyped
  /\ PlayTyped
  /\ QueuesTyped
  /\ MonitorTyped
  /\ MapsTyped
  /\ ThreadsTyped
  /\ overlapped \in BOOLEAN

(* A thread holds selectTimeMutex_ exactly during a selection that is not  *)
(* live, and the monitor exactly from its reset to its wait: no thread     *)
(* ever returns with a mutex, and none waits for the maps while it keeps   *)
(* the GUI thread from taking their signals.                               *)
HoldsSelect(t)  == pc[t] \in {"live", "assign", "tell"} /\ time[t] # Live
HoldsMonitor(t) ==
  Waits(t) /\ pc[t] \in {"next", "enter", "lock", "live", "assign", "tell"}
MutexesHeld ==
  \A t \in Threads : /\ selectMutex = t <=> HoldsSelect(t)
                     /\ monitorMutex = t <=> HoldsMonitor(t)

Agree == \A m \in Maps :
  mapTime[m] = selectedTime /\ autoUpdate[m] = (selectedTime = Live)

(* When the last selection begun met no other one (a live selection takes  *)
(* no mutex), every map ends up with the time of the timeline and updates  *)
(* itself exactly in the live view, whatever was requested, stepped and    *)
(* played at the same time and whatever earlier selections left behind.    *)
MapsFollowTimeline ==
  ~overlapped /\ (\A t \in Threads : ~Announcing(t)) => Agree

(* Step and PlaySync lock two mutexes and wait for maps that may never     *)
(* answer; every request is served all the same.                           *)
RequestsServed ==
  selectQueue # <<>> ~> (selectQueue = <<>> /\ pc[Select] = "idle")

(* Pausing, stepping and playing again may cancel the timer at any point;  *)
(* an animation that is left playing goes on selecting times.              *)
KeepsPlaying == <>[](animation = "play") => []<>(pc[Player] = "enter")

(* An animation that is left paused comes to rest. *)
PauseEnds ==
  <>[](animation = "pause") =>
    <>[](pc[Player] = "idle" /\ ~timer /\ playQueue = <<>>)
=============================================================================

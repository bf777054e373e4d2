----------------------- MODULE WarningsPipelineProofs -----------------------
(***************************************************************************)
(* Theorems about WarningsPipeline for any messages, events, files and     *)
(* faults: type correctness, each message once, the signals in order, the  *)
(* newest message judged, and the count of the dialog.                     *)
(***************************************************************************)
EXTENDS WarningsPipeline, TLAPS

USE DEF Files, Providers

(* The signal under way has the type its stage requires. *)
EmitStage == IF pc = "emit" THEN emitting \in Signals ELSE emitting = NoSignal

LEMMA NoSignalType == NoSignal \notin Signals
  BY PipelineAssumption DEF NoSignal, Signals

-----------------------------------------------------------------------------
(* Type correctness, a part at a time. *)

(* What a file is loaded as is a batch. *)
LEMMA LoadedType ==
  ASSUME NEW s \in Seq(Messages)
  PROVE  Loaded(s) \in Seq([message : Messages, duplicate : BOOLEAN])
<1> DEFINE B == [message : Messages, duplicate : BOOLEAN]
           D(i) == \E j \in 1 .. i - 1 : HeaderOf[s[j]] = HeaderOf[s[i]]
           L == [i \in DOMAIN s |-> [message |-> s[i], duplicate |-> D(i)]]
<1>1. /\ Len(s) \in Nat /\ DOMAIN s = 1 .. Len(s)
      /\ \A i \in DOMAIN s : s[i] \in Messages
  OBVIOUS
<1>2. \A i : D(i) \in BOOLEAN
  OBVIOUS
<1>3. \A i \in DOMAIN s : [message |-> s[i], duplicate |-> D(i)] \in B
  <2> HIDE DEF D
  <2> QED BY <1>1, <1>2
<1>4. L \in [1 .. Len(s) -> B]
  <2> HIDE DEF D, B
  <2> QED BY <1>1, <1>3
<1>5. L \in Seq(B)
  <2> HIDE DEF L, B
  <2> QED BY <1>1, <1>4
<1> QED BY <1>5 DEF Loaded

(* No request is under way. *)
LEMMA NoAskType == DOMAIN NoAsk = {} /\ NoAsk \in [{} -> Nat]
  BY DEF NoAsk

LEMMA InitType == Init => TypeOK /\ EmitStage
<1> SUFFICES ASSUME Init PROVE TypeOK /\ EmitStage
  OBVIOUS
<1>1. FaultsOK /\ ServerOK /\ ProviderOK
  BY PipelineAssumption DEF Init, FaultsOK, ServerOK, ProviderOK
<1>2. RefreshOK
  <2>1. jobs \in Seq(Jobs) /\ job \in Jobs
    BY DEF Init, Jobs
  <2>2. DOMAIN asked \subseteq Files /\ asked \in [DOMAIN asked -> Nat]
    BY NoAskType DEF Init
  <2>3. using \in Providers /\ batch \in Seq([message : Messages, duplicate : BOOLEAN])
    BY PipelineAssumption DEF Init
  <2> QED BY <2>1, <2>2, <2>3 DEF Init, RefreshOK
<1>3. StoreOK /\ ReceiversOK /\ AlertsOK /\ loads \in Nat /\ EmitStage
  BY PipelineAssumption DEF Init, StoreOK, ReceiversOK, AlertsOK, EmitStage,
     NoSignal
<1> QED BY <1>1, <1>2, <1>3 DEF TypeOK

LEMMA ServerType == TypeOK /\ [Next]_vars => (FaultsOK /\ ServerOK)'
<1> SUFFICES ASSUME TypeOK, [Next]_vars PROVE (FaultsOK /\ ServerOK)'
  OBVIOUS
<1> USE DEF TypeOK, FaultsOK, ServerOK
<1>1. CASE \E m \in Publishable : Publish(m)
  <2>1. PICK m \in Publishable : Publish(m)
    BY <1>1
  <2>2. m \in Messages /\ FileOf[m] \in Files
    BY PipelineAssumption
  <2>3. server'[FileOf[m]] \in Seq(Messages) /\ server' \in [Files -> Seq(Messages)]
    BY <2>1, <2>2 DEF Publish
  <2>4. stamp' \in [Files -> Nat]
    BY <2>1, <2>2 DEF Publish
  <2> QED BY <2>1, <2>3, <2>4 DEF Publish
<1>2. CASE UNCHANGED <<faults, serverVars>>
  BY <1>2 DEF serverVars
<1>3. ~ (\E m \in Publishable : Publish(m)) => UNCHANGED <<faults, serverVars>>
  BY DEF Next, PoolStep, AlertStep, TimerFires, StartRefresh, StartLocal,
     ListFiles, ListingFails, RequestUpdated, Receive, ReceiveFails,
     AllReceived, StoreMessage, SkipMessage, Emit, Finish, Throw, Deliver,
     SelectAlert, SelectIndex, ChangeProvider, OpenFile, CheckAlert,
     JudgeAlert, vars
<1> QED BY <1>1, <1>2, <1>3

LEMMA ProviderType == TypeOK /\ [Next]_vars => ProviderOK'
<1> SUFFICES ASSUME TypeOK, [Next]_vars PROVE ProviderOK'
  OBVIOUS
<1> USE DEF TypeOK, ProviderOK
<1>1. using \in Providers /\ stamp \in [Files -> Nat]
  BY DEF RefreshOK, ServerOK
<1>2. ASSUME NEW found \in SUBSET Files, StoreListing(using, found)
      PROVE  /\ listed' \in [Providers -> [Files -> Nat \union {Unlisted}]]
             /\ updated' \in [Providers -> SUBSET Files]
  BY <1>1, <1>2 DEF StoreListing
<1>3. CASE ListFiles
  BY <1>2, <1>3 DEF ListFiles, Existing
<1>4. CASE ListingFails
  BY <1>2, <1>4 DEF ListingFails
<1>5. CASE RequestUpdated
  BY <1>1, <1>5 DEF RequestUpdated
<1>6. CASE Release /\ UNCHANGED current
  BY <1>1, <1>6 DEF Release
<1>7. CASE ChangeProvider
  BY <1>7, PipelineAssumption DEF ChangeProvider
<1>8. CASE UNCHANGED providerVars
  BY <1>8 DEF providerVars
<1> QED BY <1>3, <1>4, <1>5, <1>6, <1>7, <1>8
        DEF Next, PoolStep, AlertStep, Publish, TimerFires, StartRefresh,
        StartLocal, Receive, ReceiveFails, AllReceived, StoreMessage,
        SkipMessage, Emit, Finish, Throw, Deliver, SelectAlert, SelectIndex,
        OpenFile, CheckAlert, JudgeAlert, vars

LEMMA RefreshType == TypeOK /\ [Next]_vars => RefreshOK'
<1> SUFFICES ASSUME TypeOK, [Next]_vars PROVE RefreshOK'
  OBVIOUS
<1> DEFINE B == [message : Messages, duplicate : BOOLEAN]
<1> USE DEF TypeOK, RefreshOK
<1>j. "refresh" \in Jobs /\ "local" \in Jobs
  BY DEF Jobs
<1>1. CASE TimerFires
  <2>1. jobs' \in Seq(Jobs)
    BY <1>1, <1>j DEF TimerFires
  <2> QED BY <1>1, <2>1 DEF TimerFires
<1>2. CASE StartRefresh
  <2>1. jobs \in Seq(Jobs) /\ jobs # <<>> /\ jobs' = Tail(jobs)
    BY <1>2 DEF StartRefresh
  <2>2. jobs' \in Seq(Jobs)
    BY <2>1
  <2> QED BY <1>2, <1>j, <2>2 DEF StartRefresh, Goto, ProviderOK
<1>3. CASE StartLocal
  <2>1. jobs \in Seq(Jobs) /\ jobs # <<>> /\ jobs' = Tail(jobs)
    BY <1>3 DEF StartLocal
  <2>2. jobs' \in Seq(Jobs)
    BY <2>1
  <2>3. batch' \in Seq(B)
    BY <1>3, LoadedType, PipelineAssumption DEF StartLocal
  <2> QED BY <1>3, <1>j, <2>2, <2>3 DEF StartLocal, Goto
<1>4. CASE ListFiles \/ ListingFails
  <2>1. pc' \in {"handle", "request"}
    BY <1>4 DEF ListFiles, ListingFails, Goto
  <2>2. UNCHANGED <<jobs, timer, job, using, asked, batch>>
    BY <1>4 DEF ListFiles, ListingFails
  <2> QED BY <2>1, <2>2
<1>5. CASE RequestUpdated
  <2>1. updated[using] \subseteq Files /\ \A f \in Files : Len(server[f]) \in Nat
    BY DEF ProviderOK, ServerOK
  <2>2. /\ DOMAIN asked' = updated[using]
        /\ \A f \in updated[using] : asked'[f] = Len(server[f])
        /\ asked' = [f \in DOMAIN asked' |-> asked'[f]]
    BY <1>5 DEF RequestUpdated
  <2>3. DOMAIN asked' \subseteq Files
    BY ONLY <2>1, <2>2
  <2>4. \A f \in DOMAIN asked' : asked'[f] \in Nat
    BY ONLY <2>1, <2>2
  <2>5. asked' \in [DOMAIN asked' -> Nat]
    BY ONLY <2>2, <2>4
  <2> QED BY <1>5, <2>3, <2>5 DEF RequestUpdated, Goto
<1>6. ASSUME NEW f \in Files, Receive(f) PROVE RefreshOK'
  <2>1. PICK n \in asked[f] .. Len(server[f]) :
          batch' = batch \o Loaded(SubSeq(server[f], 1, n))
    BY <1>6 DEF Receive
  <2>2. server[f] \in Seq(Messages) /\ asked[f] \in Nat
    BY <1>6 DEF ServerOK, Receive, NextResponse
  <2>3. SubSeq(server[f], 1, n) \in Seq(Messages)
    BY <2>1, <2>2
  <2>4. Loaded(SubSeq(server[f], 1, n)) \in Seq(B)
    BY <2>3, LoadedType
  <2>5. batch' \in Seq(B)
    BY <2>1, <2>4
  <2> QED BY <1>6, <2>5 DEF Receive, Answered
<1>7. ASSUME NEW f \in Files, ReceiveFails(f) PROVE RefreshOK'
  BY <1>7 DEF ReceiveFails, Answered
<1>8. CASE AllReceived
  BY <1>8 DEF AllReceived, Goto
<1>9. CASE StoreMessage \/ SkipMessage
  <2>1. batch \in Seq(B) /\ batch # <<>> /\ batch' = Tail(batch)
    BY <1>9 DEF StoreMessage, SkipMessage
  <2>2. batch' \in Seq(B)
    <3> HIDE DEF B
    <3> QED BY <2>1
  <2> QED BY <1>9, <2>2 DEF StoreMessage, SkipMessage, Goto
<1>10. CASE Emit
  BY <1>10 DEF Emit, Goto
<1>11. CASE Finish
  <2>1. timer' \in BOOLEAN
    BY <1>11 DEF Finish, Rearm
  <2> QED BY <1>11, <2>1 DEF Finish, Goto
<1>12. CASE Throw
  BY <1>12, NoAskType DEF Throw, Goto
<1>13. CASE OpenFile
  <2>1. jobs' \in Seq(Jobs)
    BY <1>13, <1>j DEF OpenFile, refreshVars
  <2> QED BY <1>13, <2>1 DEF OpenFile, refreshVars
<1>14. CASE UNCHANGED <<jobs, refreshVars>>
  BY <1>14 DEF refreshVars
<1> HIDE DEF RefreshOK, TypeOK
<1> QED BY <1>1, <1>2, <1>3, <1>4, <1>5, <1>6, <1>7, <1>8, <1>9, <1>10, <1>11,
           <1>12, <1>13, <1>14
        DEF Next, PoolStep, AlertStep, Publish, Deliver, SelectAlert,
        SelectIndex, ChangeProvider, CheckAlert, JudgeAlert, vars

(* The message handled next. *)
LEMMA HeadType ==
  ASSUME TypeOK, batch # <<>>
  PROVE  Head(batch).message \in Messages
<1> DEFINE B == [message : Messages, duplicate : BOOLEAN]
<1>1. batch \in Seq(B)
  BY DEF TypeOK, RefreshOK
<1>2. Head(batch) \in B
  <2> HIDE DEF B
  <2> QED BY <1>1
<1> QED BY <1>2

(* The stored messages, and the stage of the signal. *)
LEMMA StoreType == TypeOK /\ [Next]_vars /\ EmitStage => (StoreOK /\ EmitStage)'
<1> SUFFICES ASSUME TypeOK, EmitStage, [Next]_vars PROVE (StoreOK /\ EmitStage)'
  OBVIOUS
<1> USE DEF TypeOK, StoreOK
<1>1. CASE StoreMessage
  <2> DEFINE m == Head(batch).message
  <2>1. m \in Messages /\ EventOf[m] \in Events
    BY <1>1, HeadType, PipelineAssumption DEF StoreMessage
  <2>2. events[EventOf[m]] \in Seq(Messages)
    BY <2>1
  <2>3. emitting' = Signal(EventOf[m], Len(events[EventOf[m]]) + 1)
    BY <1>1 DEF StoreMessage, IndexOfNew
  <2>4. emitting' \in Signals
    BY <2>1, <2>2, <2>3 DEF Signal, Signals
  <2>5. events' = [events EXCEPT ![EventOf[m]] = Append(@, m)]
    BY <1>1 DEF StoreMessage
  <2>6. events' \in [Events -> Seq(Messages)]
    BY <2>1, <2>2, <2>5
  <2>7. pc' = "emit"
    BY <1>1 DEF StoreMessage, Goto
  <2> QED BY <2>4, <2>6, <2>7 DEF EmitStage
<1>2. CASE Emit
  BY <1>2 DEF Emit, Goto, EmitStage
<1>3. CASE UNCHANGED storeVars /\ UNCHANGED pc
  BY <1>3 DEF storeVars, EmitStage
<1>4. CASE UNCHANGED storeVars /\ pc # "emit" /\ pc' # "emit"
  BY <1>4 DEF storeVars, EmitStage
<1>5. ~ StoreMessage /\ ~ Emit
        => \/ UNCHANGED storeVars /\ UNCHANGED pc
           \/ UNCHANGED storeVars /\ pc # "emit" /\ pc' # "emit"
  BY DEF Next, PoolStep, AlertStep, Publish, TimerFires, StartRefresh,
     StartLocal, ListFiles, ListingFails, RequestUpdated, Receive,
     ReceiveFails, AllReceived, SkipMessage, Finish, Throw, Deliver,
     SelectAlert, SelectIndex, ChangeProvider, OpenFile, CheckAlert,
     JudgeAlert, vars, refreshVars, Goto
<1> QED BY <1>1, <1>2, <1>3, <1>4, <1>5

(* Every signal in the queue is for a message of its event. *)
GuiStored ==
  \A i \in DOMAIN gui : gui[i].index <= Len(events[gui[i].event])

(* The stored messages have segments. *)
StoredHaveSegments ==
  \A e \in Events : \A i \in DOMAIN events[e] : events[e][i] \in HasVtec

(* The begin of a message is a time. *)
LEMMA FirstBeginType == \A m \in HasVtec : FirstBegin(m) \in Int
<1> SUFFICES ASSUME NEW m \in HasVtec PROVE FirstBegin(m) \in Int
  OBVIOUS
<1> DEFINE S == [begin : Int, end : Int, located : BOOLEAN]
<1>1. Segments[m] \in Seq(S) /\ Segments[m] # <<>>
  BY PipelineAssumption
<1>2. Segments[m][1] \in S
  <2> HIDE DEF S
  <2> QED BY <1>1
<1> QED BY <1>2 DEF FirstBegin

(* The records of a new message, and those cut by it. *)
LEMMA RecordsType ==
  ASSUME NEW m \in HasVtec, NEW i \in Nat, NEW e \in Events,
         records[e] \subseteq [index : Nat, segment : Nat, end : Int]
  PROVE  /\ CutRecords(e, m) \subseteq [index : Nat, segment : Nat, end : Int]
         /\ NewRecords(m, i) \subseteq [index : Nat, segment : Nat, end : Int]
<1> DEFINE S == [begin : Int, end : Int, located : BOOLEAN]
<1>1. Segments[m] \in Seq(S)
  BY PipelineAssumption
<1>2. \A n \in DOMAIN Segments[m] : n \in Nat /\ Segments[m][n] \in S
  <2> HIDE DEF S
  <2> QED BY <1>1
<1>3. NewRecords(m, i) \subseteq [index : Nat, segment : Nat, end : Int]
  BY <1>2 DEF NewRecords, NewRecord
<1>4. FirstBegin(m) \in Int
  BY FirstBeginType
<1>5. CutRecords(e, m) \subseteq [index : Nat, segment : Nat, end : Int]
  BY <1>4 DEF CutRecords, Earlier
<1> QED BY <1>3, <1>5

(* The GUI thread's queue and its receivers. *)
LEMMA ReceiversType ==
  TypeOK /\ EmitStage /\ GuiStored /\ StoredHaveSegments /\ [Next]_vars
    => ReceiversOK'
<1> SUFFICES ASSUME TypeOK, EmitStage, GuiStored, StoredHaveSegments, [Next]_vars
             PROVE  ReceiversOK'
  OBVIOUS
<1> DEFINE R == [index : Nat, segment : Nat, end : Int]
           D == [event : Events \union {NoEvent}, count : Nat]
<1>0. /\ gui \in Seq(Signals)
      /\ row \in [Events -> Nat]
      /\ records \in [Events -> SUBSET R]
      /\ dialog \in D
      /\ \A e \in Events : events[e] \in Seq(Messages) /\ Len(events[e]) \in Nat
  BY DEF TypeOK, ReceiversOK, StoreOK
<1>1. CASE Emit
  <2>1. emitting \in Signals
    BY <1>1 DEF Emit, EmitStage
  <2>2. gui' \in Seq(Signals)
    BY <1>0, <1>1, <2>1 DEF Emit
  <2> QED BY <1>0, <1>1, <2>2 DEF Emit, guiVars, ReceiversOK
<1>2. ASSUME NEW e \in Events, ShowCount(e) PROVE dialog' \in D
  BY <1>0, <1>2 DEF ShowCount
<1>3. CASE Deliver
  <2> DEFINE e == Head(gui).event
             i == Head(gui).index
  <2>1. Head(gui) \in Signals /\ gui' \in Seq(Signals) /\ Head(gui) = gui[1]
        /\ 1 \in DOMAIN gui
    BY <1>0, <1>3 DEF Deliver, UpdateRow, ReplaceSegments, PostAlert
  <2>2. e \in Events /\ i \in Nat \ {0}
    BY <2>1 DEF Signals
  <2>3. i \in DOMAIN events[e]
    BY <1>0, <2>1, <2>2 DEF GuiStored
  <2>4. events[e][i] \in HasVtec
    BY <2>2, <2>3 DEF StoredHaveSegments
  <2>5. /\ row' = [row EXCEPT ![e] = i]
        /\ records' = [records EXCEPT ![e] = CutRecords(e, events[e][i])
                                       \union NewRecords(events[e][i], i)]
        /\ ShowCount(e)
    BY <1>3 DEF Deliver, UpdateRow, ReplaceSegments, PostAlert
  <2>6. CutRecords(e, events[e][i]) \subseteq R /\ NewRecords(events[e][i], i) \subseteq R
    <3> HIDE DEF e, i
    <3> QED BY <1>0, <2>2, <2>4, RecordsType
  <2>7. row' \in [Events -> Nat] /\ records' \in [Events -> SUBSET R]
    <3> HIDE DEF e, i, R
    <3> QED BY <1>0, <2>2, <2>5, <2>6
  <2>8. dialog' \in D
    <3> HIDE DEF e, D
    <3> QED BY <1>2, <2>2, <2>5
  <2> QED BY <2>1, <2>7, <2>8 DEF ReceiversOK
<1>4. ASSUME NEW e \in Events, SelectAlert(e) PROVE ReceiversOK'
  BY <1>0, <1>4 DEF SelectAlert, ReceiversOK
<1>5. CASE SelectIndex
  <2>1. dialog.event \in Events
    BY <1>0, <1>5 DEF SelectIndex
  <2> QED BY <1>0, <1>2, <1>5, <2>1 DEF SelectIndex, ReceiversOK
<1>6. CASE UNCHANGED <<gui, guiVars>>
  BY <1>0, <1>6 DEF guiVars, ReceiversOK
<1> QED BY <1>1, <1>3, <1>4, <1>5, <1>6
        DEF Next, PoolStep, AlertStep, Publish, TimerFires, StartRefresh,
        StartLocal, ListFiles, ListingFails, RequestUpdated, Receive,
        ReceiveFails, AllReceived, StoreMessage, SkipMessage, Finish, Throw,
        ChangeProvider, OpenFile, CheckAlert, JudgeAlert, vars

(* The alert manager. *)
LEMMA AlertsType == TypeOK /\ [Next]_vars => (AlertsOK /\ loads \in Nat)'
<1> SUFFICES ASSUME TypeOK, [Next]_vars PROVE (AlertsOK /\ loads \in Nat)'
  OBVIOUS
<1>0. /\ alerts \in Seq(Signals) /\ gui \in Seq(Signals) /\ loads \in Nat
      /\ judging \in Signals \union {NoSignal} /\ judged \in [Events -> Nat]
  BY DEF TypeOK, AlertsOK, ReceiversOK
<1>1. CASE Deliver
  <2>1. alerts' \in Seq(Signals)
    BY <1>0, <1>1 DEF Deliver, UpdateRow, ReplaceSegments, PostAlert
  <2> QED BY <1>0, <1>1, <2>1 DEF Deliver, UpdateRow, ReplaceSegments, PostAlert, alertVars, AlertsOK
<1>2. CASE CheckAlert
  <2>1. Head(alerts) \in Signals /\ alerts' \in Seq(Signals)
    BY <1>0, <1>2 DEF CheckAlert
  <2> QED BY <1>0, <1>2, <2>1 DEF CheckAlert, AlertsOK
<1>3. CASE JudgeAlert
  <2>1. judging.event \in Events /\ judging.index \in Nat
    BY <1>0, <1>3 DEF JudgeAlert, Signals
  <2> QED BY <1>0, <1>3, <2>1 DEF JudgeAlert, AlertsOK
<1>4. CASE OpenFile
  BY <1>0, <1>4 DEF OpenFile, alertVars, AlertsOK
<1>5. CASE UNCHANGED <<alerts, alertVars, loads>>
  BY <1>0, <1>5 DEF alertVars, AlertsOK
<1> QED BY <1>1, <1>2, <1>3, <1>4, <1>5
        DEF Next, PoolStep, AlertStep, Publish, TimerFires, StartRefresh,
        StartLocal, ListFiles, ListingFails, RequestUpdated, Receive,
        ReceiveFails, AllReceived, StoreMessage, SkipMessage, Emit, Finish,
        Throw, SelectAlert, SelectIndex, ChangeProvider, vars

-----------------------------------------------------------------------------
(* The events and the signals on their way.                                *)

(* The signal about to be emitted is that of the newest message, and newer *)
(* than the ones of its event in the queue.                                *)
EmitLast ==
  emitting # NoSignal =>
    /\ emitting.index = Len(events[emitting.event])
    /\ row[emitting.event] < emitting.index
    /\ \A i \in DOMAIN gui :
         gui[i].event = emitting.event => gui[i].index < emitting.index

StoreInv ==
  /\ TypeOK /\ EmitStage
  /\ EmitLast /\ StoredHaveSegments
  /\ EachMessageOnce /\ SignalsInOrder

storing == <<events, emitting, gui, row>>

(* The facts of the types that the proofs below use. *)
LEMMA StoreFacts ==
  ASSUME TypeOK
  PROVE  /\ events \in [Events -> Seq(Messages)]
         /\ \A e \in Events : Len(events[e]) \in Nat /\ DOMAIN events[e] = 1 .. Len(events[e])
         /\ row \in [Events -> Nat]
         /\ gui \in Seq(Signals) /\ Len(gui) \in Nat /\ DOMAIN gui = 1 .. Len(gui)
         /\ \A i \in DOMAIN gui : gui[i].event \in Events /\ gui[i].index \in Nat \ {0}
<1>1. events \in [Events -> Seq(Messages)] /\ row \in [Events -> Nat] /\ gui \in Seq(Signals)
  BY DEF TypeOK, StoreOK, ReceiversOK
<1>2. \A i \in DOMAIN gui : gui[i] \in Signals
  BY <1>1
<1> QED BY <1>1, <1>2 DEF Signals

LEMMA InitStore == Init => StoreInv
<1> SUFFICES ASSUME Init PROVE StoreInv
  OBVIOUS
<1>1. TypeOK /\ EmitStage
  BY InitType
<1>2. EmitLast /\ StoredHaveSegments /\ EachMessageOnce
  BY DEF Init, EmitLast, StoredHaveSegments, EachMessageOnce
<1>3. SignalsInOrder
  BY DEF Init, SignalsInOrder, OlderAhead
<1> QED BY <1>1, <1>2, <1>3 DEF StoreInv

(* HandleMessage keeps the events in order. *)
LEMMA StoreKeeps ==
  ASSUME StoreInv, StoreMessage
  PROVE  (EmitLast /\ StoredHaveSegments /\ EachMessageOnce /\ SignalsInOrder)'
<1> DEFINE m == Head(batch).message
           e == EventOf[m]
           n == Len(events[e]) + 1
<1>1. TypeOK /\ batch # <<>> /\ emitting = NoSignal
  BY DEF StoreInv, EmitStage, StoreMessage
<1>2. m \in Messages /\ e \in Events
  BY <1>1, HeadType, PipelineAssumption
<1>3. /\ m \in HasVtec /\ ~ Stored(e, HeaderOf[m])
      /\ events' = [events EXCEPT ![e] = Append(@, m)]
      /\ emitting' = Signal(e, n)
      /\ UNCHANGED <<gui, row>>
  BY DEF StoreMessage, Storable, IndexOfNew, guiVars
<1> HIDE DEF m
<1>4. /\ events'[e] = Append(events[e], m)
      /\ Len(events'[e]) = n /\ DOMAIN events'[e] = 1 .. n
      /\ \A i \in DOMAIN events[e] : i \in 1 .. n - 1 /\ events'[e][i] = events[e][i]
      /\ events'[e][n] = m
      /\ \A f \in Events : f # e => events'[f] = events[f]
  BY <1>1, <1>2, <1>3, StoreFacts
<1>5. StoredHaveSegments'
  BY <1>1, <1>2, <1>3, <1>4, StoreFacts DEF StoreInv, StoredHaveSegments
<1>6. EachMessageOnce'
  <2> SUFFICES ASSUME NEW f \in Events, NEW i \in DOMAIN events'[f],
                      NEW j \in DOMAIN events'[f],
                      HeaderOf[events'[f][i]] = HeaderOf[events'[f][j]]
               PROVE  i = j
    BY DEF EachMessageOnce
  <2>1. CASE f # e
    BY <1>4, <2>1 DEF StoreInv, EachMessageOnce
  <2>2. CASE f = e
    <3>1. \A k \in 1 .. n - 1 : HeaderOf[events[e][k]] # HeaderOf[m]
      BY <1>1, <1>2, <1>3, StoreFacts DEF Stored
    <3>2. /\ n \in Nat /\ i \in 1 .. n /\ j \in 1 .. n
          /\ DOMAIN events[e] = 1 .. n - 1
      BY <1>1, <1>2, <1>4, <2>2, StoreFacts
    <3>3. CASE i # n /\ j # n
      <4>1. i \in DOMAIN events[e] /\ j \in DOMAIN events[e]
        BY <3>2, <3>3
      <4>2. HeaderOf[events[e][i]] = HeaderOf[events[e][j]]
        BY <1>4, <2>2, <4>1
      <4> QED BY <1>2, <4>1, <4>2 DEF StoreInv, EachMessageOnce
    <3>4. CASE i = n /\ j # n
      BY <1>4, <2>2, <3>1, <3>2, <3>4
    <3>5. CASE i # n /\ j = n
      BY <1>4, <2>2, <3>1, <3>2, <3>5
    <3> QED BY <3>3, <3>4, <3>5
  <2> QED BY <2>1, <2>2
<1>7. \A i \in DOMAIN gui : gui[i].event = e => gui[i].index < n
  BY <1>1, <1>2, StoreFacts DEF StoreInv, SignalsInOrder
<1>8. row[e] < n
  BY <1>1, <1>2, StoreFacts DEF StoreInv, SignalsInOrder
<1>9. EmitLast'
  BY <1>3, <1>4, <1>7, <1>8 DEF EmitLast, Signal
<1>10. SignalsInOrder'
  <2>1. \A f \in Events : row'[f] <= Len(events'[f])
    BY <1>1, <1>2, <1>3, <1>4, <1>8, StoreFacts DEF StoreInv, SignalsInOrder
  <2>2. ASSUME NEW f \in Events, NEW i \in row'[f] + 1 .. Len(events'[f])
        PROVE  InFlight(Signal(f, i))'
    <3>1. CASE f = e /\ i = n
      BY <1>3, <3>1 DEF InFlight, Signal
    <3>2. CASE ~ (f = e /\ i = n)
      <4>1. i \in row[f] + 1 .. Len(events[f])
        BY <1>1, <1>2, <1>3, <1>4, <2>2, <3>2, StoreFacts
      <4>2. InFlight(Signal(f, i))
        BY <4>1 DEF StoreInv, SignalsInOrder
      <4>3. Signal(f, i) # NoSignal
        BY <2>2, PipelineAssumption DEF Signal, NoSignal
      <4> QED BY <1>1, <1>3, <4>2, <4>3 DEF InFlight, Signal
    <3> QED BY <3>1, <3>2
  <2>3. \A i \in DOMAIN gui' :
          /\ row'[gui'[i].event] < gui'[i].index
          /\ gui'[i].index <= Len(events'[gui'[i].event])
    BY <1>1, <1>2, <1>3, <1>4, <1>7, StoreFacts DEF StoreInv, SignalsInOrder
  <2>4. OlderAhead'
    BY <1>3 DEF StoreInv, SignalsInOrder, OlderAhead
  <2> QED BY <2>1, <2>2, <2>3, <2>4 DEF SignalsInOrder
<1> QED BY <1>5, <1>6, <1>9, <1>10

(* The signal is queued behind the ones of older messages. *)
LEMMA EmitKeeps ==
  ASSUME StoreInv, Emit
  PROVE  (EmitLast /\ StoredHaveSegments /\ EachMessageOnce /\ SignalsInOrder)'
<1>1. TypeOK /\ emitting \in Signals /\ emitting # NoSignal
  BY NoSignalType DEF StoreInv, EmitStage, Emit
<1>2. /\ gui' = Append(gui, emitting) /\ emitting' = NoSignal
      /\ UNCHANGED <<events, row>>
  BY DEF Emit, guiVars
<1>3. EmitLast' /\ StoredHaveSegments' /\ EachMessageOnce'
  BY <1>2 DEF EmitLast, StoreInv, StoredHaveSegments, EachMessageOnce
<1>4. /\ DOMAIN gui' = 1 .. Len(gui) + 1
      /\ \A i \in DOMAIN gui : gui'[i] = gui[i]
      /\ gui'[Len(gui) + 1] = emitting
  BY <1>1, <1>2, StoreFacts
<1>5. \A e \in Events : row'[e] <= Len(events'[e])
  BY <1>2 DEF StoreInv, SignalsInOrder
<1>6. ASSUME NEW e \in Events, NEW i \in row'[e] + 1 .. Len(events'[e])
      PROVE  InFlight(Signal(e, i))'
  <2>1. InFlight(Signal(e, i))
    BY <1>2, <1>6 DEF StoreInv, SignalsInOrder
  <2>2. CASE Signal(e, i) = emitting
    <3>1. Len(gui) + 1 \in DOMAIN gui' /\ gui'[Len(gui) + 1] = Signal(e, i)
      BY <1>1, <1>4, <2>2, StoreFacts
    <3> QED BY <3>1 DEF InFlight, Signal
  <2>3. CASE \E j \in DOMAIN gui : gui[j] = Signal(e, i)
    <3>1. PICK j \in DOMAIN gui : gui[j] = Signal(e, i)
      BY <2>3
    <3>2. j \in DOMAIN gui' /\ gui'[j] = Signal(e, i)
      BY <1>1, <1>4, <3>1, StoreFacts
    <3> QED BY <3>2 DEF InFlight, Signal
  <2> QED BY <2>1, <2>2, <2>3 DEF InFlight
<1>7. \A i \in DOMAIN gui' :
        /\ row'[gui'[i].event] < gui'[i].index
        /\ gui'[i].index <= Len(events'[gui'[i].event])
  <2>1. /\ row[emitting.event] < emitting.index
        /\ emitting.index <= Len(events[emitting.event])
    BY <1>1, StoreFacts DEF StoreInv, EmitLast, Signals
  <2> QED BY <1>1, <1>2, <1>4, <2>1, StoreFacts DEF StoreInv, SignalsInOrder
<1>8. OlderAhead'
  <2>1. \A i \in DOMAIN gui :
          gui[i].event = emitting.event => gui[i].index < emitting.index
    BY <1>1 DEF StoreInv, EmitLast
  <2>2. ASSUME NEW i \in DOMAIN gui', NEW j \in DOMAIN gui',
               i < j, gui'[i].event = gui'[j].event
        PROVE  gui'[i].index < gui'[j].index
    <3>1. i \in DOMAIN gui /\ gui'[i] = gui[i]
      BY <1>1, <1>4, <2>2, StoreFacts
    <3>2. CASE j \in DOMAIN gui
      BY <1>4, <2>2, <3>1, <3>2 DEF StoreInv, SignalsInOrder, OlderAhead
    <3>3. CASE j \notin DOMAIN gui
      <4>1. gui'[j] = emitting
        BY <1>1, <1>4, <3>3, StoreFacts
      <4> QED BY <2>1, <2>2, <3>1, <4>1
    <3> QED BY <3>2, <3>3
  <2> QED BY <2>2 DEF OlderAhead
<1>9. SignalsInOrder'
  BY <1>5, <1>6, <1>7, <1>8 DEF SignalsInOrder
<1> QED BY <1>3, <1>9

(* The signal delivered is that of the first message the row has not been  *)
(* told of.                                                                *)
LEMMA DeliveredIsNext ==
  ASSUME StoreInv, gui # <<>>
  PROVE  /\ Head(gui) = gui[1] /\ 1 \in DOMAIN gui
         /\ Head(gui).event \in Events
         /\ Head(gui).index = row[Head(gui).event] + 1
         /\ Head(gui).index \in DOMAIN events[Head(gui).event]
<1> DEFINE e == gui[1].event
           i == gui[1].index
<1>1. TypeOK
  BY DEF StoreInv
<1>2. Head(gui) = gui[1] /\ 1 \in DOMAIN gui
  BY <1>1, StoreFacts
<1>3. e \in Events /\ i \in Nat /\ row[e] \in Nat /\ row[e] < i /\ i <= Len(events[e])
  BY <1>1, <1>2, StoreFacts DEF StoreInv, SignalsInOrder
<1>4. ASSUME row[e] + 1 < i PROVE FALSE
  <2> DEFINE s == Signal(e, row[e] + 1)
  <2>1. row[e] + 1 \in row[e] + 1 .. Len(events[e])
    BY <1>1, <1>3, <1>4, StoreFacts
  <2>2. InFlight(s)
    BY <1>3, <2>1 DEF StoreInv, SignalsInOrder
  <2>3. CASE s = emitting
    <3>1. emitting # NoSignal
      BY <1>3, <2>3, PipelineAssumption DEF Signal, NoSignal
    <3>2. i < row[e] + 1
      BY <1>2, <2>3, <3>1 DEF StoreInv, EmitLast, Signal
    <3> QED BY <1>3, <1>4, <3>2
  <2>4. ASSUME NEW j \in DOMAIN gui, gui[j] = s PROVE FALSE
    <3>1. gui[j].event = e /\ gui[j].index = row[e] + 1
      BY <2>4 DEF Signal
    <3>2. j # 1
      BY <1>3, <1>4, <3>1
    <3>3. 1 < j
      BY <1>1, <3>2, StoreFacts
    <3>4. i < row[e] + 1
      BY <1>2, <3>1, <3>3 DEF StoreInv, SignalsInOrder, OlderAhead
    <3> QED BY <1>3, <1>4, <3>4
  <2> QED BY <2>2, <2>3, <2>4 DEF InFlight
<1>5. i = row[e] + 1
  BY <1>3, <1>4
<1> QED BY <1>1, <1>2, <1>3, <1>5, StoreFacts

(* Delivering a signal keeps the others in order. *)
LEMMA DeliverKeeps ==
  ASSUME StoreInv, Deliver
  PROVE  (EmitLast /\ StoredHaveSegments /\ EachMessageOnce /\ SignalsInOrder)'
<1> DEFINE e == Head(gui).event
           i == Head(gui).index
<1>1. TypeOK /\ gui # <<>>
  BY DEF StoreInv, Deliver
<1>2. /\ Head(gui) = gui[1] /\ 1 \in DOMAIN gui
      /\ e \in Events /\ i = row[e] + 1 /\ i \in DOMAIN events[e]
  BY <1>1, DeliveredIsNext
<1>3. /\ gui' = Tail(gui) /\ UNCHANGED <<events, emitting>>
      /\ row' = [row EXCEPT ![e] = i]
  BY DEF Deliver, UpdateRow, ReplaceSegments, PostAlert, storeVars
<1>4. /\ DOMAIN gui' = 1 .. Len(gui) - 1
      /\ \A j \in DOMAIN gui' : j + 1 \in DOMAIN gui /\ gui'[j] = gui[j + 1]
      /\ \A j \in DOMAIN gui : j # 1 => j - 1 \in DOMAIN gui' /\ gui'[j - 1] = gui[j]
  BY <1>1, <1>3, StoreFacts
<1>5. \A f \in Events : row'[f] = IF f = e THEN i ELSE row[f]
  BY <1>1, <1>2, <1>3, StoreFacts
<1>6. StoredHaveSegments' /\ EachMessageOnce'
  BY <1>3 DEF StoreInv, StoredHaveSegments, EachMessageOnce
<1>7. ASSUME NEW j \in DOMAIN gui, j # 1, gui[j].event = e PROVE i < gui[j].index
  <2>1. 1 < j
    BY <1>1, <1>7, StoreFacts
  <2> QED BY <1>2, <1>7, <2>1 DEF StoreInv, SignalsInOrder, OlderAhead
<1>8. EmitLast'
  <2> SUFFICES ASSUME emitting # NoSignal PROVE EmitLast'
    BY <1>3 DEF EmitLast
  <2>1. emitting \in Signals
    BY DEF StoreInv, EmitStage
  <2>2. /\ emitting.index = Len(events[emitting.event])
        /\ row[emitting.event] < emitting.index
        /\ \A j \in DOMAIN gui :
             gui[j].event = emitting.event => gui[j].index < emitting.index
    BY DEF StoreInv, EmitLast
  <2>3. row'[emitting.event] < emitting.index
    BY <1>2, <1>5, <2>1, <2>2 DEF Signals
  <2> QED BY <1>3, <1>4, <2>2, <2>3 DEF EmitLast
<1>9. SignalsInOrder'
  <2>1. \A f \in Events : row'[f] <= Len(events'[f])
    BY <1>1, <1>2, <1>3, <1>5, StoreFacts DEF StoreInv, SignalsInOrder
  <2>2. ASSUME NEW f \in Events, NEW k \in row'[f] + 1 .. Len(events'[f])
        PROVE  InFlight(Signal(f, k))'
    <3>1. k \in row[f] + 1 .. Len(events[f]) /\ (f = e => k # i)
      BY <1>1, <1>2, <1>3, <1>5, StoreFacts
    <3>2. InFlight(Signal(f, k))
      BY <3>1 DEF StoreInv, SignalsInOrder
    <3>3. Signal(f, k) # gui[1]
      BY <1>2, <3>1 DEF Signal
    <3>4. CASE Signal(f, k) = emitting
      BY <1>3, <3>4 DEF InFlight, Signal
    <3>5. CASE \E j \in DOMAIN gui : gui[j] = Signal(f, k)
      BY <1>4, <3>3, <3>5 DEF InFlight, Signal
    <3> QED BY <3>2, <3>4, <3>5 DEF InFlight
  <2>3. ASSUME NEW j \in DOMAIN gui'
        PROVE  /\ row'[gui'[j].event] < gui'[j].index
               /\ gui'[j].index <= Len(events'[gui'[j].event])
    <3>1. j + 1 \in DOMAIN gui /\ gui'[j] = gui[j + 1] /\ j + 1 # 1
      BY <1>1, <1>4, StoreFacts
    <3>2. gui[j + 1].event \in Events
      BY <1>1, <3>1, StoreFacts
    <3>3. /\ row[gui[j + 1].event] < gui[j + 1].index
          /\ gui[j + 1].index <= Len(events[gui[j + 1].event])
      BY <3>1 DEF StoreInv, SignalsInOrder
    <3> QED BY <1>3, <1>5, <1>7, <3>1, <3>2, <3>3
  <2>4. ASSUME NEW j \in DOMAIN gui', NEW k \in DOMAIN gui',
               j < k, gui'[j].event = gui'[k].event
        PROVE  gui'[j].index < gui'[k].index
    <3>1. /\ j + 1 \in DOMAIN gui /\ gui'[j] = gui[j + 1]
          /\ k + 1 \in DOMAIN gui /\ gui'[k] = gui[k + 1]
      BY <1>4
    <3>2. j + 1 < k + 1
      BY <1>1, <1>4, <2>4, StoreFacts
    <3> QED BY <2>4, <3>1, <3>2 DEF StoreInv, SignalsInOrder, OlderAhead
  <2>5. OlderAhead'
    BY <2>4 DEF OlderAhead
  <2> QED BY <2>1, <2>2, <2>3, <2>5 DEF SignalsInOrder
<1> QED BY <1>6, <1>8, <1>9

(* No other action touches the events, the signals or the rows. *)
LEMMA StoringUnchanged ==
  [Next]_vars => StoreMessage \/ Emit \/ Deliver \/ UNCHANGED storing
BY DEF Next, PoolStep, AlertStep, Publish, TimerFires, StartRefresh, StartLocal,
   ListFiles, ListingFails, RequestUpdated, Receive, ReceiveFails, AllReceived,
   SkipMessage, Finish, Throw, SelectAlert, SelectIndex, ChangeProvider,
   OpenFile, CheckAlert, JudgeAlert, vars, storing, storeVars, guiVars

LEMMA StoreStep == StoreInv /\ [Next]_vars => StoreInv'
<1> SUFFICES ASSUME StoreInv, [Next]_vars PROVE StoreInv'
  OBVIOUS
<1>1. TypeOK /\ EmitStage /\ GuiStored /\ StoredHaveSegments
  BY DEF StoreInv, SignalsInOrder, GuiStored
<1>2. TypeOK' /\ EmitStage'
  BY <1>1, ServerType, ProviderType, RefreshType, StoreType, ReceiversType,
     AlertsType DEF TypeOK
<1>3. (EmitLast /\ StoredHaveSegments /\ EachMessageOnce /\ SignalsInOrder)'
  <2>1. CASE UNCHANGED storing
    BY <2>1 DEF StoreInv, storing, EmitLast, StoredHaveSegments, EachMessageOnce,
       SignalsInOrder, OlderAhead, InFlight
  <2> QED BY <2>1, StoreKeeps, EmitKeeps, DeliverKeeps, StoringUnchanged
<1> QED BY <1>2, <1>3 DEF StoreInv

(* Every variable has its type whatever messages are published, listed and *)
(* loaded, and whatever fails.                                             *)
THEOREM PipelineTypeCorrect == Spec => []TypeOK
<1>1. StoreInv => TypeOK
  BY DEF StoreInv
<1> QED BY <1>1, InitStore, StoreStep, PTL DEF Spec

(* An event never holds two messages with the same WMO header, however     *)
(* often the files are listed and loaded again.                            *)
THEOREM MessagesStayDistinct == Spec => []EachMessageOnce
<1>1. StoreInv => EachMessageOnce
  BY DEF StoreInv
<1> QED BY <1>1, InitStore, StoreStep, PTL DEF Spec

(* The signals of every event are delivered in the order of its messages,  *)
(* each exactly once.                                                      *)
THEOREM SignalsStayInOrder == Spec => []SignalsInOrder
<1>1. StoreInv => SignalsInOrder
  BY DEF StoreInv
<1> QED BY <1>1, InitStore, StoreStep, PTL DEF Spec

-----------------------------------------------------------------------------
(* The alert manager.                                                      *)

(* The alerts under way are of delivered messages, in the order of their   *)
(* event, newer than what has been judged.                                 *)
AlertsDelivered ==
  /\ \A i \in DOMAIN alerts :
       /\ judged[alerts[i].event] < alerts[i].index
       /\ alerts[i].index <= row[alerts[i].event]
  /\ \A i, j \in DOMAIN alerts :
       i < j /\ alerts[i].event = alerts[j].event => alerts[i].index < alerts[j].index
JudgingDelivered ==
  judging # NoSignal =>
    /\ judged[judging.event] < judging.index
    /\ judging.index <= row[judging.event]
    /\ \A i \in DOMAIN alerts :
         alerts[i].event = judging.event => judging.index < alerts[i].index
(* The newest delivered message is judged, unless a newer one is stored.   *)
DeliveredJudged ==
  \A e \in Events :
    \/ row[e] = judged[e]
    \/ row[e] < Len(events[e])
    \/ judging = Signal(e, row[e])
    \/ \E i \in DOMAIN alerts : alerts[i] = Signal(e, row[e])

JudgedDelivered == \A e \in Events : judged[e] <= row[e]

AlertInv ==
  AlertsDelivered /\ JudgingDelivered /\ JudgedDelivered /\ DeliveredJudged

alerting == <<alerts, alertVars, events, row>>

LEMMA AlertFacts ==
  ASSUME TypeOK
  PROVE  /\ alerts \in Seq(Signals) /\ Len(alerts) \in Nat
         /\ DOMAIN alerts = 1 .. Len(alerts)
         /\ \A i \in DOMAIN alerts :
              alerts[i] \in Signals /\ alerts[i].event \in Events
                /\ alerts[i].index \in Nat \ {0}
         /\ judging \in Signals \union {NoSignal}
         /\ judged \in [Events -> Nat]
<1>1. /\ alerts \in Seq(Signals) /\ judging \in Signals \union {NoSignal}
      /\ judged \in [Events -> Nat]
  BY DEF TypeOK, AlertsOK
<1>2. \A i \in DOMAIN alerts : alerts[i] \in Signals
  BY <1>1
<1> QED BY <1>1, <1>2 DEF Signals

LEMMA InitAlert == Init => AlertInv
BY DEF Init, AlertInv, AlertsDelivered, JudgingDelivered, JudgedDelivered,
   DeliveredJudged, NoSignal

(* A newer message in the store. *)
LEMMA AlertStore ==
  ASSUME StoreInv, AlertInv, StoreMessage
  PROVE  AlertInv'
<1> DEFINE m == Head(batch).message
           e == EventOf[m]
<1>1. TypeOK /\ batch # <<>>
  BY DEF StoreInv, StoreMessage
<1>2. m \in Messages /\ e \in Events
  BY <1>1, HeadType, PipelineAssumption
<1>3. events' = [events EXCEPT ![e] = Append(@, m)] /\ UNCHANGED <<row, alerts, judging, judged>>
  BY DEF StoreMessage, guiVars, alertVars
<1> HIDE DEF m
<1>4. \A f \in Events : Len(events[f]) <= Len(events'[f])
  BY <1>1, <1>2, <1>3, StoreFacts
<1>5. DeliveredJudged'
  <2> SUFFICES ASSUME NEW f \in Events
               PROVE  \/ row[f] = judged[f]
                      \/ row[f] < Len(events'[f])
                      \/ judging = Signal(f, row[f])
                      \/ \E i \in DOMAIN alerts : alerts[i] = Signal(f, row[f])
    BY <1>3 DEF DeliveredJudged, Signal
  <2>1. Len(events'[f]) \in Nat
    BY <1>1, <1>2, <1>3, StoreFacts
  <2>2. CASE row[f] < Len(events[f])
    BY <1>1, <1>4, <2>1, <2>2, StoreFacts
  <2> QED BY <2>2 DEF AlertInv, DeliveredJudged
<1>6. AlertsDelivered' /\ JudgingDelivered' /\ JudgedDelivered'
  BY <1>3 DEF AlertInv, AlertsDelivered, JudgingDelivered, JudgedDelivered
<1> QED BY <1>5, <1>6 DEF AlertInv

(* An alert is posted for the signal delivered. *)
LEMMA AlertDeliver ==
  ASSUME StoreInv, AlertInv, Deliver
  PROVE  AlertInv'
<1> DEFINE s == Head(gui)
           e == Head(gui).event
           k == Len(alerts) + 1
<1>1. TypeOK /\ gui # <<>>
  BY DEF StoreInv, Deliver
<1>2. s \in Signals /\ e \in Events /\ s.index = row[e] + 1 /\ row[e] \in Nat
  BY <1>1, DeliveredIsNext, StoreFacts
<1>3. /\ alerts' = Append(alerts, s) /\ UNCHANGED <<judging, judged, events>>
      /\ row' = [row EXCEPT ![e] = s.index]
  BY DEF Deliver, UpdateRow, ReplaceSegments, PostAlert, alertVars, storeVars
<1> HIDE DEF s, e
<1>4. /\ k \in Nat /\ DOMAIN alerts' = 1 .. k /\ DOMAIN alerts = 1 .. k - 1
      /\ \A i \in DOMAIN alerts : alerts'[i] = alerts[i]
      /\ alerts'[k] = s
  BY <1>1, <1>2, <1>3, AlertFacts
<1>5. /\ \A f \in Events : row'[f] = IF f = e THEN row[e] + 1 ELSE row[f]
      /\ \A f \in Events : row[f] \in Nat /\ row[f] <= row'[f] /\ row'[f] \in Nat
  BY <1>1, <1>2, <1>3, StoreFacts
<1>6. s.event = e
  BY DEF s, e
<1>7. \A i \in DOMAIN alerts : alerts[i].event = e => alerts[i].index < s.index
  BY <1>1, <1>2, AlertFacts DEF AlertInv, AlertsDelivered
<1>8. judged[e] < s.index
  <2>1. judged[e] <= row[e]
    BY <1>2 DEF AlertInv, JudgedDelivered
  <2> QED BY <1>1, <1>2, <2>1, AlertFacts
<1>9. AlertsDelivered'
  <2>1. ASSUME NEW i \in DOMAIN alerts'
        PROVE  /\ judged'[alerts'[i].event] < alerts'[i].index
               /\ alerts'[i].index <= row'[alerts'[i].event]
    <3>1. CASE i = k
      BY <1>2, <1>3, <1>4, <1>5, <1>6, <1>8, <3>1
    <3>2. CASE i # k
      <4>1. i \in DOMAIN alerts
        BY <1>4, <2>1, <3>2
      <4>2. /\ judged[alerts[i].event] < alerts[i].index
            /\ alerts[i].index <= row[alerts[i].event]
        BY <4>1 DEF AlertInv, AlertsDelivered
      <4>3. alerts[i].event \in Events /\ alerts[i].index \in Nat
        BY <1>1, <4>1, AlertFacts
      <4> QED BY <1>3, <1>4, <1>5, <4>1, <4>2, <4>3
    <3> QED BY <3>1, <3>2
  <2>2. ASSUME NEW i \in DOMAIN alerts', NEW j \in DOMAIN alerts',
               i < j, alerts'[i].event = alerts'[j].event
        PROVE  alerts'[i].index < alerts'[j].index
    <3>1. i \in DOMAIN alerts
      BY <1>4, <2>2
    <3>2. CASE j = k
      BY <1>4, <1>6, <1>7, <2>2, <3>1, <3>2
    <3>3. CASE j # k
      <4>1. j \in DOMAIN alerts
        BY <1>4, <2>2, <3>3
      <4> QED BY <1>4, <2>2, <3>1, <4>1 DEF AlertInv, AlertsDelivered
    <3> QED BY <3>2, <3>3
  <2> QED BY <2>1, <2>2 DEF AlertsDelivered
<1>10. JudgingDelivered'
  <2> SUFFICES ASSUME judging # NoSignal PROVE JudgingDelivered'
    BY <1>3 DEF JudgingDelivered
  <2>1. judging.event \in Events /\ judging.index \in Nat
    BY <1>1, AlertFacts DEF Signals
  <2>2. /\ judged[judging.event] < judging.index
        /\ judging.index <= row[judging.event]
        /\ \A i \in DOMAIN alerts :
             alerts[i].event = judging.event => judging.index < alerts[i].index
    BY DEF AlertInv, JudgingDelivered
  <2>3. judging.event = e => judging.index < s.index
    BY <1>2, <2>1, <2>2
  <2>4. ASSUME NEW i \in DOMAIN alerts', alerts'[i].event = judging.event
        PROVE  judging.index < alerts'[i].index
    <3>1. CASE i = k
      BY <1>4, <1>6, <2>3, <2>4, <3>1
    <3>2. CASE i # k
      <4>1. i \in DOMAIN alerts
        BY <1>4, <2>4, <3>2
      <4> QED BY <1>4, <2>2, <2>4, <4>1
    <3> QED BY <3>1, <3>2
  <2>5. judging.index <= row'[judging.event]
    BY <1>5, <2>1, <2>2
  <2> QED BY <1>3, <2>2, <2>4, <2>5 DEF JudgingDelivered
<1>11. DeliveredJudged'
  <2> SUFFICES ASSUME NEW f \in Events
               PROVE  \/ row'[f] = judged[f]
                      \/ row'[f] < Len(events[f])
                      \/ judging = Signal(f, row'[f])
                      \/ \E i \in DOMAIN alerts' : alerts'[i] = Signal(f, row'[f])
    BY <1>3 DEF DeliveredJudged, Signal
  <2>1. CASE f = e
    <3>1. s = Signal(e, row'[e])
      BY <1>2, <1>5, <1>6 DEF Signal, Signals
    <3>2. k \in DOMAIN alerts'
      BY <1>4
    <3> QED BY <1>4, <2>1, <3>1, <3>2
  <2>2. CASE f # e
    <3>1. row'[f] = row[f] /\ \A i \in DOMAIN alerts : i \in DOMAIN alerts'
      BY <1>4, <1>5, <2>2
    <3> QED BY <1>4, <3>1 DEF AlertInv, DeliveredJudged
  <2> QED BY <2>1, <2>2
<1>12. JudgedDelivered'
  <2> SUFFICES ASSUME NEW f \in Events PROVE judged[f] <= row'[f]
    BY <1>3 DEF JudgedDelivered
  <2> QED BY <1>1, <1>5, AlertFacts DEF AlertInv, JudgedDelivered
<1> QED BY <1>9, <1>10, <1>11, <1>12 DEF AlertInv

(* The alert's thread takes an alert, and passes over an old one. *)
LEMMA AlertCheck ==
  ASSUME StoreInv, AlertInv, CheckAlert
  PROVE  AlertInv'
<1> DEFINE s == Head(alerts)
<1>1. TypeOK /\ alerts # <<>> /\ judging = NoSignal
  BY DEF StoreInv, CheckAlert
<1>2. /\ s = alerts[1] /\ 1 \in DOMAIN alerts /\ s \in Signals
      /\ s.event \in Events /\ s.index \in Nat \ {0}
  BY <1>1, AlertFacts
<1>3. /\ judging' = IF Newest(s) THEN s ELSE NoSignal
      /\ alerts' = Tail(alerts) /\ UNCHANGED <<judged, events, row>>
  BY DEF CheckAlert, storeVars, guiVars
<1> HIDE DEF s
<1>4. /\ DOMAIN alerts' = 1 .. Len(alerts) - 1
      /\ \A j \in DOMAIN alerts' : /\ j + 1 \in DOMAIN alerts /\ 1 < j + 1
                                   /\ alerts'[j] = alerts[j + 1]
      /\ \A j \in DOMAIN alerts : j # 1 => j - 1 \in DOMAIN alerts' /\ alerts'[j - 1] = alerts[j]
  BY <1>1, <1>3, AlertFacts
<1>5. AlertsDelivered'
  <2>1. \A j \in DOMAIN alerts' :
          /\ judged'[alerts'[j].event] < alerts'[j].index
          /\ alerts'[j].index <= row'[alerts'[j].event]
    BY <1>3, <1>4 DEF AlertInv, AlertsDelivered
  <2>2. ASSUME NEW i \in DOMAIN alerts', NEW j \in DOMAIN alerts',
               i < j, alerts'[i].event = alerts'[j].event
        PROVE  alerts'[i].index < alerts'[j].index
    <3>1. i + 1 < j + 1
      BY <1>1, <1>4, <2>2, AlertFacts
    <3> QED BY <1>4, <2>2, <3>1 DEF AlertInv, AlertsDelivered
  <2> QED BY <2>1, <2>2 DEF AlertsDelivered
<1>6. \A j \in DOMAIN alerts' : alerts'[j].event = s.event => s.index < alerts'[j].index
  BY <1>2, <1>4 DEF AlertInv, AlertsDelivered
<1>7. judged[s.event] < s.index /\ s.index <= row[s.event]
  BY <1>2 DEF AlertInv, AlertsDelivered
<1>8. JudgingDelivered'
  BY <1>3, <1>6, <1>7 DEF JudgingDelivered
<1>9. DeliveredJudged'
  <2> SUFFICES ASSUME NEW f \in Events
               PROVE  \/ row[f] = judged[f]
                      \/ row[f] < Len(events[f])
                      \/ judging' = Signal(f, row[f])
                      \/ \E i \in DOMAIN alerts' : alerts'[i] = Signal(f, row[f])
    BY <1>3 DEF DeliveredJudged, Signal
  <2>1. judging # Signal(f, row[f]) \/ row[f] < Len(events[f]) \/ row[f] = judged[f]
    BY <1>1, PipelineAssumption DEF Signal, NoSignal
  <2>2. ASSUME NEW i \in DOMAIN alerts, alerts[i] = Signal(f, row[f])
        PROVE  \/ row[f] < Len(events[f])
               \/ judging' = Signal(f, row[f])
               \/ \E j \in DOMAIN alerts' : alerts'[j] = Signal(f, row[f])
    <3>1. CASE i # 1
      BY <1>4, <2>2, <3>1
    <3>2. CASE i = 1
      <4>1. s = Signal(f, row[f]) /\ s.event = f /\ s.index = row[f]
        BY <1>2, <2>2, <3>2 DEF Signal
      <4>2. CASE Newest(s)
        BY <1>3, <4>1, <4>2
      <4>3. CASE ~ Newest(s)
        BY <1>1, <4>1, <4>3, StoreFacts DEF Newest
      <4> QED BY <4>2, <4>3
    <3> QED BY <3>1, <3>2
  <2> QED BY <2>1, <2>2 DEF AlertInv, DeliveredJudged
<1>10. JudgedDelivered'
  BY <1>3 DEF AlertInv, JudgedDelivered
<1> QED BY <1>5, <1>8, <1>9, <1>10 DEF AlertInv

LEMMA AlertJudge ==
  ASSUME StoreInv, AlertInv, JudgeAlert
  PROVE  AlertInv'
<1> DEFINE e == judging.event
<1>1. TypeOK /\ judging # NoSignal
  BY DEF StoreInv, JudgeAlert
<1>2. judging \in Signals /\ e \in Events /\ judging.index \in Nat
  BY <1>1, AlertFacts DEF Signals
<1>3. /\ judged' = [judged EXCEPT ![e] = judging.index] /\ judging' = NoSignal
      /\ UNCHANGED <<alerts, events, row>>
  BY DEF JudgeAlert, storeVars, guiVars
<1>4. \A f \in Events : judged'[f] = IF f = e THEN judging.index ELSE judged[f]
  BY <1>1, <1>2, <1>3, AlertFacts
<1> HIDE DEF e
<1>5. /\ judging.index <= row[e]
      /\ \A i \in DOMAIN alerts : alerts[i].event = e => judging.index < alerts[i].index
  BY <1>1 DEF AlertInv, JudgingDelivered, e
<1>6. AlertsDelivered'
  BY <1>1, <1>3, <1>4, <1>5, AlertFacts DEF AlertInv, AlertsDelivered
<1>7. JudgingDelivered'
  BY <1>3 DEF JudgingDelivered
<1>8. DeliveredJudged'
  <2> SUFFICES ASSUME NEW f \in Events
               PROVE  \/ row[f] = judged'[f]
                      \/ row[f] < Len(events[f])
                      \/ \E i \in DOMAIN alerts : alerts[i] = Signal(f, row[f])
    BY <1>3 DEF DeliveredJudged, Signal
  <2>1. CASE judging = Signal(f, row[f])
    BY <1>4, <2>1 DEF Signal, e
  <2>2. CASE row[f] = judged[f]
    <3>1. CASE f = e
      <4>1. judged[e] < judging.index
        BY <1>1 DEF AlertInv, JudgingDelivered, e
      <4> QED BY <1>1, <1>2, <1>5, <2>2, <3>1, <4>1, StoreFacts, AlertFacts
    <3> QED BY <1>4, <2>2, <3>1
  <2> QED BY <2>1, <2>2 DEF AlertInv, DeliveredJudged
<1>9. JudgedDelivered'
  BY <1>3, <1>4, <1>5 DEF AlertInv, JudgedDelivered
<1> QED BY <1>6, <1>7, <1>8, <1>9 DEF AlertInv

LEMMA AlertInvStep ==
  StoreInv /\ AlertInv /\ [Next]_vars => AlertInv'
<1> SUFFICES ASSUME StoreInv, AlertInv, [Next]_vars PROVE AlertInv'
  OBVIOUS
<1>1. CASE UNCHANGED alerting
  BY <1>1 DEF AlertInv, AlertsDelivered, JudgingDelivered, JudgedDelivered,
     DeliveredJudged, alerting, alertVars
<1>2. \/ StoreMessage \/ Deliver \/ CheckAlert \/ JudgeAlert
      \/ UNCHANGED alerting
  BY DEF Next, PoolStep, AlertStep, Publish, TimerFires, StartRefresh,
     StartLocal, ListFiles, ListingFails, RequestUpdated, Receive,
     ReceiveFails, AllReceived, SkipMessage, Emit, Finish, Throw, SelectAlert,
     SelectIndex, ChangeProvider, OpenFile, vars, alerting, storeVars, guiVars
<1> QED BY <1>1, <1>2, AlertStore, AlertDeliver, AlertCheck, AlertJudge

LEMMA AlertImplies == StoreInv /\ AlertInv => NewestJudged
<1> SUFFICES ASSUME StoreInv, AlertInv PROVE NewestJudged
  OBVIOUS
<1>0. TypeOK
  BY DEF StoreInv
<1>1. judging # NoSignal => NotYetJudged(judging)
  BY DEF AlertInv, JudgingDelivered, NotYetJudged
<1>2. \A i \in DOMAIN alerts : NotYetJudged(alerts[i])
  BY DEF AlertInv, AlertsDelivered, NotYetJudged
<1>3. ASSUME NEW e \in Events, Len(events[e]) # 0
      PROVE  judged[e] = Len(events[e]) \/ AlertOnTheWay(Signal(e, Len(events[e])))
  <2>1. CASE row[e] < Len(events[e])
    <3>1. Len(events[e]) \in row[e] + 1 .. Len(events[e])
      BY <1>0, <2>1, StoreFacts
    <3> QED BY <3>1 DEF StoreInv, SignalsInOrder, AlertOnTheWay
  <2>2. CASE ~ (row[e] < Len(events[e]))
    <3>1. row[e] = Len(events[e])
      BY <1>0, <2>2, StoreFacts DEF StoreInv, SignalsInOrder
    <3> QED BY <2>2, <3>1 DEF AlertInv, DeliveredJudged, AlertOnTheWay
  <2> QED BY <2>1, <2>2
<1> QED BY <1>1, <1>2, <1>3 DEF NewestJudged

(* No burst of messages makes the alert manager skip the newest message of *)
(* an event, or judge one twice or out of order.                           *)
THEOREM NewestStaysJudged == Spec => []NewestJudged
BY InitStore, StoreStep, InitAlert, AlertInvStep, AlertImplies, PTL DEF Spec

-----------------------------------------------------------------------------
(* The alert dialog.                                                       *)

dialogued == <<dialog, events, emitting, gui>>

LEMMA DialogStep == StoreInv /\ DialogCorrected /\ [Next]_vars => DialogCorrected'
<1> SUFFICES ASSUME StoreInv, DialogCorrected, [Next]_vars, dialog'.event # NoEvent
             PROVE  DialogCorrected'
  BY DEF DialogCorrected
<1> DEFINE d == dialog.event
<1>0. /\ TypeOK /\ TypeOK'
      /\ dialog \in [event : Events \union {NoEvent}, count : Nat]
  BY StoreStep DEF StoreInv, TypeOK, ReceiversOK
<1>1. CASE StoreMessage
  <2> DEFINE m == Head(batch).message
             e == EventOf[m]
  <2>1. batch # <<>> /\ emitting = NoSignal
    BY <1>1 DEF StoreInv, EmitStage, StoreMessage
  <2>2. e \in Events
    BY <1>0, <2>1, HeadType, PipelineAssumption
  <2>3. /\ events' = [events EXCEPT ![e] = Append(@, m)]
        /\ emitting' = Signal(e, Len(events[e]) + 1)
        /\ UNCHANGED <<gui, dialog>>
    BY <1>1 DEF StoreMessage, IndexOfNew, guiVars
  <2>4. Len(events'[e]) = Len(events[e]) + 1 /\ \A f \in Events : f # e => events'[f] = events[f]
    BY <1>0, <2>2, <2>3, StoreFacts
  <2>5. d \in Events
    BY <1>0, <2>3
  <2>6. CASE d = e
    BY <2>3, <2>4, <2>6 DEF DialogCorrected, InFlight, Signal
  <2>7. CASE d # e
    <3>1. InFlight(Signal(d, Len(events[d]))) => InFlight(Signal(d, Len(events[d])))'
      <4>1. ASSUME Signal(d, Len(events[d])) = NoSignal PROVE FALSE
        BY <2>5, <4>1, PipelineAssumption DEF Signal, NoSignal
      <4> QED BY <2>1, <2>3, <2>4, <2>5, <2>7, <4>1 DEF InFlight, Signal
    <3> QED BY <2>3, <2>4, <2>5, <2>7, <3>1 DEF DialogCorrected
  <2> QED BY <2>6, <2>7
<1>2. CASE Emit
  <2>1. /\ gui' = Append(gui, emitting) /\ UNCHANGED <<dialog, events>>
        /\ emitting \in Signals
    BY <1>2 DEF Emit, guiVars, StoreInv, EmitStage
  <2>2. /\ \A i \in DOMAIN gui : i \in DOMAIN gui' /\ gui'[i] = gui[i]
        /\ Len(gui) + 1 \in DOMAIN gui' /\ gui'[Len(gui) + 1] = emitting
    BY <1>0, <2>1, StoreFacts
  <2>3. InFlight(Signal(d, Len(events[d]))) => InFlight(Signal(d, Len(events[d])))'
    BY <2>1, <2>2 DEF InFlight, Signal
  <2> QED BY <2>1, <2>3 DEF DialogCorrected
<1>3. CASE Deliver
  <2> DEFINE e == Head(gui).event
  <2>1. /\ gui' = Tail(gui) /\ gui # <<>> /\ UNCHANGED <<events, emitting>>
        /\ dialog' = IF d = e THEN [dialog EXCEPT !.count = Len(events[e])] ELSE dialog
        /\ e = gui[1].event
    BY <1>0, <1>3, DeliveredIsNext DEF Deliver, UpdateRow, ReplaceSegments, PostAlert, ShowCount, storeVars
  <2> HIDE DEF e
  <2>2. CASE d = e
    BY <1>0, <2>1, <2>2 DEF DialogCorrected
  <2>3. CASE d # e
    <3>1. \A i \in DOMAIN gui : i # 1 => i - 1 \in DOMAIN gui' /\ gui'[i - 1] = gui[i]
      BY <1>0, <2>1, StoreFacts
    <3>2. InFlight(Signal(d, Len(events[d]))) => InFlight(Signal(d, Len(events[d])))'
      <4>1. gui[1] # Signal(d, Len(events[d]))
        BY <2>1, <2>3 DEF Signal
      <4> QED BY <2>1, <2>3, <3>1, <4>1 DEF InFlight, Signal
    <3> QED BY <2>1, <2>3, <3>2 DEF DialogCorrected
  <2> QED BY <2>2, <2>3
<1>4. ASSUME NEW e \in Events, SelectAlert(e) PROVE DialogCorrected'
  BY <1>4 DEF SelectAlert, DialogCorrected, storeVars
<1>5. CASE SelectIndex
  BY <1>0, <1>5 DEF SelectIndex, ShowCount, DialogCorrected, storeVars
<1>6. CASE UNCHANGED dialogued
  BY <1>6 DEF dialogued, DialogCorrected, InFlight, Signal
<1> QED BY <1>1, <1>2, <1>3, <1>4, <1>5, <1>6
        DEF Next, PoolStep, AlertStep, Publish, TimerFires, StartRefresh,
        StartLocal, ListFiles, ListingFails, RequestUpdated, Receive,
        ReceiveFails, AllReceived, SkipMessage, Finish, Throw, ChangeProvider,
        OpenFile, CheckAlert, JudgeAlert, vars, dialogued, storeVars, guiVars

(* The dialog shows the number of messages of its event, or the signal     *)
(* that corrects it is under way.                                          *)
THEOREM DialogStaysCorrected == Spec => []DialogCorrected
<1>1. Init => DialogCorrected
  BY DEF Init, DialogCorrected
<1> QED BY <1>1, InitStore, StoreStep, DialogStep, PTL DEF Spec

-----------------------------------------------------------------------------
(* The segments of the alert layer.                                        *)

(* Every record is of a delivered message. *)
RecordsDelivered ==
  \A e \in Events : \A r \in records[e] : r.index \in 1 .. row[e]

layered == <<records, events, row>>

LEMMA SegmentFacts ==
  ASSUME TypeOK
  PROVE  records \in [Events -> SUBSET [index : Nat, segment : Nat, end : Int]]
  BY DEF TypeOK, ReceiversOK

LEMMA SegmentsDeliver ==
  ASSUME StoreInv, RecordsDelivered, SegmentsReplaced, Deliver
  PROVE  (RecordsDelivered /\ SegmentsReplaced)'
<1> DEFINE R == [index : Nat, segment : Nat, end : Int]
<1>1. TypeOK /\ gui # <<>>
  BY DEF StoreInv, Deliver
<1>e. PICK e \in Events : e = Head(gui).event
  BY <1>1, DeliveredIsNext
<1>i. PICK i \in Nat : i = Head(gui).index
  BY <1>1, DeliveredIsNext, StoreFacts
<1>m. PICK m \in Messages : m = events[e][i]
  BY <1>1, <1>e, <1>i, DeliveredIsNext, StoreFacts
<1>2. i = row[e] + 1 /\ i \in DOMAIN events[e] /\ row[e] \in Nat
  BY <1>1, <1>e, <1>i, DeliveredIsNext, StoreFacts
<1>3. m \in HasVtec /\ FirstBegin(m) \in Int
  BY <1>2, <1>m, FirstBeginType DEF StoreInv, StoredHaveSegments
<1>4. /\ UNCHANGED events
      /\ row' = [row EXCEPT ![e] = i]
      /\ records' = [records EXCEPT ![e] = CutRecords(e, m) \union NewRecords(m, i)]
  BY <1>e, <1>i, <1>m DEF Deliver, UpdateRow, ReplaceSegments, PostAlert, storeVars
<1>5. /\ \A f \in Events : row'[f] = IF f = e THEN i ELSE row[f]
      /\ \A f \in Events : f # e => records'[f] = records[f]
      /\ records'[e] = CutRecords(e, m) \union NewRecords(m, i)
  BY <1>1, <1>2, <1>4, StoreFacts, SegmentFacts
<1>6. m = events[e][i]
  BY <1>m
<1>7. ASSUME NEW r \in NewRecords(m, i)
      PROVE  /\ r.index \in 1 .. row'[e] /\ EndsWith(e, r, r.end)'
             /\ \A j \in r.index + 1 .. row'[e] : r.end <= FirstBegin(events'[e][j])
  <2>1. PICK n \in DOMAIN Segments[m] : r = NewRecord(m, i, n)
    BY <1>7 DEF NewRecords
  <2>2. r.index = i /\ r.segment = n /\ r.end = Segments[m][n].end
    BY <2>1 DEF NewRecord
  <2>3. i \in 1 .. i /\ i + 1 .. i = {}
    BY <1>2
  <2> QED BY <1>2, <1>4, <1>5, <1>6, <2>2, <2>3 DEF EndsWith
<1>8. ASSUME NEW r \in CutRecords(e, m)
      PROVE  /\ r.index \in 1 .. row'[e] /\ EndsWith(e, r, r.end)'
             /\ \A j \in r.index + 1 .. row'[e] : r.end <= FirstBegin(events'[e][j])
  <2>1. PICK q \in records[e] : r = [q EXCEPT !.end = Earlier(q.end, FirstBegin(m))]
    BY <1>8 DEF CutRecords
  <2>2. q \in R /\ q.index \in 1 .. row[e]
    BY <1>1, <1>2, SegmentFacts DEF RecordsDelivered
  <2>3. /\ r.index = q.index /\ r.segment = q.segment
        /\ r.end = Earlier(q.end, FirstBegin(m))
    BY <2>1, <2>2
  <2>4. /\ EndsWith(e, q, q.end)
        /\ \A j \in q.index + 1 .. row[e] : q.end <= FirstBegin(events[e][j])
    BY <1>2 DEF SegmentsReplaced
  <2>5. /\ r.end \in Int /\ r.end <= q.end /\ r.end <= FirstBegin(m)
        /\ r.end = q.end \/ r.end = FirstBegin(m)
    BY <1>3, <2>2, <2>3 DEF Earlier
  <2>6. row'[e] = i /\ i \in q.index + 1 .. i /\ q.index \in 1 .. i
    BY <1>2, <1>5, <2>2
  <2>7. EndsWith(e, r, r.end)'
    <3>1. CASE r.end = FirstBegin(m)
      BY <1>4, <1>6, <2>3, <2>6, <3>1 DEF EndsWith
    <3>2. CASE r.end = q.end
      <4>1. CASE q.end = Segments[events[e][q.index]][q.segment].end
        BY <1>4, <2>3, <3>2, <4>1 DEF EndsWith
      <4>2. ASSUME NEW j \in q.index + 1 .. row[e], q.end = FirstBegin(events[e][j])
            PROVE  EndsWith(e, r, r.end)'
        <5>1. j \in q.index + 1 .. i
          BY <1>2, <2>2
        <5> QED BY <1>4, <2>3, <2>6, <3>2, <4>2, <5>1 DEF EndsWith
      <4> QED BY <2>4, <4>1, <4>2 DEF EndsWith
    <3> QED BY <2>5, <3>1, <3>2
  <2>8. ASSUME NEW j \in q.index + 1 .. i PROVE r.end <= FirstBegin(events[e][j])
    <3>1. CASE j = i
      BY <1>6, <2>5, <3>1
    <3>2. CASE j # i
      <4>1. j \in q.index + 1 .. row[e] /\ j \in DOMAIN events[e]
        BY <1>1, <1>2, <2>2, <3>2, StoreFacts
      <4>2. FirstBegin(events[e][j]) \in Int
        BY <1>2, <4>1, FirstBeginType DEF StoreInv, StoredHaveSegments
      <4> QED BY <2>2, <2>4, <2>5, <4>1, <4>2
    <3> QED BY <3>1, <3>2
  <2> QED BY <1>4, <2>3, <2>6, <2>7, <2>8
<1>9. ASSUME NEW f \in Events, NEW r \in records'[f]
      PROVE  /\ r.index \in 1 .. row'[f] /\ EndsWith(f, r, r.end)'
             /\ \A j \in r.index + 1 .. row'[f] : r.end <= FirstBegin(events'[f][j])
  <2>1. CASE f = e
    BY <1>5, <1>7, <1>8, <1>9, <2>1
  <2>2. CASE f # e
    BY <1>4, <1>5, <1>9, <2>2 DEF RecordsDelivered, SegmentsReplaced, EndsWith
  <2> QED BY <2>1, <2>2
<1> QED BY <1>9 DEF RecordsDelivered, SegmentsReplaced

(* A new message of an event changes no delivered one. *)
LEMMA SegmentsStore ==
  ASSUME StoreInv, RecordsDelivered, SegmentsReplaced, StoreMessage
  PROVE  (RecordsDelivered /\ SegmentsReplaced)'
<1> DEFINE m == Head(batch).message
           e == EventOf[m]
<1>1. TypeOK /\ batch # <<>>
  BY DEF StoreInv, StoreMessage
<1>2. m \in Messages /\ e \in Events
  BY <1>1, HeadType, PipelineAssumption
<1>3. events' = [events EXCEPT ![e] = Append(@, m)] /\ UNCHANGED <<row, records>>
  BY DEF StoreMessage, guiVars
<1> HIDE DEF m
<1>4. \A f \in Events : \A j \in 1 .. row[f] : events'[f][j] = events[f][j]
  BY <1>1, <1>2, <1>3, StoreFacts DEF StoreInv, SignalsInOrder
<1>5. ASSUME NEW f \in Events, NEW r \in records[f]
      PROVE  /\ EndsWith(f, r, r.end)'
             /\ \A j \in r.index + 1 .. row[f] : r.end <= FirstBegin(events'[f][j])
  <2>1. row[f] \in Nat /\ r.index \in 1 .. row[f]
    BY <1>1, StoreFacts DEF RecordsDelivered
  <2>2. /\ events'[f][r.index] = events[f][r.index]
        /\ \A j \in r.index + 1 .. row[f] : events'[f][j] = events[f][j]
    BY <1>4, <2>1
  <2> QED BY <1>3, <2>2 DEF SegmentsReplaced, EndsWith
<1> QED BY <1>3, <1>5 DEF RecordsDelivered, SegmentsReplaced

LEMMA SegmentsStep ==
  StoreInv /\ RecordsDelivered /\ SegmentsReplaced /\ [Next]_vars
    => (RecordsDelivered /\ SegmentsReplaced)'
<1> SUFFICES ASSUME StoreInv, RecordsDelivered, SegmentsReplaced, [Next]_vars
             PROVE  (RecordsDelivered /\ SegmentsReplaced)'
  OBVIOUS
<1>1. CASE UNCHANGED layered
  BY <1>1 DEF layered, RecordsDelivered, SegmentsReplaced, EndsWith
<1>2. StoreMessage \/ Deliver \/ UNCHANGED layered
  BY DEF Next, PoolStep, AlertStep, Publish, TimerFires, StartRefresh,
     StartLocal, ListFiles, ListingFails, RequestUpdated, Receive,
     ReceiveFails, AllReceived, SkipMessage, Emit, Finish, Throw, SelectAlert,
     SelectIndex, ChangeProvider, OpenFile, CheckAlert, JudgeAlert, vars,
     layered, storeVars, guiVars
<1> QED BY <1>1, <1>2, SegmentsStore, SegmentsDeliver

(* A segment is shown until it ends or until a later message of its event  *)
(* begins: two messages of an event never overlap.                         *)
THEOREM SegmentsStayReplaced == Spec => []SegmentsReplaced
<1>1. Init => RecordsDelivered /\ SegmentsReplaced
  BY DEF Init, RecordsDelivered, SegmentsReplaced
<1> QED BY <1>1, InitStore, StoreStep, SegmentsStep, PTL DEF Spec
=============================================================================

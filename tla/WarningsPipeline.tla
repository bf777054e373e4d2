-------------------------- MODULE WarningsPipeline --------------------------
(***************************************************************************)
(* How a published warning reaches the user: the warnings provider, the    *)
(* text event manager, the alert manager, the alert list, the alert        *)
(* dialog and the records of the alert layer.                              *)
(*                                                                         *)
(* TextEventManager's pool has one thread.  It runs the refreshes, each of *)
(* which arms the timer of the next one, and the loads of local files.  A  *)
(* message stored in an event is announced by the signal AlertUpdated,     *)
(* which the GUI thread delivers, from its queue, to every receiver.  The  *)
(* alert manager's receiver only posts to a pool of one thread of its own. *)
(*                                                                         *)
(* The providers a user may choose from serve the same files.              *)
(***************************************************************************)
EXTENDS Integers, Sequences, FiniteSets

CONSTANTS
  Messages,      \* the text products
  Initial,       \* the content of each file when the program starts
  Publishable,   \* the messages the server may publish afterwards
  Events,        \* the VTEC events: office, phenomenon, significance, number
  Headers,       \* the WMO headers
  EventOf,       \* the event of a message, from the VTEC of its first segment
  HeaderOf,      \* the WMO header of a message
  Segments,      \* its segments: <<[begin, end, located], ...>>
  HasVtec,       \* the messages whose segments all have a header and a VTEC
  NFiles,        \* the files of the server, in the order of their names
  FileOf,        \* the file a message is published in
  LocalFile,     \* the content of a file the user opens
  MaxLoads,      \* bound on the files opened by the user
  MaxProviders,  \* bound on the provider objects
  NoEvent,       \* no event is selected in the dialog
  FaultSets      \* what may go wrong: a behaviour has the faults of one of them

Files     == 1 .. NFiles
Providers == 1 .. MaxProviders
Unlisted  == -1

(* A listing or a download fails, a change does not show in the listing,   *)
(* an exception is thrown.                                                 *)
FaultKinds == {"listing", "download", "unchanged", "exception"}

ASSUME PipelineAssumption ==
  /\ Publishable \subseteq Messages
  /\ Initial \in [Files -> Seq(Messages)]
  /\ EventOf \in [Messages -> Events]
  /\ HeaderOf \in [Messages -> Headers]
  /\ Segments \in [Messages -> Seq([begin : Int, end : Int, located : BOOLEAN])]
  /\ HasVtec \subseteq {m \in Messages : Segments[m] # <<>>}
  /\ NFiles \in Nat
  /\ FileOf \in [Messages -> Files]
  /\ LocalFile \in Seq(Messages)
  /\ MaxLoads \in Nat
  /\ MaxProviders \in Nat \ {0}
  /\ NoEvent \notin Events
  /\ FaultSets \subseteq SUBSET FaultKinds

VARIABLES
  faults,     \* what may go wrong in this behaviour
  server,     \* the content of each file on the server
  stamp,      \* the time and size of each file, as a listing shows them
  current,    \* warningsProvider_
  listed,     \* files_ of each provider: the time and size of each file
  updated,    \* files_ of each provider: the files with updated_ set
  jobs,       \* jobs posted to the text event manager's pool
  timer,      \* whether refreshTimer_ is pending
  pc,         \* where the pool's thread is
  job,        \* the job it runs
  using,      \* the provider Refresh has taken a copy of
  asked,      \* the requests under way: file and content when asked for
  batch,      \* messages loaded and not handled yet
  emitting,   \* the signal to emit after the mutex is released
  events,     \* textEventMap_: the messages of each event
  gui,        \* AlertUpdated signals in the queue of the GUI thread
  row,        \* AlertModel: the messages each row has been told of
  records,    \* AlertLayerHandler: segmentsByKey_
  dialog,     \* AlertDialog: key_ and the number of messages it shows
  alerts,     \* jobs posted to the alert manager's pool
  judging,    \* the alert its thread has found to be the newest
  judged,     \* the last message of each event judged for a sound
  loads       \* files opened by the user, for the bound

serverVars   == <<server, stamp>>
providerVars == <<current, listed, updated>>
refreshVars  == <<timer, pc, job, using, asked, batch>>
storeVars    == <<emitting, events>>
guiVars      == <<row, records, dialog>>
alertVars    == <<judging, judged>>
vars == <<faults, serverVars, providerVars, jobs, refreshVars, storeVars, gui,
          guiVars, alerts, alertVars, loads>>

Signal(e, i) == [event |-> e, index |-> i]
Signals      == [event : Events, index : Nat \ {0}]
NoSignal     == [event |-> NoEvent, index |-> 0]
Jobs         == {"refresh", "local"}
NoAsk        == [f \in {} |-> 0]

Init ==
  /\ faults \in FaultSets
  /\ server = Initial
  /\ stamp = [f \in Files |-> 0]
  /\ current = 1
  /\ listed = [p \in Providers |-> [f \in Files |-> Unlisted]]
  /\ updated = [p \in Providers |-> {}]
  /\ jobs = <<"refresh">>
  /\ timer = FALSE
  /\ pc = "idle"
  /\ job = "refresh"
  /\ using = 1
  /\ asked = NoAsk
  /\ batch = <<>>
  /\ emitting = NoSignal
  /\ events = [e \in Events |-> <<>>]
  /\ gui = <<>>
  /\ row = [e \in Events |-> 0]
  /\ records = [e \in Events |-> {}]
  /\ dialog = [event |-> NoEvent, count |-> 0]
  /\ alerts = <<>>
  /\ judging = NoSignal
  /\ judged = [e \in Events |-> 0]
  /\ loads = 0

-----------------------------------------------------------------------------
(* The server.                                                             *)

Published(m) == \E i \in DOMAIN server[FileOf[m]] : server[FileOf[m]][i] = m

(* A message is appended to its file.  The listing shows minutes and a     *)
(* rounded size, so that the change may not be visible in it.              *)
Publish(m) ==
  /\ ~ Published(m)
  /\ server' = [server EXCEPT ![FileOf[m]] = Append(@, m)]
  /\ \E visible \in {TRUE, "unchanged" \notin faults} :
       stamp' = [stamp EXCEPT ![FileOf[m]] = IF visible THEN @ + 1 ELSE @]
  /\ UNCHANGED <<faults, providerVars, jobs, refreshVars, storeVars, gui,
                 guiVars, alerts, alertVars, loads>>

Existing == {f \in Files : server[f] # <<>>}

-----------------------------------------------------------------------------
(* The pool of the text event manager.                                     *)

(* The handler of the timer, on the same pool, posts the next refresh. *)
TimerFires ==
  /\ timer
  /\ timer' = FALSE
  /\ jobs' = Append(jobs, "refresh")
  /\ UNCHANGED <<faults, serverVars, providerVars, pc, job, using, asked, batch,
                 storeVars, gui, guiVars, alerts, alertVars, loads>>

Goto(step) == pc' = step

(* The copy of the pointer ends with Refresh, and with it a provider that  *)
(* has been replaced meanwhile.                                            *)
Release ==
  IF using # current
    THEN /\ listed' = [listed EXCEPT ![using] = [f \in Files |-> Unlisted]]
         /\ updated' = [updated EXCEPT ![using] = {}]
    ELSE UNCHANGED <<listed, updated>>

(* Refresh takes the mutex and a copy of the provider pointer. *)
StartRefresh ==
  /\ pc = "idle" /\ jobs # <<>> /\ Head(jobs) = "refresh"
  /\ jobs' = Tail(jobs)
  /\ job' = "refresh"
  /\ using' = current
  /\ Goto("list")
  /\ UNCHANGED <<faults, serverVars, providerVars, timer, asked, batch,
                 storeVars, gui, guiVars, alerts, alertVars, loads>>

(* What TextProductFile::LoadData keeps of a content: of the messages with *)
(* the same WMO header, the first.                                         *)
Loaded(content) ==
  [i \in DOMAIN content |->
     [message |-> content[i],
      duplicate |-> \E j \in 1 .. i - 1 :
                      HeaderOf[content[j]] = HeaderOf[content[i]]]]

(* LoadFile: a file opened by the user. *)
StartLocal ==
  /\ pc = "idle" /\ jobs # <<>> /\ Head(jobs) = "local"
  /\ jobs' = Tail(jobs)
  /\ job' = "local"
  /\ batch' = Loaded(LocalFile)
  /\ Goto("handle")
  /\ UNCHANGED <<faults, serverVars, providerVars, timer, using, asked,
                 storeVars, gui, guiVars, alerts, alertVars, loads>>

-----------------------------------------------------------------------------
(* WarningsProvider.                                                       *)

(* A file is to be loaded when it is new, or has changed since the last    *)
(* listing, or still was to be loaded.                                     *)
NeverMarkedChanged(p, f) == listed[p][f] = Unlisted \/ f \in updated[p]
MarkedUpdated(p, f) ==
  \/ listed[p][f] = Unlisted
  \/ f \in updated[p]
  \/ listed[p][f] # stamp[f]

(* The new map replaces the old one: a file that is not listed is          *)
(* forgotten.                                                              *)
StoreListing(p, found) ==
  /\ listed' = [listed EXCEPT ![p] =
                  [f \in Files |-> IF f \in found THEN stamp[f] ELSE Unlisted]]
  /\ updated' = [updated EXCEPT ![p] = {f \in found : MarkedUpdated(p, f)}]

ListFiles ==
  /\ pc = "list"
  /\ StoreListing(using, Existing)
  /\ Goto(IF updated'[using] = {} THEN "handle" ELSE "request")
  /\ UNCHANGED <<faults, serverVars, current, jobs, timer, job, using, asked,
                 batch, storeVars, gui, guiVars, alerts, alertVars, loads>>

(* A bad response is an empty listing. *)
ListingFails ==
  /\ "listing" \in faults
  /\ pc = "list"
  /\ StoreListing(using, {})
  /\ Goto("handle")
  /\ UNCHANGED <<faults, serverVars, current, jobs, timer, job, using, asked,
                 batch, storeVars, gui, guiVars, alerts, alertVars, loads>>

(* LoadUpdatedFiles asks for all of them at once and clears updated_.      *)
RequestUpdated ==
  /\ pc = "request"
  /\ asked' = [f \in updated[using] |-> Len(server[f])]
  /\ updated' = [updated EXCEPT ![using] = {}]
  /\ Goto("receive")
  /\ UNCHANGED <<faults, serverVars, current, listed, jobs, timer, job, using,
                 batch, storeVars, gui, guiVars, alerts, alertVars, loads>>

(* The responses are waited for in the order of the names.  A response     *)
(* holds the file as it was at some time since the request.                *)
NextResponse(f) == f \in DOMAIN asked /\ \A g \in DOMAIN asked : f <= g

Answered(f) == asked' = [g \in DOMAIN asked \ {f} |-> asked[g]]

Receive(f) ==
  /\ pc = "receive"
  /\ NextResponse(f)
  /\ Answered(f)
  /\ \E n \in asked[f] .. Len(server[f]) :
       batch' = batch \o Loaded(SubSeq(server[f], 1, n))
  /\ UNCHANGED <<faults, serverVars, providerVars, jobs, timer, pc, job, using,
                 storeVars, gui, guiVars, alerts, alertVars, loads>>

(* The request fails: the file is not asked for again until it changes.    *)
ReceiveFails(f) ==
  /\ "download" \in faults
  /\ pc = "receive"
  /\ NextResponse(f)
  /\ Answered(f)
  /\ UNCHANGED <<faults, serverVars, providerVars, jobs, timer, pc, job, using,
                 batch, storeVars, gui, guiVars, alerts, alertVars, loads>>

AllReceived ==
  /\ pc = "receive"
  /\ DOMAIN asked = {}
  /\ Goto("handle")
  /\ UNCHANGED <<faults, serverVars, providerVars, jobs, timer, job, using,
                 asked, batch, storeVars, gui, guiVars, alerts, alertVars, loads>>

-----------------------------------------------------------------------------
(* TextEventManager::Impl::HandleMessage.                                  *)

Stored(e, h) == \E i \in DOMAIN events[e] : HeaderOf[events[e][i]] = h

AlwaysNew(m) == m \in HasVtec
Storable(m) ==
  /\ m \in HasVtec
  /\ ~ Stored(EventOf[m], HeaderOf[m])

(* The message is added to its event, under textEventMutex_. *)
IndexOfFirst(m) == 1
IndexFromZero(m) == Len(events[EventOf[m]])
IndexOfNew(m) == Len(events[EventOf[m]]) + 1

StoreMessage ==
  /\ pc = "handle" /\ batch # <<>>
  /\ ~ Head(batch).duplicate
  /\ LET m == Head(batch).message
     IN  /\ Storable(m)
         /\ events' = [events EXCEPT ![EventOf[m]] = Append(@, m)]
         /\ emitting' = Signal(EventOf[m], IndexOfNew(m))
  /\ batch' = Tail(batch)
  /\ Goto("emit")
  /\ UNCHANGED <<faults, serverVars, providerVars, jobs, timer, job, using,
                 asked, gui, guiVars, alerts, alertVars, loads>>

SkipMessage ==
  /\ pc = "handle" /\ batch # <<>>
  /\ Head(batch).duplicate \/ ~ Storable(Head(batch).message)
  /\ batch' = Tail(batch)
  /\ UNCHANGED <<faults, serverVars, providerVars, jobs, timer, pc, job, using,
                 asked, storeVars, gui, guiVars, alerts, alertVars, loads>>

(* The signal is emitted after the mutex is released. *)
Emit ==
  /\ pc = "emit"
  /\ gui' = Append(gui, emitting)
  /\ emitting' = NoSignal
  /\ Goto("handle")
  /\ UNCHANGED <<faults, serverVars, providerVars, jobs, timer, job, using,
                 asked, batch, events, guiVars, alerts, alertVars, loads>>

(* The end of Refresh arms the timer, the end of LoadFile does not. *)
Rearm == timer' = (timer \/ job = "refresh")

Finish ==
  /\ pc = "handle" /\ batch = <<>>
  /\ Rearm
  /\ Release
  /\ Goto("idle")
  /\ UNCHANGED <<faults, serverVars, current, jobs, job, using, asked, batch,
                 storeVars, gui, guiVars, alerts, alertVars, loads>>

(* An exception is logged by the job: no timer is armed. *)
Throw ==
  /\ "exception" \in faults
  /\ pc \in {"list", "request", "handle"}
  /\ Goto("idle")
  /\ asked' = NoAsk
  /\ batch' = <<>>
  /\ Release
  /\ UNCHANGED <<faults, serverVars, current, jobs, timer, job, using,
                 storeVars, gui, guiVars, alerts, alertVars, loads>>

PoolStep ==
  \/ TimerFires
  \/ StartRefresh \/ StartLocal
  \/ ListFiles \/ ListingFails
  \/ RequestUpdated
  \/ \E f \in Files : Receive(f) \/ ReceiveFails(f)
  \/ AllReceived
  \/ StoreMessage \/ SkipMessage \/ Emit \/ Finish \/ Throw

-----------------------------------------------------------------------------
(* The GUI thread.                                                         *)

(* AlertLayerHandler::HandleAlert: the segments of earlier messages end    *)
(* where the first segment of the new one begins, and those of the new one *)
(* are added, the ones without a location excepted.                        *)
Earlier(a, b) == IF a < b THEN a ELSE b

FirstBegin(m) == Segments[m][1].begin

UncutRecords(e, m) == records[e]
CutRecords(e, m) ==
  {[r EXCEPT !.end = Earlier(r.end, FirstBegin(m))] : r \in records[e]}

NewRecord(m, i, n) ==
  [index |-> i, segment |-> n, end |-> Segments[m][n].end]

NewRecords(m, i) ==
  {NewRecord(m, i, n) : n \in {k \in DOMAIN Segments[m] : Segments[m][k].located}}

ReplaceSegments(e, i) ==
  records' = [records EXCEPT ![e] = CutRecords(e, events[e][i])
                                      \union NewRecords(events[e][i], i)]

(* AlertModel::HandleAlert: the row takes its data from the message. *)
UpdateRow(e, i) == row' = [row EXCEPT ![e] = i]

(* The alert manager posts the alert to its pool. *)
PostAlert(s) == alerts' = Append(alerts, s)

(* AlertDialogImpl::UpdateAlertInfo, if the event is the one selected. *)
CountOnOpen(e) == UNCHANGED dialog
ShowCount(e) ==
  dialog' = IF dialog.event = e
              THEN [dialog EXCEPT !.count = Len(events[e])] ELSE dialog

(* The receivers of AlertUpdated, one after the other. *)
Deliver ==
  /\ gui # <<>>
  /\ LET s == Head(gui)
     IN  /\ UpdateRow(s.event, s.index)
         /\ ReplaceSegments(s.event, s.index)
         /\ ShowCount(s.event)
         /\ PostAlert(s)
  /\ gui' = Tail(gui)
  /\ UNCHANGED <<faults, serverVars, providerVars, jobs, refreshVars, storeVars,
                 alertVars, loads>>

(* AlertDialog::SelectAlert, for an event of the list: its last message. *)
SelectAlert(e) ==
  /\ row[e] # 0
  /\ dialog' = [event |-> e, count |-> Len(events[e])]
  /\ UNCHANGED <<faults, serverVars, providerVars, jobs, refreshVars, storeVars,
                 gui, row, records, alerts, alertVars, loads>>

(* AlertDialogImpl::SelectIndex, from the buttons: whichever message of    *)
(* the event is shown, the count is taken anew.                            *)
SelectIndex ==
  /\ dialog.event # NoEvent
  /\ ShowCount(dialog.event)
  /\ UNCHANGED <<faults, serverVars, providerVars, jobs, refreshVars, storeVars,
                 gui, row, records, alerts, alertVars, loads>>

(* The setting of the provider changes: a new object without files. *)
ChangeProvider ==
  /\ current < MaxProviders
  /\ current' = current + 1
  /\ UNCHANGED <<faults, serverVars, listed, updated, jobs, refreshVars,
                 storeVars, gui, guiVars, alerts, alertVars, loads>>

OpenFile ==
  /\ loads < MaxLoads
  /\ loads' = loads + 1
  /\ jobs' = Append(jobs, "local")
  /\ UNCHANGED <<faults, serverVars, providerVars, refreshVars, storeVars, gui,
                 guiVars, alerts, alertVars>>

-----------------------------------------------------------------------------
(* AlertManager::Impl::HandleAlert, on its own thread.                     *)

(* "Skip alert if there are more messages to be processed." *)
NewestOffByOne(s) == Len(events[s.event]) < s.index
Newest(s) == Len(events[s.event]) <= s.index

CheckAlert ==
  /\ judging = NoSignal
  /\ alerts # <<>>
  /\ judging' = IF Newest(Head(alerts)) THEN Head(alerts) ELSE NoSignal
  /\ alerts' = Tail(alerts)
  /\ UNCHANGED <<faults, serverVars, providerVars, jobs, refreshVars, storeVars,
                 gui, guiVars, judged, loads>>

(* The message is looked up again and each of its segments may sound. *)
JudgeAlert ==
  /\ judging # NoSignal
  /\ judged' = [judged EXCEPT ![judging.event] = judging.index]
  /\ judging' = NoSignal
  /\ UNCHANGED <<faults, serverVars, providerVars, jobs, refreshVars, storeVars,
                 gui, guiVars, alerts, loads>>

AlertStep == CheckAlert \/ JudgeAlert

-----------------------------------------------------------------------------
Next ==
  \/ \E m \in Publishable : Publish(m)
  \/ PoolStep
  \/ Deliver
  \/ \E e \in Events : SelectAlert(e)
  \/ SelectIndex
  \/ ChangeProvider
  \/ OpenFile
  \/ AlertStep

Fairness ==
  /\ WF_vars(PoolStep)
  /\ SF_vars(ListFiles)
  /\ WF_vars(Deliver)
  /\ WF_vars(AlertStep)

Spec == Init /\ [][Next]_vars /\ Fairness

-----------------------------------------------------------------------------
(* The type of every variable. *)
FaultsOK == faults \in FaultSets
ServerOK ==
  /\ server \in [Files -> Seq(Messages)]
  /\ stamp \in [Files -> Nat]
ProviderOK ==
  /\ current \in Providers
  /\ listed \in [Providers -> [Files -> Nat \union {Unlisted}]]
  /\ updated \in [Providers -> SUBSET Files]
RefreshOK ==
  /\ jobs \in Seq(Jobs)
  /\ timer \in BOOLEAN
  /\ pc \in {"idle", "list", "request", "receive", "handle", "emit"}
  /\ job \in Jobs
  /\ using \in Providers
  /\ DOMAIN asked \subseteq Files
  /\ asked \in [DOMAIN asked -> Nat]
  /\ batch \in Seq([message : Messages, duplicate : BOOLEAN])
StoreOK ==
  /\ emitting \in Signals \union {NoSignal}
  /\ events \in [Events -> Seq(Messages)]
ReceiversOK ==
  /\ gui \in Seq(Signals)
  /\ row \in [Events -> Nat]
  /\ records \in [Events -> SUBSET [index : Nat, segment : Nat, end : Int]]
  /\ dialog \in [event : Events \union {NoEvent}, count : Nat]
AlertsOK ==
  /\ alerts \in Seq(Signals)
  /\ judging \in Signals \union {NoSignal}
  /\ judged \in [Events -> Nat]
TypeOK ==
  /\ FaultsOK /\ ServerOK /\ ProviderOK /\ RefreshOK /\ StoreOK
  /\ ReceiversOK /\ AlertsOK /\ loads \in Nat

(* However often a file is listed and loaded again, by whichever provider, *)
(* and whatever files the user opens, an event holds a message of a WMO    *)
(* header at most once (text_event_manager.cpp, HandleMessage).            *)
EachMessageOnce ==
  \A e \in Events : \A i, j \in DOMAIN events[e] :
    HeaderOf[events[e][i]] = HeaderOf[events[e][j]] => i = j

InFlight(s) == s = emitting \/ \E i \in DOMAIN gui : gui[i] = s

(* The signals of an event reach the GUI thread in the order of its        *)
(* messages, each exactly once, although they are emitted after the mutex  *)
(* is released: the ones on their way are those of the messages the row    *)
(* has not been told of, and the older ones are ahead.                     *)
OlderAhead ==
  \A i, j \in DOMAIN gui :
    i < j /\ gui[i].event = gui[j].event => gui[i].index < gui[j].index
SignalsInOrder ==
  /\ \A e \in Events : row[e] <= Len(events[e])
  /\ \A e \in Events : \A i \in row[e] + 1 .. Len(events[e]) :
       InFlight(Signal(e, i))
  /\ \A i \in DOMAIN gui :
       row[gui[i].event] < gui[i].index /\ gui[i].index <= Len(events[gui[i].event])
  /\ OlderAhead

(* AlertManager judges the messages of an event in their order, none       *)
(* twice, and never skips the newest: it has judged it, or its alert is    *)
(* still on the way (alert_manager.cpp, HandleAlert).                      *)
AlertOnTheWay(s) ==
  InFlight(s) \/ judging = s \/ \E i \in DOMAIN alerts : alerts[i] = s
NotYetJudged(s) == judged[s.event] < s.index
NewestJudged ==
  /\ judging # NoSignal => NotYetJudged(judging)
  /\ \A i \in DOMAIN alerts : NotYetJudged(alerts[i])
  /\ \A e \in Events :
       LET last == Len(events[e])
       IN  last # 0 => judged[e] = last \/ AlertOnTheWay(Signal(e, last))

(* The alert layer shows a segment until it ends or the event's next       *)
(* message begins, whichever is first, and never two messages of an event  *)
(* for the same time (alert_layer.cpp, HandleAlert).                       *)
EndsWith(e, r, t) ==
  \/ t = Segments[events[e][r.index]][r.segment].end
  \/ \E j \in r.index + 1 .. row[e] : t = FirstBegin(events[e][j])
SegmentsReplaced ==
  \A e \in Events : \A r \in records[e] :
    /\ EndsWith(e, r, r.end)
    /\ \A j \in r.index + 1 .. row[e] : r.end <= FirstBegin(events[e][j])

(* The number of messages the alert dialog shows is that of the event, or  *)
(* the signal that corrects it is on its way (alert_dialog.cpp).           *)
DialogCorrected ==
  dialog.event # NoEvent =>
    \/ dialog.count = Len(events[dialog.event])
    \/ InFlight(Signal(dialog.event, Len(events[dialog.event])))

(* If no download fails, a change shows in the listing and nothing throws, *)
(* a published message, or one with the same WMO header, is on the list in *)
(* the end: a failed listing only delays it.                               *)
Listed(h) == \E e \in Events : \E i \in 1 .. row[e] : HeaderOf[events[e][i]] = h
PublishedArrives ==
  faults \subseteq {"listing"} =>
    \A m \in Publishable \intersect HasVtec : Published(m) ~> Listed(HeaderOf[m])
=============================================================================

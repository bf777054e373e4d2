----------------------------- MODULE MarkerManager -----------------------------
(***************************************************************************)
(* The location markers: MarkerManager with its file, the rows that        *)
(* MarkerModel shows, the icons that MarkerLayer draws, and the dialogs    *)
(* that edit markers (marker_manager.cpp, marker_model.cpp,                *)
(* marker_layer.cpp, edit_marker_dialog.cpp, marker_settings_widget.cpp).  *)
(*                                                                         *)
(* Two threads share the manager: its pool reads the file once, and the    *)
(* GUI thread does the rest.  What the reader announces is queued for the  *)
(* GUI thread; what the GUI thread announces is handled at once.  A marker *)
(* has an id while the program runs, and is known by its position in the   *)
(* file; dialogs keep the id, rows and icons follow the positions.         *)
(*                                                                         *)
(* A record also carries a tag that no part of the program sees: it says   *)
(* which marker of the user this is, from one session to the next.         *)
(***************************************************************************)
EXTENDS Integers, FiniteSets, SequencesExt

CONSTANTS
  Names,        \* the names of markers, numbers in the order of a sorted view
  NewName,      \* the name of a marker that is being added
  Saved,        \* the names of the markers in the file at first
  Dialogs,      \* the edit dialogs: of the settings, of a map, of its icons
  Adders,       \* the dialogs that add markers
  RowEditors,   \* the dialogs opened for a row of the settings' view
  IconEditors,  \* the dialogs opened for an icon on the map
  MaxTags,      \* bound: markers ever made
  MaxCalls,     \* bound: accepted edits and removals
  MaxSessions   \* bound: starts of the program

ASSUME MarkerAssumption ==
  /\ Names \subseteq Nat /\ NewName \in Names /\ Saved \in Seq(Names)
  /\ Adders \union RowEditors \union IconEditors \subseteq Dialogs
  /\ MaxTags \in Nat /\ Len(Saved) <= MaxTags /\ MaxCalls \in Nat
  /\ MaxSessions \in Nat

VARIABLES
  records,    \* markerRecords_
  index,      \* idToIndex_: where the record of an id is
  lastId,     \* lastId_
  reader,     \* where the thread that reads the file is
  fileRead,   \* markerFileRead_
  queue,      \* the reader's signals to the GUI thread
  rows,       \* markerIds_ of the model
  told,       \* how many rows the model has told its views of
  drawn,      \* the ids of the icons on the map
  dialogs,    \* of each dialog: whether it is open, editId_ and adding_
  run,        \* whether the program is up, is saving the markers, or is down
  file        \* the markers in the file; one that cannot be parsed has none

VARIABLES
  made,       \* the markers made so far
  calls,      \* accepted edits and removals so far
  sessions,   \* starts so far
  shown,      \* the marker each dialog shows, or 0
  adds,       \* the marker each dialog adds until it is accepted, or 0
  wanted,     \* the markers as the user has added, edited and removed them
  kept,       \* the markers that were saved and never removed
  gone,       \* how many were removed with MarkersInitialized on its way
  upsets      \* what has happened that the properties except

announced == <<told, gone>>
program == <<records, index, lastId, reader, fileRead, queue, rows, announced,
             drawn, dialogs>>
counters == <<made, calls, sessions>>
history == <<shown, adds, wanted, kept, upsets>>
vars == <<program, run, file, counters, history>>

Tags == 1 .. MaxTags
Marker == [tag : Tags, name : Names]
Record == [id : Nat \ {0}, tag : Tags, name : Names]
Readers == {"icons", "reset", "read", "announce", "initialize", "done"}

(***************************************************************************)
(* What the user does that the properties except:                          *)
(*   "early"   a marker is added before the model has its rows             *)
(*   "sorted"  a row is removed that the sorted view shows elsewhere       *)
(*   "shared"  one dialog accepts the marker another one is adding         *)
(*   "torn"    the program dies while it writes the file                   *)
(***************************************************************************)
Upsets == {"early", "sorted", "shared", "torn"}

Signal == [kind : {"updated", "initialized"}, count : Nat]

Dialog == [open : BOOLEAN, id : Nat, adding : BOOLEAN]

TypeOK ==
  /\ records \in Seq(Record) /\ lastId \in Nat
  /\ DOMAIN index \subseteq Nat \ {0}
  /\ index \in [DOMAIN index -> DOMAIN records]
  /\ reader \in Readers /\ fileRead \in BOOLEAN /\ queue \in Seq(Signal)
  /\ rows \in Seq(Nat) /\ drawn \in Seq(Nat)
  /\ told \in Int /\ gone \in Nat
  /\ dialogs \in [Dialogs -> Dialog]
  /\ run \in {"up", "saving", "down"} /\ file \in Seq(Marker)
  /\ made \in 0 .. MaxTags /\ calls \in Nat /\ sessions \in Nat
  /\ shown \in [Dialogs -> 0 .. MaxTags] /\ adds \in [Dialogs -> 0 .. MaxTags]
  /\ wanted \subseteq Marker /\ kept \subseteq Tags
  /\ upsets \subseteq Upsets

-----------------------------------------------------------------------------

Ids(s) == [i \in DOMAIN s |-> s[i].id]
Stored(s) == [i \in DOMAIN s |-> [tag |-> s[i].tag, name |-> s[i].name]]
TagsOf(s) == {s[i].tag : i \in DOMAIN s}

(* get_marker finds the record. *)
Has(id) == id \in DOMAIN index /\ index[id] <= Len(records)
Tag(id) == records[index[id]].tag

(* The first row of the id, as std::find has it. *)
RowOf(id) == CHOOSE i \in DOMAIN rows :
               rows[i] = id /\ \A j \in 1 .. i - 1 : rows[j] # id

Closed == [open |-> FALSE, id |-> 0, adding |-> FALSE]

Init ==
  /\ records = <<>> /\ index = <<>> /\ lastId = 0
  /\ reader = "icons" /\ fileRead = FALSE /\ queue = <<>>
  /\ rows = <<>> /\ told = 0 /\ gone = 0 /\ drawn = <<>>
  /\ dialogs = [d \in Dialogs |-> Closed]
  /\ run = "up"
  /\ file = [i \in DOMAIN Saved |-> [tag |-> i, name |-> Saved[i]]]
  /\ made = Len(Saved) /\ calls = 0 /\ sessions = 1
  /\ shown = [d \in Dialogs |-> 0] /\ adds = [d \in Dialogs |-> 0]
  /\ wanted = ToSet(file) /\ kept = TagsOf(file)
  /\ upsets = {}

-----------------------------------------------------------------------------
(* The thread that reads the file.                                         *)

(* The default icons are put in place. *)
ReadIcons ==
  /\ reader = "icons" /\ reader' = "reset"
  /\ UNCHANGED <<records, index, lastId, fileRead, queue, rows, announced, drawn,
                 dialogs>>

(* InitalizeIds, which takes no lock. *)
ResetIds ==
  /\ reader = "reset" /\ reader' = "read"
  /\ lastId' = 0
  /\ UNCHANGED <<records, index, fileRead, queue, rows, announced, drawn, dialogs>>

(* The entries become records with the next ids, after those that are      *)
(* there; an id that is known already keeps its position.                  *)
ReadFile ==
  /\ reader = "read" /\ reader' = "announce"
  /\ LET read == [i \in DOMAIN file |->
                    [id |-> lastId + i, tag |-> file[i].tag, name |-> file[i].name]]
     IN  /\ records' = records \o read
         /\ index' = [id \in DOMAIN index \union ToSet(Ids(read)) |->
                        IF id \in DOMAIN index THEN index[id]
                        ELSE Len(records) + (id - lastId)]
         /\ lastId' = lastId + Len(file)
  /\ UNCHANGED <<fileRead, queue, rows, announced, drawn, dialogs>>

AnnounceUpdate ==
  /\ reader = "announce" /\ reader' = "initialize"
  /\ fileRead' = TRUE
  /\ queue' = Append(queue, [kind |-> "updated", count |-> 0])
  /\ UNCHANGED <<records, index, lastId, rows, announced, drawn, dialogs>>

(* The number of records is read without a lock. *)
AnnounceInitialized ==
  /\ reader = "initialize" /\ reader' = "done"
  /\ queue' = Append(queue, [kind |-> "initialized", count |-> Len(records)])
  /\ UNCHANGED <<records, index, lastId, fileRead, rows, announced, drawn, dialogs>>

ReaderStep ==
  /\ run = "up"
  /\ ReadIcons \/ ResetIds \/ ReadFile \/ AnnounceUpdate \/ AnnounceInitialized
  /\ UNCHANGED <<run, file, counters, history>>

-----------------------------------------------------------------------------
(* What the GUI thread does with signals.                                  *)

(* MarkerLayer draws the markers anew. *)
ReloadMarkers(s) == drawn' = Ids(s)

RowsByCount(count) ==
  rows' = rows \o [i \in 1 .. count |-> i] /\ told' = told + count

(* MarkerModel::HandleMarkersInitialized: as many rows as the signal says  *)
(* are announced, and the markers there are now become rows, after those   *)
(* that are there.                                                         *)
HandleMarkersInitialized(count) ==
  /\ rows' = IF count = 0 THEN rows ELSE rows \o Ids(records)
  /\ told' = told + count

Deliver ==
  /\ run = "up" /\ queue # <<>> /\ queue' = Tail(queue)
  /\ \/ /\ Head(queue).kind = "updated"
        /\ ReloadMarkers(records) /\ UNCHANGED <<rows, told>>
     \/ /\ Head(queue).kind = "initialized"
        /\ HandleMarkersInitialized(Head(queue).count) /\ UNCHANGED drawn
  /\ UNCHANGED <<records, index, lastId, reader, fileRead, gone, dialogs, run,
                 file, counters, history>>

(* The map's style is loaded, and its layers with it. *)
LoadLayer ==
  /\ run = "up" /\ ReloadMarkers(records)
  /\ UNCHANGED <<records, index, lastId, reader, fileRead, queue, rows, announced,
                 dialogs, run, file, counters, history>>

(* MarkerModel::HandleMarkerRemoved. *)
HandleMarkerRemoved(id) ==
  IF id \in ToSet(rows)
  THEN rows' = RemoveAt(rows, RowOf(id)) /\ told' = told - 1
  ELSE UNCHANGED <<rows, told>>

(* MarkerModel::HandleMarkerAdded: a row at the position of the record. *)
HandleMarkerAdded(id) ==
  /\ index'[id] <= Len(rows) + 1
  /\ rows' = InsertAt(rows, index'[id], id)
  /\ told' = told + 1

(* The position is beyond the rows, and std::vector is asked to insert     *)
(* there: what lies before it are no ids.                                  *)
InsertBeyond(id) ==
  /\ index'[id] > Len(rows) + 1
  /\ rows' = [i \in 1 .. index'[id] |-> IF i = index'[id] THEN id ELSE 0]
  /\ told' = told + 1

-----------------------------------------------------------------------------
(* The operations of the manager, called by the GUI thread.                *)

add_marker(tag) ==
  LET id == lastId + 1
  IN  /\ records' = Append(records, [id |-> id, tag |-> tag, name |-> NewName])
      /\ index' = [k \in DOMAIN index \union {id} |->
                     IF k \in DOMAIN index THEN index[k] ELSE Len(records) + 1]
      /\ lastId' = id
      /\ HandleMarkerAdded(id) \/ InsertBeyond(id)
      /\ UNCHANGED gone
      /\ ReloadMarkers(records')

set_marker(id, name) ==
  \/ /\ Has(id)
     /\ records' = [records EXCEPT ![index[id]].name = name]
     /\ ReloadMarkers(records')
     /\ UNCHANGED <<index, lastId, rows, announced>>
  \/ ~ Has(id) /\ UNCHANGED <<records, index, lastId, rows, announced, drawn>>

(* Positions behind the one that is erased move up. *)
Unmoved(p) == index
MovedUp(p) == [k \in DOMAIN index |-> IF index[k] > p THEN index[k] - 1 ELSE index[k]]

(* MarkersInitialized is on its way, with the number of records it had. *)
Counted == \E i \in DOMAIN queue : queue[i].kind = "initialized"

remove_marker(id) ==
  \/ /\ Has(id)
     /\ records' = RemoveAt(records, index[id])
     /\ index' = Restrict(MovedUp(index[id]), DOMAIN index \ {id})
     /\ HandleMarkerRemoved(id)
     /\ ReloadMarkers(records')
     /\ gone' = gone + IF Counted THEN 1 ELSE 0
     /\ UNCHANGED lastId
  \/ ~ Has(id) /\ UNCHANGED <<records, index, lastId, rows, announced, drawn>>

-----------------------------------------------------------------------------
(* The dialogs and the view of the settings.                               *)

Call  == run = "up" /\ calls < MaxCalls /\ calls' = calls + 1
Stays == UNCHANGED <<reader, fileRead, queue, run, file, made, sessions>>

(* EditMarkerDialog::setup for a new marker. *)
Add(d) ==
  /\ run = "up" /\ reader # "icons"
  /\ made < MaxTags /\ made' = made + 1
  /\ add_marker(made')
  /\ dialogs' = [dialogs EXCEPT ![d] = [open |-> TRUE, id |-> lastId', adding |-> TRUE]]
  /\ shown' = [shown EXCEPT ![d] = made'] /\ adds' = [adds EXCEPT ![d] = made']
  /\ wanted' = wanted \union {[tag |-> made', name |-> NewName]}
  /\ upsets' = IF reader = "done" /\ queue = <<>> THEN upsets
               ELSE upsets \union {"early"}
  /\ UNCHANGED <<reader, fileRead, queue, run, file, calls, sessions, kept>>

(* EditMarkerDialog::setup for a marker that exists; otherwise the dialog  *)
(* is shown with what it had.                                              *)
Edit(d, id) ==
  /\ run = "up"
  /\ IF Has(id)
     THEN /\ dialogs' = [dialogs EXCEPT ![d] = [open |-> TRUE, id |-> id, adding |-> FALSE]]
          /\ shown' = [shown EXCEPT ![d] = Tag(id)] /\ adds' = [adds EXCEPT ![d] = 0]
     ELSE dialogs' = [dialogs EXCEPT ![d].open = TRUE] /\ UNCHANGED <<shown, adds>>
  /\ UNCHANGED <<records, index, lastId, rows, announced, drawn, calls, wanted,
                 kept, upsets>>
  /\ Stays

Without(T) == {m \in wanted : m.tag \notin T}

Renamed(t, name) ==
  {IF m.tag = t THEN [m EXCEPT !.name = name] ELSE m : m \in wanted}

(* Once it is applied, the marker is no longer one that is being added. *)
AppliedWhileAdding(d, open) == dialogs' = [dialogs EXCEPT ![d].open = open]
Applied(d, open) ==
  dialogs' = [dialogs EXCEPT ![d] = [open |-> open, id |-> @.id, adding |-> FALSE]]

(* handle_accepted, by the OK button, which closes the dialog, or by the   *)
(* Apply button.  A marker that another dialog is adding is accepted, too. *)
Accept(d, name, open) ==
  LET others == {e \in Dialogs \ {d} : adds[e] = shown[d] /\ adds[e] # 0}
  IN  /\ Call /\ dialogs[d].open
      /\ set_marker(dialogs[d].id, name)
      /\ Applied(d, open)
      /\ adds' = [e \in Dialogs |-> IF e \in others \union {d} THEN 0 ELSE adds[e]]
      /\ wanted' = Renamed(shown[d], name)
      /\ upsets' = IF others = {} THEN upsets ELSE upsets \union {"shared"}
      /\ UNCHANGED <<shown, kept>>
      /\ Stays

Removed(T) == wanted' = Without(T) /\ kept' = kept \ T

(* handle_rejected: a marker that was to be added goes. *)
Cancel(d) ==
  /\ run = "up" /\ dialogs[d].open
  /\ IF dialogs[d].adding THEN remove_marker(dialogs[d].id)
     ELSE UNCHANGED <<records, index, lastId, rows, announced, drawn>>
  /\ dialogs' = [dialogs EXCEPT ![d].open = FALSE]
  /\ adds' = [adds EXCEPT ![d] = 0]
  /\ Removed({adds[d]})
  /\ UNCHANGED <<calls, shown, upsets>>
  /\ Stays

(* The Delete button, which also rejects the dialog: by then the marker is *)
(* gone.                                                                   *)
Delete(d) ==
  /\ Call /\ dialogs[d].open
  /\ remove_marker(dialogs[d].id)
  /\ dialogs' = [dialogs EXCEPT ![d].open = FALSE]
  /\ adds' = [adds EXCEPT ![d] = 0]
  /\ Removed({shown[d]})
  /\ UNCHANGED <<shown, upsets>>
  /\ Stays

(* The view sorts the rows, here by name; a row without a marker comes     *)
(* after those that have one.                                              *)
SortsBefore(i, j) ==
  /\ Has(rows[i])
  /\ Has(rows[j]) => records[index[rows[i]]].name < records[index[rows[j]]].name

ViewRow(i) ==
  Cardinality({j \in DOMAIN rows :
                 SortsBefore(j, i) \/ (~ SortsBefore(i, j) /\ j <= i)})

(* The Remove button takes the selected row of the view for one of the     *)
(* model.  A row that is announced but not there has no id, and nothing is *)
(* removed.                                                                *)
RemoveSelected(i) ==
  /\ Call
  /\ remove_marker(rows[ViewRow(i)])
  /\ Removed(IF Has(rows[i]) THEN {Tag(rows[i])} ELSE {})
  /\ upsets' = IF rows[ViewRow(i)] = rows[i] THEN upsets
               ELSE upsets \union {"sorted"}
  /\ UNCHANGED <<dialogs, shown, adds>>
  /\ Stays

UserStep ==
  \/ \E d \in Adders : Add(d)
  \/ \E d \in RowEditors : \E i \in DOMAIN rows : Edit(d, rows[ViewRow(i)])
  \/ \E d \in IconEditors : \E i \in DOMAIN drawn : Edit(d, drawn[i])
  \/ \E d \in Dialogs : \E name \in Names, open \in BOOLEAN : Accept(d, name, open)
  \/ \E d \in Dialogs : Cancel(d)
  \/ \E d \in Dialogs : Delete(d)
  \/ \E i \in DOMAIN rows : RemoveSelected(i)

-----------------------------------------------------------------------------
(* The program's end and its start.                                        *)

MaySaveUnread == TRUE
MaySave       == fileRead

(* ~MarkerManager, if the file has not been read. *)
ExitUnread ==
  /\ run = "up" /\ ~MaySave /\ run' = "down"
  /\ UNCHANGED <<program, file, counters, history>>

(* WriteMarkerSettings opens the file, which empties it, and then writes.  *)
BeginSave ==
  /\ run = "up" /\ MaySave /\ run' = "saving"
  /\ file' = <<>>
  /\ UNCHANGED <<program, counters, history>>

EndSave ==
  /\ run = "saving" /\ run' = "down"
  /\ file' = Stored(records)
  /\ kept' = kept \union TagsOf(file')
  /\ UNCHANGED <<program, counters, shown, adds, wanted, upsets>>

(* The program dies: of an exception, as when a marker is added before     *)
(* there is a default icon, of an insertion beyond the rows, or otherwise. *)
Die ==
  /\ run # "down" /\ run' = "down"
  /\ upsets' = IF run = "saving" THEN upsets \union {"torn"} ELSE upsets
  /\ UNCHANGED <<program, file, counters, shown, adds, wanted, kept>>

Start ==
  /\ run = "down" /\ sessions < MaxSessions
  /\ run' = "up" /\ sessions' = sessions + 1
  /\ records' = <<>> /\ index' = <<>> /\ lastId' = 0
  /\ reader' = "icons" /\ fileRead' = FALSE /\ queue' = <<>>
  /\ rows' = <<>> /\ told' = 0 /\ gone' = 0 /\ drawn' = <<>>
  /\ dialogs' = [d \in Dialogs |-> Closed]
  /\ shown' = [d \in Dialogs |-> 0] /\ adds' = [d \in Dialogs |-> 0]
  /\ wanted' = ToSet(file)
  /\ UNCHANGED <<file, made, calls, kept, upsets>>

Lifecycle == ExitUnread \/ BeginSave \/ EndSave \/ Die \/ Start

Next == ReaderStep \/ Deliver \/ LoadLayer \/ UserStep \/ Lifecycle

Spec == Init /\ [][Next]_vars

-----------------------------------------------------------------------------
(* Ids and positions agree, and once the rows are there, the view and the  *)
(* map show the markers in their order, whatever was added and removed     *)
(* while the signals of the reader were on their way                       *)
(* (marker_model.cpp:234, marker_manager.cpp:378).  The views have been    *)
(* told of as many rows, and of one that is not there for each marker      *)
(* removed while MarkersInitialized carried the old count                  *)
(* (marker_model.cpp:224-227).                                             *)
ViewsAgree ==
  "early" \notin upsets =>
    /\ DOMAIN index = ToSet(Ids(records))
    /\ \A i \in DOMAIN records : index[records[i].id] = i
    /\ reader = "done" /\ queue = <<>> =>
         rows = Ids(records) /\ drawn = Ids(records) /\ told = Len(rows) + gone

(* Once the file is read, the records are the markers the user wants:      *)
(* nothing is lost, renamed or brought back by a dialog that shows another *)
(* marker, is cancelled after its marker was applied, or is left open      *)
(* while its marker is removed elsewhere (edit_marker_dialog.cpp:321).     *)
RecordsAreWanted ==
  run # "down" /\ fileRead /\ upsets \subseteq {"torn"} =>
    ToSet(Stored(records)) = wanted

(* A marker that was saved and never removed stays in the file from one    *)
(* session to the next, also when the program ends before it has read it   *)
(* (marker_manager.cpp:217).                                               *)
FileKeepsMarkers ==
  run # "saving" /\ upsets \subseteq {"shared"} => kept \subseteq TagsOf(file)
=============================================================================

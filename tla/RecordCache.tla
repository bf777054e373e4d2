------------------------------ MODULE RecordCache ------------------------------
(***************************************************************************)
(* What the record store of a RadarProductManager promises, without its    *)
(* map, list, threads and locks.                                           *)
(*                                                                         *)
(* There is at most one record of a volume in memory.  Whoever asks for    *)
(* the volume is given that record; it is made when there is none, and     *)
(* goes away only when nobody was given it, so that two users of a volume  *)
(* never look at different copies of it.                                   *)
(***************************************************************************)

CONSTANTS
  Records,   \* the records, each with the time of its volume
  Clients    \* those who ask for records

VARIABLES
  inMemory,  \* the records in memory
  given      \* the records each client has been given and still uses

TypeInvariant ==
  /\ inMemory \subseteq Records
  /\ given \in [Clients -> SUBSET inMemory]

OnePerVolume ==
  \A r, s \in inMemory : r.time = s.time => r = s

Init ==
  /\ inMemory = {}
  /\ given = [c \in Clients |-> {}]

(* Whatever stays or goes, what the clients were given stays. *)
KeepsGiven == \A c \in Clients : given'[c] \subseteq inMemory'

(* The client is given a record in memory. *)
Give(c) ==
  /\ \E r \in inMemory : given' = [given EXCEPT ![c] = @ \union {r}]
  /\ UNCHANGED inMemory

(* The client has used its records; those only it had may go. *)
Release(c) ==
  /\ given' = [given EXCEPT ![c] = {}]
  /\ inMemory' \subseteq inMemory
  /\ KeepsGiven

(* The record of a volume that is not in memory is made, and others go to  *)
(* make room for it.                                                       *)
Load(r) ==
  /\ \A s \in inMemory : s.time # r.time
  /\ r \in inMemory'
  /\ inMemory' \subseteq inMemory \union {r}
  /\ UNCHANGED given
  /\ KeepsGiven

Forget ==
  /\ UNCHANGED given
  /\ inMemory' \subseteq inMemory
  /\ KeepsGiven

Next ==
  \/ Forget
  \/ \E c \in Clients : Give(c) \/ Release(c)
  \/ \E r \in Records : Load(r)

Spec == Init /\ [][Next]_<<inMemory, given>>
=============================================================================

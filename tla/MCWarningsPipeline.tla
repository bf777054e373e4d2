------------------------- MODULE MCWarningsPipeline -------------------------
(* An instance of WarningsPipeline for TLC.  Messages 1 and 2 are of one    *)
(* event, 3 is of another one and in the file of 2; 4 repeats the header of *)
(* 1 and is in a file of the user, before a product without a VTEC, 5.      *)
EXTENDS WarningsPipeline

Segment(b, e, l) == [begin |-> b, end |-> e, located |-> l]

MCEventOf   == <<"first", "first", "second", "first", "second">>
MCHeaderOf  == <<"a", "b", "c", "a", "d">>
MCFileOf    == <<1, 2, 2, 1, 1>>
MCInitial   == <<<<1>>, <<3>>>>
MCLocalFile == <<4, 5>>
MCSegments  ==
  << <<Segment(0, 5, TRUE)>>,
     <<Segment(2, 3, TRUE), Segment(2, 7, TRUE), Segment(2, 7, FALSE)>>,
     <<Segment(1, 4, TRUE)>>,
     <<Segment(0, 6, TRUE)>>,
     <<>> >>
MCFaultSets == {{"listing"}, FaultKinds \ {"listing"}}
=============================================================================

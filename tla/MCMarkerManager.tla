--------------------------- MODULE MCMarkerManager ---------------------------
(* An instance of MarkerManager: a saved marker and one to add, the dialog   *)
(* of the settings and the one of a map's icons.                             *)
EXTENDS MarkerManager

MCSaved == <<2, 1>>
=============================================================================

--------------------------- MODULE MCTimelineManager ---------------------------
(* Instances of TimelineManager for TLC. *)
EXTENDS TimelineManager
=============================================================================

------------------------- MODULE MCPlacefileManager -------------------------
(* The list has one entry; a placefile of the last session is not in it. *)
EXTENDS PlacefileManager

CONSTANTS overlay, radarSite, range, radar, underlay, unknown

(* Of the layers of the last session one is out of order, one not known,   *)
(* and two are missing.                                                    *)
MCDefaultLayers == <<overlay, radarSite, range, radar, underlay>>
MCImmovable == {overlay, radarSite, underlay}
MCSavedLayers == <<underlay, "b", "a", unknown, radarSite, radar>>
MCSettings == <<[name |-> "a", enabled |-> TRUE, titled |-> TRUE]>>
=============================================================================

--------------------------- MODULE MCProductDisplay ---------------------------
(* Instances of ProductDisplay: two sites with level 2 and level 3 volumes.  *)
EXTENDS ProductDisplay, TLC

CONSTANTS s1, s2, L2, L3

MCSites    == {s1, s2}
MCProducts == {L2, L3}
MCTimes    == {10, 20}

(* The elevation is scanned twice in a volume, first a little later than   *)
(* its time.                                                               *)
MCScans == (10 :> {11, 15}) @@ (20 :> {21, 25})

Volume(s, p, t) == [site |-> s, product |-> p, time |-> t]

MCPublished == {Volume(s1, L2, 10), Volume(s1, L3, 10), Volume(s2, L2, 20)}
MCUploads   == {Volume(s1, p, 20) : p \in MCProducts}
MCPicks     == {20}
MCFiles     == {Volume(s2, L2, 20)}
=============================================================================

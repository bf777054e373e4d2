------------------------------ MODULE LayerModel ------------------------------
(***************************************************************************)
(* The order of the map layers: what LayerModel's operations make of       *)
(* layers_, as functions of the sequence.  The layers of the program are   *)
(* those of kDefaultLayers_; beside them there is one for each placefile,  *)
(* which is its name.  Which of the four maps show a layer is left out.    *)
(***************************************************************************)
EXTENDS Naturals, Sequences, FiniteSets, SequencesExt

CONSTANTS
  DefaultLayers,    \* kDefaultLayers_
  Immovable,        \* those that stay in the order of kImmovableLayers_
  RadarSite,        \* the layer placefiles are inserted after
  UnknownLayer,     \* what the file holds in place of a layer not known
  Names             \* the names of placefiles

ASSUME LayerAssumption ==
  /\ DefaultLayers \in Seq(ToSet(DefaultLayers))
  /\ Immovable \subseteq ToSet(DefaultLayers)
  /\ RadarSite \in Immovable
  /\ Cardinality(ToSet(DefaultLayers)) = Len(DefaultLayers)
  /\ Names \cap ToSet(DefaultLayers) = {}
  /\ UnknownLayer \notin Names \cup ToSet(DefaultLayers)

Layers == Names \cup ToSet(DefaultLayers)
IsMovable(l) == l \notin Immovable

(* The loop over s that erases what is not in keep. *)
Kept(s, keep) ==
  LET kept[i \in 0 .. Len(s)] ==
        IF i = 0 THEN <<>>
        ELSE IF s[i] \in keep THEN Append(kept[i - 1], s[i]) ELSE kept[i - 1]
  IN  kept[Len(s)]

(* kImmovableLayers_ has them in the order of kDefaultLayers_. *)
ImmovableLayers == Kept(DefaultLayers, Immovable)

(* std::find: the first position of x, or one past the end. *)
Find(s, x) ==
  IF \E i \in DOMAIN s : s[i] = x
  THEN CHOOSE i \in DOMAIN s : s[i] = x /\ \A j \in 1 .. i - 1 : s[j] # x
  ELSE Len(s) + 1

Found(s, x) == Find(s, x) <= Len(s)

-----------------------------------------------------------------------------
(* The signals of the placefile manager.                                   *)

AddPlacefile(layers, n) ==
  LET at == Find(layers, RadarSite)
  IN  InsertAt(layers, IF at <= Len(layers) THEN at + 1 ELSE at, n)

HandleUpdated(layers, n) ==
  IF Found(layers, n) THEN layers ELSE AddPlacefile(layers, n)

HandleRenamed(layers, old, new) ==
  IF Found(layers, old) THEN [layers EXCEPT ![Find(layers, old)] = new]
  ELSE AddPlacefile(layers, new)

HandleRemoved(layers, n) ==
  IF Found(layers, n) THEN RemoveAt(layers, Find(layers, n)) ELSE layers

(* Once the placefiles are read, the layers of those not met are erased. *)
SynchronizePlacefileLayers(layers, met) ==
  Kept(layers, (Layers \ Names) \cup met)

-----------------------------------------------------------------------------
(* The layers read from the file.                                          *)

(* The i-th immovable layer is inserted after the one before it when it is *)
(* missing.  When it comes too early it is erased: the iterator of the one *)
(* before then stands at the layer that follows, and the layer is inserted *)
(* after that.  (With no layer there the program writes past the end of    *)
(* the vector; here the layer is appended.)                                *)
PlaceImmovable(layers, i) ==
  LET l         == ImmovableLayers[i]
      before    == IF i = 1 THEN 0 ELSE Find(layers, ImmovableLayers[i - 1])
      misplaced == Find(layers, l) < before
  IN  IF misplaced
      THEN InsertAt(RemoveAt(layers, Find(layers, l)),
                    IF before < Len(layers) THEN before + 1 ELSE before, l)
      ELSE IF Found(layers, l) THEN layers
           ELSE InsertAt(layers, before + 1, l)

PlacedImmovable(layers) ==
  LET placed[i \in 0 .. Len(ImmovableLayers)] ==
        IF i = 0 THEN layers ELSE PlaceImmovable(placed[i - 1], i)
  IN  placed[Len(ImmovableLayers)]

(* From the last default layer to the first: one that is missing is        *)
(* inserted before the one that follows it by default.                     *)
CompleteDefault(layers, i) ==
  IF Found(layers, DefaultLayers[i]) THEN layers
  ELSE InsertAt(layers, IF i = Len(DefaultLayers) THEN Len(layers) + 1
                        ELSE Find(layers, DefaultLayers[i + 1]),
                DefaultLayers[i])

CompletedDefaults(layers) ==
  LET n == Len(DefaultLayers)
      completed[k \in 0 .. n] ==
        IF k = 0 THEN layers ELSE CompleteDefault(completed[k - 1], n + 1 - k)
  IN  completed[n]

ValidateLayerSettings(layers) ==
  CompletedDefaults(PlacedImmovable(
    Kept(layers, Layers)))
=============================================================================

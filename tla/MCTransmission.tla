--------------------------- MODULE MCTransmission ---------------------------
(* Small instances of Transmission for TLC.                                *)
EXTENDS Transmission, TLC

CONSTANTS c1, c2     \* the Carriers

NoIds == {}
FirstId == {1}
OneData == 1 :> "DATA"
OpenData == 1 :> "OPEN" @@ 2 :> "DATA"
DataControl == 1 :> "DATA" @@ 2 :> "CTRL"
OpenDataControl == 1 :> "OPEN" @@ 2 :> "DATA" @@ 3 :> "CTRL"
Symmetry == Permutations(Carriers)
=============================================================================

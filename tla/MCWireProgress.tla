--------------------------- MODULE MCWireProgress ---------------------------
(* A small instance of WireProgress for TLC: three files in two batches.    *)
EXTENDS WireProgress, TLC

CONSTANTS f1, f2, f3

ThreeFiles == {f1, f2, f3}
TwoBatches == f1 :> 1 @@ f2 :> 1 @@ f3 :> 2
AllMove    == f1 :> 2 @@ f2 :> 3 @@ f3 :> 1
=============================================================================

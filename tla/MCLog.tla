-------------------------------- MODULE MCLog --------------------------------
(* Instances of Log: blocks as model values.                               *)
EXTENDS Log, TLC

CONSTANTS b1, b2, b3, b4, b5

FiveBlocks == {b1, b2, b3, b4, b5}
BlockSymmetry == Permutations(FiveBlocks)
=============================================================================

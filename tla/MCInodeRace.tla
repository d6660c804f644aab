---------------------------- MODULE MCInodeRace ----------------------------
(* Inodes with the programs of MCInodes.                                   *)
EXTENDS Inodes, MCInodes
=============================================================================

------------------------------- MODULE MCBoot -------------------------------
(* Three CPUs, as the Makefile starts them, and as many processes.         *)
EXTENDS Boot

CONSTANTS c0, c1, c2

CPUSet == {c0, c1, c2}
=============================================================================

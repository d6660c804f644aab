------------------------------- MODULE MCProc -------------------------------
(* Instances of Proc: CPUs as model values, and what the processes do.     *)
EXTENDS Proc, TLC

CONSTANTS c1, c2

CPUSet == {c1, c2}
CPUSymmetry == Permutations(CPUSet)

LifecycleOps == {"fork", "exit", "wait", "yield"}
SleepOps == {"fork", "wait", "kill", "lock"}
ComputeOps == {"fork", "yield"}
=============================================================================

---------------------------- MODULE MCSemaphore ----------------------------
(* Instances of Semaphore and PingPong: what the processes do.             *)
EXTENDS PingPong

\* Nothing is open yet; any combination of calls on two ids and two slots,
\* without sem_close().
FreeCalls ==
  [Procs -> {<<Open(1, 0), Up(1)>>, <<Down(1), Up(1)>>, <<Open(2, 1), Down(2)>>,
             <<Open(1, -2), Up(2), Up(1)>>, <<Down(1)>>}]
FreeAndPingPong ==
  {[opened |-> << >>, calls |-> c] : c \in FreeCalls} \cup {TheProgram}

\* One semaphore with value 0: one process adds and the others take.
ZeroOpened == <<<<1, 0>>>>
UpAndDown ==
  {[opened |-> ZeroOpened,
    calls |-> [p \in Procs |-> IF p = 1 THEN <<Up(1)>> ELSE <<Down(1)>>]]}

\* It is closed while a process sleeps on it.
CloseUnderSleeper ==
  {[opened |-> ZeroOpened,
    calls |-> [p \in Procs |-> IF p = 1 THEN <<Close(1)>> ELSE <<Down(1)>>]]}
=============================================================================

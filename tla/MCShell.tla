------------------------------ MODULE MCShell ------------------------------
(* An instance of Shell: one pipeline of three commands.                   *)
EXTENDS Shell

Plain(does) == [does |-> does, in |-> FALSE, out |-> FALSE]
ThreeCommands ==
  {<<[commands |-> <<Plain("quick"), Plain("filter"), Plain("filter")>>, wait |-> TRUE]>>}
=============================================================================

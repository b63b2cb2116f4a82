-------------------------- MODULE MCSharedConnection --------------------------
(***************************************************************************)
(* Two purifiers share the lease.                                          *)
(***************************************************************************)
EXTENDS SharedConnection

CONSTANTS A, B, cmdA, pollA, cmdB, recA

MCClientOf == [t \in Tasks |-> IF t = cmdB THEN B ELSE A]

MCPriorityOf == [t \in Tasks |-> IF t = pollA THEN "poll" ELSE "command"]

==============================================================================

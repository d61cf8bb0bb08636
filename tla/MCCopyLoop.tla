------------------------------ MODULE MCCopyLoop ------------------------------
(* The TLC instance of CopyLoop.                                           *)
EXTENDS CopyLoop

\* Dollar for dollar, three a position, four in all and two positions.
Limits == [ratio |-> 1, maxPos |-> 3, exposure |-> 4, maxOpen |-> 2, minLeader |-> 1, dust |-> 1]
=============================================================================

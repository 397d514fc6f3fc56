---------------------------- MODULE MCHaManager ---------------------------
(***************************************************************************)
(* Values for the constants of HaManager that a .cfg cannot write.         *)
(***************************************************************************)
EXTENDS DocumentedClaims, HaManagerContest

CONSTANTS a, b, c

\* a sorts before b and b before c, by address ...
MCIPOrder == [n \in Nodes |-> CASE n = a -> 1 [] n = b -> 2 [] OTHER -> 3]

\* ... and c comes first by priority.
MCPriority == [n \in Nodes |-> CASE n = a -> 20 [] n = b -> 10 [] OTHER -> 0]
===========================================================================

---------------------------- MODULE SampleWindow --------------------------
(***************************************************************************)
(* What the ring promises: it holds the last WindowSize of the samples     *)
(* observed since the manager started, in the order they came.             *)
(***************************************************************************)
EXTENDS Naturals, Sequences

CONSTANTS WindowSize, Samples

VARIABLE window

\* The last n elements of s, or all of them.
LastOf(s, n) == IF Len(s) <= n THEN s ELSE SubSeq(s, Len(s) - n + 1, Len(s))

Init == window = <<>>

\* A sample comes in at the end, and the oldest makes room for it if need be.
Observe ==
    /\ window' # <<>>
    /\ LET s == window'[Len(window')] IN
           s \in Samples /\ window' = LastOf(Append(window, s), WindowSize)

\* The manager is killed.
Forget == window' = <<>>

Next == Observe \/ Forget

Spec == Init /\ [][Next]_window
===========================================================================

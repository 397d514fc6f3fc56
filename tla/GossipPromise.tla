--------------------------- MODULE GossipPromise ---------------------------
(***************************************************************************)
(* What State.Refresh promises the HA loop, whatever the order of the      *)
(* entries and whatever the lookups between them find: a view changes only *)
(* as a whole, and then it is the view that GossipView defines from the    *)
(* hosts that were listed and from what was found out about each claimant. *)
(***************************************************************************)
EXTENDS GossipView

VARIABLES
    answer,   \* the cluster nodes the refresh is about
    found,    \* what it has found out about each host so far
    view      \* what the HA loop sees

Init == view = NewView

Next == view' = Answered(view, answer, found) \/ view' = Failed(view)

Spec == Init /\ [][Next]_view
===========================================================================

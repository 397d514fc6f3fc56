-------------------------- MODULE MCGossipRefresh --------------------------
(***************************************************************************)
(* GossipRefresh for TLC: the declared nodes and the vote accounts are     *)
(* interchangeable.                                                        *)
(***************************************************************************)
EXTENDS GossipRefresh, TLC

Symmetry == Permutations(Nodes) \cup Permutations(VoteKeys)
===========================================================================

--------------------------- MODULE TakeoverRank ---------------------------
(***************************************************************************)
(* The rank that spaces takeovers apart.  PeerIPRankMap ranks the peers    *)
(* that are in the gossip state by IP address, PeerIPPriorityRankMap ranks *)
(* the configured nodes by failover.priority.  Both sort by a key that no  *)
(* two nodes share and number the result from 0, so a node's rank is the   *)
(* number of ranked nodes with a smaller key.                              *)
(***************************************************************************)
EXTENDS Naturals, FiniteSets

Ahead(S, key, n) == {m \in S : key[m] < key[n]}

Rank(S, key, n) == Cardinality(Ahead(S, key, n))

DistinctKeys(S, key) ==
    /\ \A n \in S : key[n] \in Nat
    /\ \A n, m \in S : key[n] = key[m] => n = m
===========================================================================

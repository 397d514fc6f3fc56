---------------------------- MODULE GossipView ----------------------------
(***************************************************************************)
(* What one gossip.State remembers of the cluster, and what State.Refresh  *)
(* makes of one answer of getClusterNodes: the view the HA loop decides    *)
(* on.  This is the set-level meaning of the loop in                       *)
(* internal/gossip/state.go: GossipRefresh walks the same answer           *)
(* entry by entry and is checked against it.                               *)
(*                                                                         *)
(* An answer is a function from the hosts to the sets of roles they        *)
(* advertise.  A host may be listed twice, once under the passive and once *)
(* under the active identity, while its identity changes.                  *)
(***************************************************************************)
EXTENDS Naturals, FiniteSets

CONSTANTS
    Nodes,      \* the nodes declared in failover.peers, self included
    Stranger,   \* a host that is not declared but may hold the active identity
    MaxCount    \* bound: LeaderlessSamplesCount saturates here

ASSUME NodesAssumption == IsFiniteSet(Nodes) /\ Nodes # {} /\ Stranger \notin Nodes
ASSUME MaxCountAssumption == MaxCount \in Nat \ {0}

Hosts == Nodes \cup {Stranger}
Roles == {"active", "passive"}
Answers == [Hosts -> SUBSET Roles]

\* What isNodeActiveAndVoting finds out about an entry with the active
\* identity. An RPC error or a balance below rent exemption is forgiven, and
\* counts as voting.
Verdicts == {"voting", "delinquent", "absent"}

Views == [rpcErr : BOOLEAN, seen : SUBSET Nodes, active : SUBSET Nodes,
          undeclared : BOOLEAN, delinquent : BOOLEAN, count : 0 .. MaxCount]

NewView == [rpcErr |-> FALSE, seen |-> {}, active |-> {},
            undeclared |-> FALSE, delinquent |-> FALSE, count |-> 0]

\* The hosts listed with the active identity.
Claimants(answer) == {h \in Hosts : "active" \in answer[h]}

\* The claimants the vote accounts confirm. A claimant that is not voting is
\* dropped from the state unless it is also listed under its passive identity.
Leaders(answer, verdict) == {h \in Claimants(answer) : verdict[h] = "voting"}

Visible(answer, verdict) ==
    (Leaders(answer, verdict) \cup {h \in Hosts : "passive" \in answer[h]}) \cap Nodes

\* Mutant of Bump: a sample counts twice.
BumpTwice(count) == IF count < MaxCount THEN count + 2 ELSE count

\* One more leaderless sample.
Bump(count) == IF count < MaxCount THEN count + 1 ELSE count

\* Mutant of NextCount: the count is not reset when a leader is back.
NextCountWithoutReset(count, leaders) == Bump(count)

\* LeaderlessSamplesCount after an answer: a leader of any kind resets it.
NextCount(count, leaders) == IF leaders = {} THEN Bump(count) ELSE 0

\* Refresh when getClusterNodes answered.
Answered(view, answer, verdict) ==
    LET leaders == Leaders(answer, verdict) IN
    [rpcErr     |-> FALSE,
     seen       |-> Visible(answer, verdict),
     active     |-> leaders \cap Nodes,
     undeclared |-> Stranger \in leaders,
     delinquent |-> \E h \in Claimants(answer) : verdict[h] = "delinquent",
     count      |-> NextCount(view.count, leaders)]

\* Mutant of Failed: the flags of the last refresh are reset only when the
\* cluster answers.
FailedWithStaleFlags(view) == [view EXCEPT !.rpcErr = TRUE, !.seen = {}, !.active = {}]

\* Refresh when getClusterNodes failed: the peers are forgotten and the sample
\* is not counted either way.
Failed(view) ==
    [rpcErr |-> TRUE, seen |-> {}, active |-> {},
     undeclared |-> FALSE, delinquent |-> FALSE, count |-> view.count]

\* No part of a view contradicts another: a leader of any kind goes with a count
\* of zero, a delinquent leader with a leaderless sample, and a failed refresh
\* shows no peer and keeps no verdict.
Sound(view) ==
    /\ view.active \subseteq view.seen
    /\ view.active # {} \/ view.undeclared => view.count = 0
    /\ view.delinquent => view.count > 0
    /\ view.rpcErr => view.seen = {} /\ ~view.delinquent /\ ~view.undeclared
===========================================================================

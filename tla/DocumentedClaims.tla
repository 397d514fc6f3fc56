-------------------------- MODULE DocumentedClaims ------------------------
(***************************************************************************)
(* What a comment says of the HA loop and the code does not keep, checked  *)
(* on its own in a run that is expected to find it violated.               *)
(***************************************************************************)
EXTENDS HaManager

\* "refresh the peers state to ensure no one else has taken over already"
\* (manager.go:526): after its delay a node goes on only if gossip shows no
\* voting leader, whatever became of the RPC.
RevalidationSeesNoLeader ==
    [][\A n \in Nodes : pc[n] = "sleeping" /\ pc'[n] = "preActive" =>
           Leaders(adverts, Verdict(FALSE)) = {}]_vars
===========================================================================

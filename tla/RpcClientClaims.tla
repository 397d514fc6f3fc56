-------------------------- MODULE RpcClientClaims -------------------------
(***************************************************************************)
(* What the README says of a cluster client whose list ends with the       *)
(* validator's own RPC, and the order of getURLsToTry does not keep.       *)
(***************************************************************************)
EXTENDS MCRpcClient

\* "the remote URLs are always tried first; the local RPC is only reached if
\* all remote calls fail" (README.md:448): the local RPC, listed last, is asked
\* when no remote URL is left but those that cool down, as README.md:452 allows.
LocalIsLastResort ==
    Busy /\ Current = local => \A v \in untried \ {local} : WasCooling(v)
===========================================================================

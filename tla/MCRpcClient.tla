---------------------------- MODULE MCRpcClient ----------------------------
(* Two remote URLs and the validator's own RPC, listed last. *)
EXTENDS RpcClient, TLC

CONSTANTS remote1, remote2, local

MCUrls == {remote1, remote2, local}
MCPosition == (remote1 :> 1) @@ (remote2 :> 2) @@ (local :> 3)
===========================================================================

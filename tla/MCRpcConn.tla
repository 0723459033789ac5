----------------------------- MODULE MCRpcConn -----------------------------
(* Small instances of RpcConn for TLC. *)
EXTENDS RpcConn, TLC

CONSTANTS n1, n2, r1, r2, r3, c1

\* One caller with all the requests.
OneCaller == [r \in Reqs |-> c1]

NodeSymmetry == Permutations(Nodes)
=============================================================================

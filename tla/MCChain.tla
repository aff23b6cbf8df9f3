------------------------------ MODULE MCChain ------------------------------
(***************************************************************************)
(* The chain connection and its light nodes: the nodes two users can keep  *)
(* alive next to the current one, and two RPC clients of a node that       *)
(* admits one.                                                             *)
(***************************************************************************)
EXTENDS ChainRegistry
============================================================================

----------------------------- MODULE MCPipeline -----------------------------
(***************************************************************************)
(* Small instances of the pipeline.  Two sensors; "a1" and "a2" come from  *)
(* sensor "a", "b1" from "b"; "f" claims to come from "a" but is forged.   *)
(***************************************************************************)
EXTENDS Pipeline

MCSensorOf == [e \in Envelope |-> IF e = "b1" THEN "b" ELSE "a"]

MCSinks == <<"batch", "gossip">>
=============================================================================

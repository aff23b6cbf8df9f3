-------------------------- MODULE MCEdgeAnchoring --------------------------
(***************************************************************************)
(* Small instances of EdgeAnchoring.  "s" is a small envelope; "l" fits a  *)
(* batch alone but not with another "l"; "x" fits only when compressed;    *)
(* "u" is stored but no longer decodes; "r" shrinks when re-encoded.       *)
(***************************************************************************)
EXTENDS EdgeAnchoring

MCEntrySize == [e \in Envelope |->
    CASE e = "s" -> 1 [] e = "l" -> 3 [] e = "x" -> 4 [] e = "u" -> 1
      [] e = "r" -> 3]

MCEncodedSize == [e \in Envelope |-> IF e = "r" THEN 2 ELSE MCEntrySize[e]]

\* Compression saves about a third and costs a frame header.
MCZstd(length) == 1 + (2 * length) \div 3
=============================================================================

------------------------------ MODULE Encoding ------------------------------
(***************************************************************************)
(* Messages and the payloads built from them, as far as the batching path  *)
(* tells them apart.  An envelope is an opaque value with a size.  A       *)
(* payload stands for the bytes of a SignedEnvelopeBatch: the sequence of  *)
(* messages encoded in it and the compression applied.  The sequence       *)
(* number inside a message only identifies it in the properties; it is not *)
(* part of the bytes.                                                      *)
(***************************************************************************)
EXTENDS Naturals, SequencesExt

CONSTANTS
    Envelope,       \* the wire envelopes the pipeline may accept
    Compression,    \* the values of [batcher] compression, "none" among them
    EncodedSize,    \* size of an envelope, re-encoded as a batch entry
    Zstd(_)         \* compressed length of a serialization of this length

ASSUME EncodingConstants ==
    /\ "none" \in Compression
    /\ EncodedSize \in [Envelope -> Nat]

Message == [sequence : Nat, envelope : Envelope]
Payload == [compression : Compression, messages : Seq(Message)]

\* Length of a batch of these messages before compression.
Serialized(size, messages) ==
    FoldLeft(LAMBDA total, m : total + size[m.envelope], 0, messages)

\* Batcher::encode: serialize, then compress.
Encode(compression, messages) ==
    [compression |-> compression, messages |-> messages]

\* payload.len(); Compression::compress is the identity for `none'.
PayloadLen(payload) ==
    LET serialized == Serialized(EncodedSize, payload.messages)
    IN  IF payload.compression = "none" THEN serialized ELSE Zstd(serialized)
=============================================================================

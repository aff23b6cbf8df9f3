-------------------------- MODULE SignedEnvelopes --------------------------
(***************************************************************************)
(* Signed envelopes (edge/src/protocol) and the commands that make, read   *)
(* and pack them: `edge envelope', `edge batch', `edge key'.  Wire bytes   *)
(* are a record of what they encode; what a command writes is that wire in *)
(* a representation.  Commands are given the kind of data they are for.    *)
(***************************************************************************)
EXTENDS SensorMessage

SIGNATURE_LEN == 64
DEFAULT_NONCE_LEN == 16
MIN_NONCE_LEN == 16
MAX_NONCE_LEN == 32

CONSTANTS WireLen(_),    \* length of wire bytes
          BadHex         \* a nonce that is not 0x-prefixed hex

Wire(kind, value) == [kind |-> kind, value |-> value]

Written(format, wire) == [format |-> format, wire |-> wire]
-----------------------------------------------------------------------------
(* Envelopes.                                                              *)

SigningPayload(env) == <<env.sensor, env.nonce, env.message>>

\* sign_message: neither a nonce given by the caller nor the message is
\* looked at.
SignMessage(key, message, nonceLen) ==
    LET sensor == PublicKey("ed25519", key)
    IN  [sensor |-> sensor, nonce |-> nonceLen, message |-> message,
         signatureLen |-> SIGNATURE_LEN,
         signature |-> [by |-> sensor,
                        over |-> SigningPayload([sensor |-> sensor, nonce |-> nonceLen,
                                                 message |-> message])]]

\* validate_envelope and verify_envelope, in the order of their checks; the
\* values are ProtocolError::exit_code, 0 if the envelope is valid.
VerifyEnvelope(env) ==
    CASE env.signatureLen # SIGNATURE_LEN -> 2
      [] env.signatureLen = SIGNATURE_LEN
           /\ env.nonce \notin MIN_NONCE_LEN .. MAX_NONCE_LEN -> 2
      [] env.signatureLen = SIGNATURE_LEN
           /\ env.nonce \in MIN_NONCE_LEN .. MAX_NONCE_LEN ->
            IF WireLen(env.message) = 0 THEN 2
            ELSE IF env.signature = [by |-> env.sensor, over |-> SigningPayload(env)] THEN 0
            ELSE 1

-----------------------------------------------------------------------------
(* Representations.                                                        *)

\* Characters of a representation; hex has its prefix, both texts a newline
\* that is trimmed.
HexLen(n) == 2 + 2 * n

\* Valid base64: hex text is in the alphabet, prefix included, and decodes if
\* its length is a multiple of four.  Wire bytes have tags, keys and signatures
\* in them and are never text, and their base64 does not begin with `0x'.
DecodesAsBase64(doc) ==
    \/ doc.format = "base64"
    \/ doc.format = "hex" /\ HexLen(WireLen(doc.wire)) % 4 = 0

\* Mutant: base64 is tried before hex.
SniffBase64First(doc) ==
    IF DecodesAsBase64(doc) THEN "base64"
    ELSE IF doc.format = "hex" THEN "hex" ELSE "binary"

\* sniff_byte_format: hex first, then base64.
SniffByteFormat(doc) ==
    IF doc.format = "hex" /\ WireLen(doc.wire) > 0 THEN "hex"
    ELSE IF DecodesAsBase64(doc) /\ WireLen(doc.wire) > 0 THEN "base64" ELSE "binary"

\* wire_from_input: text taken for binary stays text, hex taken for base64
\* decodes to something else, and what does not decode is exit code 3.
WireFromInput(doc, format) ==
    CASE format = "binary" -> Ok(IF doc.format = "binary" THEN doc.wire
                                 ELSE Wire("text", doc))
      [] format = "base64" -> IF doc.format = "base64" THEN Ok(doc.wire)
                              ELSE IF DecodesAsBase64(doc) THEN Ok(Wire("garbage", doc))
                              ELSE Error(3)
      [] format = "hex"    -> IF doc.format = "hex" THEN Ok(doc.wire) ELSE Error(3)
      [] format = "text"   -> Error(2)

\* The input format asked for, or the one sniffed.
InputFormat(input, doc) == IF input = None THEN SniffByteFormat(doc) ELSE input

\* Decoding is exit code 2 unless the bytes are of this kind.
Decode(kind, wire) == IF wire.kind = kind THEN Ok(wire.value) ELSE Error(2)

\* write_repr and write_output for everything but text.
Output(format, wire) == Ok(Written(format, wire))
-----------------------------------------------------------------------------
(* The commands: [code] and, if it is 0, what is written to stdout.        *)

\* write_output of edge message: only text needs a message.
WriteMessage(cmd, wire) ==
    LET message == Decode("message", wire)
    IN  IF cmd.output # "text" THEN Output(cmd.output, wire)
        ELSE IF message.code # 0 THEN message
        ELSE Output("text", Wire("lines", PrintMessage(message.value,
                                                       IF cmd.decrypt THEN cmd.suri ELSE None)))

\* edge message MEASUREMENT...
EncodeMessage(cmd) ==
    LET message == Parse(cmd.board, cmd.argv, cmd.suri, cmd.meta)
    IN  IF message.code # 0 THEN message
        ELSE WriteMessage(cmd, Wire("message", message.value))

\* edge message with data.
ReadMessage(cmd, doc) ==
    LET wire == WireFromInput(doc, InputFormat(cmd.input, doc))
    IN  IF wire.code # 0 THEN wire ELSE WriteMessage(cmd, wire.value)

\* edge envelope --sign: input is binary unless said otherwise.  A nonce is
\* its length, BadHex, or None.
SignEnvelope(cmd, doc) ==
    LET message == WireFromInput(doc, IF cmd.input = None THEN "binary" ELSE cmd.input)
    IN  IF cmd.sign \notin Secret THEN Error(2)
        ELSE IF message.code # 0 THEN message
        ELSE IF cmd.nonce = BadHex THEN Error(2)
        ELSE Ok(SignMessage(cmd.sign, message.value,
                            IF cmd.nonce = None THEN DEFAULT_NONCE_LEN ELSE cmd.nonce))

\* edge envelope without --sign.
DecodeEnvelope(cmd, doc) ==
    LET wire == WireFromInput(doc, InputFormat(cmd.input, doc))
    IN  IF wire.code # 0 THEN wire ELSE Decode("envelope", wire.value)

\* edge envelope: --verify stops before anything is written.
EdgeEnvelope(cmd, doc) ==
    LET env == IF cmd.sign = None THEN DecodeEnvelope(cmd, doc) ELSE SignEnvelope(cmd, doc)
    IN  IF env.code # 0 THEN env
        ELSE IF cmd.verify /\ VerifyEnvelope(env.value) # 0
        THEN Error(VerifyEnvelope(env.value))
        ELSE Output(cmd.output, Wire("envelope", env.value))

\* edge batch --pack: every line on its own.  The first byte of an envelope is
\* its tag 0x0A, a newline, so binary ones do not survive the split.
PackBatch(cmd, lines) ==
    LET line(doc) == IF doc.format = "binary" THEN Wire("torn", doc.wire) ELSE doc.wire
        unpack(doc) == DecodeEnvelope(cmd, Written(doc.format, line(doc)))
    IN  IF lines = <<>> THEN Error(2)
        ELSE Collect([i \in DOMAIN lines |-> unpack(lines[i])])

\* edge batch without --pack.
DecodeBatch(cmd, doc) ==
    LET wire == WireFromInput(doc, InputFormat(cmd.input, doc))
        inner == IF wire.code # 0 \/ ~cmd.decompress THEN wire
                 ELSE IF wire.value.kind # "zstd" THEN Error(3) ELSE Ok(wire.value.value)
    IN  IF inner.code # 0 THEN inner ELSE Decode("batch", inner.value)

\* edge batch: the batch is encoded anew, compressed only when packing.
EdgeBatch(cmd, docs) ==
    LET batch == IF cmd.pack THEN PackBatch(cmd, docs) ELSE DecodeBatch(cmd, docs[1])
        wire  == Wire("batch", batch.value)
    IN  IF batch.code # 0 THEN batch
        ELSE Output(cmd.output, IF cmd.compress THEN Wire("zstd", wire) ELSE wire)

\* edge key inspect of an SS58 address or a SURI, and edge key generate, which
\* draws the secret.
EdgeKey(uri) ==
    IF uri.form = "ss58" THEN Output("text", Wire("key", [secret |-> None, public |-> uri.public]))
    ELSE IF uri.form \in {"suri", "generate"} /\ uri.key \in Secret
    THEN Output("text", Wire("key", [secret |-> uri.key, public |-> PublicKey("ed25519", uri.key)]))
    ELSE Error(2)
=============================================================================

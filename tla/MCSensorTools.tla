--------------------------- MODULE MCSensorTools ---------------------------
(***************************************************************************)
(* Scripts of the sensor tools on small numbers.  Fields hold -8 .. 7 or   *)
(* 0 .. 9; a fragment holds 4 bytes, a single frame 5, and there are at    *)
(* most 4 fragments, of which the gateway takes 3 and 11 bytes.  The       *)
(* envelope of n public measurements is n + 4 bytes long.                  *)
(***************************************************************************)
EXTENDS SensorTools

RECURSIVE MCWireLen(_)
MCWireLen(wire) ==
    CASE wire.kind = "message"  -> Cardinality(DOMAIN wire.value.public)
                                  + 2 * Cardinality(DOMAIN wire.value.private)
      [] wire.kind = "envelope" -> 4 + MCWireLen(wire.value.message)
      [] wire.kind = "batch"    ->
            FoldLeft(LAMBDA n, e : n + 1 + MCWireLen(Wire("envelope", e)), 0, wire.value)
      [] wire.kind = "zstd"     -> 1 + MCWireLen(wire.value)
      [] OTHER                  -> 3

Positions == 0 .. 20
MCBody == {<<a, b>> : a, b \in Positions \ {0}}
MCSize == [b \in MCBody |-> IF b[2] >= b[1] THEN b[2] - b[1] + 1 ELSE 1]

\* A payload without gaps is named by its length, any other by 0.
MCMessageIdOf(payload) ==
    IF Whole(payload, payload[Len(payload)][2]) THEN payload[Len(payload)][2] ELSE 0
-----------------------------------------------------------------------------
To(key, form) == [form |-> form, public |-> PublicKey("ed25519", key)]

Item(recipient, sensor, name, values) ==
    [recipient |-> recipient, sensor |-> sensor, name |-> name, values |-> values]

Message(board, argv, suri, output) ==
    [tool |-> "message", in |-> <<>>, board |-> board, argv |-> argv, suri |-> suri,
     meta |-> None, output |-> output, decrypt |-> FALSE]

ReadAs(i, input, output, suri) ==
    [tool |-> "read", in |-> <<i>>, input |-> input, output |-> output, suri |-> suri,
     decrypt |-> suri # None]

Sign(i, input, output, key, nonce, verify) ==
    [tool |-> "envelope", in |-> <<i>>, input |-> input, output |-> output, sign |-> key,
     nonce |-> nonce, verify |-> verify]

Convert(i, input, output, verify) == Sign(i, input, output, None, None, verify)

Pack(in, input, output, compress) ==
    [tool |-> "batch", in |-> in, input |-> input, output |-> output, pack |-> TRUE,
     compress |-> compress, decompress |-> FALSE]

Unpack(i, input, output, decompress) ==
    [tool |-> "batch", in |-> <<i>>, input |-> input, output |-> output, pack |-> FALSE,
     compress |-> FALSE, decompress |-> decompress]

Inspect(form, key) ==
    [tool |-> "key", in |-> <<>>,
     uri |-> [form |-> form, key |-> key, public |-> PublicKey("ed25519", key)]]

Send(i, to, port) == [tool |-> "sensor", in |-> <<i>>, gateway |-> to, port |-> port]
-----------------------------------------------------------------------------
Format == {"binary", "base64", "hex"}

Items ==
    {Malformed,
     Item(None, None, "temp", <<-5>>), Item(None, "bme280", "temperature", <<95>>),
     Item(None, "scd41", "temp", <<-95>>), Item(None, None, "humidity", <<-10>>),
     Item(None, None, "co2", <<>>), Item(None, "lm75", "temp", <<10>>),
     Item(None, None, "gps", <<1, 2>>), Item(None, None, "gps", <<1>>),
     Item(To("alice", "ss58"), None, "gps", <<1, 2, 3>>),
     Item(To("alice", "ss58"), None, "pm10", <<250>>),
     Item(To("alice", "hex"), None, "co2", <<1500>>),
     Item(To("alice", "hex"), None, "noise_max", <<12000>>),
     Item(To("bob", "hex"), "bme680", "pressure", <<949>>),
     Item(To("bob", "neither"), None, "gps", <<1, 2>>),
     Item([form |-> "hex", public |-> NotAPoint], None, "gps", <<1, 2>>)}

\* Up to three measurements of a message, read by this key or by none.
ReadScripts ==
    {<<Message(board, argv, suri, format), ReadAs(1, None, "text", reader)>> :
        board \in {"urban", "insight"}, suri \in {None, "bob"}, format \in {"hex"},
        reader \in {None, "alice", "bob"},
        argv \in UNION {[1 .. n -> Items] : n \in 1 .. 2}}
    \cup {<<Message("urban", argv, "bob", "text")>> : argv \in [1 .. 3 -> Items]}

\* Everything in and out of every representation.
ConvertScripts ==
    {<<Message("urban", [i \in 1 .. n |-> Item(None, None, "pm25", <<100>>)], None, first),
       Sign(1, first, mid, "alice", nonce, verify), Convert(2, input, last, verify),
       Pack(<<2, 3, 2>>, None, last, compress), Unpack(4, input, first, compress),
       Inspect("suri", "alice")>> :
          n \in 1 .. 2, first \in Format, mid \in Format, last \in Format,
          nonce \in {None, 15, 32, 33, BadHex},
          verify \in BOOLEAN, input \in Format \cup {None, "text"}, compress \in BOOLEAN}
    \cup {<<Message("urban", <<Item(None, None, "pm25", <<100>>)>>, None, first),
            Sign(1, None, "text", "alice", None, FALSE), ReadAs(2, None, mid, None),
            ReadAs(3, None, "text", None)>> : first \in {"binary"}, mid \in Format}
    \cup {<<Inspect("ss58", "alice"), Inspect(form, key)>> :
            form \in {"suri", "generate", "other"}, key \in {"bob", "none"}}

\* Envelopes of 5 .. 17 bytes to a gateway.
SendScripts ==
    {<<Message("urban", [i \in 1 .. n |-> Item(None, None, "pm25", <<100>>)], None, "binary"),
       Sign(1, None, output, "alice", None, TRUE), Send(2, "!hex", TRUE)>> :
          n \in {1, 4, 5, 8, 12, 13}, output \in {"binary", "hex"}}
    \cup {<<Message("urban", <<Item(None, None, "pm25", <<100>>)>>, None, "binary"),
            Sign(1, None, "binary", "alice", None, TRUE), Send(2, to, port)>> :
              to \in {"0xhex", "decimal", "name"}, port \in BOOLEAN}

MCScript == ReadScripts \cup ConvertScripts \cup SendScripts
=============================================================================

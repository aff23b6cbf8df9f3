--------------------------- MODULE SensorMessage ---------------------------
(***************************************************************************)
(* `edge message' (edge/src/cli/message.rs): compact measurements from the *)
(* command line to a core.v1.Message and back to the readings it shows.    *)
(* An argument is the record of the parts it splits into,                  *)
(*   [recipient, sensor, name, values],                                    *)
(* with `values' the numbers after `=', in thousandths, or <<>> if they do *)
(* not parse.  Whatever cannot be split at all is Malformed.  A vector     *)
(* that is filled from the arguments is a function on the positions of the *)
(* arguments it was filled from, and keeps their order.                    *)
(***************************************************************************)
EXTENDS Sealing, Integers, SequencesExt

CONSTANTS None,
          MaxI32, MaxU32    \* 2^31 - 1 and 2^32 - 1 in the code

ASSUME FieldConstants == MaxI32 \in Nat /\ MaxU32 \in Nat /\ None \notin Secret

Malformed == [malformed |-> TRUE]

Error(code) == [code |-> code]
Ok(value) == [code |-> 0, value |-> value]
-----------------------------------------------------------------------------
(* What the boards carry.                                                  *)

\* SensorKind::measurements
Measurements ==
    [bme280   |-> {"temperature", "humidity", "pressure"},
     bme680   |-> {"temperature", "humidity", "pressure"},
     scd41    |-> {"co2", "temperature", "humidity"},
     sds011   |-> {"pm25", "pm10"},
     ics43434 |-> {"noise_max", "noise_avg"}]

\* SensorKind::board
SensorsOf ==
    [urban |-> {"bme280", "sds011", "ics43434"}, insight |-> {"bme680", "scd41"}]

CanonicalMeasurement(name) == IF name = "temp" THEN "temperature" ELSE name

\* Thousandths in one unit of the stored field.
Unit ==
    [temperature |-> 10, humidity |-> 10, pressure |-> 100, co2 |-> 1000,
     pm25 |-> 100, pm10 |-> 100, noise_max |-> 1000, noise_avg |-> 1000]

Clamped(x, low, high) == IF x < low THEN low ELSE IF x > high THEN high ELSE x

\* Rounding half away from zero.
Rounded(x, unit) ==
    IF x >= 0 THEN (2 * x + unit) \div (2 * unit) ELSE -((unit - 2 * x) \div (2 * unit))

\* f64_to_centi is signed; f64_to_centiu, f64_to_deciu and f64_to_u32 are not.
Stored(name, x) ==
    Clamped(Rounded(x, Unit[name]),
            IF name = "temperature" THEN -MaxI32 - 1 ELSE 0,
            IF name = "temperature" THEN MaxI32 ELSE MaxU32)

\* centi_to_f64, centiu_to_f64, deci_to_f64, and whole units as they are.
Shown(reading) ==
    IF reading.sensor = "gps" THEN reading
    ELSE [reading EXCEPT !.values = <<@[1] * Unit[reading.name]>>]

\* The sensors of the board that this argument may mean.
Candidates(board, item) ==
    {s \in SensorsOf[board] :
        /\ item.sensor \in {None, s}
        /\ CanonicalMeasurement(item.name) \in Measurements[s]}

\* parse_item and build_urban/build_insight: any error is a usage error.
ParseItem(board, item) ==
    LET isGps == item # Malformed /\ item.name = "gps" /\ item.sensor = None
        fits  == Candidates(board, item)
        name  == CanonicalMeasurement(item.name)
    IN  IF item = Malformed THEN Error(2)
        ELSE IF isGps
        THEN IF Len(item.values) \notin {2, 3} THEN Error(2)
             ELSE Ok([sensor |-> "gps", name |-> "gps",
                      values |-> IF Len(item.values) = 3 THEN item.values
                                 ELSE Append(item.values, 0)])
        ELSE IF Len(item.values) # 1 \/ \A s \in fits : fits # {s} THEN Error(2)
        ELSE Ok([sensor |-> CHOOSE s \in fits : TRUE, name |-> name,
                 values |-> <<Stored(name, item.values[1])>>])
-----------------------------------------------------------------------------
(* Encoding.                                                               *)

\* The arguments for somebody in particular.
Private(argv) == {i \in DOMAIN argv : argv[i].recipient # None}

\* Mutant: an entry joins the one group there is.
GroupOfAny(argv, i) == Private(argv)

\* group_push: an entry joins those of its recipient, as written.
GroupOf(argv, i) == {j \in DOMAIN argv : argv[j].recipient = argv[i].recipient}

\* A group is named by its first entry, and groups come in that order.
Groups(argv) == {i \in Private(argv) : \A j \in GroupOf(argv, i) : i <= j}

\* SensorId::from_ss58 or from_hex: a recipient is written in one of the two
\* forms or is neither.
ResolveRecipient(recipient) == IF recipient.form \in {"ss58", "hex"} THEN {recipient.public} ELSE {}

\* encrypt_group, always with Ed25519 and XChaCha20-Poly1305.
EncryptGroup(suri, recipient, readings) ==
    LET sealed == UNION {Encrypt("ed25519", suri, readings, public, "xchacha20") :
                            public \in ResolveRecipient(recipient)}
        e == CHOOSE e \in sealed : TRUE
    IN  IF ResolveRecipient(recipient) = {} THEN Error(2)
        ELSE IF sealed = {} THEN Error(1)
        ELSE Ok([algorithm |-> "xchacha20", from |-> e.from, nonce |-> e.nonce,
                 ciphertext |-> e.ciphertext])

\* The first error of these results, or all their values.
Collect(results) ==
    LET failing == {i \in DOMAIN results : results[i].code # 0}
    IN  IF failing # {} THEN results[Min(failing)]
        ELSE Ok([i \in DOMAIN results |-> results[i].value])

\* compact::parse, then apply_meta.
Parse(board, argv, suri, meta) ==
    LET parsed  == Collect([i \in DOMAIN argv |-> ParseItem(board, argv[i])])
        Pick(S) == [i \in S |-> parsed.value[i]]
        entries == Collect([g \in Groups(argv) |->
                               EncryptGroup(suri, argv[g].recipient, Pick(GroupOf(argv, g)))])
    IN  IF argv = <<>> THEN Error(2)
        ELSE IF parsed.code # 0 THEN parsed
        ELSE IF Private(argv) # {} /\ suri \notin Secret THEN Error(2)
        ELSE IF entries.code # 0 THEN entries
        ELSE Ok([meta |-> meta, board |-> board, public |-> Pick(DOMAIN argv \ Private(argv)),
                 private |-> entries.value])
-----------------------------------------------------------------------------
(* Decoding to text.                                                       *)

\* decrypt_entry: the algorithm is read from the entry's tag.
DecryptEntry(entry, suri) ==
    UNION {Decrypt("ed25519", suri, [entry EXCEPT !.algorithm = a]) :
              a \in AlgorithmOf(entry.algorithm)}

\* print_private_entry: the readings if this key opens it.
PrintPrivateEntry(entry, suri) ==
    {[i \in DOMAIN readings |-> Shown(readings[i])] :
        readings \in IF suri \in Secret THEN DecryptEntry(entry, suri) ELSE {}}

\* print_message
PrintMessage(message, suri) ==
    [public  |-> [i \in DOMAIN message.public |-> Shown(message.public[i])],
     private |-> [g \in DOMAIN message.private |-> PrintPrivateEntry(message.private[g], suri)]]
=============================================================================

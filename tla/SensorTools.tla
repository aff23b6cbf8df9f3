---------------------------- MODULE SensorTools ----------------------------
(***************************************************************************)
(* A shell script of `edge' commands that builds, signs, converts, packs,  *)
(* reads and sends telemetry, down to `edge sensor meshtastic', which      *)
(* sends a signed envelope over a mesh to the reassembler of a gateway     *)
(* (edge/src/cli, edge/src/ingress/meshtastic/frame.rs).  The mesh is      *)
(* external: it loses, delays and repeats packets and acknowledgements.    *)
(*                                                                         *)
(* Bytes of the envelope are named by their positions: a fragment body is  *)
(* the pair of the first and the last it holds.                            *)
(***************************************************************************)
EXTENDS SignedEnvelopes, Reassembly

CONSTANTS Script,           \* the scripts considered
          MaxSingleBody,    \* MAX_SINGLE_BODY of the wire format
          MaxReplies,       \* routing packets the mesh sends back, at most
          MaxTries          \* times the operator runs the send command

\* The script's radio is the only one.
ASSUME FrameConstants ==
    /\ MaxFragmentBody \in Nat \ {0}
    /\ MaxSingleBody \in Nat /\ MaxSingleBody >= MaxFragmentBody
    /\ \A s, t \in Sender : s = t

ReprFormat == {"binary", "base64", "hex", "text"}

\* What clap lets through, given the output of commands that were run before.
IsItem(item) ==
    \/ item = Malformed
    \/ /\ DOMAIN item = {"recipient", "sensor", "name", "values"}
       /\ item.values \in Seq(Int)

IsCommand(cmd, before) ==
    /\ cmd.tool \in {"message", "read", "envelope", "batch", "key", "sensor"}
    /\ cmd.in \in Seq(1 .. before)
    /\ cmd.tool \in {"read", "envelope", "sensor"} => DOMAIN cmd.in = {1}
    /\ cmd.tool = "batch" => cmd.pack \/ DOMAIN cmd.in = {1}
    /\ cmd.tool \in {"read", "envelope", "batch"} => cmd.input \in ReprFormat \cup {None}
    /\ cmd.tool \in {"message", "read", "envelope", "batch"} => cmd.output \in ReprFormat
    /\ cmd.tool = "message" =>
          /\ cmd.in = <<>> /\ cmd.board \in DOMAIN SensorsOf
          /\ cmd.argv \in Seq(Range(cmd.argv)) /\ cmd.argv # <<>>
          /\ \A k \in DOMAIN cmd.argv : IsItem(cmd.argv[k])

ASSUME ScriptConstants ==
    \A commands \in Script :
        /\ commands \in Seq(Range(commands))
        /\ \A k \in 1 .. Len(commands) : IsCommand(commands[k], k - 1)

VARIABLES script,   \* commands still to run
          ran,      \* commands that succeeded
          outs,     \* what each of those wrote
          origin,   \* the one without input that each goes back to (history)
          failed,   \* the command that did not, or None
          code,     \* exit code of the last command
          snd,      \* edge sensor meshtastic
          air,      \* packets on the mesh
          seen,     \* ids of packets the gateway's radio has received
          rx,       \* routing packets at the sender's radio
          replies,
          host,     \* frames at the gateway
          accepted, \* payloads the gateway has whole
          lapsed    \* the gateway gave up on an assembly

tools == <<script, ran, outs, origin, failed, code>>
mesh == <<air, seen, rx, replies>>
gateway == <<reassemblyVars, host, accepted, lapsed>>

Off == [pc |-> "off", frames |-> <<>>, at |-> 1, id |-> 0, wire |-> None, tries |-> 0]
-----------------------------------------------------------------------------
(* Commands that read, compute and write.                                  *)

\* The text of an envelope shows its message in hex, which can be copied.
Copied(doc) ==
    IF doc.format = "text" /\ doc.wire.kind = "envelope"
    THEN Written("hex", doc.wire.value.message) ELSE doc

Inputs(cmd) == [i \in DOMAIN cmd.in |-> outs[cmd.in[i]]]

\* The script goes on only after success.
Ends(cmd, result) ==
    /\ code' = result.code
    /\ script' = Tail(script)
    /\ IF result.code = 0
       THEN /\ ran' = Append(ran, cmd) /\ outs' = Append(outs, result.value)
            /\ origin' = Append(origin, IF cmd.in = <<>> THEN Len(ran) + 1 ELSE origin[cmd.in[1]])
            /\ UNCHANGED failed
       ELSE failed' = cmd /\ UNCHANGED <<ran, outs, origin>>

Turn(tool) == script # <<>> /\ code = 0 /\ snd.pc = "off" /\ Head(script).tool = tool

RunMessage ==
    /\ Turn("message")
    /\ Ends(Head(script), EncodeMessage(Head(script)))
    /\ UNCHANGED <<snd, mesh, gateway>>

RunRead ==
    /\ Turn("read")
    /\ Ends(Head(script), ReadMessage(Head(script), Copied(Inputs(Head(script))[1])))
    /\ UNCHANGED <<snd, mesh, gateway>>

RunEnvelope ==
    /\ Turn("envelope")
    /\ Ends(Head(script), EdgeEnvelope(Head(script), Inputs(Head(script))[1]))
    /\ UNCHANGED <<snd, mesh, gateway>>

RunBatch ==
    /\ Turn("batch")
    /\ Ends(Head(script), EdgeBatch(Head(script), Inputs(Head(script))))
    /\ UNCHANGED <<snd, mesh, gateway>>

RunKey ==
    /\ Turn("key")
    /\ Ends(Head(script), EdgeKey(Head(script).uri))
    /\ UNCHANGED <<snd, mesh, gateway>>
-----------------------------------------------------------------------------
(* Frames.                                                                 *)

\* frame::message_id of the bytes 1 .. n.
FrameId(n) == MessageIdOf(<<<<1, n>>>>)

\* The last body may be shorter.
Chunk(n, i) == <<(i - 1) * MaxFragmentBody + 1,
                 IF i * MaxFragmentBody < n THEN i * MaxFragmentBody ELSE n>>

FragmentCount(n) == (n + MaxFragmentBody - 1) \div MaxFragmentBody

\* encode_frames; count and index share a descriptor of two nibbles.
EncodeFrames(n) ==
    IF n = 0 THEN Error(3)
    ELSE IF n <= MaxSingleBody THEN Ok(<<[type |-> "single", body |-> <<1, n>>]>>)
    ELSE IF FragmentCount(n) > MaxFragmentCount THEN Error(3)
    ELSE Ok([i \in 1 .. FragmentCount(n) |->
                [type |-> "fragment", id |-> FrameId(n), body |-> Chunk(n, i),
                 descriptor |-> (FragmentCount(n) - 1) * MaxFragmentCount + i - 1]])

BodyLen(body) == body[2] - body[1] + 1

\* Bodies are what lies between two positions, and the id of a payload does not
\* depend on how its bytes are cut.
ASSUME BodyConstants ==
    LET longest == MaxFragmentCount * MaxFragmentBody
    IN  /\ \A a, b \in 1 .. longest : a <= b => <<a, b>> \in Body /\ Size[<<a, b>>] = b - a + 1
        /\ \A n \in MaxSingleBody + 1 .. longest :
              MessageIdOf([i \in 1 .. FragmentCount(n) |-> Chunk(n, i)]) = FrameId(n)

\* parse_fragment, to a frame of the reassembler, where indices begin at 1.
ParseFragment(frame) ==
    LET count == (frame.descriptor \div MaxFragmentCount) + 1
        index == frame.descriptor % MaxFragmentCount
        len   == BodyLen(frame.body)
    IN  IF \/ count < 2 \/ index >= count
           \/ len \notin 1 .. MaxFragmentBody
           \/ index < count - 1 /\ len # MaxFragmentBody
        THEN {}
        ELSE {[id |-> frame.id, index |-> index + 1, count |-> count, body |-> frame.body]}

\* parse_single
ParseSingle(frame) == IF BodyLen(frame.body) \in 1 .. MaxSingleBody THEN {frame.body} ELSE {}
-----------------------------------------------------------------------------
(* edge sensor meshtastic.                                                 *)

\* parse_node_id
ParseNodeId(gateway_arg) == gateway_arg \in {"!hex", "0xhex", "decimal"}

\* What run_meshtastic says of its arguments, the envelope as raw bytes, and its
\* frames.
SensorError(cmd, doc) ==
    LET env == Decode("envelope", IF doc.format = "binary" THEN doc.wire ELSE Wire("text", doc))
    IN  IF ~ParseNodeId(cmd.gateway) \/ ~cmd.port THEN 2
        ELSE IF env.code # 0 THEN env.code ELSE EncodeFrames(WireLen(doc.wire)).code

\* run_meshtastic up to the radio.
StartSensor ==
    /\ Turn("sensor")
    /\ LET cmd == Head(script)
           doc == Inputs(cmd)[1]
       IN  IF SensorError(cmd, doc) # 0
           THEN Ends(cmd, Error(SensorError(cmd, doc))) /\ UNCHANGED snd
           ELSE /\ snd' = [Off EXCEPT !.pc = "handshake", !.wire = doc.wire,
                                      !.frames = EncodeFrames(WireLen(doc.wire)).value,
                                      !.tries = snd.tries + 1]
                /\ UNCHANGED tools
    /\ UNCHANGED <<mesh, gateway>>

\* The command is over: the session is disconnected and the code reported.
SensorEnds(exit) ==
    /\ snd' = [snd EXCEPT !.pc = "done"]
    /\ code' = exit
    /\ UNCHANGED <<script, ran, outs, origin, failed>>

\* send_over_serial opens the device and configures it; wait_for_ready needs
\* our node id and the echo of our configuration id, in either order, before
\* its time-out.
WaitForReady ==
    /\ snd.pc = "handshake"
    /\ \E opened, info, complete \in BOOLEAN :
          IF opened /\ info /\ complete
          THEN snd' = [snd EXCEPT !.pc = "send"] /\ UNCHANGED tools
          ELSE SensorEnds(1)
    /\ UNCHANGED <<mesh, gateway>>

\* The radio gives no two packets the same id.
PacketId(try, k) == k + (try - 1) * MaxFragmentCount

\* send_fragment: the packet is sent, and its id learned from the echo.
SendFragment ==
    /\ snd.pc = "send"
    /\ \/ /\ air' = air \cup {[id |-> PacketId(snd.tries, snd.id + 1),
                               frame |-> snd.frames[snd.at]]}
          /\ snd' = [snd EXCEPT !.pc = "wait", !.id = @ + 1]
          /\ UNCHANGED tools
       \/ SensorEnds(1) /\ UNCHANGED air
    /\ UNCHANGED <<seen, rx, replies, gateway>>

\* The id of the packet that is waited for.
SentId == PacketId(snd.tries, snd.id)

\* Mutant: any acknowledgement will do.
AnswersAny(packet) == packet.port = "routing"

\* The routing packet that answers this one.
Answers(packet) == packet.port = "routing" /\ packet.request = SentId

\* wait_for_ack takes a packet: others are passed over, and who sent it is not
\* looked at.  An error is a failure, and so is nothing else; submit_fragments
\* then goes on to the next fragment.
WaitForAck ==
    /\ snd.pc = "wait" /\ rx # <<>>
    /\ rx' = Tail(rx)
    /\ IF ~Answers(Head(rx)) THEN UNCHANGED <<snd, tools>>
       ELSE IF Head(rx).error THEN SensorEnds(1)
       ELSE IF snd.at = Len(snd.frames) THEN SensorEnds(0)
       ELSE snd' = [snd EXCEPT !.pc = "send", !.at = @ + 1] /\ UNCHANGED tools
    /\ UNCHANGED <<air, seen, replies, gateway>>

\* The time-out, or the serial connection closes.
AckTimesOut ==
    /\ snd.pc = "wait"
    /\ SensorEnds(1)
    /\ UNCHANGED <<mesh, gateway>>

\* The operator runs a failed send again.
RunAgain ==
    /\ snd.pc = "done" /\ code # 0 /\ snd.tries < MaxTries
    /\ snd' = [snd EXCEPT !.pc = "off"]
    /\ code' = 0
    /\ UNCHANGED <<script, ran, outs, origin, failed, mesh, gateway>>
-----------------------------------------------------------------------------
(* The mesh.                                                               *)

\* An error is a reason other than NONE, or a payload that does not decode.  No
\* error stands for the reason NONE and for what names no reason at all, as a
\* route: the sender takes them alike.
Reply(packet, error) == [port |-> "routing", request |-> packet.id, error |-> error]

\* A packet is received, for the first time or again; the acknowledgement
\* arrives or is lost, and the packet may be sent again or not.  Of the mesh it
\* is assumed that no node but the one a packet is for answers it without an
\* error, which the sender does not check.
MeshDelivers ==
    \E packet \in air, acked, again \in BOOLEAN :
        /\ acked => replies < MaxReplies
        /\ seen' = seen \cup {packet.id}
        /\ host' = IF packet.id \in seen THEN host ELSE Append(host, packet.frame)
        /\ rx' = IF acked THEN Append(rx, Reply(packet, FALSE)) ELSE rx
        /\ replies' = IF acked THEN replies + 1 ELSE replies
        /\ air' = IF again THEN air ELSE air \ {packet}
        /\ UNCHANGED <<tools, snd, reassemblyVars, accepted, lapsed>>

\* The firmware gives up on a packet and says so.
MeshGivesUp ==
    \E packet \in air :
        /\ replies < MaxReplies
        /\ air' = air \ {packet}
        /\ rx' = Append(rx, Reply(packet, TRUE))
        /\ replies' = replies + 1
        /\ UNCHANGED <<tools, snd, seen, gateway>>
-----------------------------------------------------------------------------
(* The gateway.                                                            *)

Takes(payload) == accepted' = Append(accepted, payload)

HearSingle ==
    /\ host # <<>> /\ Head(host).type = "single"
    /\ host' = Tail(host)
    /\ IF ParseSingle(Head(host)) = {} THEN UNCHANGED accepted
       ELSE \E body \in ParseSingle(Head(host)) : Takes(<<body>>)
    /\ UNCHANGED <<tools, snd, mesh, reassemblyVars, lapsed>>

\* A fragment that does not complete its payload.
HearPart ==
    /\ host # <<>> /\ Head(host).type = "fragment"
    /\ host' = Tail(host)
    /\ IF ParseFragment(Head(host)) = {} THEN UNCHANGED reassemblyVars
       ELSE \E frame \in ParseFragment(Head(host)), sender \in Sender :
             LET key == Key(sender, frame)
             IN  Begin(key, frame) \/ Progress(key, frame) \/ Poison(key, frame) \/ Ignore(key, frame)
    /\ UNCHANGED <<tools, snd, mesh, accepted, lapsed>>

HearLast ==
    /\ host # <<>> /\ Head(host).type = "fragment"
    /\ host' = Tail(host)
    /\ \E frame \in ParseFragment(Head(host)), sender \in Sender :
          LET key == Key(sender, frame)
          IN  /\ LastFragment(key, frame)
              /\ DiscardAll({key})
              /\ IF Verified(key, frame) THEN Takes(Concatenated(key, frame))
                 ELSE UNCHANGED accepted
    /\ UNCHANGED <<tools, snd, mesh, lapsed>>

\* A time-out passes and the sweep finds it.
GatewaySweeps ==
    \E key \in DOMAIN assemblies :
        /\ DiscardAll({key})
        /\ lapsed' = TRUE
        /\ UNCHANGED <<tools, snd, mesh, host, accepted>>
-----------------------------------------------------------------------------
Init ==
    /\ script \in Script
    /\ ran = <<>> /\ outs = <<>> /\ origin = <<>> /\ failed = None /\ code = 0
    /\ snd = Off
    /\ air = {} /\ seen = {} /\ rx = <<>> /\ replies = 0
    /\ ReassemblyInit
    /\ host = <<>> /\ accepted = <<>> /\ lapsed = FALSE

Next ==
    \/ RunMessage \/ RunRead \/ RunEnvelope \/ RunBatch \/ RunKey
    \/ StartSensor \/ WaitForReady \/ SendFragment \/ WaitForAck \/ AckTimesOut \/ RunAgain
    \/ MeshDelivers \/ MeshGivesUp
    \/ HearSingle \/ HearPart \/ HearLast \/ GatewaySweeps

Spec == Init /\ [][Next]_<<tools, snd, mesh, gateway>>
-----------------------------------------------------------------------------
\* Every byte of the envelope, in order.
Whole(payload, n) ==
    /\ payload[1][1] = 1 /\ payload[Len(payload)][2] = n
    /\ \A i \in 1 .. Len(payload) - 1 : payload[i + 1][1] = payload[i][2] + 1

(***************************************************************************)
(* Once `edge sensor meshtastic' reports delivery, the gateway has every   *)
(* fragment, and unless its own limits or time-outs intervene it has the   *)
(* exact envelope when its queue is drained; it never has anything else.   *)
(* Late and repeated acknowledgements and a second run of the command do   *)
(* not change this (submit_fragments, wait_for_ack, encode_frames).        *)
(***************************************************************************)
DeliveredMeansReceived ==
    LET n == WireLen(snd.wire)
    IN  /\ snd.wire # None => \A i \in DOMAIN accepted : Whole(accepted[i], n)
        /\ (/\ snd.pc = "done" /\ code = 0 /\ host = <<>> /\ ~lapsed
            /\ Len(snd.frames) <= MaxFragments
            /\ n <= MaxReassembledBytes \/ Len(snd.frames) = 1)
           => accepted # <<>>

Abs(x) == IF x < 0 THEN -x ELSE x

\* The representable value nearest to x, away from zero if there are two.
Nearest(name, x) ==
    LET steps == IF name = "temperature" THEN -MaxI32 - 1 .. MaxI32 ELSE 0 .. MaxU32
    IN  CHOOSE v \in {s * Unit[name] : s \in steps} : \A s \in steps :
            LET w == s * Unit[name]
            IN  \/ Abs(x - v) < Abs(x - w)
                \/ Abs(x - v) = Abs(x - w) /\ Abs(v) >= Abs(w)

\* What an argument says, wherever it is read.
Said(item) ==
    IF item.name = "gps"
    THEN <<"gps", IF Len(item.values) = 3 THEN item.values ELSE Append(item.values, 0)>>
    ELSE <<CanonicalMeasurement(item.name),
           <<Nearest(CanonicalMeasurement(item.name), item.values[1])>>>>

\* These readings are what the arguments they come from say.
SayTheSame(readings, argv) ==
    \A k \in DOMAIN readings : <<readings[k].name, readings[k].values>> = Said(argv[k])

(***************************************************************************)
(* Whoever reads a message sees every public measurement, and every        *)
(* private one addressed to the key he decrypts with however the address   *)
(* was written, once and as the nearest value its field can hold; and no   *)
(* other (compact::parse, encrypt_group, print_private_entry).             *)
(***************************************************************************)
AddresseesRead ==
    \A i \in DOMAIN ran : ran[i].tool \in {"message", "read"} /\ ran[i].output = "text" =>
        LET argv   == ran[origin[i]].argv
            shown  == outs[i].wire.value
            public == {k \in DOMAIN argv : argv[k].recipient = None}
            mine   == {k \in DOMAIN argv \ public :
                         /\ ran[i].decrypt /\ ran[i].suri \in Secret
                         /\ argv[k].recipient.public = PublicKey("ed25519", ran[i].suri)}
        IN  /\ DOMAIN shown.public = public /\ SayTheSame(shown.public, argv)
            /\ \A g \in DOMAIN shown.private : \A readings \in shown.private[g] :
                  /\ DOMAIN readings \subseteq mine /\ SayTheSame(readings, argv)
                  /\ \A h \in DOMAIN shown.private \ {g} : \A others \in shown.private[h] :
                        DOMAIN readings \cap DOMAIN others = {}
            /\ mine \subseteq UNION {DOMAIN readings : readings \in UNION Range(shown.private)}

\* The command is given what it is for, in the form it is told to expect or
\* is left to find out.  Lines cannot be binary.
Understands(cmd, docs) ==
    /\ cmd.tool \in {"envelope", "batch"}
    /\ \A i \in DOMAIN docs : docs[i].format # "text" /\ cmd.input \in {None, docs[i].format}
    /\ \/ /\ cmd.tool = "envelope" /\ cmd.sign = None /\ docs[1].wire.kind = "envelope"
          /\ cmd.verify => VerifyEnvelope(docs[1].wire.value) = 0
       \/ /\ cmd.tool = "batch" /\ cmd.pack /\ docs # <<>>
          /\ \A i \in DOMAIN docs : docs[i].format # "binary" /\ docs[i].wire.kind = "envelope"
       \/ /\ cmd.tool = "batch" /\ ~cmd.pack
          /\ docs[1].wire.kind = IF cmd.decompress THEN "zstd" ELSE "batch"

\* The envelopes in these bytes.
Envelopes(wire) ==
    CASE wire.kind = "envelope" -> <<wire.value>>
      [] wire.kind = "batch"    -> wire.value
      [] wire.kind = "zstd"     -> wire.value.value

\* The envelopes a command is given; packing takes one from each document.
Given(cmd, docs) ==
    IF cmd.tool = "batch" /\ cmd.pack THEN [k \in DOMAIN docs |-> docs[k].wire.value]
    ELSE Envelopes(docs[1].wire)

(***************************************************************************)
(* What `edge envelope' and `edge batch' write, in whatever representation *)
(* and compressed or not, the next command reads back as the same          *)
(* envelopes, sniffing included (sniff_byte_format, wire_from_input).      *)
(***************************************************************************)
OutputReadsBack ==
    /\ failed # None => ~Understands(failed, Inputs(failed))
    /\ \A i \in DOMAIN ran : Understands(ran[i], Inputs(ran[i])) =>
          Envelopes(outs[i].wire) = Given(ran[i], Inputs(ran[i]))
=============================================================================

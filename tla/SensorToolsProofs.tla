------------------------- MODULE SensorToolsProofs -------------------------
(***************************************************************************)
(* Proofs about the sensor tools: `edge sensor meshtastic' against the     *)
(* gateway's reassembler, the representations the tools exchange, and who  *)
(* reads which measurement.                                                *)
(***************************************************************************)
EXTENDS SensorTools, FiniteSetTheorems, NaturalsInduction, TLAPS

-----------------------------------------------------------------------------
(***************************************************************************)
(* Frames.                                                                 *)
(***************************************************************************)
\* Quotient and remainder are unique.
LEMMA Quotient ==
    ASSUME NEW M \in Nat \ {0}, NEW q \in Nat, NEW r \in 0 .. M - 1
    PROVE  (q * M + r) \div M = q /\ (q * M + r) % M = r
<1> DEFINE x == q * M + r
           p == x \div M
           s == x % M
<1>1. q * M \in Nat /\ x \in Nat
  OBVIOUS
<1> HIDE DEF x
<1>2. p \in Int /\ s \in 0 .. M - 1 /\ x = M * p + s
  BY <1>1
<1> HIDE DEF p, s
<1>3. q * M + r = M * p + s
  BY <1>2 DEF x
<1>4. ASSUME p >= q + 1 PROVE FALSE
  <2>1. M * p >= M * (q + 1)
    BY <1>2, <1>4
  <2>2. M * (q + 1) = q * M + M
    OBVIOUS
  <2> QED BY <1>1, <1>2, <1>3, <2>1, <2>2
<1>5. ASSUME p <= q - 1 PROVE FALSE
  <2>1. M * p <= M * (q - 1)
    BY <1>2, <1>5
  <2>2. M * (q - 1) = q * M - M
    OBVIOUS
  <2> QED BY <1>1, <1>2, <1>3, <2>1, <2>2
<1>6. p = q
  BY <1>2, <1>4, <1>5
<1>7. M * p = q * M
  BY <1>6
<1> QED BY <1>1, <1>2, <1>3, <1>6, <1>7 DEF x, p, s

\* Packets of different fragments have different ids, whichever run sent them.
LEMMA PacketIds ==
    ASSUME NEW t \in Nat \ {0}, NEW u \in Nat \ {0}, NEW i \in 1 .. MaxFragmentCount,
           NEW j \in 1 .. MaxFragmentCount, PacketId(t, i) = PacketId(u, j)
    PROVE  i = j
<1>1. MaxFragmentCount \in Nat \ {0}
  BY ReassemblyConstants
<1>2. (t - 1) * MaxFragmentCount + (i - 1) = (u - 1) * MaxFragmentCount + (j - 1)
  BY <1>1 DEF PacketId
<1>3. /\ t - 1 \in Nat /\ u - 1 \in Nat
      /\ i - 1 \in 0 .. MaxFragmentCount - 1 /\ j - 1 \in 0 .. MaxFragmentCount - 1
  BY <1>1
<1>4. /\ ((t - 1) * MaxFragmentCount + (i - 1)) % MaxFragmentCount = i - 1
      /\ ((u - 1) * MaxFragmentCount + (j - 1)) % MaxFragmentCount = j - 1
  BY <1>1, <1>3, Quotient
<1> QED BY <1>2, <1>3, <1>4

\* An envelope that needs fragments, and what they are.
Fragmented(n) ==
    /\ n \in MaxSingleBody + 1 .. MaxFragmentCount * MaxFragmentBody
    /\ FragmentCount(n) \in 2 .. MaxFragmentCount
    /\ (FragmentCount(n) - 1) * MaxFragmentBody < n
    /\ n <= FragmentCount(n) * MaxFragmentBody

\* frame::encode_frames: as many fragments as cover the envelope, and no more.
LEMMA Fragments ==
    ASSUME NEW n \in Nat, n > MaxSingleBody, FragmentCount(n) <= MaxFragmentCount
    PROVE  Fragmented(n)
<1> DEFINE F == MaxFragmentBody
           c == FragmentCount(n)
<1>1. F \in Nat \ {0} /\ MaxFragmentCount \in Nat /\ MaxSingleBody \in Nat /\ F <= MaxSingleBody
  BY FrameConstants, ReassemblyConstants
<1> DEFINE x == n + F - 1
           r == x % F
<1>x. x \in Nat
  BY <1>1
<1>2. c \in Int /\ r \in 0 .. F - 1 /\ x = F * c + r
  <2>1. c = x \div F
    BY DEF FragmentCount
  <2> HIDE DEF c, x, F
  <2> QED BY <1>1, <1>x, <2>1
<1> HIDE DEF F, c, x, r
<1>3. F * c = c * F /\ F * c \in Int /\ (c - 1) * F = c * F - F
  BY <1>1, <1>2
<1>4. r \in 0 .. F - 1 /\ n + F - 1 = F * c + r
  BY <1>2 DEF x
<1>5. n <= c * F /\ (c - 1) * F < n
  BY <1>1, <1>3, <1>4
<1>6. CASE c <= 1
  <2>1. c * F <= 1 * F
    BY <1>1, <1>2, <1>6
  <2> QED BY <1>1, <1>2, <1>3, <1>5, <2>1
<1>7. c * F <= MaxFragmentCount * F
  BY <1>1, <1>2 DEF c
<1>8. MaxFragmentCount * F \in Nat
  BY <1>1
<1> QED BY <1>1, <1>2, <1>3, <1>5, <1>6, <1>7, <1>8 DEF Fragmented, F, c
-----------------------------------------------------------------------------
(***************************************************************************)
(* What is sent, and the inductive invariant of a delivery.                *)
(***************************************************************************)
\* Lengths of wire bytes; only an empty message or batch has none.
WireLengths ==
    \A wire : /\ WireLen(wire) \in Nat
              /\ wire.kind \in {"envelope", "zstd"} => WireLen(wire) > 0
              /\ wire.kind = "batch" /\ wire.value # <<>> => WireLen(wire) > 0

\* The number of frames of n bytes, each of them, and what the gateway makes
\* of them all.
CountOf(n) == IF n <= MaxSingleBody THEN 1 ELSE FragmentCount(n)

FrameOf(n, i) ==
    IF n <= MaxSingleBody THEN [type |-> "single", body |-> <<1, n>>]
    ELSE [type |-> "fragment", id |-> FrameId(n), body |-> Chunk(n, i),
          descriptor |-> (FragmentCount(n) - 1) * MaxFragmentCount + i - 1]

Payload(n) ==
    IF n <= MaxSingleBody THEN <<<<1, n>>>> ELSE [i \in 1 .. FragmentCount(n) |-> Chunk(n, i)]

\* These bytes can be sent.
Sendable(n) == n \in Nat \ {0} /\ (n > MaxSingleBody => Fragmented(n))

\* The command at the head of the script is the one that sends.
Prepared ==
    LET cmd == Head(script)
        doc == Inputs(cmd)[1]
    IN  /\ script # <<>> /\ cmd.tool = "sensor"
        /\ SensorError(cmd, doc) = 0
        /\ snd.wire = doc.wire
        /\ snd.frames = EncodeFrames(WireLen(doc.wire)).value

\* Where the command is among its frames.
OnTrack(c) ==
    /\ DOMAIN snd = {"pc", "frames", "at", "id", "wire", "tries"}
    /\ snd.pc \in {"off", "handshake", "send", "wait", "done"}
    /\ snd.tries \in Nat \ {0}
    /\ snd.at \in 1 .. c
    /\ snd.pc = "handshake" => snd.at = 1 /\ snd.id = 0
    /\ snd.pc = "send" => snd.id = snd.at - 1
    /\ snd.pc = "wait" => snd.id = snd.at

\* What it was told of was received.
Acknowledged(c) ==
    \A j \in 1 .. c :
        /\ snd.pc \in {"handshake", "send", "wait"} /\ j < snd.at => PacketId(snd.tries, j) \in seen
        /\ snd.pc = "done" /\ code = 0 => PacketId(snd.tries, j) \in seen

RepliesTrue ==
    /\ rx \in Seq([port : {"routing"}, request : Nat, error : BOOLEAN])
    /\ \A p \in DOMAIN rx : ~rx[p].error => rx[p].request \in seen

\* The packets are those of the frames.
OnAir(n) ==
    \A packet \in air : \E t \in Nat \ {0} : \E i \in 1 .. CountOf(n) :
        packet.id = PacketId(t, i) /\ packet.frame = FrameOf(n, i)

\* The gateway has this frame, or had it and has everything.
Has(n, i) ==
    \/ accepted # <<>>
    \/ \E p \in DOMAIN host : host[p] = FrameOf(n, i)
    \/ \E key \in DOMAIN assemblies : i \in DOMAIN assemblies[key].fragments

\* Neither a limit nor a time-out stands in the way.
Spared(n) ==
    /\ ~lapsed /\ CountOf(n) <= MaxFragments
    /\ n <= MaxReassembledBytes \/ CountOf(n) = 1

\* What was received was a frame and is not lost.
Kept(n) ==
    \A id \in seen : \E t \in Nat \ {0} : \E i \in 1 .. CountOf(n) :
        id = PacketId(t, i) /\ (Spared(n) => Has(n, i))

\* The gateway hears these frames and takes nothing else for the payload.
Heard(n) ==
    /\ host \in Seq({FrameOf(n, i) : i \in 1 .. CountOf(n)})
    /\ accepted \in Seq({Payload(n)})

\* An assembly of this payload, its fragments and bytes counted.
Assembles(n, a) ==
    LET c    == FragmentCount(n)
        last == n - (c - 1) * MaxFragmentBody
    IN  /\ DOMAIN a = {"count", "fragments", "received", "total"}
        /\ a.count = c
        /\ DOMAIN a.fragments \subseteq 1 .. c
        /\ \A i \in DOMAIN a.fragments : a.fragments[i] = Chunk(n, i)
        /\ a.received = Cardinality(DOMAIN a.fragments) /\ a.received < c
        /\ a.total = a.received * MaxFragmentBody
                       - (IF c \in DOMAIN a.fragments THEN MaxFragmentBody - last ELSE 0)

\* There is at most one, and it holds its sender's only slot.
OneAssembly(n) ==
    /\ \A key \in DOMAIN assemblies :
          /\ n > MaxSingleBody /\ key.sender \in Sender
          /\ key = [sender |-> key.sender, id |-> FrameId(n)]
          /\ Assembles(n, assemblies[key])
    /\ DOMAIN pendingPerSender = {key.sender : key \in DOMAIN assemblies}
    /\ \A s \in DOMAIN pendingPerSender : pendingPerSender[s] = 1

\* Nothing was sent yet.
Quiet ==
    /\ air = {} /\ seen = {} /\ rx = <<>> /\ host = <<>> /\ accepted = <<>>
    /\ DOMAIN assemblies = {} /\ DOMAIN pendingPerSender = {}

Underway(n) ==
    /\ Prepared /\ n = WireLen(snd.wire)
    /\ OnTrack(CountOf(n)) /\ Acknowledged(CountOf(n)) /\ RepliesTrue
    /\ OnAir(n) /\ Kept(n) /\ Heard(n) /\ OneAssembly(n)

\* The inductive invariant of the delivery.
DeliveryInv == (snd = Off /\ Quiet) \/ \E n \in Nat : Underway(n)

\* The limits of the wire format are numbers.
LEMMA Limits ==
    /\ MaxFragmentBody \in Nat \ {0} /\ MaxSingleBody \in Nat /\ MaxFragmentBody <= MaxSingleBody
    /\ MaxFragmentCount \in Nat /\ MaxFragmentCount >= 2 /\ MaxFragments \in Nat
    /\ MaxReassembledBytes \in Nat /\ MaxPending \in Nat \ {0}
    /\ MaxPendingPerSender \in Nat \ {0}
BY FrameConstants, ReassemblyConstants

\* What encode_frames lets through, and what it makes of it.
LEMMA Framing ==
    ASSUME NEW n \in Nat, EncodeFrames(n).code = 0
    PROVE  /\ Sendable(n)
           /\ EncodeFrames(n).value = [i \in 1 .. CountOf(n) |-> FrameOf(n, i)]
<1>1. n # 0
  BY DEF EncodeFrames, Error
<1>2. CASE n <= MaxSingleBody
  <2>1. EncodeFrames(n).value = <<[type |-> "single", body |-> <<1, n>>]>>
    BY <1>1, <1>2 DEF EncodeFrames, Ok
  <2>2. CountOf(n) = 1 /\ \A i : FrameOf(n, i) = [type |-> "single", body |-> <<1, n>>]
    BY <1>2 DEF CountOf, FrameOf
  <2>3. ASSUME NEW x PROVE <<x>> = [i \in 1 .. 1 |-> x]
    OBVIOUS
  <2>4. Sendable(n)
    BY <1>1, <1>2, Limits DEF Sendable
  <2> QED BY <2>1, <2>2, <2>3, <2>4
<1>3. CASE n > MaxSingleBody
  <2>0. ~(n <= MaxSingleBody)
    BY <1>3, Limits
  <2>1. FragmentCount(n) \in Int
    BY Limits DEF FragmentCount
  <2>2. ~(FragmentCount(n) > MaxFragmentCount)
    BY <1>1, <2>0 DEF EncodeFrames, Error
  <2>3. Fragmented(n)
    BY <1>3, <2>1, <2>2, Fragments, Limits
  <2>4. EncodeFrames(n).value =
           [i \in 1 .. FragmentCount(n) |->
               [type |-> "fragment", id |-> FrameId(n), body |-> Chunk(n, i),
                descriptor |-> (FragmentCount(n) - 1) * MaxFragmentCount + i - 1]]
    BY <1>1, <2>0, <2>2 DEF EncodeFrames, Ok
  <2>5. CountOf(n) = FragmentCount(n)
    BY <2>0 DEF CountOf
  <2>6. \A i : FrameOf(n, i) =
           [type |-> "fragment", id |-> FrameId(n), body |-> Chunk(n, i),
            descriptor |-> (FragmentCount(n) - 1) * MaxFragmentCount + i - 1]
    BY <2>0 DEF FrameOf
  <2>7. EncodeFrames(n).value = [i \in 1 .. CountOf(n) |-> FrameOf(n, i)]
    BY <2>4, <2>5, <2>6
  <2> QED BY <1>1, <2>3, <2>7 DEF Sendable
<1> QED BY <1>2, <1>3, Limits

\* An envelope that is sent has a length and a number of frames in range.
LEMMA Counts ==
    ASSUME NEW n, Sendable(n)
    PROVE  n \in Nat /\ CountOf(n) \in 1 .. MaxFragmentCount
BY Limits DEF Sendable, CountOf, Fragmented

\* How many bytes each fragment has.
ChunkSize(n, i) ==
    IF i < FragmentCount(n) THEN MaxFragmentBody
    ELSE n - (FragmentCount(n) - 1) * MaxFragmentBody

\* The body of a fragment is full unless it is the last, and never empty.
LEMMA Chunks ==
    ASSUME NEW n \in Nat, Fragmented(n), NEW i \in 1 .. FragmentCount(n)
    PROVE  /\ ChunkSize(n, i) \in 1 .. MaxFragmentBody
           /\ BodyLen(Chunk(n, i)) = ChunkSize(n, i)
           /\ Chunk(n, i) \in Body /\ Size[Chunk(n, i)] = ChunkSize(n, i)
           /\ Chunk(n, i)[1] = (i - 1) * MaxFragmentBody + 1
           /\ i < FragmentCount(n) => Chunk(n, i)[2] = i * MaxFragmentBody
           /\ i = FragmentCount(n) => Chunk(n, i)[2] = n
<1> DEFINE F == MaxFragmentBody
           c == FragmentCount(n)
           a == (i - 1) * F + 1
           longest == MaxFragmentCount * F
<1>1. /\ F \in Nat \ {0} /\ c \in Nat /\ c >= 2 /\ c <= MaxFragmentCount /\ MaxFragmentCount \in Nat
      /\ (c - 1) * F < n /\ n <= c * F /\ n <= longest /\ longest \in Nat
  BY Limits DEF Fragmented
<1>2. /\ (i - 1) * F \in Nat /\ i * F = (i - 1) * F + F /\ i * F \in Nat /\ (c - 1) * F \in Nat
      /\ c * F = (c - 1) * F + F
  BY <1>1
<1>3. Chunk(n, i) = <<a, IF i * F < n THEN i * F ELSE n>>
  BY DEF Chunk
<1>4. CASE i < c
  <2>1. i * F <= (c - 1) * F
    BY <1>1, <1>4
  <2> HIDE DEF F, c, longest
  <2>2. Chunk(n, i) = <<a, i * F>>
    BY <1>1, <1>2, <1>3, <2>1
  <2>3. /\ a \in 1 .. longest /\ i * F \in 1 .. longest /\ a <= i * F
        /\ i * F - a + 1 = F
    BY <1>1, <1>2, <2>1
  <2>4. Chunk(n, i) \in Body /\ Size[Chunk(n, i)] = F
    BY <2>2, <2>3, BodyConstants DEF F, longest
  <2>5. ChunkSize(n, i) = F
    BY <1>4 DEF ChunkSize, F, c
  <2>6. Chunk(n, i)[1] = a /\ Chunk(n, i)[2] = i * F
    BY <2>2
  <2>7. BodyLen(Chunk(n, i)) = F
    BY <2>3, <2>6 DEF BodyLen
  <2> QED BY <1>1, <1>4, <2>4, <2>5, <2>6, <2>7 DEF F, c
<1>5. CASE i = c
  <2> HIDE DEF F, c, longest
  <2>2. Chunk(n, i) = <<a, n>>
    BY <1>1, <1>2, <1>3, <1>5
  <2>3. /\ a \in 1 .. longest /\ n \in 1 .. longest /\ a <= n
        /\ n - a + 1 = n - (c - 1) * F /\ n - (c - 1) * F \in 1 .. F
    BY <1>1, <1>2, <1>5
  <2>4. Chunk(n, i) \in Body /\ Size[Chunk(n, i)] = n - (c - 1) * F
    BY <2>2, <2>3, BodyConstants DEF F, longest
  <2>5. ChunkSize(n, i) = n - (c - 1) * F
    BY <1>1, <1>5 DEF ChunkSize, F, c
  <2>6. Chunk(n, i)[1] = a /\ Chunk(n, i)[2] = n
    BY <2>2
  <2>7. BodyLen(Chunk(n, i)) = n - (c - 1) * F
    BY <2>3, <2>6 DEF BodyLen
  <2> QED BY <1>1, <1>5, <2>3, <2>4, <2>5, <2>6, <2>7 DEF F, c
<1> QED BY <1>1, <1>4, <1>5

\* parse_fragment takes every fragment for what encode_frames meant.
LEMMA Parsed ==
    ASSUME NEW n \in Nat, n > MaxSingleBody, Fragmented(n), NEW i \in 1 .. FragmentCount(n)
    PROVE  /\ FrameOf(n, i).type = "fragment"
           /\ ParseFragment(FrameOf(n, i)) =
                {[id |-> FrameId(n), index |-> i, count |-> FragmentCount(n), body |-> Chunk(n, i)]}
<1> DEFINE f == FrameOf(n, i)
           c == FragmentCount(n)
           M == MaxFragmentCount
<1>1. M \in Nat \ {0} /\ c \in 2 .. M
  BY Limits DEF Fragmented
<1>2. ~(n <= MaxSingleBody)
  BY Limits
<1>3. f = [type |-> "fragment", id |-> FrameId(n), body |-> Chunk(n, i),
           descriptor |-> (c - 1) * M + i - 1]
  BY <1>2 DEF FrameOf
<1> HIDE DEF f, c, M
<1>4. f.type = "fragment" /\ f.id = FrameId(n) /\ f.body = Chunk(n, i)
      /\ f.descriptor = (c - 1) * M + i - 1
  BY <1>3
<1>5. i - 1 \in 0 .. M - 1 /\ c - 1 \in Nat /\ i \in 1 .. c
  BY <1>1 DEF c
<1>6. (c - 1) * M + i - 1 = (c - 1) * M + (i - 1)
  <2>1. (c - 1) * M \in Nat
    BY <1>1, <1>5
  <2> QED BY <2>1, <1>5
<1>7. (f.descriptor \div M) + 1 = c /\ f.descriptor % M = i - 1
  <2>1. ((c - 1) * M + (i - 1)) \div M = c - 1 /\ ((c - 1) * M + (i - 1)) % M = i - 1
    BY <1>1, <1>5, Quotient
  <2>2. f.descriptor = (c - 1) * M + (i - 1) /\ (c - 1) + 1 = c
    BY <1>1, <1>4, <1>6
  <2> QED BY <2>1, <2>2
<1>8. /\ BodyLen(f.body) \in 1 .. MaxFragmentBody
      /\ i < c => BodyLen(f.body) = MaxFragmentBody
  BY <1>4, Chunks DEF ChunkSize, c
<1>9. ~(\/ c < 2 \/ i - 1 >= c
        \/ BodyLen(f.body) \notin 1 .. MaxFragmentBody
        \/ i - 1 < c - 1 /\ BodyLen(f.body) # MaxFragmentBody)
  BY <1>1, <1>5, <1>8
<1>10. ParseFragment(f) = {[id |-> f.id, index |-> (i - 1) + 1, count |-> c, body |-> f.body]}
  BY <1>7, <1>9 DEF ParseFragment, M
<1>11. (i - 1) + 1 = i
  BY <1>5
<1> QED BY <1>4, <1>10, <1>11 DEF f, c

\* And parse_single every single frame.
LEMMA ParsedSingle ==
    ASSUME NEW n \in Nat \ {0}, n <= MaxSingleBody, NEW i
    PROVE  FrameOf(n, i).type = "single" /\ ParseSingle(FrameOf(n, i)) = {<<1, n>>}
<1>1. FrameOf(n, i) = [type |-> "single", body |-> <<1, n>>]
  BY DEF FrameOf
<1>2. BodyLen(<<1, n>>) = n
  BY DEF BodyLen
<1> QED BY <1>1, <1>2, Limits DEF ParseSingle

\* The fragments together are the bytes in order, under the same id.
LEMMA PayloadWhole ==
    ASSUME NEW n, Sendable(n)
    PROVE  Whole(Payload(n), n) /\ (n > MaxSingleBody => MessageIdOf(Payload(n)) = FrameId(n))
<1>1. CASE n <= MaxSingleBody
  <2>1. Payload(n) = <<<<1, n>>>>
    BY <1>1 DEF Payload
  <2>2. /\ Len(<<<<1, n>>>>) = 1 /\ <<<<1, n>>>>[1] = <<1, n>>
    OBVIOUS
  <2> QED BY <1>1, <2>1, <2>2, Limits DEF Whole, Sendable
<1>2. CASE n > MaxSingleBody
  <2> DEFINE c == FragmentCount(n)
  <2>1. /\ n \in Nat /\ Fragmented(n) /\ c \in Nat /\ c >= 2
        /\ n \in MaxSingleBody + 1 .. MaxFragmentCount * MaxFragmentBody
    BY <1>2, Limits DEF Sendable, Fragmented
  <2>2. Payload(n) = [i \in 1 .. c |-> Chunk(n, i)]
    BY <1>2, <2>1, Limits DEF Payload
  <2>3. MessageIdOf(Payload(n)) = FrameId(n)
    BY <2>1, <2>2, BodyConstants
  <2> HIDE DEF c
  <2>4. Len(Payload(n)) = c /\ \A i \in 1 .. c : Payload(n)[i] = Chunk(n, i)
    BY <2>1, <2>2
  <2>5. /\ Chunk(n, 1)[1] = (1 - 1) * MaxFragmentBody + 1
        /\ Chunk(n, c)[2] = n
    BY <2>1, Chunks DEF c
  <2>6. (1 - 1) * MaxFragmentBody + 1 = 1
    BY Limits
  <2>7. ASSUME NEW i \in 1 .. c - 1 PROVE Payload(n)[i + 1][1] = Payload(n)[i][2] + 1
    <3>1. i \in 1 .. c /\ i + 1 \in 1 .. c /\ i < c /\ (i + 1) - 1 = i
      BY <2>1
    <3>2. Chunk(n, i + 1)[1] = ((i + 1) - 1) * MaxFragmentBody + 1 /\ Chunk(n, i)[2] = i * MaxFragmentBody
      BY <2>1, <3>1, Chunks DEF c
    <3> QED BY <2>4, <3>1, <3>2
  <2>8. 1 \in 1 .. c /\ c \in 1 .. c
    BY <2>1
  <2> QED BY <2>3, <2>4, <2>5, <2>6, <2>7, <2>8 DEF Whole
<1> QED BY <1>1, <1>2, Limits DEF Sendable
-----------------------------------------------------------------------------
(***************************************************************************)
(* The reassembler on the frames of one payload.                           *)
(***************************************************************************)
\* The frame that parse_fragment makes of fragment i.
FragmentAt(n, i) ==
    [id |-> FrameId(n), index |-> i, count |-> FragmentCount(n), body |-> Chunk(n, i)]

KeyOf(n, sender) == [sender |-> sender, id |-> FrameId(n)]

\* No other key is known.
LEMMA Alone ==
    ASSUME NEW n, OneAssembly(n), NEW sender \in Sender, NEW k \in DOMAIN assemblies
    PROVE  k = KeyOf(n, sender) /\ k.sender = sender
<1>1. k.sender \in Sender /\ k = [sender |-> k.sender, id |-> FrameId(n)]
  BY DEF OneAssembly
<1>2. k.sender = sender
  BY <1>1, FrameConstants
<1> QED BY <1>1, <1>2 DEF KeyOf

\* A fragment put into a slot that was free: the counts stay right, the bytes
\* are no more than the payload's, and the last one leaves no slot free.
LEMMA Fills ==
    ASSUME NEW n \in Nat, Fragmented(n), NEW i \in 1 .. FragmentCount(n), NEW key,
           Assembles(n, assemblies[key]), i \notin DOMAIN assemblies[key].fragments
    PROVE  LET a == assemblies[key]
               b == Filled(key, FragmentAt(n, i))
           IN  /\ DOMAIN b = DOMAIN a /\ b.count = FragmentCount(n)
               /\ DOMAIN b.fragments = DOMAIN a.fragments \cup {i}
               /\ \A j \in DOMAIN b.fragments : b.fragments[j] = Chunk(n, j)
               /\ b.received = Cardinality(DOMAIN b.fragments)
               /\ b.received \in 1 .. FragmentCount(n)
               /\ b.received = FragmentCount(n) => DOMAIN b.fragments = 1 .. FragmentCount(n)
               /\ b.received < FragmentCount(n) => Assembles(n, b)
               /\ b.total = a.total + Size[Chunk(n, i)] /\ b.total <= n
<1> DEFINE a == assemblies[key]
           b == Filled(key, FragmentAt(n, i))
           c == FragmentCount(n)
           F == MaxFragmentBody
           last == n - (c - 1) * F
           D == DOMAIN a.fragments
           E == D \cup {i}
           short(S) == IF c \in S THEN F - last ELSE 0
<1>1. /\ DOMAIN a = {"count", "fragments", "received", "total"}
      /\ a.count = c /\ D \subseteq 1 .. c /\ i \notin D
      /\ \A j \in D : a.fragments[j] = Chunk(n, j)
      /\ a.received = Cardinality(D) /\ a.received < c
      /\ a.total = a.received * F - short(D)
  BY DEF Assembles
<1>2. FragmentAt(n, i).index = i /\ FragmentAt(n, i).body = Chunk(n, i)
  BY DEF FragmentAt
<1>3. /\ DOMAIN b = DOMAIN a /\ b.count = c
      /\ b.fragments = Put(a.fragments, i, Chunk(n, i))
      /\ b.received = a.received + 1 /\ b.total = a.total + Size[Chunk(n, i)]
  <2> HIDE DEF c, a, FragmentAt
  <2>1. b = [a EXCEPT !.fragments = Put(@, i, Chunk(n, i)), !.received = @ + 1,
                      !.total = @ + Size[Chunk(n, i)]]
    BY <1>2 DEF Filled, a
  <2> HIDE DEF b
  <2> QED BY <1>1, <2>1
<1> HIDE DEF b, a
<1>4. DOMAIN b.fragments = E /\ \A j \in E : b.fragments[j] = Chunk(n, j)
  <2> HIDE DEF c
  <2> QED BY <1>1, <1>3 DEF Put
<1>5. /\ c \in Nat /\ c >= 2 /\ F \in Nat \ {0} /\ (c - 1) * F \in Nat /\ (c - 1) * F < n
      /\ n <= c * F /\ c * F = (c - 1) * F + F /\ last \in 1 .. F
  <2>1. /\ c \in Nat /\ c >= 2 /\ F \in Nat \ {0} /\ (c - 1) * F < n /\ n <= c * F
    BY Limits DEF Fragmented
  <2> HIDE DEF c, F
  <2>2. (c - 1) * F \in Nat /\ c * F = (c - 1) * F + F
    BY <2>1
  <2> QED BY <2>1, <2>2
<1>6. Size[Chunk(n, i)] = IF i < c THEN F ELSE last
  BY Chunks DEF ChunkSize
<1> HIDE DEF c, F, D
<1>7. IsFiniteSet(1 .. c) /\ Cardinality(1 .. c) = c
  BY <1>5, FS_Interval
<1>8. IsFiniteSet(D) /\ E \subseteq 1 .. c /\ IsFiniteSet(E) /\ i \in 1 .. c
  <2>1. i \in 1 .. c
    BY DEF c
  <2>2. D \subseteq 1 .. c /\ E \subseteq 1 .. c
    BY <1>1, <2>1
  <2> HIDE DEF E
  <2> QED BY <1>7, <2>1, <2>2, FS_Subset
<1>9. Cardinality(D) \in Nat /\ Cardinality(E) = Cardinality(D) + 1
  BY <1>1, <1>8, FS_AddElement, FS_CardinalityType
<1>10. Cardinality(E) <= c /\ (Cardinality(E) = c => E = 1 .. c)
  BY <1>7, <1>8, FS_Subset
<1>11. b.received = Cardinality(E) /\ b.received \in 1 .. c /\ a.received \in Nat
  BY <1>1, <1>3, <1>5, <1>9, <1>10
<1>12. b.received * F = a.received * F + F /\ a.received * F \in Nat
  <2>1. ASSUME NEW x \in Nat PROVE (x + 1) * F = x * F + F /\ x * F \in Nat
    BY <1>5
  <2> QED BY <1>3, <1>11, <2>1
<1>13. CASE i = c
  <2>1. short(D) = 0 /\ short(E) = F - last
    BY <1>1, <1>13
  <2>2. b.total = b.received * F - short(E)
    BY <1>1, <1>3, <1>5, <1>6, <1>12, <1>13, <2>1
  <2>3. a.received * F <= (c - 1) * F
    BY <1>1, <1>5, <1>11
  <2>4. b.total <= n
    BY <1>1, <1>3, <1>5, <1>6, <1>12, <1>13, <2>1, <2>3
  <2> QED BY <1>1, <1>3, <1>4, <1>8, <1>10, <1>11, <2>2, <2>4 DEF Assembles, c, F, D, a, b
<1>14. CASE i # c
  <2>0. i < c
    BY <1>5, <1>8, <1>14
  <2>1. short(D) = short(E) /\ short(D) \in Nat
    BY <1>5, <1>14
  <2>2. b.total = b.received * F - short(E)
    BY <1>1, <1>3, <1>5, <1>6, <1>12, <2>0, <2>1
  <2>3. b.total <= n
    <3>1. CASE c \in D
      <4>1. a.received * F <= (c - 1) * F
        BY <1>1, <1>5, <1>11
      <4> QED BY <1>5, <1>12, <2>1, <2>2, <3>1, <4>1
    <3>2. CASE c \notin D
      <4>1. E # 1 .. c
        BY <1>5, <1>14, <3>2
      <4>2. b.received <= c - 1
        BY <1>5, <1>10, <1>11, <4>1
      <4>3. b.received * F <= (c - 1) * F
        BY <1>5, <1>11, <4>2
      <4> QED BY <1>5, <1>12, <2>1, <2>2, <3>2, <4>3
    <3> QED BY <3>1, <3>2
  <2> QED BY <1>1, <1>3, <1>4, <1>8, <1>10, <1>11, <2>2, <2>3 DEF Assembles, c, F, D, a, b
<1> QED BY <1>13, <1>14

\* A new assembly: there was none, and it has its first fragment.
LEMMA Begins ==
    ASSUME NEW n \in Nat, n > MaxSingleBody, Fragmented(n), NEW i \in 1 .. FragmentCount(n),
           NEW sender \in Sender, OneAssembly(n),
           Begin(KeyOf(n, sender), FragmentAt(n, i))
    PROVE  /\ OneAssembly(n)' /\ DOMAIN assemblies = {}
           /\ \E key \in DOMAIN assemblies' : i \in DOMAIN assemblies'[key].fragments
<1> DEFINE key == KeyOf(n, sender)
           c == FragmentCount(n)
           F == MaxFragmentBody
           last == n - (c - 1) * F
           a == [count |-> c, fragments |-> [j \in {i} |-> Chunk(n, i)], received |-> 1,
                 total |-> Size[Chunk(n, i)]]
<1>1. /\ FragmentAt(n, i).index = i /\ FragmentAt(n, i).body = Chunk(n, i)
      /\ FragmentAt(n, i).count = c
  BY DEF FragmentAt
<1>2. key \notin DOMAIN assemblies
  BY DEF Begin, Known
<1>3. DOMAIN assemblies = {}
  BY <1>2, Alone
<1>4. DOMAIN pendingPerSender = {}
  BY <1>3 DEF OneAssembly
<1>5. key.sender = sender
  BY DEF KeyOf
<1>6. assemblies' = Put(assemblies, key, a)
  <2> HIDE DEF c
  <2> QED BY <1>1 DEF Begin
<1>7. pendingPerSender' = Put(pendingPerSender, sender, 0 + 1)
  BY <1>4, <1>5 DEF Begin, SenderPending
<1> HIDE DEF a
<1>8. DOMAIN assemblies' = {key} /\ assemblies'[key] = a
  BY <1>3, <1>6 DEF Put
<1>9. DOMAIN pendingPerSender' = {sender} /\ pendingPerSender'[sender] = 1
  BY <1>4, <1>7 DEF Put
<1>10. Assembles(n, a)
  <2>1. /\ DOMAIN a = {"count", "fragments", "received", "total"} /\ a.count = c
        /\ DOMAIN a.fragments = {i} /\ a.fragments[i] = Chunk(n, i)
        /\ a.received = 1 /\ a.total = Size[Chunk(n, i)]
    <3> HIDE DEF c
    <3> QED BY DEF a
  <2>2. c \in Nat /\ c >= 2 /\ F \in Nat \ {0} /\ 1 * F = F /\ last \in Int
    BY Limits DEF Fragmented
  <2>3. Size[Chunk(n, i)] = IF i < c THEN F ELSE last
    BY Chunks DEF ChunkSize
  <2> HIDE DEF a, c, F
  <2>4. Cardinality({i}) = 1
    BY FS_Singleton
  <2>5. i \in 1 .. c
    BY DEF c
  <2>6. Size[Chunk(n, i)] = 1 * F - (IF c \in {i} THEN F - last ELSE 0)
    BY <2>2, <2>3, <2>5
  <2> QED BY <2>1, <2>2, <2>4, <2>5, <2>6 DEF Assembles, c, F
<1>11. OneAssembly(n)'
  BY <1>5, <1>8, <1>9, <1>10 DEF OneAssembly, KeyOf
<1>12. i \in DOMAIN a.fragments
  BY DEF a
<1> QED BY <1>3, <1>8, <1>11, <1>12

\* A known assembly: what accept() finds, and what it then does.
LEMMA KnownOnes ==
    ASSUME NEW n \in Nat, n > MaxSingleBody, Fragmented(n), NEW i \in 1 .. FragmentCount(n),
           NEW key \in DOMAIN assemblies, OneAssembly(n)
    PROVE  LET frame == FragmentAt(n, i)
           IN  /\ ~Mismatch(key, frame)
               /\ Duplicate(key, frame) <=> i \in DOMAIN assemblies[key].fragments
               /\ Oversize(key, frame) => n > MaxReassembledBytes
               /\ Fits(key, frame) => i \notin DOMAIN assemblies[key].fragments
               /\ Fits(key, frame) => ~(Filled(key, frame).received > frame.count)
<1> DEFINE a == assemblies[key]
           frame == FragmentAt(n, i)
<1>1. Assembles(n, a)
  BY DEF OneAssembly
<1>2. frame.index = i /\ frame.body = Chunk(n, i) /\ frame.count = FragmentCount(n)
  BY DEF FragmentAt
<1>3. ~Mismatch(key, frame)
  BY <1>1, <1>2 DEF Assembles, Mismatch
<1>4. Duplicate(key, frame) <=> i \in DOMAIN a.fragments
  BY <1>2, <1>3 DEF Duplicate
<1>5. Oversize(key, frame) => n > MaxReassembledBytes
  <2> SUFFICES ASSUME Oversize(key, frame) PROVE n > MaxReassembledBytes
    OBVIOUS
  <2>1. i \notin DOMAIN a.fragments /\ a.total + Size[Chunk(n, i)] > MaxReassembledBytes
    BY <1>2 DEF Oversize
  <2>2. a.total + Size[Chunk(n, i)] <= n
    BY <1>1, <2>1, Fills
  <2>3. a.total + Size[Chunk(n, i)] \in Int
    <3>1. Size[Chunk(n, i)] \in Int
      BY Chunks, ReassemblyConstants
    <3>2. a.total \in Int
      <4>0. DOMAIN a.fragments \subseteq 1 .. FragmentCount(n) /\ FragmentCount(n) \in Nat
        BY <1>1 DEF Assembles, Fragmented
      <4>1. IsFiniteSet(DOMAIN a.fragments)
        BY <4>0, FS_Interval, FS_Subset
      <4>2. a.received \in Nat
        BY <1>1, <4>1, FS_CardinalityType DEF Assembles
      <4>3. a.received * MaxFragmentBody \in Int /\ n - (FragmentCount(n) - 1) * MaxFragmentBody \in Int
        BY <4>0, <4>2, Limits
      <4> QED BY <1>1, <4>3, Limits DEF Assembles
    <3> QED BY <3>1, <3>2
  <2> QED BY <2>1, <2>2, <2>3, Limits
<1>6. Fits(key, frame) => i \notin DOMAIN a.fragments
  BY <1>4 DEF Fits
<1>7. Fits(key, frame) => ~(Filled(key, frame).received > frame.count)
  BY <1>1, <1>2, <1>6, Fills, Limits DEF Fragmented
<1> QED BY <1>3, <1>4, <1>5, <1>6, <1>7

\* The next fragment of a known assembly that is not its last.
LEMMA Progresses ==
    ASSUME NEW n \in Nat, n > MaxSingleBody, Fragmented(n), NEW i \in 1 .. FragmentCount(n),
           NEW sender \in Sender, OneAssembly(n),
           Progress(KeyOf(n, sender), FragmentAt(n, i))
    PROVE  LET key == KeyOf(n, sender)
           IN  /\ OneAssembly(n)' /\ DOMAIN assemblies' = DOMAIN assemblies
               /\ key \in DOMAIN assemblies
               /\ DOMAIN assemblies'[key].fragments = DOMAIN assemblies[key].fragments \cup {i}
<1> DEFINE key == KeyOf(n, sender)
           frame == FragmentAt(n, i)
           b == Filled(key, frame)
<1>1. /\ key \in DOMAIN assemblies /\ Fits(key, frame) /\ b.received < frame.count
      /\ assemblies' = [assemblies EXCEPT ![key] = b]
      /\ pendingPerSender' = pendingPerSender
  BY DEF Progress, Known
<1>2. frame.count = FragmentCount(n)
  BY DEF FragmentAt
<1>3. i \notin DOMAIN assemblies[key].fragments
  BY <1>1, KnownOnes
<1>4. Assembles(n, assemblies[key])
  BY <1>1 DEF OneAssembly
<1>5. Assembles(n, b) /\ DOMAIN b.fragments = DOMAIN assemblies[key].fragments \cup {i}
  BY <1>1, <1>2, <1>3, <1>4, Fills
<1> HIDE DEF b, key
<1>6. DOMAIN assemblies' = DOMAIN assemblies /\ assemblies'[key] = b
      /\ \A k \in DOMAIN assemblies : k = key
  BY <1>1, Alone DEF key
<1>7. OneAssembly(n)'
  BY <1>1, <1>5, <1>6 DEF OneAssembly
<1> QED BY <1>1, <1>5, <1>6, <1>7 DEF key

\* Discarding the one assembly leaves none.
LEMMA Discards ==
    ASSUME NEW n, OneAssembly(n), NEW key \in DOMAIN assemblies, DiscardAll({key})
    PROVE  OneAssembly(n)' /\ DOMAIN assemblies' = {}
<1>1. \A k \in DOMAIN assemblies : k = key
  BY Alone DEF OneAssembly
<1>2. DOMAIN assemblies' = {}
  BY <1>1 DEF DiscardAll, Restrict
<1>3. ASSUME NEW s \in DOMAIN pendingPerSender
      PROVE  pendingPerSender[s] = 1 /\ Cardinality({k \in {key} : k.sender = s}) = 1
  <2>1. s = key.sender /\ pendingPerSender[s] = 1
    BY <1>1, <1>3 DEF OneAssembly
  <2>2. {k \in {key} : k.sender = s} = {key}
    BY <2>1
  <2> QED BY <2>1, <2>2, FS_Singleton
<1>4. DOMAIN pendingPerSender' = {}
  BY <1>3 DEF DiscardAll
<1> QED BY <1>2, <1>4 DEF OneAssembly
-----------------------------------------------------------------------------
(***************************************************************************)
(* Every step keeps the delivery's invariant.                              *)
(***************************************************************************)
\* What a run of the command sends.
LEMMA Sends ==
    ASSUME WireLengths, NEW n, Underway(n)
    PROVE  /\ Sendable(n) /\ n \in Nat /\ CountOf(n) \in 1 .. MaxFragmentCount
           /\ Len(snd.frames) = CountOf(n)
           /\ \A i \in 1 .. CountOf(n) : snd.frames[i] = FrameOf(n, i)
<1> DEFINE cmd == Head(script)
           doc == Inputs(cmd)[1]
<1>1. /\ SensorError(cmd, doc) = 0 /\ snd.wire = doc.wire /\ n = WireLen(snd.wire)
      /\ snd.frames = EncodeFrames(n).value
  BY DEF Underway, Prepared
<1>2. n \in Nat
  BY <1>1 DEF WireLengths
<1>3. EncodeFrames(n).code = 0
  BY <1>1 DEF SensorError
<1>4. Sendable(n) /\ snd.frames = [i \in 1 .. CountOf(n) |-> FrameOf(n, i)]
  BY <1>1, <1>2, <1>3, Framing
<1>5. CountOf(n) \in 1 .. MaxFragmentCount
  BY <1>4, Counts
<1> QED BY <1>2, <1>4, <1>5, Limits

\* The parts of the invariant that a step of the gateway leaves alone.
LEMMA GatewayAlone ==
    ASSUME NEW n, Underway(n), UNCHANGED <<tools, snd, mesh>>,
           Kept(n)', Heard(n)', OneAssembly(n)'
    PROVE  Underway(n)'
<1>1. UNCHANGED <<script, outs, code, snd, air, seen, rx>>
  BY DEF tools, mesh
<1>2. Prepared' /\ (n = WireLen(snd.wire))'
  BY <1>1 DEF Underway, Prepared, Inputs
<1>3. OnTrack(CountOf(n))' /\ Acknowledged(CountOf(n))'
  BY <1>1 DEF Underway, OnTrack, Acknowledged
<1>4. RepliesTrue' /\ OnAir(n)'
  BY <1>1 DEF Underway, RepliesTrue, OnAir
<1> QED BY <1>2, <1>3, <1>4 DEF Underway

\* What is not lost stays.
LEMMA KeptOn ==
    ASSUME NEW n, Kept(n), seen' = seen, Spared(n)' => Spared(n),
           Spared(n)' => \A i \in 1 .. CountOf(n) : Has(n, i) => Has(n, i)'
    PROVE  Kept(n)'
BY DEF Kept

\* The frame at the head of the queue is one of those sent, and the rest stay.
LEMMA QueueHead ==
    ASSUME NEW n, Heard(n), host # <<>>, host' = Tail(host)
    PROVE  /\ \E i \in 1 .. CountOf(n) : Head(host) = FrameOf(n, i)
           /\ host' \in Seq({FrameOf(n, i) : i \in 1 .. CountOf(n)})
           /\ \A p \in DOMAIN host :
                 host[p] = Head(host) \/ \E q \in DOMAIN host' : host'[q] = host[p]
<1> DEFINE S == {FrameOf(n, i) : i \in 1 .. CountOf(n)}
<1>1. host \in Seq(S) /\ host # <<>>
  BY DEF Heard
<1> HIDE DEF S
<1>2. Head(host) \in S /\ Tail(host) \in Seq(S) /\ Len(host) \in Nat \ {0}
      /\ DOMAIN host = 1 .. Len(host) /\ Head(host) = host[1]
      /\ Len(Tail(host)) = Len(host) - 1
      /\ \A q \in 1 .. Len(host) - 1 : Tail(host)[q] = host[q + 1]
  BY <1>1
<1>3. ASSUME NEW p \in DOMAIN host, p # 1
      PROVE  \E q \in DOMAIN host' : host'[q] = host[p]
  <2>1. p - 1 \in 1 .. Len(host) - 1 /\ (p - 1) + 1 = p
    BY <1>2, <1>3
  <2>2. Tail(host)[p - 1] = host[p]
    BY <1>2, <2>1
  <2>3. DOMAIN Tail(host) = 1 .. Len(host) - 1
    BY <1>2
  <2> QED BY <2>1, <2>2, <2>3
<1>4. \A p \in DOMAIN host : host[p] = Head(host) \/ \E q \in DOMAIN host' : host'[q] = host[p]
  BY <1>2, <1>3
<1>5. \E i \in 1 .. CountOf(n) : Head(host) = FrameOf(n, i)
  BY <1>2 DEF S
<1> QED BY <1>2, <1>4, <1>5 DEF S

\* Another payload is taken.
LEMMA Accepts ==
    ASSUME NEW n, Heard(n), accepted' = Append(accepted, Payload(n))
    PROVE  accepted' \in Seq({Payload(n)}) /\ accepted' # <<>>
<1>1. accepted \in Seq({Payload(n)})
  BY DEF Heard
<1> QED BY <1>1

\* A single frame at the gateway is the whole envelope.
LEMMA HearSingleStep ==
    ASSUME WireLengths, NEW n, Underway(n), HearSingle
    PROVE  Underway(n)'
<1>1. Sendable(n) /\ n \in Nat /\ Kept(n) /\ Heard(n) /\ OneAssembly(n)
  BY Sends DEF Underway
<1>2. /\ host # <<>> /\ Head(host).type = "single" /\ host' = Tail(host)
      /\ UNCHANGED <<tools, snd, mesh>> /\ UNCHANGED <<reassemblyVars, lapsed>>
  BY DEF HearSingle
<1>3. PICK i \in 1 .. CountOf(n) : Head(host) = FrameOf(n, i)
  BY <1>1, <1>2, QueueHead
<1>4. n <= MaxSingleBody
  BY <1>2, <1>3 DEF FrameOf
<1>5. n \in Nat \ {0}
  BY <1>1 DEF Sendable
<1>6. ParseSingle(Head(host)) = {<<1, n>>}
  BY <1>3, <1>4, <1>5, ParsedSingle
<1>7. accepted' = Append(accepted, <<<<1, n>>>>)
  BY <1>6 DEF HearSingle, Takes
<1>8. accepted' \in Seq({Payload(n)}) /\ accepted' # <<>>
  BY <1>1, <1>4, <1>7, Accepts DEF Payload
<1>9. Heard(n)'
  BY <1>1, <1>2, <1>8, QueueHead DEF Heard
<1>10. OneAssembly(n)'
  BY <1>1, <1>2 DEF OneAssembly, reassemblyVars
<1>11. Kept(n)'
  <2>1. \A j : Has(n, j)'
    BY <1>8 DEF Has
  <2>2. Spared(n)' => Spared(n)
    BY <1>2 DEF Spared
  <2>3. seen' = seen
    BY <1>2 DEF mesh
  <2> QED BY <1>1, <2>1, <2>2, <2>3, KeptOn
<1> QED BY <1>2, <1>9, <1>10, <1>11, GatewayAlone

\* The fragment at the head of the queue, as the reassembler gets it.
LEMMA HeadFragment ==
    ASSUME WireLengths, NEW n, Underway(n), host # <<>>, Head(host).type = "fragment",
           host' = Tail(host)
    PROVE  /\ n > MaxSingleBody /\ Fragmented(n) /\ n \in Nat /\ CountOf(n) = FragmentCount(n)
           /\ \E i \in 1 .. FragmentCount(n) :
                 /\ Head(host) = FrameOf(n, i)
                 /\ ParseFragment(Head(host)) = {FragmentAt(n, i)}
                 /\ \A j \in 1 .. FragmentCount(n) : FrameOf(n, j) = FrameOf(n, i) => j = i
<1>1. Sendable(n) /\ n \in Nat /\ Heard(n)
  BY Sends DEF Underway
<1>2. PICK i \in 1 .. CountOf(n) : Head(host) = FrameOf(n, i)
  BY <1>1, QueueHead
<1>3. ~(n <= MaxSingleBody)
  <2> SUFFICES ASSUME n <= MaxSingleBody PROVE FALSE
    OBVIOUS
  <2>1. n \in Nat \ {0}
    BY <1>1 DEF Sendable
  <2>2. FrameOf(n, i).type = "single"
    BY <2>1, ParsedSingle
  <2> QED BY <1>2, <2>2
<1>4. n > MaxSingleBody /\ CountOf(n) = FragmentCount(n) /\ Fragmented(n)
  BY <1>1, <1>3, Limits DEF CountOf, Sendable
<1>5. \A j \in 1 .. FragmentCount(n) : ParseFragment(FrameOf(n, j)) = {FragmentAt(n, j)}
  BY <1>1, <1>4, Parsed DEF FragmentAt
<1>6. \A j : FragmentAt(n, j).index = j
  BY DEF FragmentAt
<1>7. ASSUME NEW j \in 1 .. FragmentCount(n), FrameOf(n, j) = FrameOf(n, i) PROVE j = i
  <2>1. {FragmentAt(n, j)} = {FragmentAt(n, i)}
    BY <1>4, <1>5, <1>7
  <2>2. FragmentAt(n, j) = FragmentAt(n, i)
    BY <2>1
  <2> QED BY <1>6, <2>2
<1> QED BY <1>1, <1>2, <1>4, <1>5, <1>7

\* The queue loses its head; every other frame that the gateway has it keeps,
\* as long as its assembly is not discarded.
LEMMA OthersKept ==
    ASSUME NEW n, Heard(n), host # <<>>, host' = Tail(host), accepted' = accepted,
           NEW i, Head(host) = FrameOf(n, i),
           \A j \in 1 .. CountOf(n) : FrameOf(n, j) = FrameOf(n, i) => j = i,
           \A key \in DOMAIN assemblies : key \in DOMAIN assemblies'
              /\ DOMAIN assemblies[key].fragments \subseteq DOMAIN assemblies'[key].fragments,
           NEW j \in 1 .. CountOf(n), Has(n, j), j # i
    PROVE  Has(n, j)'
<1>1. CASE accepted # <<>>
  BY <1>1 DEF Has
<1>2. CASE \E p \in DOMAIN host : host[p] = FrameOf(n, j)
  <2>1. PICK p \in DOMAIN host : host[p] = FrameOf(n, j)
    BY <1>2
  <2>2. host[p] # Head(host)
    BY <2>1
  <2>3. \E q \in DOMAIN host' : host'[q] = FrameOf(n, j)
    BY <2>1, <2>2, QueueHead
  <2> QED BY <2>3 DEF Has
<1>3. CASE \E key \in DOMAIN assemblies : j \in DOMAIN assemblies[key].fragments
  BY <1>3 DEF Has
<1> QED BY <1>1, <1>2, <1>3 DEF Has

\* A fragment that is kept, ignored or refused leaves what is known of the rest.
LEMMA HearPartStep ==
    ASSUME WireLengths, NEW n, Underway(n), HearPart
    PROVE  Underway(n)'
<1>1. Kept(n) /\ Heard(n) /\ OneAssembly(n)
  BY DEF Underway
<1>2. /\ host # <<>> /\ Head(host).type = "fragment" /\ host' = Tail(host)
      /\ UNCHANGED <<tools, snd, mesh>> /\ accepted' = accepted /\ lapsed' = lapsed
  BY DEF HearPart
<1>3. n > MaxSingleBody /\ Fragmented(n) /\ n \in Nat /\ CountOf(n) = FragmentCount(n)
  BY <1>2, HeadFragment
<1>4. PICK i \in 1 .. FragmentCount(n) :
         /\ Head(host) = FrameOf(n, i)
         /\ ParseFragment(Head(host)) = {FragmentAt(n, i)}
         /\ \A j \in 1 .. FragmentCount(n) : FrameOf(n, j) = FrameOf(n, i) => j = i
  BY <1>2, HeadFragment
<1> DEFINE frame == FragmentAt(n, i)
<1>5. PICK sender \in Sender :
         LET key == Key(sender, frame)
         IN  Begin(key, frame) \/ Progress(key, frame) \/ Poison(key, frame) \/ Ignore(key, frame)
  <2>1. ParseFragment(Head(host)) = {frame}
    BY <1>4
  <2> HIDE DEF frame
  <2>2. \E f \in {frame}, s \in Sender :
           LET key == Key(s, f)
           IN  Begin(key, f) \/ Progress(key, f) \/ Poison(key, f) \/ Ignore(key, f)
    BY <2>1 DEF HearPart
  <2> QED BY <2>2
<1> DEFINE key == KeyOf(n, sender)
<1>6. Key(sender, frame) = key
  BY DEF Key, KeyOf, FragmentAt
<1>7. Begin(key, frame) \/ Progress(key, frame) \/ Poison(key, frame) \/ Ignore(key, frame)
  BY <1>5, <1>6
<1>8. /\ frame.index = i /\ frame.body = Chunk(n, i) /\ frame.count = FragmentCount(n)
  BY DEF FragmentAt
<1>9. Heard(n)'
  BY <1>1, <1>2, QueueHead DEF Heard
<1>10. seen' = seen /\ (Spared(n)' => Spared(n))
  BY <1>2 DEF mesh, Spared
<1>11. ASSUME OneAssembly(n)',
              Spared(n)' => \A j \in 1 .. CountOf(n) : Has(n, j) => Has(n, j)'
       PROVE  Underway(n)'
  BY <1>1, <1>2, <1>9, <1>10, <1>11, KeptOn, GatewayAlone
<1>12. CASE Begin(key, frame)
  <2>1. /\ OneAssembly(n)' /\ DOMAIN assemblies = {}
        /\ \E k \in DOMAIN assemblies' : i \in DOMAIN assemblies'[k].fragments
    BY <1>1, <1>3, <1>12, Begins
  <2>2. Has(n, i)'
    BY <2>1 DEF Has
  <2>3. \A j \in 1 .. CountOf(n) : Has(n, j) => Has(n, j)'
    BY <1>1, <1>2, <1>3, <1>4, <2>1, <2>2, OthersKept
  <2> QED BY <1>11, <2>1, <2>3
<1>13. CASE Progress(key, frame)
  <2>1. /\ OneAssembly(n)' /\ DOMAIN assemblies' = DOMAIN assemblies /\ key \in DOMAIN assemblies
        /\ DOMAIN assemblies'[key].fragments = DOMAIN assemblies[key].fragments \cup {i}
    BY <1>1, <1>3, <1>13, Progresses
  <2>2. Has(n, i)'
    BY <2>1 DEF Has
  <2>3. \A k \in DOMAIN assemblies : k = key
    BY <1>1, Alone
  <2>4. \A j \in 1 .. CountOf(n) : Has(n, j) => Has(n, j)'
    BY <1>1, <1>2, <1>3, <1>4, <2>1, <2>2, <2>3, OthersKept
  <2> QED BY <1>11, <2>1, <2>4
<1>14. CASE Poison(key, frame)
  <2>1. key \in DOMAIN assemblies /\ DiscardAll({key}) /\ (Mismatch(key, frame) \/ Oversize(key, frame))
    BY <1>14 DEF Poison, Known
  <2>2. OneAssembly(n)'
    BY <1>1, <2>1, Discards
  <2>3. n > MaxReassembledBytes
    BY <1>1, <1>3, <2>1, KnownOnes
  <2>4. ~Spared(n)'
    BY <1>3, <2>3, Limits DEF Spared, Fragmented
  <2> QED BY <1>11, <2>2, <2>4
<1>15. CASE Ignore(key, frame)
  <2>0. UNCHANGED <<assemblies, pendingPerSender>>
    BY <1>15 DEF Ignore, reassemblyVars
  <2>1. OneAssembly(n)'
    BY <1>1, <2>0 DEF OneAssembly
  <2>2. ASSUME Spared(n)' PROVE Has(n, i)'
    <3>1. CASE key \in DOMAIN assemblies
      <4>1. Duplicate(key, frame)
        BY <1>15, <3>1 DEF Ignore, Known
      <4>2. i \in DOMAIN assemblies[key].fragments
        BY <1>1, <1>3, <3>1, <4>1, KnownOnes
      <4> QED BY <2>0, <3>1, <4>2 DEF Has
    <3>2. CASE key \notin DOMAIN assemblies
      <4>1. Refused(key, frame)
        BY <1>15, <3>2 DEF Ignore, Known
      <4>2. DOMAIN assemblies = {}
        BY <1>1, <3>2, Alone
      <4>3. DOMAIN pendingPerSender = {}
        BY <1>1, <4>2 DEF OneAssembly
      <4>4. Cardinality(DOMAIN assemblies) = 0 /\ SenderPending(key.sender) = 0
        BY <4>2, <4>3, FS_EmptySet DEF SenderPending
      <4>5. FragmentCount(n) > MaxFragments \/ Size[Chunk(n, i)] > MaxReassembledBytes
        BY <1>8, <4>1, <4>4, Limits DEF Refused
      <4>6. Size[Chunk(n, i)] <= MaxFragmentBody /\ Size[Chunk(n, i)] \in Nat
        BY <1>3, Chunks, Limits
      <4>7. Size[Chunk(n, i)] <= n
        BY <1>3, <4>6, Limits
      <4>8. FragmentCount(n) <= MaxFragments /\ n <= MaxReassembledBytes
        BY <1>3, <2>2, Limits DEF Spared, Fragmented
      <4>9. FragmentCount(n) \in Nat
        BY <1>3 DEF Fragmented
      <4> QED BY <1>3, <4>5, <4>6, <4>7, <4>8, <4>9, Limits
    <3> QED BY <3>1, <3>2
  <2>3. Spared(n)' => \A j \in 1 .. CountOf(n) : Has(n, j) => Has(n, j)'
    BY <1>1, <1>2, <1>3, <1>4, <2>0, <2>2, OthersKept
  <2> QED BY <1>11, <2>1, <2>3
<1> QED BY <1>7, <1>12, <1>13, <1>14, <1>15

\* The fragment that completes an assembly yields the envelope itself.
LEMMA HearLastStep ==
    ASSUME WireLengths, NEW n, Underway(n), HearLast
    PROVE  Underway(n)'
<1>1. Kept(n) /\ Heard(n) /\ OneAssembly(n) /\ Sendable(n)
  BY Sends DEF Underway
<1>2. /\ host # <<>> /\ Head(host).type = "fragment" /\ host' = Tail(host)
      /\ UNCHANGED <<tools, snd, mesh>> /\ lapsed' = lapsed
  BY DEF HearLast
<1>3. n > MaxSingleBody /\ Fragmented(n) /\ n \in Nat /\ CountOf(n) = FragmentCount(n)
  BY <1>2, HeadFragment
<1>4. PICK i \in 1 .. FragmentCount(n) : ParseFragment(Head(host)) = {FragmentAt(n, i)}
  BY <1>2, HeadFragment
<1> DEFINE frame == FragmentAt(n, i)
<1>5. PICK sender \in Sender :
         LET key == Key(sender, frame)
         IN  /\ LastFragment(key, frame) /\ DiscardAll({key})
             /\ IF Verified(key, frame) THEN Takes(Concatenated(key, frame))
                ELSE UNCHANGED accepted
  <2>1. ParseFragment(Head(host)) = {frame}
    BY <1>4
  <2> HIDE DEF frame
  <2>2. \E f \in {frame}, s \in Sender :
           LET key == Key(s, f)
           IN  /\ LastFragment(key, f) /\ DiscardAll({key})
               /\ IF Verified(key, f) THEN Takes(Concatenated(key, f)) ELSE UNCHANGED accepted
    BY <2>1 DEF HearLast
  <2> QED BY <2>2
<1> DEFINE key == KeyOf(n, sender)
           b == Filled(key, frame)
<1>6. Key(sender, frame) = key /\ key.id = FrameId(n) /\ frame.count = FragmentCount(n)
  BY DEF Key, KeyOf, FragmentAt
<1>7. /\ LastFragment(key, frame) /\ DiscardAll({key})
      /\ IF Verified(key, frame) THEN Takes(Concatenated(key, frame)) ELSE UNCHANGED accepted
  BY <1>5, <1>6
<1>8. key \in DOMAIN assemblies /\ Fits(key, frame) /\ b.received = FragmentCount(n)
  BY <1>6, <1>7 DEF LastFragment, Known
<1>9. i \notin DOMAIN assemblies[key].fragments
  BY <1>1, <1>3, <1>8, KnownOnes
<1>10. Assembles(n, assemblies[key])
  BY <1>1, <1>8 DEF OneAssembly
<1>11. \A j \in 1 .. FragmentCount(n) : b.fragments[j] = Chunk(n, j)
  BY <1>3, <1>8, <1>9, <1>10, Fills
<1>12. Concatenated(key, frame) = Payload(n)
  <2>1. Payload(n) = [j \in 1 .. FragmentCount(n) |-> Chunk(n, j)]
    BY <1>3, Limits DEF Payload
  <2>2. Concatenated(key, frame) = [j \in 1 .. FragmentCount(n) |-> b.fragments[j]]
    BY <1>6 DEF Concatenated
  <2> HIDE DEF b
  <2> QED BY <1>11, <2>1, <2>2
<1>13. Verified(key, frame)
  BY <1>1, <1>3, <1>6, <1>12, PayloadWhole DEF Verified
<1>14. accepted' = Append(accepted, Payload(n))
  BY <1>7, <1>12, <1>13 DEF Takes
<1>15. accepted' \in Seq({Payload(n)}) /\ accepted' # <<>>
  BY <1>1, <1>14, Accepts
<1>16. Heard(n)'
  BY <1>1, <1>2, <1>15, QueueHead DEF Heard
<1>17. OneAssembly(n)'
  BY <1>1, <1>7, <1>8, Discards
<1>18. Kept(n)'
  <2>1. \A j : Has(n, j)'
    BY <1>15 DEF Has
  <2>2. seen' = seen /\ (Spared(n)' => Spared(n))
    BY <1>2 DEF mesh, Spared
  <2> QED BY <1>1, <2>1, <2>2, KeptOn
<1> QED BY <1>2, <1>16, <1>17, <1>18, GatewayAlone

\* A sweep loses fragments only after it has been noted that it did.
LEMMA SweepStep ==
    ASSUME NEW n, Underway(n), GatewaySweeps
    PROVE  Underway(n)'
<1>1. Kept(n) /\ Heard(n) /\ OneAssembly(n)
  BY DEF Underway
<1>2. PICK key \in DOMAIN assemblies : DiscardAll({key})
  BY DEF GatewaySweeps
<1>3. lapsed' = TRUE /\ UNCHANGED <<tools, snd, mesh>> /\ UNCHANGED <<host, accepted>>
  BY DEF GatewaySweeps
<1>4. OneAssembly(n)'
  BY <1>1, <1>2, Discards
<1>5. Heard(n)'
  BY <1>1, <1>3 DEF Heard
<1>6. ~Spared(n)'
  BY <1>3 DEF Spared
<1>7. Kept(n)'
  BY <1>1, <1>3, <1>6, KeptOn DEF mesh
<1> QED BY <1>3, <1>4, <1>5, <1>7, GatewayAlone

\* The parts that a step of the sender leaves alone.
LEMMA SenderAlone ==
    ASSUME NEW n, Underway(n), UNCHANGED <<script, outs, seen>>, UNCHANGED gateway,
           snd'.wire = snd.wire, snd'.frames = snd.frames,
           OnTrack(CountOf(n))', Acknowledged(CountOf(n))', RepliesTrue', OnAir(n)'
    PROVE  Underway(n)'
<1>1. Prepared' /\ (n = WireLen(snd.wire))'
  BY DEF Underway, Prepared, Inputs
<1>2. UNCHANGED <<assemblies, pendingPerSender, host, accepted, lapsed, seen>>
  BY DEF gateway, reassemblyVars
<1>3. Kept(n)'
  BY <1>2 DEF Underway, Kept, Spared, Has
<1>4. Heard(n)' /\ OneAssembly(n)'
  BY <1>2 DEF Underway, Heard, OneAssembly
<1> QED BY <1>1, <1>3, <1>4 DEF Underway

\* The command ends with an error.
LEMMA FailStep ==
    ASSUME NEW n, Underway(n), SensorEnds(1), UNCHANGED <<seen, gateway>>, RepliesTrue', OnAir(n)'
    PROVE  Underway(n)'
<1>1. snd' = [snd EXCEPT !.pc = "done"] /\ code' = 1 /\ UNCHANGED <<script, outs>>
  BY DEF SensorEnds
<1>2. OnTrack(CountOf(n)) /\ DOMAIN snd = {"pc", "frames", "at", "id", "wire", "tries"}
  BY DEF Underway, OnTrack
<1>3. /\ snd'.wire = snd.wire /\ snd'.frames = snd.frames /\ snd'.pc = "done"
      /\ DOMAIN snd' = DOMAIN snd /\ snd'.tries = snd.tries /\ snd'.at = snd.at
  BY <1>1, <1>2
<1>4. OnTrack(CountOf(n))'
  BY <1>2, <1>3 DEF OnTrack
<1>5. Acknowledged(CountOf(n))'
  BY <1>1, <1>3 DEF Acknowledged
<1> QED BY <1>1, <1>3, <1>4, <1>5, SenderAlone

\* The handshake is over, or the radio is not there.
LEMMA ReadyStep ==
    ASSUME NEW n, Underway(n), WaitForReady
    PROVE  Underway(n)'
<1>1. snd.pc = "handshake" /\ UNCHANGED <<mesh, gateway>>
  BY DEF WaitForReady
<1>2. RepliesTrue' /\ OnAir(n)' /\ seen' = seen
  BY <1>1 DEF Underway, RepliesTrue, OnAir, mesh
<1>3. CASE SensorEnds(1)
  BY <1>1, <1>2, <1>3, FailStep
<1>4. CASE snd' = [snd EXCEPT !.pc = "send"] /\ UNCHANGED tools
  <2>1. /\ OnTrack(CountOf(n)) /\ DOMAIN snd = {"pc", "frames", "at", "id", "wire", "tries"}
        /\ snd.at = 1 /\ snd.id = 0 /\ Acknowledged(CountOf(n))
    BY <1>1 DEF Underway, OnTrack
  <2>2. /\ snd'.wire = snd.wire /\ snd'.frames = snd.frames /\ snd'.pc = "send"
        /\ DOMAIN snd' = DOMAIN snd /\ snd'.tries = snd.tries /\ snd'.at = snd.at
        /\ snd'.id = snd.id
    BY <1>4, <2>1
  <2>3. OnTrack(CountOf(n))'
    BY <2>1, <2>2 DEF OnTrack
  <2>4. Acknowledged(CountOf(n))'
    BY <1>1, <1>2, <2>1, <2>2 DEF Acknowledged
  <2>5. UNCHANGED <<script, outs>>
    BY <1>4 DEF tools
  <2> QED BY <1>1, <1>2, <2>2, <2>3, <2>4, <2>5, SenderAlone
<1> QED BY <1>3, <1>4 DEF WaitForReady

\* A fragment goes on the air under an id that was not used before.
LEMMA SendStep ==
    ASSUME WireLengths, NEW n, Underway(n), SendFragment
    PROVE  Underway(n)'
<1>1. snd.pc = "send" /\ UNCHANGED <<seen, rx, gateway>>
  BY DEF SendFragment
<1>2. RepliesTrue'
  BY <1>1 DEF Underway, RepliesTrue
<1>3. CASE SensorEnds(1) /\ UNCHANGED air
  <2>1. OnAir(n)'
    BY <1>3 DEF Underway, OnAir
  <2> QED BY <1>1, <1>2, <1>3, <2>1, FailStep
<1>4. CASE /\ air' = air \cup {[id |-> PacketId(snd.tries, snd.id + 1), frame |-> snd.frames[snd.at]]}
           /\ snd' = [snd EXCEPT !.pc = "wait", !.id = @ + 1]
           /\ UNCHANGED tools
  <2>1. /\ OnTrack(CountOf(n)) /\ DOMAIN snd = {"pc", "frames", "at", "id", "wire", "tries"}
        /\ snd.id = snd.at - 1 /\ snd.at \in 1 .. CountOf(n) /\ snd.tries \in Nat \ {0}
        /\ Acknowledged(CountOf(n)) /\ OnAir(n)
    BY <1>1 DEF Underway, OnTrack
  <2>2. CountOf(n) \in Nat /\ snd.frames[snd.at] = FrameOf(n, snd.at)
    BY <2>1, Sends
  <2>3. snd.id + 1 = snd.at
    BY <2>1, <2>2
  <2>4. /\ snd'.wire = snd.wire /\ snd'.frames = snd.frames /\ snd'.pc = "wait"
        /\ DOMAIN snd' = DOMAIN snd /\ snd'.tries = snd.tries /\ snd'.at = snd.at
        /\ snd'.id = snd.at
    BY <1>4, <2>1, <2>3
  <2>5. OnTrack(CountOf(n))'
    BY <2>1, <2>4 DEF OnTrack
  <2>6. Acknowledged(CountOf(n))'
    BY <1>1, <2>1, <2>4 DEF Acknowledged
  <2>7. OnAir(n)'
    <3> SUFFICES ASSUME NEW packet \in air'
                 PROVE  \E t \in Nat \ {0} : \E i \in 1 .. CountOf(n) :
                            packet.id = PacketId(t, i) /\ packet.frame = FrameOf(n, i)
      BY DEF OnAir
    <3>1. CASE packet \in air
      BY <2>1, <3>1 DEF OnAir
    <3>2. CASE packet = [id |-> PacketId(snd.tries, snd.at), frame |-> FrameOf(n, snd.at)]
      BY <2>1, <3>2
    <3> QED BY <1>4, <2>2, <2>3, <3>1, <3>2
  <2>8. UNCHANGED <<script, outs>>
    BY <1>4 DEF tools
  <2> QED BY <1>1, <1>2, <2>4, <2>5, <2>6, <2>7, <2>8, SenderAlone
<1> QED BY <1>3, <1>4 DEF SendFragment

\* A reply moves the sender on only if it answers the fragment sent last.
LEMMA AckStep ==
    ASSUME WireLengths, NEW n, Underway(n), WaitForAck
    PROVE  Underway(n)'
<1>1. snd.pc = "wait" /\ rx # <<>> /\ rx' = Tail(rx) /\ UNCHANGED <<air, seen, gateway>>
  BY DEF WaitForAck
<1>2. /\ OnTrack(CountOf(n)) /\ DOMAIN snd = {"pc", "frames", "at", "id", "wire", "tries"}
      /\ snd.id = snd.at /\ snd.at \in 1 .. CountOf(n)
      /\ Acknowledged(CountOf(n)) /\ RepliesTrue
  BY <1>1 DEF Underway, OnTrack
<1>3. CountOf(n) \in Nat /\ Len(snd.frames) = CountOf(n)
  BY Sends
<1>4. OnAir(n)'
  BY <1>1 DEF Underway, OnAir
<1>5. RepliesTrue' /\ (~Head(rx).error => Head(rx).request \in seen)
  <2> DEFINE S == [port : {"routing"}, request : Nat, error : BOOLEAN]
  <2>1. rx \in Seq(S) /\ \A p \in DOMAIN rx : ~rx[p].error => rx[p].request \in seen
    BY <1>2 DEF RepliesTrue
  <2> HIDE DEF S
  <2>2. /\ Tail(rx) \in Seq(S) /\ Len(rx) \in Nat \ {0} /\ DOMAIN rx = 1 .. Len(rx)
        /\ Head(rx) = rx[1] /\ DOMAIN Tail(rx) = 1 .. Len(rx) - 1
        /\ \A q \in 1 .. Len(rx) - 1 : Tail(rx)[q] = rx[q + 1]
    BY <1>1, <2>1
  <2>3. ASSUME NEW q \in DOMAIN Tail(rx), ~Tail(rx)[q].error PROVE Tail(rx)[q].request \in seen
    <3>1. q \in 1 .. Len(rx) - 1 /\ q + 1 \in DOMAIN rx
      BY <2>2, <2>3
    <3>2. Tail(rx)[q] = rx[q + 1]
      BY <2>2, <3>1
    <3> QED BY <2>1, <2>3, <3>1, <3>2
  <2>4. ~Head(rx).error => Head(rx).request \in seen
    BY <2>1, <2>2
  <2> QED BY <1>1, <2>2, <2>3, <2>4 DEF RepliesTrue, S
<1>6. CASE UNCHANGED <<snd, tools>>
  <2>1. UNCHANGED <<script, outs, code, snd>>
    BY <1>6 DEF tools
  <2>2. OnTrack(CountOf(n))' /\ Acknowledged(CountOf(n))'
    BY <1>1, <1>2, <2>1 DEF OnTrack, Acknowledged
  <2> QED BY <1>1, <1>4, <1>5, <2>1, <2>2, SenderAlone
<1>7. CASE SensorEnds(1)
  BY <1>1, <1>4, <1>5, <1>7, FailStep
<1>8. ASSUME Answers(Head(rx)), ~Head(rx).error
      PROVE  \A j \in 1 .. CountOf(n) : j < snd.at + 1 => PacketId(snd.tries, j) \in seen
  <2>1. PacketId(snd.tries, snd.at) \in seen
    BY <1>2, <1>5, <1>8 DEF Answers, SentId
  <2>2. \A j \in 1 .. CountOf(n) : j < snd.at => PacketId(snd.tries, j) \in seen
    BY <1>1, <1>2 DEF Acknowledged
  <2>3. \A j \in 1 .. CountOf(n) : j < snd.at + 1 => j < snd.at \/ j = snd.at
    BY <1>2, <1>3
  <2> QED BY <2>1, <2>2, <2>3
<1>9. CASE /\ Answers(Head(rx)) /\ ~Head(rx).error /\ snd.at = Len(snd.frames) /\ SensorEnds(0)
  <2>1. snd' = [snd EXCEPT !.pc = "done"] /\ UNCHANGED <<script, outs>>
    BY <1>9 DEF SensorEnds
  <2>2. /\ snd'.wire = snd.wire /\ snd'.frames = snd.frames /\ snd'.pc = "done"
        /\ DOMAIN snd' = DOMAIN snd /\ snd'.tries = snd.tries /\ snd'.at = snd.at
    BY <1>2, <2>1
  <2>3. OnTrack(CountOf(n))'
    BY <1>2, <2>2 DEF OnTrack
  <2>4. \A j \in 1 .. CountOf(n) : PacketId(snd.tries, j) \in seen
    BY <1>3, <1>8, <1>9
  <2>5. Acknowledged(CountOf(n))'
    BY <1>1, <2>2, <2>4 DEF Acknowledged
  <2> QED BY <1>1, <1>4, <1>5, <2>1, <2>2, <2>3, <2>5, SenderAlone
<1>10. CASE /\ Answers(Head(rx)) /\ ~Head(rx).error /\ snd.at # Len(snd.frames)
            /\ snd' = [snd EXCEPT !.pc = "send", !.at = @ + 1] /\ UNCHANGED tools
  <2>1. UNCHANGED <<script, outs>>
    BY <1>10 DEF tools
  <2>2. /\ snd'.wire = snd.wire /\ snd'.frames = snd.frames /\ snd'.pc = "send"
        /\ DOMAIN snd' = DOMAIN snd /\ snd'.tries = snd.tries /\ snd'.at = snd.at + 1
        /\ snd'.id = snd.at
    BY <1>2, <1>10
  <2>3. snd.at + 1 \in 1 .. CountOf(n) /\ snd.at = (snd.at + 1) - 1
    BY <1>2, <1>3, <1>10
  <2>4. OnTrack(CountOf(n))'
    BY <1>2, <2>2, <2>3 DEF OnTrack
  <2>5. Acknowledged(CountOf(n))'
    BY <1>1, <1>8, <1>10, <2>2 DEF Acknowledged
  <2> QED BY <1>1, <1>4, <1>5, <2>1, <2>2, <2>4, <2>5, SenderAlone
<1> QED BY <1>6, <1>7, <1>9, <1>10 DEF WaitForAck

\* A fragment that nobody acknowledges ends the command with an error.
LEMMA TimeoutStep ==
    ASSUME NEW n, Underway(n), AckTimesOut
    PROVE  Underway(n)'
<1>1. SensorEnds(1) /\ UNCHANGED gateway /\ UNCHANGED <<air, seen, rx>>
  BY DEF AckTimesOut, mesh
<1>2. RepliesTrue' /\ OnAir(n)'
  BY <1>1 DEF Underway, RepliesTrue, OnAir
<1> QED BY <1>1, <1>2, FailStep

\* The failed command is run again, over a mesh that still has its packets.
LEMMA AgainStep ==
    ASSUME NEW n, Underway(n), RunAgain
    PROVE  Underway(n)'
<1>1. /\ snd' = [snd EXCEPT !.pc = "off"]
      /\ UNCHANGED <<script, outs>> /\ UNCHANGED gateway /\ UNCHANGED <<air, seen, rx>>
  BY DEF RunAgain, mesh
<1>2. OnTrack(CountOf(n)) /\ DOMAIN snd = {"pc", "frames", "at", "id", "wire", "tries"}
  BY DEF Underway, OnTrack
<1>3. /\ snd'.wire = snd.wire /\ snd'.frames = snd.frames /\ snd'.pc = "off"
      /\ DOMAIN snd' = DOMAIN snd /\ snd'.tries = snd.tries /\ snd'.at = snd.at
  BY <1>1, <1>2
<1>4. OnTrack(CountOf(n))' /\ Acknowledged(CountOf(n))'
  BY <1>2, <1>3 DEF OnTrack, Acknowledged
<1>5. RepliesTrue' /\ OnAir(n)'
  BY <1>1 DEF Underway, RepliesTrue, OnAir
<1> QED BY <1>1, <1>3, <1>4, <1>5, SenderAlone

\* The parts that a step of the mesh leaves alone.
LEMMA MeshAlone ==
    ASSUME NEW n, Underway(n), UNCHANGED <<tools, snd, reassemblyVars, accepted, lapsed>>,
           seen \subseteq seen', host' \in Seq({FrameOf(n, i) : i \in 1 .. CountOf(n)}),
           RepliesTrue', OnAir(n)', Kept(n)'
    PROVE  Underway(n)'
<1>1. UNCHANGED <<script, outs, code, snd, assemblies, pendingPerSender, accepted>>
  BY DEF tools, reassemblyVars
<1>2. Prepared' /\ (n = WireLen(snd.wire))'
  BY <1>1 DEF Underway, Prepared, Inputs
<1>3. OnTrack(CountOf(n))' /\ Acknowledged(CountOf(n))'
  BY <1>1 DEF Underway, OnTrack, Acknowledged
<1>4. Heard(n)'
  BY <1>1 DEF Underway, Heard
<1>5. OneAssembly(n)'
  BY <1>1 DEF Underway, OneAssembly
<1> QED BY <1>2, <1>3, <1>4, <1>5 DEF Underway

\* Another routing packet, whose good news is true.
LEMMA AnotherReply ==
    ASSUME RepliesTrue, NEW packet, packet.id \in Nat, NEW error \in BOOLEAN,
           seen \subseteq seen', ~error => packet.id \in seen',
           rx' = Append(rx, Reply(packet, error))
    PROVE  RepliesTrue'
<1> DEFINE S == [port : {"routing"}, request : Nat, error : BOOLEAN]
           r == Reply(packet, error)
<1>1. r \in S /\ r.error = error /\ r.request = packet.id
  BY DEF Reply
<1>2. rx \in Seq(S) /\ \A p \in DOMAIN rx : ~rx[p].error => rx[p].request \in seen
  BY DEF RepliesTrue
<1> HIDE DEF S, r
<1>3. rx' = Append(rx, r)
  BY DEF r
<1>4. /\ rx' \in Seq(S) /\ Len(rx) \in Nat /\ DOMAIN rx = 1 .. Len(rx)
      /\ DOMAIN rx' = 1 .. Len(rx) + 1 /\ rx'[Len(rx) + 1] = r
      /\ \A p \in 1 .. Len(rx) : rx'[p] = rx[p]
  BY <1>1, <1>2, <1>3
<1>5. ASSUME NEW p \in DOMAIN rx', ~rx'[p].error PROVE rx'[p].request \in seen'
  <2>1. CASE p = Len(rx) + 1
    BY <1>1, <1>4, <1>5, <2>1
  <2>2. CASE p # Len(rx) + 1
    <3>1. p \in DOMAIN rx /\ rx'[p] = rx[p]
      BY <1>4, <2>2
    <3> QED BY <1>2, <1>5, <3>1
  <2> QED BY <2>1, <2>2
<1> QED BY <1>4, <1>5 DEF RepliesTrue, S

\* Ids of packets are numbers.
LEMMA IdsAreNumbers ==
    ASSUME NEW t \in Nat \ {0}, NEW i \in Nat
    PROVE  PacketId(t, i) \in Nat
<1>1. (t - 1) * MaxFragmentCount \in Nat
  BY Limits
<1> QED BY <1>1 DEF PacketId

\* What the mesh delivers, first or again, is a fragment that was sent.
LEMMA DeliverStep ==
    ASSUME WireLengths, NEW n, Underway(n), MeshDelivers
    PROVE  Underway(n)'
<1>1. CountOf(n) \in Nat /\ Kept(n) /\ Heard(n) /\ OnAir(n) /\ RepliesTrue
  BY Sends DEF Underway
<1>2. PICK packet \in air, acked \in BOOLEAN, again \in BOOLEAN :
         /\ seen' = seen \cup {packet.id}
         /\ host' = IF packet.id \in seen THEN host ELSE Append(host, packet.frame)
         /\ rx' = IF acked THEN Append(rx, Reply(packet, FALSE)) ELSE rx
         /\ air' = IF again THEN air ELSE air \ {packet}
         /\ UNCHANGED <<tools, snd, reassemblyVars, accepted, lapsed>>
  BY DEF MeshDelivers
<1>3. PICK t \in Nat \ {0} : \E i \in 1 .. CountOf(n) :
         packet.id = PacketId(t, i) /\ packet.frame = FrameOf(n, i)
  BY <1>1, <1>2 DEF OnAir
<1>4. PICK i \in 1 .. CountOf(n) : packet.id = PacketId(t, i) /\ packet.frame = FrameOf(n, i)
  BY <1>3
<1>5. packet.id \in Nat
  BY <1>1, <1>4, IdsAreNumbers
<1>6. OnAir(n)'
  BY <1>1, <1>2 DEF OnAir
<1>7. seen \subseteq seen' /\ packet.id \in seen'
  BY <1>2
<1>8. RepliesTrue'
  <2>1. CASE acked
    BY <1>1, <1>2, <1>5, <1>7, <2>1, AnotherReply
  <2>2. CASE ~acked
    BY <1>1, <1>2, <1>7, <2>2 DEF RepliesTrue
  <2> QED BY <2>1, <2>2
<1>9. /\ host' \in Seq({FrameOf(n, j) : j \in 1 .. CountOf(n)})
      /\ \A p \in DOMAIN host : p \in DOMAIN host' /\ host'[p] = host[p]
      /\ packet.id \notin seen => \E p \in DOMAIN host' : host'[p] = FrameOf(n, i)
  <2> DEFINE S == {FrameOf(n, j) : j \in 1 .. CountOf(n)}
  <2>1. host \in Seq(S) /\ packet.frame \in S
    BY <1>1, <1>4 DEF Heard
  <2> HIDE DEF S
  <2>2. CASE packet.id \in seen
    BY <1>2, <2>1, <2>2 DEF S
  <2>3. CASE packet.id \notin seen
    <3>1. /\ host' = Append(host, packet.frame) /\ host' \in Seq(S)
          /\ Len(host) \in Nat /\ DOMAIN host = 1 .. Len(host)
          /\ DOMAIN host' = 1 .. Len(host) + 1 /\ host'[Len(host) + 1] = packet.frame
          /\ \A p \in 1 .. Len(host) : host'[p] = host[p]
      BY <1>2, <2>1, <2>3
    <3>2. Len(host) + 1 \in DOMAIN host' /\ \A p \in DOMAIN host : p \in DOMAIN host'
      BY <3>1
    <3> QED BY <1>4, <3>1, <3>2 DEF S
  <2> QED BY <2>2, <2>3
<1>10. \A j : Has(n, j) => Has(n, j)'
  BY <1>2, <1>9 DEF Has, reassemblyVars
<1>11. Spared(n)' <=> Spared(n)
  BY <1>2 DEF Spared
<1>12. Kept(n)'
  <2> SUFFICES ASSUME NEW id \in seen'
               PROVE  \E u \in Nat \ {0} : \E j \in 1 .. CountOf(n) :
                          id = PacketId(u, j) /\ (Spared(n)' => Has(n, j)')
    BY DEF Kept
  <2>1. CASE id \in seen
    BY <1>1, <1>10, <1>11, <2>1 DEF Kept
  <2>2. CASE id \notin seen
    <3>1. id = packet.id
      BY <1>2, <2>2
    <3>2. Has(n, i)'
      BY <1>9, <2>2, <3>1 DEF Has
    <3> QED BY <1>4, <3>1, <3>2
  <2> QED BY <2>1, <2>2
<1> QED BY <1>2, <1>6, <1>7, <1>8, <1>9, <1>12, MeshAlone

\* The reply of a radio that gives up is an error.
LEMMA GiveUpStep ==
    ASSUME WireLengths, NEW n, Underway(n), MeshGivesUp
    PROVE  Underway(n)'
<1>1. CountOf(n) \in Nat /\ Kept(n) /\ Heard(n) /\ OnAir(n) /\ RepliesTrue
  BY Sends DEF Underway
<1>2. PICK packet \in air :
         /\ air' = air \ {packet} /\ rx' = Append(rx, Reply(packet, TRUE))
         /\ UNCHANGED <<tools, snd, seen, gateway>>
  BY DEF MeshGivesUp
<1>3. UNCHANGED <<reassemblyVars, accepted, lapsed, assemblies, host, seen>>
  BY <1>2 DEF gateway, reassemblyVars
<1>4. packet.id \in Nat
  BY <1>1, IdsAreNumbers DEF OnAir
<1>5. RepliesTrue'
  BY <1>1, <1>2, <1>4, AnotherReply
<1>6. OnAir(n)'
  BY <1>1, <1>2 DEF OnAir
<1>7. Kept(n)'
  BY <1>1, <1>3 DEF Kept, Spared, Has
<1>8. host' \in Seq({FrameOf(n, i) : i \in 1 .. CountOf(n)})
  BY <1>1, <1>3 DEF Heard
<1> QED BY <1>2, <1>3, <1>5, <1>6, <1>7, <1>8, MeshAlone

\* The command starts, for the first time or again.
LEMMA Starts ==
    ASSUME WireLengths, StartSensor, snd.tries \in Nat,
           SensorError(Head(script), Inputs(Head(script))[1]) = 0,
           NEW n, n = WireLen(Inputs(Head(script))[1].wire)
    PROVE  /\ UNCHANGED <<tools, mesh, gateway>>
           /\ Prepared' /\ (n = WireLen(snd.wire))'
           /\ OnTrack(CountOf(n))' /\ Acknowledged(CountOf(n))'
<1> DEFINE cmd == Head(script)
           doc == Inputs(cmd)[1]
<1>1. n \in Nat
  BY DEF WireLengths
<1>2. EncodeFrames(n).code = 0
  BY DEF SensorError
<1>3. CountOf(n) \in Nat /\ CountOf(n) >= 1
  <2>1. Sendable(n)
    BY <1>1, <1>2, Framing
  <2>2. CountOf(n) \in 1 .. MaxFragmentCount
    BY <2>1, Counts
  <2> QED BY <2>2, Limits
<1>4. /\ script # <<>> /\ cmd.tool = "sensor" /\ UNCHANGED <<tools, mesh, gateway>>
      /\ snd' = [Off EXCEPT !.pc = "handshake", !.wire = doc.wire,
                            !.frames = EncodeFrames(n).value, !.tries = snd.tries + 1]
  BY DEF StartSensor, Turn
<1>5. n = WireLen(doc.wire) /\ SensorError(cmd, doc) = 0
  OBVIOUS
<1> HIDE DEF doc
<1>6. /\ DOMAIN snd' = {"pc", "frames", "at", "id", "wire", "tries"}
      /\ snd'.pc = "handshake" /\ snd'.wire = doc.wire /\ snd'.frames = EncodeFrames(n).value
      /\ snd'.tries = snd.tries + 1 /\ snd'.at = 1 /\ snd'.id = 0
  BY <1>4 DEF Off
<1>7. UNCHANGED <<script, outs>>
  BY <1>4 DEF tools
<1>8. doc' = doc
  BY <1>7 DEF doc, Inputs
<1>9. Prepared'
  <2>1. SensorError(Head(script), doc)'
           = SensorError(cmd, doc)
    BY <1>7, <1>8 DEF SensorError
  <2> QED BY <1>4, <1>5, <1>6, <1>7, <1>8, <2>1 DEF Prepared, doc
<1>10. (n = WireLen(snd.wire))'
  BY <1>5, <1>6
<1>11. OnTrack(CountOf(n))'
  BY <1>3, <1>6 DEF OnTrack
<1>12. Acknowledged(CountOf(n))'
  BY <1>3, <1>6 DEF Acknowledged
<1> QED BY <1>4, <1>9, <1>10, <1>11, <1>12

\* The second run sends the same envelope.
LEMMA RestartStep ==
    ASSUME WireLengths, NEW n, Underway(n), StartSensor
    PROVE  Underway(n)'
<1>1. /\ SensorError(Head(script), Inputs(Head(script))[1]) = 0
      /\ n = WireLen(Inputs(Head(script))[1].wire) /\ snd.tries \in Nat
  BY DEF Underway, Prepared, OnTrack
<1>2. /\ UNCHANGED <<tools, mesh, gateway>> /\ Prepared' /\ (n = WireLen(snd.wire))'
      /\ OnTrack(CountOf(n))' /\ Acknowledged(CountOf(n))'
  BY <1>1, Starts
<1>3. /\ UNCHANGED <<air, seen, rx, host, accepted, lapsed, assemblies, pendingPerSender>>
  BY <1>2 DEF mesh, gateway, reassemblyVars
<1>4. RepliesTrue' /\ OnAir(n)'
  BY <1>3 DEF Underway, RepliesTrue, OnAir
<1>5. Kept(n)'
  BY <1>3 DEF Underway, Kept, Has, Spared
<1>6. Heard(n)' /\ OneAssembly(n)'
  BY <1>3 DEF Underway, Heard, OneAssembly
<1> QED BY <1>2, <1>4, <1>5, <1>6 DEF Underway

\* Before the first send there is nothing on the mesh or at the gateway.
LEMMA FirstStep ==
    ASSUME WireLengths, snd = Off, Quiet, Next
    PROVE  DeliveryInv'
<1>1. snd.pc = "off" /\ snd.tries = 0
  BY DEF Off
<1>2. /\ ~WaitForReady /\ ~SendFragment /\ ~WaitForAck /\ ~AckTimesOut /\ ~RunAgain
      /\ ~MeshDelivers /\ ~MeshGivesUp /\ ~HearSingle /\ ~HearPart /\ ~HearLast /\ ~GatewaySweeps
  BY <1>1 DEF Quiet, WaitForReady, SendFragment, WaitForAck, AckTimesOut, RunAgain,
              MeshDelivers, MeshGivesUp, HearSingle, HearPart, HearLast, GatewaySweeps
<1>3. ASSUME UNCHANGED <<snd, mesh, gateway>> PROVE DeliveryInv'
  <2>1. UNCHANGED <<snd, air, seen, rx, host, accepted, assemblies, pendingPerSender>>
    BY <1>3 DEF mesh, gateway, reassemblyVars
  <2>2. snd' = Off /\ Quiet'
    BY <2>1 DEF Quiet
  <2> QED BY <2>2 DEF DeliveryInv
<1>4. CASE RunMessage \/ RunRead \/ RunEnvelope \/ RunBatch \/ RunKey
  BY <1>3, <1>4 DEF RunMessage, RunRead, RunEnvelope, RunBatch, RunKey
<1>5. CASE StartSensor
  <2> DEFINE doc == Inputs(Head(script))[1]
  <2>1. CASE SensorError(Head(script), doc) # 0
    <3>1. UNCHANGED <<snd, mesh, gateway>>
      BY <1>5, <2>1 DEF StartSensor
    <3> QED BY <1>3, <3>1
  <2>2. CASE SensorError(Head(script), doc) = 0
    <3>1. PICK m \in Nat : m = WireLen(doc.wire)
      BY DEF WireLengths
    <3>2. /\ UNCHANGED <<tools, mesh, gateway>> /\ Prepared' /\ (m = WireLen(snd.wire))'
          /\ OnTrack(CountOf(m))' /\ Acknowledged(CountOf(m))'
      BY <1>1, <1>5, <2>2, <3>1, Starts
    <3>3. /\ air' = {} /\ seen' = {} /\ rx' = <<>> /\ host' = <<>> /\ accepted' = <<>>
          /\ DOMAIN assemblies' = {} /\ DOMAIN pendingPerSender' = {}
      BY <3>2 DEF Quiet, mesh, gateway, reassemblyVars
    <3>4. RepliesTrue' /\ OnAir(m)' /\ Kept(m)' /\ OneAssembly(m)'
      BY <3>3 DEF RepliesTrue, OnAir, Kept, OneAssembly
    <3>5. Heard(m)'
      BY <3>3 DEF Heard
    <3>6. Underway(m)'
      BY <3>2, <3>4, <3>5 DEF Underway
    <3> QED BY <3>6 DEF DeliveryInv
  <2> QED BY <2>1, <2>2
<1> QED BY <1>2, <1>4, <1>5 DEF Next

\* No other command runs until the delivery is over.
LEMMA OnlyTheSender ==
    ASSUME NEW n, Underway(n)
    PROVE  ~RunMessage /\ ~RunRead /\ ~RunEnvelope /\ ~RunBatch /\ ~RunKey
<1>1. Head(script).tool = "sensor"
  BY DEF Underway, Prepared
<1> QED BY <1>1 DEF RunMessage, RunRead, RunEnvelope, RunBatch, RunKey, Turn

\* Every step keeps the invariant of a delivery.
LEMMA DeliveryStep ==
    ASSUME WireLengths, DeliveryInv, [Next]_<<tools, snd, mesh, gateway>>
    PROVE  DeliveryInv'
<1>1. CASE snd = Off /\ Quiet /\ Next
  BY <1>1, FirstStep
<1>2. CASE Next /\ \E n \in Nat : Underway(n)
  <2>1. PICK n \in Nat : Underway(n)
    BY <1>2
  <2>2. Underway(n)'
    BY <1>2, <2>1, OnlyTheSender, RestartStep, ReadyStep, SendStep, AckStep, TimeoutStep,
       AgainStep, DeliverStep, GiveUpStep, HearSingleStep, HearPartStep, HearLastStep, SweepStep
       DEF Next
  <2> QED BY <2>2 DEF DeliveryInv
<1>3. CASE UNCHANGED <<tools, snd, mesh, gateway>>
  <2>1. UNCHANGED <<script, outs, code, snd, air, seen, rx, host, accepted, lapsed, assemblies,
                    pendingPerSender>>
    BY <1>3 DEF tools, mesh, gateway, reassemblyVars
  <2>2. CASE snd = Off /\ Quiet
    BY <2>1, <2>2 DEF DeliveryInv, Quiet
  <2>3. CASE \E n \in Nat : Underway(n)
    <3>1. PICK n \in Nat : Underway(n)
      BY <2>3
    <3>2. Kept(n)' /\ Heard(n)' /\ OneAssembly(n)'
      BY <2>1, <3>1 DEF Underway, Kept, Has, Spared, Heard, OneAssembly
    <3>3. Underway(n)'
      BY <1>3, <3>1, <3>2, GatewayAlone
    <3> QED BY <3>3 DEF DeliveryInv
  <2> QED BY <2>2, <2>3 DEF DeliveryInv
<1> QED BY <1>1, <1>2, <1>3 DEF DeliveryInv

\* A delivery that was reported: the gateway has every frame, and with every
\* frame it has the payload.
LEMMA Delivered ==
    ASSUME WireLengths, DeliveryInv
    PROVE  DeliveredMeansReceived
<1>1. CASE snd = Off /\ Quiet
  <2>1. snd.pc = "off" /\ accepted = <<>>
    BY <1>1 DEF Off, Quiet
  <2> QED BY <2>1 DEF DeliveredMeansReceived
<1>2. CASE \E n \in Nat : Underway(n)
  <2>1. PICK n \in Nat : Underway(n)
    BY <1>2
  <2>2. /\ Sendable(n) /\ CountOf(n) \in 1 .. MaxFragmentCount /\ Len(snd.frames) = CountOf(n)
        /\ n = WireLen(snd.wire) /\ Heard(n) /\ OneAssembly(n) /\ Kept(n)
        /\ OnTrack(CountOf(n)) /\ Acknowledged(CountOf(n))
    BY <2>1, Sends DEF Underway
  <2>3. \A i \in DOMAIN accepted : Whole(accepted[i], n)
    <3>1. accepted \in Seq({Payload(n)})
      BY <2>2 DEF Heard
    <3>2. \A i \in DOMAIN accepted : accepted[i] = Payload(n)
      BY <3>1
    <3> QED BY <2>2, <3>2, PayloadWhole
  <2>4. ASSUME snd.pc = "done", code = 0, host = <<>>, Spared(n), accepted = <<>>
        PROVE  FALSE
    <3>1. ASSUME NEW j \in 1 .. CountOf(n)
          PROVE  \E key \in DOMAIN assemblies : j \in DOMAIN assemblies[key].fragments
      <4>1. PacketId(snd.tries, j) \in seen /\ snd.tries \in Nat \ {0}
        BY <2>2, <2>4, <3>1 DEF Acknowledged, OnTrack
      <4>2. PICK t \in Nat \ {0} : \E i \in 1 .. CountOf(n) :
               PacketId(snd.tries, j) = PacketId(t, i) /\ Has(n, i)
        BY <2>2, <2>4, <4>1 DEF Kept
      <4>3. PICK i \in 1 .. CountOf(n) : PacketId(snd.tries, j) = PacketId(t, i) /\ Has(n, i)
        BY <4>2
      <4>4. i \in 1 .. MaxFragmentCount /\ j \in 1 .. MaxFragmentCount
        BY <2>2, Limits
      <4>5. i = j
        BY <4>1, <4>3, <4>4, PacketIds
      <4>6. DOMAIN host = {}
        BY <2>4
      <4> QED BY <2>4, <4>3, <4>5, <4>6 DEF Has
    <3>2. 1 \in 1 .. CountOf(n)
      BY <2>2, Limits
    <3>3. PICK key \in DOMAIN assemblies : 1 \in DOMAIN assemblies[key].fragments
      BY <3>1, <3>2
    <3> DEFINE D == DOMAIN assemblies[key].fragments
    <3>4. n > MaxSingleBody /\ Assembles(n, assemblies[key])
      BY <2>2, <3>3 DEF OneAssembly
    <3>5. CountOf(n) = FragmentCount(n) /\ FragmentCount(n) \in Nat
      BY <2>2, <3>4, Limits DEF CountOf
    <3>6. \A k \in DOMAIN assemblies : k = key
      BY <2>2, <3>3, Alone DEF OneAssembly
    <3>7. D = 1 .. FragmentCount(n)
      BY <3>1, <3>4, <3>5, <3>6 DEF Assembles
    <3>8. Cardinality(D) < FragmentCount(n)
      BY <3>4 DEF Assembles
    <3>9. Cardinality(1 .. FragmentCount(n)) = FragmentCount(n)
      BY <3>5, FS_Interval
    <3> QED BY <3>5, <3>7, <3>8, <3>9
  <2>5. (/\ snd.pc = "done" /\ code = 0 /\ host = <<>> /\ ~lapsed
         /\ Len(snd.frames) <= MaxFragments
         /\ n <= MaxReassembledBytes \/ Len(snd.frames) = 1) => accepted # <<>>
    BY <2>2, <2>4 DEF Spared
  <2> QED BY <2>2, <2>3, <2>5 DEF DeliveredMeansReceived
<1> QED BY <1>1, <1>2 DEF DeliveryInv
-----------------------------------------------------------------------------
(***************************************************************************)
(* What the commands make of what they are given.                          *)
(***************************************************************************)
\* What `edge message' parses.
ParseOf(cmd) == Parse(cmd.board, cmd.argv, cmd.suri, cmd.meta)

\* A batch has envelopes, and only batches are compressed.
Sound(wire) ==
    /\ wire.kind = "batch" => wire.value # <<>>
    /\ wire.kind = "zstd" => wire.value.kind = "batch" /\ wire.value.value # <<>>

\* These wire bytes, and the messages in the envelopes in them, go back to this
\* command: a message is what it parsed.
Closed(W, source) ==
    \A w \in W :
        /\ Sound(w)
        /\ w.kind = "envelope" => w.value.message \in W
        /\ w.kind = "message" =>
              source.tool = "message" /\ ParseOf(source).code = 0 /\ w.value = ParseOf(source).value

Traced(wire, source) == \E W : wire \in W /\ Closed(W, source)

Document(doc, source) == doc.format \in ReprFormat /\ Traced(doc.wire, source)

\* What is shown of a message.
Shows(cmd, wire, source) ==
    /\ source.tool = "message" /\ ParseOf(source).code = 0
    /\ wire.value = PrintMessage(ParseOf(source).value, IF cmd.decrypt THEN cmd.suri ELSE None)

\* A result is a document that goes back to the same command, text shows that
\* command's message.
Made(cmd, source, result) ==
    result.code = 0 =>
        /\ Document(result.value, source)
        /\ cmd.tool \in {"message", "read"} /\ cmd.output = "text" =>
              Shows(cmd, result.value.wire, source)

\* What is understood is read back.
ReadBack(cmd, docs, result) ==
    Understands(cmd, docs) =>
        result.code = 0 /\ Envelopes(result.value.wire) = Given(cmd, docs)

\* Bytes that are neither an envelope nor a message.
LEMMA TracedPlain ==
    ASSUME NEW w, NEW source, Sound(w), w.kind # "envelope", w.kind # "message"
    PROVE  Traced(w, source)
<1>1. w \in {w} /\ Closed({w}, source)
  BY DEF Closed
<1> QED BY <1>1 DEF Traced

\* A message goes back to the command that parsed it.
LEMMA TracedMessage ==
    ASSUME NEW w, NEW source, w.kind = "message", source.tool = "message",
           ParseOf(source).code = 0, w.value = ParseOf(source).value
    PROVE  Traced(w, source)
<1>1. w \in {w} /\ Closed({w}, source)
  BY DEF Closed, Sound
<1> QED BY <1>1 DEF Traced

\* An envelope goes back to where its message does.
LEMMA TracedEnvelope ==
    ASSUME NEW w, NEW source, w.kind = "envelope", Traced(w.value.message, source)
    PROVE  Traced(w, source)
<1>1. PICK W : w.value.message \in W /\ Closed(W, source)
  BY DEF Traced
<1>2. w \in W \cup {w} /\ Closed(W \cup {w}, source)
  BY <1>1 DEF Closed, Sound
<1> QED BY <1>2 DEF Traced

\* And conversely, whatever is inside.
LEMMA TracedInside ==
    ASSUME NEW w, NEW source, Traced(w, source)
    PROVE  /\ Sound(w)
           /\ w.kind = "envelope" => Traced(w.value.message, source)
           /\ w.kind = "message" =>
                 source.tool = "message" /\ ParseOf(source).code = 0 /\ w.value = ParseOf(source).value
<1>1. PICK W : w \in W /\ Closed(W, source)
  BY DEF Traced
<1> QED BY <1>1 DEF Closed, Traced

\* wire_from_input gives the bytes of the document or some that are nothing.
LEMMA WireRead ==
    ASSUME NEW doc, NEW source, Document(doc, source), NEW format,
           WireFromInput(doc, format).code = 0, format \in ReprFormat
    PROVE  /\ Traced(WireFromInput(doc, format).value, source)
           /\ WireFromInput(doc, format).value.kind \notin {"text", "garbage"} =>
                 WireFromInput(doc, format).value = doc.wire
<1> DEFINE r == WireFromInput(doc, format)
<1>1. r.value \in {doc.wire, Wire("text", doc), Wire("garbage", doc)}
  <2>1. CASE format = "binary"
    BY <2>1 DEF WireFromInput, Ok
  <2>2. CASE format = "base64"
    BY <2>2 DEF WireFromInput, Ok, Error
  <2>3. CASE format = "hex"
    BY <2>3 DEF WireFromInput, Ok, Error
  <2>4. CASE format = "text"
    BY <2>4 DEF WireFromInput, Error
  <2> QED BY <2>1, <2>2, <2>3, <2>4 DEF ReprFormat
<1> HIDE DEF r
<1>2. Wire("text", doc).kind = "text" /\ Wire("garbage", doc).kind = "garbage"
  BY DEF Wire
<1>3. Traced(Wire("text", doc), source) /\ Traced(Wire("garbage", doc), source)
  BY <1>2, TracedPlain DEF Sound
<1>4. Traced(doc.wire, source)
  BY DEF Document
<1> QED BY <1>1, <1>2, <1>3, <1>4 DEF r

\* Sniffing always finds a format that is one.
LEMMA InputFormatIs ==
    ASSUME NEW input, NEW doc, input \in ReprFormat \cup {None}
    PROVE  InputFormat(input, doc) \in ReprFormat
BY DEF InputFormat, SniffByteFormat, ReprFormat

\* Bytes of some length, written and read in the same or an unstated format.
LEMMA Sniffed ==
    ASSUME NEW doc, NEW input, doc.format \in ReprFormat \ {"text"}, input \in {None, doc.format},
           WireLen(doc.wire) \in Nat \ {0}
    PROVE  WireFromInput(doc, InputFormat(input, doc)) = Ok(doc.wire)
<1>1. SniffByteFormat(doc) = doc.format
  BY DEF SniffByteFormat, DecodesAsBase64, ReprFormat
<1>2. InputFormat(input, doc) = doc.format
  BY <1>1 DEF InputFormat
<1>3. WireFromInput(doc, doc.format) = Ok(doc.wire)
  BY DEF WireFromInput, ReprFormat
<1> QED BY <1>2, <1>3

\* What is written without an error.
LEMMA OutputIs ==
    ASSUME NEW format, NEW wire
    PROVE  /\ Output(format, wire).code = 0 /\ Output(format, wire).value.format = format
           /\ Output(format, wire).value.wire = wire
BY DEF Output, Ok, Written

\* Decoding is of the kind asked for.
LEMMA DecodeIs ==
    ASSUME NEW kind, NEW wire
    PROVE  /\ Decode(kind, wire).code = 0 <=> wire.kind = kind
           /\ wire.kind = kind => Decode(kind, wire).value = wire.value
BY DEF Decode, Ok, Error

\* write_output of edge message, of bytes that go back to a command.
LEMMA MessageWritten ==
    ASSUME NEW cmd, NEW source, NEW wire, Traced(wire, source), cmd.output \in ReprFormat
    PROVE  Made(cmd, source, WriteMessage(cmd, wire))
<1> DEFINE r == WriteMessage(cmd, wire)
           reader == IF cmd.decrypt THEN cmd.suri ELSE None
           lines == Wire("lines", PrintMessage(Decode("message", wire).value, reader))
<1>1. CASE cmd.output # "text"
  <2>1. r = Output(cmd.output, wire)
    BY <1>1 DEF WriteMessage
  <2> QED BY <1>1, <2>1, OutputIs DEF Made, Document
<1>2. CASE cmd.output = "text" /\ wire.kind # "message"
  <2>1. Decode("message", wire).code # 0
    BY <1>2, DecodeIs
  <2>2. r.code # 0
    BY <1>2, <2>1 DEF WriteMessage
  <2> QED BY <2>2 DEF Made
<1>3. CASE cmd.output = "text" /\ wire.kind = "message"
  <2>1. Decode("message", wire).code = 0 /\ Decode("message", wire).value = wire.value
    BY <1>3, DecodeIs
  <2>2. r = Output("text", lines)
    BY <1>3, <2>1 DEF WriteMessage
  <2>3. /\ source.tool = "message" /\ ParseOf(source).code = 0 /\ wire.value = ParseOf(source).value
    BY <1>3, TracedInside
  <2>4. lines.kind = "lines" /\ lines.value = PrintMessage(ParseOf(source).value, reader)
    BY <2>1, <2>3 DEF Wire
  <2> HIDE DEF lines, reader
  <2>5. Traced(lines, source)
    BY <2>4, TracedPlain DEF Sound
  <2>6. Shows(cmd, lines, source)
    BY <2>3, <2>4 DEF Shows, reader
  <2> QED BY <2>2, <2>5, <2>6, OutputIs DEF Made, Document, ReprFormat
<1> QED BY <1>1, <1>2, <1>3

\* `edge message' with measurements makes a document of its own.
LEMMA EncodeMade ==
    ASSUME NEW cmd, cmd.tool = "message", cmd.output \in ReprFormat
    PROVE  Made(cmd, cmd, EncodeMessage(cmd))
<1> DEFINE wire == Wire("message", ParseOf(cmd).value)
<1>1. CASE ParseOf(cmd).code # 0
  BY <1>1 DEF EncodeMessage, ParseOf, Made
<1>2. CASE ParseOf(cmd).code = 0
  <2>1. EncodeMessage(cmd) = WriteMessage(cmd, wire)
    BY <1>2 DEF EncodeMessage, ParseOf
  <2>2. wire.kind = "message" /\ wire.value = ParseOf(cmd).value
    BY DEF Wire
  <2> HIDE DEF wire
  <2>3. Traced(wire, cmd)
    BY <1>2, <2>2, TracedMessage
  <2> QED BY <2>1, <2>3, MessageWritten
<1> QED BY <1>1, <1>2

\* The hex in the text of an envelope is its message.
LEMMA CopiedDocument ==
    ASSUME NEW doc, NEW source, Document(doc, source)
    PROVE  Document(Copied(doc), source)
<1>1. CASE doc.format = "text" /\ doc.wire.kind = "envelope"
  <2>1. Copied(doc) = Written("hex", doc.wire.value.message)
    BY <1>1 DEF Copied
  <2>2. Copied(doc).format = "hex" /\ Copied(doc).wire = doc.wire.value.message
    BY <2>1 DEF Written
  <2> QED BY <1>1, <2>2, TracedInside DEF Document, ReprFormat
<1>2. CASE ~(doc.format = "text" /\ doc.wire.kind = "envelope")
  BY <1>2 DEF Copied
<1> QED BY <1>1, <1>2

\* `edge message' with data makes one that goes back to the same command.
LEMMA ReadMade ==
    ASSUME NEW cmd, NEW doc, NEW source, Document(doc, source), cmd.output \in ReprFormat,
           cmd.input \in ReprFormat \cup {None}
    PROVE  Made(cmd, source, ReadMessage(cmd, doc))
<1> DEFINE wire == WireFromInput(doc, InputFormat(cmd.input, doc))
<1>1. CASE wire.code # 0
  BY <1>1 DEF ReadMessage, Made
<1>2. CASE wire.code = 0
  <2>1. Traced(wire.value, source)
    BY <1>2, InputFormatIs, WireRead
  <2>2. ReadMessage(cmd, doc) = WriteMessage(cmd, wire.value)
    BY <1>2 DEF ReadMessage
  <2> QED BY <2>1, <2>2, MessageWritten
<1> QED BY <1>1, <1>2

\* Decoding an envelope gives the one that is in the bytes.
LEMMA DecodedEnvelope ==
    ASSUME NEW cmd, NEW doc, NEW source, Document(doc, source),
           cmd.input \in ReprFormat \cup {None}, DecodeEnvelope(cmd, doc).code = 0
    PROVE  Traced(DecodeEnvelope(cmd, doc).value.message, source)
<1> DEFINE wire == WireFromInput(doc, InputFormat(cmd.input, doc))
<1>1. wire.code = 0 /\ DecodeEnvelope(cmd, doc) = Decode("envelope", wire.value)
  BY DEF DecodeEnvelope
<1>2. wire.value.kind = "envelope" /\ DecodeEnvelope(cmd, doc).value = wire.value.value
  BY <1>1, DecodeIs
<1>3. Traced(wire.value, source)
  BY <1>1, InputFormatIs, WireRead
<1> HIDE DEF wire
<1>4. Traced(wire.value.value.message, source)
  BY <1>2, <1>3, TracedInside
<1> QED BY <1>2, <1>4

\* Signing keeps the message that was read.
LEMMA SignedEnvelope ==
    ASSUME NEW cmd, NEW doc, NEW source, Document(doc, source),
           cmd.input \in ReprFormat \cup {None}, SignEnvelope(cmd, doc).code = 0
    PROVE  Traced(SignEnvelope(cmd, doc).value.message, source)
<1> DEFINE format == IF cmd.input = None THEN "binary" ELSE cmd.input
           message == WireFromInput(doc, format)
           nonce == IF cmd.nonce = None THEN DEFAULT_NONCE_LEN ELSE cmd.nonce
<1>1. format \in ReprFormat
  BY DEF ReprFormat
<1>2. message.code = 0 /\ SignEnvelope(cmd, doc) = Ok(SignMessage(cmd.sign, message.value, nonce))
  BY DEF SignEnvelope, Error
<1>3. Traced(message.value, source)
  BY <1>1, <1>2, WireRead
<1> HIDE DEF message, nonce
<1>4. SignMessage(cmd.sign, message.value, nonce).message = message.value
  BY DEF SignMessage
<1> QED BY <1>2, <1>3, <1>4 DEF Ok

\* `edge envelope' makes a document that goes back to the same command.
LEMMA EnvelopeMade ==
    ASSUME NEW cmd, NEW doc, NEW source, Document(doc, source), cmd.tool = "envelope",
           cmd.output \in ReprFormat, cmd.input \in ReprFormat \cup {None}
    PROVE  Made(cmd, source, EdgeEnvelope(cmd, doc))
<1> DEFINE env == IF cmd.sign = None THEN DecodeEnvelope(cmd, doc) ELSE SignEnvelope(cmd, doc)
           wire == Wire("envelope", env.value)
           r == EdgeEnvelope(cmd, doc)
<1> SUFFICES ASSUME r.code = 0 PROVE Document(r.value, source)
  BY DEF Made
<1>1. env.code = 0 /\ r = Output(cmd.output, wire)
  <2>1. env.code = 0
    BY DEF EdgeEnvelope
  <2>2. r = IF cmd.verify /\ VerifyEnvelope(env.value) # 0 THEN Error(VerifyEnvelope(env.value))
            ELSE Output(cmd.output, wire)
    BY <2>1 DEF EdgeEnvelope
  <2> HIDE DEF env
  <2> QED BY <2>1, <2>2 DEF Error
<1>2. Traced(env.value.message, source)
  BY <1>1, DecodedEnvelope, SignedEnvelope
<1> HIDE DEF env, r
<1>3. wire.kind = "envelope" /\ wire.value = env.value
  BY DEF Wire
<1> HIDE DEF wire
<1>4. Traced(wire, source)
  BY <1>2, <1>3, TracedEnvelope
<1> QED BY <1>1, <1>4, OutputIs DEF Document

\* `edge envelope' writes the envelope that it understands.
LEMMA EnvelopeReadBack ==
    ASSUME WireLengths, NEW cmd, NEW docs, cmd.tool = "envelope", docs[1].format \in ReprFormat,
           DOMAIN docs = {1}
    PROVE  ReadBack(cmd, docs, EdgeEnvelope(cmd, docs[1]))
<1> SUFFICES ASSUME Understands(cmd, docs)
             PROVE  /\ EdgeEnvelope(cmd, docs[1]).code = 0
                    /\ Envelopes(EdgeEnvelope(cmd, docs[1]).value.wire) = Given(cmd, docs)
  BY DEF ReadBack
<1> DEFINE doc == docs[1]
<1>1. /\ doc.format \in ReprFormat \ {"text"} /\ cmd.input \in {None, doc.format}
      /\ cmd.sign = None /\ doc.wire.kind = "envelope"
      /\ cmd.verify => VerifyEnvelope(doc.wire.value) = 0
  BY DEF Understands
<1>2. WireLen(doc.wire) \in Nat \ {0}
  BY <1>1 DEF WireLengths
<1>3. WireFromInput(doc, InputFormat(cmd.input, doc)) = Ok(doc.wire)
  BY <1>1, <1>2, Sniffed
<1>4. DecodeEnvelope(cmd, doc) = Ok(doc.wire.value)
  BY <1>1, <1>3 DEF DecodeEnvelope, Decode, Ok
<1>5. Ok(doc.wire.value).code = 0 /\ Ok(doc.wire.value).value = doc.wire.value
  BY DEF Ok
<1>6. EdgeEnvelope(cmd, doc) = Output(cmd.output, Wire("envelope", doc.wire.value))
  BY <1>1, <1>4, <1>5 DEF EdgeEnvelope
<1>7. Envelopes(Wire("envelope", doc.wire.value)) = <<doc.wire.value>>
  BY DEF Envelopes, Wire
<1>8. Given(cmd, docs) = <<doc.wire.value>>
  BY <1>1 DEF Given, Envelopes
<1> QED BY <1>6, <1>7, <1>8, OutputIs

\* Every set of numbers has a least one.
LEMMA LeastNumber ==
    ASSUME NEW T, T \subseteq Nat, T # {}
    PROVE  \E x \in T : \A y \in T : x <= y
<1>1. IsWellFoundedOn(OpToRel(<, Nat), Nat)
  BY NatLessThanWellFounded
<1>2. PICK x \in T : \A y \in T : ~ (<<y, x>> \in OpToRel(<, Nat))
  BY <1>1, WFMin
<1>3. \A y \in T : ~ (y < x)
  BY <1>2 DEF OpToRel
<1> QED BY <1>3

\* Every result is kept when none is an error.
LEMMA CollectIs ==
    ASSUME NEW f, NEW S, DOMAIN f = S, \A i \in S : f[i].code = 0
    PROVE  /\ Collect(f).code = 0 /\ Collect(f).value = [i \in S |-> f[i].value]
BY DEF Collect, Ok

\* And otherwise the first error is.
LEMMA CollectFails ==
    ASSUME NEW f, NEW S, DOMAIN f = S, S \subseteq Nat, Collect(f).code = 0
    PROVE  /\ \A i \in S : f[i].code = 0
           /\ Collect(f).value = [i \in S |-> f[i].value]
<1> DEFINE failing == {i \in S : f[i].code # 0}
<1>1. failing = {}
  <2> SUFFICES ASSUME failing # {} PROVE FALSE
    OBVIOUS
  <2>1. Collect(f) = f[Min(failing)]
    BY DEF Collect
  <2>2. Min(failing) \in failing
    <3>1. failing \subseteq Nat
      OBVIOUS
    <3>2. PICK x \in failing : \A y \in failing : x <= y
      <4> HIDE DEF failing
      <4> QED BY <3>1, LeastNumber
    <3> HIDE DEF failing
    <3> QED BY <3>2 DEF Min
  <2> QED BY <2>1, <2>2
<1> QED BY <1>1, CollectIs

\* A batch that is packed is not empty.
LEMMA PackMade ==
    ASSUME NEW cmd, NEW docs, docs = [i \in DOMAIN docs |-> docs[i]], DOMAIN docs \subseteq Nat,
           PackBatch(cmd, docs).code = 0
    PROVE  PackBatch(cmd, docs).value # <<>>
<1> DEFINE line(doc) == IF doc.format = "binary" THEN Wire("torn", doc.wire) ELSE doc.wire
           f == [i \in DOMAIN docs |-> DecodeEnvelope(cmd, Written(docs[i].format, line(docs[i])))]
<1>1. docs # <<>> /\ PackBatch(cmd, docs) = Collect(f)
  BY DEF PackBatch, Error
<1>2. DOMAIN f = DOMAIN docs
  OBVIOUS
<1> HIDE DEF f
<1>3. PackBatch(cmd, docs).value = [i \in DOMAIN docs |-> f[i].value]
  BY <1>1, <1>2, CollectFails
<1>4. DOMAIN docs # {}
  <2> SUFFICES ASSUME DOMAIN docs = {} PROVE docs = <<>>
    BY <1>1
  <2> QED OBVIOUS
<1>5. DOMAIN PackBatch(cmd, docs).value # {} /\ DOMAIN <<>> = {}
  BY <1>3, <1>4
<1> QED BY <1>5

\* Nor is one that is unpacked.
LEMMA DecodedBatch ==
    ASSUME NEW cmd, NEW doc, NEW source, Document(doc, source),
           cmd.input \in ReprFormat \cup {None}, DecodeBatch(cmd, doc).code = 0
    PROVE  DecodeBatch(cmd, doc).value # <<>>
<1> DEFINE wire == WireFromInput(doc, InputFormat(cmd.input, doc))
           inner == IF wire.code # 0 \/ ~cmd.decompress THEN wire
                    ELSE IF wire.value.kind # "zstd" THEN Error(3) ELSE Ok(wire.value.value)
<1>1. inner.code = 0 /\ DecodeBatch(cmd, doc) = Decode("batch", inner.value)
  BY DEF DecodeBatch
<1>2. inner.value.kind = "batch" /\ DecodeBatch(cmd, doc).value = inner.value.value
  BY <1>1, DecodeIs
<1>3. wire.code = 0
  BY <1>1
<1>4. Sound(wire.value)
  BY <1>3, InputFormatIs, WireRead, TracedInside
<1> HIDE DEF wire
<1>5. CASE ~cmd.decompress
  BY <1>2, <1>4, <1>5 DEF Sound
<1>6. CASE cmd.decompress
  <2>1. wire.value.kind = "zstd" /\ inner = Ok(wire.value.value)
    BY <1>1, <1>3, <1>6 DEF Error
  <2>2. inner.value = wire.value.value
    BY <2>1 DEF Ok
  <2> QED BY <1>2, <1>4, <2>1, <2>2 DEF Sound
<1> QED BY <1>5, <1>6

\* `edge batch' writes a sound batch, compressed or not.
LEMMA BatchMade ==
    ASSUME NEW cmd, NEW docs, docs = [i \in DOMAIN docs |-> docs[i]], DOMAIN docs \subseteq Nat,
           NEW source, cmd.tool = "batch", cmd.output \in ReprFormat,
           cmd.input \in ReprFormat \cup {None}, ~cmd.pack => Document(docs[1], source)
    PROVE  Made(cmd, source, EdgeBatch(cmd, docs))
<1> DEFINE batch == IF cmd.pack THEN PackBatch(cmd, docs) ELSE DecodeBatch(cmd, docs[1])
           plain == Wire("batch", batch.value)
           wire == IF cmd.compress THEN Wire("zstd", plain) ELSE plain
           r == EdgeBatch(cmd, docs)
<1> SUFFICES ASSUME r.code = 0 PROVE Document(r.value, source)
  BY DEF Made
<1>1. batch.code = 0 /\ r = Output(cmd.output, wire)
  BY DEF EdgeBatch
<1>2. batch.value # <<>>
  BY <1>1, PackMade, DecodedBatch
<1> HIDE DEF batch, r
<1>3. plain.kind = "batch" /\ plain.value = batch.value
  BY DEF Wire
<1> HIDE DEF plain
<1>4. Wire("zstd", plain).kind = "zstd" /\ Wire("zstd", plain).value = plain
  BY DEF Wire
<1>5. Sound(wire) /\ wire.kind \in {"batch", "zstd"}
  BY <1>2, <1>3, <1>4 DEF Sound
<1> HIDE DEF wire
<1>6. Traced(wire, source)
  BY <1>5, TracedPlain
<1> QED BY <1>1, <1>6, OutputIs DEF Document

\* The envelopes in a batch that was just made, compressed or not.
LEMMA BatchHolds ==
    ASSUME NEW v, NEW compress
    PROVE  LET plain == Wire("batch", v)
           IN  Envelopes(IF compress THEN Wire("zstd", plain) ELSE plain) = v
<1> DEFINE plain == Wire("batch", v)
<1>1. plain.kind = "batch" /\ plain.value = v
  BY DEF Wire
<1> HIDE DEF plain
<1>2. Wire("zstd", plain).kind = "zstd" /\ Wire("zstd", plain).value = plain
  BY DEF Wire
<1>3. Envelopes(plain) = v /\ Envelopes(Wire("zstd", plain)) = v
  BY <1>1, <1>2 DEF Envelopes
<1> QED BY <1>3 DEF plain

\* Packing keeps the envelopes of the lines it understands, in their order.
LEMMA PackReadBack ==
    ASSUME WireLengths, NEW cmd, NEW docs, cmd.tool = "batch", cmd.pack,
           \A i \in DOMAIN docs : docs[i].format \in ReprFormat
    PROVE  ReadBack(cmd, docs, EdgeBatch(cmd, docs))
<1> SUFFICES ASSUME Understands(cmd, docs)
             PROVE  /\ EdgeBatch(cmd, docs).code = 0
                    /\ Envelopes(EdgeBatch(cmd, docs).value.wire) = Given(cmd, docs)
  BY DEF ReadBack
<1> DEFINE line(doc) == IF doc.format = "binary" THEN Wire("torn", doc.wire) ELSE doc.wire
           f == [i \in DOMAIN docs |-> DecodeEnvelope(cmd, Written(docs[i].format, line(docs[i])))]
           v == [i \in DOMAIN docs |-> docs[i].wire.value]
<1>1. docs # <<>> /\ \A i \in DOMAIN docs :
         /\ docs[i].format \notin {"text", "binary"} /\ cmd.input \in {None, docs[i].format}
         /\ docs[i].wire.kind = "envelope"
  BY DEF Understands
<1>2. ASSUME NEW i \in DOMAIN docs
      PROVE  f[i] = Ok(docs[i].wire.value)
  <2> DEFINE doc == Written(docs[i].format, docs[i].wire)
  <2>1. f[i] = DecodeEnvelope(cmd, doc)
    BY <1>1
  <2>2. doc.format = docs[i].format /\ doc.wire = docs[i].wire
    BY DEF Written
  <2> HIDE DEF doc
  <2>3. WireLen(doc.wire) \in Nat \ {0}
    BY <1>1, <2>2 DEF WireLengths
  <2>4. WireFromInput(doc, InputFormat(cmd.input, doc)) = Ok(doc.wire)
    BY <1>1, <2>2, <2>3, Sniffed
  <2> QED BY <1>1, <2>1, <2>2, <2>4 DEF DecodeEnvelope, Decode, Ok
<1>3. PackBatch(cmd, docs) = Collect(f)
  BY <1>1 DEF PackBatch
<1>4. DOMAIN f = DOMAIN docs
  OBVIOUS
<1> HIDE DEF f
<1>5. \A i \in DOMAIN docs : f[i].code = 0 /\ f[i].value = docs[i].wire.value
  <2>1. \A x : Ok(x).code = 0 /\ Ok(x).value = x
    BY DEF Ok
  <2> QED BY <1>2, <2>1
<1>6. PackBatch(cmd, docs).code = 0 /\ PackBatch(cmd, docs).value = v
  BY <1>3, <1>4, <1>5, CollectIs
<1> DEFINE plain == Wire("batch", v)
           wire == IF cmd.compress THEN Wire("zstd", plain) ELSE plain
<1> HIDE DEF v
<1>7. EdgeBatch(cmd, docs) = Output(cmd.output, wire)
  BY <1>6 DEF EdgeBatch
<1>8. Envelopes(wire) = v
  BY BatchHolds
<1> HIDE DEF wire
<1>9. Given(cmd, docs) = v
  BY DEF Given, v
<1> QED BY <1>7, <1>8, <1>9, OutputIs

\* Unpacking finds the envelopes that were packed.
LEMMA UnpackReadBack ==
    ASSUME WireLengths, NEW cmd, NEW docs, NEW source, cmd.tool = "batch", ~cmd.pack,
           DOMAIN docs = {1}, Document(docs[1], source)
    PROVE  ReadBack(cmd, docs, EdgeBatch(cmd, docs))
<1> SUFFICES ASSUME Understands(cmd, docs)
             PROVE  /\ EdgeBatch(cmd, docs).code = 0
                    /\ Envelopes(EdgeBatch(cmd, docs).value.wire) = Given(cmd, docs)
  BY DEF ReadBack
<1> DEFINE doc == docs[1]
<1>1. /\ doc.format \in ReprFormat \ {"text"} /\ cmd.input \in {None, doc.format}
      /\ doc.wire.kind = IF cmd.decompress THEN "zstd" ELSE "batch"
  BY DEF Understands, Document
<1>2. Sound(doc.wire)
  BY TracedInside DEF Document
<1>3. WireLen(doc.wire) \in Nat \ {0}
  BY <1>1, <1>2 DEF WireLengths, Sound
<1>4. WireFromInput(doc, InputFormat(cmd.input, doc)) = Ok(doc.wire)
  BY <1>1, <1>3, Sniffed
<1>5. Given(cmd, docs) = Envelopes(doc.wire)
  BY DEF Given
<1> HIDE DEF doc
<1>6. DecodeBatch(cmd, doc) = Ok(Envelopes(doc.wire))
  <2>1. CASE cmd.decompress
    <3>1. doc.wire.kind = "zstd" /\ doc.wire.value.kind = "batch"
      BY <1>1, <1>2, <2>1 DEF Sound
    <3>2. Envelopes(doc.wire) = doc.wire.value.value
      BY <3>1 DEF Envelopes
    <3> QED BY <1>4, <2>1, <3>1, <3>2 DEF DecodeBatch, Decode, Ok
  <2>2. CASE ~cmd.decompress
    <3>1. doc.wire.kind = "batch"
      BY <1>1, <2>2
    <3>2. Envelopes(doc.wire) = doc.wire.value
      BY <3>1 DEF Envelopes
    <3> QED BY <1>4, <2>2, <3>1, <3>2 DEF DecodeBatch, Decode, Ok
  <2> QED BY <2>1, <2>2
<1> DEFINE v == Envelopes(doc.wire)
           plain == Wire("batch", v)
           wire == IF cmd.compress THEN Wire("zstd", plain) ELSE plain
<1> HIDE DEF v
<1>7. DecodeBatch(cmd, doc).code = 0 /\ DecodeBatch(cmd, doc).value = v
  BY <1>6 DEF Ok, v
<1>8. EdgeBatch(cmd, docs) = Output(cmd.output, wire)
  BY <1>7 DEF EdgeBatch, doc
<1>9. Envelopes(wire) = v
  BY BatchHolds
<1> HIDE DEF wire
<1> QED BY <1>5, <1>8, <1>9, OutputIs DEF v

\* `edge key' writes no telemetry at all.
LEMMA KeyMade ==
    ASSUME NEW cmd, NEW source, cmd.tool = "key"
    PROVE  Made(cmd, source, EdgeKey(cmd.uri))
<1> SUFFICES ASSUME EdgeKey(cmd.uri).code = 0
             PROVE  Document(EdgeKey(cmd.uri).value, source)
  BY DEF Made
<1>1. \E v : EdgeKey(cmd.uri) = Output("text", Wire("key", v))
  BY DEF EdgeKey, Error
<1>2. PICK v : EdgeKey(cmd.uri) = Output("text", Wire("key", v))
  BY <1>1
<1>3. Wire("key", v).kind = "key"
  BY DEF Wire
<1>4. Traced(Wire("key", v), source)
  BY <1>3, TracedPlain DEF Sound
<1> QED BY <1>2, <1>4, OutputIs DEF Document, ReprFormat
-----------------------------------------------------------------------------
(***************************************************************************)
(* The inductive invariant of a script.                                    *)
(***************************************************************************)
IsSeq(s) == \E S : s \in Seq(S)

\* The command that the output of this one goes back to.
SourceOf(cmd) == IF cmd.in = <<>> THEN cmd ELSE ran[origin[cmd.in[1]]]

\* A record of what was run is kept, command by command.
Recorded ==
    /\ IsSeq(ran) /\ IsSeq(outs) /\ IsSeq(origin)
    /\ Len(outs) = Len(ran) /\ Len(origin) = Len(ran)
    /\ \A i \in 1 .. Len(ran) : IsCommand(ran[i], i - 1) /\ origin[i] \in 1 .. Len(ran)

\* What is left of a script can be run, unless a command failed.
Pending ==
    /\ IsSeq(script)
    /\ snd # Off \/ code = 0 =>
          \A p \in 1 .. Len(script) : IsCommand(script[p], (Len(ran) + p) - 1)

\* Every output goes back to its source, and shows it if it is text.
Sourced ==
    \A i \in 1 .. Len(ran) :
        /\ Document(outs[i], ran[origin[i]])
        /\ ran[i].tool \in {"message", "read"} /\ ran[i].output = "text" =>
              Shows(ran[i], outs[i].wire, ran[origin[i]])

\* The documents that a command takes from these.
Taken(cmd, docs) == [i \in DOMAIN cmd.in |-> docs[cmd.in[i]]]

\* What was understood was read back.
Understood ==
    /\ failed # None => failed.in \in Seq(1 .. Len(ran)) /\ ~Understands(failed, Taken(failed, outs))
    /\ \A i \in 1 .. Len(ran) : Understands(ran[i], Taken(ran[i], outs)) =>
          Envelopes(outs[i].wire) = Given(ran[i], Taken(ran[i], outs))

ToolsInv == Recorded /\ Pending /\ Sourced /\ Understood

\* What Append does to a sequence of anything.
LEMMA AppendIs ==
    ASSUME NEW s, IsSeq(s), NEW x
    PROVE  /\ IsSeq(Append(s, x)) /\ Len(s) \in Nat /\ Len(Append(s, x)) = Len(s) + 1
           /\ DOMAIN s = 1 .. Len(s) /\ DOMAIN Append(s, x) = 1 .. Len(s) + 1
           /\ \A i \in 1 .. Len(s) : Append(s, x)[i] = s[i]
           /\ Append(s, x)[Len(s) + 1] = x
<1>1. PICK S : s \in Seq(S)
  BY DEF IsSeq
<1> DEFINE T == S \cup {x}
<1>2. s \in Seq(T)
  BY <1>1
<1>3. x \in T
  OBVIOUS
<1> HIDE DEF T
<1>4. Append(s, x) \in Seq(T)
  BY <1>2, <1>3
<1> QED BY <1>2, <1>3, <1>4 DEF IsSeq

\* And what Head and Tail find in it.
LEMMA TailIs ==
    ASSUME NEW s, IsSeq(s), s # <<>>
    PROVE  /\ IsSeq(Tail(s)) /\ Len(s) \in Nat \ {0} /\ Len(Tail(s)) = Len(s) - 1
           /\ Head(s) = s[1] /\ \A i \in 1 .. Len(s) - 1 : Tail(s)[i] = s[i + 1]
<1>1. PICK S : s \in Seq(S)
  BY DEF IsSeq
<1>2. Tail(s) \in Seq(S)
  BY <1>1
<1> QED BY <1>1, <1>2 DEF IsSeq

\* The elements of a sequence.
LEMMA SeqElements ==
    ASSUME NEW S, NEW s \in Seq(S)
    PROVE  \A i \in DOMAIN s : s[i] \in S
OBVIOUS

\* A sequence over a set is one over a larger set.
LEMMA SeqWider ==
    ASSUME NEW S, NEW T, S \subseteq T, NEW s \in Seq(S)
    PROVE  s \in Seq(T)
OBVIOUS

\* The command at the head of the script, its inputs and their source.
LEMMA HeadCommand ==
    ASSUME Recorded, Pending, script # <<>>, code = 0
    PROVE  LET cmd == Head(script)
           IN  /\ IsCommand(cmd, Len(ran)) /\ cmd.in \in Seq(1 .. Len(ran)) /\ Len(ran) \in Nat
               /\ cmd.in # <<>> => cmd.in[1] \in 1 .. Len(ran) /\ 1 \in DOMAIN cmd.in
<1> DEFINE cmd == Head(script)
<1>1. Len(ran) \in Nat
  BY AppendIs DEF Recorded
<1>2. IsCommand(script[1], (Len(ran) + 1) - 1) /\ cmd = script[1]
  BY TailIs DEF Pending
<1>3. IsCommand(cmd, Len(ran))
  <2>1. (Len(ran) + 1) - 1 = Len(ran)
    BY <1>1
  <2> QED BY <1>2, <2>1
<1>4. cmd.in \in Seq(1 .. Len(ran))
  BY <1>3 DEF IsCommand
<1> HIDE DEF cmd
<1>5. cmd.in # <<>> => cmd.in[1] \in 1 .. Len(ran) /\ 1 \in DOMAIN cmd.in
  BY <1>4
<1> QED BY <1>1, <1>3, <1>4, <1>5 DEF cmd

\* Inputs do not change with what is written later.
LEMMA InputsStay ==
    ASSUME NEW docs, IsSeq(docs), NEW x, NEW cmd, cmd.in \in Seq(1 .. Len(docs))
    PROVE  Taken(cmd, Append(docs, x)) = Taken(cmd, docs)
<1>1. \A i \in DOMAIN cmd.in : cmd.in[i] \in 1 .. Len(docs)
  BY SeqElements
<1>2. \A j \in 1 .. Len(docs) : Append(docs, x)[j] = docs[j]
  BY AppendIs
<1> QED BY <1>1, <1>2 DEF Taken

\* A command ends: its result is recorded, or it is the one that failed.
LEMMA EndsStep ==
    ASSUME ToolsInv, script # <<>>, code = 0, snd = Off, snd' = snd,
           NEW result, Ends(Head(script), result),
           Made(Head(script), SourceOf(Head(script)), result),
           ReadBack(Head(script), Inputs(Head(script)), result)
    PROVE  ToolsInv'
<1> DEFINE cmd == Head(script)
           n == Len(ran)
<1>1. Recorded /\ Pending /\ Sourced /\ Understood
  BY DEF ToolsInv
<1>2. /\ IsCommand(cmd, n) /\ cmd.in \in Seq(1 .. n) /\ n \in Nat
      /\ cmd.in # <<>> => cmd.in[1] \in 1 .. n
  BY <1>1, HeadCommand
<1>3. /\ IsSeq(ran) /\ IsSeq(outs) /\ IsSeq(origin) /\ Len(outs) = n /\ Len(origin) = n
      /\ \A i \in 1 .. n : IsCommand(ran[i], i - 1) /\ origin[i] \in 1 .. n
  BY <1>1 DEF Recorded
<1>4. /\ code' = result.code /\ script' = Tail(script)
  BY DEF Ends
<1>5. /\ IsSeq(script') /\ Len(script) \in Nat \ {0} /\ Len(script') = Len(script) - 1
      /\ \A p \in 1 .. Len(script) - 1 : script'[p] = script[p + 1]
  BY <1>1, <1>4, TailIs DEF Pending
<1>6. CASE result.code # 0
  <2>1. failed' = cmd /\ UNCHANGED <<ran, outs, origin>>
    BY <1>6 DEF Ends
  <2>2. Recorded' /\ Sourced'
    BY <1>1, <2>1 DEF Recorded, Sourced
  <2>3. Pending'
    BY <1>4, <1>5, <1>6 DEF Pending
  <2>4. ~Understands(cmd, Taken(cmd, outs))
    BY <1>6 DEF ReadBack, Inputs, Taken
  <2>5. Understood'
    BY <1>1, <1>2, <2>1, <2>4 DEF Understood
  <2> QED BY <2>2, <2>3, <2>5 DEF ToolsInv
<1>7. CASE result.code = 0
  <2> DEFINE from == IF cmd.in = <<>> THEN n + 1 ELSE origin[cmd.in[1]]
  <2>1. /\ ran' = Append(ran, cmd) /\ outs' = Append(outs, result.value)
        /\ origin' = Append(origin, from) /\ failed' = failed
    BY <1>7 DEF Ends
  <2>2. /\ IsSeq(ran') /\ Len(ran') = n + 1 /\ ran'[n + 1] = cmd
        /\ \A i \in 1 .. n : ran'[i] = ran[i]
    BY <1>3, <2>1, AppendIs
  <2>3. /\ IsSeq(outs') /\ Len(outs') = n + 1 /\ outs'[n + 1] = result.value
        /\ \A i \in 1 .. n : outs'[i] = outs[i]
    BY <1>3, <2>1, AppendIs
  <2>4. /\ IsSeq(origin') /\ Len(origin') = n + 1 /\ origin'[n + 1] = from
        /\ \A i \in 1 .. n : origin'[i] = origin[i]
    BY <1>3, <2>1, AppendIs
  <2>5. from \in 1 .. n + 1 /\ ran'[from] = SourceOf(cmd)
    <3>1. CASE cmd.in = <<>>
      BY <1>2, <2>2, <3>1 DEF SourceOf
    <3>2. CASE cmd.in # <<>>
      <4>1. origin[cmd.in[1]] \in 1 .. n
        BY <1>2, <1>3, <3>2
      <4> QED BY <1>2, <2>2, <3>2, <4>1 DEF SourceOf
    <3> QED BY <3>1, <3>2
  <2> HIDE DEF n, from, cmd
  <2>6. \A i \in 1 .. n + 1 : i \in 1 .. n \/ i = n + 1
    BY <1>2
  <2>7. \A i \in 1 .. n : origin'[i] \in 1 .. n /\ ran'[origin'[i]] = ran[origin[i]]
    BY <1>3, <2>2, <2>4
  <2>8. Recorded'
    <3>1. ASSUME NEW i \in 1 .. n + 1 PROVE IsCommand(ran'[i], i - 1) /\ origin'[i] \in 1 .. n + 1
      <4>1. CASE i \in 1 .. n
        <5>1. ran'[i] = ran[i] /\ origin'[i] = origin[i]
          BY <2>2, <2>4, <4>1
        <5>2. IsCommand(ran[i], i - 1) /\ origin[i] \in 1 .. n
          BY <1>3, <4>1
        <5>3. origin[i] \in 1 .. n + 1
          BY <1>2, <5>2
        <5> QED BY <5>1, <5>2, <5>3
      <4>2. CASE i = n + 1
        <5>1. (n + 1) - 1 = n
          BY <1>2
        <5> QED BY <1>2, <2>2, <2>4, <2>5, <4>2, <5>1
      <4> QED BY <2>6, <3>1, <4>1, <4>2
    <3>2. ASSUME NEW i \in 1 .. n + 1 PROVE IsCommand(ran[i], i - 1)'
      <4>1. IsCommand(ran'[i], i - 1)
        BY <3>1, <3>2
      <4> QED BY <4>1 DEF IsCommand, IsItem
    <3> QED BY <2>2, <2>3, <2>4, <3>1, <3>2 DEF Recorded
  <2>9. Pending'
    <3>1. ASSUME NEW p \in 1 .. Len(script')
          PROVE  IsCommand(script'[p], (Len(ran') + p) - 1)
      <4>1. /\ p + 1 \in 1 .. Len(script) /\ (n + (p + 1)) - 1 = (Len(ran') + p) - 1
            /\ script'[p] = script[p + 1]
        BY <1>2, <1>5, <2>2, <3>1
      <4>2. IsCommand(script[p + 1], (n + (p + 1)) - 1)
        BY <1>1, <4>1 DEF Pending, n
      <4> QED BY <4>1, <4>2
    <3>2. ASSUME NEW p \in 1 .. Len(script')
          PROVE  IsCommand(script[p], (Len(ran) + p) - 1)'
      <4>1. IsCommand(script'[p], (Len(ran') + p) - 1)
        BY <3>1, <3>2
      <4> QED BY <4>1 DEF IsCommand, IsItem
    <3> QED BY <1>5, <3>2 DEF Pending
  <2>10. Document(result.value, SourceOf(cmd))
         /\ (cmd.tool \in {"message", "read"} /\ cmd.output = "text" =>
                Shows(cmd, result.value.wire, SourceOf(cmd)))
    BY <1>7 DEF Made, cmd
  <2>11. Sourced'
    <3>1. ASSUME NEW i \in 1 .. n + 1
          PROVE  /\ Document(outs'[i], ran'[origin'[i]])
                 /\ ran'[i].tool \in {"message", "read"} /\ ran'[i].output = "text" =>
                       Shows(ran'[i], outs'[i].wire, ran'[origin'[i]])
      <4>1. CASE i \in 1 .. n
        <5>1. /\ Document(outs[i], ran[origin[i]])
              /\ ran[i].tool \in {"message", "read"} /\ ran[i].output = "text" =>
                    Shows(ran[i], outs[i].wire, ran[origin[i]])
          BY <1>1, <4>1 DEF Sourced, n
        <5> QED BY <2>2, <2>3, <2>7, <4>1, <5>1
      <4>2. CASE i = n + 1
        BY <2>2, <2>3, <2>4, <2>5, <2>10, <4>2
      <4> QED BY <2>6, <3>1, <4>1, <4>2
    <3> QED BY <2>2, <3>1 DEF Sourced
  <2>12. \A i \in 1 .. n : ran[i].in \in Seq(1 .. n)
    <3> SUFFICES ASSUME NEW i \in 1 .. n PROVE ran[i].in \in Seq(1 .. n)
      OBVIOUS
    <3>1. ran[i].in \in Seq(1 .. i - 1)
      BY <1>3 DEF IsCommand
    <3>2. 1 .. i - 1 \subseteq 1 .. n
      BY <1>2
    <3> QED BY <3>1, <3>2, SeqWider
  <2>13. ASSUME NEW v, v.in \in Seq(1 .. n) PROVE Taken(v, outs') = Taken(v, outs)
    BY <1>3, <2>1, <2>13, InputsStay
  <2>14. Understood'
    <3>1. ASSUME NEW i \in 1 .. n + 1, Understands(ran'[i], Taken(ran'[i], outs'))
          PROVE  Envelopes(outs'[i].wire) = Given(ran'[i], Taken(ran'[i], outs'))
      <4>1. CASE i \in 1 .. n
        <5>1. ran'[i] = ran[i] /\ outs'[i] = outs[i]
          BY <2>2, <2>3, <4>1
        <5>2. Taken(ran'[i], outs') = Taken(ran[i], outs)
          BY <2>12, <2>13, <4>1, <5>1
        <5>3. Understands(ran[i], Taken(ran[i], outs)) =>
                 Envelopes(outs[i].wire) = Given(ran[i], Taken(ran[i], outs))
          BY <1>1, <4>1 DEF Understood, n
        <5> QED BY <3>1, <5>1, <5>2, <5>3
      <4>2. CASE i = n + 1
        <5>1. ran'[i] = cmd /\ outs'[i] = result.value /\ Taken(cmd, outs') = Taken(cmd, outs)
          BY <1>2, <2>2, <2>3, <2>13, <4>2
        <5>2. Inputs(cmd) = Taken(cmd, outs)
          BY DEF Inputs, Taken
        <5>3. Understands(cmd, Taken(cmd, outs)) =>
                 Envelopes(result.value.wire) = Given(cmd, Taken(cmd, outs))
          BY <5>2 DEF ReadBack, cmd
        <5> QED BY <3>1, <5>1, <5>3
      <4> QED BY <2>6, <3>1, <4>1, <4>2
    <3>2. failed' # None =>
             failed'.in \in Seq(1 .. n + 1) /\ ~Understands(failed', Taken(failed', outs'))
      <4> SUFFICES ASSUME failed # None
                   PROVE  failed.in \in Seq(1 .. n + 1) /\ ~Understands(failed, Taken(failed, outs'))
        BY <2>1
      <4>1. failed.in \in Seq(1 .. n) /\ ~Understands(failed, Taken(failed, outs))
        BY <1>1 DEF Understood, n
      <4>2. 1 .. n \subseteq 1 .. n + 1
        BY <1>2
      <4>3. failed.in \in Seq(1 .. n + 1)
        BY <4>1, <4>2, SeqWider
      <4>4. Taken(failed, outs') = Taken(failed, outs)
        BY <2>13, <4>1
      <4> QED BY <4>1, <4>3, <4>4
    <3> QED BY <2>2, <3>1, <3>2 DEF Understood
  <2> QED BY <2>8, <2>9, <2>11, <2>14 DEF ToolsInv
<1> QED BY <1>6, <1>7

\* The inputs of the command at the head: documents, the first of which goes
\* back to its source.
LEMMA HeadInputs ==
    ASSUME Recorded, Pending, Sourced, script # <<>>, code = 0
    PROVE  LET cmd == Head(script)
               docs == Inputs(cmd)
           IN  /\ docs = [i \in DOMAIN docs |-> docs[i]] /\ DOMAIN docs = DOMAIN cmd.in
               /\ DOMAIN docs \subseteq Nat
               /\ \A i \in DOMAIN docs : docs[i].format \in ReprFormat
               /\ 1 \in DOMAIN docs => Document(docs[1], SourceOf(cmd))
<1> DEFINE cmd == Head(script)
           docs == Inputs(cmd)
<1>1. cmd.in \in Seq(1 .. Len(ran))
  BY HeadCommand
<1>2. DOMAIN docs = DOMAIN cmd.in /\ \A i \in DOMAIN docs : docs[i] = outs[cmd.in[i]]
  BY DEF Inputs
<1>3. docs = [i \in DOMAIN docs |-> docs[i]]
  BY DEF Inputs
<1> HIDE DEF cmd
<1>4. \A i \in DOMAIN cmd.in : cmd.in[i] \in 1 .. Len(ran)
  BY <1>1, SeqElements
<1>5. DOMAIN cmd.in \subseteq Nat /\ (1 \in DOMAIN cmd.in => cmd.in # <<>>)
  BY <1>1
<1> HIDE DEF docs
<1>6. \A i \in DOMAIN docs : docs[i].format \in ReprFormat
  BY <1>2, <1>4 DEF Sourced, Document
<1>7. 1 \in DOMAIN docs => Document(docs[1], SourceOf(cmd))
  BY <1>2, <1>4, <1>5 DEF Sourced, SourceOf
<1> QED BY <1>2, <1>3, <1>5, <1>6, <1>7 DEF docs, cmd

\* Commands that are given neither envelopes nor batches.
LEMMA NotUnderstood ==
    ASSUME NEW cmd, NEW docs, NEW result, cmd.tool \notin {"envelope", "batch"}
    PROVE  ReadBack(cmd, docs, result)
BY DEF ReadBack, Understands

\* The step of `edge message' with measurements.
LEMMA RunMessageStep ==
    ASSUME ToolsInv, snd = Off, RunMessage
    PROVE  ToolsInv'
<1> DEFINE cmd == Head(script)
<1>1. /\ script # <<>> /\ code = 0 /\ cmd.tool = "message" /\ snd' = snd
      /\ Ends(cmd, EncodeMessage(cmd))
  BY DEF RunMessage, Turn
<1>2. IsCommand(cmd, Len(ran))
  BY <1>1, HeadCommand DEF ToolsInv
<1>3. SourceOf(cmd) = cmd /\ cmd.output \in ReprFormat
  BY <1>1, <1>2 DEF SourceOf, IsCommand
<1>4. Made(cmd, cmd, EncodeMessage(cmd))
  BY <1>1, <1>3, EncodeMade
<1>5. ReadBack(cmd, Inputs(cmd), EncodeMessage(cmd))
  BY <1>1, NotUnderstood
<1> QED BY <1>1, <1>3, <1>4, <1>5, EndsStep

\* The step of `edge message' with data.
LEMMA RunReadStep ==
    ASSUME ToolsInv, snd = Off, RunRead
    PROVE  ToolsInv'
<1> DEFINE cmd == Head(script)
           doc == Inputs(cmd)[1]
<1>1. /\ script # <<>> /\ code = 0 /\ cmd.tool = "read" /\ snd' = snd
      /\ Ends(cmd, ReadMessage(cmd, Copied(doc)))
  BY DEF RunRead, Turn
<1>2. IsCommand(cmd, Len(ran))
  BY <1>1, HeadCommand DEF ToolsInv
<1>3. DOMAIN cmd.in = {1} /\ cmd.output \in ReprFormat /\ cmd.input \in ReprFormat \cup {None}
  BY <1>1, <1>2 DEF IsCommand
<1>4. Document(doc, SourceOf(cmd))
  BY <1>1, <1>3, HeadInputs DEF ToolsInv
<1>5. Made(cmd, SourceOf(cmd), ReadMessage(cmd, Copied(doc)))
  BY <1>3, <1>4, CopiedDocument, ReadMade
<1>6. ReadBack(cmd, Inputs(cmd), ReadMessage(cmd, Copied(doc)))
  BY <1>1, NotUnderstood
<1> QED BY <1>1, <1>5, <1>6, EndsStep

\* The step of `edge envelope'.
LEMMA RunEnvelopeStep ==
    ASSUME WireLengths, ToolsInv, snd = Off, RunEnvelope
    PROVE  ToolsInv'
<1> DEFINE cmd == Head(script)
           docs == Inputs(cmd)
<1>1. /\ script # <<>> /\ code = 0 /\ cmd.tool = "envelope" /\ snd' = snd
      /\ Ends(cmd, EdgeEnvelope(cmd, docs[1]))
  BY DEF RunEnvelope, Turn
<1>2. IsCommand(cmd, Len(ran))
  BY <1>1, HeadCommand DEF ToolsInv
<1>3. DOMAIN cmd.in = {1} /\ cmd.output \in ReprFormat /\ cmd.input \in ReprFormat \cup {None}
  BY <1>1, <1>2 DEF IsCommand
<1>4. DOMAIN docs = {1} /\ docs[1].format \in ReprFormat /\ Document(docs[1], SourceOf(cmd))
  BY <1>1, <1>3, HeadInputs DEF ToolsInv
<1>5. Made(cmd, SourceOf(cmd), EdgeEnvelope(cmd, docs[1]))
  BY <1>1, <1>3, <1>4, EnvelopeMade
<1>6. ReadBack(cmd, docs, EdgeEnvelope(cmd, docs[1]))
  BY <1>1, <1>4, EnvelopeReadBack
<1> QED BY <1>1, <1>5, <1>6, EndsStep

\* The step of `edge batch'.
LEMMA RunBatchStep ==
    ASSUME WireLengths, ToolsInv, snd = Off, RunBatch
    PROVE  ToolsInv'
<1> DEFINE cmd == Head(script)
           docs == Inputs(cmd)
<1>1. /\ script # <<>> /\ code = 0 /\ cmd.tool = "batch" /\ snd' = snd
      /\ Ends(cmd, EdgeBatch(cmd, docs))
  BY DEF RunBatch, Turn
<1>2. IsCommand(cmd, Len(ran))
  BY <1>1, HeadCommand DEF ToolsInv
<1>3. /\ cmd.output \in ReprFormat /\ cmd.input \in ReprFormat \cup {None}
      /\ ~cmd.pack => DOMAIN cmd.in = {1}
  BY <1>1, <1>2 DEF IsCommand
<1>4. /\ docs = [i \in DOMAIN docs |-> docs[i]] /\ DOMAIN docs = DOMAIN cmd.in
      /\ DOMAIN docs \subseteq Nat /\ \A i \in DOMAIN docs : docs[i].format \in ReprFormat
      /\ 1 \in DOMAIN docs => Document(docs[1], SourceOf(cmd))
  BY <1>1, HeadInputs DEF ToolsInv
<1>5. ~cmd.pack => DOMAIN docs = {1} /\ Document(docs[1], SourceOf(cmd))
  <2> HIDE DEF docs
  <2> QED BY <1>3, <1>4
<1>6. Made(cmd, SourceOf(cmd), EdgeBatch(cmd, docs))
  <2> HIDE DEF docs
  <2> QED BY <1>1, <1>3, <1>4, <1>5, BatchMade
<1>7. ReadBack(cmd, docs, EdgeBatch(cmd, docs))
  <2> HIDE DEF docs
  <2> QED BY <1>1, <1>4, <1>5, PackReadBack, UnpackReadBack
<1> QED BY <1>1, <1>6, <1>7, EndsStep

\* The step of `edge key'.
LEMMA RunKeyStep ==
    ASSUME ToolsInv, snd = Off, RunKey
    PROVE  ToolsInv'
<1> DEFINE cmd == Head(script)
<1>1. /\ script # <<>> /\ code = 0 /\ cmd.tool = "key" /\ snd' = snd
      /\ Ends(cmd, EdgeKey(cmd.uri))
  BY DEF RunKey, Turn
<1>2. Made(cmd, SourceOf(cmd), EdgeKey(cmd.uri))
  BY <1>1, KeyMade
<1>3. ReadBack(cmd, Inputs(cmd), EdgeKey(cmd.uri))
  BY <1>1, NotUnderstood
<1> QED BY <1>1, <1>2, <1>3, EndsStep

\* The invariant looks at nothing but the tools, and at whether a delivery has
\* begun.
LEMMA ToolsAlone ==
    ASSUME ToolsInv, UNCHANGED <<script, ran, outs, origin, failed>>, snd # Off \/ code = 0
    PROVE  ToolsInv'
<1>1. Recorded' /\ Sourced' /\ Understood'
  BY DEF ToolsInv, Recorded, Sourced, Understood
<1>2. Pending'
  BY DEF ToolsInv, Pending
<1> QED BY <1>1, <1>2 DEF ToolsInv

\* `edge sensor meshtastic' fails on its arguments, or records nothing yet.
LEMMA StartStep ==
    ASSUME ToolsInv, snd = Off, StartSensor
    PROVE  ToolsInv'
<1> DEFINE cmd == Head(script)
           doc == Inputs(cmd)[1]
           e == SensorError(cmd, doc)
<1>1. script # <<>> /\ code = 0 /\ cmd.tool = "sensor"
  BY DEF StartSensor, Turn
<1>2. CASE e # 0
  <2>1. Ends(cmd, Error(e)) /\ snd' = snd
    BY <1>2 DEF StartSensor
  <2>2. Made(cmd, SourceOf(cmd), Error(e))
    <3> HIDE DEF e
    <3> QED BY <1>2 DEF Made, Error
  <2>3. ReadBack(cmd, Inputs(cmd), Error(e))
    BY <1>1, NotUnderstood
  <2> QED BY <1>1, <2>1, <2>2, <2>3, EndsStep
<1>3. CASE e = 0
  <2>1. UNCHANGED tools
    BY <1>3 DEF StartSensor
  <2> QED BY <1>1, <2>1, ToolsAlone DEF tools
<1> QED BY <1>2, <1>3

\* While a delivery is under way nothing else is run.
LEMMA UnderwayTools ==
    ASSUME NEW n, Underway(n), Next
    PROVE  UNCHANGED <<script, ran, outs, origin, failed>> /\ snd # Off
<1>1. SensorError(Head(script), Inputs(Head(script))[1]) = 0 /\ snd.tries # 0
  BY DEF Underway, Prepared, OnTrack
<1>2. snd # Off
  BY <1>1 DEF Off
<1>3. ~RunMessage /\ ~RunRead /\ ~RunEnvelope /\ ~RunBatch /\ ~RunKey
  BY OnlyTheSender
<1>4. CASE StartSensor
  BY <1>1, <1>2, <1>4 DEF StartSensor, tools
<1>5. CASE WaitForReady \/ SendFragment \/ WaitForAck \/ AckTimesOut \/ RunAgain
  BY <1>2, <1>5 DEF WaitForReady, SendFragment, WaitForAck, AckTimesOut, RunAgain, SensorEnds, tools
<1>6. CASE \/ MeshDelivers \/ MeshGivesUp \/ HearSingle \/ HearPart \/ HearLast \/ GatewaySweeps
  BY <1>2, <1>6 DEF MeshDelivers, MeshGivesUp, HearSingle, HearPart, HearLast, GatewaySweeps, tools
<1> QED BY <1>3, <1>4, <1>5, <1>6 DEF Next

\* Every step keeps the invariant of a script.
LEMMA ToolsStep ==
    ASSUME WireLengths, DeliveryInv, ToolsInv, [Next]_<<tools, snd, mesh, gateway>>
    PROVE  ToolsInv'
<1>1. CASE Next /\ snd = Off /\ Quiet
  <2>1. /\ ~WaitForReady /\ ~SendFragment /\ ~WaitForAck /\ ~AckTimesOut /\ ~RunAgain
        /\ ~MeshDelivers /\ ~MeshGivesUp /\ ~HearSingle /\ ~HearPart /\ ~HearLast /\ ~GatewaySweeps
    BY <1>1 DEF Quiet, Off, WaitForReady, SendFragment, WaitForAck, AckTimesOut, RunAgain,
                MeshDelivers, MeshGivesUp, HearSingle, HearPart, HearLast, GatewaySweeps
  <2> QED BY <1>1, <2>1, RunMessageStep, RunReadStep, RunEnvelopeStep, RunBatchStep, RunKeyStep,
             StartStep DEF Next
<1>2. CASE Next /\ \E n \in Nat : Underway(n)
  BY <1>2, UnderwayTools, ToolsAlone
<1>3. CASE UNCHANGED <<tools, snd, mesh, gateway>>
  <2>1. UNCHANGED <<script, ran, outs, origin, failed, code, snd>>
    BY <1>3 DEF tools
  <2>2. Recorded' /\ Sourced' /\ Understood'
    BY <2>1 DEF ToolsInv, Recorded, Sourced, Understood
  <2>3. Pending'
    BY <2>1 DEF ToolsInv, Pending
  <2> QED BY <2>2, <2>3 DEF ToolsInv
<1> QED BY <1>1, <1>2, <1>3 DEF DeliveryInv

\* Both invariants hold before the first command.
LEMMA ToolsInitially ==
    ASSUME Init
    PROVE  DeliveryInv /\ ToolsInv
<1>1. /\ snd = Off /\ Quiet
  BY DEF Init, Quiet, ReassemblyInit
<1>2. /\ script \in Script /\ ran = <<>> /\ outs = <<>> /\ origin = <<>> /\ failed = None
  BY DEF Init
<1>3. IsSeq(<<>>) /\ Len(<<>>) = 0
  <2>1. <<>> \in Seq({})
    OBVIOUS
  <2> QED BY <2>1 DEF IsSeq
<1>4. Recorded /\ Sourced /\ Understood
  BY <1>2, <1>3 DEF Recorded, Sourced, Understood
<1>5. /\ IsSeq(script)
      /\ \A p \in 1 .. Len(script) : IsCommand(script[p], p - 1)
  BY <1>2, ScriptConstants DEF IsSeq
<1>6. Pending
  <2>1. ASSUME NEW p \in 1 .. Len(script) PROVE (Len(ran) + p) - 1 = p - 1
    BY <1>2, <1>3
  <2> QED BY <1>5, <2>1 DEF Pending
<1> QED BY <1>1, <1>4, <1>6 DEF DeliveryInv, ToolsInv

\* What the invariant of a script says of what is read back.
LEMMA ToolsReadBack ==
    ASSUME ToolsInv
    PROVE  OutputReadsBack
<1>1. \A v : Inputs(v) = Taken(v, outs)
  BY DEF Inputs, Taken
<1>2. DOMAIN ran = 1 .. Len(ran)
  BY AppendIs DEF ToolsInv, Recorded
<1> QED BY <1>1, <1>2 DEF ToolsInv, Understood, OutputReadsBack

(***************************************************************************)
(* Both invariants of a script hold throughout.                            *)
(***************************************************************************)
THEOREM ScriptInvariant == ASSUME WireLengths PROVE Spec => [](DeliveryInv /\ ToolsInv)
<1>1. Init => DeliveryInv /\ ToolsInv
  BY ToolsInitially
<1>2. DeliveryInv /\ ToolsInv /\ [Next]_<<tools, snd, mesh, gateway>> => (DeliveryInv /\ ToolsInv)'
  BY DeliveryStep, ToolsStep
<1> QED BY <1>1, <1>2, PTL DEF Spec

(***************************************************************************)
(* Whatever the mesh loses, delays or repeats, and however often the       *)
(* operator runs the command again, a delivery that `edge sensor           *)
(* meshtastic' reports is one that the gateway has whole, unless its       *)
(* limits or time-outs intervene, and it never has anything else           *)
(* (submit_fragments, wait_for_ack, encode_frames; Reassembler::accept).   *)
(***************************************************************************)
THEOREM ReportedIsReceived == ASSUME WireLengths PROVE Spec => []DeliveredMeansReceived
<1>1. DeliveryInv /\ ToolsInv => DeliveredMeansReceived
  BY Delivered
<1> QED BY <1>1, ScriptInvariant, PTL

(***************************************************************************)
(* For every script: what `edge envelope' and `edge batch' write is read   *)
(* back by the next command as the same envelopes, in every representation *)
(* and compressed or not, sniffed or told (sniff_byte_format,              *)
(* wire_from_input, pack, decode).                                         *)
(***************************************************************************)
THEOREM EnvelopesReadBack == ASSUME WireLengths PROVE Spec => []OutputReadsBack
<1>1. DeliveryInv /\ ToolsInv => OutputReadsBack
  BY ToolsReadBack
<1> QED BY <1>1, ScriptInvariant, PTL
-----------------------------------------------------------------------------
(***************************************************************************)
(* Readings.                                                               *)
(***************************************************************************)
\* A multiple of u, with a factor from low to high, that no other such multiple
\* is nearer to x than, or as near and farther from zero.
IsNearest(v, x, u, low, high) ==
    \A s \in low .. high :
        \/ Abs(x - v) < Abs(x - s * u)
        \/ Abs(x - v) = Abs(x - s * u) /\ Abs(v) >= Abs(s * u)

\* A unit and the range of its field.
IsField(u, low, high) ==
    u \in {10, 100, 1000} /\ low \in Int /\ high \in Int /\ low <= 0 /\ high >= 0

\* The multiples in the range.
Multiples(u, low, high) == {t * u : t \in low .. high}

\* There are not two of them.
LEMMA NearestUnique ==
    ASSUME NEW u, NEW low, NEW high, IsField(u, low, high), NEW x \in Int,
           NEW v \in Multiples(u, low, high), NEW w \in Multiples(u, low, high),
           IsNearest(v, x, u, low, high), IsNearest(w, x, u, low, high)
    PROVE  v = w
<1>0. PICK s \in low .. high, t \in low .. high : v = s * u /\ w = t * u
  BY DEF Multiples
<1>1. v \in Int /\ w \in Int /\ 0 * u = 0 /\ 0 \in low .. high
  BY <1>0 DEF IsField
<1>2. /\ Abs(x - v) < Abs(x - w) \/ (Abs(x - v) = Abs(x - w) /\ Abs(v) >= Abs(w))
      /\ Abs(x - w) < Abs(x - v) \/ (Abs(x - w) = Abs(x - v) /\ Abs(w) >= Abs(v))
      /\ Abs(x - v) < Abs(x - 0) \/ (Abs(x - v) = Abs(x - 0) /\ Abs(v) >= Abs(0))
  <2>1. ASSUME NEW y \in low .. high
        PROVE  /\ Abs(x - v) < Abs(x - y * u) \/ (Abs(x - v) = Abs(x - y * u) /\ Abs(v) >= Abs(y * u))
               /\ Abs(x - w) < Abs(x - y * u) \/ (Abs(x - w) = Abs(x - y * u) /\ Abs(w) >= Abs(y * u))
    BY <1>0 DEF IsNearest
  <2>2. Abs(x - v) < Abs(x - 0 * u) \/ (Abs(x - v) = Abs(x - 0 * u) /\ Abs(v) >= Abs(0 * u))
    BY <1>1, <2>1
  <2> QED BY <1>0, <1>1, <2>1, <2>2
<1> QED BY <1>1, <1>2 DEF Abs

\* Rounding and clamping finds it, for each of the three units.
LEMMA RoundedNearest ==
    ASSUME NEW u, NEW low, NEW high, IsField(u, low, high), NEW x \in Int
    PROVE  /\ Clamped(Rounded(x, u), low, high) * u \in Multiples(u, low, high)
           /\ IsNearest(Clamped(Rounded(x, u), low, high) * u, x, u, low, high)
<1>0. low \in Int /\ high \in Int /\ low <= 0 /\ high >= 0
  BY DEF IsField
<1> DEFINE q == Rounded(x, u)
           s == Clamped(q, low, high)
<1>1. CASE u = 10
  <2>1. /\ q \in Int
        /\ x >= 0 => 20 * q <= 2 * x + 10 /\ 2 * x + 10 < 20 * q + 20
        /\ x < 0 => 20 * q >= 2 * x - 10 /\ 2 * x - 10 > 20 * q - 20
    BY <1>1 DEF Rounded
  <2> HIDE DEF q
  <2>2. s \in low .. high
    BY <1>0, <2>1 DEF Clamped
  <2>3. ASSUME NEW t \in low .. high
        PROVE  \/ Abs(x - s * 10) < Abs(x - t * 10)
               \/ Abs(x - s * 10) = Abs(x - t * 10) /\ Abs(s * 10) >= Abs(t * 10)
    BY <1>0, <2>1 DEF Clamped, Abs
  <2> QED BY <1>1, <2>2, <2>3 DEF IsNearest, Multiples, q
<1>2. CASE u = 100
  <2>1. /\ q \in Int
        /\ x >= 0 => 200 * q <= 2 * x + 100 /\ 2 * x + 100 < 200 * q + 200
        /\ x < 0 => 200 * q >= 2 * x - 100 /\ 2 * x - 100 > 200 * q - 200
    BY <1>2 DEF Rounded
  <2> HIDE DEF q
  <2>2. s \in low .. high
    BY <1>0, <2>1 DEF Clamped
  <2>3. ASSUME NEW t \in low .. high
        PROVE  \/ Abs(x - s * 100) < Abs(x - t * 100)
               \/ Abs(x - s * 100) = Abs(x - t * 100) /\ Abs(s * 100) >= Abs(t * 100)
    BY <1>0, <2>1 DEF Clamped, Abs
  <2> QED BY <1>2, <2>2, <2>3 DEF IsNearest, Multiples, q
<1>3. CASE u = 1000
  <2>1. /\ q \in Int
        /\ x >= 0 => 2000 * q <= 2 * x + 1000 /\ 2 * x + 1000 < 2000 * q + 2000
        /\ x < 0 => 2000 * q >= 2 * x - 1000 /\ 2 * x - 1000 > 2000 * q - 2000
    BY <1>3 DEF Rounded
  <2> HIDE DEF q
  <2>2. s \in low .. high
    BY <1>0, <2>1 DEF Clamped
  <2>3. ASSUME NEW t \in low .. high
        PROVE  \/ Abs(x - s * 1000) < Abs(x - t * 1000)
               \/ Abs(x - s * 1000) = Abs(x - t * 1000) /\ Abs(s * 1000) >= Abs(t * 1000)
    BY <1>0, <2>1 DEF Clamped, Abs
  <2> QED BY <1>3, <2>2, <2>3 DEF IsNearest, Multiples, q
<1> QED BY <1>1, <1>2, <1>3 DEF IsField

\* So it is the one that is chosen.
LEMMA ChosenNearest ==
    ASSUME NEW u, NEW low, NEW high, IsField(u, low, high), NEW x \in Int
    PROVE  (CHOOSE v \in Multiples(u, low, high) : IsNearest(v, x, u, low, high))
           = Clamped(Rounded(x, u), low, high) * u
<1> DEFINE s == Clamped(Rounded(x, u), low, high) * u
           c == CHOOSE v \in Multiples(u, low, high) : IsNearest(v, x, u, low, high)
<1>1. s \in Multiples(u, low, high) /\ IsNearest(s, x, u, low, high)
  BY RoundedNearest, Zenon
<1>2. c \in Multiples(u, low, high) /\ IsNearest(c, x, u, low, high)
  BY <1>1, Zenon
<1> HIDE DEF s, c
<1>3. c = s
  BY <1>1, <1>2, NearestUnique, Zenon
<1> QED BY <1>3 DEF s, c

\* What is stored is the nearest value that the field can hold.
LEMMA StoredNearest ==
    ASSUME NEW name \in DOMAIN Unit, NEW x \in Int
    PROVE  Stored(name, x) * Unit[name] = Nearest(name, x)
<1> DEFINE u == Unit[name]
           low == IF name = "temperature" THEN -MaxI32 - 1 ELSE 0
           high == IF name = "temperature" THEN MaxI32 ELSE MaxU32
           steps == IF name = "temperature" THEN -MaxI32 - 1 .. MaxI32 ELSE 0 .. MaxU32
<1>1. u \in {10, 100, 1000}
  BY DEF Unit
<1>2. IsField(u, low, high) /\ steps = low .. high
  BY <1>1, FieldConstants DEF IsField
<1>3. Stored(name, x) = Clamped(Rounded(x, u), low, high)
  BY DEF Stored
<1>4. Nearest(name, x) = CHOOSE v \in Multiples(u, low, high) : IsNearest(v, x, u, low, high)
  <2>1. Nearest(name, x) = CHOOSE v \in {t * u : t \in steps} : \A t \in steps :
                              \/ Abs(x - v) < Abs(x - t * u)
                              \/ Abs(x - v) = Abs(x - t * u) /\ Abs(v) >= Abs(t * u)
    BY DEF Nearest
  <2> HIDE DEF u, low, high, steps
  <2> QED BY <1>2, <2>1 DEF IsNearest, Multiples
<1> HIDE DEF u, low, high, steps
<1>5. Nearest(name, x) = Clamped(Rounded(x, u), low, high) * u
  BY <1>2, <1>4, ChosenNearest, Zenon
<1> QED BY <1>3, <1>5 DEF u

\* The kinds of a board and what they measure.
LEMMA SensorNames ==
    ASSUME NEW board \in DOMAIN SensorsOf, NEW s \in SensorsOf[board], NEW m \in Measurements[s]
    PROVE  s # "gps" /\ m # "gps" /\ m \in DOMAIN Unit
<1>1. s \in {"bme280", "bme680", "scd41", "sds011", "ics43434"}
  BY DEF SensorsOf
<1> QED BY <1>1 DEF Measurements, Unit

\* An argument that parses is shown as what it says.
LEMMA ItemSays ==
    ASSUME NEW board \in DOMAIN SensorsOf, NEW item, IsItem(item), ParseItem(board, item).code = 0
    PROVE  LET shown == Shown(ParseItem(board, item).value)
           IN  item # Malformed /\ <<shown.name, shown.values>> = Said(item)
<1> DEFINE r == ParseItem(board, item)
           name == CanonicalMeasurement(item.name)
           fits == Candidates(board, item)
<1>1. item # Malformed
  BY DEF ParseItem, Error
<1>2. item.values \in Seq(Int)
  BY <1>1 DEF IsItem
<1>3. CASE item.name = "gps" /\ item.sensor = None
  <2> DEFINE values == IF Len(item.values) = 3 THEN item.values ELSE Append(item.values, 0)
             v == [sensor |-> "gps", name |-> "gps", values |-> values]
  <2>1. r = IF Len(item.values) \notin {2, 3} THEN Error(2) ELSE Ok(v)
    BY <1>1, <1>3 DEF ParseItem
  <2>2. r.value = v
    BY <2>1 DEF Ok, Error
  <2>3. Shown(v) = v
    BY DEF Shown
  <2>4. Said(item) = <<"gps", values>>
    BY <1>3 DEF Said
  <2> HIDE DEF values
  <2>5. v.name = "gps" /\ v.values = values
    OBVIOUS
  <2> QED BY <1>1, <2>2, <2>3, <2>4, <2>5
<1>4. CASE ~(item.name = "gps" /\ item.sensor = None)
  <2> DEFINE x == item.values[1]
             v == [sensor |-> CHOOSE s \in fits : TRUE, name |-> name, values |-> <<Stored(name, x)>>]
  <2>1. r = IF Len(item.values) # 1 \/ \A s \in fits : fits # {s} THEN Error(2) ELSE Ok(v)
    BY <1>1, <1>4 DEF ParseItem
  <2>2. Len(item.values) = 1 /\ r.value = v /\ \E s \in fits : fits = {s}
    <3> HIDE DEF fits, v
    <3> QED BY <2>1 DEF Error, Ok
  <2>3. x \in Int
    BY <1>2, <2>2
  <2>4. PICK s \in fits : fits = {s}
    BY <2>2
  <2>5. v.sensor = s /\ v.name = name /\ v.values = <<Stored(name, x)>> /\ DOMAIN v = {"sensor", "name", "values"}
    <3> HIDE DEF fits
    <3>1. (CHOOSE t \in fits : TRUE) = s
      BY <2>4
    <3> QED BY <3>1
  <2>6. s \in SensorsOf[board] /\ name \in Measurements[s]
    BY <2>4 DEF Candidates
  <2>7. s # "gps" /\ name # "gps" /\ name \in DOMAIN Unit
    BY <2>6, SensorNames
  <2>8. item.name # "gps"
    BY <2>7 DEF CanonicalMeasurement
  <2> HIDE DEF v, name, fits, x
  <2>9. Shown(v) = [v EXCEPT !.values = <<@[1] * Unit[name]>>]
    BY <2>5, <2>7 DEF Shown
  <2>10. Shown(v).name = name /\ Shown(v).values = <<Stored(name, x) * Unit[name]>>
    BY <2>5, <2>9
  <2>11. Said(item) = <<name, <<Nearest(name, x)>>>>
    BY <2>8 DEF Said, name, x
  <2>12. Stored(name, x) * Unit[name] = Nearest(name, x)
    BY <2>3, <2>7, StoredNearest
  <2> QED BY <1>1, <2>2, <2>10, <2>11, <2>12
<1> QED BY <1>3, <1>4

-----------------------------------------------------------------------------
(***************************************************************************)
(* Addressees.                                                             *)
(***************************************************************************)
\* The readings of these arguments.
Readings(board, argv, S) == [k \in S |-> ParseItem(board, argv[k]).value]

\* The entry of a group.
EntryOf(board, argv, suri, g) ==
    EncryptGroup(suri, argv[g].recipient, Readings(board, argv, GroupOf(argv, g)))

\* A message with every argument in it, the private ones in the entries of their
\* groups.
Holds(m, board, argv, suri) ==
    /\ \A k \in DOMAIN argv : ParseItem(board, argv[k]).code = 0
    /\ Private(argv) # {} => suri \in Secret
    /\ m.public = Readings(board, argv, DOMAIN argv \ Private(argv))
    /\ DOMAIN m.private = Groups(argv)
    /\ \A g \in Groups(argv) :
          /\ EntryOf(board, argv, suri, g).code = 0
          /\ m.private[g] = EntryOf(board, argv, suri, g).value

\* Such is every message that compact::parse makes.
LEMMA MessageHolds ==
    ASSUME NEW board, NEW argv, DOMAIN argv \subseteq Nat, NEW suri, NEW meta,
           Parse(board, argv, suri, meta).code = 0
    PROVE  Holds(Parse(board, argv, suri, meta).value, board, argv, suri)
<1> DEFINE items == [k \in DOMAIN argv |-> ParseItem(board, argv[k])]
           parsed == Collect(items)
           Pick(S) == [k \in S |-> parsed.value[k]]
           sealed == [g \in Groups(argv) |->
                         EncryptGroup(suri, argv[g].recipient, Pick(GroupOf(argv, g)))]
           entries == Collect(sealed)
           r == Parse(board, argv, suri, meta)
           m == [meta |-> meta, board |-> board, public |-> Pick(DOMAIN argv \ Private(argv)),
                 private |-> entries.value]
<1>1. r = IF argv = <<>> THEN Error(2)
          ELSE IF parsed.code # 0 THEN parsed
          ELSE IF Private(argv) # {} /\ suri \notin Secret THEN Error(2)
          ELSE IF entries.code # 0 THEN entries ELSE Ok(m)
  BY DEF Parse
<1>2. DOMAIN items = DOMAIN argv /\ DOMAIN sealed = Groups(argv)
  OBVIOUS
<1>3. /\ \A k \in DOMAIN argv : items[k] = ParseItem(board, argv[k])
      /\ \A g \in Groups(argv) :
            sealed[g] = EncryptGroup(suri, argv[g].recipient, Pick(GroupOf(argv, g)))
  OBVIOUS
<1>4. /\ m.public = Pick(DOMAIN argv \ Private(argv)) /\ m.private = entries.value
  OBVIOUS
<1> HIDE DEF items, m, sealed
<1>5. /\ parsed.code = 0 /\ entries.code = 0 /\ (Private(argv) # {} => suri \in Secret)
      /\ r.value = m
  <2> HIDE DEF parsed, entries, r
  <2>1. Error(2).code # 0 /\ Ok(m).value = m
    BY DEF Error, Ok
  <2>2. r.code = 0
    BY DEF r
  <2> QED BY <1>1, <2>1, <2>2
<1>6. /\ \A k \in DOMAIN argv : items[k].code = 0
      /\ parsed.value = [k \in DOMAIN argv |-> items[k].value]
  BY <1>2, <1>5, CollectFails
<1>7. ASSUME NEW S, S \subseteq DOMAIN argv
      PROVE  Pick(S) = Readings(board, argv, S)
  BY <1>3, <1>6, <1>7 DEF Readings
<1>8. Groups(argv) \subseteq DOMAIN argv /\ Private(argv) \subseteq DOMAIN argv
  BY DEF Groups, Private
<1>9. /\ \A g \in Groups(argv) : sealed[g].code = 0
      /\ entries.value = [g \in Groups(argv) |-> sealed[g].value]
  BY <1>2, <1>5, <1>8, CollectFails
<1>10. m.public = Readings(board, argv, DOMAIN argv \ Private(argv))
  BY <1>4, <1>7
<1>11. ASSUME NEW g \in Groups(argv)
       PROVE  sealed[g] = EntryOf(board, argv, suri, g)
  <2>1. GroupOf(argv, g) \subseteq DOMAIN argv
    BY DEF GroupOf
  <2>2. Pick(GroupOf(argv, g)) = Readings(board, argv, GroupOf(argv, g))
    BY <1>7, <2>1
  <2> HIDE DEF Pick
  <2> QED BY <1>3, <2>2 DEF EntryOf
<1>12. DOMAIN m.private = Groups(argv) /\ \A g \in Groups(argv) : m.private[g] = sealed[g].value
  BY <1>4, <1>9
<1> HIDE DEF entries, parsed
<1>13. Holds(m, board, argv, suri)
  BY <1>3, <1>5, <1>6, <1>9, <1>10, <1>11, <1>12 DEF Holds
<1> QED BY <1>5, <1>13

\* What was sealed for a recipient opens with his key and with no other but the
\* sender's, who is then the recipient.
LEMMA Opens ==
    ASSUME NEW suri \in Secret, NEW reader \in Secret, NEW recipient, NEW readings,
           EncryptGroup(suri, recipient, readings).code = 0
    PROVE  DecryptEntry(EncryptGroup(suri, recipient, readings).value, reader)
           = IF recipient.public = PublicKey("ed25519", reader) THEN {readings} ELSE {}
<1> DEFINE to == recipient.public
           me == PublicKey("ed25519", suri)
           you == PublicKey("ed25519", reader)
           key == Hkdf([scheme |-> "ed25519", keys |-> {me, to}], "xchacha20")
           yours == Hkdf([scheme |-> "ed25519", keys |-> {you, me}], "xchacha20")
           text == [key |-> key, plaintext |-> readings]
           e == [algorithm |-> "xchacha20", from |-> me, nonce |-> NonceSize["xchacha20"],
                 ciphertext |-> text]
           sealed == UNION {Encrypt("ed25519", suri, readings, public, "xchacha20") :
                               public \in ResolveRecipient(recipient)}
           c == CHOOSE x \in sealed : TRUE
           r == EncryptGroup(suri, recipient, readings)
<1>1. r = IF ResolveRecipient(recipient) = {} THEN Error(2) ELSE IF sealed = {} THEN Error(1)
          ELSE Ok([algorithm |-> "xchacha20", from |-> c.from, nonce |-> c.nonce,
                   ciphertext |-> c.ciphertext])
  BY DEF EncryptGroup
<1>2. /\ ResolveRecipient(recipient) # {} /\ sealed # {}
      /\ r.value = [algorithm |-> "xchacha20", from |-> c.from, nonce |-> c.nonce,
                    ciphertext |-> c.ciphertext]
  <2> HIDE DEF sealed, c
  <2> QED BY <1>1 DEF Error, Ok
<1>3. ResolveRecipient(recipient) = {to}
  BY <1>2 DEF ResolveRecipient
<1>4. sealed = Encrypt("ed25519", suri, readings, to, "xchacha20")
  <2> HIDE DEF to
  <2> QED BY <1>3
<1>5. to # NotAPoint /\ sealed = {e}
  <2> HIDE DEF sealed
  <2> QED BY <1>2, <1>4 DEF Encrypt, DeriveShared
<1>6. r.value = e
  <2>1. c = e
    <3> HIDE DEF sealed, e
    <3> QED BY <1>5
  <2> HIDE DEF c
  <2> QED BY <1>2, <2>1
<1>7. AlgorithmOf("xchacha20") = {"xchacha20"}
  BY DEF AlgorithmOf, Alias
<1>8. me # NotAPoint
  BY KeyConstants DEF Scheme
<1>9. key = yours <=> to = you
  <2>1. {me, to} = {you, me} <=> to = you
    <3> HIDE DEF me, you, to
    <3> QED OBVIOUS
  <2> HIDE DEF me, you, to
  <2> QED BY <2>1 DEF Hkdf
<1> HIDE DEF key, to, me, you
<1>10. /\ e.algorithm = "xchacha20" /\ e.from = me /\ e.nonce = NonceSize["xchacha20"]
       /\ e.ciphertext = text /\ text.key = key /\ text.plaintext = readings
       /\ [e EXCEPT !.algorithm = "xchacha20"] = e
  OBVIOUS
<1> HIDE DEF e, text
<1>11. DecryptEntry(e, reader) = Decrypt("ed25519", reader, e)
  BY <1>7, <1>10 DEF DecryptEntry
<1>12. DeriveShared("ed25519", reader, me) = {[scheme |-> "ed25519", keys |-> {you, me}]}
  BY <1>8 DEF DeriveShared, you
<1>13. Decrypt("ed25519", reader, e) = IF yours = key THEN {readings} ELSE {}
  <2> DEFINE s == [scheme |-> "ed25519", keys |-> {you, me}]
             good == {x \in {s} : /\ e.nonce = NonceSize[e.algorithm]
                                  /\ Hkdf(x, e.algorithm) = e.ciphertext.key}
  <2>1. Decrypt("ed25519", reader, e) = {e.ciphertext.plaintext : x \in good}
    BY <1>10, <1>12 DEF Decrypt
  <2>2. good = IF yours = key THEN {s} ELSE {}
    BY <1>10
  <2> HIDE DEF good
  <2> QED BY <1>10, <2>1, <2>2
<1> QED BY <1>6, <1>9, <1>11, <1>13 DEF to, you

\* Every private argument is in one group, with those of its recipient.
LEMMA GroupsSplit ==
    ASSUME NEW argv, DOMAIN argv \subseteq Nat
    PROVE  /\ \A g \in Groups(argv) : g \in Private(argv) /\ GroupOf(argv, g) \subseteq Private(argv)
           /\ \A g \in Groups(argv) : \A k \in GroupOf(argv, g) :
                 argv[k].recipient = argv[g].recipient
           /\ \A g, h \in Groups(argv) : g # h => GroupOf(argv, g) \cap GroupOf(argv, h) = {}
           /\ \A k \in Private(argv) : \E g \in Groups(argv) : k \in GroupOf(argv, g)
<1>1. Private(argv) \subseteq Nat /\ Groups(argv) \subseteq Nat
  BY DEF Private, Groups
<1>2. ASSUME NEW g \in Groups(argv)
      PROVE  /\ g \in Private(argv) /\ GroupOf(argv, g) \subseteq Private(argv)
             /\ \A k \in GroupOf(argv, g) : argv[k].recipient = argv[g].recipient
  BY DEF Groups, GroupOf, Private
<1>3. ASSUME NEW g \in Groups(argv), NEW h \in Groups(argv),
             NEW k \in GroupOf(argv, g) \cap GroupOf(argv, h)
      PROVE  g = h
  <2>1. h \in GroupOf(argv, g) /\ g \in GroupOf(argv, h)
    BY DEF GroupOf, Groups, Private
  <2>2. g <= h /\ h <= g
    BY <2>1 DEF Groups
  <2> QED BY <1>1, <2>2
<1>4. ASSUME NEW k \in Private(argv)
      PROVE  \E g \in Groups(argv) : k \in GroupOf(argv, g)
  <2>1. GroupOf(argv, k) \subseteq Nat /\ k \in GroupOf(argv, k)
    BY DEF GroupOf, Private
  <2>2. PICK g \in GroupOf(argv, k) : \A j \in GroupOf(argv, k) : g <= j
    BY <2>1, LeastNumber
  <2>3. argv[g].recipient = argv[k].recipient /\ g \in DOMAIN argv
    BY DEF GroupOf
  <2>4. GroupOf(argv, g) = GroupOf(argv, k) /\ g \in Private(argv)
    BY <2>3 DEF GroupOf, Private
  <2>5. g \in Groups(argv)
    BY <2>2, <2>4 DEF Groups
  <2> QED BY <2>1, <2>4, <2>5
<1> QED BY <1>2, <1>3, <1>4

\* The private arguments addressed to this reader.
Addressed(argv, reader) ==
    {k \in Private(argv) : reader \in Secret /\ argv[k].recipient.public = PublicKey("ed25519", reader)}

\* What a reader of these arguments is shown.
ShownTo(shown, argv, mine) ==
    /\ DOMAIN shown.public = DOMAIN argv \ Private(argv) /\ SayTheSame(shown.public, argv)
    /\ \A g \in DOMAIN shown.private : \A readings \in shown.private[g] :
          /\ DOMAIN readings \subseteq mine /\ SayTheSame(readings, argv)
          /\ \A h \in DOMAIN shown.private \ {g} : \A others \in shown.private[h] :
                DOMAIN readings \cap DOMAIN others = {}
    /\ mine \subseteq UNION {DOMAIN readings : readings \in UNION Range(shown.private)}

\* Readings of arguments, as they are shown.
LEMMA ReadingsSay ==
    ASSUME NEW board \in DOMAIN SensorsOf, NEW argv, NEW S, S \subseteq DOMAIN argv,
           \A k \in DOMAIN argv : IsItem(argv[k]) /\ ParseItem(board, argv[k]).code = 0
    PROVE  LET readings == Readings(board, argv, S)
               lines == [k \in DOMAIN readings |-> Shown(readings[k])]
           IN  DOMAIN lines = S /\ SayTheSame(lines, argv)
<1> DEFINE readings == Readings(board, argv, S)
           lines == [k \in DOMAIN readings |-> Shown(readings[k])]
<1>1. DOMAIN readings = S /\ \A k \in S : readings[k] = ParseItem(board, argv[k]).value
  BY DEF Readings
<1> HIDE DEF readings
<1>2. DOMAIN lines = S /\ \A k \in S : lines[k] = Shown(ParseItem(board, argv[k]).value)
  BY <1>1
<1> HIDE DEF lines
<1>3. ASSUME NEW k \in S
      PROVE  <<lines[k].name, lines[k].values>> = Said(argv[k])
  BY <1>2, ItemSays
<1>4. SayTheSame(lines, argv)
  BY <1>2, <1>3 DEF SayTheSame
<1> QED BY <1>2, <1>4 DEF lines, readings

\* A reader opens the entries of the groups addressed to him.
LEMMA PrintedEntry ==
    ASSUME NEW board, NEW argv, NEW suri \in Secret, NEW g, NEW reader,
           EntryOf(board, argv, suri, g).code = 0
    PROVE  LET readings == Readings(board, argv, GroupOf(argv, g))
           IN  PrintPrivateEntry(EntryOf(board, argv, suri, g).value, reader)
               = IF reader \in Secret /\ argv[g].recipient.public = PublicKey("ed25519", reader)
                 THEN {[k \in DOMAIN readings |-> Shown(readings[k])]} ELSE {}
<1> DEFINE readings == Readings(board, argv, GroupOf(argv, g))
           entry == EntryOf(board, argv, suri, g).value
           opened == IF reader \in Secret THEN DecryptEntry(entry, reader) ELSE {}
<1>1. opened = IF reader \in Secret /\ argv[g].recipient.public = PublicKey("ed25519", reader)
               THEN {readings} ELSE {}
  <2>1. CASE reader \in Secret
    <3>1. EncryptGroup(suri, argv[g].recipient, readings).code = 0
          /\ entry = EncryptGroup(suri, argv[g].recipient, readings).value
      BY DEF EntryOf
    <3> HIDE DEF readings, entry
    <3> QED BY <2>1, <3>1, Opens
  <2> QED BY <2>1
<1>2. PrintPrivateEntry(entry, reader) = {[k \in DOMAIN r |-> Shown(r[k])] : r \in opened}
  BY DEF PrintPrivateEntry
<1> HIDE DEF opened, entry, readings
<1>3. CASE reader \in Secret /\ argv[g].recipient.public = PublicKey("ed25519", reader)
  <2>1. opened = {readings}
    BY <1>1, <1>3
  <2>2. PrintPrivateEntry(entry, reader) = {[k \in DOMAIN readings |-> Shown(readings[k])]}
    BY <1>2, <2>1
  <2> QED BY <1>3, <2>2 DEF entry, readings
<1>4. CASE ~(reader \in Secret /\ argv[g].recipient.public = PublicKey("ed25519", reader))
  <2>1. opened = {}
    BY <1>1, <1>4
  <2>2. PrintPrivateEntry(entry, reader) = {}
    BY <1>2, <2>1
  <2> QED BY <1>4, <2>2 DEF entry, readings
<1> QED BY <1>3, <1>4

\* What is shown of a message that was made from arguments.
LEMMA PrintedMessage ==
    ASSUME NEW board \in DOMAIN SensorsOf, NEW argv, DOMAIN argv \subseteq Nat, NEW suri, NEW meta,
           NEW reader, \A k \in DOMAIN argv : IsItem(argv[k]),
           Parse(board, argv, suri, meta).code = 0
    PROVE  ShownTo(PrintMessage(Parse(board, argv, suri, meta).value, reader), argv,
                   Addressed(argv, reader))
<1> DEFINE m == Parse(board, argv, suri, meta).value
           shown == PrintMessage(m, reader)
           mine == Addressed(argv, reader)
           Lines(S) == [k \in DOMAIN Readings(board, argv, S) |-> Shown(Readings(board, argv, S)[k])]
           his(g) == reader \in Secret /\ argv[g].recipient.public = PublicKey("ed25519", reader)
<1>1. /\ \A k \in DOMAIN argv : ParseItem(board, argv[k]).code = 0
      /\ Private(argv) # {} => suri \in Secret
      /\ m.public = Readings(board, argv, DOMAIN argv \ Private(argv))
      /\ DOMAIN m.private = Groups(argv)
      /\ \A g \in Groups(argv) : /\ EntryOf(board, argv, suri, g).code = 0
                                 /\ m.private[g] = EntryOf(board, argv, suri, g).value
  <2>1. Holds(m, board, argv, suri)
    BY MessageHolds
  <2> QED BY <2>1 DEF Holds
<1> HIDE DEF m
<1>2. /\ shown.public = Lines(DOMAIN argv \ Private(argv))
      /\ shown.private = [g \in Groups(argv) |-> PrintPrivateEntry(m.private[g], reader)]
  BY <1>1 DEF PrintMessage
<1> HIDE DEF shown
<1>3. ASSUME NEW S, S \subseteq DOMAIN argv
      PROVE  DOMAIN Lines(S) = S /\ SayTheSame(Lines(S), argv)
  <2>1. \A k \in DOMAIN argv : IsItem(argv[k]) /\ ParseItem(board, argv[k]).code = 0
    BY <1>1
  <2>2. LET r == Readings(board, argv, S)
            lines == [k \in DOMAIN r |-> Shown(r[k])]
        IN  DOMAIN lines = S /\ SayTheSame(lines, argv)
    BY <1>3, <2>1, ReadingsSay
  <2> QED BY <2>2
<1>4. ASSUME NEW g \in Groups(argv)
      PROVE  shown.private[g] = IF his(g) THEN {Lines(GroupOf(argv, g))} ELSE {}
  <2>1. suri \in Secret
    BY <1>1 DEF Groups
  <2>2. shown.private[g] = PrintPrivateEntry(EntryOf(board, argv, suri, g).value, reader)
    BY <1>1, <1>2
  <2>3. EntryOf(board, argv, suri, g).code = 0
    BY <1>1
  <2> QED BY <2>1, <2>2, <2>3, PrintedEntry
<1> HIDE DEF Lines
<1>5. DOMAIN shown.private = Groups(argv)
  BY <1>2
<1>6. \A g \in Groups(argv) : GroupOf(argv, g) \subseteq DOMAIN argv
  BY DEF GroupOf
<1>7. /\ DOMAIN shown.public = DOMAIN argv \ Private(argv) /\ SayTheSame(shown.public, argv)
  BY <1>2, <1>3
<1>8. ASSUME NEW g \in DOMAIN shown.private, NEW readings \in shown.private[g]
      PROVE  /\ DOMAIN readings \subseteq mine /\ SayTheSame(readings, argv)
             /\ \A h \in DOMAIN shown.private \ {g} : \A others \in shown.private[h] :
                   DOMAIN readings \cap DOMAIN others = {}
  <2>1. his(g) /\ readings = Lines(GroupOf(argv, g)) /\ g \in Groups(argv)
    <3>1. g \in Groups(argv)
      BY <1>5
    <3>2. shown.private[g] = IF his(g) THEN {Lines(GroupOf(argv, g))} ELSE {}
      BY <1>4, <3>1
    <3> QED BY <3>1, <3>2
  <2>2. DOMAIN readings = GroupOf(argv, g) /\ SayTheSame(readings, argv)
    BY <1>3, <1>6, <2>1
  <2>3. GroupOf(argv, g) \subseteq mine
    BY <2>1, GroupsSplit DEF Addressed
  <2>4. ASSUME NEW h \in DOMAIN shown.private \ {g}, NEW others \in shown.private[h]
        PROVE  DOMAIN readings \cap DOMAIN others = {}
    <3>1. h \in Groups(argv) /\ h # g /\ others = Lines(GroupOf(argv, h))
      BY <1>4, <1>5
    <3>2. DOMAIN others = GroupOf(argv, h)
      BY <1>3, <1>6, <3>1
    <3>3. GroupOf(argv, g) \cap GroupOf(argv, h) = {}
      BY <2>1, <3>1, GroupsSplit
    <3> QED BY <2>2, <3>2, <3>3
  <2> QED BY <2>2, <2>3, <2>4
<1>9. ASSUME NEW k \in mine
      PROVE  k \in UNION {DOMAIN readings : readings \in UNION Range(shown.private)}
  <2>1. k \in Private(argv) /\ reader \in Secret
        /\ argv[k].recipient.public = PublicKey("ed25519", reader)
    BY DEF Addressed
  <2>2. PICK g \in Groups(argv) : k \in GroupOf(argv, g)
    BY <2>1, GroupsSplit
  <2>3. argv[k].recipient = argv[g].recipient
    BY <2>2, GroupsSplit
  <2>4. shown.private[g] = {Lines(GroupOf(argv, g))}
    BY <1>4, <2>1, <2>3
  <2>5. shown.private[g] \in Range(shown.private)
    BY <1>5 DEF Range
  <2>6. Lines(GroupOf(argv, g)) \in UNION Range(shown.private)
    BY <2>4, <2>5
  <2>7. DOMAIN Lines(GroupOf(argv, g)) = GroupOf(argv, g)
    BY <1>3, <1>6
  <2> QED BY <2>2, <2>6, <2>7
<1>10. mine \subseteq UNION {DOMAIN readings : readings \in UNION Range(shown.private)}
  BY <1>9
<1> HIDE DEF mine
<1>11. ShownTo(shown, argv, mine)
  BY <1>7, <1>8, <1>10 DEF ShownTo
<1> QED BY <1>11 DEF shown, m, mine

\* What the invariant of a script says of what is shown.
LEMMA ToolsAddressees ==
    ASSUME ToolsInv
    PROVE  AddresseesRead
<1> SUFFICES ASSUME NEW i \in DOMAIN ran, ran[i].tool \in {"message", "read"}, ran[i].output = "text"
             PROVE  LET argv   == ran[origin[i]].argv
                        shown  == outs[i].wire.value
                        public == {k \in DOMAIN argv : argv[k].recipient = None}
                        mine   == {k \in DOMAIN argv \ public :
                                     /\ ran[i].decrypt /\ ran[i].suri \in Secret
                                     /\ argv[k].recipient.public = PublicKey("ed25519", ran[i].suri)}
                    IN  /\ DOMAIN shown.public = public /\ SayTheSame(shown.public, argv)
                        /\ \A g \in DOMAIN shown.private : \A readings \in shown.private[g] :
                              /\ DOMAIN readings \subseteq mine /\ SayTheSame(readings, argv)
                              /\ \A h \in DOMAIN shown.private \ {g} : \A others \in shown.private[h] :
                                    DOMAIN readings \cap DOMAIN others = {}
                        /\ mine \subseteq UNION {DOMAIN readings : readings \in UNION Range(shown.private)}
  BY DEF AddresseesRead
<1> DEFINE source == ran[origin[i]]
           argv   == source.argv
           shown  == outs[i].wire.value
           public == {k \in DOMAIN argv : argv[k].recipient = None}
           mine   == {k \in DOMAIN argv \ public :
                        /\ ran[i].decrypt /\ ran[i].suri \in Secret
                        /\ argv[k].recipient.public = PublicKey("ed25519", ran[i].suri)}
           reader == IF ran[i].decrypt THEN ran[i].suri ELSE None
<1>1. i \in 1 .. Len(ran) /\ Len(ran) \in Nat
  BY AppendIs DEF ToolsInv, Recorded
<1>2. /\ source.tool = "message" /\ ParseOf(source).code = 0
      /\ shown = PrintMessage(ParseOf(source).value, reader)
  BY <1>1 DEF ToolsInv, Sourced, Shows
<1>3. IsCommand(source, origin[i] - 1)
  BY <1>1 DEF ToolsInv, Recorded
<1> HIDE DEF source, shown
<1>4. /\ source.board \in DOMAIN SensorsOf /\ argv \in Seq(Range(argv))
      /\ \A k \in DOMAIN argv : IsItem(argv[k])
  BY <1>2, <1>3 DEF IsCommand
<1>5. DOMAIN argv \subseteq Nat
  BY <1>4
<1> HIDE DEF reader
<1>6. ShownTo(shown, argv, Addressed(argv, reader))
  BY <1>2, <1>4, <1>5, PrintedMessage DEF ParseOf
<1>7. public = DOMAIN argv \ Private(argv)
  BY DEF Private
<1>8. Addressed(argv, reader) = mine
  <2>1. reader \in Secret <=> (ran[i].decrypt /\ ran[i].suri \in Secret)
    BY FieldConstants DEF reader
  <2>2. reader \in Secret => reader = ran[i].suri
    BY FieldConstants DEF reader
  <2> QED BY <2>1, <2>2 DEF Addressed, Private
<1> HIDE DEF mine, public, argv
<1>9. /\ DOMAIN shown.public = public /\ SayTheSame(shown.public, argv)
      /\ \A g \in DOMAIN shown.private : \A readings \in shown.private[g] :
            /\ DOMAIN readings \subseteq mine /\ SayTheSame(readings, argv)
            /\ \A h \in DOMAIN shown.private \ {g} : \A others \in shown.private[h] :
                  DOMAIN readings \cap DOMAIN others = {}
      /\ mine \subseteq UNION {DOMAIN readings : readings \in UNION Range(shown.private)}
  BY <1>6, <1>7, <1>8 DEF ShownTo
<1> QED BY <1>9 DEF mine, public, argv, shown, source

(***************************************************************************)
(* For every script, of any measurements for anyone: who reads a message   *)
(* is shown every public measurement and those addressed to the key he     *)
(* decrypts with, each once and as the nearest value that its field can    *)
(* hold, and no other (compact::parse, group_push, encrypt_group,          *)
(* decrypt_entry, print_private_entry, f64_to_centi and its like).         *)
(***************************************************************************)
THEOREM OnlyAddresseesRead == ASSUME WireLengths PROVE Spec => []AddresseesRead
<1>1. DeliveryInv /\ ToolsInv => AddresseesRead
  BY ToolsAddressees
<1> QED BY <1>1, ScriptInvariant, PTL
=============================================================================

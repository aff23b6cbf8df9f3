----------------------------- MODULE CpsProofs -----------------------------
(****************************************************************************)
(* Proofs about the CPS client, the bridge and the command line, for any    *)
(* tree, accounts, commands and messages, and any interleaving with the     *)
(* chain: a reading command shows one finalized block, the bridge publishes *)
(* finalized payloads in block order, what callers are told is what the     *)
(* finalized chain holds, and what the bridge writes follows its messages.  *)
(****************************************************************************)
EXTENDS CpsCommands, FiniteSetTheorems, SequenceTheorems, WellFoundedInduction, TLAPS

-----------------------------------------------------------------------------
(***************************************************************************)
(* Sequences of anything.                                                  *)
(***************************************************************************)
\* A sequence, of whatever elements.
IsSeq(s) == \E S : s \in Seq(S)

\* Appending keeps the elements before.
LEMMA AppendIsSeq ==
    ASSUME NEW s, IsSeq(s), NEW x
    PROVE  /\ IsSeq(Append(s, x))
           /\ Len(s) \in Nat /\ Len(Append(s, x)) = Len(s) + 1
           /\ DOMAIN s = 1 .. Len(s) /\ DOMAIN Append(s, x) = 1 .. Len(s) + 1
           /\ \A i \in 1 .. Len(s) : Append(s, x)[i] = s[i]
           /\ Append(s, x)[Len(s) + 1] = x
<1>1. PICK S : s \in Seq(S)
  BY DEF IsSeq
<1>2. s \in Seq(S \cup {x}) /\ x \in S \cup {x}
  BY <1>1
<1>3. Append(s, x) \in Seq(S \cup {x})
  BY <1>2
<1>4. /\ Len(s) \in Nat /\ Len(Append(s, x)) = Len(s) + 1
      /\ DOMAIN s = 1 .. Len(s) /\ DOMAIN Append(s, x) = 1 .. Len(s) + 1
      /\ \A i \in 1 .. Len(s) : Append(s, x)[i] = s[i]
      /\ Append(s, x)[Len(s) + 1] = x
  BY <1>2, <1>3
<1> QED BY <1>3, <1>4 DEF IsSeq

\* The length of a sequence, and the empty one.
LEMMA SeqFacts ==
    /\ IsSeq(<<>>) /\ Len(<<>>) = 0 /\ DOMAIN <<>> = {}
    /\ \A s : IsSeq(s) => Len(s) \in Nat /\ DOMAIN s = 1 .. Len(s)
<1>1. <<>> \in Seq({})
  OBVIOUS
<1>2. ASSUME NEW s, IsSeq(s) PROVE Len(s) \in Nat /\ DOMAIN s = 1 .. Len(s)
  BY <1>2, AppendIsSeq
<1> QED BY <1>1, <1>2 DEF IsSeq

-----------------------------------------------------------------------------
(***************************************************************************)
(* The finalized chain only grows.                                         *)
(***************************************************************************)
\* The finalized blocks of before are those of after, and perhaps more follow.
Grows ==
    /\ Len(fin') \in Nat /\ Len(fin) <= Len(fin')
    /\ \A b \in 1 .. Len(fin) : b \in 1 .. Len(fin') /\ fin'[b] = fin[b]

\* It is a sequence of blocks that begins with one.
ChainSound == IsSeq(fin) /\ Len(fin) >= 1

LEMMA StillGrows ==
    ASSUME ChainSound, fin' = fin
    PROVE  ChainSound' /\ Grows
BY SeqFacts DEF ChainSound, Grows

\* Whatever is taken to be final, what was final stays.
LEMMA ChainGrows ==
    ASSUME ChainSound, [Next]_<<chain, client, bridge, cli>>
    PROVE  ChainSound' /\ Grows
<1>1. CASE fin' = fin
  BY <1>1, StillGrows
<1>2. CASE ChainNext
  <2>1. CASE fin' = Append(fin, Head(best))
    <3>1. /\ IsSeq(fin') /\ Len(fin) \in Nat /\ Len(fin') = Len(fin) + 1
          /\ \A b \in 1 .. Len(fin) : fin'[b] = fin[b]
      BY <2>1, AppendIsSeq DEF ChainSound
    <3> QED BY <3>1 DEF ChainSound, Grows
  <2> QED BY <1>1, <1>2, <2>1 DEF ChainNext, BuildBlock, Finalize, Reorganize
<1>3. CASE UNCHANGED chain
  BY <1>1, <1>3 DEF chain
<1>4. ASSUME NEW c, ClientStep(c) PROVE fin' = fin
  BY <1>4 DEF ClientStep, Check, Submit, Receipt, WatchFails, chain
<1>5. CASE BridgeNext
  <2>1. fin' = fin
    BY <1>4, <1>5 DEF BridgeNext, Start, SubscribeConnects, EnsureCanWrite, PublishStarts,
       PollConnects, ConnectionBreaks, MessageArrives, PollFails, SleepEnds, EventLoopSends,
       TakeMessage, UpdateSettles, WatchBlock, PushUpdate, StreamEnds, chain
  <2> QED BY <1>1, <2>1
<1>6. CASE Invoke \/ PinBlock \/ Canonical \/ Read \/ Show \/ Permit \/ Watch \/ Prepare \/ Done
  <2>1. fin' = fin
    BY <1>6 DEF Invoke, PinBlock, Canonical, Read, Show, Permit, Watch, Prepare, Done, chain
  <2> QED BY <1>1, <2>1
<1>7. CASE UNCHANGED <<chain, client, bridge, cli>>
  BY <1>3, <1>7
<1> QED BY <1>1, <1>2, <1>4, <1>5, <1>6, <1>7 DEF Next

-----------------------------------------------------------------------------
(***************************************************************************)
(* A reading command.                                                      *)
(***************************************************************************)
\* What was read is what the pinned block says.
ReadSound ==
    /\ {"pc", "cmd", "node", "at", "vals"} \subseteq DOMAIN cli
    /\ IsSeq(cli.vals)
    /\ cli.pc \in {"idle", "resolve"} => cli.vals = <<>>
    /\ cli.pc = "read" =>
          /\ cli.cmd.name \notin Writes \union {"watch"}
          /\ cli.at \in 1 .. Len(fin)
          /\ NodeId(fin[cli.at].tree, cli.cmd.target) = cli.node
          /\ \A i \in DOMAIN cli.vals :
                Answer(cli.cmd, fin[cli.at].tree, cli.node, Asks(cli.cmd)[i]) = Ok(cli.vals[i])

\* The chain goes on meanwhile.
LEMMA ReadsOn ==
    ASSUME ReadSound, Grows, cli' = cli
    PROVE  ReadSound'
BY DEF ReadSound, Grows

\* An invocation that is over has read nothing.
LEMMA EndsReading ==
    ASSUME NEW todo, NEW file, NEW status, cli' = NoCommand(todo, file, status)
    PROVE  ReadSound'
BY SeqFacts DEF ReadSound, NoCommand

\* A write or a watch does not read.
LEMMA NotReading ==
    ASSUME ReadSound, NEW pc, pc \notin {"idle", "resolve", "read"}, NEW at, NEW n,
           cli' = [cli EXCEPT !.pc = pc, !.at = at, !.node = n]
    PROVE  ReadSound'
BY DEF ReadSound

\* An answer is an answer, or an error.
LEMMA AnswerIs ==
    ASSUME NEW cmd, NEW tree, NEW n, NEW what, what \in {"info", "identity", "meta", "payload",
              "scope", "parent", "children", "capability", "scope_info"},
           Answer(cmd, tree, n, what).ok
    PROVE  Answer(cmd, tree, n, what) = Ok(Answer(cmd, tree, n, what).value)
<1> DEFINE result == Answer(cmd, tree, n, what)
<1> USE DEF Ok, Err, Field
<1>1. CASE what = "info"
  BY <1>1 DEF Answer
<1>2. CASE what = "identity"
  BY <1>2 DEF Answer
<1>3. CASE what \in {"meta", "payload"}
  BY <1>3 DEF Answer
<1>4. CASE what = "scope"
  BY <1>4 DEF Answer, ResolveScope
<1>5. CASE what = "parent"
  BY <1>5 DEF Answer, AddressParent, AddressView
<1>6. CASE what = "children"
  BY <1>6 DEF Answer, AddressChildren, AddressView
<1>7. CASE what = "capability"
  BY <1>7 DEF Answer, HasCapability
<1>8. CASE what = "scope_info"
  BY <1>8 DEF Answer
<1> QED BY <1>1, <1>2, <1>3, <1>4, <1>5, <1>6, <1>7, <1>8

\* The commands still to run, and the one that runs, are commands.
CommandSound ==
    /\ {"pc", "cmd", "todo"} \subseteq DOMAIN cli
    /\ cli.todo \in Seq(Commands)
    /\ cli.pc # "idle" => cli.cmd \in Commands

\* The questions of a reading command.
LEMMA AsksIs ==
    ASSUME NEW cmd \in Commands, cmd.name \notin Writes \union {"watch"}
    PROVE  /\ Asks(cmd) \in Seq({"info", "identity", "meta", "payload", "scope", "parent",
                                 "children", "capability", "scope_info"})
<1> DEFINE Q == {"info", "identity", "meta", "payload", "scope", "parent",
                 "children", "capability", "scope_info"}
<1>1. cmd.name \in Readers /\ (cmd.name = "get" => cmd.field \in Field)
  BY ScriptConstants
<1>2. <<"info", "identity", "meta", "payload", "scope", "parent">> \in Seq(Q)
  OBVIOUS
<1>3. cmd.name = "get" => <<cmd.field>> \in Seq(Q)
  BY <1>1 DEF Field
<1>4. /\ <<"capability">> \in Seq(Q) /\ <<"parent">> \in Seq(Q) /\ <<"children">> \in Seq(Q)
      /\ <<"scope">> \in Seq(Q) /\ <<"scope_info">> \in Seq(Q) /\ <<"identity">> \in Seq(Q)
  OBVIOUS
<1> HIDE DEF Q
<1>5. Asks(cmd) \in Seq(Q)
  BY <1>1, <1>2, <1>3, <1>4 DEF Asks, Readers
<1> QED BY <1>5 DEF Q

\* A command is begun.
LEMMA InvokeIs ==
    ASSUME Invoke
    PROVE  /\ {"pc", "cmd", "todo", "node", "at", "vals"} \subseteq DOMAIN cli'
           /\ cli'.todo = Tail(cli.todo) /\ cli'.vals = <<>>
           /\ cli'.pc \in {"idle", "resolve"}
           /\ cli'.pc # "idle" => cli'.cmd = Head(cli.todo)
<1> DEFINE todo == Tail(cli.todo)
           file == cli.file
           cmd == Head(cli.todo)
<1>1. \/ cli' = [NoCommand(todo, file, None) EXCEPT !.pc = "resolve", !.cmd = cmd]
      \/ cli' = NoCommand(todo, file, 2)
  BY DEF Invoke
<1> HIDE DEF todo, file, cmd
<1>2. CASE cli' = NoCommand(todo, file, 2)
  BY <1>2 DEF NoCommand, todo
<1>3. CASE cli' = [NoCommand(todo, file, None) EXCEPT !.pc = "resolve", !.cmd = cmd]
  <2>1. cli' = [pc |-> "resolve", cmd |-> cmd, node |-> None, at |-> 1, vals |-> <<>>,
                status |-> None, todo |-> todo, file |-> file]
    BY <1>3 DEF NoCommand
  <2> QED BY <2>1 DEF todo, cmd
<1> QED BY <1>1, <1>2, <1>3

\* cli keeps its commands.
LEMMA CommandStep ==
    ASSUME CommandSound, [Next]_<<chain, client, bridge, cli>>
    PROVE  CommandSound'
<1>1. ASSUME NEW file, NEW status, cli' = NoCommand(cli.todo, file, status)
      PROVE  CommandSound'
  BY <1>1 DEF CommandSound, NoCommand
<1>2. CASE cli' = cli
  BY <1>2 DEF CommandSound
<1>3. CASE Invoke
  <2>1. cli.todo # <<>> /\ cli.todo \in Seq(Commands)
    BY <1>3 DEF Invoke, CommandSound
  <2>2. Head(cli.todo) \in Commands /\ Tail(cli.todo) \in Seq(Commands)
    BY <2>1
  <2>3. /\ {"pc", "cmd", "todo"} \subseteq DOMAIN cli'
        /\ cli'.todo = Tail(cli.todo)
        /\ cli'.pc # "idle" => cli'.cmd = Head(cli.todo)
    BY <1>3, InvokeIs
  <2> QED BY <2>2, <2>3 DEF CommandSound
<1>4. CASE PinBlock
  BY <1>1, <1>4 DEF PinBlock, Ends, CommandSound
<1>5. CASE Canonical
  BY <1>1, <1>5 DEF Canonical, Ends, CommandSound
<1>6. CASE Read
  BY <1>1, <1>6 DEF Read, Ends, CommandSound
<1>7. CASE Show
  BY <1>1, <1>7 DEF Show, Ends
<1>8. CASE Permit
  BY <1>1, <1>8 DEF Permit, Ends
<1>9. CASE Watch
  BY <1>1, <1>9 DEF Watch, Ends, CommandSound
<1>10. CASE Prepare
  BY <1>1, <1>10 DEF Prepare, Ends, CommandSound
<1>11. CASE Done
  BY <1>1, <1>11 DEF Done, Ends
<1> QED BY <1>2, <1>3, <1>4, <1>5, <1>6, <1>7, <1>8, <1>9, <1>10, <1>11 DEF Next

\* What was read stays what the pinned block says.
LEMMA ReadStep ==
    ASSUME ChainSound, CommandSound, ReadSound, [Next]_<<chain, client, bridge, cli>>
    PROVE  ReadSound'
<1>1. ChainSound' /\ Grows
  BY ChainGrows
<1>2. CASE cli' = cli
  BY <1>1, <1>2, ReadsOn
<1>3. ASSUME NEW status, Ends(status)
      PROVE  ReadSound'
  BY <1>3, EndsReading DEF Ends
<1>4. CASE Invoke
  BY <1>4, InvokeIs, SeqFacts DEF ReadSound
<1>5. CASE PinBlock
  <2>1. PICK at \in DOMAIN fin :
           LET n == NodeId(fin[at].tree, cli.cmd.target)
           IN IF cli.cmd.target.kind # "scope" /\ n = None THEN Ends(2)
              ELSE cli' = [cli EXCEPT !.pc = "read", !.at = at, !.node = n]
    <3>1. Len(fin) \in DOMAIN fin
      BY SeqFacts DEF ChainSound
    <3> QED BY <1>5, <3>1 DEF PinBlock
  <2>2. CASE cli' = [cli EXCEPT !.pc = "read", !.at = at,
                                !.node = NodeId(fin[at].tree, cli.cmd.target)]
    <3>1. /\ cli.vals = <<>> /\ fin' = fin /\ at \in 1 .. Len(fin)
          /\ cli.cmd.name \notin Writes \union {"watch"}
      BY <1>5, SeqFacts DEF PinBlock, ReadSound, chain, ChainSound
    <3>2. /\ {"pc", "cmd", "node", "at", "vals"} \subseteq DOMAIN cli'
          /\ cli'.vals = <<>> /\ cli'.pc = "read" /\ cli'.at = at /\ cli'.cmd = cli.cmd
          /\ cli'.node = NodeId(fin[at].tree, cli.cmd.target)
      BY <2>2, <3>1 DEF ReadSound
    <3> QED BY <3>1, <3>2, SeqFacts DEF ReadSound
  <2> QED BY <1>3, <2>1, <2>2
<1>6. CASE Canonical
  <2>1. CASE Ends(2)
    BY <1>3, <2>1
  <2>2. CASE cli' = [cli EXCEPT !.pc = IF cli.cmd.name = "watch" THEN "watch" ELSE "prepare",
                                !.at = Len(fin), !.node = NodeId(FinalTree, cli.cmd.target)]
    <3> DEFINE pc == IF cli.cmd.name = "watch" THEN "watch" ELSE "prepare"
               at == Len(fin)
               n == NodeId(FinalTree, cli.cmd.target)
    <3>1. cli' = [cli EXCEPT !.pc = pc, !.at = at, !.node = n]
      BY <2>2
    <3>2. pc \notin {"idle", "resolve", "read"}
      OBVIOUS
    <3> HIDE DEF pc, at, n
    <3> QED BY <3>1, <3>2, NotReading
  <2> QED BY <1>6, <2>1, <2>2 DEF Canonical
<1>7. CASE Read
  <2> DEFINE k == Len(cli.vals) + 1
             what == Asks(cli.cmd)[k]
             answer == Answer(cli.cmd, fin[cli.at].tree, cli.node, what)
  <2>1. CASE Ends(2)
    BY <1>3, <2>1
  <2>2. CASE answer.ok /\ cli' = [cli EXCEPT !.vals = Append(@, answer.value)]
    <3>1. /\ cli.pc = "read" /\ Len(cli.vals) < Len(Asks(cli.cmd)) /\ fin' = fin
          /\ Len(cli.vals) \in Nat
      BY <1>7, SeqFacts DEF Read, chain, ReadSound
    <3>2. CASE cli.cmd.name \notin Writes \union {"watch"}
      <4>1. Asks(cli.cmd) \in Seq({"info", "identity", "meta", "payload", "scope", "parent",
                                   "children", "capability", "scope_info"})
        BY <3>1, <3>2, AsksIs DEF CommandSound
      <4>2. what \in {"info", "identity", "meta", "payload", "scope", "parent",
                      "children", "capability", "scope_info"}
        BY <3>1, <4>1
      <4> HIDE DEF k, what
      <4>3. answer = Ok(answer.value)
        BY <2>2, <4>2, AnswerIs
      <4> HIDE DEF answer
      <4>4. /\ {"pc", "cmd", "node", "at", "vals"} \subseteq DOMAIN cli'
            /\ cli'.vals = Append(cli.vals, answer.value)
            /\ cli'.pc = "read" /\ cli'.at = cli.at /\ cli'.cmd = cli.cmd /\ cli'.node = cli.node
        BY <2>2, <3>1 DEF ReadSound
      <4>5. /\ IsSeq(cli'.vals) /\ DOMAIN cli'.vals = 1 .. k
            /\ \A i \in 1 .. k : i # k => i \in DOMAIN cli.vals /\ cli'.vals[i] = cli.vals[i]
            /\ cli'.vals[k] = answer.value
        BY <3>1, <4>4, AppendIsSeq DEF ReadSound, k
      <4>6. \A i \in DOMAIN cli'.vals :
               Answer(cli.cmd, fin[cli.at].tree, cli.node, Asks(cli.cmd)[i]) = Ok(cli'.vals[i])
        BY <3>1, <4>3, <4>5 DEF ReadSound, answer, what
      <4> QED BY <3>1, <4>4, <4>5, <4>6 DEF ReadSound
    <3> QED BY <3>1, <3>2 DEF ReadSound
  <2> QED BY <1>7, <2>1, <2>2 DEF Read, Reads
<1>8. CASE Show
  BY <1>3, <1>8 DEF Show
<1>9. CASE Permit
  BY <1>3, <1>9, EndsReading DEF Permit
<1>10. CASE Watch
  <2>1. CASE cli' = [cli EXCEPT !.at = @ + 1]
    BY <1>10, <2>1 DEF Watch, ReadSound
  <2> QED BY <1>3, <1>10, <2>1 DEF Watch
<1>11. CASE Prepare
  <2>1. CASE cli' = [cli EXCEPT !.pc = "submit"]
    BY <2>1 DEF ReadSound
  <2> QED BY <1>3, <1>11, <2>1 DEF Prepare
<1>12. CASE Done
  BY <1>3, <1>12 DEF Done
<1> QED BY <1>2, <1>4, <1>5, <1>6, <1>7, <1>8, <1>9, <1>10, <1>11, <1>12 DEF Next

-----------------------------------------------------------------------------
(***************************************************************************)
(* The publish task of the bridge.                                         *)
(***************************************************************************)
Payload(block) == block.tree.data[BridgeNode]["payload"]

\* A block was published, or there is a reason why not.
Settled(b) ==
    \/ b \in faulty
    \/ \E i \in DOMAIN log : log[i].block = b
    \/ ~Updates(fin[b], BridgeNode, "payload")
    \/ Payload(fin[b]) = None
    \/ Payload(fin[b]) \in unread

\* What was published is finalized and in order, up to the block seen last.
LogSound ==
    /\ IsSeq(log)
    /\ \A i \in DOMAIN log :
          /\ log[i].block \in 1 .. pub.seen
          /\ log[i].data = NodeDataToString(Payload(fin[log[i].block]))
    /\ \A i, j \in DOMAIN log : i < j => log[i].block < log[j].block

\* Where the watcher is, and that it has settled what it passed.
WatchSound ==
    /\ {"pc", "seen", "from", "update"} \subseteq DOMAIN pub
    /\ pub.from \in Nat /\ pub.seen \in 1 .. Len(fin)
    /\ pub.pc \in {"none", "spawned"} => log = <<>>
    /\ pub.pc = "watch" => \A b \in pub.from + 1 .. pub.seen : Settled(b)
    /\ pub.pc = "push" =>
          /\ \A b \in pub.from + 1 .. pub.seen - 1 : Settled(b)
          /\ \A i \in DOMAIN log : log[i].block < pub.seen
          /\ pub.update = [block |-> pub.seen, value |-> Payload(fin[pub.seen])]

\* Both entries are spawned together.
StartSound ==
    /\ "pc" \in DOMAIN sub
    /\ sub.pc = "none" => pub.pc = "none"

\* Blocks are added and failures noted meanwhile.
LEMMA SettledStays ==
    ASSUME ChainSound, Grows, log' = log, faulty \subseteq faulty', unread \subseteq unread',
           NEW b \in 1 .. Len(fin), Settled(b)
    PROVE  Settled(b)'
<1>1. fin'[b] = fin[b]
  BY DEF Grows
<1> QED BY <1>1 DEF Settled, Payload

LEMMA LogStays ==
    ASSUME ChainSound, Grows, LogSound, WatchSound, log' = log, conf' = conf,
           pub'.seen \in Nat, pub.seen <= pub'.seen
    PROVE  LogSound'
<1>1. Len(fin) \in Nat /\ pub.seen \in 1 .. Len(fin)
  BY SeqFacts DEF ChainSound, WatchSound
<1>2. ASSUME NEW i \in DOMAIN log
      PROVE  /\ log[i].block \in 1 .. pub'.seen
             /\ log[i].data = NodeDataToString(Payload(fin[log[i].block]))'
  <2>1. log[i].block \in 1 .. pub.seen
        /\ log[i].data = NodeDataToString(Payload(fin[log[i].block]))
    BY DEF LogSound
  <2>2. fin'[log[i].block] = fin[log[i].block]
    BY <1>1, <2>1 DEF Grows
  <2> QED BY <1>1, <2>1, <2>2 DEF NodeDataToString, Payload
<1> QED BY <1>2 DEF LogSound

\* The publish task does nothing.
LEMMA PublishIdles ==
    ASSUME ChainSound, Grows, LogSound, WatchSound, pub' = pub, log' = log, conf' = conf,
           faulty' = faulty, unread' = unread
    PROVE  LogSound' /\ WatchSound'
<1>1. Len(fin) \in Nat /\ Len(fin') \in Nat /\ Len(fin) <= Len(fin')
      /\ pub.from \in Nat /\ pub.seen \in 1 .. Len(fin)
  BY SeqFacts DEF ChainSound, WatchSound, Grows
<1>2. LogSound'
  BY <1>1, LogStays
<1>3. \A b \in 1 .. Len(fin) : Settled(b) => Settled(b)'
  BY SettledStays
<1>4. fin'[pub.seen] = fin[pub.seen]
  BY <1>1 DEF Grows
<1>5. pub.pc = "watch" => \A b \in pub.from + 1 .. pub.seen : Settled(b)'
  BY <1>1, <1>3 DEF WatchSound
<1>6. pub.pc = "push" =>
          /\ \A b \in pub.from + 1 .. pub.seen - 1 : Settled(b)'
          /\ \A i \in DOMAIN log : log[i].block < pub.seen
          /\ pub.update = [block |-> pub.seen, value |-> Payload(fin'[pub.seen])]
  BY <1>1, <1>3, <1>4 DEF WatchSound
<1>7. /\ {"pc", "seen", "from", "update"} \subseteq DOMAIN pub
      /\ pub.pc \in {"none", "spawned"} => log = <<>>
  BY DEF WatchSound
<1> QED BY <1>1, <1>2, <1>5, <1>6, <1>7 DEF WatchSound, Payload

\* The next finalized block.
LEMMA WatchKeeps ==
    ASSUME ChainSound, LogSound, WatchSound, WatchBlock
    PROVE  LogSound' /\ WatchSound'
<1>0. PICK b : b = pub.seen + 1
  OBVIOUS
<1> DEFINE v == Payload(fin[b])
           publishes == Updates(fin[b], BridgeNode, "payload") /\ v # None /\ Readable(v)
<1>1. /\ pub.pc = "watch" /\ pub.seen < Len(fin)
      /\ fin' = fin /\ log' = log /\ conf' = conf
      /\ faulty \subseteq faulty' /\ unread \subseteq unread'
  BY DEF WatchBlock, chain
<1>2. /\ Len(fin) \in Nat /\ pub.from \in Nat /\ pub.seen \in 1 .. Len(fin)
      /\ {"pc", "seen", "from", "update"} \subseteq DOMAIN pub
  BY SeqFacts DEF ChainSound, WatchSound
<1>3. b \in 1 .. Len(fin)
  BY <1>0, <1>1, <1>2
<1>4. Grows
  BY <1>1, StillGrows
<1>5. \A c \in pub.from + 1 .. pub.seen : Settled(c)'
  BY <1>1, <1>2, <1>4, SettledStays DEF WatchSound
<1>6. \A i \in DOMAIN log : log[i].block \in 1 .. pub.seen
  BY DEF LogSound
<1>7. ASSUME pub' = [pub EXCEPT !.seen = b], Settled(b)'
      PROVE  LogSound' /\ WatchSound'
  <2>1. /\ pub'.seen = b /\ pub'.from = pub.from /\ pub'.pc = "watch"
        /\ {"pc", "seen", "from", "update"} \subseteq DOMAIN pub'
    BY <1>1, <1>2, <1>7
  <2>2. LogSound'
    BY <1>0, <1>1, <1>2, <1>4, <2>1, LogStays
  <2>3. \A c \in pub.from + 1 .. b : Settled(c)'
    BY <1>0, <1>2, <1>5, <1>7
  <2> QED BY <1>1, <1>2, <1>3, <2>1, <2>2, <2>3 DEF WatchSound
<1>8. CASE pub' = [pub EXCEPT !.seen = b] /\ faulty' = faulty \union {b}
  BY <1>7, <1>8 DEF Settled
<1>9. CASE publishes /\ pub' = [pub EXCEPT !.seen = b, !.pc = "push",
                                           !.update = ChangeIn(b, BridgeNode, "payload")]
  <2>1. /\ pub'.seen = b /\ pub'.from = pub.from /\ pub'.pc = "push"
        /\ pub'.update = [block |-> b, value |-> v]
        /\ {"pc", "seen", "from", "update"} \subseteq DOMAIN pub'
    BY <1>2, <1>9 DEF ChangeIn, Payload
  <2>2. LogSound'
    BY <1>0, <1>1, <1>2, <1>4, <2>1, LogStays
  <2>3. b - 1 = pub.seen /\ \A i \in DOMAIN log : log[i].block < b
    BY <1>0, <1>2, <1>6
  <2>4. \A c \in pub.from + 1 .. b - 1 : Settled(c)'
    BY <1>5, <2>3
  <2>5. v = Payload(fin'[b])
    BY <1>1
  <2> HIDE DEF v
  <2> QED BY <1>1, <1>2, <1>3, <2>1, <2>2, <2>3, <2>4, <2>5 DEF WatchSound, Payload
<1>10. CASE /\ ~publishes /\ pub' = [pub EXCEPT !.seen = b]
            /\ unread' = IF Updates(fin[b], BridgeNode, "payload") /\ v # None
                         THEN unread \union {v} ELSE unread
  <2>1. Settled(b)'
    BY <1>1, <1>10 DEF Settled, Payload
  <2> QED BY <1>7, <1>10, <2>1
<1> QED BY <1>0, <1>8, <1>9, <1>10 DEF WatchBlock, ChangeIn, Payload

\* The update is queued.
LEMMA PushKeeps ==
    ASSUME ChainSound, LogSound, WatchSound, PushUpdate
    PROVE  LogSound' /\ WatchSound'
<1> DEFINE out == [block |-> pub.update.block, data |-> NodeDataToString(pub.update.value)]
           n == Len(log)
<1>1. /\ pub.pc = "push" /\ log' = Append(log, out)
      /\ pub' = [pub EXCEPT !.pc = "watch", !.update = None]
      /\ fin' = fin /\ conf' = conf /\ faulty' = faulty /\ unread' = unread
  BY DEF PushUpdate, chain
<1>2. /\ Len(fin) \in Nat /\ pub.from \in Nat /\ pub.seen \in 1 .. Len(fin)
      /\ {"pc", "seen", "from", "update"} \subseteq DOMAIN pub
      /\ \A b \in pub.from + 1 .. pub.seen - 1 : Settled(b)
      /\ \A i \in DOMAIN log : log[i].block < pub.seen
      /\ pub.update = [block |-> pub.seen, value |-> Payload(fin[pub.seen])]
  BY <1>1, SeqFacts DEF ChainSound, WatchSound
<1>3. /\ pub'.pc = "watch" /\ pub'.seen = pub.seen /\ pub'.from = pub.from
      /\ {"pc", "seen", "from", "update"} \subseteq DOMAIN pub'
  BY <1>1, <1>2
<1>4. out.block = pub.seen /\ out.data = NodeDataToString(Payload(fin[pub.seen]))
  BY <1>2
<1> HIDE DEF out
<1>5. /\ IsSeq(log') /\ n \in Nat
      /\ DOMAIN log = 1 .. n /\ DOMAIN log' = 1 .. n + 1
      /\ \A i \in 1 .. n : log'[i] = log[i]
      /\ log'[n + 1] = out
  BY <1>1, AppendIsSeq DEF LogSound
<1> HIDE DEF n
<1>6. ASSUME NEW i \in DOMAIN log'
      PROVE  /\ log'[i].block \in 1 .. pub'.seen
             /\ log'[i].data = NodeDataToString(Payload(fin[log[i].block]))'
  <2>1. /\ log'[i].block \in 1 .. pub.seen
        /\ log'[i].data = NodeDataToString(Payload(fin[log'[i].block]))
    <3>1. CASE i \in 1 .. n
      BY <1>5, <3>1 DEF LogSound
    <3>2. CASE i = n + 1
      BY <1>2, <1>4, <1>5, <3>2
    <3> QED BY <1>5, <3>1, <3>2
  <2> QED BY <1>1, <1>3, <2>1 DEF NodeDataToString, Payload
<1>7. ASSUME NEW i \in DOMAIN log', NEW j \in DOMAIN log', i < j
      PROVE  log'[i].block < log'[j].block
  <2>1. i \in 1 .. n
    BY <1>5, <1>7
  <2>2. CASE j \in 1 .. n
    BY <1>5, <1>7, <2>1, <2>2 DEF LogSound
  <2>3. CASE j = n + 1
    BY <1>2, <1>4, <1>5, <2>1, <2>3
  <2> QED BY <1>5, <2>2, <2>3
<1>8. LogSound'
  BY <1>5, <1>6, <1>7 DEF LogSound
<1>9. \A b \in pub.from + 1 .. pub.seen : Settled(b)'
  <2> SUFFICES ASSUME NEW b \in pub.from + 1 .. pub.seen PROVE Settled(b)'
    OBVIOUS
  <2>1. CASE b = pub.seen
    <3>1. n + 1 \in DOMAIN log' /\ log'[n + 1].block = b
      BY <1>4, <1>5, <2>1
    <3> QED BY <3>1 DEF Settled
  <2>2. CASE b # pub.seen
    <3>1. Settled(b)
      BY <1>2, <2>2
    <3> QED BY <1>1, <1>5, <3>1 DEF Settled, Payload
  <2> QED BY <2>1, <2>2
<1> QED BY <1>1, <1>2, <1>3, <1>8, <1>9 DEF WatchSound

\* The publish task and the chain beside it.
LEMMA PublishStep ==
    ASSUME ChainSound, LogSound, WatchSound, StartSound, [Next]_<<chain, client, bridge, cli>>
    PROVE  LogSound' /\ WatchSound' /\ StartSound'
<1>1. Grows
  BY ChainGrows
<1>2. CASE pub' = pub /\ log' = log /\ conf' = conf /\ faulty' = faulty /\ unread' = unread
           /\ "pc" \in DOMAIN sub' /\ (sub'.pc = "none" => sub.pc = "none")
  <2>1. LogSound' /\ WatchSound'
    BY <1>1, <1>2, PublishIdles
  <2> QED BY <1>2, <2>1 DEF StartSound
<1>3. CASE UNCHANGED bridge
  BY <1>2, <1>3 DEF bridge, StartSound
<1>4. CASE Start
  <2>1. PICK pc \in {"spawned", "refused"} : /\ sub' = [sub EXCEPT !.pc = pc]
                                             /\ pub' = [pub EXCEPT !.pc = pc]
    BY <1>4 DEF Start
  <2>2. fin' = fin /\ log' = log /\ conf' = conf /\ sub.pc = "none" /\ log = <<>>
    BY <1>4 DEF Start, chain, StartSound, WatchSound
  <2>3. /\ pub'.seen = pub.seen /\ pub'.from = pub.from /\ pub'.pc = pc
        /\ {"pc", "seen", "from", "update"} \subseteq DOMAIN pub'
        /\ "pc" \in DOMAIN sub' /\ sub'.pc = pc
    BY <2>1 DEF WatchSound, StartSound
  <2>4. LogSound'
    BY <2>2, SeqFacts DEF LogSound
  <2>5. WatchSound'
    BY <2>2, <2>3 DEF WatchSound
  <2> QED BY <2>3, <2>4, <2>5 DEF StartSound
<1>5. CASE PublishStarts
  <2>1. PICK pc \in {"watch", "failed"} :
           pub' = [pub EXCEPT !.pc = pc, !.seen = Len(fin), !.from = Len(fin)]
    BY <1>5 DEF PublishStarts
  <2>2. /\ fin' = fin /\ log' = log /\ conf' = conf /\ sub' = sub /\ pub.pc = "spawned"
        /\ log = <<>> /\ Len(fin) \in Nat /\ Len(fin) >= 1
    BY <1>5, SeqFacts DEF PublishStarts, chain, WatchSound, ChainSound
  <2>3. /\ pub'.seen = Len(fin) /\ pub'.from = Len(fin) /\ pub'.pc = pc
        /\ {"pc", "seen", "from", "update"} \subseteq DOMAIN pub'
    BY <2>1 DEF WatchSound
  <2>4. LogSound'
    BY <2>2, SeqFacts DEF LogSound
  <2>5. WatchSound'
    BY <2>2, <2>3 DEF WatchSound
  <2> QED BY <2>2, <2>4, <2>5 DEF StartSound
<1>6. CASE WatchBlock
  <2>1. sub' = sub /\ sub.pc # "none"
    BY <1>6 DEF WatchBlock, StartSound
  <2> QED BY <1>6, <2>1, WatchKeeps DEF StartSound
<1>7. CASE PushUpdate
  <2>1. sub' = sub /\ sub.pc # "none"
    BY <1>7 DEF PushUpdate, StartSound
  <2> QED BY <1>7, <2>1, PushKeeps DEF StartSound
<1>8. CASE StreamEnds
  <2>1. /\ fin' = fin /\ log' = log /\ conf' = conf /\ sub' = sub /\ pub.pc = "watch"
        /\ pub' = [pub EXCEPT !.pc = "ended"]
    BY <1>8 DEF StreamEnds, chain
  <2>2. /\ pub'.seen = pub.seen /\ pub'.from = pub.from /\ pub'.pc = "ended"
        /\ {"pc", "seen", "from", "update"} \subseteq DOMAIN pub'
        /\ pub.seen \in Nat
    BY <2>1 DEF WatchSound
  <2>3. LogSound'
    BY <1>1, <2>1, <2>2, LogStays
  <2>4. WatchSound'
    BY <2>1, <2>2 DEF WatchSound
  <2> QED BY <2>1, <2>3, <2>4 DEF StartSound
<1>9. CASE SubscribeConnects \/ EnsureCanWrite \/ PollConnects \/ ConnectionBreaks
           \/ MessageArrives \/ PollFails \/ SleepEnds \/ EventLoopSends
           \/ TakeMessage \/ UpdateSettles
  <2>1. pub' = pub /\ log' = log /\ conf' = conf /\ faulty' = faulty /\ unread' = unread
    BY <1>9 DEF SubscribeConnects, EnsureCanWrite, PollConnects, ConnectionBreaks,
       MessageArrives, PollFails, SleepEnds, EventLoopSends, TakeMessage, UpdateSettles
  <2>2. "pc" \in DOMAIN sub' /\ (sub'.pc = "none" => sub.pc = "none")
    BY <1>9 DEF SubscribeConnects, EnsureCanWrite, PollConnects, ConnectionBreaks,
       MessageArrives, PollFails, SleepEnds, EventLoopSends, TakeMessage, UpdateSettles,
       StartSound
  <2> QED BY <1>2, <2>1, <2>2
<1>10. CASE Invoke \/ PinBlock \/ Canonical \/ Read \/ Show \/ Permit \/ Watch \/ Prepare \/ Done
  <2>1. UNCHANGED bridge
    BY <1>10 DEF Invoke, PinBlock, Canonical, Read, Show, Permit, Watch, Prepare, Done
  <2> QED BY <1>3, <2>1
<1> QED BY <1>3, <1>4, <1>5, <1>6, <1>7, <1>8, <1>9, <1>10 DEF Next, BridgeNext

-----------------------------------------------------------------------------
(***************************************************************************)
(* The invariant and what follows from it.                                 *)
(***************************************************************************)
CpsInv ==
    /\ ChainSound
    /\ CommandSound
    /\ ReadSound
    /\ LogSound
    /\ WatchSound
    /\ StartSound

LEMMA CpsInitially ==
    ASSUME Init
    PROVE  CpsInv
<1>1. /\ fin = <<[number |-> 0, tree |-> Genesis, done |-> <<>>]>>
      /\ sub = [pc |-> "none", asked |-> FALSE, message |-> None]
      /\ pub = [pc |-> "none", seen |-> 1, from |-> 1, update |-> None]
      /\ log = <<>>
  BY DEF Init, ClientInit, ChainInit, BridgeInit
<1>2. PICK script \in Script : cli = NoCommand(script, None, None)
  BY DEF Init
<1>3. ChainSound /\ Len(fin) = 1
  <2>1. fin \in Seq({[number |-> 0, tree |-> Genesis, done |-> <<>>]}) /\ Len(fin) = 1
    BY <1>1
  <2> QED BY <2>1 DEF ChainSound, IsSeq
<1>4. CommandSound
  <2>1. script \in Seq(Commands)
    BY ScriptConstants
  <2> QED BY <1>2, <2>1 DEF CommandSound, NoCommand
<1>5. ReadSound
  BY <1>2, SeqFacts DEF ReadSound, NoCommand
<1>6. LogSound
  BY <1>1, SeqFacts DEF LogSound
<1>7. WatchSound
  BY <1>1, <1>3 DEF WatchSound
<1>8. StartSound
  BY <1>1 DEF StartSound
<1> QED BY <1>3, <1>4, <1>5, <1>6, <1>7, <1>8 DEF CpsInv

\* The invariant of the command line and the publish task, beside a chain that
\* builds, finalizes and abandons blocks as it likes.
THEOREM CpsInvariant == Spec => []CpsInv
<1>1. Init => CpsInv
  BY CpsInitially
<1>2. CpsInv /\ [Next]_<<chain, client, bridge, cli>> => CpsInv'
  <2> SUFFICES ASSUME CpsInv, [Next]_<<chain, client, bridge, cli>> PROVE CpsInv'
    OBVIOUS
  <2>1. ChainSound'
    BY ChainGrows DEF CpsInv
  <2>2. CommandSound'
    BY CommandStep DEF CpsInv
  <2>3. ReadSound'
    BY ReadStep DEF CpsInv
  <2>4. LogSound' /\ WatchSound' /\ StartSound'
    BY PublishStep DEF CpsInv
  <2> QED BY <2>1, <2>2, <2>3, <2>4 DEF CpsInv
<1> QED BY <1>1, <1>2, PTL DEF Spec

\* Every read of `cps show' and the other reading commands answers from one
\* finalized block (CpsAt), whatever is finalized between the requests.
THEOREM OneBlockShown == Spec => []ShownIsOneBlock
<1>1. CpsInv => ShownIsOneBlock
  <2> SUFFICES ASSUME CpsInv, cli.pc = "read"
               PROVE  \E b \in DOMAIN fin :
                         /\ NodeId(fin[b].tree, cli.cmd.target) = cli.node
                         /\ \A i \in DOMAIN cli.vals :
                               Answer(cli.cmd, fin[b].tree, cli.node, Asks(cli.cmd)[i])
                                  = Ok(cli.vals[i])
    BY DEF ShownIsOneBlock
  <2>1. cli.at \in DOMAIN fin
    BY SeqFacts DEF CpsInv, ReadSound, ChainSound
  <2> QED BY <2>1 DEF CpsInv, ReadSound
<1> QED BY <1>1, CpsInvariant, PTL

\* The bridge publishes the finalized payloads of its node in block order, as
\* of their blocks, and passes over none without a reason.
THEOREM PublishesInOrder == Spec => []PublishedInBlockOrder
<1>1. CpsInv => PublishedInBlockOrder
  <2> SUFFICES ASSUME CpsInv PROVE PublishedInBlockOrder
    OBVIOUS
  <2>1. \A i, j \in DOMAIN log : i < j => log[i].block < log[j].block
    BY DEF CpsInv, LogSound
  <2>2. \A i \in DOMAIN log :
           log[i].data = NodeDataToString(fin[log[i].block].tree.data[BridgeNode]["payload"])
    BY DEF CpsInv, LogSound, Payload
  <2>3. pub.pc = "watch" => \A b \in pub.from + 1 .. pub.seen : Settled(b)
    BY DEF CpsInv, WatchSound
  <2> QED BY <2>1, <2>2, <2>3 DEF PublishedInBlockOrder, Settled, Payload
<1> QED BY <1>1, CpsInvariant, PTL

-----------------------------------------------------------------------------
(***************************************************************************)
(* Blocks.  A transaction is executed at most once: its nonce is below that *)
(* of its signer from the block on that executed it.                       *)
(***************************************************************************)
Ops == {"set", "create", "delete", "scope", "grant", "revoke", "identity", "clear_identity"}

TxSound(tx) == tx.who \in Account /\ tx.nonce \in Nat /\ tx.call.op \in Ops

TreeSound(tree) == "nonce" \in DOMAIN tree /\ tree.nonce \in [Account -> Nat]

\* The pallet changes no nonce.
LEMMA ChangedNonce ==
    ASSUME NEW tree, "nonce" \in DOMAIN tree, NEW who, NEW call, call.op \in Ops
    PROVE  /\ "nonce" \in DOMAIN Changed(tree, who, call)
           /\ Changed(tree, who, call).nonce = tree.nonce
<1>1. ASSUME NEW t, "nonce" \in DOMAIN t, NEW n, NEW w
      PROVE  "nonce" \in DOMAIN NewScope(t, n, w) /\ NewScope(t, n, w).nonce = t.nonce
  BY <1>1 DEF NewScope
<1>2. CASE call.op = "set"
  BY <1>2 DEF Changed
<1>3. CASE call.op = "create"
  <2> DEFINE id == tree.next
             node == [tree EXCEPT !.nodes = @ \union {id}, !.parent[id] = call.node,
                                  !.next = @ + 1, !.data[id] = call.data,
                                  !.identity[id] = IF call.identity = None THEN None
                                                   ELSE call.identity.account]
  <2>1. "nonce" \in DOMAIN node /\ node.nonce = tree.nonce
    OBVIOUS
  <2>2. Changed(tree, who, call) = IF call.node = None THEN NewScope(node, id, who) ELSE node
    BY <1>3 DEF Changed, NewNode
  <2> HIDE DEF node
  <2> QED BY <1>1, <2>1, <2>2
<1>4. CASE call.op = "delete"
  BY <1>4 DEF Changed
<1>5. CASE call.op = "scope"
  BY <1>1, <1>5 DEF Changed
<1>6. CASE call.op = "grant"
  BY <1>6 DEF Changed
<1>7. CASE call.op = "revoke"
  BY <1>7 DEF Changed
<1>8. CASE call.op = "identity"
  BY <1>8 DEF Changed
<1>9. CASE call.op = "clear_identity"
  BY <1>9 DEF Changed
<1> QED BY <1>2, <1>3, <1>4, <1>5, <1>6, <1>7, <1>8, <1>9 DEF Ops

\* An execution uses up one nonce of its signer, whatever comes of it.
Executed(tree, tx, step) ==
    /\ step.done.tx = tx
    /\ TreeSound(step.tree)
    /\ step.tree.nonce = [tree.nonce EXCEPT ![tx.who] = @ + 1]

LEMMA ExecuteIs ==
    ASSUME NEW tree, TreeSound(tree), NEW now, NEW tx, TxSound(tx)
    PROVE  Executed(tree, tx, Execute(tree, now, tx))
<1> DEFINE error == Refusal(tree, now, tx.who, tx.call)
           after == IF error = None THEN Changed(tree, tx.who, tx.call) ELSE tree
<1>1. "nonce" \in DOMAIN after /\ after.nonce = tree.nonce
  BY ChangedNonce DEF TreeSound, TxSound
<1>2. Execute(tree, now, tx) = [tree |-> [after EXCEPT !.nonce[tx.who] = @ + 1],
                                done |-> [tx |-> tx, error |-> error]]
  BY DEF Execute
<1> HIDE DEF after, error
<1>3. Execute(tree, now, tx).tree = [after EXCEPT !.nonce[tx.who] = @ + 1]
      /\ Execute(tree, now, tx).done.tx = tx
  BY <1>2
<1>4. DOMAIN [after EXCEPT !.nonce[tx.who] = @ + 1] = DOMAIN after
      /\ [after EXCEPT !.nonce[tx.who] = @ + 1].nonce = [tree.nonce EXCEPT ![tx.who] = @ + 1]
  BY <1>1
<1>5. [tree.nonce EXCEPT ![tx.who] = @ + 1] \in [Account -> Nat]
  BY DEF TreeSound, TxSound
<1> QED BY <1>1, <1>3, <1>4, <1>5 DEF TreeSound, Executed

\* How many of the first k transactions are of this account.
SentBy(txs, k, a) == Cardinality({j \in 1 .. k : txs[j].who = a})

LEMMA SentNone ==
    ASSUME NEW txs, NEW a
    PROVE  SentBy(txs, 0, a) = 0
<1>1. {j \in 1 .. 0 : txs[j].who = a} = {}
  OBVIOUS
<1> QED BY <1>1, FS_EmptySet DEF SentBy

LEMMA SentCounts ==
    ASSUME NEW txs, NEW k \in Nat, NEW a
    PROVE  /\ SentBy(txs, k, a) \in Nat
           /\ SentBy(txs, k + 1, a) = SentBy(txs, k, a) + (IF txs[k + 1].who = a THEN 1 ELSE 0)
           /\ \A i \in 0 .. k : SentBy(txs, i, a) <= SentBy(txs, k, a)
<1> DEFINE of(n) == {j \in 1 .. n : txs[j].who = a}
<1>1. ASSUME NEW n \in Nat PROVE IsFiniteSet(of(n)) /\ Cardinality(of(n)) \in Nat
  <2>1. IsFiniteSet(1 .. n)
    BY FS_Interval
  <2>2. IsFiniteSet(of(n))
    BY <2>1, FS_Subset
  <2> QED BY <2>2, FS_CardinalityType
<1>4. IF txs[k + 1].who = a THEN of(k + 1) = of(k) \cup {k + 1} /\ k + 1 \notin of(k)
      ELSE of(k + 1) = of(k)
  OBVIOUS
<1>5. \A i \in 0 .. k : of(i) \in SUBSET of(k)
  OBVIOUS
<1> HIDE DEF of
<1>6. Cardinality(of(k + 1)) = Cardinality(of(k)) + (IF txs[k + 1].who = a THEN 1 ELSE 0)
  <2>1. CASE txs[k + 1].who = a
    BY <1>1, <1>4, <2>1, FS_AddElement
  <2>2. CASE txs[k + 1].who # a
    BY <1>1, <1>4, <2>2
  <2> QED BY <2>1, <2>2
<1>7. \A i \in 0 .. k : Cardinality(of(i)) <= Cardinality(of(k))
  BY <1>1, <1>5, FS_Subset
<1> QED BY <1>1, <1>6, <1>7 DEF of, SentBy

\* What a block is after the first k transactions.
Ran(block, tree, txs, k) ==
    /\ {"tree", "done"} \subseteq DOMAIN block
    /\ IsSeq(block.done) /\ Len(block.done) = k
    /\ \A i \in 1 .. k : block.done[i].tx = txs[i]
    /\ TreeSound(block.tree)
    /\ \A a \in Account : block.tree.nonce[a] = tree.nonce[a] + SentBy(txs, k, a)

LEMMA RanNext ==
    ASSUME NEW tree, TreeSound(tree), NEW txs, NEW block, NEW k \in Nat,
           Ran(block, tree, txs, k), TxSound(txs[k + 1])
    PROVE  Ran(ExecuteNext(block, txs[k + 1]), tree, txs, k + 1)
<1> DEFINE tx == txs[k + 1]
           step == Execute(block.tree, block.number, tx)
           next == ExecuteNext(block, tx)
<1>1. next = [block EXCEPT !.tree = step.tree, !.done = Append(@, step.done)]
  BY DEF ExecuteNext
<1>2. /\ step.done.tx = tx /\ TreeSound(step.tree)
      /\ step.tree.nonce = [block.tree.nonce EXCEPT ![tx.who] = @ + 1]
  <2>1. TreeSound(block.tree)
    BY DEF Ran
  <2>2. Executed(block.tree, tx, step)
    BY <2>1, ExecuteIs
  <2> QED BY <2>2 DEF Executed
<1> HIDE DEF step, next
<1>3. /\ {"tree", "done"} \subseteq DOMAIN next
      /\ next.tree = step.tree /\ next.done = Append(block.done, step.done)
  BY <1>1 DEF Ran
<1>4. /\ IsSeq(next.done) /\ Len(next.done) = k + 1
      /\ \A i \in 1 .. k : next.done[i] = block.done[i]
      /\ next.done[k + 1] = step.done
  BY <1>3, AppendIsSeq DEF Ran
<1>5. \A i \in 1 .. k + 1 : next.done[i].tx = txs[i]
  BY <1>2, <1>4 DEF Ran
<1>6. ASSUME NEW a \in Account
      PROVE  next.tree.nonce[a] = tree.nonce[a] + SentBy(txs, k + 1, a)
  <2>1. /\ block.tree.nonce[a] = tree.nonce[a] + SentBy(txs, k, a)
        /\ block.tree.nonce \in [Account -> Nat] /\ tree.nonce[a] \in Nat
    BY DEF Ran, TreeSound
  <2>2. /\ SentBy(txs, k, a) \in Nat
        /\ SentBy(txs, k + 1, a) = SentBy(txs, k, a) + (IF tx.who = a THEN 1 ELSE 0)
    BY SentCounts
  <2>3. next.tree.nonce[a] = IF a = tx.who THEN block.tree.nonce[a] + 1 ELSE block.tree.nonce[a]
    BY <1>2, <1>3, <2>1
  <2> HIDE DEF tx
  <2> QED BY <2>1, <2>2, <2>3
<1> QED BY <1>2, <1>3, <1>4, <1>5, <1>6 DEF Ran, next

-----------------------------------------------------------------------------
\* f is the execution as far as its domain goes.
Runs(f, base, txs) ==
    f = [k \in DOMAIN f |-> IF k = 0 THEN base ELSE ExecuteNext(f[k - 1], txs[k])]

\* Every set of numbers has a least one.
LEMMA LeastNumber ==
    ASSUME NEW T, T \subseteq Nat, T # {}
    PROVE  \E x \in T : \A y \in T : x <= y
<1>1. IsWellFoundedOn(OpToRel(<, Nat), Nat)
  BY NatLessThanWellFounded
<1>2. PICK x \in T : \A y \in T : ~ (<<y, x>> \in OpToRel(<, Nat))
  BY <1>1, WFMin
<1>3. \A y \in T : ~ (y < x)
  BY <1>2 DEF OpToRel
<1> QED BY <1>3

\* An execution of every length exists: the shortest one that did not would
\* extend the one before it.
LEMMA RunExists ==
    ASSUME NEW base, NEW txs, NEW d \in Nat
    PROVE  \E f : DOMAIN f = 0 .. d /\ Runs(f, base, txs)
<1> DEFINE missing == {n \in Nat : ~\E f : DOMAIN f = 0 .. n /\ Runs(f, base, txs)}
<1> SUFFICES ASSUME missing # {} PROVE FALSE
  OBVIOUS
<1>1. PICK n \in missing : \A m \in missing : n <= m
  <2>1. missing \subseteq Nat
    OBVIOUS
  <2> HIDE DEF missing
  <2> QED BY <2>1, LeastNumber
<1>2. CASE n = 0
  <2> DEFINE f == [k \in 0 .. 0 |-> base]
  <2>1. DOMAIN f = 0 .. 0 /\ Runs(f, base, txs)
    BY DEF Runs
  <2> QED BY <1>1, <1>2, <2>1
<1>3. CASE n # 0
  <2>1. n - 1 \in Nat /\ n - 1 \notin missing
    BY <1>1, <1>3
  <2>2. PICK g : DOMAIN g = 0 .. n - 1 /\ Runs(g, base, txs)
    BY <2>1
  <2> DEFINE f == [k \in 0 .. n |-> IF k = n THEN ExecuteNext(g[n - 1], txs[n]) ELSE g[k]]
  <2>3. \A k \in 0 .. n - 1 : g[k] = IF k = 0 THEN base ELSE ExecuteNext(g[k - 1], txs[k])
    BY <2>2 DEF Runs
  <2>4. \A k \in 0 .. n : f[k] = IF k = 0 THEN base ELSE ExecuteNext(f[k - 1], txs[k])
    BY <1>3, <2>1, <2>3
  <2>5. DOMAIN f = 0 .. n /\ Runs(f, base, txs)
    BY <2>4 DEF Runs
  <2> QED BY <1>1, <2>5
<1> QED BY <1>2, <1>3

\* f leads from base to result.
LeadsTo(f, base, txs, n, result) ==
    /\ f[0] = base
    /\ \A k \in 1 .. n : f[k] = ExecuteNext(f[k - 1], txs[k])
    /\ result = f[n]

\* What the recursion of BlockOn computes.
LEMMA BlockOnRuns ==
    ASSUME NEW tree, NEW number, NEW txs, Len(txs) \in Nat
    PROVE  \E f : LeadsTo(f, [number |-> number, tree |-> tree, done |-> <<>>], txs, Len(txs),
                          BlockOn(tree, number, txs))
<1> DEFINE base == [number |-> number, tree |-> tree, done |-> <<>>]
           n == Len(txs)
           isBlock(f) == f = [k \in 0 .. n |-> IF k = 0 THEN base ELSE ExecuteNext(f[k - 1], txs[k])]
           block == CHOOSE f : isBlock(f)
<1>1. BlockOn(tree, number, txs) = block[n]
  BY DEF BlockOn
<1>2. PICK g : DOMAIN g = 0 .. n /\ Runs(g, base, txs)
  <2> HIDE DEF base
  <2> QED BY RunExists
<1>3. isBlock(g)
  BY <1>2 DEF Runs
<1>4. isBlock(block)
  <2> HIDE DEF isBlock
  <2> QED BY <1>3
<1> HIDE DEF base, block
<1>5. block[0] = base /\ \A k \in 1 .. n : block[k] = ExecuteNext(block[k - 1], txs[k])
  BY <1>4
<1>6. LeadsTo(block, base, txs, n, BlockOn(tree, number, txs))
  BY <1>1, <1>5 DEF LeadsTo
<1> QED BY <1>6 DEF base

\* A block holds its transactions in turn, and the nonces of their signers are
\* past theirs.
ExecutesAll(tree, txs, n, b) ==
    /\ IsSeq(b.done) /\ Len(b.done) = n
    /\ \A i \in 1 .. n : b.done[i].tx = txs[i]
    /\ TreeSound(b.tree)
    /\ \A a \in Account : tree.nonce[a] <= b.tree.nonce[a]
    /\ \A i \in 1 .. n : txs[i].nonce < b.tree.nonce[txs[i].who]

LEMMA BlockOnIs ==
    ASSUME NEW tree, TreeSound(tree), NEW number, NEW n \in Nat, NEW T, NEW txs \in [1 .. n -> T],
           \A i \in 1 .. n : TxSound(txs[i]), Executable(tree, txs)
    PROVE  ExecutesAll(tree, txs, n, BlockOn(tree, number, txs))
<1>1. Len(txs) = n /\ DOMAIN txs = 1 .. n
  <2>1. txs \in Seq(T)
    OBVIOUS
  <2> QED BY <2>1
<1>2. PICK f : /\ f[0] = [number |-> number, tree |-> tree, done |-> <<>>]
               /\ \A k \in 1 .. n : f[k] = ExecuteNext(f[k - 1], txs[k])
               /\ BlockOn(tree, number, txs) = f[n]
  <2>1. PICK f : LeadsTo(f, [number |-> number, tree |-> tree, done |-> <<>>], txs, n,
                         BlockOn(tree, number, txs))
    BY <1>1, BlockOnRuns
  <2> QED BY <2>1 DEF LeadsTo
<1> DEFINE bad == {k \in 0 .. n : ~Ran(f[k], tree, txs, k)}
<1>3. bad = {}
  <2> SUFFICES ASSUME bad # {} PROVE FALSE
    OBVIOUS
  <2>1. PICK k \in bad : \A m \in bad : k <= m
    <3>1. bad \subseteq Nat
      OBVIOUS
    <3> HIDE DEF bad
    <3> QED BY <3>1, LeastNumber
  <2>2. k \in 0 .. n /\ ~Ran(f[k], tree, txs, k)
    BY <2>1
  <2>3. Ran(f[0], tree, txs, 0)
    <3>1. f[0].done = <<>> /\ f[0].tree = tree /\ {"tree", "done"} \subseteq DOMAIN f[0]
      BY <1>2
    <3>2. \A a \in Account : tree.nonce[a] = tree.nonce[a] + SentBy(txs, 0, a)
      BY SentNone DEF TreeSound
    <3> QED BY <3>1, <3>2, SeqFacts DEF Ran
  <2>4. k # 0
    BY <2>2, <2>3
  <2> DEFINE m == k - 1
  <2>5. m \in Nat /\ m + 1 = k /\ k \in 1 .. n
    BY <2>2, <2>4
  <2>6. Ran(f[m], tree, txs, m)
    <3>1. m \notin bad
      <4> HIDE DEF bad
      <4> QED BY <2>1, <2>2, <2>5
    <3> QED BY <2>2, <2>5, <3>1
  <2>7. f[k] = ExecuteNext(f[m], txs[k])
    BY <1>2, <2>5
  <2> HIDE DEF m
  <2>8. Ran(f[k], tree, txs, k)
    BY <2>5, <2>6, <2>7, RanNext
  <2> QED BY <2>2, <2>8
<1>4. Ran(f[n], tree, txs, n)
  BY <1>3
<1> DEFINE b == BlockOn(tree, number, txs)
<1>5. b = f[n]
  BY <1>2
<1> HIDE DEF b, bad
<1>6. /\ IsSeq(b.done) /\ Len(b.done) = n
      /\ \A i \in 1 .. n : b.done[i].tx = txs[i]
      /\ TreeSound(b.tree)
      /\ \A a \in Account : b.tree.nonce[a] = tree.nonce[a] + SentBy(txs, n, a)
  BY <1>4, <1>5 DEF Ran
<1>7. ASSUME NEW a \in Account PROVE tree.nonce[a] <= b.tree.nonce[a]
  <2>1. SentBy(txs, n, a) \in Nat /\ tree.nonce[a] \in Nat
    BY SentCounts DEF TreeSound
  <2> QED BY <1>6, <2>1
<1>8. ASSUME NEW i \in 1 .. n PROVE txs[i].nonce < b.tree.nonce[txs[i].who]
  <2> DEFINE a == txs[i].who
             m == i - 1
  <2>1. a \in Account
    BY DEF TxSound
  <2>2. m \in Nat /\ m + 1 = i /\ i \in 0 .. n /\ m < n
    OBVIOUS
  <2>3. txs[i].nonce = tree.nonce[a] + SentBy(txs, m, a)
    BY <1>1, <2>1 DEF Executable, SentBy
  <2>4. tree.nonce[a] \in Nat
    BY <2>1 DEF TreeSound
  <2>5. txs[m + 1].who = a
    BY <2>2
  <2> HIDE DEF a, m
  <2>6. SentBy(txs, m, a) \in Nat /\ SentBy(txs, i, a) = SentBy(txs, m, a) + 1
    BY <2>2, <2>5, SentCounts
  <2>7. SentBy(txs, i, a) <= SentBy(txs, n, a) /\ SentBy(txs, n, a) \in Nat
    BY <2>2, SentCounts
  <2>8. b.tree.nonce[a] = tree.nonce[a] + SentBy(txs, n, a)
    BY <1>6, <2>1
  <2>9. txs[i].nonce < b.tree.nonce[a]
    BY <2>3, <2>4, <2>6, <2>7, <2>8
  <2> QED BY <2>9 DEF a
<1>9. ExecutesAll(tree, txs, n, b)
  BY <1>6, <1>7, <1>8 DEF ExecutesAll
<1> QED BY <1>9 DEF b

-----------------------------------------------------------------------------
(***************************************************************************)
(* The ledger: the finalized blocks and the best ones above them.          *)
(***************************************************************************)
Holds(block, tx) == \E j \in DOMAIN block.done : block.done[j].tx = tx

\* Within a block the transactions of an account come in the order of nonces.
InTurn(block) ==
    \A i, j \in DOMAIN block.done :
        i < j /\ block.done[i].tx.who = block.done[j].tx.who
            => block.done[i].tx.nonce < block.done[j].tx.nonce

\* Along a chain of blocks nonces only rise, what was executed is below the
\* nonce of its signer ever after, and the transactions of an account are
\* executed in the order of their nonces: each of them once.
Ledger(s) ==
    /\ \A i \in DOMAIN s : TreeSound(s[i].tree) /\ InTurn(s[i])
    /\ \A i, k \in DOMAIN s : i <= k =>
          /\ \A a \in Account : s[i].tree.nonce[a] <= s[k].tree.nonce[a]
          /\ \A tx : Holds(s[i], tx) => TxSound(tx) /\ tx.nonce < s[k].tree.nonce[tx.who]
    /\ \A i, k \in DOMAIN s : i < k =>
          \A tx, ty : Holds(s[i], tx) /\ Holds(s[k], ty) /\ tx.who = ty.who => tx.nonce < ty.nonce

\* What a block does to the tree below it.
Extends(tree, block) ==
    /\ TreeSound(block.tree) /\ InTurn(block)
    /\ \A a \in Account : tree.nonce[a] <= block.tree.nonce[a]
    /\ \A tx : Holds(block, tx) =>
          /\ TxSound(tx)
          /\ tree.nonce[tx.who] <= tx.nonce /\ tx.nonce < block.tree.nonce[tx.who]

LEMMA LedgerGrows ==
    ASSUME NEW s, IsSeq(s), Len(s) >= 1, Ledger(s), NEW b, Extends(s[Len(s)].tree, b)
    PROVE  Ledger(Append(s, b))
<1> DEFINE n == Len(s)
           t == Append(s, b)
<1>1. /\ n \in Nat /\ n >= 1 /\ DOMAIN s = 1 .. n /\ DOMAIN t = 1 .. n + 1
      /\ \A i \in 1 .. n : t[i] = s[i]
      /\ t[n + 1] = b
  BY AppendIsSeq
<1>2. n \in DOMAIN s /\ TreeSound(s[n].tree) /\ Extends(s[n].tree, b) /\ TreeSound(b.tree)
  BY <1>1 DEF Ledger, Extends
<1> HIDE DEF n, t
<1>3. ASSUME NEW i \in 1 .. n, NEW tx, Holds(s[i], tx)
      PROVE  /\ TxSound(tx) /\ tx.nonce < b.tree.nonce[tx.who]
             /\ \A ty : Holds(b, ty) /\ tx.who = ty.who => tx.nonce < ty.nonce
  <2>1. TxSound(tx) /\ tx.nonce < s[n].tree.nonce[tx.who]
    BY <1>1, <1>2, <1>3 DEF Ledger
  <2>2. /\ tx.who \in Account /\ tx.nonce \in Nat
        /\ s[n].tree.nonce[tx.who] \in Nat /\ b.tree.nonce[tx.who] \in Nat
    BY <1>2, <2>1 DEF TxSound, TreeSound
  <2>3. s[n].tree.nonce[tx.who] <= b.tree.nonce[tx.who]
    BY <1>2, <2>2 DEF Extends
  <2>4. ASSUME NEW ty, Holds(b, ty), tx.who = ty.who
        PROVE  tx.nonce < ty.nonce
    <3>1. ty.nonce \in Nat /\ s[n].tree.nonce[tx.who] <= ty.nonce
      BY <1>2, <2>4 DEF Extends, TxSound
    <3> QED BY <2>1, <2>2, <3>1
  <2> QED BY <2>1, <2>2, <2>3, <2>4
<1>4. \A i \in DOMAIN t : TreeSound(t[i].tree) /\ InTurn(t[i])
  BY <1>1, <1>2 DEF Ledger, Extends
<1>5. ASSUME NEW i \in DOMAIN t, NEW k \in DOMAIN t, i <= k, NEW tx, Holds(t[i], tx)
      PROVE  TxSound(tx) /\ tx.nonce < t[k].tree.nonce[tx.who]
  <2>1. CASE k \in 1 .. n
    <3>1. i \in 1 .. n /\ t[i] = s[i] /\ t[k] = s[k]
      BY <1>1, <1>5, <2>1
    <3> QED BY <1>1, <1>5, <2>1, <3>1 DEF Ledger
  <2>2. CASE k = n + 1 /\ i \in 1 .. n
    BY <1>1, <1>3, <1>5, <2>2
  <2>3. CASE k = n + 1 /\ i = n + 1
    BY <1>1, <1>2, <1>5, <2>3 DEF Extends
  <2> QED BY <1>1, <1>5, <2>1, <2>2, <2>3
<1>6. ASSUME NEW i \in DOMAIN t, NEW k \in DOMAIN t, i <= k, NEW a \in Account
      PROVE  t[i].tree.nonce[a] <= t[k].tree.nonce[a]
  <2>1. CASE k \in 1 .. n
    <3>1. i \in 1 .. n /\ t[i] = s[i] /\ t[k] = s[k]
      BY <1>1, <1>6, <2>1
    <3> QED BY <1>1, <1>6, <2>1, <3>1 DEF Ledger
  <2>2. CASE k = n + 1 /\ i \in 1 .. n
    <3>1. t[i] = s[i] /\ t[k] = b /\ i \in DOMAIN s /\ i <= n
      BY <1>1, <2>2
    <3>2. s[i].tree.nonce[a] <= s[n].tree.nonce[a] /\ s[n].tree.nonce[a] <= b.tree.nonce[a]
      BY <1>2, <3>1 DEF Ledger, Extends
    <3>3. TreeSound(s[i].tree)
      BY <3>1 DEF Ledger
    <3>4. s[i].tree.nonce[a] \in Nat /\ s[n].tree.nonce[a] \in Nat /\ b.tree.nonce[a] \in Nat
      BY <1>2, <3>3 DEF TreeSound
    <3> QED BY <3>1, <3>2, <3>4
  <2>3. CASE k = n + 1 /\ i = n + 1
    <3>1. b.tree.nonce[a] \in Nat
      BY <1>2 DEF TreeSound
    <3> QED BY <1>1, <2>3, <3>1
  <2> QED BY <1>1, <1>6, <2>1, <2>2, <2>3
<1>7. ASSUME NEW i \in DOMAIN t, NEW k \in DOMAIN t, i < k,
             NEW tx, NEW ty, Holds(t[i], tx), Holds(t[k], ty), tx.who = ty.who
      PROVE  tx.nonce < ty.nonce
  <2>0. i \in 1 .. n
    BY <1>1, <1>7
  <2>1. CASE k \in 1 .. n
    BY <1>1, <1>7, <2>0, <2>1 DEF Ledger
  <2>2. CASE k = n + 1
    BY <1>1, <1>3, <1>7, <2>0, <2>2
  <2> QED BY <1>1, <2>1, <2>2
<1>8. Ledger(t)
  BY <1>4, <1>5, <1>6, <1>7 DEF Ledger
<1> QED BY <1>8 DEF t

\* u is s followed by t.
Joins(s, t, u) ==
    /\ IsSeq(u) /\ Len(s) \in Nat /\ Len(t) \in Nat
    /\ Len(u) = Len(s) + Len(t)
    /\ DOMAIN s = 1 .. Len(s) /\ DOMAIN t = 1 .. Len(t)
    /\ DOMAIN u = 1 .. Len(s) + Len(t)
    /\ \A i \in 1 .. Len(s) : u[i] = s[i]
    /\ \A i \in 1 .. Len(t) : u[Len(s) + i] = t[i]

LEMMA ConcatIs ==
    ASSUME NEW s, IsSeq(s), NEW t, IsSeq(t)
    PROVE  Joins(s, t, s \o t)
<1>1. PICK S : s \in Seq(S)
  BY DEF IsSeq
<1>2. PICK T : t \in Seq(T)
  BY DEF IsSeq
<1> DEFINE U == S \cup T
<1>3. s \in Seq(U) /\ t \in Seq(U)
  BY <1>1, <1>2
<1> HIDE DEF U
<1>4. s \o t \in Seq(U)
  BY <1>3
<1>5. /\ Len(s) \in Nat /\ Len(t) \in Nat /\ Len(s \o t) = Len(s) + Len(t)
      /\ DOMAIN s = 1 .. Len(s) /\ DOMAIN t = 1 .. Len(t)
      /\ DOMAIN (s \o t) = 1 .. Len(s) + Len(t)
  BY <1>3, <1>4
<1>6. \A i \in 1 .. Len(s) + Len(t) : (s \o t)[i] = IF i <= Len(s) THEN s[i] ELSE t[i - Len(s)]
  BY <1>3
<1>7. \A i \in 1 .. Len(s) : (s \o t)[i] = s[i]
  BY <1>5, <1>6
<1>8. ASSUME NEW i \in 1 .. Len(t) PROVE (s \o t)[Len(s) + i] = t[i]
  <2>1. Len(s) + i \in 1 .. Len(s) + Len(t) /\ ~(Len(s) + i <= Len(s)) /\ Len(s) + i - Len(s) = i
    BY <1>5
  <2> QED BY <1>6, <2>1
<1> QED BY <1>4, <1>5, <1>7, <1>8 DEF IsSeq, Joins

\* To abandon the best blocks is to fall back to the chain below them.
LEMMA LedgerPrefix ==
    ASSUME NEW s, IsSeq(s), NEW t, IsSeq(t), Ledger(s \o t)
    PROVE  Ledger(s)
<1>1. Joins(s, t, s \o t)
  BY ConcatIs
<1>2. /\ DOMAIN s \subseteq DOMAIN (s \o t)
      /\ \A i \in DOMAIN s : (s \o t)[i] = s[i]
  BY <1>1 DEF Joins
<1> QED BY <1>2 DEF Ledger

\* A block more, a block finalized, and no best block.
LEMMA ConcatSteps ==
    ASSUME NEW s, IsSeq(s), NEW t, IsSeq(t), NEW b
    PROVE  /\ s \o Append(t, b) = Append(s \o t, b)
           /\ s \o <<>> = s
           /\ t # <<>> => /\ Append(s, Head(t)) \o Tail(t) = s \o t
                          /\ IsSeq(Tail(t)) /\ Len(t) >= 1 /\ Head(t) = t[1]
<1>1. PICK S : s \in Seq(S)
  BY DEF IsSeq
<1>2. PICK T : t \in Seq(T)
  BY DEF IsSeq
<1> DEFINE U == S \cup T \cup {b}
<1>3. s \in Seq(U) /\ t \in Seq(U) /\ b \in U
  BY <1>1, <1>2
<1> HIDE DEF U
<1>4. s \o Append(t, b) = Append(s \o t, b)
  BY <1>3
<1>5. s \o <<>> = s
  BY <1>3, ConcatEmptySeq
<1>6. ASSUME t # <<>>
      PROVE  /\ Append(s, Head(t)) \o Tail(t) = s \o t
             /\ Tail(t) \in Seq(U) /\ Len(t) >= 1 /\ Head(t) = t[1]
  <2>1. Head(t) \in U /\ Tail(t) \in Seq(U) /\ Len(t) >= 1 /\ Head(t) = t[1]
    BY <1>3, <1>6
  <2>2. Append(s, Head(t)) \o Tail(t) = s \o t
    BY <1>3, <1>6, <2>1
  <2> QED BY <2>1, <2>2
<1> QED BY <1>4, <1>5, <1>6 DEF IsSeq

\* A block of transactions that can be executed extends the chain below it.
LEMMA BlockExtends ==
    ASSUME NEW tree, TreeSound(tree), NEW number, NEW n \in Nat, NEW T, NEW txs \in [1 .. n -> T],
           \A i \in 1 .. n : TxSound(txs[i]), Executable(tree, txs)
    PROVE  Extends(tree, BlockOn(tree, number, txs))
<1>1. PICK b : b = BlockOn(tree, number, txs)
  OBVIOUS
<1>2. /\ IsSeq(b.done) /\ Len(b.done) = n
      /\ \A i \in 1 .. n : b.done[i].tx = txs[i]
      /\ TreeSound(b.tree)
      /\ \A a \in Account : tree.nonce[a] <= b.tree.nonce[a]
      /\ \A i \in 1 .. n : txs[i].nonce < b.tree.nonce[txs[i].who]
  <2>1. ExecutesAll(tree, txs, n, b)
    BY <1>1, BlockOnIs
  <2> QED BY <2>1 DEF ExecutesAll
<1>3. ASSUME NEW i \in 1 .. n
      PROVE  tree.nonce[txs[i].who] <= txs[i].nonce
  <2> DEFINE a == txs[i].who
             m == i - 1
  <2>1. a \in Account /\ i \in DOMAIN txs
    BY DEF TxSound
  <2>2. m \in Nat
    OBVIOUS
  <2>3. txs[i].nonce = tree.nonce[a] + SentBy(txs, m, a)
    BY <2>1 DEF Executable, SentBy
  <2>4. tree.nonce[a] \in Nat
    BY <2>1 DEF TreeSound
  <2> HIDE DEF a, m
  <2>5. SentBy(txs, m, a) \in Nat
    BY <2>2, SentCounts
  <2>6. tree.nonce[a] <= txs[i].nonce
    BY <2>3, <2>4, <2>5
  <2> QED BY <2>6 DEF a
<1>4. ASSUME NEW tx, Holds(b, tx)
      PROVE  /\ TxSound(tx)
             /\ tree.nonce[tx.who] <= tx.nonce /\ tx.nonce < b.tree.nonce[tx.who]
  <2>1. PICK i \in 1 .. n : txs[i] = tx
    BY <1>2, <1>4, SeqFacts DEF Holds
  <2> QED BY <1>2, <1>3, <2>1
<1>5. ASSUME NEW i \in 1 .. n, NEW j \in 1 .. n, i < j, txs[i].who = txs[j].who
      PROVE  txs[i].nonce < txs[j].nonce
  <2>1. PICK a, m, l : a = txs[i].who /\ m = i - 1 /\ l = j - 1
    OBVIOUS
  <2>2. /\ m \in Nat /\ m + 1 = i /\ l \in Nat /\ i \in 0 .. l
        /\ a \in Account /\ txs[m + 1].who = a
    BY <1>5, <2>1 DEF TxSound
  <2>3. txs[i].nonce = tree.nonce[a] + SentBy(txs, m, a)
        /\ txs[j].nonce = tree.nonce[a] + SentBy(txs, l, a)
    BY <1>5, <2>1, <2>2 DEF Executable, SentBy
  <2>4. tree.nonce[a] \in Nat
    BY <2>2 DEF TreeSound
  <2>5. SentBy(txs, m, a) \in Nat /\ SentBy(txs, i, a) = SentBy(txs, m, a) + 1
    BY <2>2, SentCounts
  <2>6. SentBy(txs, i, a) <= SentBy(txs, l, a) /\ SentBy(txs, l, a) \in Nat
    BY <2>2, SentCounts
  <2> QED BY <2>3, <2>4, <2>5, <2>6
<1>6. InTurn(b)
  <2>1. DOMAIN b.done = 1 .. n
    BY <1>2, SeqFacts
  <2>2. ASSUME NEW i \in 1 .. n, NEW j \in 1 .. n, i < j, b.done[i].tx.who = b.done[j].tx.who
        PROVE  b.done[i].tx.nonce < b.done[j].tx.nonce
    <3>1. b.done[i].tx = txs[i] /\ b.done[j].tx = txs[j]
      BY <1>2
    <3>2. txs[i].nonce < txs[j].nonce
      BY <1>5, <2>2, <3>1
    <3> QED BY <3>1, <3>2
  <2> QED BY <2>1, <2>2 DEF InTurn
<1> QED BY <1>1, <1>2, <1>4, <1>6 DEF Extends

-----------------------------------------------------------------------------
(***************************************************************************)
(* The steps of the chain.                                                 *)
(***************************************************************************)
LedgerSound ==
    /\ IsSeq(best)
    /\ Ledger(fin \o best)
    /\ \A tx \in pool : TxSound(tx)

\* The trees at the two heads are trees of the ledger.
LEMMA Heads ==
    ASSUME ChainSound, LedgerSound
    PROVE  /\ Joins(fin, best, fin \o best)
           /\ Len(fin \o best) >= 1
           /\ BestTree = (fin \o best)[Len(fin \o best)].tree /\ TreeSound(BestTree)
           /\ TreeSound(FinalTree)
<1>1. PICK s : s = fin \o best
  OBVIOUS
<1>2. Joins(fin, best, s)
  BY <1>1, ConcatIs DEF ChainSound, LedgerSound
<1>3. /\ Len(fin) \in Nat /\ Len(fin) >= 1 /\ Len(best) \in Nat
      /\ Len(s) = Len(fin) + Len(best) /\ DOMAIN s = 1 .. Len(s)
      /\ s[Len(fin)] = fin[Len(fin)]
  BY <1>2 DEF Joins, ChainSound
<1>4. Ledger(s)
  BY <1>1 DEF LedgerSound
<1>5. Len(fin) \in DOMAIN s /\ Len(s) \in DOMAIN s /\ Len(s) >= 1
  BY <1>3
<1>6. FinalTree = s[Len(fin)].tree
  BY <1>3 DEF FinalTree, Last
<1>7. BestTree = s[Len(s)].tree
  <2>1. CASE best = <<>>
    BY <1>3, <1>6, <2>1, SeqFacts DEF BestTree
  <2>2. CASE best # <<>>
    <3>1. Len(best) >= 1
      BY <2>2, ConcatSteps DEF ChainSound, LedgerSound
    <3>2. s[Len(fin) + Len(best)] = best[Len(best)]
      BY <1>2, <1>3, <3>1 DEF Joins
    <3> QED BY <1>3, <2>2, <3>2 DEF BestTree, Last
  <2> QED BY <2>1, <2>2
<1>8. TreeSound(FinalTree) /\ TreeSound(BestTree)
  BY <1>4, <1>5, <1>6, <1>7 DEF Ledger
<1> QED BY <1>1, <1>2, <1>5, <1>7, <1>8

LEMMA BuildKeeps ==
    ASSUME ChainSound, LedgerSound, BuildBlock
    PROVE  LedgerSound'
<1>0. PICK k \in 1 .. MaxPerBlock : \E txs \in [1 .. k -> pool] :
         /\ Executable(BestTree, txs)
         /\ best' = Append(best, BlockOn(BestTree, Len(fin) + Len(best), txs))
         /\ pool' = pool \ Range(txs)
  BY DEF BuildBlock
<1>1. PICK txs \in [1 .. k -> pool] :
         /\ Executable(BestTree, txs)
         /\ best' = Append(best, BlockOn(BestTree, Len(fin) + Len(best), txs))
         /\ pool' = pool \ Range(txs)
  BY <1>0
<1>2. fin' = fin
  BY DEF BuildBlock
<1>3. PICK tree, number, b : /\ tree = BestTree /\ number = Len(fin) + Len(best)
                             /\ b = BlockOn(tree, number, txs)
  OBVIOUS
<1>4. /\ TreeSound(tree) /\ tree = (fin \o best)[Len(fin \o best)].tree
      /\ Len(fin \o best) >= 1 /\ Joins(fin, best, fin \o best)
  BY <1>3, Heads
<1>5. Extends(tree, b)
  <2>1. k \in Nat /\ \A i \in 1 .. k : TxSound(txs[i])
    BY CpsChainConstants DEF LedgerSound
  <2>2. Executable(tree, txs)
    BY <1>1, <1>3
  <2> QED BY <1>3, <1>4, <2>1, <2>2, BlockExtends
<1>6. fin' \o best' = Append(fin \o best, b) /\ IsSeq(best')
  BY <1>1, <1>2, <1>3, ConcatSteps, AppendIsSeq DEF ChainSound, LedgerSound
<1>7. PICK s : s = fin \o best
  OBVIOUS
<1>8. IsSeq(s) /\ Len(s) >= 1 /\ Ledger(s) /\ Extends(s[Len(s)].tree, b)
  BY <1>4, <1>5, <1>7 DEF LedgerSound, Joins
<1>9. Ledger(Append(s, b))
  BY <1>8, LedgerGrows
<1>10. \A tx \in pool' : TxSound(tx)
  BY <1>1 DEF LedgerSound
<1> QED BY <1>6, <1>7, <1>9, <1>10 DEF LedgerSound

LEMMA FinalizeKeeps ==
    ASSUME ChainSound, LedgerSound, Finalize
    PROVE  LedgerSound'
<1>1. best # <<>> /\ fin' = Append(fin, Head(best)) /\ best' = Tail(best) /\ pool' = pool
  BY DEF Finalize
<1>2. fin' \o best' = fin \o best /\ IsSeq(best')
  BY <1>1, ConcatSteps, ZenonT(40) DEF ChainSound, LedgerSound
<1> QED BY <1>1, <1>2 DEF LedgerSound

LEMMA ReorganizeKeeps ==
    ASSUME ChainSound, LedgerSound, Reorganize
    PROVE  LedgerSound'
<1>1. /\ best' = <<>> /\ fin' = fin
      /\ pool' = pool \union UNION {{b.done[j].tx : j \in DOMAIN b.done} : b \in Range(best)}
  BY DEF Reorganize
<1>2. Ledger(fin)
  BY LedgerPrefix DEF ChainSound, LedgerSound
<1>3. fin' \o best' = fin /\ IsSeq(best')
  BY <1>1, ConcatSteps, SeqFacts DEF ChainSound, LedgerSound
<1>4. ASSUME NEW tx \in pool' PROVE TxSound(tx)
  <2>1. CASE tx \in pool
    BY <2>1 DEF LedgerSound
  <2>2. CASE tx \notin pool
    <3>1. PICK b \in Range(best) : Holds(b, tx)
      BY <1>1, <2>2 DEF Holds
    <3>2. PICK i \in DOMAIN best : best[i] = b
      BY <3>1 DEF Range
    <3>3. PICK s : s = fin \o best
      OBVIOUS
    <3>4. Joins(fin, best, s) /\ Ledger(s)
      BY <3>3, Heads DEF LedgerSound
    <3>5. PICK m : m = Len(fin) + i
      OBVIOUS
    <3>6. m \in DOMAIN s /\ s[m] = b /\ m <= m
      BY <3>2, <3>4, <3>5 DEF Joins
    <3> QED BY <3>1, <3>4, <3>6 DEF Ledger
  <2> QED BY <2>1, <2>2
<1> QED BY <1>2, <1>3, <1>4 DEF LedgerSound

-----------------------------------------------------------------------------
(***************************************************************************)
(* What is handed over for signing is a call of an account.                *)
(***************************************************************************)
Handed(j) ==
    j.pc \in {"check", "sign"} =>
        /\ {"pc", "who", "call"} \subseteq DOMAIN j
        /\ j.who \in Account /\ j.call.op \in Ops

JobSound == DOMAIN job = Client /\ \A c \in Client : Handed(job[c])

\* A command that writes has an account, and only those come to be prepared.
WriteSound ==
    /\ cli.pc \in {"resolve", "prepare"} /\ cli.cmd.name \in Writes => cli.cmd.who \in Account
    /\ cli.pc = "prepare" => cli.cmd.name \in Writes

LEMMA WriteStep ==
    ASSUME CommandSound, WriteSound, [Next]_<<chain, client, bridge, cli>>
    PROVE  WriteSound'
<1>1. ASSUME NEW todo, NEW file, NEW status, cli' = NoCommand(todo, file, status)
      PROVE  WriteSound'
  BY <1>1 DEF WriteSound, NoCommand
<1>2. CASE cli' = cli
  BY <1>2 DEF WriteSound
<1>3. CASE Invoke
  <2>1. Head(cli.todo) \in Commands
    <3>1. cli.todo # <<>> /\ cli.todo \in Seq(Commands)
      BY <1>3 DEF Invoke, CommandSound
    <3> QED BY <3>1
  <2>2. PICK todo, file, cmd : todo = Tail(cli.todo) /\ file = cli.file /\ cmd = Head(cli.todo)
    OBVIOUS
  <2>3. \/ /\ cli' = [NoCommand(todo, file, None) EXCEPT !.pc = "resolve", !.cmd = cmd]
           /\ cmd.name \in Writes => cmd.who # None
        \/ cli' = NoCommand(todo, file, 2)
    BY <1>3, <2>2 DEF Invoke
  <2>4. CASE /\ cli' = [NoCommand(todo, file, None) EXCEPT !.pc = "resolve", !.cmd = cmd]
             /\ cmd.name \in Writes => cmd.who # None
    <3>1. cli'.pc = "resolve" /\ cli'.cmd = cmd
      BY <2>4 DEF NoCommand
    <3>2. cmd.name \in Writes => cmd.who \in Account
      BY <2>1, <2>2, <2>4, ScriptConstants
    <3> QED BY <3>1, <3>2 DEF WriteSound
  <2> QED BY <1>1, <2>3, <2>4
<1>4. CASE PinBlock
  BY <1>1, <1>4 DEF PinBlock, Ends, CommandSound, WriteSound
<1>5. CASE Canonical
  <2>1. CASE Ends(2)
    BY <1>1, <2>1 DEF Ends
  <2>2. CASE cli' = [cli EXCEPT !.pc = IF cli.cmd.name = "watch" THEN "watch" ELSE "prepare",
                                !.at = Len(fin), !.node = NodeId(FinalTree, cli.cmd.target)]
    <3>1. /\ cli'.cmd = cli.cmd
          /\ cli'.pc = IF cli.cmd.name = "watch" THEN "watch" ELSE "prepare"
      BY <2>2 DEF CommandSound
    <3>2. cli.pc = "resolve" /\ cli.cmd.name \in Writes \union {"watch"}
      BY <1>5 DEF Canonical
    <3> QED BY <3>1, <3>2 DEF WriteSound
  <2> QED BY <1>5, <2>1, <2>2 DEF Canonical
<1>6. CASE Read
  BY <1>1, <1>6 DEF Read, Ends, CommandSound, WriteSound
<1>7. CASE Show
  BY <1>1, <1>7 DEF Show, Ends
<1>8. CASE Permit
  BY <1>1, <1>8 DEF Permit, Ends
<1>9. CASE Watch
  BY <1>1, <1>9 DEF Watch, Ends, CommandSound, WriteSound
<1>10. CASE Prepare
  BY <1>1, <1>10 DEF Prepare, Ends, CommandSound, WriteSound
<1>11. CASE Done
  BY <1>1, <1>11 DEF Done, Ends
<1> QED BY <1>2, <1>3, <1>4, <1>5, <1>6, <1>7, <1>8, <1>9, <1>10, <1>11 DEF Next

\* A builder gives a call of the pallet, or an error.
LEMMA BuildIs ==
    ASSUME NEW cmd, cmd.name \in Writes, NEW n, Build(cmd, n).ok
    PROVE  Build(cmd, n).value.op \in Ops
<1> USE DEF Ok, Err, Ops
<1>1. CASE cmd.name \in {"set", "clear"}
  BY <1>1 DEF Build, BuildField, SetField
<1>2. CASE cmd.name = "create"
  <2>1. Build(cmd, n) = BuildCreate(cmd, n)
    BY <1>2 DEF Build
  <2>2. PICK identity : identity = Assignment(cmd, n)
    OBVIOUS
  <2>3. BuildCreate(cmd, n) = IF identity.ok THEN CreateNode(n, cmd.data, identity.value) ELSE identity
    BY <2>2 DEF BuildCreate
  <2>4. CreateNode(n, cmd.data, identity.value).ok =>
           CreateNode(n, cmd.data, identity.value).value.op = "create"
    BY DEF CreateNode
  <2> QED BY <2>1, <2>3, <2>4
<1>3. CASE cmd.name = "delete"
  BY <1>3 DEF Build, BuildDelete, DeleteNode
<1>4. CASE cmd.name = "scope"
  BY <1>4 DEF Build, CreateScope
<1>5. CASE cmd.name \in {"grant", "revoke"}
  BY <1>5 DEF Build, BuildAccess, GrantAccess, RevokeAccess
<1>6. CASE cmd.name = "identity"
  <2>1. Build(cmd, n) = BuildIdentity(cmd, n)
    BY <1>6 DEF Build
  <2>2. PICK identity : identity = Assignment(cmd, n)
    OBVIOUS
  <2>3. BuildIdentity(cmd, n) = IF identity.ok THEN SetIdentity(n, identity.value) ELSE identity
    BY <2>2 DEF BuildIdentity
  <2>4. SetIdentity(n, identity.value).value.op = "identity"
    BY DEF SetIdentity
  <2> QED BY <2>1, <2>3, <2>4
<1>7. CASE cmd.name = "clear_identity"
  BY <1>7 DEF Build, ClearIdentity
<1> QED BY <1>1, <1>2, <1>3, <1>4, <1>5, <1>6, <1>7 DEF Writes

\* One job is replaced.
LEMMA JobChanges ==
    ASSUME JobSound, NEW c \in Client, NEW j, Handed(j), job' = [job EXCEPT ![c] = j]
    PROVE  JobSound'
<1>1. DOMAIN job' = Client
  BY DEF JobSound
<1>2. ASSUME NEW d \in Client PROVE Handed(job'[d])
  <2>1. job'[d] = IF d = c THEN j ELSE job[d]
    BY DEF JobSound
  <2> QED BY <2>1 DEF JobSound
<1> QED BY <1>1, <1>2 DEF JobSound, Handed

LEMMA JobClientStep ==
    ASSUME JobSound, NEW c \in Client, ClientStep(c)
    PROVE  JobSound'
<1>1. ASSUME NEW result, Returns(c, result) PROVE JobSound'
  <2>1. Handed([pc |-> "returned", result |-> result])
    BY DEF Handed
  <2> QED BY <1>1, <2>1, JobChanges DEF Returns
<1>2. CASE Check(c)
  <2>1. CASE \E result : Returns(c, result)
    BY <1>1, <2>1
  <2>2. CASE job' = [job EXCEPT ![c].pc = "sign"]
    <3>1. PICK j : j = [job[c] EXCEPT !.pc = "sign"]
      OBVIOUS
    <3>2. job' = [job EXCEPT ![c] = j]
      BY <2>2, <3>1
    <3>3. Handed(job[c]) /\ job[c].pc = "check"
      BY <1>2 DEF JobSound, Check
    <3>4. Handed(j)
      BY <3>1, <3>3 DEF Handed
    <3> QED BY <3>2, <3>4, JobChanges
  <2> QED BY <1>2, <2>1, <2>2 DEF Check
<1>3. CASE Submit(c)
  <2>1. CASE \E result : Returns(c, result)
    BY <1>1, <2>1
  <2>2. CASE \E tx : job' = [job EXCEPT ![c] = [pc |-> "wait", tx |-> tx, wait |-> @.wait]]
    <3>1. PICK tx : job' = [job EXCEPT ![c] = [pc |-> "wait", tx |-> tx, wait |-> @.wait]]
      BY <2>2
    <3>2. PICK j : j = [pc |-> "wait", tx |-> tx, wait |-> job[c].wait]
      OBVIOUS
    <3>3. job' = [job EXCEPT ![c] = j] /\ Handed(j)
      BY <3>1, <3>2 DEF JobSound, Handed
    <3> QED BY <3>3, JobChanges
  <2> QED BY <1>3, <2>1, <2>2 DEF Submit
<1>4. CASE Receipt(c)
  BY <1>1, <1>4 DEF Receipt, Tells
<1>5. CASE WatchFails(c)
  BY <1>1, <1>5 DEF WatchFails, Tells
<1> QED BY <1>2, <1>3, <1>4, <1>5 DEF ClientStep

\* A caller hands over a call of an account.
LEMMA BeginKeeps ==
    ASSUME JobSound, NEW c \in Client, NEW k, NEW who \in Account, NEW call, call.op \in Ops,
           NEW wait, Begin(c, k, who, call, wait)
    PROVE  JobSound'
<1>1. PICK j : j = [pc |-> "check", k |-> k, who |-> who, call |-> call, wait |-> wait]
  OBVIOUS
<1>2. Handed(j)
  BY <1>1 DEF Handed
<1>3. job' = [job EXCEPT ![c] = j]
  BY <1>1 DEF Begin
<1> QED BY <1>2, <1>3, JobChanges

LEMMA JobStep ==
    ASSUME WriteSound, JobSound, [Next]_<<chain, client, bridge, cli>>
    PROVE  JobSound'
<1>1. CASE job' = job
  BY <1>1 DEF JobSound, Handed
<1>2. ASSUME NEW c \in Client, job' = [job EXCEPT ![c] = Idle] PROVE JobSound'
  <2>1. Handed(Idle)
    BY DEF Handed, Idle
  <2> QED BY <1>2, <2>1, JobChanges
<1>3. CASE TakeMessage
  <2>1. PICK k, call : /\ call.ok => Begin("sub", k, BridgeAccount, call.value, "finalized")
                                     \/ job' = job
                       /\ ~call.ok => job' = job
                       /\ call = SetField(BridgeNode, "payload", NodeData(Head(broker.inbox).m))
    BY <1>3 DEF TakeMessage
  <2>2. call.ok => call.value.op \in Ops
    BY <2>1 DEF SetField, Ok, Err, Ops
  <2> QED BY <1>1, <2>1, <2>2, BeginKeeps, BridgeConstants
<1>4. CASE Prepare
  <2>1. cli.cmd.name \in Writes /\ cli.cmd.who \in Account
    BY <1>4 DEF Prepare, WriteSound
  <2>2. PICK call : call = Build(cli.cmd, cli.node)
    OBVIOUS
  <2>3. \/ job' = job
        \/ call.ok /\ Begin("cli", Len(cli.todo), cli.cmd.who, call.value, cli.cmd.wait)
    BY <1>4, <2>2 DEF Prepare
  <2>4. call.ok => call.value.op \in Ops
    BY <2>1, <2>2, BuildIs
  <2> QED BY <1>1, <2>1, <2>3, <2>4, BeginKeeps, ScriptConstants
<1>5. CASE UpdateSettles \/ Done
  BY <1>2, <1>5, BridgeConstants, ScriptConstants DEF UpdateSettles, Done
<1>6. CASE ClientStep("sub") \/ ClientStep("cli")
  BY <1>6, JobClientStep, BridgeConstants, ScriptConstants
<1>7. CASE UNCHANGED client
  BY <1>1, <1>7 DEF client
<1>8. CASE Start \/ SubscribeConnects \/ EnsureCanWrite \/ PublishStarts
           \/ PollConnects \/ ConnectionBreaks \/ MessageArrives \/ PollFails \/ SleepEnds
           \/ EventLoopSends \/ WatchBlock \/ PushUpdate \/ StreamEnds
  BY <1>7, <1>8 DEF Start, SubscribeConnects, EnsureCanWrite, PublishStarts, PollConnects,
     ConnectionBreaks, MessageArrives, PollFails, SleepEnds, EventLoopSends, WatchBlock,
     PushUpdate, StreamEnds
<1>9. CASE Invoke \/ PinBlock \/ Canonical \/ Read \/ Show \/ Permit \/ Watch
  BY <1>7, <1>9 DEF Invoke, PinBlock, Canonical, Read, Show, Permit, Watch
<1> QED BY <1>3, <1>4, <1>5, <1>6, <1>7, <1>8, <1>9 DEF Next, BridgeNext

-----------------------------------------------------------------------------
(***************************************************************************)
(* What callers are told.                                                  *)
(***************************************************************************)
\* A client signs a transaction that its account can sign.
LEMMA SubmitKeeps ==
    ASSUME ChainSound, LedgerSound, JobSound, NEW c \in Client, Submit(c)
    PROVE  LedgerSound'
<1>1. PICK tx : /\ tx = [client |-> c, k |-> job[c].k, who |-> job[c].who, call |-> job[c].call,
                         nonce |-> FinalTree.nonce[job[c].who]]
                /\ pool' \in {pool, pool \union {tx}}
                /\ fin' = fin /\ best' = best /\ job[c].pc = "sign"
  BY DEF Submit
<1>2. job[c].who \in Account /\ job[c].call.op \in Ops
  BY <1>1 DEF JobSound, Handed
<1>3. FinalTree.nonce[job[c].who] \in Nat
  BY <1>2, Heads DEF TreeSound
<1>4. TxSound(tx)
  BY <1>1, <1>2, <1>3 DEF TxSound
<1> QED BY <1>1, <1>4 DEF LedgerSound

LEMMA LedgerStep ==
    ASSUME ChainSound, LedgerSound, JobSound, [Next]_<<chain, client, bridge, cli>>
    PROVE  LedgerSound'
<1>1. CASE UNCHANGED chain
  BY <1>1 DEF chain, LedgerSound
<1>2. CASE ChainNext
  BY <1>2, BuildKeeps, FinalizeKeeps, ReorganizeKeeps DEF ChainNext
<1>3. ASSUME NEW c \in Client, ClientStep(c) PROVE LedgerSound'
  <2>1. CASE Submit(c)
    BY <2>1, SubmitKeeps
  <2>2. CASE Check(c) \/ Receipt(c)
    BY <1>1, <2>2 DEF Check, Receipt, chain
  <2>3. CASE WatchFails(c)
    <3>1. fin' = fin /\ best' = best /\ pool' \subseteq pool
      BY <2>3 DEF WatchFails
    <3> QED BY <3>1 DEF LedgerSound
  <2> QED BY <1>3, <2>1, <2>2, <2>3 DEF ClientStep
<1>4. CASE BridgeNext
  BY <1>1, <1>3, <1>4, BridgeConstants DEF BridgeNext, Start, SubscribeConnects, EnsureCanWrite,
     PublishStarts, PollConnects, ConnectionBreaks, MessageArrives, PollFails, SleepEnds,
     EventLoopSends, TakeMessage, UpdateSettles, WatchBlock, PushUpdate, StreamEnds
<1>5. CASE Invoke \/ PinBlock \/ Canonical \/ Read \/ Show \/ Permit \/ Watch \/ Prepare \/ Done
  BY <1>1, <1>5 DEF Invoke, PinBlock, Canonical, Read, Show, Permit, Watch, Prepare, Done
<1> QED BY <1>1, <1>2, <1>3, <1>4, <1>5, ScriptConstants DEF Next

\* An outcome depends on the blocks that hold the transaction alone.
LEMMA OutcomeStays ==
    ASSUME NEW s, NEW t, NEW tx, Included(t, tx) = Included(s, tx), Included(s, tx) # {},
           \A i \in Included(s, tx) : t[i] = s[i]
    PROVE  Outcome(t, tx) = Outcome(s, tx)
<1> DEFINE i == CHOOSE i \in Included(s, tx) : TRUE
           j == CHOOSE j \in DOMAIN s[i].done : s[i].done[j].tx = tx
<1>1. i \in Included(s, tx)
  OBVIOUS
<1>2. t[i] = s[i]
  BY <1>1
<1>3. Outcome(s, tx) = s[i].done[j].error
  BY DEF Outcome
<1>4. Outcome(t, tx) = t[i].done[CHOOSE k \in DOMAIN t[i].done : t[i].done[k].tx = tx].error
  BY Zenon DEF Outcome
<1> HIDE DEF i
<1> QED BY <1>2, <1>3, <1>4, Zenon

\* Success, or a result that cannot be decoded, is told of what was executed
\* without an error, and of nothing else.
LEMMA AnswersTell ==
    ASSUME NEW call, NEW error, NEW out \in Answers(call, error), out # "Transaction"
    PROVE  out \in Succeeded <=> error = None
BY DEF Answers, Classify, Undecoded, Unfetched, Succeeded

\* What is finalized with an outcome keeps it.
LEMMA OutcomeKept ==
    ASSUME ChainSound, LedgerSound, fin' = fin \/ Finalize, NEW tx, Included(fin, tx) # {}
    PROVE  Included(fin', tx) # {} /\ Outcome(fin', tx) = Outcome(fin, tx)
<1>1. CASE fin' = fin
  BY <1>1
<1>2. CASE Finalize
  <2>1. best # <<>> /\ fin' = Append(fin, Head(best))
    BY <1>2 DEF Finalize
  <2>2. Len(best) >= 1 /\ Head(best) = best[1]
    BY <2>1, ConcatSteps DEF ChainSound, LedgerSound
  <2>3. PICK n, s : n = Len(fin) /\ s = fin \o best
    OBVIOUS
  <2>4. /\ n \in Nat /\ DOMAIN fin = 1 .. n /\ DOMAIN fin' = 1 .. n + 1
        /\ \A i \in 1 .. n : fin'[i] = fin[i]
        /\ fin'[n + 1] = Head(best)
    BY <2>1, <2>3, AppendIsSeq DEF ChainSound
  <2>5. /\ n + 1 \in DOMAIN s /\ s[n + 1] = Head(best)
        /\ \A i \in 1 .. n : i \in DOMAIN s /\ s[i] = fin[i]
    <3>1. Joins(fin, best, s)
      BY <2>3, Heads
    <3> QED BY <2>2, <2>3, <3>1 DEF Joins
  <2>6. PICK i \in 1 .. n : Holds(fin[i], tx)
    BY <2>4 DEF Included, Holds
  <2>7. Ledger(s) /\ i < n + 1
    BY <2>3, <2>4 DEF LedgerSound
  <2>8. ~Holds(Head(best), tx)
    <3>1. tx.nonce \in Nat
      BY <2>5, <2>6, <2>7 DEF Ledger, TxSound
    <3>2. Holds(Head(best), tx) => tx.nonce < tx.nonce
      BY <2>5, <2>6, <2>7 DEF Ledger
    <3> QED BY <3>1, <3>2
  <2>9. Included(fin', tx) = Included(fin, tx)
    <3>1. \A k \in DOMAIN fin' : Holds(fin'[k], tx) => k \in 1 .. n
      BY <2>4, <2>8
    <3> QED BY <2>4, <3>1 DEF Included, Holds
  <2>10. \A k \in Included(fin, tx) : fin'[k] = fin[k]
    BY <2>4 DEF Included
  <2> QED BY <2>9, <2>10, OutcomeStays
<1> QED BY <1>1, <1>2

LEMMA ToldStays ==
    ASSUME ChainSound, LedgerSound, OutcomeIsTrue, fin' = fin \/ Finalize, told' = told
    PROVE  OutcomeIsTrue'
<1> SUFFICES ASSUME NEW t \in told, t.wait = "finalized"
             PROVE  /\ Included(fin', t.tx) # {}
                    /\ t.out \in Succeeded <=> Outcome(fin', t.tx) = None
  BY DEF OutcomeIsTrue, Included, Outcome
<1>1. /\ Included(fin, t.tx) # {}
      /\ t.out \in Succeeded <=> Outcome(fin, t.tx) = None
  BY DEF OutcomeIsTrue
<1>2. Included(fin', t.tx) # {} /\ Outcome(fin', t.tx) = Outcome(fin, t.tx)
  BY <1>1, OutcomeKept
<1> QED BY <1>1, <1>2

\* A caller that waited for finality is told what the finalized block says.
LEMMA ReceiptTells ==
    ASSUME OutcomeIsTrue, NEW c, Receipt(c)
    PROVE  OutcomeIsTrue'
<1>1. PICK blocks, out :
         /\ blocks = Awaited(job[c].wait)
         /\ Included(blocks, job[c].tx) # {}
         /\ out \in Answers(job[c].tx.call, Outcome(blocks, job[c].tx))
         /\ Tells(c, out)
  BY DEF Receipt
<1>2. fin' = fin
  BY DEF Receipt, chain
<1> SUFFICES ASSUME NEW t \in told', t.wait = "finalized"
             PROVE  /\ Included(fin', t.tx) # {}
                    /\ t.out \in Succeeded <=> Outcome(fin', t.tx) = None
  BY DEF OutcomeIsTrue, Included, Outcome
<1>3. CASE t \in told
  BY <1>2, <1>3 DEF OutcomeIsTrue
<1>4. CASE t \notin told
  <2>1. /\ t.tx = job[c].tx /\ t.wait = job[c].wait /\ t.out = out
        /\ out # "Transaction"
    BY <1>1, <1>4 DEF Tells
  <2>2. blocks = fin
    BY <1>1, <2>1 DEF Awaited
  <2> QED BY <1>1, <1>2, <2>1, <2>2, AnswersTell
<1> QED BY <1>3, <1>4

LEMMA ToldStep ==
    ASSUME ChainSound, LedgerSound, OutcomeIsTrue, [Next]_<<chain, client, bridge, cli>>
    PROVE  OutcomeIsTrue'
<1>1. CASE told' = told /\ fin' = fin
  BY <1>1, ToldStays
<1>2. CASE ChainNext /\ UNCHANGED client
  BY <1>2, ToldStays DEF ChainNext, BuildBlock, Reorganize, client
<1>3. ASSUME NEW c, ClientStep(c) PROVE OutcomeIsTrue'
  <2>1. CASE Check(c) \/ Submit(c) \/ WatchFails(c)
    BY <1>1, <2>1 DEF Check, Submit, WatchFails, Tells, chain
  <2>2. CASE Receipt(c)
    BY <2>2, ReceiptTells
  <2> QED BY <1>3, <2>1, <2>2 DEF ClientStep
<1>4. CASE UNCHANGED <<chain, told>> \/ UNCHANGED <<chain, client>>
  BY <1>1, <1>4 DEF chain, client
<1>5. CASE BridgeNext
  BY <1>3, <1>4, <1>5 DEF BridgeNext, Start, SubscribeConnects, EnsureCanWrite,
     PublishStarts, PollConnects, ConnectionBreaks, MessageArrives, PollFails, SleepEnds,
     EventLoopSends, TakeMessage, UpdateSettles, WatchBlock, PushUpdate, StreamEnds
<1>6. CASE Invoke \/ PinBlock \/ Canonical \/ Read \/ Show \/ Permit \/ Watch \/ Prepare \/ Done
  BY <1>4, <1>6 DEF Invoke, PinBlock, Canonical, Read, Show, Permit, Watch, Prepare, Done
<1>7. CASE UNCHANGED <<chain, client, bridge, cli>>
  BY <1>4, <1>7
<1> QED BY <1>2, <1>3, <1>5, <1>6, <1>7 DEF Next

-----------------------------------------------------------------------------
\* The invariant of the ledger and of what is handed to it.
AnswerInv == LedgerSound /\ WriteSound /\ JobSound /\ OutcomeIsTrue

LEMMA AnswerInitially ==
    ASSUME Init
    PROVE  AnswerInv
<1>1. PICK g : g = [number |-> 0, tree |-> Genesis, done |-> <<>>]
  OBVIOUS
<1>2. fin = <<g>> /\ best = <<>> /\ pool = {} /\ job = [c \in Client |-> Idle] /\ told = {}
  BY <1>1 DEF Init, ClientInit, ChainInit
<1>3. fin \o best = <<g>>
  BY <1>2
<1>4. Ledger(<<g>>)
  <2>1. g.tree = Genesis /\ g.done = <<>>
    BY <1>1
  <2>2. DOMAIN <<g>> = {1} /\ <<g>>[1] = g
    OBVIOUS
  <2>3. TreeSound(Genesis)
    BY CpsChainConstants DEF TreeSound
  <2>4. \A tx : ~Holds(g, tx)
    BY <2>1, SeqFacts DEF Holds
  <2>5. InTurn(g) /\ \A a \in Account : Genesis.nonce[a] <= Genesis.nonce[a]
    BY <2>1, <2>3, SeqFacts DEF InTurn, TreeSound
  <2> QED BY <2>1, <2>2, <2>3, <2>4, <2>5 DEF Ledger
<1>5. LedgerSound
  BY <1>2, <1>3, <1>4, SeqFacts DEF LedgerSound
<1>6. WriteSound
  BY DEF Init, NoCommand, WriteSound
<1>7. JobSound
  BY <1>2 DEF JobSound, Handed, Idle
<1> QED BY <1>2, <1>5, <1>6, <1>7 DEF AnswerInv, OutcomeIsTrue

\* The ledger beside the commands and tasks that write to it.
THEOREM AnswerInvariant == Spec => []AnswerInv
<1>1. Init => AnswerInv
  BY AnswerInitially
<1>2. CpsInv /\ AnswerInv /\ [Next]_<<chain, client, bridge, cli>> => AnswerInv'
  <2> SUFFICES ASSUME CpsInv, AnswerInv, [Next]_<<chain, client, bridge, cli>> PROVE AnswerInv'
    OBVIOUS
  <2>1. LedgerSound'
    BY LedgerStep DEF CpsInv, AnswerInv
  <2>2. WriteSound'
    BY WriteStep DEF CpsInv, AnswerInv
  <2>3. JobSound'
    BY JobStep DEF AnswerInv
  <2>4. OutcomeIsTrue'
    BY ToldStep DEF CpsInv, AnswerInv
  <2> QED BY <2>1, <2>2, <2>3, <2>4 DEF AnswerInv
<1> QED BY <1>1, <1>2, CpsInvariant, PTL DEF Spec

\* What a caller is told of a transaction it awaited to finality is what the
\* finalized chain holds, then and for ever: it is in a finalized block, and
\* succeeded exactly when the caller was told so or was told that its result
\* cannot be decoded (PendingTransaction, transaction.rs).
THEOREM AnswersAreTrue == Spec => []OutcomeIsTrue
<1>1. AnswerInv => OutcomeIsTrue
  BY DEF AnswerInv
<1> QED BY <1>1, AnswerInvariant, PTL

-----------------------------------------------------------------------------
(***************************************************************************)
(* What the bridge writes follows what it received.  An update that was    *)
(* reported as failed may be executed later, but only before the next one: *)
(* it has the smaller nonce.                                               *)
(***************************************************************************)
\* In the pool or in a block: what was executed or may still be.
Alive(tx) == tx \in pool \/ \E i \in DOMAIN (fin \o best) : Holds((fin \o best)[i], tx)

Mine(tx) == Alive(tx) /\ tx.client = "sub"

AliveSound == \A tx : Alive(tx) => TxSound(tx) /\ tx.nonce <= FinalTree.nonce[tx.who]

Later(tx, ty) == tx.k < ty.k /\ tx.nonce < ty.nonce

OrderSound == \A tx, ty : Mine(tx) /\ Mine(ty) /\ tx # ty => Later(tx, ty) \/ Later(ty, tx)

\* Message k was taken before those that wait.
Past(k) ==
    /\ k \in Nat /\ k <= broker.count
    /\ \A i \in DOMAIN broker.inbox : k < broker.inbox[i].k

TopicSound ==
    /\ {"inbox", "count"} \subseteq DOMAIN broker
    /\ broker.count \in Nat /\ IsSeq(broker.inbox)
    /\ \A i \in DOMAIN broker.inbox :
          broker.inbox[i].k \in Nat /\ broker.inbox[i].k <= broker.count
    /\ \A i, j \in DOMAIN broker.inbox : i < j => broker.inbox[i].k < broker.inbox[j].k

MineSound == \A tx : Mine(tx) => tx.who = BridgeAccount /\ Past(tx.k)

\* The update that is to be signed is later than any signed before.
NextSound ==
    job["sub"].pc \in {"check", "sign"} =>
        /\ {"pc", "k", "who"} \subseteq DOMAIN job["sub"]
        /\ job["sub"].who = BridgeAccount /\ Past(job["sub"].k)
        /\ \A tx : Mine(tx) => tx.k < job["sub"].k

-----------------------------------------------------------------------------
\* The transaction a client signs and the pool takes.
Signed(c, tx) ==
    /\ job[c].pc = "sign" /\ PoolTakes(tx)
    /\ tx = [client |-> c, k |-> job[c].k, who |-> job[c].who, call |-> job[c].call,
             nonce |-> FinalTree.nonce[job[c].who]]

\* Only signing makes a transaction alive.
LEMMA AliveStep ==
    ASSUME ChainSound, LedgerSound, [Next]_<<chain, client, bridge, cli>>, NEW tx, Alive(tx)'
    PROVE  Alive(tx) \/ \E c \in {"sub", "cli"} : Submit(c) /\ Signed(c, tx)
<1>1. ASSUME fin' = fin, best' = best, pool' \subseteq pool PROVE Alive(tx)
  BY <1>1 DEF Alive
<1>2. ASSUME UNCHANGED chain PROVE Alive(tx)
  BY <1>1, <1>2 DEF chain
<1>3. CASE BuildBlock
  <2>0. PICK k \in 1 .. MaxPerBlock : \E txs \in [1 .. k -> pool] :
           /\ Executable(BestTree, txs)
           /\ best' = Append(best, BlockOn(BestTree, Len(fin) + Len(best), txs))
           /\ pool' = pool \ Range(txs)
    BY <1>3 DEF BuildBlock
  <2>1. PICK txs \in [1 .. k -> pool] :
           /\ Executable(BestTree, txs)
           /\ best' = Append(best, BlockOn(BestTree, Len(fin) + Len(best), txs))
           /\ pool' = pool \ Range(txs)
    BY <2>0
  <2>2. PICK tree, number, b : /\ tree = BestTree /\ number = Len(fin) + Len(best)
                               /\ b = BlockOn(tree, number, txs)
    OBVIOUS
  <2>3. fin' \o best' = Append(fin \o best, b)
    <3>1. fin' = fin
      BY <1>3 DEF BuildBlock
    <3> QED BY <2>1, <2>2, <3>1, ConcatSteps DEF ChainSound, LedgerSound
  <2>4. IsSeq(fin \o best)
    BY Heads DEF Joins
  <2>5. ExecutesAll(tree, txs, k, b)
    <3>1. k \in Nat /\ \A i \in 1 .. k : TxSound(txs[i])
      BY CpsChainConstants DEF LedgerSound
    <3>2. Executable(tree, txs) /\ TreeSound(tree)
      BY <2>1, <2>2, Heads
    <3> QED BY <2>2, <3>1, <3>2, BlockOnIs
  <2>6. Holds(b, tx) => tx \in pool
    BY <2>5, SeqFacts DEF ExecutesAll, Holds
  <2>7. PICK s, t : s = fin \o best /\ t = fin' \o best'
    OBVIOUS
  <2>8. \A i \in DOMAIN t : (i \in DOMAIN s /\ t[i] = s[i]) \/ t[i] = b
    BY <2>3, <2>4, <2>7, AppendIsSeq
  <2>9. tx \in pool' \/ \E i \in DOMAIN t : Holds(t[i], tx)
    BY <2>7 DEF Alive, Holds
  <2> QED BY <2>1, <2>6, <2>7, <2>8, <2>9 DEF Alive
<1>4. CASE Finalize
  <2>1. best # <<>> /\ fin' = Append(fin, Head(best)) /\ best' = Tail(best) /\ pool' = pool
    BY <1>4 DEF Finalize
  <2>2. fin' \o best' = fin \o best
    BY <2>1, ConcatSteps DEF ChainSound, LedgerSound
  <2> QED BY <2>1, <2>2, ZenonT(40) DEF Alive, Holds
<1>5. CASE Reorganize
  <2>1. /\ best' = <<>> /\ fin' = fin
        /\ pool' = pool \union UNION {{b.done[j].tx : j \in DOMAIN b.done} : b \in Range(best)}
    BY <1>5 DEF Reorganize
  <2>2. fin' \o best' = fin
    BY <2>1, ConcatSteps DEF ChainSound, LedgerSound
  <2>3. PICK s : s = fin \o best
    OBVIOUS
  <2>4. Joins(fin, best, s)
    BY <2>3, Heads
  <2>5. CASE tx \in pool'
    <3>1. CASE tx \notin pool
      <4>1. PICK b \in Range(best) : Holds(b, tx)
        BY <2>1, <2>5, <3>1 DEF Holds
      <4>2. PICK i \in DOMAIN best : best[i] = b
        BY <4>1 DEF Range
      <4>3. Len(fin) + i \in DOMAIN s /\ s[Len(fin) + i] = b
        BY <2>4, <4>2 DEF Joins
      <4> QED BY <2>3, <4>1, <4>3 DEF Alive
    <3> QED BY <3>1 DEF Alive
  <2>6. CASE tx \notin pool'
    <3>1. PICK i \in DOMAIN fin : Holds(fin[i], tx)
      BY <2>2, <2>6 DEF Alive, Holds
    <3>2. i \in DOMAIN s /\ s[i] = fin[i]
      BY <2>4, <3>1 DEF Joins
    <3> QED BY <2>3, <3>1, <3>2 DEF Alive
  <2> QED BY <2>5, <2>6
<1>6. ASSUME NEW c, ClientStep(c) PROVE Alive(tx) \/ (Submit(c) /\ Signed(c, tx))
  <2>1. CASE Submit(c)
    <3>1. CASE UNCHANGED pool
      BY <1>1, <2>1, <3>1 DEF Submit
    <3>2. PICK new : /\ new = [client |-> c, k |-> job[c].k, who |-> job[c].who,
                               call |-> job[c].call, nonce |-> FinalTree.nonce[job[c].who]]
                     /\ (PoolTakes(new) /\ pool' = pool \union {new}) \/ UNCHANGED pool
      BY <2>1 DEF Submit
    <3>3. CASE PoolTakes(new) /\ pool' = pool \union {new}
      <4>1. fin' = fin /\ best' = best /\ job[c].pc = "sign"
        BY <2>1 DEF Submit
      <4>2. tx = new \/ Alive(tx)
        BY <3>3, <4>1 DEF Alive
      <4> QED BY <2>1, <3>2, <3>3, <4>1, <4>2 DEF Signed
    <3> QED BY <3>1, <3>2, <3>3
  <2>2. CASE Check(c) \/ Receipt(c)
    BY <1>2, <2>2 DEF Check, Receipt
  <2>3. CASE WatchFails(c)
    BY <1>1, <2>3 DEF WatchFails
  <2> QED BY <1>6, <2>1, <2>2, <2>3 DEF ClientStep
<1>7. CASE BridgeNext
  BY <1>2, <1>6, <1>7 DEF BridgeNext, Start, SubscribeConnects, EnsureCanWrite,
     PublishStarts, PollConnects, ConnectionBreaks, MessageArrives, PollFails, SleepEnds,
     EventLoopSends, TakeMessage, UpdateSettles, WatchBlock, PushUpdate, StreamEnds
<1>8. CASE Invoke \/ PinBlock \/ Canonical \/ Read \/ Show \/ Permit \/ Watch \/ Prepare \/ Done
  BY <1>2, <1>8 DEF Invoke, PinBlock, Canonical, Read, Show, Permit, Watch, Prepare, Done
<1> QED BY <1>2, <1>3, <1>4, <1>5, <1>6, <1>7, <1>8 DEF Next, ChainNext

\* The nonces of the finalized state only rise.
LEMMA FinalRises ==
    ASSUME ChainSound, LedgerSound, [Next]_<<chain, client, bridge, cli>>, NEW a \in Account
    PROVE  /\ FinalTree.nonce[a] \in Nat /\ FinalTree'.nonce[a] \in Nat
           /\ FinalTree.nonce[a] <= FinalTree'.nonce[a]
<1>0. FinalTree.nonce[a] \in Nat
  BY Heads DEF TreeSound
<1>1. CASE fin' = fin
  BY <1>0, <1>1 DEF FinalTree, Last
<1>2. CASE Finalize
  <2>1. best # <<>> /\ fin' = Append(fin, Head(best))
    BY <1>2 DEF Finalize
  <2>2. Len(best) >= 1 /\ Head(best) = best[1]
    BY <2>1, ConcatSteps DEF ChainSound, LedgerSound
  <2>3. PICK n, s : n = Len(fin) /\ s = fin \o best
    OBVIOUS
  <2>4. n \in Nat /\ n >= 1 /\ Len(fin') = n + 1 /\ fin'[n + 1] = Head(best)
    BY <2>1, <2>3, AppendIsSeq DEF ChainSound
  <2>5. n \in DOMAIN s /\ n + 1 \in DOMAIN s /\ s[n] = fin[n] /\ s[n + 1] = Head(best)
    <3>1. Joins(fin, best, s)
      BY <2>3, Heads
    <3> QED BY <2>2, <2>3, <2>4, <3>1 DEF Joins
  <2>6. Ledger(s) /\ n <= n + 1
    BY <2>3, <2>4 DEF LedgerSound
  <2>7. TreeSound(s[n + 1].tree) /\ s[n].tree.nonce[a] <= s[n + 1].tree.nonce[a]
    BY <2>5, <2>6 DEF Ledger
  <2>8. FinalTree = s[n].tree /\ FinalTree' = s[n + 1].tree
    BY <2>3, <2>4, <2>5 DEF FinalTree, Last
  <2> QED BY <1>0, <2>7, <2>8 DEF TreeSound
<1>3. fin' = fin \/ Finalize
  <2>1. ASSUME NEW c, ClientStep(c) PROVE fin' = fin
    BY <2>1 DEF ClientStep, Check, Submit, Receipt, WatchFails, chain
  <2>2. BridgeNext => fin' = fin
    BY <2>1 DEF BridgeNext, Start, SubscribeConnects, EnsureCanWrite, PublishStarts,
       PollConnects, ConnectionBreaks, MessageArrives, PollFails, SleepEnds, EventLoopSends,
       TakeMessage, UpdateSettles, WatchBlock, PushUpdate, StreamEnds, chain
  <2>3. Invoke \/ PinBlock \/ Canonical \/ Read \/ Show \/ Permit \/ Watch \/ Prepare \/ Done
           => fin' = fin
    BY DEF Invoke, PinBlock, Canonical, Read, Show, Permit, Watch, Prepare, Done, chain
  <2>4. ChainNext => fin' = fin \/ Finalize
    BY DEF ChainNext, BuildBlock, Reorganize
  <2>5. UNCHANGED <<chain, client, bridge, cli>> => fin' = fin
    BY DEF chain
  <2> QED BY <2>1, <2>2, <2>3, <2>4, <2>5 DEF Next
<1> QED BY <1>1, <1>2, <1>3

\* A signed transaction is one of the account of the client.
LEMMA SignedIs ==
    ASSUME ChainSound, LedgerSound, JobSound, NEW c \in Client, NEW tx, Signed(c, tx)
    PROVE  /\ TxSound(tx) /\ tx.nonce = FinalTree.nonce[tx.who]
           /\ tx.client = c /\ tx.k = job[c].k /\ tx.who = job[c].who
<1>1. /\ job[c].pc = "sign" /\ tx.client = c /\ tx.k = job[c].k /\ tx.who = job[c].who
      /\ tx.call = job[c].call /\ tx.nonce = FinalTree.nonce[job[c].who]
  BY DEF Signed
<1>2. job[c].who \in Account /\ job[c].call.op \in Ops
  BY <1>1 DEF JobSound, Handed
<1>3. FinalTree.nonce[job[c].who] \in Nat
  BY <1>2, Heads DEF TreeSound
<1> QED BY <1>1, <1>2, <1>3 DEF TxSound

LEMMA AliveKeeps ==
    ASSUME ChainSound, LedgerSound, JobSound, AliveSound, [Next]_<<chain, client, bridge, cli>>
    PROVE  AliveSound'
<1> SUFFICES ASSUME NEW tx, Alive(tx)'
             PROVE  TxSound(tx) /\ tx.nonce <= FinalTree'.nonce[tx.who]
  BY DEF AliveSound, TxSound
<1>1. TxSound(tx) /\ tx.nonce <= FinalTree.nonce[tx.who]
  <2>1. CASE Alive(tx)
    BY <2>1 DEF AliveSound
  <2>2. CASE \E c \in {"sub", "cli"} : Signed(c, tx)
    <3>1. PICK c \in Client : Signed(c, tx)
      BY <2>2, BridgeConstants, ScriptConstants
    <3>2. TxSound(tx) /\ tx.nonce = FinalTree.nonce[tx.who]
      BY <3>1, SignedIs
    <3>3. tx.nonce \in Nat
      BY <3>2 DEF TxSound
    <3> QED BY <3>2, <3>3
  <2> QED BY <2>1, <2>2, AliveStep
<1>2. /\ tx.nonce \in Nat /\ FinalTree.nonce[tx.who] \in Nat /\ FinalTree'.nonce[tx.who] \in Nat
      /\ FinalTree.nonce[tx.who] <= FinalTree'.nonce[tx.who]
  BY <1>1, FinalRises DEF TxSound
<1> QED BY <1>1, <1>2

\* An update is signed with a nonce above those of all that are alive.
LEMMA SignedLater ==
    ASSUME ChainSound, LedgerSound, JobSound, AliveSound, MineSound, NextSound,
           NEW tx, Signed("sub", tx), NEW ty, Mine(ty)
    PROVE  Later(ty, tx)
<1>1. /\ TxSound(tx) /\ tx.nonce = FinalTree.nonce[tx.who]
      /\ tx.client = "sub" /\ tx.k = job["sub"].k /\ tx.who = job["sub"].who
  BY SignedIs, BridgeConstants
<1>2. job["sub"].pc = "sign" /\ PoolTakes(tx)
  BY DEF Signed
<1>3. ty.k < tx.k /\ tx.who = BridgeAccount /\ ty.who = BridgeAccount
  BY <1>1, <1>2 DEF NextSound, MineSound
<1>4. TxSound(ty) /\ ty.nonce <= tx.nonce
  BY <1>1, <1>3 DEF AliveSound, Mine
<1>5. ty.nonce \in Nat /\ tx.nonce \in Nat
  BY <1>1, <1>4 DEF TxSound
<1>6. ty.nonce # tx.nonce
  <2>1. CASE ty \in pool
    BY <1>2, <1>3, <2>1 DEF PoolTakes
  <2>2. CASE ty \notin pool
    <3>1. PICK s : s = fin \o best
      OBVIOUS
    <3>2. PICK i \in DOMAIN s : Holds(s[i], ty)
      BY <2>2, <3>1 DEF Mine, Alive
    <3>3. /\ DOMAIN s = 1 .. Len(s) /\ Len(s) \in Nat /\ Len(s) >= 1
          /\ BestTree = s[Len(s)].tree /\ Ledger(s) /\ TreeSound(BestTree)
      BY <3>1, Heads, SeqFacts DEF LedgerSound, Joins
    <3>4. i <= Len(s) /\ Len(s) \in DOMAIN s
      BY <3>2, <3>3
    <3>5. ty.nonce < BestTree.nonce[ty.who]
      BY <3>2, <3>3, <3>4 DEF Ledger
    <3>6. BestTree.nonce[ty.who] <= tx.nonce /\ BestTree.nonce[ty.who] \in Nat
      BY <1>2, <1>3, <1>4, <3>3 DEF PoolTakes, TxSound, TreeSound
    <3> QED BY <1>5, <3>5, <3>6
  <2> QED BY <2>1, <2>2
<1> QED BY <1>3, <1>4, <1>5, <1>6 DEF Later

LEMMA MineStep ==
    ASSUME ChainSound, LedgerSound, JobSound, [Next]_<<chain, client, bridge, cli>>,
           NEW tx, Mine(tx)'
    PROVE  Mine(tx) \/ (Submit("sub") /\ Signed("sub", tx))
<1>1. Alive(tx)' /\ tx.client = "sub"
  BY DEF Mine
<1>2. Signed("cli", tx) => tx.client = "cli"
  BY SignedIs, ScriptConstants
<1> QED BY <1>1, <1>2, AliveStep DEF Mine

LEMMA OrderKeeps ==
    ASSUME ChainSound, LedgerSound, JobSound, AliveSound, MineSound, NextSound, OrderSound,
           [Next]_<<chain, client, bridge, cli>>
    PROVE  OrderSound'
<1> SUFFICES ASSUME NEW tx, NEW ty, Mine(tx)', Mine(ty)', tx # ty
             PROVE  Later(tx, ty) \/ Later(ty, tx)
  BY DEF OrderSound, Later
<1>2. CASE Mine(tx) /\ Mine(ty)
  BY <1>2 DEF OrderSound
<1>3. CASE Mine(tx) /\ Signed("sub", ty)
  BY <1>3, SignedLater
<1>4. CASE Signed("sub", tx) /\ Mine(ty)
  BY <1>4, SignedLater
<1>5. CASE Signed("sub", tx) /\ Signed("sub", ty)
  BY <1>5 DEF Signed
<1> QED BY <1>2, <1>3, <1>4, <1>5, MineStep

-----------------------------------------------------------------------------
(***************************************************************************)
(* The topic: messages are numbered as they arrive.                        *)
(***************************************************************************)
\* The message that is taken.
Takes(k) ==
    /\ broker.inbox # <<>> /\ k = Head(broker.inbox).k
    /\ broker' = [broker EXCEPT !.inbox = Tail(@)]

Arrives ==
    \E m : broker' = [broker EXCEPT !.count = @ + 1,
                                    !.inbox = Append(@, [k |-> broker.count + 1, m |-> m])]

\* The inbox and the count are as before, or the inbox is emptied.
Rests ==
    /\ {"inbox", "count"} \subseteq DOMAIN broker'
    /\ broker'.count = broker.count /\ broker'.inbox \in {broker.inbox, <<>>}

LEMMA BrokerStep ==
    ASSUME TopicSound, [Next]_<<chain, client, bridge, cli>>
    PROVE  Rests \/ Arrives \/ (\E k : Takes(k) /\ TakeMessage)
<1>1. CASE broker' = broker
  BY <1>1 DEF Rests, TopicSound
<1>2. CASE UNCHANGED bridge
  BY <1>1, <1>2 DEF bridge
<1>3. CASE PollConnects \/ ConnectionBreaks
  BY <1>3 DEF PollConnects, ConnectionBreaks, Rests, TopicSound
<1>4. CASE MessageArrives
  BY <1>4 DEF MessageArrives, Arrives
<1>5. CASE TakeMessage
  BY <1>5 DEF TakeMessage, Takes
<1>6. CASE Start \/ SubscribeConnects \/ EnsureCanWrite \/ PublishStarts \/ PollFails
           \/ SleepEnds \/ EventLoopSends \/ UpdateSettles \/ WatchBlock \/ PushUpdate \/ StreamEnds
  BY <1>1, <1>6 DEF Start, SubscribeConnects, EnsureCanWrite, PublishStarts, PollFails,
     SleepEnds, EventLoopSends, UpdateSettles, WatchBlock, PushUpdate, StreamEnds
<1>7. CASE Invoke \/ PinBlock \/ Canonical \/ Read \/ Show \/ Permit \/ Watch \/ Prepare \/ Done
  BY <1>2, <1>7 DEF Invoke, PinBlock, Canonical, Read, Show, Permit, Watch, Prepare, Done
<1> QED BY <1>2, <1>3, <1>4, <1>5, <1>6, <1>7 DEF Next, BridgeNext

\* The rest of a sequence.
Leaves(s, t) ==
    /\ IsSeq(t) /\ DOMAIN s = 1 .. Len(s) /\ Len(s) \in Nat /\ Len(s) >= 1
    /\ DOMAIN t = 1 .. Len(s) - 1 /\ Head(s) = s[1]
    /\ \A i \in 1 .. Len(s) - 1 : t[i] = s[i + 1]

LEMMA TailIs ==
    ASSUME NEW s, IsSeq(s), s # <<>>
    PROVE  Leaves(s, Tail(s))
<1>1. PICK S : s \in Seq(S)
  BY DEF IsSeq
<1>2. Tail(s) \in Seq(S)
  BY <1>1
<1>3. /\ DOMAIN s = 1 .. Len(s) /\ Len(s) \in Nat /\ Len(s) >= 1
      /\ DOMAIN Tail(s) = 1 .. Len(s) - 1 /\ Head(s) = s[1]
      /\ \A i \in 1 .. Len(s) - 1 : Tail(s)[i] = s[i + 1]
  BY <1>1
<1> QED BY <1>2, <1>3 DEF Leaves, IsSeq

\* What is past stays past, and so is what is taken.
LEMMA TakesKeeps ==
    ASSUME TopicSound, NEW k, Takes(k)
    PROVE  TopicSound' /\ Past(k)' /\ \A p : Past(p) => Past(p)' /\ p < k
<1>1. PICK s, t : s = broker.inbox /\ t = Tail(s)
  OBVIOUS
<1>2. /\ broker'.inbox = t /\ broker'.count = broker.count /\ k = Head(s).k /\ s # <<>>
      /\ {"inbox", "count"} \subseteq DOMAIN broker'
  BY <1>1 DEF Takes, TopicSound
<1>3. Leaves(s, t)
  BY <1>1, <1>2, TailIs DEF TopicSound
<1>4. /\ \A i \in DOMAIN s : s[i].k \in Nat /\ s[i].k <= broker.count
      /\ \A i, j \in DOMAIN s : i < j => s[i].k < s[j].k
      /\ broker.count \in Nat
  BY <1>1 DEF TopicSound
<1>5. 1 \in DOMAIN s /\ k = s[1].k /\ \A i \in DOMAIN t : i + 1 \in DOMAIN s /\ t[i] = s[i + 1]
      /\ i \in Nat /\ 1 < i + 1
  BY <1>2, <1>3 DEF Leaves
<1>6. \A i \in DOMAIN t : t[i].k \in Nat /\ t[i].k <= broker.count /\ k < t[i].k
  BY <1>4, <1>5
<1>7. \A i, j \in DOMAIN t : i < j => t[i].k < t[j].k
  BY <1>4, <1>5
<1>8. k \in Nat /\ k <= broker.count
  BY <1>4, <1>5
<1>9. TopicSound' /\ Past(k)'
  BY <1>2, <1>3, <1>4, <1>6, <1>7, <1>8 DEF TopicSound, Past, Leaves
<1>10. ASSUME NEW p, Past(p) PROVE Past(p)' /\ p < k
  <2>1. p \in Nat /\ p <= broker.count /\ \A i \in DOMAIN s : p < s[i].k
    BY <1>1, <1>10 DEF Past
  <2>2. p < k /\ \A i \in DOMAIN t : p < t[i].k
    BY <1>5, <2>1
  <2> QED BY <1>2, <2>1, <2>2 DEF Past
<1> QED BY <1>9, <1>10

LEMMA ArrivesKeeps ==
    ASSUME TopicSound, Arrives
    PROVE  TopicSound' /\ \A p : Past(p) => Past(p)'
<1>1. PICK s, n, x, m : /\ s = broker.inbox /\ n = broker.count + 1 /\ x = [k |-> n, m |-> m]
                        /\ broker' = [broker EXCEPT !.count = n, !.inbox = Append(s, x)]
  BY DEF Arrives
<1>2. PICK t : t = Append(s, x)
  OBVIOUS
<1>3. /\ broker'.inbox = t /\ broker'.count = n /\ {"inbox", "count"} \subseteq DOMAIN broker'
      /\ x.k = n
  BY <1>1, <1>2 DEF TopicSound
<1>4. /\ \A i \in DOMAIN s : s[i].k \in Nat /\ s[i].k < n
      /\ \A i, j \in DOMAIN s : i < j => s[i].k < s[j].k
      /\ n \in Nat /\ IsSeq(s)
  BY <1>1 DEF TopicSound
<1>5. /\ IsSeq(t) /\ Len(s) \in Nat /\ DOMAIN s = 1 .. Len(s) /\ DOMAIN t = 1 .. Len(s) + 1
      /\ \A i \in 1 .. Len(s) : t[i] = s[i]
      /\ t[Len(s) + 1] = x
  BY <1>2, <1>4, AppendIsSeq
<1>6. \A i \in DOMAIN t : t[i].k \in Nat /\ t[i].k <= n
  BY <1>3, <1>4, <1>5
<1>7. \A i, j \in DOMAIN t : i < j => t[i].k < t[j].k
  BY <1>3, <1>4, <1>5
<1>8. TopicSound'
  BY <1>3, <1>4, <1>5, <1>6, <1>7 DEF TopicSound
<1>9. ASSUME NEW p, Past(p) PROVE Past(p)'
  <2>1. p \in Nat /\ p < n /\ \A i \in DOMAIN s : p < s[i].k
    BY <1>1, <1>9 DEF Past, TopicSound
  <2>2. p <= n /\ \A i \in DOMAIN t : p < t[i].k
    BY <1>3, <1>4, <1>5, <2>1
  <2> QED BY <1>3, <2>1, <2>2 DEF Past
<1> QED BY <1>8, <1>9

LEMMA TopicKeeps ==
    ASSUME TopicSound, [Next]_<<chain, client, bridge, cli>>
    PROVE  TopicSound' /\ \A p : Past(p) => Past(p)'
<1>1. CASE Rests
  BY <1>1, SeqFacts DEF Rests, TopicSound, Past
<1> QED BY <1>1, BrokerStep, ArrivesKeeps, TakesKeeps

\* The update to be signed is the one it was, or the one that is taken now.
LEMMA NextStep ==
    ASSUME JobSound, TopicSound, NextSound, [Next]_<<chain, client, bridge, cli>>,
           job'["sub"].pc \in {"check", "sign"}
    PROVE  \/ /\ job["sub"].pc \in {"check", "sign"} /\ ~Submit("sub")
              /\ {"pc", "k", "who"} \subseteq DOMAIN job'["sub"]
              /\ job'["sub"].k = job["sub"].k /\ job'["sub"].who = job["sub"].who
           \/ /\ \E k : Takes(k) /\ job'["sub"].k = k
              /\ TakeMessage
              /\ {"pc", "k", "who"} \subseteq DOMAIN job'["sub"]
              /\ job'["sub"].who = BridgeAccount
<1>0. DOMAIN job = Client /\ "sub" \in Client /\ "cli" \in Client /\ "sub" # "cli"
  BY BridgeConstants, ScriptConstants DEF JobSound
<1>1. ASSUME Submit("sub") PROVE FALSE
  <2>1. \/ \E tx, wait : job' = [job EXCEPT !["sub"] = [pc |-> "wait", tx |-> tx, wait |-> wait]]
        \/ \E result : job' = [job EXCEPT !["sub"] = [pc |-> "returned", result |-> result]]
    BY <1>1 DEF Submit, Returns
  <2> QED BY <1>0, <2>1
<1>2. CASE job'["sub"] = job["sub"]
  BY <1>1, <1>2 DEF NextSound
<1>3. CASE \E c \in {"cli"} : \E j : job' = [job EXCEPT ![c] = j]
  BY <1>0, <1>2, <1>3
<1>4. CASE job' = job
  BY <1>2, <1>4
<1>5. CASE TakeMessage
  <2>1. CASE job' = job
    BY <1>4, <2>1
  <2>2. CASE job' # job
    <3>1. PICK k, call : Begin("sub", k, BridgeAccount, call, "finalized") /\ k = Head(broker.inbox).k
      BY <1>5, <2>2 DEF TakeMessage
    <3>2. PICK j : /\ j = [pc |-> "check", k |-> k, who |-> BridgeAccount, call |-> call,
                           wait |-> "finalized"]
                   /\ job' = [job EXCEPT !["sub"] = j]
      BY <3>1 DEF Begin
    <3>3. job'["sub"] = j
      BY <1>0, <3>2
    <3>4. {"pc", "k", "who"} \subseteq DOMAIN j /\ j.k = k /\ j.who = BridgeAccount
      BY <3>2
    <3>5. Takes(k)
      BY <1>5, <3>1 DEF TakeMessage, Takes
    <3> QED BY <1>5, <3>3, <3>4, <3>5
  <2> QED BY <2>1, <2>2
<1>6. CASE ClientStep("sub")
  <2>1. CASE Check("sub")
    <3>1. CASE \E result : Returns("sub", result)
      BY <1>0, <3>1 DEF Returns
    <3>2. CASE job' = [job EXCEPT !["sub"].pc = "sign"]
      <4>1. job'["sub"] = [job["sub"] EXCEPT !.pc = "sign"]
        BY <1>0, <3>2
      <4>2. job["sub"].pc = "check" /\ {"pc", "k", "who"} \subseteq DOMAIN job["sub"]
        BY <2>1 DEF Check, NextSound
      <4> QED BY <1>1, <4>1, <4>2
    <3> QED BY <2>1, <3>1, <3>2 DEF Check
  <2>2. CASE Receipt("sub") \/ WatchFails("sub")
    <3>1. \E result : Returns("sub", result)
      BY <2>2 DEF Receipt, WatchFails, Tells
    <3> QED BY <1>0, <3>1 DEF Returns
  <2> QED BY <1>1, <1>6, <2>1, <2>2 DEF ClientStep
<1>7. CASE ClientStep("cli")
  <2>1. \A result : Returns("cli", result) => \E j : job' = [job EXCEPT !["cli"] = j]
    BY DEF Returns
  <2>2. Check("cli") => \E j : job' = [job EXCEPT !["cli"] = j]
    <3>1. job' = [job EXCEPT !["cli"].pc = "sign"] => \E j : job' = [job EXCEPT !["cli"] = j]
      OBVIOUS
    <3> QED BY <2>1, <3>1 DEF Check
  <2>3. Submit("cli") => \E j : job' = [job EXCEPT !["cli"] = j]
    BY <2>1 DEF Submit
  <2>4. Receipt("cli") \/ WatchFails("cli") => \E j : job' = [job EXCEPT !["cli"] = j]
    BY <2>1 DEF Receipt, WatchFails, Tells
  <2> QED BY <1>3, <1>7, <2>2, <2>3, <2>4 DEF ClientStep
<1>8. CASE UpdateSettles
  BY <1>0, <1>8 DEF UpdateSettles, Idle
<1>9. CASE Prepare \/ Done
  BY <1>3, <1>4, <1>9 DEF Prepare, Done, Begin
<1>10. CASE UNCHANGED client
  BY <1>4, <1>10 DEF client
<1>11. CASE Start \/ SubscribeConnects \/ EnsureCanWrite \/ PublishStarts
           \/ PollConnects \/ ConnectionBreaks \/ MessageArrives \/ PollFails \/ SleepEnds
           \/ EventLoopSends \/ WatchBlock \/ PushUpdate \/ StreamEnds
  BY <1>10, <1>11 DEF Start, SubscribeConnects, EnsureCanWrite, PublishStarts, PollConnects,
     ConnectionBreaks, MessageArrives, PollFails, SleepEnds, EventLoopSends, WatchBlock,
     PushUpdate, StreamEnds
<1>12. CASE Invoke \/ PinBlock \/ Canonical \/ Read \/ Show \/ Permit \/ Watch
  BY <1>10, <1>12 DEF Invoke, PinBlock, Canonical, Read, Show, Permit, Watch
<1> QED BY <1>5, <1>6, <1>7, <1>8, <1>9, <1>10, <1>11, <1>12 DEF Next, BridgeNext

LEMMA MineKeeps ==
    ASSUME ChainSound, LedgerSound, JobSound, TopicSound, MineSound, NextSound,
           [Next]_<<chain, client, bridge, cli>>
    PROVE  MineSound'
<1> SUFFICES ASSUME NEW tx, Mine(tx)' PROVE tx.who = BridgeAccount /\ Past(tx.k)'
  BY DEF MineSound
<1>1. tx.who = BridgeAccount /\ Past(tx.k)
  <2>1. CASE Mine(tx)
    BY <2>1 DEF MineSound
  <2>2. CASE Signed("sub", tx)
    <3>1. tx.k = job["sub"].k /\ tx.who = job["sub"].who /\ job["sub"].pc = "sign"
      BY <2>2, SignedIs, BridgeConstants DEF Signed
    <3> QED BY <3>1 DEF NextSound
  <2> QED BY <2>1, <2>2, MineStep
<1> QED BY <1>1, TopicKeeps

LEMMA NextKeeps ==
    ASSUME ChainSound, LedgerSound, JobSound, TopicSound, MineSound, NextSound,
           [Next]_<<chain, client, bridge, cli>>
    PROVE  NextSound'
<1> SUFFICES ASSUME job'["sub"].pc \in {"check", "sign"}
             PROVE  /\ {"pc", "k", "who"} \subseteq DOMAIN job'["sub"]
                    /\ job'["sub"].who = BridgeAccount /\ Past(job["sub"].k)'
                    /\ \A tx : Mine(tx)' => tx.k < job'["sub"].k
  BY DEF NextSound
<1>1. CASE /\ job["sub"].pc \in {"check", "sign"} /\ ~Submit("sub")
           /\ {"pc", "k", "who"} \subseteq DOMAIN job'["sub"]
           /\ job'["sub"].k = job["sub"].k /\ job'["sub"].who = job["sub"].who
  <2>1. /\ job["sub"].who = BridgeAccount /\ Past(job["sub"].k)
        /\ \A tx : Mine(tx) => tx.k < job["sub"].k
    BY <1>1 DEF NextSound
  <2>2. PICK k : k = job["sub"].k
    OBVIOUS
  <2>3. Past(k)'
    BY <2>1, <2>2, TopicKeeps
  <2>4. \A tx : Mine(tx)' => tx.k < k
    BY <1>1, <2>1, <2>2, MineStep
  <2> QED BY <1>1, <2>1, <2>2, <2>3, <2>4 DEF Past
<1>2. CASE /\ \E k : Takes(k) /\ job'["sub"].k = k
           /\ TakeMessage
           /\ {"pc", "k", "who"} \subseteq DOMAIN job'["sub"]
           /\ job'["sub"].who = BridgeAccount
  <2>1. PICK k : Takes(k) /\ job'["sub"].k = k
    BY <1>2
  <2>2. Past(k)' /\ \A p : Past(p) => p < k
    BY <2>1, TakesKeeps
  <2>3. ASSUME NEW tx, Mine(tx)' PROVE tx.k < k
    <3>1. UNCHANGED chain
      BY <1>2 DEF TakeMessage
    <3>2. Mine(tx)
      BY <2>3, <3>1 DEF Mine, Alive, Holds, chain
    <3> QED BY <2>2, <3>2 DEF MineSound
  <2> QED BY <1>2, <2>1, <2>2, <2>3 DEF Past
<1> QED BY <1>1, <1>2, NextStep

-----------------------------------------------------------------------------
TopicInv == TopicSound /\ AliveSound /\ OrderSound /\ MineSound /\ NextSound

LEMMA TopicInitially ==
    ASSUME Init
    PROVE  TopicInv
<1>1. PICK g : g = [number |-> 0, tree |-> Genesis, done |-> <<>>]
  OBVIOUS
<1>2. /\ fin = <<g>> /\ best = <<>> /\ pool = {} /\ job = [c \in Client |-> Idle]
      /\ broker = [up |-> FALSE, subscribed |-> FALSE, inbox |-> <<>>, count |-> 0]
  BY <1>1 DEF Init, ClientInit, ChainInit, BridgeInit
<1>3. TopicSound
  BY <1>2, SeqFacts DEF TopicSound
<1>4. \A tx : ~Alive(tx)
  <2>1. fin \o best = <<g>> /\ DOMAIN <<g>> = {1} /\ <<g>>[1] = g
    BY <1>2
  <2>2. \A tx : ~Holds(g, tx)
    BY <1>1, SeqFacts DEF Holds
  <2> QED BY <1>2, <2>1, <2>2 DEF Alive
<1>5. NextSound
  BY <1>2, BridgeConstants DEF NextSound, Idle
<1> QED BY <1>3, <1>4, <1>5 DEF TopicInv, AliveSound, OrderSound, MineSound, Mine

\* The invariant of the subscribe task: its updates are alive in the order of
\* their nonces, which is the order of the messages.
THEOREM TopicInvariant == Spec => []TopicInv
<1>1. Init => TopicInv
  BY TopicInitially
<1>2. CpsInv /\ AnswerInv /\ TopicInv /\ [Next]_<<chain, client, bridge, cli>> => TopicInv'
  <2> SUFFICES ASSUME CpsInv, AnswerInv, TopicInv, [Next]_<<chain, client, bridge, cli>>
               PROVE  TopicInv'
    OBVIOUS
  <2>1. TopicSound'
    BY TopicKeeps DEF TopicInv
  <2>2. AliveSound'
    BY AliveKeeps DEF CpsInv, AnswerInv, TopicInv
  <2>3. OrderSound'
    BY OrderKeeps DEF CpsInv, AnswerInv, TopicInv
  <2>4. MineSound'
    BY MineKeeps DEF CpsInv, AnswerInv, TopicInv
  <2>5. NextSound'
    BY NextKeeps DEF CpsInv, AnswerInv, TopicInv
  <2> QED BY <2>1, <2>2, <2>3, <2>4, <2>5 DEF TopicInv
<1> QED BY <1>1, <1>2, CpsInvariant, AnswerInvariant, PTL DEF Spec

\* The messages the finalized chain holds are a subsequence of those received,
\* each at most once, although a failed update may be executed after all.
THEOREM WritesInOrder == Spec => []WritesFollowReceipts
<1>1. CpsInv /\ AnswerInv /\ TopicInv => WritesFollowReceipts
  <2> SUFFICES ASSUME CpsInv, AnswerInv, TopicInv,
                      NEW b \in DOMAIN fin, NEW c \in DOMAIN fin,
                      NEW i \in DOMAIN fin[b].done, NEW j \in DOMAIN fin[c].done,
                      Before(b, i, c, j), Wrote(fin[b].done[i]), Wrote(fin[c].done[j])
               PROVE  fin[b].done[i].tx.k < fin[c].done[j].tx.k
    BY DEF WritesFollowReceipts
  <2>1. PICK tx, ty : tx = fin[b].done[i].tx /\ ty = fin[c].done[j].tx
    OBVIOUS
  <2>2. PICK s : s = fin \o best
    OBVIOUS
  <2>3. /\ b \in DOMAIN s /\ s[b] = fin[b] /\ c \in DOMAIN s /\ s[c] = fin[c]
    <3>1. Joins(fin, best, s)
      BY <2>2, Heads DEF CpsInv, AnswerInv
    <3> QED BY <3>1 DEF Joins
  <2>4. Ledger(s)
    BY <2>2 DEF AnswerInv, LedgerSound
  <2>5. Holds(s[b], tx) /\ Holds(s[c], ty)
    BY <2>1, <2>3 DEF Holds
  <2>6. Mine(tx) /\ Mine(ty)
    BY <2>1, <2>2, <2>3, <2>5 DEF Mine, Alive, Wrote
  <2>7. tx.who = ty.who /\ tx.k \in Nat /\ ty.k \in Nat /\ tx.nonce \in Nat /\ ty.nonce \in Nat
    BY <2>6 DEF TopicInv, MineSound, Past, AliveSound, Mine, TxSound
  <2>8. tx.nonce < ty.nonce
    <3>1. CASE b < c
      BY <2>3, <2>4, <2>5, <2>7, <3>1 DEF Ledger
    <3>2. CASE b = c /\ i < j
      BY <2>1, <2>3, <2>4, <2>7, <3>2 DEF Ledger, InTurn
    <3> QED BY <3>1, <3>2 DEF Before
  <2>9. Later(tx, ty) \/ Later(ty, tx)
    BY <2>6, <2>7, <2>8 DEF TopicInv, OrderSound
  <2>10. tx.k < ty.k
    BY <2>7, <2>8, <2>9 DEF Later
  <2> QED BY <2>1, <2>10
<1> QED BY <1>1, CpsInvariant, AnswerInvariant, TopicInvariant, PTL
============================================================================

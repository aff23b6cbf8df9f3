----------------------------- MODULE MqttBridge -----------------------------
(***************************************************************************)
(* The MQTT bridge started from a configuration file with one subscribe    *)
(* entry and one publish entry for the same node: messages of a topic are  *)
(* written to the payload of the node, and payload changes of the node in  *)
(* finalized blocks are published to a topic.  Each entry is a task; the   *)
(* publish task has a second task that drives its MQTT connection.         *)
(*                                                                         *)
(* The broker is external: QoS 0 and a clean session, so a message in      *)
(* flight and the subscription itself are gone when the connection breaks. *)
(*                                                                         *)
(* History variables: log (updates handed to the MQTT client), faulty      *)
(* (blocks the watcher failed on, or whose update it could not decode),    *)
(* unread (payloads that could not be turned into text).                   *)
(***************************************************************************)
EXTENDS CpsClient

CONSTANTS Config,      \* the configurations the bridge may be started with
          Message,     \* what may arrive on the topic
          BridgeNode,  \* the node of both entries
          BridgeAccount,
          MaxArrivals,
          QueueCap     \* requests the MQTT client queues: 10 in the code

ASSUME BridgeConstants == BridgeAccount \in Account /\ "sub" \in Client

VARIABLES conf, sub, pub, broker, outq, log, faulty, unread

bridge == <<conf, sub, pub, broker, outq, log, faulty, unread>>

Overhead == 75         \* bytes an EncryptedMessage adds to its plaintext, at most

-----------------------------------------------------------------------------
(* Data on its way to the node and back.                                   *)

\* Encryption keeps the bytes; plain data goes through a lossy conversion to
\* UTF-8, which changes anything that is not text: a replacement character
\* can be longer than what it replaces.
NodeData(m) ==
    IF conf.sealing = "none"
    THEN [form |-> IF m.text THEN "text" ELSE "mangled", m |-> m.id,
          size |-> IF m.text THEN m.size ELSE m.size + m.longer]
    ELSE [form |-> "sealed", scheme |-> conf.sealing, m |-> m.id, text |-> m.text,
          size |-> m.size + Overhead]

\* The publish task reads sealed data with an SR25519 keypair or, when it is
\* not to decrypt, shows it as JSON; plain data must be text.
Readable(v) ==
    CASE v.form = "sealed" /\ conf.decrypt -> v.scheme = "sr25519" /\ v.text
      [] v.form = "sealed" -> TRUE
      [] OTHER -> v.form \in {"text", "mangled"}

NodeDataToString(v) == IF v.form = "sealed" /\ ~conf.decrypt THEN <<"json", v>> ELSE <<"text", v.m>>

-----------------------------------------------------------------------------
(* Starting the tasks.                                                     *)

\* start() needs a [blockchain] section and then spawns every entry.
Start ==
    /\ sub.pc = "none"
    /\ LET pc == IF conf.blockchain THEN "spawned" ELSE "refused"
       IN sub' = [sub EXCEPT !.pc = pc] /\ pub' = [pub EXCEPT !.pc = pc]
    /\ UNCHANGED <<chain, client, conf, broker, outq, log, faulty, unread>>

\* Key, cipher and scheme are parsed, the chain is connected to and the
\* signer made; the keypair for encryption and the signer need a SURI.
SubscribeConnects ==
    /\ sub.pc = "spawned"
    /\ \E connected \in BOOLEAN :
        sub' = [sub EXCEPT !.pc = IF /\ conf.sealing \notin {"bad key", "bad scheme"}
                                     /\ connected /\ conf.suri
                                  THEN "ensure" ELSE "failed"]
    /\ UNCHANGED <<chain, client, conf, pub, broker, outq, log, faulty, unread>>

\* ensure_can_write, then the MQTT client with the one subscribe request.
EnsureCanWrite ==
    /\ sub.pc = "ensure"
    /\ LET allowed == HasCapability(FinalTree, BridgeNode, BridgeAccount, "write")
       IN sub' = [sub EXCEPT !.pc = IF allowed.ok /\ allowed.value /\ conf.url THEN "poll" ELSE "failed"]
    /\ UNCHANGED <<chain, client, conf, pub, broker, outq, log, faulty, unread>>

\* A keypair for decryption needs a SURI; the watcher sees the blocks that are
\* finalized from now on.
PublishStarts ==
    /\ pub.pc = "spawned"
    /\ \E connected \in BOOLEAN :
        pub' = [pub EXCEPT !.pc = IF /\ conf.decrypt => conf.suri
                                     /\ connected /\ conf.url
                                  THEN "watch" ELSE "failed",
                           !.seen = Len(fin), !.from = Len(fin)]
    /\ UNCHANGED <<chain, client, conf, sub, broker, outq, log, faulty, unread>>

-----------------------------------------------------------------------------
(* The broker and the connections to it.                                   *)

\* poll connects and sends the queued subscribe request, which is queued once.
PollConnects ==
    /\ sub.pc = "poll" /\ ~broker.up
    /\ broker' = [broker EXCEPT !.up = TRUE, !.subscribed = ~sub.asked]
    /\ sub' = [sub EXCEPT !.asked = TRUE]
    /\ UNCHANGED <<chain, client, conf, pub, outq, log, faulty, unread>>

ConnectionBreaks ==
    /\ broker.up
    /\ broker' = [broker EXCEPT !.up = FALSE, !.subscribed = FALSE, !.inbox = <<>>]
    /\ UNCHANGED <<chain, client, conf, sub, pub, outq, log, faulty, unread>>

MessageArrives ==
    /\ broker.subscribed /\ broker.count < MaxArrivals
    /\ \E m \in Message :
        broker' = [broker EXCEPT !.count = @ + 1, !.inbox = Append(@, [k |-> broker.count + 1, m |-> m])]
    /\ UNCHANGED <<chain, client, conf, sub, pub, outq, log, faulty, unread>>

\* A failed poll: the task sleeps before it polls again.
PollFails ==
    /\ sub.pc = "poll" /\ ~broker.up
    /\ sub' = [sub EXCEPT !.pc = "sleep"]
    /\ UNCHANGED <<chain, client, conf, pub, broker, outq, log, faulty, unread>>

SleepEnds ==
    /\ sub.pc = "sleep"
    /\ sub' = [sub EXCEPT !.pc = "poll"]
    /\ UNCHANGED <<chain, client, conf, pub, broker, outq, log, faulty, unread>>

\* The event loop of the publish task sends what is queued; with QoS 0 a
\* broken connection loses it.
EventLoopSends ==
    /\ outq # <<>> /\ pub.pc # "ended"
    /\ outq' = Tail(outq)
    /\ UNCHANGED <<chain, client, conf, sub, pub, broker, log, faulty, unread>>

-----------------------------------------------------------------------------
(* MQTT to the chain: one message at a time, finalized before the next.    *)

\* A message that cannot be encrypted or is too large is logged and dropped.
TakeMessage ==
    /\ sub.pc = "poll" /\ broker.inbox # <<>>
    /\ broker' = [broker EXCEPT !.inbox = Tail(@)]
    /\ LET next == Head(broker.inbox)
           call == SetField(BridgeNode, "payload", NodeData(next.m))
       IN IF conf.sealing = "not a point" \/ ~call.ok
          THEN UNCHANGED <<job, sub>>
          ELSE /\ Begin("sub", next.k, BridgeAccount, call.value, "finalized")
               /\ sub' = [sub EXCEPT !.pc = "submit", !.message = next]
    /\ UNCHANGED <<chain, told, conf, pub, outq, log, faulty, unread>>

\* Mutant: a failed update is put back behind what has arrived since.
UpdateRetries ==
    /\ sub.pc = "submit" /\ job["sub"].pc = "returned"
    /\ job' = [job EXCEPT !["sub"] = Idle]
    /\ sub' = [sub EXCEPT !.pc = "poll", !.message = None]
    /\ broker' = IF job["sub"].result = "Transaction"
                 THEN [broker EXCEPT !.inbox = Append(@, sub.message)]
                 ELSE broker
    /\ UNCHANGED <<chain, told, conf, pub, outq, log, faulty, unread>>

\* Whatever came of the update is logged; the task polls again.
UpdateSettles ==
    /\ sub.pc = "submit" /\ job["sub"].pc = "returned"
    /\ job' = [job EXCEPT !["sub"] = Idle]
    /\ sub' = [sub EXCEPT !.pc = "poll", !.message = None]
    /\ UNCHANGED <<chain, told, conf, pub, broker, outq, log, faulty, unread>>

-----------------------------------------------------------------------------
(* The chain to MQTT.                                                      *)

\* The next finalized block: one that does not set the payload is passed
\* over, a cleared payload and one that is not text are not published, and a
\* failure concerns that block alone.  An event that does not decode is taken
\* for none: the block is passed over like one that failed, without an error.
WatchBlock ==
    /\ pub.pc = "watch" /\ pub.seen < Len(fin)
    /\ LET i == pub.seen + 1
           change == ChangeIn(i, BridgeNode, "payload")
       IN \/ /\ pub' = [pub EXCEPT !.seen = i]
             /\ faulty' = faulty \union {i}
             /\ UNCHANGED unread
          \/ /\ Updates(fin[i], BridgeNode, "payload") /\ change.value # None /\ Readable(change.value)
             /\ pub' = [pub EXCEPT !.seen = i, !.pc = "push", !.update = change]
             /\ UNCHANGED <<faulty, unread>>
          \/ /\ ~(Updates(fin[i], BridgeNode, "payload") /\ change.value # None /\ Readable(change.value))
             /\ pub' = [pub EXCEPT !.seen = i]
             /\ unread' = IF Updates(fin[i], BridgeNode, "payload") /\ change.value # None
                          THEN unread \union {change.value} ELSE unread
             /\ UNCHANGED faulty
    /\ UNCHANGED <<chain, client, conf, sub, broker, outq, log>>

\* The request waits while the queue of the MQTT client is full.
PushUpdate ==
    /\ pub.pc = "push" /\ Len(outq) < QueueCap
    /\ LET out == [block |-> pub.update.block, data |-> NodeDataToString(pub.update.value)]
       IN outq' = Append(outq, out) /\ log' = Append(log, out)
    /\ pub' = [pub EXCEPT !.pc = "watch", !.update = None]
    /\ UNCHANGED <<chain, client, conf, sub, broker, faulty, unread>>

\* The subscription ends: the event loop is told to stop, whatever is queued.
StreamEnds ==
    /\ pub.pc = "watch"
    /\ pub' = [pub EXCEPT !.pc = "ended"]
    /\ UNCHANGED <<chain, client, conf, sub, broker, outq, log, faulty, unread>>

-----------------------------------------------------------------------------
BridgeInit ==
    /\ conf \in Config
    /\ sub = [pc |-> "none", asked |-> FALSE, message |-> None]
    /\ pub = [pc |-> "none", seen |-> 1, from |-> 1, update |-> None]
    /\ broker = [up |-> FALSE, subscribed |-> FALSE, inbox |-> <<>>, count |-> 0]
    /\ outq = <<>> /\ log = <<>> /\ faulty = {} /\ unread = {}

BridgeNext ==
    \/ Start \/ SubscribeConnects \/ EnsureCanWrite \/ PublishStarts
    \/ PollConnects \/ ConnectionBreaks \/ MessageArrives \/ PollFails \/ SleepEnds
    \/ EventLoopSends \/ TakeMessage \/ UpdateSettles
    \/ WatchBlock \/ PushUpdate \/ StreamEnds
    \/ /\ ClientStep("sub") /\ UNCHANGED bridge

-----------------------------------------------------------------------------
\* An update of the bridge that was executed, and what comes first in the chain.
Wrote(done) == done.tx.client = "sub" /\ done.error = None

Before(b, i, c, j) == b < c \/ (b = c /\ i < j)

(***************************************************************************)
(* The finalized payload history follows the topic: the messages the       *)
(* bridge wrote are a subsequence of those it received, each at most once, *)
(* although an update that was reported as failed may still be included    *)
(* later (Config::subscribe awaits finality and never resubmits).          *)
(***************************************************************************)
WritesFollowReceipts ==
    \A b, c \in DOMAIN fin : \A i \in DOMAIN fin[b].done, j \in DOMAIN fin[c].done :
        Before(b, i, c, j) /\ Wrote(fin[b].done[i]) /\ Wrote(fin[c].done[j])
            => fin[b].done[i].tx.k < fin[c].done[j].tx.k

(***************************************************************************)
(* The publish task hands MQTT exactly the payloads of the finalized       *)
(* blocks it watched that set a readable one, in block order and as of     *)
(* that block, except for blocks it failed to read or whose update it      *)
(* could not decode (Config::publish, BlockWatcher).                       *)
(***************************************************************************)
PublishedInBlockOrder ==
    /\ \A i, j \in DOMAIN log : i < j => log[i].block < log[j].block
    /\ \A i \in DOMAIN log :
          log[i].data = NodeDataToString(fin[log[i].block].tree.data[BridgeNode]["payload"])
    /\ pub.pc = "watch" => \A b \in (pub.from + 1)..pub.seen :
          \/ b \in faulty \/ \E i \in DOMAIN log : log[i].block = b
          \/ ~Updates(fin[b], BridgeNode, "payload")
          \/ fin[b].tree.data[BridgeNode]["payload"] = None
          \/ fin[b].tree.data[BridgeNode]["payload"] \in unread

(***************************************************************************)
(* While the subscribe task is connected to the broker and polls, its      *)
(* topic is subscribed, so that "on each message" it updates the node and  *)
(* "automatically reconnects on connection failures" (the rustdoc of       *)
(* Config::subscribe).  The request is queued once, and a clean session    *)
(* does not survive its connection.                                        *)
(***************************************************************************)
SubscribedWhenConnected == sub.pc = "poll" /\ broker.up => broker.subscribed
=============================================================================

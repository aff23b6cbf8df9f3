------------------------- MODULE MeshtasticIngress -------------------------
(***************************************************************************)
(* The Meshtastic transport (edge/src/ingress/meshtastic/mod.rs): a loop   *)
(* that opens the serial session again and again, and a session that feeds *)
(* the frames it hears to a reassembler of its own and hands what is       *)
(* complete to the ingress channel.  The air loses, repeats, reorders and  *)
(* garbles frames: any frame of `Air' may be heard at any time.            *)
(***************************************************************************)
EXTENDS Reassembly

CONSTANTS
    Air,            \* sender -> FRAGMENT frames that may be heard from it
    Single,         \* payloads that may be heard in a SINGLE frame
    Decodes(_),     \* protocol::decode_envelope accepts this payload
    MinBackoff,     \* reconnect_min_secs, at least 1
    MaxBackoff      \* reconnect_max_secs, at least MinBackoff

ASSUME MeshtasticConstants ==
    /\ \A sender \in Sender : Air[sender] \subseteq FragmentFrame
    /\ Single \subseteq Body
    /\ MinBackoff \in Nat \ {0}
    /\ MaxBackoff \in Nat
    /\ MinBackoff <= MaxBackoff

VARIABLES
    spc,            \* where the transport's task is
    backoff,        \* delay before the next attempt
    stopping,       \* ShutdownSignal::is_triggered
    outbox,         \* the message tx.send waits with: [sender, payload]
    heard           \* history: frames of what is assembled or handed over

meshVars == <<reassemblyVars, spc, backoff, stopping, outbox, heard>>

NoMessage == [payload |-> <<>>]

MeshTypeOK ==
    /\ ReassemblyTypeOK
    /\ spc \in {"top", "connect", "serve", "send", "backoff", "ended"}
    /\ backoff \in MinBackoff .. MaxBackoff
    /\ stopping \in BOOLEAN
    /\ outbox = NoMessage <=> spc # "send"
    /\ spc \in {"serve", "send"} \/ assemblies = [k \in {} |-> 0]

MeshInit ==
    /\ ReassemblyInit
    /\ spc = "top"
    /\ backoff = MinBackoff
    /\ stopping = FALSE
    /\ outbox = NoMessage
    /\ heard = {}
-----------------------------------------------------------------------------
\* run_reconnect_loop: the top of the loop.
TryAgain ==
    /\ spc = "top"
    /\ spc' = IF stopping THEN "ended" ELSE "connect"
    /\ UNCHANGED <<reassemblyVars, backoff, stopping, outbox, heard>>

\* connect_and_serve: the device does not open or does not configure.
ConnectFails ==
    /\ spc = "connect"
    /\ spc' = "backoff"
    /\ UNCHANGED <<reassemblyVars, backoff, stopping, outbox, heard>>

\* connect_and_serve: configured; serve_session begins with a new
\* Reassembler.  The delay is reset when the session is over, and nothing
\* reads it before.
Connects ==
    /\ spc = "connect"
    /\ spc' = "serve"
    /\ backoff' = MinBackoff
    /\ UNCHANGED <<reassemblyVars, stopping, outbox, heard>>

\* Mutant: the reassembler belongs to the loop and outlives the session.
EndSessionKeeps ==
    /\ UNCHANGED <<assemblies, pendingPerSender, idle, overdue>>
    /\ heard' = {}
    /\ outbox' = NoMessage

\* serve_session returns: its reassembler goes out of scope.
EndSession ==
    /\ assemblies' = [k \in {} |-> 0]
    /\ pendingPerSender' = [s \in {} |-> 0]
    /\ idle' = {}
    /\ overdue' = {}
    /\ heard' = {}
    /\ outbox' = NoMessage

\* The packet channel closed.
Disconnected ==
    /\ spc = "serve"
    /\ EndSession
    /\ spc' = "backoff"
    /\ UNCHANGED <<backoff, stopping>>

BackoffEnds ==
    /\ spc = "backoff"
    /\ spc' = "top"
    /\ backoff' = IF 2 * backoff <= MaxBackoff THEN 2 * backoff ELSE MaxBackoff
    /\ UNCHANGED <<reassemblyVars, stopping, outbox, heard>>

\* Mutant: serve_session listens to the signal only while it sends.
StopsNotServing ==
    /\ spc \in {"send", "backoff"}
    /\ stopping
    /\ EndSession
    /\ spc' = "ended"
    /\ UNCHANGED <<backoff, stopping>>

\* shutdown.recv() in one of the three select!s.
Stops ==
    /\ spc \in {"serve", "send", "backoff"}
    /\ stopping
    /\ EndSession
    /\ spc' = "ended"
    /\ UNCHANGED <<backoff, stopping>>
-----------------------------------------------------------------------------
\* These frames were heard.  What became of nothing is not kept.
Hear(frames) ==
    heard' = IF spc' = "send" THEN heard \cup frames
             ELSE {h \in heard \cup frames :
                      Key(h.sender, h.frame) \in DOMAIN assemblies'}

\* handle_packet returned this payload: tx.send, or drop it if it does not
\* decode.
HandOver(sender, payload) ==
    IF Decodes(payload)
    THEN /\ spc' = "send"
         /\ outbox' = [sender |-> sender, payload |-> payload]
    ELSE UNCHANGED <<spc, outbox>>

\* handle_packet on a SINGLE frame.  Packets for another port, without PKI
\* or that do not parse change nothing.
HearSingle(sender, body) ==
    /\ spc = "serve"
    /\ HandOver(sender, <<body>>)
    /\ UNCHANGED <<reassemblyVars, backoff, stopping>>
    /\ Hear({[sender |-> sender,
              frame  |-> [id |-> MessageIdOf(<<body>>), index |-> 1,
                          count |-> 1, body |-> body]]})

\* handle_packet on a FRAGMENT frame: accept() completes nothing.
HearPart(sender, frame) ==
    /\ spc = "serve"
    /\ LET key == Key(sender, frame)
       IN  \/ Begin(key, frame)
           \/ Progress(key, frame)
           \/ Poison(key, frame)
           \/ Ignore(key, frame)
    /\ UNCHANGED <<spc, backoff, stopping, outbox>>
    /\ Hear({[sender |-> sender, frame |-> frame]})

\* handle_packet on the last missing fragment; a payload that is not what
\* its message id names is dropped.
HearLast(sender, frame) ==
    /\ spc = "serve"
    /\ LET key == Key(sender, frame)
       IN  /\ LastFragment(key, frame)
           /\ DiscardAll({key})
           /\ IF Verified(key, frame)
              THEN HandOver(sender, Concatenated(key, frame))
              ELSE UNCHANGED <<spc, outbox>>
    /\ UNCHANGED <<backoff, stopping>>
    /\ Hear({[sender |-> sender, frame |-> frame]})

\* sweep.tick()
Sweep ==
    /\ spc = "serve"
    /\ SweepExpired
    /\ UNCHANGED <<spc, backoff, stopping, outbox>>
    /\ Hear({})

\* tx.send: the channel has room.
Sent ==
    /\ spc = "send"
    /\ spc' = "serve"
    /\ outbox' = NoMessage
    /\ UNCHANGED <<reassemblyVars, backoff, stopping>>
    /\ Hear({})

\* tx.send: the pipeline is gone.
SendFails ==
    /\ spc = "send"
    /\ EndSession
    /\ spc' = "ended"
    /\ UNCHANGED <<backoff, stopping>>
-----------------------------------------------------------------------------
ShutdownComes ==
    /\ ~stopping
    /\ stopping' = TRUE
    /\ UNCHANGED <<reassemblyVars, spc, backoff, outbox, heard>>

TimePasses(key) ==
    /\ IdleLapses(key) \/ AbsoluteLapses(key)
    /\ UNCHANGED <<spc, backoff, stopping, outbox, heard>>

Keys == [sender : Sender, id : MessageId]

MeshNext ==
    \/ TryAgain \/ ConnectFails \/ Connects
    \/ Disconnected \/ BackoffEnds \/ Stops
    \/ \E sender \in Sender :
          \/ \E body \in Single : HearSingle(sender, body)
          \/ \E frame \in Air[sender] : HearPart(sender, frame) \/ HearLast(sender, frame)
    \/ Sweep \/ Sent \/ SendFails
    \/ ShutdownComes
    \/ \E key \in Keys : TimePasses(key)

\* The task is scheduled, the sweep interval ticks and the absolute time-out
\* passes; the pipeline drains its channel or is gone; select! polls in
\* random order, so a shutdown that stays triggered is seen in the end, and
\* so is the tick, however many packets arrive.
MeshFairness ==
    /\ WF_meshVars(TryAgain \/ ConnectFails \/ Connects \/ BackoffEnds)
    /\ WF_meshVars(Sent \/ SendFails)
    /\ SF_meshVars(Stops)
    /\ SF_meshVars(Sweep)
    /\ \A key \in Keys :
          WF_meshVars(/\ AbsoluteLapses(key)
                      /\ UNCHANGED <<spc, backoff, stopping, outbox, heard>>)

MeshSpec == MeshInit /\ [][MeshNext]_meshVars

MeshFairSpec == MeshSpec /\ MeshFairness
-----------------------------------------------------------------------------
\* The bytes in the filled slots of an assembly.
Bytes(fragments) == MapThenSumSet(LAMBDA i : Size[fragments[i]], DOMAIN fragments)

\* The counters agree with the maps they count, and all stay within the
\* limits: no discarded, completed, expired or refused assembly leaks a slot
\* of its sender; complete() finds every slot filled when `received' reaches
\* `count'; the bytes buffered stay within max_reassembled_bytes; and nothing
\* is buffered outside of a session.
SlotsAccounted ==
    /\ MeshTypeOK
    /\ Cardinality(DOMAIN assemblies) <= MaxPending
    /\ \A sender \in Sender :
          /\ SenderPending(sender) =
                Cardinality({k \in DOMAIN assemblies : k.sender = sender})
          /\ SenderPending(sender) <= MaxPendingPerSender
    /\ \A sender \in DOMAIN pendingPerSender : pendingPerSender[sender] > 0
    /\ \A key \in DOMAIN assemblies :
          LET a == assemblies[key]
          IN  /\ a.received = Cardinality(DOMAIN a.fragments)
              /\ a.received < a.count
              /\ a.total = Bytes(a.fragments)
              /\ a.total <= MaxReassembledBytes

\* What is handed to the pipeline was heard whole since its assembly began,
\* in this session, every fragment of it from the one sender it is attributed
\* to, and it is the payload its message id was computed from, whatever else
\* was on air.
HandedOverWasHeard ==
    spc = "send" =>
        \A i \in DOMAIN outbox.payload :
            [sender |-> outbox.sender,
             frame  |-> [id    |-> MessageIdOf(outbox.payload),
                         index |-> i,
                         count |-> Len(outbox.payload),
                         body  |-> outbox.payload[i]]] \in heard

\* No assembly stays for ever: lost fragments, repeated ones and a busy radio
\* never pin a slot, since a duplicate is no progress and the absolute
\* time-out needs none.
AssemblyEnds ==
    \A key \in Keys : key \in DOMAIN assemblies ~> key \notin DOMAIN assemblies

\* The transport ends after a shutdown, wherever it is: connecting, waiting
\* to connect, serving, or blocked on a full ingress channel.
MeshEnds == stopping ~> spc = "ended"
=============================================================================

----------------------------- MODULE Reassembly -----------------------------
(***************************************************************************)
(* Bounded reassembly of Meshtastic fragments                              *)
(* (edge/src/ingress/meshtastic/reassembly.rs).  A payload is the sequence *)
(* of fragment bodies it is cut into: every body but the last has the same *)
(* length, so concatenation loses nothing of it.  Indices begin at 1.      *)
(* Time enters through `idle' and `overdue', the assemblies that are past  *)
(* one of their two time-outs.                                             *)
(***************************************************************************)
EXTENDS Naturals, SequencesExt

CONSTANTS
    Sender,                 \* mesh senders
    MessageId,
    Body,                   \* bodies of fragments
    Size,                   \* their lengths
    MessageIdOf(_),         \* SHA256(payload)[0:6]
    MaxFragmentBody,        \* MAX_FRAGMENT_BODY of the wire format
    MaxFragmentCount,       \* MAX_FRAGMENT_COUNT of the wire format
    MaxFragments,           \* ReassemblerConfig
    MaxReassembledBytes,
    MaxPending,
    MaxPendingPerSender

ASSUME ReassemblyConstants ==
    /\ Size \in [Body -> Nat \ {0}]
    /\ MaxFragmentCount \in Nat /\ MaxFragmentCount >= 2
    /\ MaxFragments \in 1 .. MaxFragmentCount
    /\ MaxReassembledBytes \in Nat \ {0}
    /\ MaxPending \in Nat \ {0}
    /\ MaxPendingPerSender \in Nat \ {0}

VARIABLES
    assemblies,         \* key -> assembly in progress
    pendingPerSender,   \* sender -> number of its assemblies, if not zero
    idle,               \* keys past idle_timeout since their last progress
    overdue             \* keys past absolute_timeout

reassemblyVars == <<assemblies, pendingPerSender, idle, overdue>>

\* What frame::parse_fragment lets through.
FragmentFrame ==
    {f \in [id : MessageId, index : 1 .. MaxFragmentCount,
            count : 2 .. MaxFragmentCount, body : Body] :
        /\ f.index <= f.count
        /\ Size[f.body] <= MaxFragmentBody
        /\ f.index < f.count => Size[f.body] = MaxFragmentBody}

\* `fragments' has the filled slots only; `received' and `total' are counted
\* along.
ReassemblyTypeOK ==
    /\ DOMAIN assemblies \subseteq [sender : Sender, id : MessageId]
    /\ \A key \in DOMAIN assemblies :
          /\ DOMAIN assemblies[key] = {"count", "fragments", "received", "total"}
          /\ DOMAIN assemblies[key].fragments \subseteq 1 .. assemblies[key].count
          /\ Range(assemblies[key].fragments) \subseteq Body
    /\ DOMAIN pendingPerSender \subseteq Sender
    /\ idle \subseteq DOMAIN assemblies
    /\ overdue \subseteq DOMAIN assemblies

ReassemblyInit ==
    /\ assemblies = [k \in {} |-> 0]
    /\ pendingPerSender = [s \in {} |-> 0]
    /\ idle = {}
    /\ overdue = {}
-----------------------------------------------------------------------------
Key(sender, frame) == [sender |-> sender, id |-> frame.id]

Known(key) == key \in DOMAIN assemblies

\* The map with this entry.
Put(map, key, value) ==
    [k \in DOMAIN map \cup {key} |-> IF k = key THEN value ELSE map[k]]

SenderPending(sender) ==
    IF sender \in DOMAIN pendingPerSender THEN pendingPerSender[sender] ELSE 0
-----------------------------------------------------------------------------
\* What accept() makes of a frame whose key is known.
Mismatch(key, frame) ==
    LET a == assemblies[key]
    IN  \/ a.count # frame.count
        \/ frame.index \in DOMAIN a.fragments
             /\ a.fragments[frame.index] # frame.body

Duplicate(key, frame) ==
    LET a == assemblies[key]
    IN  /\ ~Mismatch(key, frame)
        /\ frame.index \in DOMAIN a.fragments

Oversize(key, frame) ==
    LET a == assemblies[key]
    IN  /\ ~Mismatch(key, frame)
        /\ frame.index \notin DOMAIN a.fragments
        /\ a.total + Size[frame.body] > MaxReassembledBytes

Fits(key, frame) ==
    ~Mismatch(key, frame) /\ ~Duplicate(key, frame) /\ ~Oversize(key, frame)

\* What it makes of one whose key is not.
Refused(key, frame) ==
    \/ frame.count > MaxFragments
    \/ Cardinality(DOMAIN assemblies) >= MaxPending
    \/ SenderPending(key.sender) >= MaxPendingPerSender
    \/ Size[frame.body] > MaxReassembledBytes

\* The assembly with this frame in its slot.
Filled(key, frame) ==
    [assemblies[key] EXCEPT
        !.fragments = Put(@, frame.index, frame.body),
        !.received  = @ + 1,
        !.total     = @ + Size[frame.body]]
-----------------------------------------------------------------------------
\* Mutant: one slot is released, however many assemblies of a sender go.
DiscardAllOnce(keys) ==
    LET gone(s) == IF \E k \in keys : k.sender = s THEN 1 ELSE 0
    IN  /\ assemblies' = Restrict(assemblies, DOMAIN assemblies \ keys)
        /\ pendingPerSender' =
              [s \in {t \in DOMAIN pendingPerSender :
                         pendingPerSender[t] > gone(t)} |->
                  pendingPerSender[s] - gone(s)]
        /\ idle' = idle \ keys
        /\ overdue' = overdue \ keys

\* discard() for each of these keys: a sender's count is lowered by one for
\* each, and its entry removed at zero.
DiscardAll(keys) ==
    LET gone(s) == Cardinality({k \in keys : k.sender = s})
    IN  /\ assemblies' = Restrict(assemblies, DOMAIN assemblies \ keys)
        /\ pendingPerSender' =
              [s \in {t \in DOMAIN pendingPerSender :
                         pendingPerSender[t] > gone(t)} |->
                  pendingPerSender[s] - gone(s)]
        /\ idle' = idle \ keys
        /\ overdue' = overdue \ keys

\* accept(): Outcome::Progress on a new assembly.
Begin(key, frame) ==
    /\ ~Known(key)
    /\ ~Refused(key, frame)
    /\ assemblies' =
          Put(assemblies, key,
              [count     |-> frame.count,
               fragments |-> [i \in {frame.index} |-> frame.body],
               received  |-> 1,
               total     |-> Size[frame.body]])
    /\ pendingPerSender' =
          Put(pendingPerSender, key.sender, SenderPending(key.sender) + 1)
    /\ UNCHANGED <<idle, overdue>>

\* accept(): Outcome::Progress on a known one.
Progress(key, frame) ==
    /\ Known(key)
    /\ Fits(key, frame)
    /\ Filled(key, frame).received < frame.count
    /\ assemblies' = [assemblies EXCEPT ![key] = Filled(key, frame)]
    /\ idle' = idle \ {key}
    /\ UNCHANGED <<pendingPerSender, overdue>>

\* accept(): Conflict, or Rejected(Oversize) of an assembly: it is discarded.
Poison(key, frame) ==
    /\ Known(key)
    /\ Mismatch(key, frame) \/ Oversize(key, frame)
    /\ DiscardAll({key})

\* accept(): DuplicateIgnored, or Rejected before anything was stored.
Ignore(key, frame) ==
    /\ IF Known(key) THEN Duplicate(key, frame) ELSE Refused(key, frame)
    /\ UNCHANGED reassemblyVars

\* accept() calls complete(): every slot is filled.
LastFragment(key, frame) ==
    /\ Known(key)
    /\ Fits(key, frame)
    /\ Filled(key, frame).received = frame.count

\* complete(): the payload, and whether it is what the message id names.
Concatenated(key, frame) ==
    [i \in 1 .. frame.count |-> Filled(key, frame).fragments[i]]

Verified(key, frame) == MessageIdOf(Concatenated(key, frame)) = key.id
-----------------------------------------------------------------------------
\* Mutant: only the idle time-out is looked at.
ExpiredIdle == idle

Expired == idle \cup overdue

\* sweep_expired()
SweepExpired == DiscardAll(Expired)

\* The clock passes a time-out of an assembly.
IdleLapses(key) ==
    /\ Known(key)
    /\ key \notin idle
    /\ idle' = idle \cup {key}
    /\ UNCHANGED <<assemblies, pendingPerSender, overdue>>

AbsoluteLapses(key) ==
    /\ Known(key)
    /\ key \notin overdue
    /\ overdue' = overdue \cup {key}
    /\ UNCHANGED <<assemblies, pendingPerSender, idle>>
=============================================================================

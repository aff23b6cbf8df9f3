--------------------------- MODULE AnchoredQueue ---------------------------
(***************************************************************************)
(* What the durable anchoring path promises to whoever hands it accepted   *)
(* messages: nothing is lost, every message is first anchored in ingress   *)
(* order, and a message is given up only when it can never be part of a    *)
(* batch.  Crashes, retries, splits, restarts and repeated submissions are *)
(* invisible at this level.                                                *)
(***************************************************************************)
EXTENDS Naturals

CONSTANTS
    Msg,                \* records with a field `sequence' in Nat
    Unbatchable(_)      \* whether a message may be given up

VARIABLES
    accepted,           \* messages durably stored by push_message
    anchored,           \* messages finalized on chain at least once
    dropped             \* messages given up

vars == <<accepted, anchored, dropped>>

Outstanding == (accepted \ anchored) \ dropped

Init ==
    /\ accepted = {}
    /\ anchored = {}
    /\ dropped = {}

Accept ==
    /\ \E m \in Msg :
          /\ \A a \in accepted : a.sequence < m.sequence
          /\ accepted' = accepted \cup {m}
    /\ UNCHANGED <<anchored, dropped>>

\* A leading run of the outstanding messages reaches the chain.
AnchorRun ==
    /\ anchored' # anchored
    /\ anchored \subseteq anchored'
    /\ anchored' \ anchored \subseteq Outstanding
    /\ \A m \in anchored' \ anchored, o \in Outstanding \ anchored' :
          m.sequence < o.sequence
    /\ UNCHANGED <<accepted, dropped>>

Drop ==
    /\ dropped' # dropped
    /\ dropped \subseteq dropped'
    /\ dropped' \ dropped \subseteq {m \in Outstanding : Unbatchable(m)}
    /\ UNCHANGED <<accepted, anchored>>

Next == Accept \/ AnchorRun \/ Drop

Spec == Init /\ [][Next]_vars
=============================================================================

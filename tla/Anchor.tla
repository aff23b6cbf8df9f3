------------------------------- MODULE Anchor -------------------------------
(***************************************************************************)
(* The anchor task (edge/src/anchor) and what it sees of the chain: it     *)
(* loads up to READY_PAGE ready batches, submits each with set_payload     *)
(* until the transaction is finalized, and only then removes the batch     *)
(* from the store.                                                         *)
(*                                                                         *)
(* A submission that ends in a transient error, in the drain timeout of a  *)
(* shutdown or in a crash says nothing about the transaction: it may never *)
(* have reached the chain, or it may be in the transaction pool and be     *)
(* finalized at any later moment.  `limbo' holds such transactions.        *)
(***************************************************************************)
EXTENDS BatchStore, Signals

CONSTANTS
    ReadyPage,          \* READY_PAGE
    MaxPayload          \* ChainConfig::max_payload

ASSUME AnchorConstants ==
    /\ ReadyPage \in Nat \ {0}
    /\ MaxPayload \in Nat

VARIABLES
    apc,            \* where the anchor task is
    page,           \* batches loaded and not yet confirmed, in memory
    limbo,          \* submitted transactions nobody waits for any more
    finalized       \* history: the batches finalized on chain

anchorVars == <<apc, page, limbo, finalized>>

AnchorTypeOK ==
    /\ apc \in {"connect", "load", "idle", "submit", "inflight", "confirm",
                "stopped", "failed"}
    /\ page \in Seq(Batch)
    /\ apc \in {"submit", "inflight", "confirm"} => page # <<>>
    /\ limbo \in SUBSET Batch
    /\ finalized \in SUBSET Batch

\* No anchor runs and none ever did.
AnchorOff ==
    /\ apc = "stopped"
    /\ page = <<>>
    /\ limbo = {}
    /\ finalized = {}
-----------------------------------------------------------------------------
\* run_chain_anchor: the account may write to the node.  A transient failure
\* is retried from the same state.
Connected ==
    /\ apc = "connect"
    /\ apc' = "load"
    /\ UNCHANGED <<storeVars, signalVars, page, limbo, finalized>>

\* A permanent error: the account or node at connect, a dispatch failure of
\* a submission.  The task ends and the batch stays stored.
PermanentFailure ==
    /\ apc \in {"connect", "inflight"}
    /\ apc' = "failed"
    /\ page' = <<>>
    /\ UNCHANGED <<storeVars, signalVars, limbo, finalized>>

\* run: load the next page, or wait when there is none.
Load ==
    /\ apc = "load"
    /\ ~shutdown
    /\ \E batches \in ReadyBatches(ReadyPage) :
          /\ page' = batches
          /\ apc' = IF batches = <<>> THEN "idle" ELSE "submit"
    /\ UNCHANGED <<storeVars, signalVars, limbo, finalized>>

\* select! in run: the batcher's permit.
Notified ==
    /\ apc = "idle"
    /\ readyNotify
    /\ readyNotify' = FALSE
    /\ apc' = "load"
    /\ UNCHANGED <<storeVars, shutdown, wakeNotify, page, limbo, finalized>>

\* select! in run: IDLE_POLL.
Poll ==
    /\ apc = "idle"
    /\ apc' = "load"
    /\ UNCHANGED <<storeVars, signalVars, page, limbo, finalized>>

\* Mutant: the batch is confirmed once it is submitted.
SubmitAndConfirm ==
    /\ apc = "submit"
    /\ ~shutdown
    /\ IF PayloadLen(Head(page).payload) > MaxPayload
       THEN apc' = "failed" /\ page' = <<>>
       ELSE apc' = "confirm" /\ UNCHANGED page
    /\ UNCHANGED <<storeVars, signalVars, limbo, finalized>>

\* submit_batch: a batch over max_payload is a permanent error, any other is
\* handed to set_payload.
Submit ==
    /\ apc = "submit"
    /\ ~shutdown
    /\ IF PayloadLen(Head(page).payload) > MaxPayload
       THEN apc' = "failed" /\ page' = <<>>
       ELSE apc' = "inflight" /\ UNCHANGED page
    /\ UNCHANGED <<storeVars, signalVars, limbo, finalized>>

\* submit_finalized returned a receipt, and confirm_batch starts.
Finalized ==
    /\ apc = "inflight"
    /\ ~shutdown
    /\ finalized' = finalized \cup {Head(page)}
    /\ apc' = "confirm"
    /\ UNCHANGED <<storeVars, signalVars, page, limbo>>

\* The receipt arrives within SHUTDOWN_DRAIN, but confirm_batch is no longer
\* started: the batch stays stored although it is on chain.
FinalizedDuringDrain ==
    /\ apc = "inflight"
    /\ shutdown
    /\ finalized' = finalized \cup {Head(page)}
    /\ apc' = "stopped"
    /\ page' = <<>>
    /\ UNCHANGED <<storeVars, signalVars, limbo>>

\* Mutant: the whole page is submitted at once.
AbandonPage ==
    limbo' \in {limbo, limbo \cup Range(page)}

\* What is left of the transaction the task stops waiting for.
AbandonTransaction ==
    limbo' \in {limbo, limbo \cup {Head(page)}}

\* Mutant: a batch that fails is skipped.
TransientFailureSkips ==
    /\ apc = "inflight"
    /\ page' = Tail(page)
    /\ apc' = IF Tail(page) = <<>> THEN "load" ELSE "submit"
    /\ AbandonTransaction
    /\ UNCHANGED <<storeVars, signalVars, finalized>>

\* A transient error; the same batch is submitted again after the delay.
TransientFailure ==
    /\ apc = "inflight"
    /\ apc' = "submit"
    /\ AbandonTransaction
    /\ UNCHANGED <<storeVars, signalVars, page, finalized>>

\* Mutant: the end of the page is not noticed.
ConfirmPastPage ==
    /\ apc = "confirm"
    /\ ConfirmBatch(Head(page).id)
    /\ page' = Tail(page)
    /\ apc' = "submit"
    /\ UNCHANGED <<signalVars, limbo, finalized>>

\* confirm_batch, then the next batch of the page or the next page.  Started
\* before a shutdown, it may end after it.
Confirm ==
    /\ apc = "confirm"
    /\ ConfirmBatch(Head(page).id)
    /\ page' = Tail(page)
    /\ apc' = IF Tail(page) = <<>> THEN "load" ELSE "submit"
    /\ UNCHANGED <<signalVars, limbo, finalized>>

\* Shutdown before an operation starts, during a back-off (of "confirm": the
\* store failed and confirm_batch waits to be tried again) or while idle.
StopBetween ==
    /\ apc \in {"connect", "load", "idle", "submit", "confirm"}
    /\ shutdown
    /\ apc' = "stopped"
    /\ page' = <<>>
    /\ UNCHANGED <<storeVars, signalVars, limbo, finalized>>

\* Shutdown during a submission that does not finish in SHUTDOWN_DRAIN.
DrainExpiresSubmit ==
    /\ apc = "inflight"
    /\ shutdown
    /\ apc' = "stopped"
    /\ page' = <<>>
    /\ AbandonTransaction
    /\ UNCHANGED <<storeVars, signalVars, finalized>>

\* Shutdown during confirm_batch that does not finish in SHUTDOWN_DRAIN: the
\* blocking transaction is not cancelled and still commits.
DrainExpiresConfirm ==
    /\ apc = "confirm"
    /\ shutdown
    /\ ConfirmBatch(Head(page).id)
    /\ apc' = "stopped"
    /\ page' = <<>>
    /\ UNCHANGED <<signalVars, limbo, finalized>>

\* The chain includes a transaction from the pool.  One that the pool drops
\* is one that stays in limbo forever.
LimboFinalized(tx) ==
    /\ tx \in limbo
    /\ limbo' = limbo \ {tx}
    /\ finalized' = finalized \cup {tx}
    /\ UNCHANGED <<storeVars, signalVars, apc, page>>

AnchorStep ==
    \/ Connected
    \/ PermanentFailure
    \/ Load
    \/ Notified
    \/ Poll
    \/ Submit
    \/ Finalized
    \/ FinalizedDuringDrain
    \/ TransientFailure
    \/ Confirm
    \/ StopBetween
    \/ DrainExpiresSubmit
    \/ DrainExpiresConfirm

ChainStep == \E tx \in limbo : LimboFinalized(tx)
=============================================================================

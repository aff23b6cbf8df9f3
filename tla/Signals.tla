------------------------------ MODULE Signals ------------------------------
(***************************************************************************)
(* What the tasks of one gateway process share besides the batch store:    *)
(* the shutdown signal (edge/src/shutdown.rs, a tokio watch channel that   *)
(* only ever goes from FALSE to TRUE) and the two tokio Notify handles     *)
(* that spawn_anchoring creates.  A Notify is one permit: notify_one sets  *)
(* it whether or not anybody waits, and a completed notified() clears it.  *)
(* Nothing here survives the process.                                      *)
(***************************************************************************)

VARIABLES
    shutdown,       \* ShutdownSignal::is_triggered
    wakeNotify,     \* permit from BatchSink to Batcher
    readyNotify     \* permit from Batcher to Anchor

signalVars == <<shutdown, wakeNotify, readyNotify>>

SignalsTypeOK ==
    /\ shutdown \in BOOLEAN
    /\ wakeNotify \in BOOLEAN
    /\ readyNotify \in BOOLEAN

\* The values every process starts with.
SignalsInit ==
    /\ shutdown = FALSE
    /\ wakeNotify = FALSE
    /\ readyNotify = FALSE

\* The same values, for the step in which a process dies and is replaced.
SignalsReset ==
    /\ shutdown' = FALSE
    /\ wakeNotify' = FALSE
    /\ readyNotify' = FALSE

\* ShutdownController::trigger.
Trigger ==
    /\ ~shutdown
    /\ shutdown' = TRUE
    /\ UNCHANGED <<wakeNotify, readyNotify>>
============================================================================

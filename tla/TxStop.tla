------------------------------- MODULE TxStop -------------------------------
(***************************************************************************)
(* The end of sdio_tx when the driver is released (atbm_unregister_common,  *)
(* main.c): the interface is removed, the interrupt is given back, then     *)
(* kthread_stop waits for the thread.  The thread sees the stop in          *)
(* atbm_sdio_wait_action only (apollo_sdio.c), and leaves atbm_sdio_tx_bh,  *)
(* which is TxCredit, only with a credit left.                              *)
(***************************************************************************)
EXTENDS TxCredit

CONSTANT MaxLate    \* bound: commands after the interface was removed

ASSUME TxStopAssumption == MaxLate \in Nat

VARIABLES
  release,   \* atbm_unregister_common: "up", "removed", "deaf", "stopping", "done"
  exited,    \* the function of the thread has returned
  late,      \* commands after the interface was removed
  settled    \* history: nothing was on its way when the interface was removed

stopVars == <<release, exited, late, settled>>
allVars == <<vars, stopVars>>

StopInit == Init /\ release = "up" /\ exited = FALSE /\ late = 0 /\ settled = FALSE

-----------------------------------------------------------------------------
(* atbm_unregister_common.                                                 *)

Reported == held = 0 /\ told = freed /\ events = <<>> /\ hw_xmits = freed

Idle == txpc = "idle" /\ queued = 0 /\ ~cmd

\* atbm_remove_interfaces.
Remove ==
  /\ release = "up" /\ release' = "removed"
  /\ settled' = (Idle /\ Reported /\ lost = 0)
  /\ RemoveInterface
  /\ UNCHANGED <<exited, late>>

\* irq_unsubscribe: sdio_rx is no longer woken for what the device has.  It may
\* be at work until it is stopped, after sdio_tx.
Unsubscribe ==
  /\ release = "removed" /\ release' = "deaf"
  /\ UNCHANGED <<vars, exited, late, settled>>

\* atbm_sdio_thread_deinit up to kthread_stop, and its return.
StopThread ==
  /\ release = "deaf" /\ release' = "stopping"
  /\ UNCHANGED <<vars, exited, late, settled>>
Stopped ==
  /\ release = "stopping" /\ exited /\ release' = "done"
  /\ UNCHANGED <<vars, exited, late, settled>>

-----------------------------------------------------------------------------
(* sdio_tx and the others.                                                 *)

\* Mutant of SeesStop: the stop is seen when there is nothing to send.
SeesStopOnWork == release = "stopping" /\ (queued > 0 \/ cmd)

SeesStop == release = "stopping"

\* atbm_sdio_wait_action: with the stop it returns -1, and the thread ends,
\* with atbm_sdio_release_err_cmd for the command in the slot.
Exit ==
  /\ txpc = "idle" /\ SeesStop /\ ~exited /\ exited' = TRUE
  /\ cmd' = FALSE
  /\ UNCHANGED <<txVars, hw_xmits, queued, early, devVars, events, lost, vif, missed,
                 undone, bug, release, late, settled>>

Transmit ==
  /\ ~exited /\ (txpc = "idle" => ~SeesStop)
  /\ TxStep
  /\ UNCHANGED stopVars

\* Until the thread has gone, the event work may send commands.
Send ==
  /\ ~exited /\ Submit
  /\ late' = IF release = "up" THEN late ELSE late + 1
  /\ late' <= MaxLate
  /\ UNCHANGED <<release, exited, settled>>

Receive ==
  /\ release # "done" /\ RxEvent
  /\ UNCHANGED stopVars

Others ==
  /\ Startup \/ AddInterface \/ DevConsume \/ DevReport
  /\ UNCHANGED stopVars

StopNext ==
  \/ Remove \/ Unsubscribe \/ StopThread \/ Stopped
  \/ Exit \/ Transmit \/ Send \/ Receive \/ Others

\* kthread_stop is reached once the removal has begun; sdio_tx and the device
\* as in TxCredit.
StopFairness ==
  /\ WF_allVars(Unsubscribe \/ StopThread \/ Stopped)
  /\ WF_allVars(Exit) /\ WF_allVars(Transmit)
  /\ WF_allVars(release = "up" /\ Receive)
  /\ WF_allVars(DevConsume /\ UNCHANGED stopVars)
  /\ WF_allVars(DevReport /\ UNCHANGED stopVars)

-----------------------------------------------------------------------------
\* sdio_tx has used up its credits.  No report is kept without the interface.
NoCredit == hw_bufs_free = 0 /\ CreditsOf(hw_xmits) < 1

\* Once begun, the release of the driver ends, also when nobody reports credits any
\* more, unless sdio_tx runs out of them and polls for ever in atbm_sdio_tx_bh: it
\* does so only if something was on its way when the interface was removed, or as
\* many commands as there are buffers were sent after that.
ReleaseEnds ==
  release = "removed" ~>
    release = "done" \/ (NoCredit /\ (~settled \/ late >= NumInpChBufs))
=============================================================================

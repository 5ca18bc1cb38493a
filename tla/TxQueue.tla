------------------------------- MODULE TxQueue -------------------------------
(***************************************************************************)
(* Back-pressure between the network layer and tx_frame_queue (txrx.c,      *)
(* bh_sdio.c, iface.c, wsm.c): senders count what they append, sdio_tx      *)
(* counts what it takes, and the count stops and wakes the queues of the    *)
(* network layer.  Both sides set tx_queue_overfull under tx_queue_lock,    *)
(* and call the network layer after they have dropped the lock.             *)
(*                                                                          *)
(* The senders are anonymous: the model counts how many are at each point   *)
(* of atbm_submit_package.  The four netif queues are stopped and woken     *)
(* together and are one flag here.                                          *)
(***************************************************************************)
EXTENDS Integers

CONSTANTS
  MaxQueueSz,   \* ATBM_WIFI_MAX_QUEUE_SZ
  Senders,      \* contexts inside atbm_submit_package at a time (netif queues)
  MaxLength,    \* bound: frames in tx_frame_queue
  MaxIpc        \* bound: frames of wsm_cmd_send_no_ack

WakeLevel == MaxQueueSz \div 2

ASSUME TxQueueAssumption ==
  /\ MaxQueueSz \in Nat /\ Senders \in Nat /\ MaxLength \in Nat /\ MaxIpc \in Nat
  /\ WakeLevel + Senders < MaxQueueSz

VARIABLES
  length,       \* frames in tx_frame_queue
  counting,     \* senders that have appended a frame and not counted it
  stopping,     \* senders that have set overfull and not stopped the queues
  num,          \* tx_num_queued, an int
  overfull,     \* tx_queue_overfull
  stopped,      \* the netif queues are stopped
  up,           \* the interface is open
  txpc,         \* where sdio_tx is
  ipc,          \* frames appended by wsm_cmd_send_no_ack so far
  outrun        \* history: since the interface was opened sdio_tx has sent half a
                \* queue before a sender stopped it, or woke what it found open

vars == <<length, counting, stopping, num, overfull, stopped, up, txpc, ipc, outrun>>

Init ==
  /\ length = 0 /\ counting = 0 /\ stopping = 0 /\ num = 0
  /\ overfull = FALSE /\ stopped = FALSE /\ up = FALSE
  /\ txpc = "idle" /\ ipc = 0 /\ outrun = FALSE

-----------------------------------------------------------------------------
(* Senders.                                                                *)

\* atbm_submit_package: the network layer calls it while the queue is on.
Enqueue ==
  /\ up /\ ~stopped /\ counting + stopping < Senders /\ length < MaxLength
  /\ length' = length + 1 /\ counting' = counting + 1
  /\ UNCHANGED <<stopping, num, overfull, stopped, up, txpc, ipc, outrun>>

\* Under tx_queue_lock the frame is counted.
Full ==
  /\ num' = num + 1
  /\ overfull' = (overfull \/ num + 1 >= MaxQueueSz)

Count ==
  /\ counting > 0
  /\ counting' = counting - 1
  /\ Full
  /\ stopping' = IF overfull' # overfull THEN stopping + 1 ELSE stopping
  /\ UNCHANGED <<length, stopped, up, txpc, ipc, outrun>>

\* netif_tx_stop_all_queues, without the lock.
StopQueues ==
  /\ stopping > 0
  /\ stopping' = stopping - 1 /\ stopped' = TRUE
  /\ UNCHANGED <<length, counting, num, overfull, up, txpc, ipc, outrun>>

\* wsm_cmd_send_no_ack appends to the same queue and counts nothing.
SendNoAck ==
  /\ ipc < MaxIpc /\ length < MaxLength
  /\ ipc' = ipc + 1 /\ length' = length + 1
  /\ UNCHANGED <<counting, stopping, num, overfull, stopped, up, txpc, outrun>>

-----------------------------------------------------------------------------
(* sdio_tx: what atbm_sdio_tx_bh does with a frame that wsm_get_tx took.    *)

TxTake ==
  /\ txpc = "idle" /\ length > 0
  /\ length' = length - 1 /\ txpc' = "count"
  /\ UNCHANGED <<counting, stopping, num, overfull, stopped, up, ipc, outrun>>

\* Mutant of AfterClear: overfull is cleared and nobody is woken.
AfterClearNothing == "idle"

AfterClear == "wake"

\* Under tx_queue_lock the frame is uncounted.
TxCount ==
  /\ txpc = "count"
  /\ num' = num - 1
  /\ IF overfull /\ num - 1 <= WakeLevel
     THEN /\ overfull' = FALSE /\ txpc' = AfterClear
          /\ outrun' = (outrun \/ stopping > 0)
     ELSE txpc' = "idle" /\ UNCHANGED <<overfull, outrun>>
  /\ UNCHANGED <<length, counting, stopping, stopped, up, ipc>>

\* netif_tx_wake_all_queues, without the lock.
TxWake ==
  /\ txpc = "wake"
  /\ txpc' = "idle" /\ stopped' = FALSE
  /\ UNCHANGED <<length, counting, stopping, num, overfull, up, ipc, outrun>>

-----------------------------------------------------------------------------
(* The interface.                                                          *)

\* Mutant of OpenClears: atbm_open starts the queues and leaves overfull.
OpenLeavesOverfull == overfull

OpenClears == FALSE

\* atbm_open: nothing is sent before it has returned (dev_activate).
Open ==
  /\ ~up
  /\ up' = TRUE /\ stopped' = FALSE /\ overfull' = OpenClears
  /\ outrun' = (txpc = "wake")
  /\ UNCHANGED <<length, counting, stopping, num, txpc, ipc>>

\* atbm_stop: dev_deactivate has waited for the senders.
Close ==
  /\ up /\ counting = 0 /\ stopping = 0
  /\ up' = FALSE /\ stopped' = TRUE
  /\ UNCHANGED <<length, counting, stopping, num, overfull, txpc, ipc, outrun>>

-----------------------------------------------------------------------------
TxStep == TxTake \/ TxCount \/ TxWake

Next ==
  \/ Enqueue \/ Count \/ StopQueues \/ SendNoAck \/ TxStep \/ Open \/ Close

\* Senders finish what they began, and sdio_tx sends what is queued.
Fairness == WF_vars(Count) /\ WF_vars(StopQueues) /\ WF_vars(TxStep)

Spec == Init /\ [][Next]_vars
FairSpec == Spec /\ Fairness

-----------------------------------------------------------------------------
(* Properties.                                                             *)

TypeOK ==
  /\ length \in 0 .. MaxLength /\ counting \in Nat /\ stopping \in Nat
  /\ counting + stopping <= Senders
  /\ num \in Int /\ overfull \in BOOLEAN /\ stopped \in BOOLEAN /\ up \in BOOLEAN
  /\ txpc \in {"idle", "count", "wake"} /\ ipc \in 0 .. MaxIpc /\ outrun \in BOOLEAN

\* tx_num_queued counts the frames of the senders and drifts by one, for good,
\* with every frame of wsm_cmd_send_no_ack: it may be negative, and the queue
\* may hold that many frames more before it stops the network layer.
Accounting ==
  num = length - counting - ipc + (IF txpc = "count" THEN 1 ELSE 0)

\* An overfull queue takes no more frames: the network layer is stopped, or a
\* sender is about to stop it.  The counterpart is that sdio_tx never wakes the
\* queues of a queue that has filled up again.  Both are called without the lock, so
\* it is so until sdio_tx sends half a queue, the lock taken for every frame of it,
\* while a sender is between its unlock and its call.  To open the interface again
\* makes that good.
OverfullMeansStopped == up /\ overfull /\ ~outrun => stopped \/ stopping > 0

\* The network layer is not stopped for ever: while the device takes frames,
\* stopped queues are woken, or the interface is closed, unless the stop came after
\* the wakeup it should have come before: nobody wakes the queues after that.
QueuesRestart == up /\ stopped ~> ~stopped \/ ~up \/ outrun
=============================================================================

------------------------------ MODULE MCThreads ------------------------------
(***************************************************************************)
(* The threads of the bus in one model-checking run: how such a thread      *)
(* sleeps, is woken, suspended and stopped (BhThread), and how sdio_tx      *)
(* accounts its credits (TxCredit) up to its end when the driver is         *)
(* released (TxStop).  The two models share no variable: part says which of *)
(* them the behaviour is of.                                                *)
(***************************************************************************)
EXTENDS BhThread, TxStop

VARIABLE part

AllInit == part \in {"thread", "stop"} /\ BhInit /\ StopInit

AllNext ==
  /\ UNCHANGED part
  /\ \/ part = "thread" /\ BhNext /\ UNCHANGED allVars
     \/ part = "stop" /\ StopNext /\ UNCHANGED bhVars

\* A component that stays in its initial state has nothing fairness asks for.
AllSpec ==
  /\ AllInit /\ [][AllNext]_<<bhVars, allVars, part>>
  /\ BhFairness /\ StopFairness

-----------------------------------------------------------------------------
(* Properties: the ones of a model that go together, as one.              *)

\* Every variable of the two models stays in its range; and no report of the
\* device that was kept is forgotten: the credits sdio_tx waits for are in hw_xmits,
\* on their way, or in the device, unless sdio_tx itself stored an older report over
\* the last one (wsm_handle_rx, atbm_sdio_have_enough_space).
ThreadsSafe == BhTypeOK /\ TypeOK /\ NoReportForgotten

\* The thread serves the work that was queued, and whoever waits for it to
\* suspend or to stop goes on (atbm_sdio_wait_action, atbm_kthread_try_suspend,
\* atbm_sdio_thread_deinit).
ThreadServes == WorkServed /\ SuspendEnds /\ StopEnds

\* sdio_tx goes on when it waits for credits, also while the driver is released,
\* and the release, which waits for the thread, ends (atbm_sdio_tx_bh).
TransmitEnds == WaitEnds /\ ReleaseEnds
=============================================================================

------------------------------ MODULE TxCredit ------------------------------
(***************************************************************************)
(* The flow control between the host and the input buffers of the device    *)
(* (bh_sdio.c, wsm.c; CONFIG_TX_NO_CONFIRM).  The sdio_tx thread counts in  *)
(* n_xmits the frames it has sent; the device reports in an event the number*)
(* of its buffers plus the frames it has consumed, and the sdio_rx thread   *)
(* stores that in hw_xmits; hw_bufs_free caches the difference.  Both       *)
(* counters are u32 and wrap, and no lock protects hw_xmits.                *)
(***************************************************************************)
EXTENDS Integers, Sequences

CONSTANTS
  NumInpChBufs,   \* input buffers of the device (wsm_caps.numInpChBufs)
  Half,           \* 2^31: the counters are taken modulo 2 * Half
  MaxBatch,       \* frames that fit into xmit_buff (SDIO_TX_MAXLEN)
  MaxQueued,      \* bound: frames waiting in tx_frame_queue
  MaxEvents,      \* bound: reports of the device under way
  MaxLost,        \* bound: frames lost in failed writes
  MaxEarly        \* bound: commands sent before there is an interface

ASSUME TxCreditAssumption ==
  /\ NumInpChBufs \in Nat \ {0} /\ Half \in Nat /\ NumInpChBufs < Half
  /\ MaxBatch \in Nat \ {0} /\ MaxQueued \in Nat /\ MaxEvents \in Nat
  /\ MaxLost \in Nat /\ MaxEarly \in Nat

U32 == 0 .. 2 * Half - 1
Inc(a) == IF a = 2 * Half - 1 THEN 0 ELSE a + 1
Sub(a, b) == IF a >= b THEN a - b ELSE a - b + 2 * Half
AsInt(a) == IF a >= Half THEN a - 2 * Half ELSE a        \* (int) of a u32
AsU32(a) == IF a < 0 THEN a + 2 * Half ELSE a            \* int compared with u32

VARIABLES
  txpc,          \* where sdio_tx is in atbm_sdio_tx_bh
  n_xmits,       \* frames sent, modulo 2^32
  hw_xmits,      \* last report of the device the host has kept
  hw_bufs_free,  \* cached credits
  hw_xmited,     \* the local copy of hw_xmits in atbm_sdio_have_enough_space
  enough,        \* the local of that name in atbm_sdio_tx_bh
  batch,         \* frames linearized into xmit_buff
  queued, cmd,   \* frames in tx_frame_queue; wsm_cmd.ptr # NULL
  held,          \* frames in the input buffers of the device
  freed,         \* the device's counter, modulo 2^32
  told,          \* the value the device last reported
  events,        \* reports under way to the host
  lost,          \* frames lost in failed writes
  early,         \* commands sent before there was an interface
  vif,           \* the network interface: "none", "up", "removed"
  missed,        \* the last report was ignored because there was no interface
  undone,        \* history: sdio_tx has overwritten the last report that was kept
  bug            \* a BUG_ON fired

txVars == <<txpc, n_xmits, hw_bufs_free, hw_xmited, enough, batch>>
workVars == <<queued, cmd, early>>
devVars == <<held, freed, told>>
vars == <<txVars, hw_xmits, workVars, devVars, events, lost, vif, missed, undone, bug>>

Init ==
  /\ txpc = "off" /\ n_xmits = 0 /\ hw_bufs_free = 0 /\ hw_xmited = 0
  /\ enough = FALSE /\ batch = 0
  /\ hw_xmits = 0
  /\ queued = 0 /\ cmd = FALSE /\ early = 0
  /\ held = 0 /\ freed = NumInpChBufs /\ told = NumInpChBufs
  /\ events = <<>>
  /\ lost = 0
  /\ vif = "none" /\ missed = FALSE /\ undone = FALSE
  /\ bug = FALSE

Running == ~bug

-----------------------------------------------------------------------------
(* Mutants of definitions below.                                           *)

\* Mutant of TakeCredit: the cached credits are not decremented.
TakeCreditOnce == n_xmits' = Inc(n_xmits) /\ UNCHANGED hw_bufs_free
\* Mutant of TakeCredit: n_xmits is forgotten.
TakeCreditUncounted == hw_bufs_free' = hw_bufs_free - 1 /\ UNCHANGED n_xmits
\* Mutant of CreditsOf: a plain difference in the place of a modular one.
CreditsOfPlain(x) == x - n_xmits
\* Mutant of KeepReport: a report is taken only when it is numerically larger.
KeepReportLarger(x) == IF x > hw_xmits THEN x ELSE hw_xmits

-----------------------------------------------------------------------------
StartupXmits == NumInpChBufs

\* wsm_startup_indication
Startup ==
  /\ Running /\ txpc = "off"
  /\ txpc' = "idle"
  /\ hw_xmits' = StartupXmits
  /\ hw_bufs_free' = NumInpChBufs
  /\ UNCHANGED <<n_xmits, hw_xmited, enough, batch, workVars, devVars, events,
                 lost, vif, missed, undone, bug>>

\* A frame is queued, or a command is put into the slot; sdio_tx is woken.
Submit ==
  /\ Running /\ txpc # "off"
  /\ \/ /\ vif = "up" /\ queued < MaxQueued
        /\ queued' = queued + 1
        /\ UNCHANGED <<cmd, early>>
     \/ /\ ~cmd /\ (vif = "none" => early < MaxEarly)
        /\ cmd' = TRUE
        /\ early' = IF vif = "none" THEN early + 1 ELSE early
        /\ UNCHANGED queued
  /\ UNCHANGED <<txVars, hw_xmits, devVars, events, lost, vif, missed, undone, bug>>

-----------------------------------------------------------------------------
(* The sdio_tx thread: atbm_sdio_tx_bh.                                    *)

Enough(free) == AsU32(free) >= 1

CreditsOf(x) == AsInt(Sub(x, n_xmits))

\* The thread is woken (also without cause).
TxEnter ==
  /\ Running /\ txpc = "idle"
  /\ txpc' = "check" /\ batch' = 0 /\ enough' = FALSE
  /\ UNCHANGED <<n_xmits, hw_bufs_free, hw_xmited, hw_xmits, workVars, devVars,
                 events, lost, vif, missed, undone, bug>>

\* atbm_sdio_have_enough_space: the cached credits suffice, or hw_xmits is
\* read; no lock keeps sdio_rx from storing a report after that.
HaveSpace ==
  /\ Running /\ txpc = "check"
  /\ IF Enough(hw_bufs_free)
     THEN /\ txpc' = "get" /\ enough' = TRUE
          /\ UNCHANGED <<hw_xmited, bug>>
     ELSE /\ hw_xmited' = hw_xmits
          /\ IF CreditsOf(hw_xmits) > NumInpChBufs
             THEN bug' = TRUE /\ UNCHANGED txpc
             ELSE txpc' = "reread" /\ UNCHANGED bug
          /\ UNCHANGED enough
  /\ UNCHANGED <<n_xmits, hw_bufs_free, batch, hw_xmits, workVars, devVars,
                 events, lost, vif, missed, undone>>

\* The rest of it: hw_xmits is stored back and the credits are recomputed.  The
\* store is a data race, which a build may also leave out as one without effect.
RereadSpace ==
  /\ Running /\ txpc = "reread"
  /\ hw_xmits' \in {hw_xmited, hw_xmits}
  /\ undone' = (undone \/ hw_xmits' # hw_xmits)
  /\ hw_bufs_free' = CreditsOf(hw_xmited)
  /\ enough' = Enough(CreditsOf(hw_xmited))
  /\ txpc' = IF Enough(CreditsOf(hw_xmited)) THEN "get"
             ELSE IF batch > 0 THEN "write" ELSE "wait"
  /\ UNCHANGED <<n_xmits, hw_xmited, batch, workVars, devVars, events, lost,
                 vif, missed, bug>>

\* atbm_sdio_wait_enough_space sleeps 2 ms; it polls the same test again, and
\* when all its polls fail xmit_err has no command to complete and goes back
\* to xmit_continue, too.
WaitSpace ==
  /\ Running /\ txpc = "wait"
  /\ txpc' = "check"
  /\ UNCHANGED <<n_xmits, hw_bufs_free, hw_xmited, enough, batch, hw_xmits,
                 workVars, devVars, events, lost, vif, missed, undone, bug>>

TakeCredit == n_xmits' = Inc(n_xmits) /\ hw_bufs_free' = hw_bufs_free - 1

\* wsm_get_tx found a command or a frame: it is accounted and linearized.
\* A command ends the batch, and so does a full xmit_buff.
GetFrame ==
  /\ Running /\ txpc = "get" /\ (cmd \/ queued > 0)
  /\ IF hw_bufs_free <= 0
     THEN bug' = TRUE /\ UNCHANGED <<txpc, n_xmits, hw_bufs_free, batch, workVars>>
     ELSE /\ TakeCredit
          /\ batch' = batch + 1
          /\ IF cmd THEN cmd' = FALSE /\ UNCHANGED queued
                    ELSE queued' = queued - 1 /\ UNCHANGED cmd
          /\ UNCHANGED early
          /\ txpc' = IF cmd \/ batch + 1 >= MaxBatch THEN "write" ELSE "check"
          /\ UNCHANGED bug
  /\ UNCHANGED <<hw_xmited, enough, hw_xmits, devVars, events, lost, vif, missed, undone>>

\* wsm_get_tx found nothing: xmit_finished, or the batch is written.
GetNothing ==
  /\ Running /\ txpc = "get" /\ ~cmd /\ queued = 0
  /\ txpc' = IF batch > 0 THEN "write" ELSE "idle"
  /\ UNCHANGED <<n_xmits, hw_bufs_free, hw_xmited, enough, batch, hw_xmits,
                 workVars, devVars, events, lost, vif, missed, undone, bug>>

\* atbm_data_write succeeded; xmit_continue, by way of xmit_wait.
Write ==
  /\ Running /\ txpc = "write"
  /\ held' = held + batch
  /\ batch' = 0 /\ enough' = FALSE
  /\ txpc' = IF enough THEN "check" ELSE "wait"
  /\ UNCHANGED <<n_xmits, hw_bufs_free, hw_xmited, hw_xmits, workVars, freed,
                 told, events, lost, vif, missed, undone, bug>>

\* atbm_data_write failed: the frames may have reached the device or not, and
\* they stay accounted in n_xmits.
WriteError ==
  /\ Running /\ txpc = "write"
  /\ \/ held' = held + batch /\ UNCHANGED lost
     \/ lost + batch <= MaxLost /\ lost' = lost + batch /\ UNCHANGED held
  /\ batch' = 0 /\ enough' = FALSE
  /\ txpc' = "check"
  /\ UNCHANGED <<n_xmits, hw_bufs_free, hw_xmited, hw_xmits, workVars, freed,
                 told, events, vif, missed, undone, bug>>

-----------------------------------------------------------------------------
(* The device (external) and the sdio_rx thread.                           *)

DevConsume ==
  /\ Running /\ held > 0
  /\ held' = held - 1
  /\ freed' = Inc(freed)
  /\ UNCHANGED <<txVars, hw_xmits, workVars, told, events, lost, vif, missed, undone, bug>>

DevReport ==
  /\ Running /\ told # freed /\ Len(events) < MaxEvents
  /\ events' = Append(events, freed)
  /\ told' = freed
  /\ UNCHANGED <<txVars, hw_xmits, workVars, held, freed, lost, vif, missed, undone, bug>>

KeepReport(x) == x

\* wsm_event_indication of WSM_EVENT_SDIO_INPUTCHAN_EVNET, which is ignored
\* while there is no interface.
RxEvent ==
  /\ Running /\ events # <<>>
  /\ events' = Tail(events)
  /\ hw_xmits' = IF vif = "up" THEN KeepReport(Head(events)) ELSE hw_xmits
  /\ undone' = (undone /\ vif # "up")
  /\ missed' = (vif # "up")
  /\ UNCHANGED <<txVars, workVars, devVars, lost, vif, bug>>

\* atbm_add_interface ends with the entry in vif_list, and
\* atbm_remove_interfaces starts with its removal.
AddInterface ==
  /\ Running /\ txpc # "off" /\ vif = "none"
  /\ vif' = "up"
  /\ UNCHANGED <<txVars, hw_xmits, workVars, devVars, events, lost, missed, undone, bug>>

RemoveInterface ==
  /\ Running /\ vif = "up"
  /\ vif' = "removed"
  /\ UNCHANGED <<txVars, hw_xmits, workVars, devVars, events, lost, missed, undone, bug>>

-----------------------------------------------------------------------------
TxStep ==
  \/ TxEnter \/ HaveSpace \/ RereadSpace \/ WaitSpace
  \/ GetFrame \/ GetNothing \/ Write \/ WriteError

Next ==
  \/ Startup \/ Submit \/ TxStep
  \/ DevConsume \/ DevReport \/ RxEvent \/ AddInterface \/ RemoveInterface

\* sdio_tx and sdio_rx are real-time threads that are woken for every frame
\* and every report; the device consumes what it holds and reports it.
Fairness ==
  /\ WF_vars(TxStep) /\ WF_vars(DevConsume) /\ WF_vars(DevReport)
  /\ WF_vars(RxEvent)

Spec == Init /\ [][Next]_vars
FairSpec == Spec /\ Fairness

-----------------------------------------------------------------------------
(* Properties.                                                             *)

TypeOK ==
  /\ txpc \in {"off", "idle", "check", "reread", "wait", "get", "write"}
  /\ n_xmits \in U32 /\ hw_xmits \in U32 /\ hw_xmited \in U32
  /\ hw_bufs_free \in 0 .. NumInpChBufs
  /\ enough \in BOOLEAN /\ batch \in Nat
  /\ queued \in 0 .. MaxQueued /\ cmd \in BOOLEAN /\ early \in Nat
  /\ held \in Nat /\ freed \in U32 /\ told \in U32
  /\ events \in Seq(U32) /\ lost \in Nat
  /\ vif \in {"none", "up", "removed"} /\ missed \in BOOLEAN
  /\ undone \in BOOLEAN /\ bug \in BOOLEAN

\* Credits are conserved: the credits sdio_tx believes it has, the frames it
\* is putting together, the ones in the device and the ones lost in failed
\* writes never exceed the input buffers of the device, whatever order the
\* reports, the polls and the unlocked stores happen in.
CreditBound == hw_bufs_free + batch + held + lost <= NumInpChBufs

\* None of the BUG_ONs of the credit computation fires: the signed difference
\* of the wrapping counters stays within the buffers of the device, and no
\* frame is taken without a credit.
NoBug == ~bug

\* No report is forgotten: when the device has reported all it consumed and every
\* report was handled, hw_xmits is the device's counter, unless sdio_rx had no
\* interface for the last report or sdio_tx stored an older one over it (line 281):
\* each report that is kept makes good all that was overwritten before.
NoReportForgotten ==
  txpc # "off" /\ events = <<>> /\ told = freed /\ ~missed /\ ~undone => hw_xmits = freed

\* The credit scheme is a pool of NumInpChBufs buffers.
Pool == INSTANCE BufferPool WITH Size <- NumInpChBufs, used <- batch + held + lost

\* What atbm_sdio_tx_bh takes and what the device frees is at every step what a
\* pool of NumInpChBufs buffers allows.
PoolSpec == Pool!Spec

\* There is no credit in hw_xmits, and nothing that could bring one.
Starved == CreditsOf(hw_xmits) < 1 /\ held = 0 /\ told = freed /\ events = <<>>

\* atbm_sdio_wait_enough_space waits for ever only for a credit that is gone: the
\* report with it found no interface or was overwritten with an older one, or every
\* buffer is accounted to a frame a failed write lost.
WaitEnds ==
  txpc = "wait" ~>
    \/ txpc = "get" \/ vif = "removed"
    \/ Starved /\ (missed \/ undone \/ lost = NumInpChBufs)
=============================================================================

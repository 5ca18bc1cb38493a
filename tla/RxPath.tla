------------------------------- MODULE RxPath -------------------------------
(***************************************************************************)
(* How frames of the device reach the driver over SDIO: the interrupt       *)
(* handler (bh_sdio.c, atbm_irq_handler), which turns the interrupt off and *)
(* wakes sdio_rx; the thread sdio_rx (apollo_sdio.c), which reads frames    *)
(* until the device has none and turns the interrupt on again before it     *)
(* sleeps; the sequence check of atbm_rx_directly; the accesses to device   *)
(* registers that save and restore the register which holds the interrupt   *)
(* enable bit; and the suspend of the machine.                              *)
(*                                                                          *)
(* The host of the bus is claimed while the handler runs, while the thread  *)
(* polls or reads and for each access of a register: what happens under one *)
(* claim is one step, unless the device can put a frame between two parts   *)
(* of it that tell it apart.  kthread_stop and the handshake of the suspend *)
(* are in BhThread.                                                         *)
(***************************************************************************)
EXTENDS Integers, Sequences

CONSTANTS
  MaxFrames,     \* bound: frames that the device sends
  MaxErrors,     \* bound: accesses of the bus that fail, retries included
  MaxAccesses,   \* bound: calls of atbm_direct_read_reg_32 and its like
  MaxSuspends,   \* bound: suspends of the machine
  Unchecked,     \* frames not looked at after the module is loaded: 4
  SeqMod         \* sequence numbers of the device: 8

ASSUME RxPathAssumption ==
  /\ {MaxFrames, MaxErrors, MaxAccesses, MaxSuspends, Unchecked} \subseteq Nat
  /\ SeqMod \in Nat \ {0}

VARIABLES
  sent,        \* the device has sent frames 0 .. sent - 1 ...
  next,        \* ... and frame next is the first that was not read
  status,      \* the interrupt status of the device
  latching,    \* a frame sets the status also while the interrupt is off
  irqEn,       \* ATBM_HIFREG_CONF_IRQ_RDY_ENABLE in the config register
  ipc,         \* the handler, in the thread of the SDIO host
  subscribed,  \* irq_handler # NULL
  tpc,         \* sdio_rx
  running,     \* its task state is TASK_RUNNING
  expired,     \* period = 0
  armed,       \* pre_sched # NULL
  wakeup,      \* THREAD_WAKEUP
  rxSeq, rxResync, recvCnt,   \* wsm_rx_seq, and rx_resync and recv_cnt, static
  delivered,   \* the frames handed to atbm_rx_tasklet, in order
  dropped,     \* frames with an unexpected number, dropped
  lost,        \* frames that could not be read, and firmware exceptions
  dpc, saved,  \* atbm_direct_read_reg_32, and its orig_config_data
  accesses,
  mpc, suspends,   \* the task that suspends and resumes
  errors

deviceVars == <<sent, status, latching>>
irqVars == <<irqEn, ipc, subscribed>>
threadVars == <<tpc, running, expired, armed>>
readVars == <<next, rxSeq, rxResync, recvCnt, delivered, dropped, lost>>
accessVars == <<dpc, saved, accesses>>
pmVars == <<mpc, suspends>>
vars == <<deviceVars, irqVars, threadVars, wakeup, readVars, accessVars, pmVars,
          errors>>

\* sdio_rx was started, its first sleep is ahead; the module may have served a
\* device before, in which case recv_cnt and rx_resync are not 0 and 1.
Init ==
  /\ sent = 0 /\ next = 0 /\ status = FALSE /\ latching \in BOOLEAN
  /\ irqEn \in BOOLEAN /\ ipc = "idle" /\ subscribed = TRUE
  /\ tpc = "wake" /\ running = TRUE /\ expired = FALSE /\ armed = FALSE
  /\ wakeup = FALSE
  /\ rxSeq = 0
  /\ \/ rxResync = TRUE /\ recvCnt = 0
     \/ rxResync = FALSE /\ recvCnt = Unchecked
  /\ delivered = <<>> /\ dropped = 0 /\ lost = 0
  /\ dpc = "idle" /\ saved = FALSE /\ accesses = 0
  /\ mpc = "up" /\ suspends = 0
  /\ errors = 0

-----------------------------------------------------------------------------
(* The device and the bus.                                                 *)

Pending == next < sent

\* The device has one more frame.
Arrive ==
  /\ sent < MaxFrames
  /\ sent' = sent + 1
  /\ status' = (status \/ irqEn \/ latching)
  /\ UNCHANGED <<latching, irqVars, threadVars, wakeup, readVars, accessVars,
                 pmVars, errors>>

HostClaimed == ipc # "idle" \/ tpc \in {"enable", "check", "data"}

Fails == errors < MaxErrors /\ errors' = errors + 1
Works == UNCHANGED errors

\* "the operation of reading reg can clear irq" (bh_sdio.c)
ReadControl == status' = FALSE

\* __atbm_irq_enable, whose result nobody looks at.
IrqEnable(on) ==
  \/ Works /\ irqEn' = on
  \/ Fails /\ UNCHANGED irqEn

-----------------------------------------------------------------------------
(* atbm_irq_handler, called by the thread of the SDIO host.                *)

Handler == IrqEnable(FALSE)

Interrupt ==
  /\ status /\ irqEn /\ subscribed /\ ~HostClaimed
  /\ Handler
  /\ ipc' = "wake"
  /\ UNCHANGED <<deviceVars, subscribed, threadVars, wakeup, readVars,
                 accessVars, pmVars>>

\* sbus_rev_schedule: atbm_sdio_thread_wakeup
WakeThread ==
  /\ wakeup' = TRUE
  /\ running' = (running \/ ~wakeup)

InterruptWakes ==
  /\ ipc = "wake" /\ ipc' = "idle"
  /\ WakeThread
  /\ UNCHANGED <<deviceVars, irqEn, subscribed, tpc, expired, armed, readVars,
                 accessVars, pmVars, errors>>

-----------------------------------------------------------------------------
(* sdio_rx: atbm_sdio_wait_action with its hooks.                          *)

Goto(from, to) == tpc = from /\ tpc' = to

Wake ==
  /\ Goto("wake", "test")
  /\ running' = FALSE /\ expired' = FALSE
  /\ UNCHANGED <<deviceVars, irqVars, armed, wakeup, readVars, accessVars,
                 pmVars, errors>>

ShouldSuspend == mpc \in {"suspending", "suspended", "irq off", "subscribe", "irq on"}

\* atbm_sdio_rx_post_sched is called when THREAD_WAKEUP was set.
Test ==
  /\ \/ /\ wakeup /\ Goto("test", "read")
        /\ wakeup' = FALSE /\ armed' = TRUE /\ running' = TRUE
     \/ /\ ~wakeup
        /\ Goto("test", IF ShouldSuspend THEN "parked"
                        ELSE IF expired THEN "period"
                        ELSE IF armed THEN "pre" ELSE "sleepy")
        /\ UNCHANGED <<wakeup, armed, running>>
  /\ UNCHANGED <<deviceVars, irqVars, expired, readVars, accessVars, pmVars, errors>>

\* atbm_sdio_miss_irq, under a claim of the thread itself
MissIrq ==
  \/ /\ subscribed
     /\ Handler /\ WakeThread
  \/ /\ ~subscribed
     /\ running' = TRUE /\ Works /\ UNCHANGED <<irqEn, wakeup>>

\* Mutant of Poll: the thread goes to sleep again without a look at the device.
PollNothing(none) ==
  /\ tpc' = none
  /\ Works
  /\ UNCHANGED <<status, irqEn, wakeup, running>>

\* atbm_bh_read_ctrl_reg_unlock; when it fails ctrl_reg is 0.
Poll(none) ==
  \/ /\ Pending /\ ReadControl
     /\ MissIrq
     /\ tpc' = "wake"
  \/ /\ ~Pending /\ ReadControl /\ Works
     /\ tpc' = none
     /\ UNCHANGED <<irqEn, wakeup, running>>
  \/ /\ Fails
     /\ tpc' = none
     /\ UNCHANGED <<status, irqEn, wakeup, running>>

AfterPeriod == IF armed THEN "pre" ELSE "sleepy"

\* atbm_sdio_irq_period, after 30 ms without a wakeup
IrqPeriod ==
  /\ tpc = "period" /\ ~HostClaimed
  /\ \/ /\ wakeup /\ tpc' = "wake" /\ Works
        /\ UNCHANGED <<status, irqEn, wakeup, running>>
     \/ /\ ~wakeup
        /\ Poll(AfterPeriod)
  /\ UNCHANGED <<sent, latching, ipc, subscribed, expired, armed, readVars,
                 accessVars, pmVars>>

\* atbm_sdio_rx_pre_sched, before each sleep: the poll ...
PreSched ==
  /\ tpc = "pre" /\ ~HostClaimed
  /\ Poll("enable")
  /\ UNCHANGED <<sent, latching, ipc, subscribed, expired, armed, readVars,
                 accessVars, pmVars>>

EnablesWith == TRUE

\* ... and, under the same claim, the interrupt.
PreSchedEnables ==
  /\ Goto("enable", "sleepy")
  /\ IrqEnable(EnablesWith)
  /\ UNCHANGED <<deviceVars, ipc, subscribed, running, expired, armed, wakeup,
                 readVars, accessVars, pmVars>>

\* set_current_state(TASK_INTERRUPTIBLE), before and after the sleep
SetInterruptible ==
  /\ Goto("sleepy", "sleep") \/ Goto("slept", "test")
  /\ running' = FALSE
  /\ UNCHANGED <<deviceVars, irqVars, expired, armed, wakeup, readVars,
                 accessVars, pmVars, errors>>

Woken ==
  /\ running /\ Goto("sleep", "slept")
  /\ expired' = FALSE
  /\ UNCHANGED <<deviceVars, irqVars, running, armed, wakeup, readVars,
                 accessVars, pmVars, errors>>

\* schedule_timeout runs into its 30 ms.
Expire ==
  /\ ~running /\ Goto("sleep", "slept")
  /\ expired' = TRUE /\ running' = TRUE
  /\ UNCHANGED <<deviceVars, irqVars, armed, wakeup, readVars, accessVars,
                 pmVars, errors>>

\* atbm_kthread_into_suspend, until it is resumed
LeaveSuspend ==
  /\ ~ShouldSuspend /\ Goto("parked", "wake")
  /\ UNCHANGED <<deviceVars, irqVars, running, expired, armed, wakeup, readVars,
                 accessVars, pmVars, errors>>

-----------------------------------------------------------------------------
(* sdio_rx: atbm_sdio_rx_bh, one claim from the first read to the last.    *)

Claim ==
  /\ ~HostClaimed /\ Goto("read", "check")
  /\ UNCHANGED <<deviceVars, irqVars, running, expired, armed, wakeup, readVars,
                 accessVars, pmVars, errors>>

\* rx_check: the control register says whether there is a frame.
Check ==
  /\ tpc = "check"
  /\ \/ ReadControl /\ Works /\ tpc' = IF Pending THEN "data" ELSE "wake"
     \/ Fails /\ tpc' = "wake" /\ UNCHANGED status
  /\ UNCHANGED <<sent, latching, irqVars, running, expired, armed, wakeup,
                 readVars, accessVars, pmVars>>

SeqNo(frame) == frame % SeqMod

\* Mutant of InSequence: the numbers are not compared.
AnySequence(frame) == TRUE

InSequence(frame) == rxResync \/ SeqNo(frame) = rxSeq

SeqAfter(seq) == (seq + 1) % SeqMod

\* The first frames after the module was loaded are counted and not looked at.
SkipFirst ==
  /\ recvCnt < Unchecked
  /\ recvCnt' = recvCnt + 1
  /\ rxSeq' = SeqAfter(recvCnt)
  /\ rxResync' = FALSE
  /\ UNCHANGED <<delivered, dropped, lost>>

\* A frame with the expected number is handled.
Accept(frame) ==
  /\ recvCnt >= Unchecked /\ InSequence(frame)
  /\ rxSeq' = SeqAfter(SeqNo(frame))
  /\ rxResync' = FALSE
  /\ delivered' = Append(delivered, frame)
  /\ UNCHANGED <<recvCnt, dropped, lost>>

\* Mutant of ExpectedAfterGap: the number is counted on for a dropped frame.
CountsDropped == SeqAfter(rxSeq)

ExpectedAfterGap == rxSeq

\* Any other number: the frame is dropped, what is expected stays.
Mismatch(frame) ==
  /\ recvCnt >= Unchecked /\ ~InSequence(frame)
  /\ rxSeq' = ExpectedAfterGap
  /\ dropped' = dropped + 1
  /\ UNCHANGED <<rxResync, recvCnt, delivered, lost>>

\* A firmware exception is a frame whose number does not count.
Exception ==
  /\ recvCnt >= Unchecked
  /\ lost' = lost + 1
  /\ UNCHANGED <<rxSeq, rxResync, recvCnt, delivered, dropped>>

\* The piggybacked control register tells whether to go on with the data.
Piggyback == IF next + 1 < sent THEN "data" ELSE "check"

\* atbm_data_read and atbm_rx_directly, whose result other than 0 ends the loop:
\* a frame out of sequence, an exception, a handler that fails.
Data ==
  /\ tpc = "data"
  /\ next' = next + 1
  /\ \/ (SkipFirst \/ Accept(next)) /\ Works /\ tpc' = Piggyback
     \/ Mismatch(next) /\ Works /\ tpc' = "wake"
     \/ (Accept(next) \/ Exception) /\ Fails /\ tpc' = "wake"
  /\ UNCHANGED <<deviceVars, irqVars, running, expired, armed, wakeup,
                 accessVars, pmVars>>

\* The data cannot be read or have an impossible length; the device may have
\* dropped the frame.
DataFails ==
  /\ tpc = "data" /\ Fails /\ tpc' = "wake"
  /\ \/ next' = next + 1 /\ lost' = lost + 1
     \/ UNCHANGED <<next, lost>>
  /\ UNCHANGED <<deviceVars, irqVars, running, expired, armed, wakeup, rxSeq,
                 rxResync, recvCnt, delivered, dropped, accessVars, pmVars>>

-----------------------------------------------------------------------------
(* atbm_direct_read_reg_32 and atbm_direct_write_reg_32, from any task, for  *)
(* example when a command timed out: the config register is read, the       *)
(* access mode is set, and at the end the register gets its old value.      *)

AccessSaves ==
  /\ dpc = "idle" /\ accesses < MaxAccesses /\ ~HostClaimed
  /\ dpc' = "saved" /\ saved' = irqEn /\ accesses' = accesses + 1
  /\ UNCHANGED <<deviceVars, irqVars, threadVars, wakeup, readVars, pmVars, errors>>

\* Both writes, the one that sets the mode and the last, put the old bit back.
AccessRestores ==
  /\ dpc \in {"saved", "mode"} /\ ~HostClaimed
  /\ dpc' = IF dpc = "saved" THEN "mode" ELSE "idle"
  /\ irqEn' = saved
  /\ UNCHANGED <<deviceVars, ipc, subscribed, threadVars, wakeup, readVars, saved,
                 accesses, pmVars, errors>>

-----------------------------------------------------------------------------
(* atbm_suspend and atbm_resume.                                           *)

SuspendAsks ==
  /\ mpc = "up" /\ suspends < MaxSuspends /\ mpc' = "suspending"
  /\ suspends' = suspends + 1
  /\ running' = TRUE
  /\ UNCHANGED <<deviceVars, irqVars, tpc, expired, armed, wakeup, readVars,
                 accessVars, errors>>

\* atbm_bh_suspend returned 0: the handler is kept and the interrupt released.
SuspendUnsubscribes ==
  /\ mpc = "suspending" /\ tpc = "parked" /\ ~HostClaimed /\ mpc' = "suspended"
  /\ subscribed' = FALSE
  /\ UNCHANGED <<deviceVars, irqEn, ipc, threadVars, wakeup, readVars, accessVars,
                 suspends, errors>>

ResumeStart ==
  /\ mpc = "suspended" /\ mpc' = "irq off"
  /\ UNCHANGED <<deviceVars, irqVars, threadVars, wakeup, readVars, accessVars,
                 suspends, errors>>

ResumeIrq(from, to, on) ==
  /\ mpc = from /\ mpc' = to /\ ~HostClaimed
  /\ IrqEnable(on)
  /\ UNCHANGED <<deviceVars, ipc, subscribed, threadVars, wakeup, readVars,
                 accessVars, suspends>>

ResumeSubscribes ==
  /\ mpc = "subscribe" /\ mpc' = "irq on" /\ ~HostClaimed
  /\ subscribed' = TRUE
  /\ UNCHANGED <<deviceVars, irqEn, ipc, threadVars, wakeup, readVars, accessVars,
                 suspends, errors>>

\* The last step ends with atbm_bh_resume, which wakes the thread.
Resume ==
  \/ ResumeIrq("irq off", "subscribe", FALSE)
  \/ ResumeSubscribes
  \/ ResumeIrq("irq on", "up", TRUE)

-----------------------------------------------------------------------------
InterruptStep == Interrupt \/ InterruptWakes

ThreadStep ==
  \/ Wake \/ Test \/ IrqPeriod \/ PreSched \/ PreSchedEnables
  \/ SetInterruptible \/ Woken \/ LeaveSuspend \/ Claim \/ Check \/ Data \/ DataFails

SuspendStep == SuspendUnsubscribes \/ Resume

Next ==
  \/ Arrive \/ InterruptStep \/ ThreadStep \/ Expire
  \/ AccessSaves \/ AccessRestores
  \/ SuspendAsks \/ ResumeStart \/ SuspendStep

\* The threads of the host and the driver run and timers expire.  Nothing makes
\* a frame come, an access start, or the machine suspend or resume.
Fairness ==
  /\ WF_vars(InterruptStep) /\ WF_vars(Expire) /\ SF_vars(ThreadStep)
  /\ SF_vars(AccessRestores) /\ SF_vars(SuspendStep)

Spec == Init /\ [][Next]_vars
FairSpec == Spec /\ Fairness

-----------------------------------------------------------------------------
(* Properties.                                                             *)

TypeOK ==
  /\ sent \in 0 .. MaxFrames /\ next \in 0 .. sent
  /\ {status, latching, irqEn, subscribed, running, expired, armed, wakeup,
      rxResync, saved} \subseteq BOOLEAN
  /\ ipc \in {"idle", "wake"} /\ dpc \in {"idle", "saved", "mode"}
  /\ tpc \in {"wake", "test", "period", "pre", "enable", "sleepy", "sleep",
              "slept", "parked", "read", "check", "data"}
  /\ mpc \in {"up", "suspending", "suspended", "irq off", "subscribe", "irq on"}
  /\ rxSeq \in 0 .. SeqMod - 1 /\ recvCnt \in 0 .. Unchecked
  /\ delivered \in Seq(0 .. MaxFrames - 1)
  /\ dropped + lost + Len(delivered) <= next
  /\ accesses \in 0 .. MaxAccesses /\ suspends \in 0 .. MaxSuspends
  /\ errors \in 0 .. MaxErrors

\* A thread that sleeps with the interrupt off has been or is about to be woken:
\* between the poll of atbm_sdio_rx_pre_sched and its sleep nothing is missed.
\* It holds while no access fails and nobody restores the config register.
SleepsArmed ==
  (tpc = "sleep" /\ ~running /\ armed /\ errors = 0 /\ accesses = 0 /\ ~irqEn)
    => wakeup \/ ipc = "wake"

\* What is handed on is in the order of the device, without a repetition, and
\* with nothing left out but whole rounds of the sequence number.
InOrder ==
  \A i \in 1 .. Len(delivered) - 1 :
    LET step == delivered[i + 1] - delivered[i]
    IN  step > 0 /\ step % SeqMod = 1 % SeqMod

\* A lost frame costs at most the rest of the round: the driver drops what
\* follows until the number it waits for comes again.
BoundedLoss == dropped <= (SeqMod - 1) * lost

\* Every frame of the device is read, though a wakeup falls into the window
\* before the sleep, the interrupt is switched off by a restored register or
\* could not be switched on, or the device forgets what it could not signal.
FramesServed == []<>(next = sent \/ mpc # "up")
=============================================================================

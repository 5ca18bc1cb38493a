------------------------------ MODULE BhThread ------------------------------
(***************************************************************************)
(* A thread that serves the SDIO bus (apollo_sdio.c, struct                 *)
(* atbm_sdio_thread), as sdio_tx is set up: how it sleeps and is woken in   *)
(* atbm_sdio_wait_action, how the power management suspends and resumes it  *)
(* and how it is stopped.  The locations of the thread are the points       *)
(* between the accesses to what it shares with the others: its flags, the   *)
(* completion, the stop request of kthread_stop and its own task state,     *)
(* which wake_up_process sets to TASK_RUNNING.                              *)
(***************************************************************************)
EXTENDS Integers

CONSTANTS
  Producers,        \* contexts that queue work and call thread_wakeup
  MaxWork,          \* bound: items of work queued in one behaviour
  MaxSuspends       \* bound: calls of atbm_suspend

ASSUME BhThreadAssumption == MaxWork \in Nat /\ MaxSuspends \in Nat

VARIABLES
  tpc,          \* where the thread is
  running,      \* its task state is TASK_RUNNING
  expired,      \* period = 0: the last sleep ran into its timeout
  wakeup, shouldSuspend, suspened, shouldStop,     \* thread->flags
  suspended,    \* the completion: complete()s that no wait has consumed
  kstop,        \* kthread_should_stop()
  thread,       \* thread->thread # NULL
  work,         \* items that wait for the thread
  brought,      \* items queued so far
  ppc,          \* [Producers -> where the producer is]
  mpc,          \* where the task is that suspends, resumes and removes
  suspends,     \* calls of atbm_suspend so far
  gaveup,       \* history: a suspend gave up waiting for the completion
  astray        \* history: the thread told that it is suspended while nobody waited

threadVars == <<tpc, running, expired>>
flagVars == <<wakeup, shouldSuspend, suspened, shouldStop>>
bhWorkVars == <<work, brought, ppc>>
mgrVars == <<mpc, suspends, kstop, thread>>
toldVars == <<suspended, gaveup, astray>>
bhVars == <<threadVars, flagVars, toldVars, bhWorkVars, mgrVars>>

\* atbm_sdio_xmit_init: the thread is created and not woken.
BhInit ==
  /\ tpc = "created" /\ running = FALSE /\ expired = FALSE
  /\ wakeup = FALSE /\ shouldSuspend = FALSE /\ suspened = FALSE
  /\ shouldStop = FALSE
  /\ suspended = 0 /\ gaveup = FALSE /\ astray = FALSE
  /\ kstop = FALSE /\ thread = TRUE
  /\ work = 0 /\ brought = 0 /\ ppc = [p \in Producers |-> "idle"]
  /\ mpc = "up" /\ suspends = 0

-----------------------------------------------------------------------------
(* The thread: atbm_sdio_tx_thread and atbm_sdio_wait_action.              *)

Goto(from, to) == tpc = from /\ tpc' = to

\* kthread() runs the function of a thread unless it was stopped before.
Start ==
  /\ running /\ Goto("created", IF kstop THEN "exited" ELSE "wake")
  /\ UNCHANGED <<running, expired, flagVars, toldVars, bhWorkVars, mgrVars>>

\* wake: the period is set up again and the task state is TASK_INTERRUPTIBLE.
Wake ==
  /\ Goto("wake", "loop")
  /\ running' = FALSE /\ expired' = FALSE
  /\ UNCHANGED <<flagVars, toldVars, bhWorkVars, mgrVars>>

Completions == suspended + 1

SetSuspened ==
  /\ suspened' = TRUE
  /\ suspended' = IF suspened THEN suspended ELSE Completions
  /\ astray' = (astray \/ (~suspened /\ mpc \notin {"waking", "waiting"}))
  /\ UNCHANGED gaveup

\* atbm_kthread_should_stop, at the head of the loop ...
LoopStop ==
  \/ /\ ~kstop /\ Goto("loop", "test")
     /\ UNCHANGED <<running, flagVars, toldVars>>
  \/ /\ kstop /\ Goto("loop", "exit")
     /\ running' = TRUE /\ shouldStop' = TRUE
     /\ IF shouldSuspend THEN SetSuspened ELSE UNCHANGED <<suspened, toldVars>>
     /\ UNCHANGED <<wakeup, shouldSuspend>>

\* ... and before the sleep.
SleepStop ==
  \/ /\ ~kstop /\ Goto("stop", "sleep")
     /\ UNCHANGED <<running, flagVars, toldVars>>
  \/ /\ kstop /\ Goto("stop", "slept")
     /\ shouldStop' = TRUE
     /\ IF shouldSuspend THEN SetSuspened ELSE UNCHANGED <<suspened, toldVars>>
     /\ UNCHANGED <<running, wakeup, shouldSuspend>>

ShouldStop ==
  /\ LoopStop \/ SleepStop
  /\ UNCHANGED <<expired, bhWorkVars, mgrVars>>

\* test_and_clear_bit(THREAD_WAKEUP): back to the caller, which works.
TestWakeup ==
  /\ IF wakeup THEN Goto("test", "work") /\ running' = TRUE
               ELSE Goto("test", "suspend?") /\ UNCHANGED running
  /\ wakeup' = FALSE
  /\ UNCHANGED <<expired, shouldSuspend, suspened, shouldStop, toldVars,
                 bhWorkVars, mgrVars>>

\* atbm_sdio_tx_period makes the loop start again when the sleep timed out.
TestSuspend ==
  /\ Goto("suspend?", CASE shouldSuspend            -> "parking"
                        [] ~shouldSuspend /\ expired -> "wake"
                        [] OTHER                     -> "sleepy")
  /\ UNCHANGED <<running, expired, flagVars, toldVars, bhWorkVars, mgrVars>>

\* Before and after the sleep the state is set to TASK_INTERRUPTIBLE.
SetInterruptible ==
  /\ Goto("sleepy", "stop") \/ Goto("slept", "loop") \/ Goto("parking", "parked?")
  /\ running' = FALSE
  /\ UNCHANGED <<expired, flagVars, toldVars, bhWorkVars, mgrVars>>

\* schedule_timeout returns: the thread was woken ...
Woken ==
  /\ running /\ Goto("sleep", "slept")
  /\ expired' = FALSE
  /\ UNCHANGED <<running, flagVars, toldVars, bhWorkVars, mgrVars>>

\* Mutant of SleepTimes: schedule() in the place of schedule_timeout().
SleepForever == FALSE

SleepTimes == TRUE

\* ... or its timer expired.
Expire ==
  /\ SleepTimes /\ ~running /\ Goto("sleep", "slept")
  /\ running' = TRUE /\ expired' = TRUE
  /\ UNCHANGED <<flagVars, toldVars, bhWorkVars, mgrVars>>

\* atbm_sdio_tx_bh: all that is there is sent, then back to wait_action.
Work ==
  /\ tpc = "work"
  /\ IF work > 0 THEN work' = work - 1 /\ UNCHANGED tpc
                 ELSE tpc' = "wake" /\ UNCHANGED work
  /\ UNCHANGED <<running, expired, flagVars, toldVars, brought, ppc, mgrVars>>

\* The thread's function returns (atbm_sdio_release_err_cmd).
BhExit ==
  /\ Goto("exit", "exited")
  /\ UNCHANGED <<running, expired, flagVars, toldVars, bhWorkVars, mgrVars>>

-----------------------------------------------------------------------------
(* The thread: atbm_kthread_into_suspend.                                  *)

SuspendLoop ==
  /\ Goto("parked?", IF shouldSuspend THEN "tell" ELSE "leave")
  /\ UNCHANGED <<running, expired, flagVars, toldVars, bhWorkVars, mgrVars>>

TellSuspened ==
  /\ Goto("tell", "parkstop")
  /\ SetSuspened
  /\ UNCHANGED <<running, expired, wakeup, shouldSuspend, shouldStop, bhWorkVars,
                 mgrVars>>

StopSeenParked == kstop

ParkedStop ==
  /\ \/ /\ StopSeenParked /\ Goto("parkstop", "leave")
        /\ shouldStop' = TRUE /\ shouldSuspend' = FALSE
     \/ /\ ~StopSeenParked /\ Goto("parkstop", "parked")
        /\ UNCHANGED <<shouldStop, shouldSuspend>>
  /\ UNCHANGED <<running, expired, wakeup, suspened, toldVars, bhWorkVars, mgrVars>>

\* Mutant of AfterSchedule: if in the place of while.
LeavesOnAnyWakeup == "leave"

AfterSchedule == "parking"

\* schedule() without a timeout.
Unpark ==
  /\ running /\ Goto("parked", AfterSchedule)
  /\ UNCHANGED <<running, expired, flagVars, toldVars, bhWorkVars, mgrVars>>

LeaveSuspend ==
  /\ Goto("leave", "wake")
  /\ suspened' = FALSE /\ running' = FALSE
  /\ UNCHANGED <<expired, wakeup, shouldSuspend, shouldStop, toldVars, bhWorkVars,
                 mgrVars>>

-----------------------------------------------------------------------------
(* atbm_sdio_thread_wakeup, in any context.                                *)

WakeUpProcess == running' = TRUE

Produce(p) ==
  /\ ppc[p] = "idle" /\ brought < MaxWork
  /\ brought' = brought + 1 /\ work' = work + 1
  /\ ppc' = [ppc EXCEPT ![p] = "queued"]
  /\ UNCHANGED <<threadVars, flagVars, toldVars, mgrVars>>

\* test_and_set_bit(THREAD_WAKEUP): who finds it set does not wake.
SetWakeup(p) ==
  /\ ppc[p] = "queued"
  /\ wakeup' = TRUE
  /\ ppc' = [ppc EXCEPT ![p] = IF wakeup THEN "idle" ELSE "waking"]
  /\ UNCHANGED <<threadVars, shouldSuspend, suspened, shouldStop, toldVars,
                 work, brought, mgrVars>>

WakeThread(p) ==
  /\ ppc[p] = "waking"
  /\ ppc' = [ppc EXCEPT ![p] = "idle"]
  /\ IF thread THEN WakeUpProcess ELSE UNCHANGED running
  /\ UNCHANGED <<tpc, expired, flagVars, toldVars, work, brought, mgrVars>>

-----------------------------------------------------------------------------
(* Suspend, resume and removal.  The device core calls them for one device  *)
(* one after the other (device_lock).                                       *)

\* atbm_kthread_try_suspend: a thread that is still suspended is left alone.
TrySuspend ==
  /\ mpc = "up" /\ suspends < MaxSuspends
  /\ suspends' = suspends + 1
  /\ mpc' = IF suspened THEN "suspended" ELSE "suspending"
  /\ UNCHANGED <<threadVars, flagVars, toldVars, bhWorkVars, kstop, thread>>

SuspendAsks ==
  /\ mpc = "suspending" /\ mpc' = "waking"
  /\ shouldSuspend' = TRUE
  /\ UNCHANGED <<threadVars, wakeup, suspened, shouldStop, toldVars, bhWorkVars,
                 suspends, kstop, thread>>

SuspendWakes ==
  /\ mpc = "waking" /\ mpc' = "waiting"
  /\ WakeUpProcess
  /\ UNCHANGED <<tpc, expired, flagVars, toldVars, bhWorkVars, suspends, kstop,
                 thread>>

\* wait_for_completion_timeout, whose result is not looked at.
SuspendWaits ==
  /\ mpc = "waiting" /\ mpc' = "suspended"
  /\ suspended > 0 /\ suspended' = suspended - 1
  /\ UNCHANGED <<threadVars, flagVars, gaveup, astray, bhWorkVars, suspends, kstop,
                 thread>>

SuspendGivesUp ==
  /\ mpc = "waiting" /\ mpc' = "suspended"
  /\ suspended = 0 /\ gaveup' = TRUE
  /\ UNCHANGED <<threadVars, flagVars, suspended, astray, bhWorkVars, suspends, kstop,
                 thread>>

\* atbm_kthread_resume
Resume ==
  /\ mpc = "suspended" /\ mpc' = "resuming"
  /\ shouldSuspend' = FALSE
  /\ UNCHANGED <<threadVars, wakeup, suspened, shouldStop, toldVars, bhWorkVars,
                 suspends, kstop, thread>>

ResumeClears ==
  /\ mpc = "resuming" /\ mpc' = IF suspened THEN "resumewake" ELSE "up"
  /\ suspened' = FALSE
  /\ UNCHANGED <<threadVars, wakeup, shouldSuspend, shouldStop, toldVars,
                 bhWorkVars, suspends, kstop, thread>>

ResumeWakes ==
  /\ mpc = "resumewake" /\ mpc' = "up"
  /\ WakeUpProcess
  /\ UNCHANGED <<tpc, expired, flagVars, toldVars, bhWorkVars, suspends, kstop,
                 thread>>

\* atbm_sdio_thread_deinit, also of a suspended thread.
Deinit ==
  /\ mpc \in {"up", "suspended"} /\ mpc' = "deinit"
  /\ shouldStop' = TRUE
  /\ UNCHANGED <<threadVars, wakeup, shouldSuspend, suspened, toldVars, bhWorkVars,
                 suspends, kstop, thread>>

DeinitUnlinks ==
  /\ mpc = "deinit" /\ mpc' = "unlinked"
  /\ thread' = FALSE
  /\ UNCHANGED <<threadVars, flagVars, toldVars, bhWorkVars, suspends, kstop>>

\* kthread_stop
KthreadStop ==
  /\ mpc = "unlinked" /\ mpc' = "stopping"
  /\ kstop' = TRUE /\ WakeUpProcess
  /\ UNCHANGED <<tpc, expired, flagVars, toldVars, bhWorkVars, suspends, thread>>

KthreadStopped ==
  /\ mpc = "stopping" /\ tpc = "exited" /\ mpc' = "removed"
  /\ UNCHANGED <<threadVars, flagVars, toldVars, bhWorkVars, suspends, kstop, thread>>

-----------------------------------------------------------------------------
ThreadStep ==
  \/ Start \/ Wake \/ ShouldStop \/ TestWakeup \/ TestSuspend
  \/ SetInterruptible \/ Woken \/ Work \/ BhExit
  \/ SuspendLoop \/ TellSuspened \/ ParkedStop \/ Unpark \/ LeaveSuspend

SuspendStep == SuspendAsks \/ SuspendWakes \/ SuspendWaits
ResumeStep == ResumeClears \/ ResumeWakes
StopStep == DeinitUnlinks \/ KthreadStop \/ KthreadStopped

Finished == mpc = "removed" /\ UNCHANGED bhVars

BhNext ==
  \/ ThreadStep \/ Expire
  \/ \E p \in Producers : Produce(p) \/ SetWakeup(p) \/ WakeThread(p)
  \/ TrySuspend \/ SuspendStep \/ SuspendGivesUp \/ Resume \/ ResumeStep \/ Deinit \/ StopStep
  \/ Finished

\* The thread and who wakes it are scheduled, and timers expire.  Nothing makes
\* work appear, the machine suspend or resume, or the driver go away.
BhFairness ==
  /\ WF_bhVars(ThreadStep) /\ WF_bhVars(Expire)
  /\ \A p \in Producers : WF_bhVars(SetWakeup(p) \/ WakeThread(p))
  /\ WF_bhVars(SuspendStep) /\ WF_bhVars(ResumeStep) /\ WF_bhVars(StopStep)

BhSpec == BhInit /\ [][BhNext]_bhVars
BhFairSpec == BhSpec /\ BhFairness

-----------------------------------------------------------------------------
(* Properties.                                                             *)

Locations ==
  {"created", "wake", "loop", "test", "suspend?", "sleepy", "stop", "sleep",
   "slept", "work", "exit", "exited",
   "parking", "parked?", "tell", "parkstop", "parked", "leave"}

BhTypeOK ==
  /\ tpc \in Locations /\ running \in BOOLEAN /\ expired \in BOOLEAN
  /\ wakeup \in BOOLEAN /\ shouldSuspend \in BOOLEAN /\ suspened \in BOOLEAN
  /\ shouldStop \in BOOLEAN /\ suspended \in Nat
  /\ gaveup \in BOOLEAN /\ astray \in BOOLEAN
  /\ kstop \in BOOLEAN /\ thread \in BOOLEAN
  /\ work \in 0 .. MaxWork /\ brought \in 0 .. MaxWork
  /\ ppc \in [Producers -> {"idle", "queued", "waking"}]
  /\ mpc \in {"up", "suspending", "waking", "waiting", "suspended", "resuming",
              "resumewake", "deinit", "unlinked", "stopping", "removed"}
  /\ suspends \in 0 .. MaxSuspends

\* When atbm_kthread_try_suspend has returned and until the resume, the thread
\* is inside atbm_kthread_into_suspend and does not use the bus, whoever wakes
\* it.  The result 0 of atbm_bh_suspend promises that to atbm_suspend; "set
\* timeout is safe" (apollo_sdio.c).
SuspendedMeansParked ==
  mpc = "suspended" => tpc \in {"parking", "parked?", "tell", "parkstop", "parked"}

\* It is so, however often the machine suspends and whoever wakes the thread
\* meanwhile, until a suspend gives up, or a resume overtakes a thread that was
\* woken in atbm_kthread_into_suspend and tells again that it is suspended: then
\* the completion and the bit it leaves behind answer the next suspend.
SuspendKept == ~gaveup /\ ~astray => SuspendedMeansParked

\* No work is forgotten: what is queued is done, unless the machine suspends or
\* the driver goes away.  A wakeup that falls between the test of THREAD_WAKEUP
\* and the second set_current_state is lost; the timeout of the sleep makes up
\* for it.  A thread that went on to sleep in atbm_kthread_into_suspend after such
\* a suspend or resume (SuspendKept) has no timeout.
WorkServed ==
  work > 0 /\ mpc = "up" ~> work = 0 \/ mpc # "up" \/ gaveup \/ astray

\* kthread_stop returns, wherever the thread sleeps: before it first ran, in
\* wait_action or in into_suspend.
StopEnds == mpc = "deinit" ~> mpc = "removed"

\* A suspend that may not give up ends because the thread completes it.
SuspendEnds == mpc = "suspending" ~> mpc = "suspended"
=============================================================================

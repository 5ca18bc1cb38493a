--------------------------- MODULE MCThreads_proofs --------------------------
(***************************************************************************)
(* Proofs about the threads of the bus, for every set of producers, every   *)
(* amount of work, every number of buffers and every width of the counters: *)
(* the thread that is suspended and stopped (BhThread), the end of sdio_tx  *)
(* (TxStop), and what MCThreads puts together of them.                      *)
(*                                                                          *)
(* A suspend leaves the thread parked, whatever was suspended and resumed   *)
(* before: while none gave up and the thread told nobody in vain, no bit    *)
(* and no completion is left when the next one asks; from then on           *)
(* should_suspend stays set and nobody stops the thread, so it cannot leave *)
(* the places of atbm_kthread_into_suspend once it is in them, and completes*)
(* `suspended` only there (Suspending).                                     *)
(***************************************************************************)
EXTENDS MCThreads, TxCredit_proofs

Park == {"parking", "parked?", "tell", "parkstop", "parked"}

FlagTypes ==
  /\ running \in BOOLEAN /\ expired \in BOOLEAN /\ wakeup \in BOOLEAN
  /\ shouldSuspend \in BOOLEAN /\ suspened \in BOOLEAN /\ shouldStop \in BOOLEAN
  /\ kstop \in BOOLEAN /\ thread \in BOOLEAN
  /\ gaveup \in BOOLEAN /\ astray \in BOOLEAN

OtherTypes ==
  /\ tpc \in Locations /\ suspended \in Nat
  /\ work \in 0 .. MaxWork /\ brought \in 0 .. MaxWork
  /\ ppc \in [Producers -> {"idle", "queued", "waking"}]
  /\ mpc \in {"up", "suspending", "waking", "waiting", "suspended", "resuming",
              "resumewake", "deinit", "unlinked", "stopping", "removed"}
  /\ suspends \in 0 .. MaxSuspends

LEMMA TypesSplit == BhTypeOK <=> FlagTypes /\ OtherTypes
  BY DEF BhTypeOK, FlagTypes, OtherTypes

BhInv == BhTypeOK /\ work <= brought

-----------------------------------------------------------------------------

LEMMA Told ==
  ASSUME SetSuspened
  PROVE  suspened' \in BOOLEAN /\ astray' \in BOOLEAN /\ gaveup' = gaveup
BY Zenon DEF SetSuspened

LEMMA BhFlagsStep == ASSUME FlagTypes, [BhNext]_bhVars PROVE FlagTypes'
<1> USE DEF FlagTypes, threadVars, flagVars, mgrVars, toldVars, WakeUpProcess
<1>1. CASE ThreadStep
  <2>1. CASE ShouldStop
    <3>1. CASE UNCHANGED <<suspened, toldVars>>
      BY <2>1, <3>1, Zenon DEF ShouldStop, LoopStop, SleepStop
    <3>2. CASE SetSuspened
      BY <2>1, <3>2, Told, Zenon DEF ShouldStop, LoopStop, SleepStop
    <3> QED BY <2>1, <3>1, <3>2, Zenon DEF ShouldStop, LoopStop, SleepStop
  <2>2. CASE Start \/ Wake \/ TestWakeup \/ TestSuspend
    BY <2>2, Zenon DEF Start, Wake, TestWakeup, TestSuspend
  <2>4. CASE SetInterruptible \/ Woken \/ Work \/ BhExit
    BY <2>4, Zenon DEF SetInterruptible, Woken, Work, BhExit
  <2>3. CASE SuspendLoop \/ TellSuspened \/ ParkedStop \/ Unpark \/ LeaveSuspend
    BY <2>3, Told, Zenon DEF SuspendLoop, TellSuspened, ParkedStop, Unpark, LeaveSuspend
  <2> QED BY <1>1, <2>1, <2>2, <2>3, <2>4, Zenon DEF ThreadStep
<1>2. CASE Expire
  BY <1>2, Zenon DEF Expire
<1>3. ASSUME NEW p \in Producers, Produce(p) \/ SetWakeup(p) \/ WakeThread(p) PROVE FlagTypes'
  BY <1>3, Zenon DEF Produce, SetWakeup, WakeThread
<1>4. CASE TrySuspend \/ SuspendStep \/ SuspendGivesUp
  BY <1>4, Zenon
  DEF TrySuspend, SuspendStep, SuspendAsks, SuspendWakes, SuspendWaits, SuspendGivesUp
<1>5. CASE Resume \/ ResumeStep
  BY <1>5, Zenon DEF Resume, ResumeStep, ResumeClears, ResumeWakes
<1>6. CASE Deinit \/ StopStep
  BY <1>6, Zenon DEF Deinit, StopStep, DeinitUnlinks, KthreadStop, KthreadStopped
<1>7. CASE Finished \/ UNCHANGED bhVars
  BY <1>7, Zenon DEF Finished, bhVars
<1> QED BY <1>1, <1>2, <1>3, <1>4, <1>5, <1>6, <1>7, Zenon DEF BhNext

\* What of the state is not a flag, in each group of actions.
LEMMA BhOthersStep ==
  ASSUME OtherTypes, work <= brought, [BhNext]_bhVars PROVE OtherTypes' /\ work' <= brought'
<1> USE BhThreadAssumption DEF OtherTypes, Locations, threadVars, bhWorkVars, mgrVars, toldVars, Goto
<1>1. CASE ThreadStep
  <2>1. CASE ShouldStop
    BY <2>1 DEF ShouldStop, LoopStop, SleepStop, SetSuspened, Completions
  <2>2. CASE Start \/ Wake \/ TestWakeup \/ SetInterruptible \/ Woken \/ BhExit
    BY <2>2 DEF Start, Wake, TestWakeup, SetInterruptible, Woken, BhExit
  <2>3. CASE TestSuspend
    <3>1. tpc' \in {"parking", "wake", "sleepy"}
      BY <2>3, Zenon DEF TestSuspend
    <3> QED BY <2>3, <3>1 DEF TestSuspend
  <2>4. CASE Work
    BY <2>4 DEF Work
  <2>5. CASE SuspendLoop \/ ParkedStop \/ Unpark \/ LeaveSuspend
    BY <2>5 DEF SuspendLoop, ParkedStop, Unpark, AfterSchedule, LeaveSuspend
  <2>6. CASE TellSuspened
    BY <2>6 DEF TellSuspened, SetSuspened, Completions
  <2> QED BY <1>1, <2>1, <2>2, <2>3, <2>4, <2>5, <2>6 DEF ThreadStep
<1>2. CASE Expire
  BY <1>2 DEF Expire
<1>3. ASSUME NEW p \in Producers, Produce(p) \/ SetWakeup(p) \/ WakeThread(p)
      PROVE OtherTypes' /\ work' <= brought'
  BY <1>3 DEF Produce, SetWakeup, WakeThread
<1>4. CASE TrySuspend \/ SuspendStep \/ SuspendGivesUp
  BY <1>4 DEF TrySuspend, SuspendStep, SuspendAsks, SuspendWakes, SuspendWaits, SuspendGivesUp
<1>5. CASE Resume \/ ResumeStep
  BY <1>5 DEF Resume, ResumeStep, ResumeClears, ResumeWakes
<1>6. CASE Deinit \/ StopStep
  BY <1>6 DEF Deinit, StopStep, DeinitUnlinks, KthreadStop, KthreadStopped
<1>7. CASE Finished \/ UNCHANGED bhVars
  BY <1>7 DEF Finished, bhVars
<1> QED BY <1>1, <1>2, <1>3, <1>4, <1>5, <1>6, <1>7 DEF BhNext

THEOREM BhInvariant == BhSpec => []BhInv
<1>1. BhInit => BhInv
  <2> SUFFICES ASSUME BhInit PROVE BhInv
    OBVIOUS
  <2>1. FlagTypes
    BY Zenon DEF BhInit, FlagTypes
  <2>2. OtherTypes /\ work <= brought
    BY BhThreadAssumption DEF BhInit, OtherTypes, Locations
  <2> QED BY <2>1, <2>2, TypesSplit DEF BhInv
<1>2. BhInv /\ [BhNext]_bhVars => BhInv'
  <2> SUFFICES ASSUME BhInv, [BhNext]_bhVars PROVE BhInv'
    OBVIOUS
  <2>1. FlagTypes' /\ OtherTypes' /\ work' <= brought'
    BY BhFlagsStep, BhOthersStep, TypesSplit DEF BhInv
  <2> QED BY <2>1 DEF BhInv, BhTypeOK, FlagTypes, OtherTypes
<1> QED BY <1>1, <1>2, PTL DEF BhSpec

\* Type correctness of a bus thread: its places and its flags, no work is taken
\* that was not queued, and completions are counted.
THEOREM BhTyped == BhSpec => []BhTypeOK
<1>1. BhInv => BhTypeOK
  BY DEF BhInv
<1> QED BY <1>1, BhInvariant, PTL

-----------------------------------------------------------------------------

\* The progress of a suspend and of the resume after it, while none gave up.
Suspending ==
  /\ kstop => mpc \in {"stopping", "removed"}
  /\ ~gaveup /\ ~astray =>
       /\ mpc \in {"up", "suspending", "resumewake"} => ~suspened
       /\ mpc \in {"up", "suspending", "suspended", "resuming", "resumewake"} => suspended = 0
       /\ mpc \in {"waking", "waiting"} =>
            /\ shouldSuspend
            /\ \/ suspended = 0 /\ ~suspened
               \/ suspended = 1 /\ suspened /\ tpc \in Park
       /\ mpc = "suspended" => shouldSuspend /\ suspened /\ tpc \in Park

\* A step of the thread, before, during and after the suspend.
LEMMA ThreadKeeps ==
  ASSUME OtherTypes, Suspending, ThreadStep \/ Expire PROVE Suspending'
<1> USE DEF OtherTypes, Suspending, Park, mgrVars, toldVars, Goto
<1>1. CASE ShouldStop
  BY <1>1 DEF ShouldStop, LoopStop, SleepStop, SetSuspened, flagVars
<1>2. CASE Start \/ Wake \/ TestWakeup \/ SetInterruptible \/ Woken \/ Work \/ BhExit \/ Expire
  BY <1>2 DEF Start, Wake, TestWakeup, SetInterruptible, Woken, Work, BhExit, Expire, flagVars
<1>3. CASE TestSuspend
  <2>1. /\ tpc = "suspend?" /\ tpc' \in {"parking", "wake", "sleepy"}
        /\ UNCHANGED <<flagVars, toldVars, mgrVars>>
    BY <1>3, Zenon DEF TestSuspend
  <2> QED BY <2>1 DEF flagVars
<1>4. CASE SuspendLoop \/ Unpark \/ LeaveSuspend
  BY <1>4 DEF SuspendLoop, Unpark, AfterSchedule, LeaveSuspend, flagVars
<1>5. CASE TellSuspened
  <2>1. tpc \in Park /\ tpc' \in Park
        /\ (gaveup => gaveup') /\ (shouldSuspend => shouldSuspend')
        /\ mpc' = mpc /\ (kstop' => kstop)
    BY <1>5 DEF TellSuspened, SetSuspened
  <2>2. CASE suspened
    <3>1. suspened' /\ suspended' = suspended /\ (astray => astray')
      BY <1>5, <2>2, Zenon DEF TellSuspened, SetSuspened
    <3> QED BY <2>1, <2>2, <3>1
  <2>3. CASE ~suspened /\ mpc \notin {"waking", "waiting"}
    <3>1. astray'
      BY <1>5, <2>3, Zenon DEF TellSuspened, SetSuspened
    <3> QED BY <2>1, <3>1
  <2>4. CASE ~suspened /\ mpc \in {"waking", "waiting"}
    <3>1. suspened' /\ suspended' = suspended + 1 /\ (astray => astray')
      BY <1>5, <2>4, Zenon DEF TellSuspened, SetSuspened, Completions
    <3> QED BY <2>1, <2>4, <3>1
  <2> QED BY <2>2, <2>3, <2>4
<1>6. CASE ParkedStop
  <2>1. CASE kstop
    BY <1>6, <2>1 DEF ParkedStop, StopSeenParked
  <2>2. CASE ~kstop
    BY <1>6, <2>2 DEF ParkedStop, StopSeenParked
  <2> QED BY <2>1, <2>2
<1> QED BY <1>1, <1>2, <1>3, <1>4, <1>5, <1>6 DEF ThreadStep

\* A step of anybody else.
LEMMA OthersKeep ==
  ASSUME OtherTypes, Suspending, [BhNext]_bhVars, ~(ThreadStep \/ Expire)
  PROVE  Suspending'
<1> USE DEF OtherTypes, Suspending, threadVars, flagVars, mgrVars, toldVars
<1>1. ASSUME NEW p \in Producers, Produce(p) \/ SetWakeup(p) \/ WakeThread(p)
      PROVE Suspending'
  BY <1>1 DEF Produce, SetWakeup, WakeThread
<1>2. CASE TrySuspend
  BY <1>2 DEF TrySuspend
<1>3. CASE SuspendAsks \/ SuspendWakes
  <2>1. CASE SuspendAsks
    BY <2>1 DEF SuspendAsks
  <2>2. CASE SuspendWakes
    BY <2>2 DEF SuspendWakes
  <2> QED BY <1>3, <2>1, <2>2
<1>4. CASE SuspendWaits \/ SuspendGivesUp
  BY <1>4 DEF SuspendWaits, SuspendGivesUp
<1>5. CASE Resume \/ ResumeStep
  BY <1>5 DEF Resume, ResumeStep, ResumeClears, ResumeWakes
<1>6. CASE Deinit \/ StopStep
  BY <1>6 DEF Deinit, StopStep, DeinitUnlinks, KthreadStop, KthreadStopped
<1>7. CASE Finished \/ UNCHANGED bhVars
  BY <1>7 DEF Finished, bhVars
<1> QED BY <1>1, <1>2, <1>3, <1>4, <1>5, <1>6, <1>7 DEF BhNext, SuspendStep

\* SuspendKept: a suspend returns with the thread parked, and it stays parked until
\* the resume, however often the machine suspends, until one gives up waiting or
\* the thread completes `suspended` when nobody waits (atbm_kthread_try_suspend,
\* atbm_kthread_into_suspend).
THEOREM EverySuspendParks == BhSpec => []SuspendKept
<1>1. BhInit => Suspending
  BY DEF BhInit, Suspending, Park
<1>2. BhInv /\ Suspending /\ [BhNext]_bhVars => Suspending'
  BY ThreadKeeps, OthersKeep, TypesSplit DEF BhInv
<1>3. Suspending => SuspendKept
  BY DEF Suspending, SuspendKept, SuspendedMeansParked, Park
<1> QED BY <1>1, <1>2, <1>3, BhInvariant, PTL DEF BhSpec

-----------------------------------------------------------------------------
(* The release of the driver (TxStop).  Every step of it is one of TxCredit *)
(* or leaves its variables, but for the end of the thread, which gives up   *)
(* the command in the slot.                                                 *)

\* What TxStop does to the variables of TxCredit.
LEMMA StopIsCredit == [StopNext]_allVars => [Next]_vars \/ Exit
<1> SUFFICES ASSUME [StopNext]_allVars PROVE [Next]_vars \/ Exit
  OBVIOUS
<1>1. CASE Remove
  BY <1>1 DEF Remove, Next
<1>2. CASE Unsubscribe \/ StopThread \/ Stopped
  BY <1>2 DEF Unsubscribe, StopThread, Stopped
<1>3. CASE Transmit \/ Send \/ Receive \/ Others
  BY <1>3 DEF Transmit, Send, Receive, Others, Next
<1>4. CASE UNCHANGED allVars
  BY <1>4 DEF allVars
<1> QED BY <1>1, <1>2, <1>3, <1>4 DEF StopNext

LEMMA ExitKeeps == ASSUME IInv, LastReport, Exit PROVE IInv' /\ LastReport'
<1>1. cmd' = FALSE
      /\ UNCHANGED <<txVars, hw_xmits, queued, early, devVars, events, lost, vif, missed,
                     undone, bug>>
  BY DEF Exit
<1>2. TypeOK'
  BY <1>1 DEF IInv, TypeOK, txVars, devVars
<1>3. PcInv'
  BY <1>1 DEF IInv, PcInv, Dist, txVars
<1>4. LastReport'
  BY <1>1 DEF LastReport, txVars, devVars
<1> QED BY <1>1, <1>2, <1>3, <1>4, FrameInv DEF txVars, devVars

LEMMA StopKeeps ==
  ASSUME IInv, LastReport, [StopNext]_allVars PROVE IInv' /\ LastReport'
BY StopIsCredit, ExitKeeps, NextInv, LastReportStep

-----------------------------------------------------------------------------
(* The composition.                                                        *)

\* ThreadsSafe: every variable stays in its range, and the report sdio_tx waits for
\* is not forgotten, also while the driver is released, unless it was ignored or the
\* store of line 281 undid it.
THEOREM ThreadsAreSafe == AllSpec => []ThreadsSafe
<1>1. [AllNext]_<<bhVars, allVars, part>> => [BhNext]_bhVars /\ [StopNext]_allVars
  BY DEF AllNext
<1>2. AllInit => BhInit /\ IInv /\ LastReport
  BY InitInv, InitReport DEF AllInit, StopInit
<1>3. IInv /\ LastReport /\ [StopNext]_allVars => (IInv /\ LastReport)'
  BY StopKeeps
<1>4. AllSpec => [](IInv /\ LastReport)
  BY <1>1, <1>2, <1>3, PTL DEF AllSpec
<1>5. AllSpec => []BhTypeOK
  BY <1>1, <1>2, BhTyped, PTL DEF AllSpec, BhSpec
<1>6. IInv /\ LastReport /\ BhTypeOK => ThreadsSafe
  BY LastReportMeans DEF ThreadsSafe, IInv
<1> QED BY <1>4, <1>5, <1>6, PTL
=============================================================================

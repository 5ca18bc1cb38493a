------------------------------- MODULE ScanPoll -----------------------------
(***************************************************************************)
(* A scan asked for through the character device (atbm_ioctl.c): the task    *)
(* in atbm_wsm_set_scan sends the command, scan_complete_check, a timer,     *)
(* queues scan_complete_work every 500 ms, and the work asks the firmware    *)
(* for its state until the scan is over and the program is told by SIGIO.    *)
(* None of the three takes a lock.                                          *)
(*                                                                          *)
(* A scan of the firmware ends at some time, and a command may fail.         *)
(***************************************************************************)
EXTENDS Naturals

CONSTANTS
  Whens,        \* the values of when to look at
  MaxScans,     \* bound: scans that begin
  MaxScanFails  \* bound: commands that fail

ASSUME ScanPollAssumption ==
  Whens \subseteq {"settled", "told", "any"} /\ {MaxScans, MaxScanFails} \subseteq Nat

VARIABLES
  when,         \* the program scans: "settled", when the work and the timer rest,
                \* "told", as soon as it was told, or "any", at any moment
  scan_state,   \* timer_info.scan_state.scan_state
  scan_ok,      \* timer_info.scan_ok
  scanTimer,    \* the timer is armed
  scanQueued,   \* the work is queued
  scanPc,       \* the task in atbm_wsm_set_scan
  tpc,          \* scan_complete_check
  scanWpc,      \* scan_complete_work
  scanning,     \* the firmware scans
  told,         \* the program was told since it last began a scan
  scans, scanFails

scanInfoVars == <<scan_state, scan_ok, scanTimer, scanQueued>>
placeVars == <<scanPc, tpc, scanWpc>>
countVars == <<when, scans, scanFails>>
scanVars == <<scanInfoVars, placeVars, scanning, told, countVars>>

ScanInit ==
  /\ when \in Whens
  /\ scan_state = FALSE /\ scan_ok = FALSE /\ scanTimer = FALSE /\ scanQueued = FALSE
  /\ scanPc = "idle" /\ tpc = "idle" /\ scanWpc = "idle"
  /\ scanning = FALSE /\ told = TRUE /\ scans = 0 /\ scanFails = 0

Task(from, to) == scanPc = from /\ scanPc' = to /\ UNCHANGED <<tpc, scanWpc>>
ScanTimer(from, to) == tpc = from /\ tpc' = to /\ UNCHANGED <<scanPc, scanWpc>>
ScanWork(from, to) == scanWpc = from /\ scanWpc' = to /\ UNCHANGED <<scanPc, tpc>>

Settled == ~scanTimer /\ ~scanQueued /\ tpc = "idle" /\ scanWpc = "idle"

MayScan ==
  \/ when = "any"
  \/ told /\ (when = "settled" => Settled)

CommandFails == scanFails < MaxScanFails /\ scanFails' = scanFails + 1

-----------------------------------------------------------------------------
(* atbm_wsm_set_scan                                                       *)

\* "if (!timer_info.scan_state.scan_state)"
Free == ~scan_state

SetScan ==
  /\ scans < MaxScans /\ MayScan /\ Free
  /\ Task("idle", "send") /\ scans' = scans + 1
  /\ UNCHANGED <<scanInfoVars, scanning, told, when, scanFails>>

ScanSend ==
  /\ \/ Task("send", "mark") /\ scanning' = TRUE /\ told' = FALSE /\ UNCHANGED scanFails
     \/ CommandFails /\ Task("send", "idle") /\ UNCHANGED <<scanning, told>>
  /\ UNCHANGED <<scanInfoVars, when, scans>>

Mark ==
  /\ Task("mark", "arm") /\ scan_state' = TRUE /\ scan_ok' = FALSE
  /\ UNCHANGED <<scanTimer, scanQueued, scanning, told, countVars>>

\* atbm_mod_timer(&timer_info.timer, jiffies)
ScanArm ==
  /\ Task("arm", "idle") /\ scanTimer' = TRUE
  /\ UNCHANGED <<scan_state, scan_ok, scanQueued, scanning, told, countVars>>

-----------------------------------------------------------------------------
(* scan_complete_check                                                     *)

ScanExpire ==
  /\ scanTimer /\ scanTimer' = FALSE
  /\ IF scan_state THEN ScanTimer("idle", "poll") ELSE ScanTimer("idle", "over")
  /\ UNCHANGED <<scan_state, scan_ok, scanQueued, scanning, told, countVars>>

Over ==
  /\ ScanTimer("over", "idle") /\ scan_ok' = TRUE /\ scanQueued' = TRUE
  /\ UNCHANGED <<scan_state, scanTimer, scanning, told, countVars>>

ScanRearmed == TRUE

Poll ==
  /\ ScanTimer("poll", "idle") /\ scanQueued' = TRUE /\ scanTimer' = ScanRearmed
  /\ UNCHANGED <<scan_state, scan_ok, scanning, told, countVars>>

-----------------------------------------------------------------------------
(* scan_complete_work                                                      *)

ScanBeginWork ==
  /\ scanQueued /\ scanQueued' = FALSE
  /\ IF scan_ok THEN ScanWork("idle", "tell") ELSE ScanWork("idle", "ask")
  /\ UNCHANGED <<scan_state, scan_ok, scanTimer, scanning, told, countVars>>

\* Mutant of Answer: the scan is over when a command fails.
AnswerOver == FALSE

\* A failed command leaves the state as it is.
Answer == scan_state

\* wsm_get_scan_state writes the answer into timer_info.
Ask ==
  /\ ScanWork("ask", "idle")
  /\ \/ scan_state' = scanning /\ UNCHANGED scanFails
     \/ CommandFails /\ scan_state' = Answer
  /\ UNCHANGED <<scan_ok, scanTimer, scanQueued, scanning, told, when, scans>>

\* status.type = 2, kill_fasync
Tell ==
  /\ ScanWork("tell", "clear") /\ told' = TRUE
  /\ UNCHANGED <<scanInfoVars, scanning, countVars>>

Clear ==
  /\ ScanWork("clear", "idle") /\ scan_state' = FALSE
  /\ UNCHANGED <<scan_ok, scanTimer, scanQueued, scanning, told, countVars>>

-----------------------------------------------------------------------------

ScanEnds ==
  /\ scanning /\ scanning' = FALSE
  /\ UNCHANGED <<scanInfoVars, placeVars, told, countVars>>

TaskStep == ScanSend \/ Mark \/ ScanArm
ScanTimerStep == ScanExpire \/ Over \/ Poll
ScanWorkStep == ScanBeginWork \/ Ask \/ Tell \/ Clear

ScanNext == SetScan \/ TaskStep \/ ScanTimerStep \/ ScanWorkStep \/ ScanEnds

ScanSpec == ScanInit /\ [][ScanNext]_scanVars

\* The task, the timer and the work go on; a scan ends.
ScanFairness ==
  /\ WF_scanVars(TaskStep) /\ WF_scanVars(ScanTimerStep)
  /\ WF_scanVars(ScanWorkStep) /\ WF_scanVars(ScanEnds)

-----------------------------------------------------------------------------
(* Properties.                                                             *)

\* While a scan is not over, somebody will ask about it: the task that starts
\* the timer, the timer, its callback or the work (scan_complete_check), if the
\* program waits until they rest before it scans again.
Watched ==
  scanning /\ when = "settled" =>
    \/ scanPc \in {"mark", "arm"} \/ scanTimer \/ tpc # "idle"
    \/ scan_ok /\ (scanQueued \/ scanWpc = "tell")

\* "2:scan complete" (atbm_ioctl.c:29): the program is told of a scan that is
\* over.  One that scans again as soon as it is told may be told by what is left
\* of the scan before.
ToldWhenOver ==
  [][scanWpc = "tell" /\ scanWpc' = "clear" /\ when = "settled" => ~scanning]_scanVars

\* Whoever began a scan is told (scan_complete_work).
ScanTold == []<>told
=============================================================================

------------------------------ MODULE CheckAlive ----------------------------
(***************************************************************************)
(* The watch over the firmware (atbm_ioctl.c): every period the timer's      *)
(* sdio_alive_check_cb counts up and queues check_alive_work, which sends a  *)
(* command and sets the count to 0 when it is answered; tmo_cnt periods      *)
(* without an answer are reported.  A program begins it                     *)
(* (atbm_wsm_start_check_alive), again with another limit as it likes, and  *)
(* ends it by atbm_wsm_fw_sleep.  Nothing takes a lock: the callback of the  *)
(* timer, the work and the program have their steps in any order.           *)
(*                                                                          *)
(* The firmware may stop for good; before, a few commands may time out.     *)
(***************************************************************************)
EXTENDS Naturals

CONSTANTS
  Limits,    \* the values of tmo_cnt in the requests
  MaxCalls,  \* bound: calls of the program
  MaxFails   \* bound: commands that time out although the firmware is alive

ASSUME CheckAliveAssumption ==
  /\ Limits \subseteq Nat \ {0, 1} /\ Limits # {}
  /\ {MaxCalls, MaxFails} \subseteq Nat

VARIABLES
  tmo_cnt, cur_cnt, in_check, is_start, \* of check_alive_info
  is_first,   \* the static variable of atbm_wsm_start_check_alive
  timer,      \* the timer is armed
  queue,      \* the work queue: "none", "made" or "destroyed"
  queued,     \* the work is queued
  pc, want,   \* the program's call, and the limit it asks for
  cpc, seen,  \* sdio_alive_check_cb, and the count that it read
  wpc,        \* check_alive_work
  alive,      \* the firmware answers
  silent,     \* callbacks since the count was last set to 0
  over,       \* "check alive fail over" was printed, since the watch last began
  calls, fails,
  crashed,    \* the machine stopped over a work queue that was destroyed
  raced,      \* the last 0 came between the read and the write of a "cur_cnt++"
  overlap,    \* the timer was deleted for a sleep while its callback ran
  again       \* the watch began again after the work queue was destroyed

infoVars == <<tmo_cnt, cur_cnt, in_check, is_start, is_first>>
timeVars == <<timer, cpc, seen>>
workVars == <<queue, queued, wpc>>
askVars == <<want, overlap, again>>
callVars == <<pc, askVars, calls>>
ghostVars == <<silent, over, raced>>
vars == <<infoVars, timeVars, workVars, callVars, ghostVars, alive, fails, crashed>>

Init ==
  /\ tmo_cnt = 0 /\ cur_cnt = 0 /\ in_check = FALSE /\ is_start = FALSE /\ is_first = TRUE
  /\ timer = FALSE /\ cpc = "idle" /\ seen = 0
  /\ queue = "none" /\ queued = FALSE /\ wpc = "idle"
  /\ pc = "idle" /\ want \in Limits /\ calls = 0
  /\ silent = 0 /\ over = FALSE /\ alive = TRUE /\ fails = 0
  /\ crashed = FALSE /\ raced = FALSE /\ overlap = FALSE /\ again = FALSE

Goto(from, to) == ~crashed /\ pc = from /\ pc' = to
Timer(from, to) == ~crashed /\ cpc = from /\ cpc' = to
Work(from, to) == ~crashed /\ wpc = from /\ wpc' = to

\* What the kernel does with a work queue that was freed is not defined: it
\* stops, or nothing happens.
UsesQueue == crashed' \in (IF queue = "destroyed" THEN BOOLEAN ELSE {FALSE})

\* wsm_check_alive, wsm_fw_sleep
Answered == alive /\ UNCHANGED fails
Fails == IF alive THEN fails < MaxFails /\ fails' = fails + 1 ELSE UNCHANGED fails

-----------------------------------------------------------------------------
(* atbm_wsm_start_check_alive                                              *)

Start ==
  /\ calls < MaxCalls
  /\ Goto("idle", "request") /\ calls' = calls + 1 /\ want' \in Limits
  /\ timer' = (timer /\ ~(~is_first /\ is_start))
  /\ UNCHANGED <<infoVars, cpc, seen, workVars, overlap, again, ghostVars, alive, fails, crashed>>

\* Mutant of Rearmed: a command that fails leaves the timer stopped.
RearmedNot == timer

\* A command that failed: the watch goes on as it was.
Rearmed == timer \/ is_start

Refused ==
  /\ Goto("request", "idle") /\ Fails
  /\ timer' = Rearmed
  /\ UNCHANGED <<infoVars, cpc, seen, workVars, askVars, calls, ghostVars, alive, crashed>>

Accepted ==
  /\ Goto("request", "limit") /\ Answered
  /\ is_first' = FALSE /\ again' = (again \/ queue = "destroyed")
  /\ IF is_first
     THEN queue' = "made" /\ in_check' = FALSE
     ELSE UNCHANGED <<queue, in_check>>
  /\ UNCHANGED <<tmo_cnt, cur_cnt, is_start, timeVars, queued, wpc, want, overlap, calls,
                 ghostVars, alive, crashed>>

SetLimit ==
  /\ Goto("limit", "count") /\ tmo_cnt' = want
  /\ UNCHANGED <<cur_cnt, in_check, is_start, is_first, timeVars, workVars, askVars, calls,
                 ghostVars, alive, fails, crashed>>

\* Mutant of Zero: the count is kept from the last watch.
ZeroNot == cur_cnt

Zero == 0

SetCount ==
  /\ Goto("count", "arm") /\ cur_cnt' = Zero /\ is_start' = TRUE
  /\ silent' = 0 /\ over' = FALSE /\ raced' = (cpc = "count")
  /\ UNCHANGED <<tmo_cnt, in_check, is_first, timeVars, workVars, askVars, calls, alive,
                 fails, crashed>>

Arm ==
  /\ Goto("arm", "idle") /\ timer' = TRUE
  /\ UNCHANGED <<infoVars, cpc, seen, workVars, askVars, calls, ghostVars, alive, fails, crashed>>

-----------------------------------------------------------------------------
(* atbm_wsm_fw_sleep                                                       *)

\* Mutant of StopTimer: the timer goes on while the firmware is put to sleep.
StopTimerNot == FALSE

\* atbm_del_timer does not wait for a callback that runs.
StopTimer == is_start

Sleep ==
  /\ calls < MaxCalls
  /\ Goto("idle", "sleep") /\ calls' = calls + 1
  /\ timer' = (timer /\ ~StopTimer)
  /\ overlap' = IF StopTimer THEN cpc # "idle" ELSE overlap
  /\ UNCHANGED <<infoVars, cpc, seen, workVars, want, again, ghostVars, alive, fails, crashed>>

SleepFails ==
  /\ Goto("sleep", "idle") /\ Fails
  /\ timer' = Rearmed
  /\ UNCHANGED <<infoVars, cpc, seen, workVars, askVars, calls, ghostVars, alive, crashed>>

Asleep ==
  /\ Answered
  /\ IF is_start THEN Goto("sleep", "destroy") ELSE Goto("sleep", "idle")
  /\ UNCHANGED <<infoVars, timeVars, workVars, askVars, calls, ghostVars, alive, crashed>>

\* destroy_workqueue waits for what was queued.
Destroy ==
  /\ ~queued /\ wpc = "idle"
  /\ Goto("destroy", "stopped") /\ UsesQueue /\ queue' = "destroyed"
  /\ UNCHANGED <<infoVars, timeVars, queued, wpc, askVars, calls, ghostVars, alive, fails>>

Stopped ==
  /\ Goto("stopped", "idle") /\ is_start' = FALSE
  /\ UNCHANGED <<tmo_cnt, cur_cnt, in_check, is_first, timeVars, workVars, askVars, calls,
                 ghostVars, alive, fails, crashed>>

-----------------------------------------------------------------------------
(* sdio_alive_check_cb; "cur_cnt++" is a read and a write                  *)

Expire ==
  /\ timer /\ timer' = FALSE
  /\ Timer("idle", "count") /\ seen' = cur_cnt
  /\ silent' = silent + 1
  /\ UNCHANGED <<infoVars, workVars, callVars, over, raced, alive, fails, crashed>>

Count ==
  /\ Timer("count", "compare") /\ cur_cnt' = seen + 1
  /\ UNCHANGED <<tmo_cnt, in_check, is_start, is_first, timer, seen, workVars, callVars,
                 ghostVars, alive, fails, crashed>>

Report ==
  /\ cur_cnt >= tmo_cnt
  /\ Timer("compare", "idle") /\ over' = TRUE
  /\ UNCHANGED <<infoVars, timer, seen, workVars, callVars, silent, raced, alive, fails, crashed>>

GoesOn ==
  /\ cur_cnt < tmo_cnt
  /\ Timer("compare", "rearm")
  /\ IF in_check THEN UNCHANGED <<queued, crashed>>
     ELSE UsesQueue /\ queued' = (queued \/ queue # "destroyed")
  /\ UNCHANGED <<infoVars, timer, seen, queue, wpc, callVars, ghostVars, alive, fails>>

Rearm ==
  /\ Timer("rearm", "idle") /\ timer' = TRUE
  /\ UNCHANGED <<infoVars, seen, workVars, callVars, ghostVars, alive, fails, crashed>>

-----------------------------------------------------------------------------
(* check_alive_work                                                        *)

BeginWork ==
  /\ queued /\ queued' = FALSE /\ Work("idle", "send") /\ in_check' = TRUE
  /\ UNCHANGED <<tmo_cnt, cur_cnt, is_start, is_first, timeVars, queue, callVars, ghostVars,
                 alive, fails, crashed>>

Send ==
  /\ \/ Answered /\ Work("send", "reset")
     \/ Fails /\ Work("send", "done")
  /\ UNCHANGED <<infoVars, timeVars, queue, queued, callVars, ghostVars, alive, crashed>>

Reset ==
  /\ Work("reset", "done") /\ cur_cnt' = 0
  /\ silent' = 0 /\ raced' = (cpc = "count")
  /\ UNCHANGED <<tmo_cnt, in_check, is_start, is_first, timeVars, queue, queued, callVars,
                 over, alive, fails, crashed>>

EndWork ==
  /\ Work("done", "idle") /\ in_check' = FALSE
  /\ UNCHANGED <<tmo_cnt, cur_cnt, is_start, is_first, timeVars, queue, queued, callVars,
                 ghostVars, alive, fails, crashed>>

-----------------------------------------------------------------------------

Die ==
  /\ alive /\ alive' = FALSE
  /\ UNCHANGED <<infoVars, timeVars, workVars, callVars, ghostVars, fails, crashed>>

CallStep ==
  \/ Refused \/ Accepted \/ SetLimit \/ SetCount \/ Arm
  \/ SleepFails \/ Asleep \/ Destroy \/ Stopped
TimerStep == Expire \/ Count \/ Report \/ GoesOn \/ Rearm
WorkStep == BeginWork \/ Send \/ Reset \/ EndWork

Next == Start \/ Sleep \/ CallStep \/ TimerStep \/ WorkStep \/ Die

Spec == Init /\ [][Next]_vars

\* A call, the timer and the work go on; a command ends, answered or not.
Fairness == WF_vars(CallStep) /\ WF_vars(TimerStep) /\ WF_vars(WorkStep)

-----------------------------------------------------------------------------

\* The variables hold values of their types, and a timer that is armed has its
\* function and its work queue (is_first, queue).
TypeOK ==
  /\ {tmo_cnt, cur_cnt, seen, silent, calls, fails} \subseteq Nat
  /\ {in_check, is_start, is_first, timer, queued, alive, over} \subseteq BOOLEAN
  /\ {crashed, raced, overlap, again} \subseteq BOOLEAN
  /\ queue \in {"none", "made", "destroyed"} /\ want \in Limits
  /\ pc \in {"idle", "request", "limit", "count", "arm", "sleep", "destroy", "stopped"}
  /\ cpc \in {"idle", "count", "compare", "rearm"}
  /\ wpc \in {"idle", "send", "reset", "done"}
  /\ (timer \/ is_start \/ queued) => queue # "none"

\* The callback never hands the work to a work queue that was destroyed, and no
\* work queue is destroyed twice: the timer was stopped before atbm_wsm_fw_sleep
\* destroys it, and destroying waits for the work.  Two orders escape: the
\* timer is deleted, without waiting, while its callback runs, which arms it
\* again; and the watch begins again after a sleep, for which is_first keeps
\* the queue from being made anew.
QueueAlive ==
  ~overlap /\ ~again => (queue = "destroyed" => ~queued /\ cpc # "compare") /\ ~crashed

\* "check alive fail over" means that the firmware left the number of periods of
\* the request in force unanswered, across requests that change the limit and
\* answers that come late, unless the write of a cur_cnt++ replaced the 0 of the
\* last answer or request.
AlarmTrue == [][Report /\ ~raced => silent >= tmo_cnt]_vars

\* A firmware that stops is reported, whatever calls fail on it meanwhile and
\* however the callback, the work and the calls fall together, unless the
\* program ended the watch, or the machine stopped over its work queue.
Detected == (~alive /\ is_start /\ pc = "idle") ~> (over \/ ~is_start \/ crashed)
=============================================================================

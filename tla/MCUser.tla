------------------------------- MODULE MCUser -------------------------------
(***************************************************************************)
(* What waits for timers and works, in one model-checking run: the watch    *)
(* over the firmware (CheckAlive), a scan (ScanPoll), the status of events  *)
(* (AsyncStatus) and the list of commands that may print (EchoList), which  *)
(* programs see, and the work queue and the timers of the RTOS port         *)
(* (RtosWork, RtosTimer).  The models share no variable: part says which of *)
(* them the behaviour is of.                                                *)
(***************************************************************************)
EXTENDS CheckAlive, ScanPoll, AsyncStatus, EchoList, RtosWork, RtosTimer

VARIABLE part

userVars == <<vars, scanVars, asyncVars, echoVars>>
rtosVars == <<rtosWorkVars, rtosTimerVars>>

\* One setting will do for the behaviours of the other parts.
One ==
  /\ part # "watch" => want = CHOOSE l \in Limits : TRUE
  /\ part # "scan" => when = CHOOSE w \in Whens : TRUE
  /\ part # "work" => commanding = CHOOSE c \in Commandings : TRUE
  /\ part # "timer" => mixed = CHOOSE m \in Mixings : TRUE

AllInit ==
  /\ part \in {"watch", "scan", "status", "echo", "work", "timer"}
  /\ Init /\ ScanInit /\ StatusInit /\ EchoInit /\ WorkInit /\ TimerInit /\ One

AllNext ==
  /\ UNCHANGED part
  /\ \/ part = "watch" /\ Next /\ UNCHANGED <<scanVars, asyncVars, echoVars, rtosVars>>
     \/ part = "scan" /\ ScanNext /\ UNCHANGED <<vars, asyncVars, echoVars, rtosVars>>
     \/ part = "status" /\ StatusNext /\ UNCHANGED <<vars, scanVars, echoVars, rtosVars>>
     \/ part = "echo" /\ EchoNext /\ UNCHANGED <<vars, scanVars, asyncVars, rtosVars>>
     \/ part = "work" /\ WorkNext /\ UNCHANGED <<userVars, rtosTimerVars>>
     \/ part = "timer" /\ TimerNext /\ UNCHANGED <<userVars, rtosWorkVars>>

\* In the initial state of a model there is nothing fairness asks for.
AllSpec ==
  /\ AllInit /\ [][AllNext]_<<userVars, rtosVars, part>>
  /\ Fairness /\ ScanFairness /\ StatusFairness /\ WorkFairness /\ TimerFairness

-----------------------------------------------------------------------------
(* Properties: the ones of a model that go together, as one.              *)

\* The models' variables stay in their ranges. Nothing is queued on a destroyed
\* work queue (QueueAlive), a scan that is not over has somebody who asks for it
\* (Watched), what the program read of the connection and of scans is true
\* (KnowsTheLink, ScansReal), and the waiting commands, their marks, their count
\* and their buffers agree (Listed, BufferKept).
UserSafe ==
  /\ TypeOK /\ QueueAlive
  /\ Watched
  /\ KnowsTheLink /\ ScansReal
  /\ EchoTypeOK /\ Listed /\ BufferKept

\* A firmware that stopped is reported (Detected), whoever began a scan is told
\* (ScanTold, ScansTold), and the list of answers keeps its limit (Limited).
UserTold == Detected /\ ScanTold /\ ScansTold /\ Limited

\* The models' variables stay in their ranges. Every work that is due is on the
\* way of the worker, who will come by (DueLinked, DueNoticed); only a timer that
\* was started is called, the hash and the RTOS agree when all is quiet, and a
\* timer that was deleted is in neither (CalledOnce, QuietAgrees,
\* DeletedUnlinked).
RtosSafe ==
  /\ WorkTypeOK /\ DueLinked /\ DueNoticed
  /\ TimerTypeOK /\ CalledOnce /\ QuietAgrees /\ DeletedUnlinked
=============================================================================

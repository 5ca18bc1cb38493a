---------------------------- MODULE MCUser_proofs ---------------------------
(***************************************************************************)
(* Proofs about what MCUser puts together, each component for every set of  *)
(* works, timers and commands, all limits and all bounds: CheckAlive,       *)
(* EchoList, ScanPoll, AsyncStatus, RtosWork and RtosTimer.  The models     *)
(* share no variable, so a behaviour of the composition is one of each      *)
(* (UserParts), and what is proved of the parts holds of it.                *)
(***************************************************************************)
EXTENDS MCUser, SequenceTheorems, FiniteSetTheorems, NaturalsInduction, WellFoundedInduction, TLAPS

-----------------------------------------------------------------------------
(* The watch over the firmware (CheckAlive).  As long as no 0 came between    *)
(* the read and the write of a callback, the count is the number of the      *)
(* callbacks (AliveCounts).  The work queue outlives its users because from  *)
(* Sleep on the timer is stopped and no callback runs (AliveRest): the two   *)
(* orders that would undo it are named in its condition.                     *)

AliveFlags ==
  {in_check, is_start, is_first, timer, queued, alive, over, crashed, raced, overlap, again}
    \subseteq BOOLEAN

\* What exists was made by the first call that was answered.
Made ==
  /\ is_first <=> queue = "none"
  /\ pc \in {"limit", "count", "arm", "destroy"} => ~is_first
  /\ is_start \/ timer \/ queued \/ cpc # "idle" => ~is_first

AliveInv == TypeOK /\ Made

\* The count of sdio_alive_check_cb, before and after its write.
AliveCounts ==
  ~raced => /\ cpc = "count" => seen = cur_cnt /\ silent = cur_cnt + 1
            /\ cpc # "count" => silent = cur_cnt

\* Nothing of the watch runs while it is put to sleep, and later; what holds in
\* any order of the steps comes first.
AliveRest ==
  /\ queue = "destroyed" => ~queued
  /\ ~again /\ queue = "destroyed" =>
       pc \in {"idle", "request", "sleep", "stopped"} /\ (is_start => pc = "stopped")
  /\ ~again /\ ~overlap =>
       /\ timer \/ cpc # "idle" \/ pc = "arm" => is_start
       /\ pc \in {"sleep", "destroy", "stopped"} => ~timer /\ cpc = "idle"
       /\ queue = "destroyed" => ~timer /\ cpc = "idle"
       /\ ~crashed

-----------------------------------------------------------------------------

\* The counts and the limit stay numbers.
LEMMA NumbersStep ==
  ASSUME AliveInv, [Next]_vars
  PROVE  ({tmo_cnt, cur_cnt, seen, silent, calls, fails} \subseteq Nat /\ want \in Limits)'
<1> USE CheckAliveAssumption DEF AliveInv, TypeOK, infoVars, timeVars, workVars, callVars, askVars, ghostVars
<1>1. CASE Start \/ Sleep \/ Die
  BY <1>1 DEF Start, Sleep, Die
<1>2. CASE CallStep
  BY <1>2 DEF CallStep, Refused, Accepted, SetLimit, SetCount, Arm, SleepFails, Asleep,
     Destroy, Stopped, Zero, Answered, Fails
<1>3. CASE TimerStep
  BY <1>3 DEF TimerStep, Expire, Count, Report, GoesOn, Rearm
<1>4. CASE WorkStep
  BY <1>4 DEF WorkStep, BeginWork, Send, Reset, EndWork, Answered, Fails
<1>5. CASE UNCHANGED vars
  BY <1>5 DEF vars
<1> QED BY <1>1, <1>2, <1>3, <1>4, <1>5 DEF Next

\* The flags stay flags.
LEMMA AliveFlagsStep == ASSUME AliveFlags, [Next]_vars PROVE AliveFlags'
<1> USE DEF AliveFlags, infoVars, timeVars, workVars, callVars, askVars, ghostVars
<1>1. CASE Start \/ Sleep \/ Die
  BY <1>1, Zenon DEF Start, Sleep, Die
<1>2. CASE CallStep
  BY <1>2, ZenonT(30) DEF CallStep, Refused, Accepted, SetLimit, SetCount, Arm, SleepFails,
     Asleep, Destroy, Stopped, Rearmed, UsesQueue
<1>3. CASE TimerStep
  BY <1>3, Zenon DEF TimerStep, Expire, Count, Report, GoesOn, Rearm, UsesQueue
<1>4. CASE WorkStep
  BY <1>4, Zenon DEF WorkStep, BeginWork, Send, Reset, EndWork
<1>5. CASE UNCHANGED vars
  BY <1>5, Zenon DEF vars
<1> QED BY <1>1, <1>2, <1>3, <1>4, <1>5, Zenon DEF Next

\* Each task keeps to its places, and what exists was made.
LEMMA MadeStep ==
  ASSUME AliveInv, [Next]_vars
  PROVE  (/\ queue \in {"none", "made", "destroyed"}
          /\ pc \in {"idle", "request", "limit", "count", "arm", "sleep", "destroy", "stopped"}
          /\ cpc \in {"idle", "count", "compare", "rearm"}
          /\ wpc \in {"idle", "send", "reset", "done"}
          /\ Made)'
<1> USE DEF AliveInv, TypeOK, Made, Goto, Timer, Work, infoVars, timeVars, workVars, callVars, askVars
<1>1. CASE Start \/ Sleep \/ Die
  BY <1>1 DEF Start, Sleep, Die
<1>2. CASE Accepted
  <2>1. CASE is_first
    BY <1>2, <2>1 DEF Accepted
  <2>2. CASE ~is_first
    BY <1>2, <2>2 DEF Accepted
  <2> QED BY <2>1, <2>2
<1>3. CASE Refused \/ SleepFails
  BY <1>3 DEF Refused, SleepFails, Rearmed
<1>4. CASE SetLimit \/ SetCount \/ Arm
  BY <1>4 DEF SetLimit, SetCount, Arm
<1>5. CASE Asleep \/ Destroy \/ Stopped
  BY <1>5 DEF Asleep, Destroy, Stopped
<1>6. CASE TimerStep
  BY <1>6 DEF TimerStep, Expire, Count, Report, GoesOn, Rearm
<1>7. CASE WorkStep
  BY <1>7 DEF WorkStep, BeginWork, Send, Reset, EndWork
<1>8. CASE UNCHANGED vars
  BY <1>8 DEF vars
<1> QED
  BY <1>1, <1>2, <1>3, <1>4, <1>5, <1>6, <1>7, <1>8 DEF Next, CallStep

\* The inductive invariant that holds on any number of processors.
THEOREM AliveInvariant == Spec => []AliveInv
<1>1. Init => AliveInv
  <2>1. Init => AliveFlags
    BY Zenon DEF Init, AliveFlags
  <2> QED BY <2>1, CheckAliveAssumption DEF Init, AliveInv, TypeOK, Made, AliveFlags
<1>2. AliveInv /\ [Next]_vars => AliveInv'
  <2> SUFFICES ASSUME AliveInv, [Next]_vars PROVE AliveInv'
    OBVIOUS
  <2>1. AliveFlags'
    BY AliveFlagsStep DEF AliveInv, TypeOK, AliveFlags
  <2>2. (is_start \/ timer \/ queued => queue # "none")'
    BY MadeStep DEF Made
  <2> QED BY <2>1, <2>2, NumbersStep, MadeStep DEF AliveInv, TypeOK, AliveFlags
<1> QED BY <1>1, <1>2, PTL DEF Spec

\* Type correctness of the watch: a timer that is armed, or a work that is
\* queued, was initialised by the first call.
THEOREM AliveTyped == Spec => []TypeOK
<1>1. AliveInv => TypeOK
  BY DEF AliveInv
<1> QED BY <1>1, AliveInvariant, PTL

-----------------------------------------------------------------------------

\* The count is the number of the callbacks since the last 0.
LEMMA AliveCountsStep ==
  ASSUME AliveInv, AliveCounts, [Next]_vars PROVE AliveCounts'
<1> USE DEF AliveInv, TypeOK, AliveCounts, Goto, Timer, Work, infoVars, timeVars, workVars,
            callVars, askVars, ghostVars
<1>1. CASE Start \/ Sleep \/ Die
  BY <1>1 DEF Start, Sleep, Die
<1>2. CASE CallStep
  BY <1>2 DEF CallStep, Refused, Accepted, SetLimit, SetCount, Arm, SleepFails, Asleep,
     Destroy, Stopped, Zero
<1>3. CASE TimerStep
  BY <1>3 DEF TimerStep, Expire, Count, Report, GoesOn, Rearm
<1>4. CASE WorkStep
  BY <1>4 DEF WorkStep, BeginWork, Send, Reset, EndWork
<1>5. CASE UNCHANGED vars
  BY <1>5 DEF vars
<1> QED BY <1>1, <1>2, <1>3, <1>4, <1>5 DEF Next

\* A report is true: as many periods as the request in force says passed without
\* an answer, unless the last 0 came between a callback's read and its write.
THEOREM ReportTrue == Spec => AlarmTrue
<1>1. Init => AliveCounts
  BY DEF Init, AliveCounts
<1>2. AliveInv /\ AliveCounts /\ [Next]_vars => AliveCounts'
  BY AliveCountsStep
<1>3. AliveInv /\ AliveCounts /\ [Next]_vars => [Report /\ ~raced => silent >= tmo_cnt]_vars
  BY DEF AliveInv, TypeOK, AliveCounts, Report, Timer
<1> QED BY <1>1, <1>2, <1>3, AliveInvariant, PTL DEF Spec, AlarmTrue

\* The watch rests from Sleep on, for good once it was ended.
LEMMA AliveRestStep ==
  ASSUME AliveInv, AliveRest, [Next]_vars PROVE AliveRest'
<1> USE DEF AliveInv, TypeOK, Made, AliveRest, Goto, Timer, Work, UsesQueue, infoVars, timeVars,
            workVars, callVars, askVars
<1>1. CASE Start \/ Die
  BY <1>1 DEF Start, Die
<1>9. CASE Sleep
  BY <1>9 DEF Sleep, StopTimer
<1>2. CASE Accepted
  <2>1. CASE is_first
    BY <1>2, <2>1 DEF Accepted
  <2>2. CASE ~is_first
    BY <1>2, <2>2 DEF Accepted
  <2> QED BY <2>1, <2>2
<1>3. CASE Refused \/ SleepFails
  BY <1>3 DEF Refused, SleepFails, Rearmed
<1>4. CASE SetLimit \/ SetCount \/ Arm
  BY <1>4 DEF SetLimit, SetCount, Arm
<1>5. CASE Asleep \/ Stopped
  BY <1>5 DEF Asleep, Stopped
<1>10. CASE Destroy
  <2>1. /\ UNCHANGED <<timer, cpc, queued, is_start, again, overlap>> /\ ~queued
        /\ ~crashed /\ pc = "destroy" /\ pc' = "stopped" /\ queue' = "destroyed"
        /\ crashed' # FALSE => queue = "destroyed"
    BY <1>10 DEF Destroy
  <2> QED BY <2>1
<1>6. CASE TimerStep
  <2>1. UNCHANGED <<is_start, pc, queue, again, overlap>>
    BY <1>6 DEF TimerStep, Expire, Count, Report, GoesOn, Rearm
  <2>2. queued' = queued \/ queued' = (queued \/ queue # "destroyed")
    BY <1>6 DEF TimerStep, Expire, Count, Report, GoesOn, Rearm
  <2>3. timer \/ cpc # "idle"
    BY <1>6 DEF TimerStep, Expire, Count, Report, GoesOn, Rearm
  <2>4. crashed' = crashed \/ queue = "destroyed" \/ crashed' = FALSE
    BY <1>6 DEF TimerStep, Expire, Count, Report, GoesOn, Rearm
  <2> QED BY <2>1, <2>2, <2>3, <2>4
<1>7. CASE WorkStep
  BY <1>7 DEF WorkStep, BeginWork, Send, Reset, EndWork
<1>8. CASE UNCHANGED vars
  BY <1>8 DEF vars
<1> QED
  BY <1>1, <1>2, <1>3, <1>4, <1>5, <1>6, <1>7, <1>8, <1>9, <1>10 DEF Next, CallStep

\* No work is ever queued on the destroyed work queue, on any number of
\* processors, but for the two orders that QueueAlive names.
THEOREM QueueHolds == Spec => []QueueAlive
<1>1. Init => AliveRest
  BY DEF Init, AliveRest
<1>2. AliveInv /\ AliveRest /\ [Next]_vars => AliveRest'
  BY AliveRestStep
<1>3. AliveRest => QueueAlive
  BY DEF AliveRest, QueueAlive
<1> QED BY <1>1, <1>2, <1>3, AliveInvariant, PTL DEF Spec

-----------------------------------------------------------------------------
(* The commands that may print (EchoList): list, marks, count and buffers   *)
(* agree after every operation; the three invariants are inductive together.*)

EchoInv == EchoTypeOK /\ Listed /\ BufferKept

-----------------------------------------------------------------------------
(* Sequences without repetition                                            *)

NoTwice(s) == \A i, j \in 1..Len(s) : s[i] = s[j] => i = j
IsIn(s, d) == \E i \in 1..Len(s) : s[i] = d

\* Appending a command that is not on the list.
LEMMA AppendOnce ==
  ASSUME NEW s \in Seq(Cmds), NoTwice(s), NEW c \in Cmds, ~IsIn(s, c)
  PROVE  /\ Append(s, c) \in Seq(Cmds) /\ Len(Append(s, c)) = Len(s) + 1
         /\ NoTwice(Append(s, c)) /\ \A d : IsIn(Append(s, c), d) <=> IsIn(s, d) \/ d = c
<1> DEFINE t == Append(s, c)
<1>1. /\ t \in Seq(Cmds) /\ Len(t) = Len(s) + 1
      /\ \A i \in 1..Len(s) : t[i] = s[i]
      /\ t[Len(s) + 1] = c /\ Len(s) \in Nat
  BY AppendProperties, LenProperties
<1> HIDE DEF t
<1>2. NoTwice(t) BY <1>1 DEF NoTwice, IsIn
<1>3. ASSUME NEW d PROVE IsIn(t, d) <=> IsIn(s, d) \/ d = c
  BY <1>1 DEF IsIn
<1> QED BY <1>1, <1>2, <1>3 DEF t

\* Taking the first.
LEMMA TailOnce ==
  ASSUME NEW s \in Seq(Cmds), NoTwice(s), s # <<>>
  PROVE  /\ Tail(s) \in Seq(Cmds) /\ Len(Tail(s)) = Len(s) - 1
         /\ Head(s) \in Cmds /\ IsIn(s, Head(s))
         /\ NoTwice(Tail(s)) /\ \A d : IsIn(Tail(s), d) <=> IsIn(s, d) /\ d # Head(s)
<1> DEFINE t == Tail(s)
<1>1. /\ t \in Seq(Cmds) /\ Len(t) = Len(s) - 1 /\ Len(s) \in Nat /\ Len(s) # 0
      /\ \A i \in 1..Len(t) : t[i] = s[i + 1]
      /\ Head(s) = s[1] /\ Head(s) \in Cmds
  BY HeadTailProperties, EmptySeq, LenProperties
<1> HIDE DEF t
<1>2. NoTwice(t) BY <1>1 DEF NoTwice
<1>3. IsIn(s, Head(s)) BY <1>1 DEF IsIn
<1>4. ASSUME NEW d PROVE IsIn(t, d) <=> IsIn(s, d) /\ d # Head(s)
  <2>1. ASSUME IsIn(t, d) PROVE IsIn(s, d) /\ d # Head(s)
    <3>1. PICK i \in 1..Len(t) : t[i] = d BY <2>1 DEF IsIn
    <3>2. i + 1 \in 1..Len(s) /\ s[i + 1] = d /\ 1 \in 1..Len(s) /\ i + 1 # 1 BY <3>1, <1>1
    <3> QED BY <3>2, <1>1 DEF NoTwice, IsIn
  <2>2. ASSUME IsIn(s, d), d # Head(s) PROVE IsIn(t, d)
    <3>1. PICK i \in 1..Len(s) : s[i] = d BY <2>2 DEF IsIn
    <3>2. i - 1 \in 1..Len(t) /\ t[i - 1] = d BY <3>1, <2>2, <1>1
    <3> QED BY <3>2 DEF IsIn
  <2> QED BY <2>1, <2>2
<1> QED BY <1>1, <1>2, <1>3, <1>4 DEF t

\* list_del
LEMMA WithoutOnce ==
  ASSUME list \in Seq(Cmds), NoTwice(list), NEW c \in Cmds, IsIn(list, c)
  PROVE  /\ Without(c) \in Seq(Cmds) /\ Len(Without(c)) = Len(list) - 1
         /\ NoTwice(Without(c)) /\ \A d : IsIn(Without(c), d) <=> IsIn(list, d) /\ d # c
<1> DEFINE p == Place(c)
           n == Len(list)
           t == Without(c)
<1>1. p \in 1..n /\ list[p] = c BY DEF IsIn, Place
<1>2. n \in Nat /\ n # 0 /\ \A i \in 1..n : list[i] \in Cmds
  BY <1>1, LenProperties, ElementOfSeq
<1>3. t = [j \in 1..n - 1 |-> IF j < p THEN list[j] ELSE list[j + 1]] BY DEF Without
<1> HIDE DEF p, n, t
<1>4. \A j \in 1..n - 1 : t[j] \in Cmds BY <1>1, <1>2, <1>3
<1>5. t \in Seq(Cmds) /\ Len(t) = n - 1
  <2>1. n - 1 \in Nat BY <1>2
  <2>2. t \in [1..n - 1 -> Cmds] BY <1>3, <1>4
  <2> QED BY <2>1, <2>2, SeqDef, LenProperties
<1>6. NoTwice(t) BY <1>1, <1>2, <1>3, <1>5 DEF NoTwice, n
<1>7. ASSUME NEW d PROVE IsIn(t, d) <=> IsIn(list, d) /\ d # c
  <2>1. ASSUME IsIn(t, d) PROVE IsIn(list, d) /\ d # c
    <3>1. PICK j \in 1..n - 1 : t[j] = d BY <2>1, <1>5 DEF IsIn
    <3>2. PICK i \in 1..n : list[i] = d /\ i # p BY <3>1, <1>1, <1>2, <1>3
    <3> QED BY <3>2, <1>1 DEF IsIn, NoTwice, n
  <2>2. ASSUME IsIn(list, d), d # c PROVE IsIn(t, d)
    <3>1. PICK i \in 1..n : list[i] = d BY <2>2 DEF IsIn, n
    <3>2. i # p BY <3>1, <2>2, <1>1
    <3>3. CASE i < p
      <4>1. i \in 1..n - 1 /\ t[i] = d BY <3>1, <3>3, <1>1, <1>2, <1>3
      <4> QED BY <4>1, <1>5 DEF IsIn
    <3>4. CASE i > p
      <4>1. i - 1 \in 1..n - 1 /\ t[i - 1] = d BY <3>1, <3>4, <1>1, <1>2, <1>3
      <4> QED BY <4>1, <1>5 DEF IsIn
    <3> QED BY <3>2, <3>3, <3>4, <1>1, <1>2
  <2> QED BY <2>1, <2>2
<1> QED BY <1>5, <1>6, <1>7 DEF t, n

-----------------------------------------------------------------------------
(* What the invariant says, in the terms of the lemmas                     *)

ListAgrees ==
  /\ list \in Seq(Cmds) /\ NoTwice(list) /\ ready_list_num = Len(list)
  /\ echo_ready \in [Cmds -> BOOLEAN]
  /\ \A c \in Cmds : echo_ready[c] <=> IsIn(list, c)
  /\ show_buff \subseteq Cmds /\ \A c \in Cmds : c \in show_buff <=> IsIn(list, c)
  /\ warned = FALSE

EchoSettings == enable_echo \in BOOLEAN /\ num_echo \in Nat \union {-1}

LEMMA EchoInvIs == EchoInv <=> ListAgrees /\ EchoSettings
<1>1. \A c : On(c) <=> IsIn(list, c) BY DEF On, IsIn
<1>2. list \in Seq(Cmds) => Len(list) \in Int BY LenProperties
<1> QED BY <1>1, <1>2 DEF EchoInv, EchoTypeOK, Listed, BufferKept, ListAgrees, EchoSettings, NoTwice

\* A command that leaves the list, or is not on it.
LEMMA DoneKeeps ==
  ASSUME ListAgrees, NEW c \in Cmds, Done(c)
  PROVE  ListAgrees'
<1>0. \A d : On(d) <=> IsIn(list, d) BY DEF On, IsIn
<1>1. echo_ready' = [echo_ready EXCEPT ![c] = FALSE] /\ show_buff' = show_buff \ {c}
  BY DEF Done, Kept
<1>2. CASE echo_ready[c]
  <2>1. list' = Without(c) /\ ready_list_num' = ready_list_num - 1
        /\ warned' = (warned \/ ready_list_num' < 0)
    BY <1>2 DEF Done, Left
  <2>2. IsIn(list, c) BY <1>2 DEF ListAgrees
  <2>3. /\ list' \in Seq(Cmds) /\ Len(list') = Len(list) - 1
        /\ NoTwice(list') /\ \A d : IsIn(list', d) <=> IsIn(list, d) /\ d # c
    BY <2>1, <2>2, WithoutOnce DEF ListAgrees
  <2>4. Len(list') \in Nat BY <2>3, LenProperties
  <2>5. ready_list_num' = Len(list') /\ ~(ready_list_num' < 0)
    <3>1. ready_list_num = Len(list) BY DEF ListAgrees
    <3> QED BY <2>1, <2>3, <2>4, <3>1
  <2>6. warned' = FALSE BY <2>1, <2>5 DEF ListAgrees
  <2> QED BY <1>1, <2>3, <2>5, <2>6 DEF ListAgrees
<1>3. CASE ~echo_ready[c]
  <2>1. UNCHANGED <<list, ready_list_num>> /\ warned' = (warned \/ On(c)) BY <1>3 DEF Done
  <2> QED BY <1>0, <1>1, <1>3, <2>1 DEF ListAgrees
<1> QED BY <1>2, <1>3

\* A command whose answer waits; num_echo' is what the command set.
LEMMA ReadyKeeps ==
  ASSUME ListAgrees, EchoSettings', NEW c \in Cmds, Ready(c)
  PROVE  ListAgrees'
<1>0. \A d : On(d) <=> IsIn(list, d) BY DEF On, IsIn
<1>00. Len(list) \in Nat BY LenProperties DEF ListAgrees
<1>1. CASE ReadyAgain(c)
  BY <1>0, <1>1 DEF ReadyAgain, ListAgrees
<1>2. CASE ReadyAdded(c)
  <2>1. /\ list' = Append(list, c) /\ ready_list_num' = ready_list_num + 1
        /\ echo_ready' = [echo_ready EXCEPT ![c] = TRUE]
        /\ show_buff' = show_buff \union {c} /\ ~echo_ready[c]
    BY <1>2 DEF ReadyAdded
  <2>2. /\ list' \in Seq(Cmds) /\ Len(list') = Len(list) + 1
        /\ NoTwice(list') /\ \A d : IsIn(list', d) <=> IsIn(list, d) \/ d = c
    BY <2>1, AppendOnce DEF ListAgrees
  <2>3. Room \/ num_echo' = 0
    BY <1>2, <1>00, EmptySeq DEF ReadyAdded, Room, EchoSettings, ListAgrees
  <2>4. warned' = FALSE BY <1>2, <2>3 DEF ReadyAdded, ListAgrees
  <2> QED BY <2>1, <2>2, <2>4 DEF ListAgrees
<1>3. CASE ReadyInstead(c)
  <2> DEFINE h == Head(list)
             t == Tail(list)
  <2>1. /\ list' = Append(t, c) /\ ready_list_num' = ready_list_num - 1 + 1
        /\ echo_ready' = [echo_ready EXCEPT ![c] = TRUE, ![h] = FALSE]
        /\ show_buff' = (show_buff \ {h}) \union {c} /\ ~echo_ready[c] /\ list # <<>>
        /\ warned' = (warned \/ (~echo_ready[h]) \/ ready_list_num - 1 < 0)
    BY <1>3 DEF ReadyInstead, Left, Marked, Kept
  <2>2. /\ t \in Seq(Cmds) /\ Len(t) = Len(list) - 1 /\ h \in Cmds /\ IsIn(list, h)
        /\ NoTwice(t) /\ \A d : IsIn(t, d) <=> IsIn(list, d) /\ d # h
    BY <2>1, TailOnce DEF ListAgrees
  <2> HIDE DEF h, t
  <2>3. /\ list' \in Seq(Cmds) /\ Len(list') = Len(list)
        /\ NoTwice(list') /\ \A d : IsIn(list', d) <=> IsIn(t, d) \/ d = c
    BY <2>1, <2>2, <1>00, AppendOnce DEF ListAgrees
  <2>4. h # c /\ echo_ready[h] BY <2>1, <2>2 DEF ListAgrees
  <2>5. Len(list) # 0 BY <2>1, EmptySeq DEF ListAgrees
  <2>6. ready_list_num' = Len(list') /\ ~(ready_list_num - 1 < 0)
    <3>1. ready_list_num = Len(list) BY DEF ListAgrees
    <3> QED BY <2>1, <2>3, <2>5, <1>00, <3>1
  <2>9. warned' = FALSE BY <2>1, <2>4, <2>6 DEF ListAgrees
  <2>10. echo_ready' \in [Cmds -> BOOLEAN] /\ show_buff' \subseteq Cmds
    BY <2>1 DEF ListAgrees
  <2>7. \A d \in Cmds : echo_ready'[d] <=> IsIn(list', d)
    BY <2>1, <2>2, <2>3, <2>4 DEF ListAgrees
  <2>8. \A d \in Cmds : d \in show_buff' <=> IsIn(list', d)
    BY <2>1, <2>2, <2>3, <2>4 DEF ListAgrees
  <2> QED BY <2>3, <2>6, <2>7, <2>8, <2>9, <2>10 DEF ListAgrees
<1> QED BY <1>1, <1>2, <1>3 DEF Ready

-----------------------------------------------------------------------------

LEMMA EchoInitially == EchoInit => EchoInv
<1> SUFFICES ASSUME EchoInit PROVE ListAgrees /\ EchoSettings BY EchoInvIs
<1>1. list \in Seq(Cmds) /\ Len(list) = 0 /\ \A d : ~IsIn(list, d) BY EmptySeq DEF EchoInit, IsIn
<1>2. NoTwice(list) BY <1>1 DEF NoTwice
<1> QED BY <1>1, <1>2 DEF EchoInit, ListAgrees, EchoSettings

LEMMA EchoStep == EchoInv /\ [EchoNext]_echoVars => EchoInv'
<1>0. (EchoInv <=> ListAgrees /\ EchoSettings) /\ (EchoInv' <=> ListAgrees' /\ EchoSettings') BY EchoInvIs, PTL
<1> SUFFICES ASSUME ListAgrees, EchoSettings, [EchoNext]_echoVars PROVE ListAgrees' /\ EchoSettings'
  BY <1>0
<1> USE EchoListAssumption
<1>1. ASSUME NEW c \in Plain, StorePlain(c) PROVE ListAgrees' /\ EchoSettings'
  <2>1. EchoSettings' BY <1>1 DEF StorePlain, setVars, EchoSettings
  <2>2. c \in Cmds BY DEF Cmds
  <2> QED BY <1>1, <2>1, <2>2, DoneKeeps, ReadyKeeps DEF StorePlain
<1>2. CASE StoreEnable
  <2>1. EchoSettings' BY <1>2 DEF StoreEnable, Chosen, EchoSettings
  <2>2. Enable \in Cmds BY DEF Cmds
  <2> QED BY <1>2, <2>1, <2>2, DoneKeeps, ReadyKeeps DEF StoreEnable
<1>3. CASE StoreDisable
  <2>1. EchoSettings' BY <1>3 DEF StoreDisable, setVars, EchoSettings
  <2>2. Disable \in Cmds BY DEF Cmds
  <2> QED BY <1>3, <2>1, <2>2, DoneKeeps, ReadyKeeps DEF StoreDisable
<1>4. CASE ShowAll
  <2>0. \A d : On(d) <=> IsIn(list, d) BY DEF On, IsIn
  <2>1. Len(list) \in Nat BY LenProperties DEF ListAgrees
  <2>2. list' \in Seq(Cmds) /\ Len(list') = 0 /\ \A d : ~IsIn(list', d)
    BY <1>4, EmptySeq DEF ShowAll, IsIn
  <2>3. NoTwice(list') BY <2>2 DEF NoTwice
  <2>9. ready_list_num' = 0 /\ ~(ready_list_num' < 0)
    <3>1. ready_list_num = Len(list) /\ ready_list_num' = ready_list_num - Len(list)
      BY <1>4 DEF ShowAll, ListAgrees
    <3> QED BY <2>1, <3>1
  <2>4. ready_list_num' = 0 /\ warned' = FALSE BY <1>4, <2>9 DEF ShowAll, ListAgrees
  <2>5. \A d \in Cmds : echo_ready'[d] <=> IsIn(list', d) BY <1>4, <2>0, <2>2 DEF ShowAll, ListAgrees
  <2>6. \A d \in Cmds : d \in show_buff' <=> IsIn(list', d) BY <1>4, <2>0, <2>2 DEF ShowAll, ListAgrees
  <2>7. echo_ready' \in [Cmds -> BOOLEAN] /\ show_buff' \subseteq Cmds
    BY <1>4 DEF ShowAll, ListAgrees
  <2>8. EchoSettings' BY <1>4 DEF ShowAll, setVars, EchoSettings
  <2> QED BY <2>2, <2>3, <2>4, <2>5, <2>6, <2>7, <2>8 DEF ListAgrees
<1>5. CASE UNCHANGED echoVars
  BY <1>5 DEF echoVars, setVars, ListAgrees, EchoSettings
<1> QED BY <1>1, <1>2, <1>3, <1>4, <1>5 DEF EchoNext

THEOREM EchoInvariant == EchoSpec => []EchoInv
<1> QED BY EchoInitially, EchoStep, PTL DEF EchoSpec

\* The variables of the list hold values of their types (module_fs.c).
THEOREM EchoTyped == EchoSpec => []EchoTypeOK
<1>1. EchoInv => EchoTypeOK BY DEF EchoInv
<1> QED BY <1>1, EchoInvariant, PTL

\* No WARN_ON of atbm_store_cmd_echo_done or atbm_store_cmd_echo_ready fires.
THEOREM NeverWarns == EchoSpec => []Listed
<1>1. EchoInv => Listed BY DEF EchoInv
<1> QED BY <1>1, EchoInvariant, PTL

\* A command has a buffer exactly while its answer waits.
THEOREM Buffers == EchoSpec => []BufferKept
<1>1. EchoInv => BufferKept BY DEF EchoInv
<1> QED BY <1>1, EchoInvariant, PTL

\* One command more than the limit only when nothing else waits.
LEMMA GrowsInRoom ==
  ASSUME ListAgrees, ListAgrees', EchoSettings', NEW c \in Cmds, Ready(c) \/ Done(c),
         Len(list') > Len(list)
  PROVE  num_echo' = -1 \/ Len(list') <= num_echo' \/ Len(list') = 1
<1>1. /\ ready_list_num = Len(list) /\ ready_list_num' = Len(list')
      /\ Len(list) \in Nat /\ num_echo' \in Int
  BY LenProperties DEF ListAgrees, EchoSettings
<1>2. CASE Done(c)
  BY <1>1, <1>2 DEF Done, Left
<1>3. CASE ReadyAgain(c)
  BY <1>1, <1>3 DEF ReadyAgain
<1>4. CASE ReadyInstead(c)
  BY <1>1, <1>4 DEF ReadyInstead, Left
<1>5. CASE ReadyAdded(c)
  <2>1. Len(list') = Len(list) + 1 /\ (Room \/ list = <<>>)
    BY <1>1, <1>5 DEF ReadyAdded
  <2>2. list = <<>> => Len(list') = 1
    BY <2>1, EmptySeq
  <2> QED BY <1>1, <2>1, <2>2 DEF Room
<1> QED BY <1>2, <1>3, <1>4, <1>5 DEF Ready

\* The list grows only within num_echo, or to its first answer
\* (atbm_store_cmd_echo_ready).
THEOREM GrowsWithinLimit == EchoSpec => Limited
<1>1. ASSUME EchoInv, EchoInv', [EchoNext]_echoVars, Len(list') > Len(list)
      PROVE  num_echo' = -1 \/ Len(list') <= num_echo' \/ Len(list') = 1
  <2>1. ListAgrees /\ EchoSettings
    BY <1>1, EchoInvIs
  <2>2. (EchoInv <=> ListAgrees /\ EchoSettings) /\ (EchoInv' <=> ListAgrees' /\ EchoSettings')
    BY EchoInvIs, PTL
  <2>3. ListAgrees' /\ EchoSettings'
    BY <1>1, <2>2
  <2>4. ASSUME NEW c \in Plain, StorePlain(c)
        PROVE  num_echo' = -1 \/ Len(list') <= num_echo' \/ Len(list') = 1
    BY <1>1, <2>1, <2>3, <2>4, GrowsInRoom DEF StorePlain, Cmds
  <2>5. CASE StoreEnable
    BY <1>1, <2>1, <2>3, <2>5, GrowsInRoom DEF StoreEnable, Cmds
  <2>6. CASE StoreDisable
    BY <1>1, <2>1, <2>3, <2>6, GrowsInRoom DEF StoreDisable, Cmds
  <2>7. CASE ShowAll
    <3>1. /\ ready_list_num = Len(list) /\ ready_list_num' = Len(list') /\ Len(list) \in Nat
          /\ ready_list_num' = ready_list_num - Len(list)
      BY <2>1, <2>3, <2>7, LenProperties DEF ListAgrees, ShowAll
    <3> QED BY <1>1, <3>1
  <2>8. CASE UNCHANGED echoVars
    <3>1. list' = list /\ Len(list) \in Nat
      BY <2>1, <2>8, LenProperties DEF echoVars, ListAgrees
    <3> QED BY <1>1, <3>1
  <2> QED BY <1>1, <2>4, <2>5, <2>6, <2>7, <2>8 DEF EchoNext
<1>2. EchoInv /\ EchoInv' /\ [EchoNext]_echoVars =>
        [Len(list') > Len(list) => num_echo' = -1 \/ Len(list') <= num_echo' \/ Len(list') = 1]_echoVars
  BY <1>1
<1> QED BY <1>2, EchoInvariant, PTL DEF EchoSpec, Limited

-----------------------------------------------------------------------------
(* A scan (ScanPoll).  There is one token: the timer, or its callback.  It  *)
(* is there as long as scan_state is set, and it is used up only when       *)
(* scan_state is not, so nobody is left to ask only when nothing scans.     *)

ScanTypes ==
  /\ when \in Whens
  /\ {scan_state, scan_ok, scanTimer, scanQueued, scanning, told} \subseteq BOOLEAN
  /\ scanPc \in {"idle", "send", "mark", "arm"} /\ tpc \in {"idle", "poll", "over"}
  /\ scanWpc \in {"idle", "ask", "tell", "clear"}

\* While the task is in atbm_wsm_set_scan the work and the timer rest.
TaskAlone ==
  /\ scanPc # "idle" => Settled
  /\ scanPc = "send" => ~scan_state /\ ~scanning
  /\ scanPc = "arm" => scan_state /\ ~scan_ok

\* When the task has returned, what the host keeps agrees with the firmware.
Followed ==
  scanPc = "idle" =>
    /\ scanning => scan_state
    /\ scan_state => scanTimer \/ tpc # "idle"
    /\ tpc = "over" \/ scan_ok => ~scan_state

\* The program is told by a work that saw scan_ok.
TellsOver ==
  /\ scanTimer => tpc = "idle"
  /\ scanWpc \in {"tell", "clear"} => scan_ok

ScanRest == when = "settled" => TaskAlone /\ Followed /\ TellsOver
ScanInv == ScanTypes /\ ScanRest

LEMMA ScanTypesStep == ASSUME ScanTypes, [ScanNext]_scanVars PROVE ScanTypes'
<1> USE DEF ScanTypes, Task, ScanTimer, ScanWork, scanInfoVars, placeVars, countVars
<1>1. CASE SetScan
  BY <1>1, Zenon DEF SetScan
<1>2. CASE TaskStep
  BY <1>2, Zenon DEF TaskStep, ScanSend, Mark, ScanArm
<1>3. CASE ScanTimerStep
  BY <1>3, Zenon DEF ScanTimerStep, ScanExpire, Over, Poll, ScanRearmed
<1>4. CASE ScanWorkStep
  BY <1>4, Zenon DEF ScanWorkStep, ScanBeginWork, Ask, Tell, Clear, Answer
<1>5. CASE ScanEnds
  BY <1>5, Zenon DEF ScanEnds
<1>6. CASE UNCHANGED scanVars
  BY <1>6, Zenon DEF scanVars
<1> QED BY <1>1, <1>2, <1>3, <1>4, <1>5, <1>6 DEF ScanNext

LEMMA ScanRestStep == ASSUME ScanInv, [ScanNext]_scanVars PROVE ScanRest'
<1> SUFFICES ASSUME when' = "settled" PROVE TaskAlone' /\ Followed' /\ TellsOver'
  BY DEF ScanRest
<1> USE DEF ScanInv, ScanTypes, Task, ScanTimer, ScanWork, scanInfoVars, placeVars, countVars,
            ScanRest, TaskAlone, Followed, TellsOver, Settled
<1>0. when = "settled"
  BY DEF ScanNext, SetScan, TaskStep, ScanSend, Mark, ScanArm, ScanTimerStep, ScanExpire, Over,
         Poll, ScanWorkStep, ScanBeginWork, Ask, Tell, Clear, ScanEnds, scanVars
<1>1. CASE SetScan
  BY <1>0, <1>1 DEF SetScan, MayScan, Free
<1>2. CASE TaskStep
  BY <1>0, <1>2 DEF TaskStep, ScanSend, Mark, ScanArm
<1>3. CASE ScanTimerStep
  BY <1>0, <1>3 DEF ScanTimerStep, ScanExpire, Over, Poll, ScanRearmed
<1>4. CASE ScanWorkStep
  BY <1>0, <1>4 DEF ScanWorkStep, ScanBeginWork, Ask, Tell, Clear, Answer
<1>5. CASE ScanEnds
  BY <1>0, <1>5 DEF ScanEnds
<1>6. CASE UNCHANGED scanVars
  BY <1>0, <1>6 DEF scanVars
<1> QED BY <1>1, <1>2, <1>3, <1>4, <1>5, <1>6 DEF ScanNext

THEOREM ScanInvariant == ScanSpec => []ScanInv
<1>1. ScanInit => ScanInv
  <2> SUFFICES ASSUME ScanInit PROVE ScanInv
    OBVIOUS
  <2>1. ScanTypes
    BY Zenon DEF ScanInit, ScanTypes
  <2>2. ScanRest
    BY DEF ScanInit, ScanRest, TaskAlone, Followed, TellsOver, Settled
  <2> QED BY <2>1, <2>2 DEF ScanInv
<1>2. ScanInv /\ [ScanNext]_scanVars => ScanInv'
  BY ScanTypesStep, ScanRestStep DEF ScanInv
<1> QED BY <1>1, <1>2, PTL DEF ScanSpec

\* While a scan is not over there is somebody who will ask the firmware about
\* it, whatever commands fail, if the program waits until all rests before it
\* scans again (scan_complete_check, scan_complete_work).
THEOREM ScanWatched == ScanSpec => []Watched
<1>1. ScanInv => Watched
  BY DEF ScanInv, ScanTypes, ScanRest, TaskAlone, Followed, Watched
<1> QED BY <1>1, ScanInvariant, PTL

\* The program is told of a scan only when the firmware's scan is over.
THEOREM ToldTrue == ScanSpec => ToldWhenOver
<1>1. ScanInv => (scanWpc = "tell" /\ scanWpc' = "clear" /\ when = "settled" => ~scanning)
  BY DEF ScanInv, ScanTypes, ScanRest, TaskAlone, Followed, TellsOver, Settled
<1> QED BY <1>1, ScanInvariant, PTL DEF ToldWhenOver, ScanSpec

-----------------------------------------------------------------------------
(* The status of events (AsyncStatus).  What was last written to the type is *)
(* on its way to the program until it is written over.                      *)

StatusTypes ==
  /\ type \in {Invalid, "connect", "other", "scan"} /\ is_connected \in BOOLEAN
  /\ writer \in {"idle", "type", "signal"} /\ linked \in BOOLEAN
  /\ scanner \in {"idle", "signal"} /\ sigio \in BOOLEAN
  /\ reader \in {"idle", "copy", "reset"} /\ known \in BOOLEAN
  /\ realScans \in Nat /\ toldScans \in Nat /\ empties \in Nat
  /\ missed \in BOOLEAN

\* What is in the type.
LastWritten ==
  /\ last \in {"none", "connect", "other", "scan", "read", "empty"}
  /\ last \in {"connect", "other", "scan"} => type = last
  /\ last = "none" => type = Invalid
  /\ last = "read" => reader = "reset"

\* A connection that the program does not know of is being written, is on its way
\* to the program, or was written over.
LinkOnItsWay ==
  /\ is_connected = linked
  /\ last = "connect" => writer = "signal" \/ sigio \/ reader = "copy"
  /\ known = linked \/ writer = "type" \/ last = "connect" \/ missed

\* A scan in the type has not been counted among the ones that were told.
ScanOnItsWay == toldScans + (IF last = "scan" THEN 1 ELSE 0) <= realScans + empties

StatusInv == StatusTypes /\ LastWritten /\ LinkOnItsWay /\ ScanOnItsWay

LEMMA StatusStepInv == ASSUME StatusInv, [StatusNext]_asyncVars PROVE StatusInv'
<1> USE DEF StatusInv, StatusTypes, LastWritten, LinkOnItsWay, ScanOnItsWay,
            MayCome, Writes, statusVars, writerVars, readerVars, ghostStatus
<1>1. CASE Connection
  BY <1>1 DEF Connection, Connects
<1>2. CASE OtherEvent
  BY <1>2 DEF OtherEvent
<1>3. CASE ScanComplete
  BY <1>3 DEF ScanComplete
<1>4. CASE WriteType
  BY <1>4 DEF WriteType
<1>9. CASE Signal
  BY <1>9 DEF Signal
<1>10. CASE ScanSignal
  BY <1>10 DEF ScanSignal
<1>5. CASE Deliver
  BY <1>5 DEF Deliver
<1>6. CASE Copy
  <2>1. UNCHANGED <<type, is_connected, writer, linked, scanner, sigio, realScans, missed>>
    BY <1>6 DEF Copy
  <2>2. /\ reader = "copy" /\ reader' = "reset" /\ last' = "read"
        /\ known' = IF type = "connect" THEN is_connected ELSE known
        /\ toldScans' = IF type = "scan" THEN toldScans + 1 ELSE toldScans
        /\ empties' = IF last = "empty" THEN empties + 1 ELSE empties
    BY <1>6 DEF Copy
  <2>3. type = "scan" => last \in {"scan", "empty"}
    BY <2>2 DEF Invalid
  <2>4. ScanOnItsWay'
    BY <2>1, <2>2, <2>3
  <2>5. StatusTypes'
    BY <2>1, <2>2
  <2>6. LastWritten'
    BY <2>2
  <2>7. LinkOnItsWay'
    BY <2>1, <2>2
  <2> QED BY <2>4, <2>5, <2>6, <2>7
<1>7. CASE StatusReset
  BY <1>7 DEF StatusReset, Empty
<1>8. CASE UNCHANGED asyncVars
  BY <1>8 DEF asyncVars
<1> QED BY <1>1, <1>2, <1>3, <1>4, <1>5, <1>6, <1>7, <1>8, <1>9, <1>10
    DEF StatusNext, StatusStep

THEOREM StatusInvariant == StatusSpec => []StatusInv
<1>1. StatusInit => StatusInv
  <2> SUFFICES ASSUME StatusInit PROVE StatusInv
    OBVIOUS
  <2>1. StatusTypes
    BY DEF StatusInit, StatusTypes
  <2>2. LastWritten
    BY DEF StatusInit, LastWritten
  <2>3. LinkOnItsWay
    BY DEF StatusInit, LinkOnItsWay
  <2>4. ScanOnItsWay
    BY DEF StatusInit, ScanOnItsWay
  <2> QED BY <2>1, <2>2, <2>3, <2>4 DEF StatusInv
<1>2. StatusInv /\ [StatusNext]_asyncVars => StatusInv'
  BY StatusStepInv
<1> QED BY <1>1, <1>2, PTL DEF StatusSpec

\* When all is quiet the program knows whether the driver is connected, however
\* the events follow each other and the signals merge, unless something was
\* written over the last connection event (atbm_ioctl_connect_async).
THEOREM LinkKnown == StatusSpec => []KnowsTheLink
<1>1. StatusInv => KnowsTheLink
  BY DEF StatusInv, LinkOnItsWay, KnowsTheLink, Quiet
<1> QED BY <1>1, StatusInvariant, PTL

\* Every scan that is told too many is one that atbm_ioctl_read left in status by
\* "status.type = 2", whatever order the events, signals and readings have.
THEOREM NoScanInvented == StatusSpec => []ScansReal
<1>1. StatusInv => ScansReal
  BY DEF StatusInv, StatusTypes, ScanOnItsWay, ScansReal
<1> QED BY <1>1, StatusInvariant, PTL

-----------------------------------------------------------------------------
(* The work queue of the RTOS port (RtosWork).  The links are those of a    *)
(* ring r of the n works on the list (Linked), until a work joins it that is *)
(* due already (twice): that breaks the ring.  The links still lead to nodes *)
(* of the list only (Closed), so the worker never follows an empty one.     *)

\* The ring of the links: work_head, the n works of the list, work_head.
Linked(n, r) ==
  /\ r[0] = WorkHead /\ r[n + 1] = WorkHead
  /\ \A i \in 1 .. n : r[i] \in Works
  /\ \A i, j \in 1 .. n : r[i] = r[j] => i = j
  /\ \A i \in 0 .. n : next[r[i]] = r[i + 1] /\ prev[r[i + 1]] = r[i]

\* What is on the list is due, but for the first work while it runs, which is
\* where the worker is.
Listing(n, r) ==
  /\ Linked(n, r)
  /\ mutex = Worker => current = r[1]
  /\ workerPc \in {"wait", "unlink"} => n > 0
  /\ due = {r[i] : i \in (IF workerPc \in {"wait", "unlink"} THEN 2 ELSE 1) .. n}

ListInv == \E n \in Nat : \E r \in [0 .. n + 1 -> Nodes] : Listing(n, r)

\* A thread in queue_work has a work.
ItemInv ==
  \A q \in Queuers :
    /\ qpc[q] = "idle" => item[q] = None
    /\ qpc[q] # "idle" => item[q] \in Works

\* The links lead to nodes that have links, whatever was queued how often.
OnList == {m \in Nodes : next[m] # None}
Closed ==
  /\ {WorkHead, current} \subseteq OnList
  /\ \A m \in OnList : next[m] \in OnList /\ prev[m] \in OnList

Queuing == {q \in Queuers : qpc[q] # "idle"}

\* Each call of queue_work brings one token at most.
TokenInv == IsFiniteSet(Queuing) /\ sem + Cardinality(Queuing) <= asked

WorkTypes ==
  /\ {next, prev} \subseteq [Nodes -> Nodes \union {None}]
  /\ mutex \in {None, Worker} /\ sem \in Nat
  /\ workerPc \in {"down", "lock", "run", "wait", "unlink"} /\ current \in Nodes
  /\ workerPc \in {"run", "wait", "unlink"} <=> mutex = Worker
  /\ qpc \in [Queuers -> {"idle", "lock", "up"}] /\ item \in [Queuers -> Works \union {None}]
  /\ answer \in {"none", "due", "there"} /\ due \subseteq Works /\ asked \in 0 .. MaxWorks
  /\ twice \in BOOLEAN

WorkBase == WorkTypes /\ Closed /\ ItemInv /\ TokenInv

\* Somebody is on the way to what is due.
Noticed == due # {} => sem > 0 \/ workerPc # "down" \/ \E q \in Queuers : qpc[q] = "up"

WorkInv == WorkBase /\ (~twice => ListInv /\ Noticed)

LEMMA WorkSizes ==
  /\ MaxWorks \in Nat /\ None \notin Works /\ WorkHead \notin Works /\ None # WorkHead
  /\ Worker # None
BY RtosWorkAssumption DEF None, WorkHead, Worker

\* A work that is not on the list joins it at its end (queue_work).
LEMMA AddTailKeeps ==
  ASSUME NEW n \in Nat, NEW r \in [0 .. n + 1 -> Nodes], Linked(n, r),
         {next, prev} \subseteq [Nodes -> Nodes \union {None}],
         NEW w \in Works, \A i \in 1 .. n : r[i] # w, AddTail(w)
  PROVE  /\ {next', prev'} \subseteq [Nodes -> Nodes \union {None}]
         /\ \E t \in [0 .. n + 2 -> Nodes] :
              Linked(n + 1, t)' /\ t[n + 1] = w /\ \A i \in 1 .. n : t[i] = r[i]
<1>0. PICK t : t = [i \in 0 .. n + 2 |-> IF i <= n THEN r[i] ELSE IF i = n + 1 THEN w ELSE WorkHead]
  OBVIOUS
<1>1. /\ WorkHead \in Nodes /\ w \in Nodes /\ w # WorkHead /\ n \in 0 .. n + 1 /\ r[n] \in Nodes
      /\ n + 1 \in 0 .. n + 2
  BY WorkSizes DEF Nodes
<1>2. prev[WorkHead] = r[n] /\ r[0] = WorkHead /\ r[n + 1] = WorkHead
  BY DEF Linked
<1>3. /\ next' = [[next EXCEPT ![r[n]] = w] EXCEPT ![w] = WorkHead]
      /\ prev' = [[prev EXCEPT ![w] = r[n]] EXCEPT ![WorkHead] = w]
  BY <1>2 DEF AddTail
<1>4. {next', prev'} \subseteq [Nodes -> Nodes \union {None}]
  BY <1>1, <1>3
<1>5. t \in [0 .. n + 2 -> Nodes] /\ t[n + 1] = w /\ t[n + 2] = WorkHead
      /\ \A i \in 0 .. n : t[i] = r[i]
  BY <1>0, <1>1
<1>6. r[n] # w
  <2>1. CASE n = 0
    BY <1>1, <1>2, <2>1
  <2>2. CASE n # 0
    BY <2>2
  <2> QED BY <2>1, <2>2
<1>7. \A m \in Nodes \ {w, r[n]} : next'[m] = next[m]
  BY <1>1, <1>3
<1>8. \A m \in Nodes \ {w, WorkHead} : prev'[m] = prev[m]
  BY <1>1, <1>3
<1>9. next'[r[n]] = w /\ next'[w] = WorkHead /\ prev'[w] = r[n] /\ prev'[WorkHead] = w
  BY <1>1, <1>3, <1>6
<1>10. ASSUME NEW i \in 0 .. n + 1 PROVE next'[t[i]] = t[i + 1] /\ prev'[t[i + 1]] = t[i]
  <2>1. CASE i < n
    <3>1. i \in 0 .. n /\ i + 1 \in 1 .. n /\ i + 1 \in 0 .. n
      BY <2>1
    <3>2. t[i] = r[i] /\ t[i + 1] = r[i + 1] /\ next[r[i]] = r[i + 1] /\ prev[r[i + 1]] = r[i]
      BY <1>5, <3>1 DEF Linked
    <3>3. r[i + 1] \in Works /\ r[i + 1] # w
      BY <3>1 DEF Linked
    <3>4. r[i] \in Nodes \ {w, r[n]}
      <4>1. CASE i = 0
        <5>1. n \in 1 .. n
          BY <2>1
        <5>2. r[n] \in Works
          BY <5>1 DEF Linked
        <5> QED BY <1>1, <1>2, <4>1, <5>2, WorkSizes
      <4>2. CASE i # 0
        <5>1. i \in 1 .. n /\ n \in 1 .. n /\ i # n
          BY <2>1, <4>2
        <5>2. r[i] # r[n] /\ r[i] # w /\ r[i] \in Nodes
          BY <5>1, <3>1 DEF Linked, Nodes
        <5> QED BY <5>2
      <4> QED BY <4>1, <4>2
    <3>5. r[i + 1] \in Nodes \ {w, WorkHead}
      BY <3>3, WorkSizes DEF Nodes
    <3> QED BY <1>7, <1>8, <3>2, <3>4, <3>5
  <2>2. CASE i = n
    BY <1>5, <1>9, <2>2
  <2>3. CASE i = n + 1
    <3>1. i + 1 = n + 2
      BY <2>3
    <3> QED BY <1>5, <1>9, <2>3, <3>1
  <2> QED BY <2>1, <2>2, <2>3
<1>11. \A i \in 1 .. n + 1 : t[i] \in Works
  <2>1. ASSUME NEW i \in 1 .. n + 1 PROVE t[i] \in Works
    <3>1. CASE i \in 1 .. n
      BY <1>5, <3>1 DEF Linked
    <3>2. CASE i = n + 1
      BY <1>5, <3>2
    <3> QED BY <3>1, <3>2
  <2> QED BY <2>1
<1>12. ASSUME NEW i \in 1 .. n + 1, NEW j \in 1 .. n + 1, t[i] = t[j] PROVE i = j
  <2>1. CASE i \in 1 .. n /\ j \in 1 .. n
    BY <1>5, <1>12, <2>1 DEF Linked
  <2>2. CASE i = n + 1 /\ j \in 1 .. n
    BY <1>5, <1>12, <2>2
  <2>3. CASE i \in 1 .. n /\ j = n + 1
    BY <1>5, <1>12, <2>3
  <2> QED BY <2>1, <2>2, <2>3
<1>13. (n + 1) + 1 = n + 2
  OBVIOUS
<1>14. Linked(n + 1, t)'
  <2>1. t[0] = WorkHead /\ t[(n + 1) + 1] = WorkHead
    <3>1. 0 \in 0 .. n
      OBVIOUS
    <3> QED BY <1>2, <1>5, <1>13, <3>1
  <2> QED BY <1>10, <1>11, <1>12, <2>1 DEF Linked, WorkHead
<1>15. \A i \in 1 .. n : t[i] = r[i]
  BY <1>5
<1> QED BY <1>4, <1>5, <1>14, <1>15

\* The first work of the list leaves it (workqueue_work).
LEMMA UnlinkKeeps ==
  ASSUME NEW n \in Nat \ {0}, NEW r \in [0 .. n + 1 -> Nodes], Linked(n, r),
         {next, prev} \subseteq [Nodes -> Nodes \union {None}],
         current = r[1], Unlink
  PROVE  /\ {next', prev'} \subseteq [Nodes -> Nodes \union {None}]
         /\ \E t \in [0 .. n -> Nodes] :
              Linked(n - 1, t)' /\ current' = t[1] /\ \A i \in 1 .. n : t[i] = r[i + 1]
<1>0. PICK t : t = [i \in 0 .. n |-> IF i = 0 THEN WorkHead ELSE r[i + 1]]
  OBVIOUS
<1>1. WorkHead \in Nodes /\ 1 \in 0 .. n /\ 2 \in 0 .. n + 1 /\ r[2] \in Nodes /\ 1 \in 1 .. n
  BY DEF Nodes
<1>2. r[0] = WorkHead /\ r[n + 1] = WorkHead /\ prev[r[1]] = WorkHead /\ next[r[1]] = r[2]
  <2>1. 0 \in 0 .. n /\ 0 + 1 = 1 /\ 1 + 1 = 2
    OBVIOUS
  <2> QED BY <1>1, <2>1 DEF Linked
<1>3. /\ next' = [next EXCEPT ![WorkHead] = r[2]] /\ prev' = [prev EXCEPT ![r[2]] = WorkHead]
      /\ current' = r[2]
  BY <1>2 DEF Unlink, Back
<1>4. {next', prev'} \subseteq [Nodes -> Nodes \union {None}]
  BY <1>1, <1>3
<1>5. t \in [0 .. n -> Nodes] /\ t[0] = WorkHead /\ \A i \in 1 .. n : t[i] = r[i + 1]
  BY <1>0, <1>1
<1>6. \A m \in Nodes \ {WorkHead} : next'[m] = next[m]
  BY <1>3
<1>7. \A m \in Nodes \ {r[2]} : prev'[m] = prev[m]
  BY <1>3
<1>8. next'[WorkHead] = r[2] /\ prev'[r[2]] = WorkHead
  BY <1>1, <1>3
<1>9. ASSUME NEW i \in 0 .. n - 1 PROVE next'[t[i]] = t[i + 1] /\ prev'[t[i + 1]] = t[i]
  <2>1. CASE i = 0
    BY <1>1, <1>5, <1>8, <2>1
  <2>2. CASE i # 0
    <3>1. i \in 1 .. n /\ i + 1 \in 1 .. n /\ (i + 1) + 1 \in 1 .. n + 1 /\ i + 1 \in 0 .. n
      BY <2>2
    <3>2. t[i] = r[i + 1] /\ t[i + 1] = r[(i + 1) + 1]
      BY <1>5, <3>1
    <3>3. next[r[i + 1]] = r[(i + 1) + 1] /\ prev[r[(i + 1) + 1]] = r[i + 1]
      BY <3>1 DEF Linked
    <3>4. r[i + 1] \in Nodes \ {WorkHead}
      BY <3>1, WorkSizes DEF Linked, Nodes
    <3>5. r[(i + 1) + 1] \in Nodes \ {r[2]}
      <4>1. 2 \in 1 .. n /\ r[2] \in Works
        BY <3>1 DEF Linked
      <4>2. CASE (i + 1) + 1 = n + 1
        BY <1>1, <1>2, <4>1, <4>2, WorkSizes
      <4>3. CASE (i + 1) + 1 # n + 1
        <5>1. (i + 1) + 1 \in 1 .. n /\ (i + 1) + 1 # 2
          BY <2>2, <3>1, <4>3
        <5>2. r[(i + 1) + 1] # r[2] /\ r[(i + 1) + 1] \in Works
          BY <4>1, <5>1 DEF Linked
        <5> QED BY <5>2 DEF Nodes
      <4> QED BY <4>2, <4>3
    <3> QED BY <1>6, <1>7, <3>2, <3>3, <3>4, <3>5
  <2> QED BY <2>1, <2>2
<1>10. \A i \in 1 .. n - 1 : t[i] \in Works
  <2>1. ASSUME NEW i \in 1 .. n - 1 PROVE t[i] \in Works
    <3>1. i \in 1 .. n /\ i + 1 \in 1 .. n
      OBVIOUS
    <3> QED BY <1>5, <3>1 DEF Linked
  <2> QED BY <2>1
<1>11. ASSUME NEW i \in 1 .. n - 1, NEW j \in 1 .. n - 1, t[i] = t[j] PROVE i = j
  <2>1. i \in 1 .. n /\ j \in 1 .. n /\ i + 1 \in 1 .. n /\ j + 1 \in 1 .. n
    OBVIOUS
  <2>2. r[i + 1] = r[j + 1]
    BY <1>5, <1>11, <2>1
  <2>3. i + 1 = j + 1
    BY <2>1, <2>2 DEF Linked
  <2> QED BY <2>3
<1>12. (n - 1) + 1 = n /\ n \in 1 .. n /\ n - 1 \in Nat
  OBVIOUS
<1>13. t[n] = WorkHead
  BY <1>2, <1>5, <1>12
<1>14. Linked(n - 1, t)'
  BY <1>5, <1>9, <1>10, <1>11, <1>12, <1>13 DEF Linked, WorkHead
<1>15. current' = t[1]
  <2>1. 1 + 1 = 2
    OBVIOUS
  <2> QED BY <1>1, <1>3, <1>5, <2>1
<1> QED BY <1>4, <1>5, <1>14, <1>15

LEMMA WorkFirst == ASSUME WorkInit PROVE WorkInv
<1>1. /\ next = [n \in Nodes |-> IF n = WorkHead THEN WorkHead ELSE None] /\ prev = next
      /\ mutex = None /\ sem = 0 /\ workerPc = "down" /\ current = WorkHead
      /\ qpc = [q \in Queuers |-> "idle"] /\ item = [q \in Queuers |-> None]
      /\ answer = "none" /\ due = {} /\ asked = 0 /\ twice = FALSE
  BY DEF WorkInit
<1>2. WorkHead \in Nodes
  BY DEF Nodes
<1>3. WorkTypes
  <2>1. twice \in BOOLEAN
    BY <1>1, Zenon
  <2> QED BY <1>1, <1>2, <2>1, WorkSizes DEF WorkTypes
<1>4. ListInv
  <2> DEFINE r == [i \in 0 .. 0 + 1 |-> WorkHead]
  <2>1. r \in [0 .. 0 + 1 -> Nodes] /\ r[0] = WorkHead /\ r[0 + 1] = WorkHead
    BY <1>2
  <2>2. next[WorkHead] = WorkHead /\ prev[WorkHead] = WorkHead
    BY <1>1, <1>2
  <2> HIDE DEF r
  <2>3. Linked(0, r)
    <3>1. \A i \in 0 .. 0 : i = 0
      OBVIOUS
    <3> QED BY <2>1, <2>2, <3>1 DEF Linked
  <2>4. Listing(0, r)
    BY <1>1, <2>3, WorkSizes DEF Listing
  <2> QED BY <2>1, <2>4 DEF ListInv
<1>5. ItemInv
  BY <1>1 DEF ItemInv
<1>6. TokenInv
  <2>1. Queuing = {}
    BY <1>1 DEF Queuing
  <2> QED BY <1>1, <2>1, FS_EmptySet DEF TokenInv
<1>7. Noticed
  BY <1>1 DEF Noticed
<1>8. Closed
  <2>1. \A m \in Nodes : next[m] # None => m = WorkHead
    BY <1>1
  <2>2. next[WorkHead] = WorkHead /\ prev[WorkHead] = WorkHead
    BY <1>1, <1>2
  <2> QED BY <1>1, <1>2, <2>1, <2>2, WorkSizes DEF Closed, OnList
<1> QED BY <1>3, <1>4, <1>5, <1>6, <1>7, <1>8 DEF WorkInv, WorkBase

\* While nobody holds mutex_prot, what is on the list is what is due.
LEMMA AllListed ==
  ASSUME WorkTypes, ListInv, mutex = None
  PROVE  \E n \in Nat : \E r \in [0 .. n + 1 -> Nodes] : Linked(n, r) /\ due = {r[i] : i \in 1 .. n}
<1>1. workerPc \notin {"wait", "unlink"}
  BY WorkSizes DEF WorkTypes
<1> QED BY <1>1 DEF ListInv, Listing

LEMMA LinkKeeps ==
  ASSUME WorkInv, ~twice', NEW q \in Queuers, Link(q) PROVE ListInv' /\ Noticed'
<1>0. PICK w : w = item[q]
  OBVIOUS
<1>1. /\ mutex = None /\ qpc[q] = "lock" /\ qpc' = [qpc EXCEPT ![q] = "up"]
      /\ AddTail(w) /\ due' = due \union {w}
      /\ mutex' = mutex /\ sem' = sem /\ workerPc' = workerPc /\ current' = current
      /\ item' = item /\ answer' = answer /\ asked' = asked
  BY <1>0 DEF Link, Queuer, workerVars
<1>2. twice' = (twice \/ w \in due)
  BY <1>0 DEF Link
<1>12. ~twice /\ w \notin due
  BY <1>2
<1>13. WorkTypes /\ ListInv /\ ItemInv
  BY <1>12 DEF WorkInv, WorkBase
<1>14. w \in Works
  BY <1>0, <1>1, <1>13 DEF ItemInv
<1>a. PICK n \in Nat : \E r \in [0 .. n + 1 -> Nodes] : Linked(n, r) /\ due = {r[i] : i \in 1 .. n}
  BY <1>1, <1>13, AllListed
<1>3. PICK r \in [0 .. n + 1 -> Nodes] : Linked(n, r) /\ due = {r[i] : i \in 1 .. n}
  BY <1>a
<1>5. workerPc \notin {"wait", "unlink"} /\ mutex # Worker
  BY <1>1, <1>13, WorkSizes DEF WorkTypes
<1>4. /\ {next', prev'} \subseteq [Nodes -> Nodes \union {None}]
      /\ \E t \in [0 .. n + 2 -> Nodes] :
           Linked(n + 1, t)' /\ t[n + 1] = w /\ \A i \in 1 .. n : t[i] = r[i]
  <2>1. \A i \in 1 .. n : r[i] # w
    BY <1>3, <1>12
  <2>2. {next, prev} \subseteq [Nodes -> Nodes \union {None}]
    BY <1>13 DEF WorkTypes
  <2> QED BY <1>1, <1>3, <1>14, <2>1, <2>2, AddTailKeeps
<1>6. PICK t \in [0 .. n + 2 -> Nodes] :
        Linked(n + 1, t)' /\ t[n + 1] = w /\ \A i \in 1 .. n : t[i] = r[i]
  BY <1>4
<1>7. ListInv'
  <2>1. PICK m \in Nat : m = n + 1 /\ m + 1 = n + 2
    OBVIOUS
  <2>2. due' = {t[i] : i \in 1 .. m}
    <3>1. \A i \in 1 .. n : i \in 1 .. m /\ t[i] = r[i]
      BY <1>6, <2>1
    <3>2. m \in 1 .. m /\ t[m] = w
      BY <1>6, <2>1
    <3>3. \A i \in 1 .. m : i \in 1 .. n \/ i = m
      BY <2>1
    <3> QED BY <1>1, <1>3, <3>1, <3>2, <3>3
  <2>3. Listing(m, t)'
    BY <1>1, <1>5, <1>6, <2>1, <2>2 DEF Listing, Worker
  <2> QED BY <1>6, <2>1, <2>3 DEF ListInv, Nodes, WorkHead
<1>8. Noticed'
  <2>1. qpc'[q] = "up"
    BY <1>1, <1>13 DEF WorkTypes
  <2> QED BY <2>1 DEF Noticed
<1> QED BY <1>7, <1>8

\* Steps that leave the list and what is due alone.
LEMMA SameList ==
  ASSUME ListInv, next' = next, prev' = prev, due' = due,
         mutex' = Worker => current' = next[WorkHead],
         workerPc \in {"wait", "unlink"} <=> workerPc' \in {"wait", "unlink"}
  PROVE  ListInv'
<1>a. PICK n \in Nat : \E r \in [0 .. n + 1 -> Nodes] : Listing(n, r)
  BY DEF ListInv
<1>1. PICK r \in [0 .. n + 1 -> Nodes] : Listing(n, r)
  BY <1>a
<1>2. Linked(n, r)'
  BY <1>1 DEF Listing, Linked, WorkHead
<1>3. next[WorkHead] = r[1]
  <2>1. 0 \in 0 .. n /\ 0 + 1 = 1
    OBVIOUS
  <2> QED BY <1>1, <2>1 DEF Listing, Linked
<1>4. CASE workerPc \in {"wait", "unlink"}
  BY <1>1, <1>2, <1>3, <1>4 DEF Listing, Worker, ListInv, Nodes, WorkHead
<1>5. CASE workerPc \notin {"wait", "unlink"}
  BY <1>1, <1>2, <1>3, <1>5 DEF Listing, Worker, ListInv, Nodes, WorkHead
<1> QED BY <1>4, <1>5

\* The worker is at the first work of the list.
LEMMA AtFirst == ASSUME ListInv, mutex = Worker PROVE current = next[WorkHead]
<1>a. PICK n \in Nat : \E r \in [0 .. n + 1 -> Nodes] : Listing(n, r)
  BY DEF ListInv
<1>1. PICK r \in [0 .. n + 1 -> Nodes] : Listing(n, r)
  BY <1>a
<1>2. 0 \in 0 .. n /\ 0 + 1 = 1
  OBVIOUS
<1> QED BY <1>1, <1>2 DEF Listing, Linked

\* The other steps of the queuers leave the list alone.
LEMMA QueuerKeeps ==
  ASSUME WorkInv, ~twice', NEW q \in Queuers, Begin(q) \/ Up(q) PROVE ListInv' /\ Noticed'
<1>1. /\ UNCHANGED <<next, prev, mutex, workerPc, current, due, twice>>
      /\ sem' \in {sem, sem + 1}
      /\ \/ qpc[q] # "up" /\ sem' = sem /\ qpc' = [qpc EXCEPT ![q] = "lock"]
         \/ sem' = sem + 1
  BY DEF Begin, Up, Posted, Queuer, listVars, workerVars
<1>2. WorkTypes /\ ListInv /\ Noticed
  BY <1>1 DEF WorkInv, WorkBase
<1>3. ListInv'
  BY <1>1, <1>2, AtFirst, SameList
<1>4. Noticed'
  <2>1. CASE sem' = sem + 1
    BY <1>2, <2>1 DEF WorkTypes, Noticed
  <2>2. CASE qpc[q] # "up" /\ sem' = sem /\ qpc' = [qpc EXCEPT ![q] = "lock"]
    <3>1. \A p \in Queuers : qpc[p] = "up" => qpc'[p] = "up"
      BY <1>2, <2>2 DEF WorkTypes
    <3> QED BY <1>1, <1>2, <2>2, <3>1 DEF Noticed
  <2> QED BY <1>1, <2>1, <2>2
<1> QED BY <1>3, <1>4

\* The steps of the worker that change neither the list nor what is due.
LEMMA WorkerKeeps ==
  ASSUME WorkInv, ~twice', [Down \/ Lock \/ Confirmed \/ Unlock \/ BringConfirmation]_rtosWorkVars
  PROVE  ListInv' /\ Noticed'
<1>1. UNCHANGED <<next, prev, due, qpc, twice>>
  BY DEF Down, Lock, Confirmed, Unlock, BringConfirmation, rtosWorkVars, listVars, queuerVars
<1>2. WorkTypes /\ ListInv /\ Noticed
  BY <1>1 DEF WorkInv, WorkBase
<1>3. mutex = Worker => current = next[WorkHead]
  BY <1>2, AtFirst
<1>4. /\ mutex' = Worker => current' = next[WorkHead]
      /\ workerPc \in {"wait", "unlink"} <=> workerPc' \in {"wait", "unlink"}
  BY <1>3, WorkSizes DEF Down, Lock, Confirmed, Unlock, BringConfirmation, WorkerGoto, rtosWorkVars,
       workerVars
<1>5. ListInv'
  BY <1>1, <1>2, <1>4, SameList
<1>6. CASE Unlock
  <2>1. current = WorkHead /\ workerPc = "run"
    BY <1>6 DEF Unlock, WorkerGoto
  <2>a. PICK n \in Nat : \E r \in [0 .. n + 1 -> Nodes] : Listing(n, r)
    BY <1>2 DEF ListInv
  <2>2. PICK r \in [0 .. n + 1 -> Nodes] : Listing(n, r)
    BY <2>a
  <2>3. current = r[1] /\ due = {r[i] : i \in 1 .. n}
    BY <1>2, <2>1, <2>2 DEF Listing, WorkTypes
  <2>4. n = 0
    <3>1. 1 \in 1 .. n => r[1] \in Works
      BY <2>2 DEF Listing, Linked
    <3> QED BY <2>1, <2>3, <3>1, WorkSizes
  <2>5. due' = {}
    BY <1>1, <2>3, <2>4
  <2> QED BY <1>5, <2>5 DEF Noticed
<1>7. CASE Down \/ Lock \/ Confirmed
  <2>1. workerPc' # "down"
    BY <1>7 DEF Down, Lock, Confirmed, WorkerGoto
  <2> QED BY <1>5, <2>1 DEF Noticed
<1>8. CASE BringConfirmation \/ UNCHANGED rtosWorkVars
  <2>1. UNCHANGED <<sem, workerPc>>
    BY <1>8 DEF BringConfirmation, rtosWorkVars, workerVars
  <2> QED BY <1>1, <1>2, <1>5, <2>1 DEF Noticed
<1> QED BY <1>6, <1>7, <1>8

LEMMA RunKeeps == ASSUME WorkInv, ~twice', Run PROVE ListInv' /\ Noticed'
<1>2. /\ UNCHANGED <<next, prev, mutex, current, twice>> /\ current # WorkHead
      /\ workerPc = "run" /\ workerPc' \in {"wait", "unlink"} /\ due' = due \ {current}
  BY DEF Run, WorkerGoto, listVars
<1>1. WorkTypes /\ ListInv
  BY <1>2 DEF WorkInv, WorkBase
<1>3. mutex = Worker
  BY <1>1, <1>2 DEF WorkTypes
<1>a. PICK n \in Nat : \E r \in [0 .. n + 1 -> Nodes] : Listing(n, r)
  BY <1>1 DEF ListInv
<1>4. PICK r \in [0 .. n + 1 -> Nodes] : Listing(n, r)
  BY <1>a
<1>5. /\ Linked(n, r) /\ current = r[1] /\ due = {r[i] : i \in 1 .. n}
  BY <1>2, <1>3, <1>4 DEF Listing
<1>6. n > 0
  <2>1. n = 0 => r[1] = WorkHead
    BY <1>5 DEF Linked
  <2> QED BY <1>2, <1>5, <2>1
<1>7. due' = {r[i] : i \in 2 .. n}
  <2>1. \A i \in 2 .. n : i \in 1 .. n /\ 1 \in 1 .. n /\ r[i] # r[1]
    BY <1>5, <1>6 DEF Linked
  <2>2. \A i \in 1 .. n : i = 1 \/ i \in 2 .. n
    OBVIOUS
  <2> QED BY <1>2, <1>5, <2>1, <2>2
<1>8. Linked(n, r)'
  BY <1>2, <1>5 DEF Linked, WorkHead
<1>9. ListInv'
  <2>1. Listing(n, r)'
    BY <1>2, <1>5, <1>6, <1>7, <1>8 DEF Listing
  <2> QED BY <2>1 DEF ListInv, Nodes, WorkHead
<1>13. Noticed'
  BY <1>2 DEF Noticed
<1> QED BY <1>9, <1>13

LEMMA UnlinkStepKeeps == ASSUME WorkInv, ~twice', Unlink PROVE ListInv' /\ Noticed'
<1>2. /\ UNCHANGED <<due, mutex, twice>> /\ current' = next[current]
      /\ workerPc = "unlink" /\ workerPc' = "run"
  BY DEF Unlink, WorkerGoto
<1>1. WorkTypes /\ ListInv
  BY <1>2 DEF WorkInv, WorkBase
<1>3. mutex = Worker
  BY <1>1, <1>2 DEF WorkTypes
<1>a. PICK n \in Nat : \E r \in [0 .. n + 1 -> Nodes] : Listing(n, r)
  BY <1>1 DEF ListInv
<1>4. PICK r \in [0 .. n + 1 -> Nodes] : Listing(n, r)
  BY <1>a
<1>5. /\ Linked(n, r) /\ current = r[1] /\ due = {r[i] : i \in 2 .. n} /\ n \in Nat \ {0}
  BY <1>2, <1>3, <1>4 DEF Listing
<1>6. /\ {next', prev'} \subseteq [Nodes -> Nodes \union {None}]
      /\ \E t \in [0 .. n -> Nodes] :
           Linked(n - 1, t)' /\ current' = t[1] /\ \A i \in 1 .. n : t[i] = r[i + 1]
  <2>1. {next, prev} \subseteq [Nodes -> Nodes \union {None}]
    BY <1>1 DEF WorkTypes
  <2> QED BY <1>5, <2>1, UnlinkKeeps
<1>7. PICK t \in [0 .. n -> Nodes] :
        Linked(n - 1, t)' /\ current' = t[1] /\ \A i \in 1 .. n : t[i] = r[i + 1]
  BY <1>6
<1>8. PICK m \in Nat : m = n - 1 /\ m + 1 = n
  BY <1>5
<1>9. ListInv'
  <2>1. due' = {t[i] : i \in 1 .. m}
    <3>1. \A i \in 2 .. n : i - 1 \in 1 .. m /\ t[i - 1] = r[i]
      <4>1. \A i \in 2 .. n : i - 1 \in 1 .. m /\ i - 1 \in 1 .. n /\ (i - 1) + 1 = i
        BY <1>8
      <4> QED BY <1>7, <4>1
    <3>2. \A i \in 1 .. m : i + 1 \in 2 .. n /\ t[i] = r[i + 1]
      BY <1>7, <1>8
    <3> QED BY <1>2, <1>5, <3>1, <3>2
  <2>2. Listing(m, t)'
    BY <1>2, <1>7, <1>8, <2>1 DEF Listing
  <2> QED BY <1>8, <2>2 DEF ListInv, Nodes, WorkHead
<1>13. Noticed'
  BY <1>2 DEF Noticed
<1> QED BY <1>9, <1>13

-----------------------------------------------------------------------------
\* What holds however often a work was queued.

\* The steps that leave the links and the queuers alone.
LEMMA BaseQuiet ==
  ASSUME WorkBase,
         [Down \/ Lock \/ Run \/ Confirmed \/ Unlock \/ BringConfirmation]_rtosWorkVars
  PROVE  WorkBase'
<1>1. WorkTypes /\ Closed /\ ItemInv /\ TokenInv
  BY DEF WorkBase
<1>2. UNCHANGED <<next, prev, qpc, item, twice, asked>>
  BY DEF Down, Lock, Run, Confirmed, Unlock, BringConfirmation, rtosWorkVars, listVars, queuerVars
<1>3. /\ mutex' \in {None, Worker} /\ workerPc' \in {"down", "lock", "run", "wait", "unlink"}
      /\ workerPc' \in {"run", "wait", "unlink"} <=> mutex' = Worker
      /\ answer' \in {"none", "due", "there"}
  BY <1>1, WorkSizes DEF Down, Lock, Run, Confirmed, Unlock, BringConfirmation, rtosWorkVars, listVars,
       workerVars, WorkerGoto, WorkTypes
<1>4. sem' \in Nat /\ sem' <= sem
  BY <1>1 DEF Down, Lock, Run, Confirmed, Unlock, BringConfirmation, rtosWorkVars, WorkTypes
<1>5. due' \subseteq Works
  BY <1>1 DEF Down, Lock, Run, Confirmed, Unlock, BringConfirmation, rtosWorkVars, WorkTypes
<1>6. current' \in {current, next[WorkHead]}
  BY DEF Down, Lock, Run, Confirmed, Unlock, BringConfirmation, rtosWorkVars, workerVars
<1>7. OnList' = OnList
  BY <1>2 DEF OnList, Nodes, None, WorkHead
<1>8. current' \in OnList
  BY <1>1, <1>6 DEF Closed
<1>9. current' \in Nodes
  BY <1>8 DEF OnList
<1>10. WorkTypes'
  <2>1. twice' \in BOOLEAN
    BY <1>1, <1>2, Zenon DEF WorkTypes
  <2> QED BY <1>1, <1>2, <1>3, <1>4, <1>5, <1>9, <2>1 DEF WorkTypes, Nodes, None, WorkHead, Worker
<1>11. Closed'
  BY <1>1, <1>2, <1>7, <1>8 DEF Closed, WorkHead
<1>12. ItemInv'
  BY <1>1, <1>2 DEF ItemInv, None
<1>13. TokenInv'
  <2>1. Queuing' = Queuing
    BY <1>2 DEF Queuing
  <2>2. Cardinality(Queuing) \in Nat /\ IsFiniteSet(Queuing) /\ sem + Cardinality(Queuing) <= asked
    BY <1>1, FS_CardinalityType DEF TokenInv
  <2>3. sem' + Cardinality(Queuing) <= asked
    BY <1>1, <1>4, <2>2 DEF WorkTypes
  <2> QED BY <1>2, <2>1, <2>2, <2>3 DEF TokenInv
<1> QED BY <1>10, <1>11, <1>12, <1>13 DEF WorkBase

\* The worker takes the work it is at off the list, wherever its links lead.
LEMMA BaseUnlink == ASSUME WorkBase, Unlink PROVE WorkBase'
<1>1. WorkTypes /\ Closed /\ ItemInv /\ TokenInv
  BY DEF WorkBase
<1>2. /\ next' = [next EXCEPT ![prev[current]] = next[current]]
      /\ prev' = [prev EXCEPT ![next[current]] = prev[current]]
      /\ current' = next[current] /\ workerPc = "unlink" /\ workerPc' = "run"
      /\ UNCHANGED <<mutex, sem, qpc, item, answer, due, twice, asked>>
  BY DEF Unlink, Back, WorkerGoto, queuerVars
<1>3. /\ next[current] \in OnList /\ prev[current] \in OnList /\ current \in OnList
      /\ OnList \subseteq Nodes /\ WorkHead \in OnList
  BY <1>1 DEF Closed, OnList
<1>4. /\ next' \in [Nodes -> Nodes \union {None}] /\ prev' \in [Nodes -> Nodes \union {None}]
  BY <1>1, <1>2, <1>3 DEF WorkTypes
<1>5. /\ \A m \in Nodes : next'[m] = IF m = prev[current] THEN next[current] ELSE next[m]
      /\ \A m \in Nodes : prev'[m] = IF m = next[current] THEN prev[current] ELSE prev[m]
  BY <1>1, <1>2 DEF WorkTypes
<1>6. OnList' = OnList
  <2>1. \A m \in Nodes : next'[m] # None <=> next[m] # None
    BY <1>3, <1>5 DEF OnList
  <2> QED BY <2>1 DEF OnList, Nodes, None, WorkHead
<1>7. Closed'
  <2>1. \A m \in OnList : next'[m] \in OnList /\ prev'[m] \in OnList
    BY <1>1, <1>3, <1>5 DEF Closed
  <2> QED BY <1>2, <1>3, <1>6, <2>1 DEF Closed, WorkHead
<1>8. WorkTypes'
  <2>1. twice' \in BOOLEAN
    BY <1>1, <1>2, Zenon DEF WorkTypes
  <2>2. current' \in Nodes
    BY <1>2, <1>3
  <2> QED BY <1>1, <1>2, <1>4, <2>1, <2>2 DEF WorkTypes, Nodes, None, WorkHead, Worker
<1>9. ItemInv'
  BY <1>1, <1>2 DEF ItemInv, None
<1>10. TokenInv'
  <2>1. Queuing' = Queuing
    BY <1>2 DEF Queuing
  <2> QED BY <1>1, <1>2, <2>1 DEF TokenInv
<1> QED BY <1>7, <1>8, <1>9, <1>10 DEF WorkBase

\* A work joins the list, whether it is on it or not.
LEMMA BaseLink == ASSUME WorkBase, NEW q \in Queuers, Link(q) PROVE WorkBase'
<1>1. WorkTypes /\ Closed /\ ItemInv /\ TokenInv
  BY DEF WorkBase
<1>0. PICK w : w = item[q]
  OBVIOUS
<1>2. /\ qpc[q] = "lock" /\ qpc' = [qpc EXCEPT ![q] = "up"]
      /\ AddTail(w) /\ due' = due \union {w}
      /\ UNCHANGED <<mutex, sem, workerPc, current, item, answer, asked>>
  BY <1>0 DEF Link, Queuer, workerVars
<1>3. w \in Works /\ w \in Nodes /\ w # WorkHead /\ w # None
  BY <1>0, <1>1, <1>2, WorkSizes DEF ItemInv, Nodes
<1>4. prev[WorkHead] \in OnList /\ OnList \subseteq Nodes /\ WorkHead \in OnList
  BY <1>1 DEF Closed, OnList
<1>5. /\ next' = [[next EXCEPT ![prev[WorkHead]] = w] EXCEPT ![w] = WorkHead]
      /\ prev' = [[prev EXCEPT ![w] = prev[WorkHead]] EXCEPT ![WorkHead] = w]
  BY <1>2 DEF AddTail
<1>6. /\ next' \in [Nodes -> Nodes \union {None}] /\ prev' \in [Nodes -> Nodes \union {None}]
  BY <1>1, <1>3, <1>4, <1>5 DEF WorkTypes
<1>7. /\ \A m \in Nodes :
           next'[m] = IF m = w THEN WorkHead ELSE IF m = prev[WorkHead] THEN w ELSE next[m]
      /\ \A m \in Nodes :
           prev'[m] = IF m = WorkHead THEN w ELSE IF m = w THEN prev[WorkHead] ELSE prev[m]
  BY <1>1, <1>3, <1>4, <1>5 DEF WorkTypes
<1>8. OnList' = OnList \union {w}
  <2>1. \A m \in Nodes : next'[m] # None <=> next[m] # None \/ m = w
    BY <1>3, <1>4, <1>7, WorkSizes DEF OnList
  <2>2. OnList' = {m \in Nodes : next'[m] # None}
    BY DEF OnList, Nodes, None, WorkHead
  <2> QED BY <1>3, <2>1, <2>2 DEF OnList
<1>9. Closed'
  <2>1. \A m \in OnList \union {w} : next'[m] \in OnList \union {w} /\ prev'[m] \in OnList \union {w}
    BY <1>1, <1>3, <1>4, <1>7 DEF Closed
  <2>2. current \in OnList
    BY <1>1 DEF Closed
  <2> QED BY <1>2, <1>4, <1>8, <2>1, <2>2 DEF Closed, WorkHead
<1>10. WorkTypes'
  <2>1. twice' \in BOOLEAN
    <3>1. twice' = (twice \/ w \in due)
      BY <1>0 DEF Link
    <3> QED BY <3>1, Zenon
  <2>2. qpc' \in [Queuers -> {"idle", "lock", "up"}] /\ due' \subseteq Works
    BY <1>1, <1>2, <1>3 DEF WorkTypes
  <2> QED BY <1>1, <1>2, <1>6, <2>1, <2>2 DEF WorkTypes, Nodes, None, WorkHead, Worker
<1>11. ItemInv'
  <2>1. \A p \in Queuers : (qpc'[p] = "idle" <=> qpc[p] = "idle")
    BY <1>1, <1>2 DEF WorkTypes
  <2> QED BY <1>1, <1>2, <2>1 DEF ItemInv, None
<1>12. TokenInv'
  <2>1. Queuing' = Queuing
    BY <1>1, <1>2 DEF Queuing, WorkTypes
  <2> QED BY <1>1, <1>2, <2>1 DEF TokenInv
<1> QED BY <1>9, <1>10, <1>11, <1>12 DEF WorkBase

LEMMA BaseBegin == ASSUME WorkBase, NEW q \in Queuers, Begin(q) PROVE WorkBase'
<1>1. PICK w \in Works : item' = [item EXCEPT ![q] = w]
  BY DEF Begin
<1>2. /\ asked < MaxWorks /\ asked' = asked + 1 /\ qpc[q] = "idle" /\ qpc' = [qpc EXCEPT ![q] = "lock"]
      /\ UNCHANGED <<next, prev, mutex, sem, workerPc, current, answer, due, twice>>
  BY DEF Begin, Queuer, listVars, workerVars
<1>3. WorkTypes /\ Closed /\ ItemInv /\ TokenInv
  BY DEF WorkBase
<1>4. /\ qpc'[q] = "lock" /\ item'[q] = w
      /\ \A p \in Queuers \ {q} : qpc'[p] = qpc[p] /\ item'[p] = item[p]
  BY <1>1, <1>2, <1>3 DEF WorkTypes
<1>5. WorkTypes'
  <2>1. qpc' \in [Queuers -> {"idle", "lock", "up"}] /\ item' \in [Queuers -> Works \union {None}]
    BY <1>1, <1>2, <1>3 DEF WorkTypes
  <2>2. asked' \in 0 .. MaxWorks
    BY <1>2, <1>3, WorkSizes DEF WorkTypes
  <2>3. twice' \in BOOLEAN
    BY <1>2, <1>3, Zenon DEF WorkTypes
  <2> QED BY <1>2, <1>3, <2>1, <2>2, <2>3 DEF WorkTypes, Nodes, None, WorkHead, Worker
<1>6. Closed'
  BY <1>2, <1>3 DEF Closed, OnList, Nodes, None, WorkHead
<1>7. ItemInv'
  BY <1>3, <1>4 DEF ItemInv, None
<1>8. TokenInv'
  <2>1. Queuing' = Queuing \union {q} /\ q \notin Queuing
    BY <1>2, <1>4 DEF Queuing
  <2>2. IsFiniteSet(Queuing) /\ sem + Cardinality(Queuing) <= asked
    BY <1>3 DEF TokenInv
  <2>3. /\ IsFiniteSet(Queuing') /\ Cardinality(Queuing') = Cardinality(Queuing) + 1
        /\ Cardinality(Queuing) \in Nat
    BY <2>1, <2>2, FS_AddElement, FS_CardinalityType
  <2>4. sem' + Cardinality(Queuing') <= asked'
    BY <1>2, <1>3, <2>2, <2>3 DEF WorkTypes
  <2> QED BY <2>3, <2>4 DEF TokenInv
<1> QED BY <1>5, <1>6, <1>7, <1>8 DEF WorkBase

LEMMA BaseUp == ASSUME WorkBase, NEW q \in Queuers, Up(q) PROVE WorkBase'
<1>2. /\ qpc[q] = "up" /\ qpc' = [qpc EXCEPT ![q] = "idle"] /\ item' = [item EXCEPT ![q] = None]
      /\ sem' = sem + 1
      /\ UNCHANGED <<next, prev, mutex, workerPc, current, answer, due, twice, asked>>
  BY DEF Up, Posted, Queuer, listVars, workerVars
<1>3. WorkTypes /\ Closed /\ ItemInv /\ TokenInv
  BY DEF WorkBase
<1>4. /\ qpc'[q] = "idle" /\ item'[q] = None
      /\ \A p \in Queuers \ {q} : qpc'[p] = qpc[p] /\ item'[p] = item[p]
  BY <1>2, <1>3 DEF WorkTypes
<1>5. WorkTypes'
  <2>1. qpc' \in [Queuers -> {"idle", "lock", "up"}] /\ item' \in [Queuers -> Works \union {None}]
    BY <1>2, <1>3 DEF WorkTypes
  <2>2. sem' \in Nat
    BY <1>2, <1>3 DEF WorkTypes
  <2>3. twice' \in BOOLEAN
    BY <1>2, <1>3, Zenon DEF WorkTypes
  <2> QED BY <1>2, <1>3, <2>1, <2>2, <2>3 DEF WorkTypes, Nodes, None, WorkHead, Worker
<1>6. Closed'
  BY <1>2, <1>3 DEF Closed, OnList, Nodes, None, WorkHead
<1>7. ItemInv'
  BY <1>3, <1>4, WorkSizes DEF ItemInv, None
<1>8. TokenInv'
  <2>1. Queuing' = Queuing \ {q} /\ q \in Queuing
    BY <1>2, <1>4 DEF Queuing
  <2>2. IsFiniteSet(Queuing) /\ sem + Cardinality(Queuing) <= asked
    BY <1>3 DEF TokenInv
  <2>3. /\ IsFiniteSet(Queuing') /\ Cardinality(Queuing') = Cardinality(Queuing) - 1
        /\ Cardinality(Queuing) \in Nat
    BY <2>1, <2>2, FS_RemoveElement, FS_CardinalityType
  <2>4. sem' + Cardinality(Queuing') <= asked'
    BY <1>2, <1>3, <2>2, <2>3 DEF WorkTypes
  <2> QED BY <2>3, <2>4 DEF TokenInv
<1> QED BY <1>5, <1>6, <1>7, <1>8 DEF WorkBase

LEMMA BaseKeeps == ASSUME WorkBase, [WorkNext]_rtosWorkVars PROVE WorkBase'
BY BaseQuiet, BaseUnlink, BaseLink, BaseBegin, BaseUp DEF WorkNext, QueueWork, WorkqueueWork

LEMMA WorkKeeps == ASSUME WorkInv, [WorkNext]_rtosWorkVars PROVE WorkInv'
<1>1. WorkBase'
  BY BaseKeeps DEF WorkInv
<1>2. ASSUME ~twice' PROVE ListInv' /\ Noticed'
  BY <1>2, LinkKeeps, QueuerKeeps, WorkerKeeps, RunKeeps, UnlinkStepKeeps
     DEF WorkNext, QueueWork, WorkqueueWork
<1> QED BY <1>1, <1>2 DEF WorkInv

\* A set of numbers has a least one.
LEMMA LeastNumber ==
  ASSUME NEW S \in SUBSET Nat, S # {}
  PROVE  \E n \in S : \A m \in S : n <= m
<1> DEFINE R == OpToRel(<, Nat)
<1>1. IsWellFoundedOn(R, Nat)
  BY NatLessThanWellFounded, Zenon
<1>2. \A m \in Nat : \A n \in Nat : m < n => <<m, n>> \in R
  BY Zenon DEF OpToRel
<1> HIDE DEF R
<1>3. PICK n \in S : \A m \in S : <<m, n>> \notin R
  BY <1>1, WFMin
<1>4. ASSUME NEW m \in S PROVE n <= m
  <2>1. m \in Nat /\ n \in Nat /\ ~(m < n)
    BY <1>2, <1>3
  <2> QED BY <2>1
<1> QED BY <1>4

\* The works of the list are on the way from its first.
LEMMA ListOnTheWay ==
  ASSUME NEW n \in Nat, NEW r \in [0 .. n + 1 -> Nodes], Linked(n, r), NEW k \in 1 .. n
  PROVE  r[k] \in OnTheWay(r[1])
<1> SUFFICES ASSUME NEW S \in SUBSET (Nodes \union {None}), r[1] \in S,
                    \A m \in S \intersect Works : next[m] \in S
             PROVE  r[k] \in S
  BY DEF OnTheWay, Linked
<1> DEFINE Bad == {i \in 1 .. n : r[i] \notin S}
<1> SUFFICES ASSUME Bad # {} PROVE FALSE
  OBVIOUS
<1>1. Bad \in SUBSET Nat
  OBVIOUS
<1>2. PICK i \in Bad : \A j \in Bad : i <= j
  BY <1>1, LeastNumber
<1>3. i \in 1 .. n /\ r[i] \notin S /\ i # 1
  BY <1>2
<1>4. i - 1 \in 1 .. n /\ i - 1 \in 0 .. n /\ (i - 1) + 1 = i /\ ~(i <= i - 1)
  BY <1>3
<1>5. r[i - 1] \in S
  BY <1>2, <1>4
<1>6. r[i - 1] \in Works /\ next[r[i - 1]] = r[i]
  BY <1>4 DEF Linked
<1> QED BY <1>3, <1>5, <1>6

LEMMA WorkMeans == ASSUME WorkInv PROVE WorkTypeOK /\ DueLinked /\ DueNoticed
<1>1. WorkTypes /\ TokenInv
  BY DEF WorkInv, WorkBase
<1>2. WorkTypeOK
  <2>1. Cardinality(Queuing) \in Nat /\ sem + Cardinality(Queuing) <= asked
    BY <1>1, FS_CardinalityType DEF TokenInv
  <2>2. sem \in 0 .. MaxWorks
    BY <1>1, <2>1, WorkSizes DEF WorkTypes
  <2>3. (workerPc \in {"run", "wait", "unlink"}) = (mutex = Worker)
    BY <1>1 DEF WorkTypes
  <2>4. twice \in BOOLEAN
    BY <1>1, Zenon DEF WorkTypes
  <2> QED BY <1>1, <2>2, <2>3, <2>4 DEF WorkTypes, WorkTypeOK
<1>3. DueLinked
  <2> SUFFICES ASSUME ~twice
               PROVE  due \subseteq OnTheWay(IF mutex = Worker THEN current ELSE next[WorkHead])
    BY DEF DueLinked
  <2>a. PICK n \in Nat : \E r \in [0 .. n + 1 -> Nodes] : Listing(n, r)
    BY DEF WorkInv, ListInv
  <2>1. PICK r \in [0 .. n + 1 -> Nodes] : Listing(n, r)
    BY <2>a
  <2>2. (IF mutex = Worker THEN current ELSE next[WorkHead]) = r[1]
    <3>1. 0 \in 0 .. n /\ 0 + 1 = 1
      OBVIOUS
    <3> QED BY <2>1, <3>1 DEF Listing, Linked
  <2>3. \A w \in due : \E k \in 1 .. n : w = r[k]
    BY <2>1 DEF Listing
  <2>4. \A k \in 1 .. n : r[k] \in OnTheWay(r[1])
    BY <2>1, ListOnTheWay DEF Listing
  <2>5. due \subseteq OnTheWay(r[1])
    BY <2>3, <2>4
  <2> QED BY <2>2, <2>5
<1>4. DueNoticed
  BY DEF WorkInv, Noticed, DueNoticed
<1> QED BY <1>2, <1>3, <1>4

\* Each work that is due is linked where the worker comes by, and somebody is on
\* the way to it, in every order of queue_work and workqueue_work, until a work
\* is linked that is due already (DueLinked, DueNoticed); the links stay links and
\* the tokens are counted whatever is queued (WorkTypeOK).
THEOREM WorkSafe == WorkSpec => [](WorkTypeOK /\ DueLinked /\ DueNoticed)
<1>1. WorkInv /\ [WorkNext]_rtosWorkVars => WorkInv'
  BY WorkKeeps
<1>2. WorkInit => WorkInv
  BY WorkFirst
<1>3. WorkInv => WorkTypeOK /\ DueLinked /\ DueNoticed
  BY WorkMeans
<1> QED BY <1>1, <1>2, <1>3, PTL DEF WorkSpec

-----------------------------------------------------------------------------
(* The timers of the RTOS port (RtosTimer).  While the calls of different   *)
(* timers do not mix, an awaited timer is in one of four places (OnePlace): *)
(* the RTOS runs its virtual timer, seeks it or calls it, or its expiry was *)
(* missed and is left in cur_timeout_id (LeftFor).                          *)

Steps == {"idle", "cancel", "stop", "mod", "del", "start", "hash", "late", "late_call", "clear", "done"}
Modifying == {"mod", "start", "hash", "late", "late_call", "clear", "done"}

\* The calls that may yet start a virtual timer.
Starting == {t \in Timers : timerPc[t] \in {"cancel", "stop", "mod", "start"}}

HandleInv ==
  /\ given \in Nat /\ timerCalls \in 0 .. MaxTimerCalls
  /\ IsFiniteSet(Starting) /\ given + Cardinality(Starting) <= timerCalls
  /\ handle \in [Timers -> NoId .. given]
  /\ curId \in {NoId} \union 1 .. given /\ ticking \subseteq 1 .. given
  /\ xid \in {NoId} \union 1 .. given

TaskTypes ==
  /\ timerPc \in [Timers -> Steps] /\ call \in [Timers -> {"mod", "del"}]
  /\ xpc \in {"idle", "find", "call"} /\ mixed \in BOOLEAN /\ inStart \in BOOLEAN
  /\ found \in [Timers \union {Rtos} -> Timers \union {NoTimer}]
  /\ xpc = "call" => found[Rtos] \in Timers
  /\ \A t \in Timers : timerPc[t] = "late_call" => found[t] \in Timers

HashTypes ==
  /\ hashed \subseteq started /\ started \subseteq Timers
  /\ function \subseteq Timers /\ awaited \subseteq Timers

\* What a call of atbm_del_timer has undone.
DelInv ==
  \A t \in Timers :
    /\ timerPc[t] \in Modifying => call[t] = "mod"
    /\ timerPc[t] = "del" => call[t] = "del"
    /\ call[t] = "del" /\ timerPc[t] \in {"stop", "del", "idle"} => t \notin hashed
    /\ call[t] = "del" /\ timerPc[t] = "idle" => handle[t] = 0

TimerTypes == HandleInv /\ TaskTypes /\ HashTypes /\ DelInv

\* While the calls of different timers do not mix.
OneTask == \A t, u \in Timers : timerPc[t] # "idle" /\ timerPc[u] # "idle" => t = u

HandlesOwn ==
  \A t \in Timers : handle[t] >= 0 /\ \A u \in Timers : handle[t] # 0 /\ handle[u] = handle[t] => u = t

AwaitedInv ==
  /\ awaited \subseteq function /\ hashed = {t \in awaited : timerPc[t] # "hash"}
  /\ \A t \in awaited : handle[t] # 0

StepInv ==
  \A t \in Timers :
    /\ timerPc[t] = "hash" => t \in awaited
    /\ timerPc[t] \in {"cancel", "stop", "mod", "del", "start", "clear"} => t \notin awaited
    /\ timerPc[t] \in {"cancel", "stop"} /\ call[t] = "mod" => t \in function
    /\ timerPc[t] \in {"mod", "start"} => t \in function
    /\ timerPc[t] \in {"start", "hash", "late", "late_call", "clear", "done"} => inStart
    /\ IF timerPc[t] = "late_call" THEN found[t] = t /\ curId = handle[t] ELSE found[t] = NoTimer

\* The expiry of t was missed, and is left in cur_timeout_id for atbm_mod_timer.
LeftFor(t) == timerPc[t] \in {"hash", "late", "late_call"} /\ curId = handle[t]
SoughtFor(t) == xpc = "find" /\ xid = handle[t]
CalledFor(t) == xpc = "call" /\ found[Rtos] = t
TicksFor(t) == handle[t] \in ticking

\* An expiry is that of an awaited timer ...
ExpiryInv ==
  /\ \A h \in ticking : \E t \in awaited : h = handle[t]
  /\ xpc = "find" => \E t \in awaited : xid = handle[t]
  /\ IF xpc = "call" THEN found[Rtos] \in hashed ELSE found[Rtos] = NoTimer
  /\ curId # NoId => \E t \in Timers :
       curId = handle[t] /\ (timerPc[t] = "clear" \/ (LeftFor(t) /\ t \in awaited))

\* ... and in one place.
OnePlace ==
  \A t \in awaited :
    /\ TicksFor(t) \/ SoughtFor(t) \/ CalledFor(t) \/ LeftFor(t)
    /\ TicksFor(t) => ~SoughtFor(t) /\ ~CalledFor(t) /\ ~LeftFor(t)
    /\ LeftFor(t) => ~SoughtFor(t) /\ ~CalledFor(t)

UnmixedInv == OneTask /\ HandlesOwn /\ AwaitedInv /\ StepInv /\ ExpiryInv /\ OnePlace
TimerInv == TimerTypes /\ (mixed \/ UnmixedInv)

LEMMA TimerSizes ==
  /\ MaxTimerCalls \in Nat /\ MaxMixed \in 0 .. MaxTimerCalls /\ Rtos \notin Timers /\ NoTimer \notin Timers
  /\ Mixings \subseteq BOOLEAN
BY RtosTimerAssumption DEF Rtos, NoTimer

\* One task goes on by a step, and the others stay where they are.
LEMMA Goes ==
  ASSUME timerPc \in [Timers -> Steps], NEW t \in Timers, NEW from, NEW to \in Steps, TimerGoto(t, from, to)
  PROVE  /\ timerPc[t] = from /\ timerPc'[t] = to /\ timerPc' \in [Timers -> Steps]
         /\ \A u \in Timers \ {t} : timerPc'[u] = timerPc[u]
BY DEF TimerGoto

\* What a step of a task's call must respect, when no virtual timer starts.
LEMMA TypesFrame ==
  ASSUME TimerTypes, NEW t \in Timers, NEW from, NEW to \in Steps, TimerGoto(t, from, to),
         given' = given, timerCalls' = timerCalls, xpc' = xpc, xid' = xid, call' = call, mixed' = mixed,
         handle' \in [Timers -> NoId .. given], \A u \in Timers \ {t} : handle'[u] = handle[u],
         curId' \in {NoId} \union 1 .. given, ticking' \subseteq ticking, inStart' \in BOOLEAN,
         found' \in [Timers \union {Rtos} -> Timers \union {NoTimer}],
         \A a \in (Timers \union {Rtos}) \ {t} : found'[a] = found[a],
         to = "late_call" => found'[t] \in Timers,
         HashTypes', \A u \in Timers \ {t} : u \in hashed' => u \in hashed,
         to \in {"cancel", "stop", "mod", "start"} => from \in {"cancel", "stop", "mod", "start"},
         to \in Modifying => call[t] = "mod", to = "del" => call[t] = "del",
         call[t] = "del" /\ to \in {"stop", "del", "idle"} => t \notin hashed',
         call[t] = "del" /\ to = "idle" => handle'[t] = 0
  PROVE  TimerTypes'
<1>1. HandleInv /\ TaskTypes /\ HashTypes /\ DelInv
  BY DEF TimerTypes
<1>2. /\ timerPc[t] = from /\ timerPc'[t] = to /\ timerPc' \in [Timers -> Steps]
      /\ \A u \in Timers \ {t} : timerPc'[u] = timerPc[u]
  BY <1>1, Goes DEF TaskTypes
<1>3. HandleInv'
  <2>1. Starting' \subseteq Starting
    BY <1>2 DEF Starting
  <2>2. IsFiniteSet(Starting) /\ Cardinality(Starting) \in Nat
    BY <1>1, FS_CardinalityType DEF HandleInv
  <2>3. /\ IsFiniteSet(Starting') /\ Cardinality(Starting') \in Nat
        /\ Cardinality(Starting') <= Cardinality(Starting)
    BY <2>1, <2>2, FS_Subset, FS_CardinalityType
  <2>4. given' + Cardinality(Starting') <= timerCalls'
    BY <1>1, <2>2, <2>3 DEF HandleInv
  <2> QED BY <1>1, <2>3, <2>4 DEF HandleInv, NoId
<1>4. TaskTypes'
  <2>1. xpc = "call" => found'[Rtos] \in Timers
    BY <1>1, TimerSizes DEF TaskTypes
  <2>2. \A u \in Timers : timerPc'[u] = "late_call" => found'[u] \in Timers
    BY <1>1, <1>2 DEF TaskTypes
  <2> QED BY <1>1, <1>2, <2>1, <2>2 DEF TaskTypes, Rtos, NoTimer, Steps
<1>5. DelInv'
  <2>1. ASSUME NEW u \in Timers
        PROVE  /\ timerPc'[u] \in Modifying => call[u] = "mod"
               /\ timerPc'[u] = "del" => call[u] = "del"
               /\ call[u] = "del" /\ timerPc'[u] \in {"stop", "del", "idle"} => u \notin hashed'
               /\ call[u] = "del" /\ timerPc'[u] = "idle" => handle'[u] = 0
    <3>1. CASE u = t
      BY <1>2, <3>1
    <3>2. CASE u # t
      BY <1>1, <1>2, <3>2 DEF DelInv
    <3> QED BY <3>1, <3>2
  <2> QED BY <2>1 DEF DelInv, Modifying
<1> QED BY <1>1, <1>3, <1>4, <1>5 DEF TimerTypes

LEMMA TypesFirst == ASSUME TimerInit PROVE TimerTypes
<1>1. /\ mixed \in BOOLEAN /\ handle = [t \in Timers |-> 0] /\ started = {} /\ function = Timers
      /\ hashed = {} /\ inStart = FALSE /\ curId = NoId /\ given = 0 /\ ticking = {}
      /\ timerPc = [t \in Timers |-> "idle"] /\ call = [t \in Timers |-> "mod"]
      /\ xpc = "idle" /\ xid = NoId /\ awaited = {} /\ timerCalls = 0
      /\ found = [a \in Timers \union {Rtos} |-> NoTimer]
  BY TimerSizes DEF TimerInit
<1>2. Starting = {}
  BY <1>1 DEF Starting
<1>3. HandleInv
  BY <1>1, <1>2, FS_EmptySet, TimerSizes DEF HandleInv, NoId
<1>4. TaskTypes
  BY <1>1 DEF TaskTypes, Steps
<1>5. HashTypes
  BY <1>1 DEF HashTypes
<1>6. DelInv
  BY <1>1 DEF DelInv
<1> QED BY <1>3, <1>4, <1>5, <1>6 DEF TimerTypes

LEMMA TypesBegin ==
  ASSUME TimerTypes, NEW t \in Timers, NEW c \in {"mod", "del"}, TimerBegin(t, c)
  PROVE  TimerTypes'
<1>1. HandleInv /\ TaskTypes /\ HashTypes /\ DelInv
  BY DEF TimerTypes
<1>2. /\ timerCalls < (IF mixed THEN MaxMixed ELSE MaxTimerCalls) /\ timerCalls' = timerCalls + 1
      /\ TimerGoto(t, "idle", "cancel") /\ call' = [call EXCEPT ![t] = c]
      /\ mixed' = mixed /\ handle' = handle /\ started' = started /\ function' = function /\ hashed' = hashed
      /\ inStart' = inStart /\ curId' = curId /\ given' = given /\ ticking' = ticking
      /\ xpc' = xpc /\ xid' = xid /\ found' = found /\ awaited' = awaited
  BY DEF TimerBegin, timerVars, startVars, expiryVars
<1>3. /\ timerPc[t] = "idle" /\ timerPc'[t] = "cancel" /\ timerPc' \in [Timers -> Steps]
      /\ \A u \in Timers \ {t} : timerPc'[u] = timerPc[u]
  <2>1. "cancel" \in Steps
    BY DEF Steps
  <2> QED BY <1>1, <1>2, <2>1, Goes DEF TaskTypes
<1>4. HandleInv'
  <2>1. Starting' = Starting \union {t} /\ t \notin Starting
    BY <1>3 DEF Starting
  <2>2. IsFiniteSet(Starting) /\ Cardinality(Starting) \in Nat
    BY <1>1, FS_CardinalityType DEF HandleInv
  <2>3. IsFiniteSet(Starting') /\ Cardinality(Starting') = Cardinality(Starting) + 1
    BY <2>1, <2>2, FS_AddElement
  <2>4. given' + Cardinality(Starting') <= timerCalls' /\ timerCalls' \in 0 .. MaxTimerCalls
    BY <1>1, <1>2, <2>2, <2>3, TimerSizes DEF HandleInv
  <2> QED BY <1>1, <1>2, <2>3, <2>4 DEF HandleInv, NoId
<1>5. TaskTypes'
  <2>1. call' \in [Timers -> {"mod", "del"}]
    BY <1>1, <1>2 DEF TaskTypes
  <2>2. \A u \in Timers : timerPc'[u] = "late_call" => found'[u] \in Timers
    BY <1>1, <1>2, <1>3 DEF TaskTypes
  <2> QED BY <1>1, <1>2, <1>3, <2>1, <2>2 DEF TaskTypes, Rtos, NoTimer, Steps
<1>6. DelInv'
  <2>1. \A u \in Timers \ {t} : call'[u] = call[u]
    BY <1>1, <1>2 DEF TaskTypes
  <2> QED BY <1>1, <1>2, <1>3, <2>1 DEF DelInv, Modifying
<1>7. HashTypes'
  BY <1>1, <1>2 DEF HashTypes
<1> QED BY <1>4, <1>5, <1>6, <1>7 DEF TimerTypes

LEMMA TypesStart ==
  ASSUME TimerTypes, NEW t \in Timers, StartTimer(t)
  PROVE  TimerTypes'
<1>1. HandleInv /\ TaskTypes /\ HashTypes /\ DelInv
  BY DEF TimerTypes
<1>2. /\ timerCalls' = timerCalls /\ TimerGoto(t, "start", "hash") /\ call' = call
      /\ mixed' = mixed /\ started' = started /\ function' = function /\ hashed' = hashed
      /\ inStart' = inStart /\ curId' = curId
      /\ xpc' = xpc /\ xid' = xid /\ found' = found /\ awaited' = awaited \union {t}
      /\ \/ /\ given' = given + 1 /\ ticking' = ticking \union {given'}
            /\ handle' = [handle EXCEPT ![t] = given']
         \/ handle' = [handle EXCEPT ![t] = NoId] /\ given' = given /\ ticking' = ticking
  BY DEF StartTimer, expiryVars
<1>3. /\ timerPc[t] = "start" /\ timerPc'[t] = "hash" /\ timerPc' \in [Timers -> Steps]
      /\ \A u \in Timers \ {t} : timerPc'[u] = timerPc[u]
  <2>1. "hash" \in Steps
    BY DEF Steps
  <2> QED BY <1>1, <1>2, <2>1, Goes DEF TaskTypes
<1>4. HandleInv'
  <2>1. Starting' = Starting \ {t} /\ t \in Starting
    BY <1>3 DEF Starting
  <2>2. IsFiniteSet(Starting) /\ Cardinality(Starting) \in Nat
    BY <1>1, FS_CardinalityType DEF HandleInv
  <2>3. IsFiniteSet(Starting') /\ Cardinality(Starting') = Cardinality(Starting) - 1
    BY <2>1, <2>2, FS_RemoveElement
  <2>4. given' \in Nat /\ given <= given' /\ given' <= given + 1
    BY <1>1, <1>2 DEF HandleInv
  <2>5. given' + Cardinality(Starting') <= timerCalls'
    BY <1>1, <1>2, <2>2, <2>3, <2>4 DEF HandleInv
  <2>6. handle' \in [Timers -> NoId .. given'] /\ ticking' \subseteq 1 .. given'
    <3>1. /\ handle \in [Timers -> NoId .. given] /\ ticking \subseteq 1 .. given /\ given \in Nat
          /\ NoId .. given \subseteq NoId .. given' /\ 1 .. given \subseteq 1 .. given'
      BY <1>1, <2>4 DEF HandleInv, NoId
    <3>2. NoId \in NoId .. given' /\ given + 1 \in NoId .. given + 1 /\ given + 1 \in 1 .. given + 1
      BY <2>4, <3>1 DEF NoId
    <3>3. CASE given' = given + 1 /\ ticking' = ticking \union {given'}
               /\ handle' = [handle EXCEPT ![t] = given']
      BY <3>1, <3>2, <3>3
    <3>4. CASE handle' = [handle EXCEPT ![t] = NoId] /\ given' = given /\ ticking' = ticking
      BY <3>1, <3>2, <3>4
    <3> QED BY <1>2, <3>3, <3>4
  <2>7. curId' \in {NoId} \union 1 .. given' /\ xid' \in {NoId} \union 1 .. given'
    BY <1>1, <1>2, <2>4 DEF HandleInv
  <2> QED BY <1>1, <1>2, <2>3, <2>4, <2>5, <2>6, <2>7 DEF HandleInv, NoId
<1>5. TaskTypes'
  <2>2. \A u \in Timers : timerPc'[u] = "late_call" => found'[u] \in Timers
    BY <1>1, <1>2, <1>3 DEF TaskTypes
  <2> QED BY <1>1, <1>2, <1>3, <2>2 DEF TaskTypes, Rtos, NoTimer, Steps
<1>6. DelInv'
  <2>1. \A u \in Timers \ {t} : handle'[u] = handle[u]
    BY <1>1, <1>2 DEF HandleInv
  <2>2. call[t] = "mod"
    BY <1>1, <1>3 DEF DelInv, Modifying
  <2> QED BY <1>1, <1>2, <1>3, <2>1, <2>2 DEF DelInv, Modifying
<1>7. HashTypes'
  BY <1>1, <1>2 DEF HashTypes
<1> QED BY <1>4, <1>5, <1>6, <1>7 DEF TimerTypes

LEMMA TypesDelete == ASSUME TimerTypes, NEW t \in Timers, Delete(t) PROVE TimerTypes'
<1>1. HandleInv /\ TaskTypes /\ HashTypes /\ DelInv
  BY DEF TimerTypes
<1>2. /\ TimerGoto(t, "del", "idle") /\ function' = function \ {t} /\ started' = started \ {t} /\ handle' = [handle EXCEPT ![t] = 0]
      /\ hashed' = hashed /\ inStart' = inStart /\ curId' = curId /\ given' = given /\ ticking' = ticking /\ call' = call /\ mixed' = mixed /\ xpc' = xpc /\ xid' = xid /\ found' = found /\ awaited' = awaited /\ timerCalls' = timerCalls
  BY DEF Delete, timerVars, startVars, expiryVars
<1>3. timerPc[t] = "del"
  BY <1>2 DEF TimerGoto
<1>9. inStart' \in BOOLEAN /\ found' \in [Timers \union {Rtos} -> Timers \union {NoTimer}]
      /\ \A a \in (Timers \union {Rtos}) \ {t} : found'[a] = found[a]
  BY <1>1, <1>2 DEF TaskTypes
<1>10. HashTypes' /\ \A u \in Timers \ {t} : u \in hashed' => u \in hashed
  BY <1>1, <1>2, <1>3 DEF HashTypes, DelInv
<1>11. curId' \in {NoId} \union 1 .. given /\ ticking' \subseteq ticking
  BY <1>1, <1>2 DEF HandleInv
<1>12. handle' \in [Timers -> NoId .. given] /\ \A u \in Timers \ {t} : handle'[u] = handle[u]
  BY <1>1, <1>2 DEF HandleInv, NoId
<1>13. call[t] = "del" /\ t \notin hashed' /\ handle'[t] = 0
  BY <1>1, <1>2, <1>3 DEF DelInv, HandleInv
<1>14. "idle" \in Steps
  BY DEF Steps
<1> QED BY <1>1, <1>2, <1>3, <1>9, <1>10, <1>11, <1>12, <1>13, <1>14, TypesFrame DEF Modifying

LEMMA TypesCallNow == ASSUME TimerTypes, NEW t \in Timers, CallNow(t) PROVE TimerTypes'
<1>1. HandleInv /\ TaskTypes /\ HashTypes /\ DelInv
  BY DEF TimerTypes
<1>2. /\ TimerGoto(t, "mod", "idle")
      /\ handle' = handle /\ started' = started /\ function' = function /\ hashed' = hashed /\ inStart' = inStart /\ curId' = curId /\ given' = given /\ ticking' = ticking /\ call' = call /\ mixed' = mixed /\ xpc' = xpc /\ xid' = xid /\ found' = found /\ awaited' = awaited /\ timerCalls' = timerCalls
  BY DEF CallNow, timerVars, startVars, expiryVars
<1>3. timerPc[t] = "mod"
  BY <1>2 DEF TimerGoto
<1>9. inStart' \in BOOLEAN /\ found' \in [Timers \union {Rtos} -> Timers \union {NoTimer}]
      /\ \A a \in (Timers \union {Rtos}) \ {t} : found'[a] = found[a]
  BY <1>1, <1>2 DEF TaskTypes
<1>10. HashTypes' /\ \A u \in Timers \ {t} : u \in hashed' => u \in hashed
  BY <1>1, <1>2 DEF HashTypes
<1>11. curId' \in {NoId} \union 1 .. given /\ ticking' \subseteq ticking
  BY <1>1, <1>2 DEF HandleInv
<1>12. handle' \in [Timers -> NoId .. given] /\ \A u \in Timers \ {t} : handle'[u] = handle[u]
  BY <1>1, <1>2 DEF HandleInv, NoId
<1>13. call[t] = "mod"
  BY <1>1, <1>3 DEF DelInv, Modifying
<1>14. "idle" \in Steps
  BY DEF Steps
<1> QED BY <1>1, <1>2, <1>3, <1>9, <1>10, <1>11, <1>12, <1>13, <1>14, TypesFrame

LEMMA TypesStartFlag == ASSUME TimerTypes, NEW t \in Timers, StartFlag(t) PROVE TimerTypes'
<1>1. HandleInv /\ TaskTypes /\ HashTypes /\ DelInv
  BY DEF TimerTypes
<1>2. /\ TimerGoto(t, "mod", "start") /\ inStart' = TRUE
      /\ handle' = handle /\ started' = started /\ function' = function /\ hashed' = hashed /\ curId' = curId /\ given' = given /\ ticking' = ticking /\ call' = call /\ mixed' = mixed /\ xpc' = xpc /\ xid' = xid /\ found' = found /\ awaited' = awaited /\ timerCalls' = timerCalls
  BY DEF StartFlag, timerVars, startVars, expiryVars
<1>3. timerPc[t] = "mod"
  BY <1>2 DEF TimerGoto
<1>9. inStart' \in BOOLEAN /\ found' \in [Timers \union {Rtos} -> Timers \union {NoTimer}]
      /\ \A a \in (Timers \union {Rtos}) \ {t} : found'[a] = found[a]
  BY <1>1, <1>2 DEF TaskTypes
<1>10. HashTypes' /\ \A u \in Timers \ {t} : u \in hashed' => u \in hashed
  BY <1>1, <1>2 DEF HashTypes
<1>11. curId' \in {NoId} \union 1 .. given /\ ticking' \subseteq ticking
  BY <1>1, <1>2 DEF HandleInv
<1>12. handle' \in [Timers -> NoId .. given] /\ \A u \in Timers \ {t} : handle'[u] = handle[u]
  BY <1>1, <1>2 DEF HandleInv, NoId
<1>13. call[t] = "mod"
  BY <1>1, <1>3 DEF DelInv, Modifying
<1>14. "start" \in Steps
  BY DEF Steps
<1> QED BY <1>1, <1>2, <1>3, <1>9, <1>10, <1>11, <1>12, <1>13, <1>14, TypesFrame

LEMMA TypesHash == ASSUME TimerTypes, NEW t \in Timers, Hash(t) PROVE TimerTypes'
<1>1. HandleInv /\ TaskTypes /\ HashTypes /\ DelInv
  BY DEF TimerTypes
<1>2. /\ TimerGoto(t, "hash", "late") /\ started' = started \union {t} /\ hashed' = hashed \union {t}
      /\ handle' = handle /\ function' = function /\ inStart' = inStart /\ curId' = curId /\ given' = given /\ ticking' = ticking /\ call' = call /\ mixed' = mixed /\ xpc' = xpc /\ xid' = xid /\ found' = found /\ awaited' = awaited /\ timerCalls' = timerCalls
  BY DEF Hash, timerVars, startVars, expiryVars
<1>3. timerPc[t] = "hash"
  BY <1>2 DEF TimerGoto
<1>9. inStart' \in BOOLEAN /\ found' \in [Timers \union {Rtos} -> Timers \union {NoTimer}]
      /\ \A a \in (Timers \union {Rtos}) \ {t} : found'[a] = found[a]
  BY <1>1, <1>2 DEF TaskTypes
<1>10. HashTypes' /\ \A u \in Timers \ {t} : u \in hashed' => u \in hashed
  BY <1>1, <1>2 DEF HashTypes
<1>11. curId' \in {NoId} \union 1 .. given /\ ticking' \subseteq ticking
  BY <1>1, <1>2 DEF HandleInv
<1>12. handle' \in [Timers -> NoId .. given] /\ \A u \in Timers \ {t} : handle'[u] = handle[u]
  BY <1>1, <1>2 DEF HandleInv, NoId
<1>13. call[t] = "mod"
  BY <1>1, <1>3 DEF DelInv, Modifying
<1>14. "late" \in Steps
  BY DEF Steps
<1> QED BY <1>1, <1>2, <1>3, <1>9, <1>10, <1>11, <1>12, <1>13, <1>14, TypesFrame

LEMMA TypesLateCall == ASSUME TimerTypes, NEW t \in Timers, LateCall(t) PROVE TimerTypes'
<1>1. HandleInv /\ TaskTypes /\ HashTypes /\ DelInv
  BY DEF TimerTypes
<1>2. /\ TimerGoto(t, "late_call", "clear") /\ hashed' = hashed \ {found[t]} /\ awaited' \in {awaited, awaited \ {found[t]}} /\ found' = [found EXCEPT ![t] = NoTimer]
      /\ handle' = handle /\ started' = started /\ function' = function /\ inStart' = inStart /\ curId' = curId /\ given' = given /\ ticking' = ticking /\ call' = call /\ mixed' = mixed /\ xpc' = xpc /\ xid' = xid /\ timerCalls' = timerCalls
  BY DEF LateCall, timerVars, startVars, expiryVars, Expired, Unlinked
<1>3. timerPc[t] = "late_call"
  BY <1>2 DEF TimerGoto
<1>9. inStart' \in BOOLEAN /\ found' \in [Timers \union {Rtos} -> Timers \union {NoTimer}]
      /\ \A a \in (Timers \union {Rtos}) \ {t} : found'[a] = found[a]
  BY <1>1, <1>2 DEF TaskTypes
<1>10. HashTypes' /\ \A u \in Timers \ {t} : u \in hashed' => u \in hashed
  BY <1>1, <1>2 DEF HashTypes
<1>11. curId' \in {NoId} \union 1 .. given /\ ticking' \subseteq ticking
  BY <1>1, <1>2 DEF HandleInv
<1>12. handle' \in [Timers -> NoId .. given] /\ \A u \in Timers \ {t} : handle'[u] = handle[u]
  BY <1>1, <1>2 DEF HandleInv, NoId
<1>13. call[t] = "mod"
  BY <1>1, <1>3 DEF DelInv, Modifying
<1>14. "clear" \in Steps
  BY DEF Steps
<1> QED BY <1>1, <1>2, <1>3, <1>9, <1>10, <1>11, <1>12, <1>13, <1>14, TypesFrame

LEMMA TypesClearFlag == ASSUME TimerTypes, NEW t \in Timers, ClearFlag(t) PROVE TimerTypes'
<1>1. HandleInv /\ TaskTypes /\ HashTypes /\ DelInv
  BY DEF TimerTypes
<1>2. /\ TimerGoto(t, "clear", "done") /\ curId' = NoId
      /\ handle' = handle /\ started' = started /\ function' = function /\ hashed' = hashed /\ inStart' = inStart /\ given' = given /\ ticking' = ticking /\ call' = call /\ mixed' = mixed /\ xpc' = xpc /\ xid' = xid /\ found' = found /\ awaited' = awaited /\ timerCalls' = timerCalls
  BY DEF ClearFlag, timerVars, startVars, expiryVars
<1>3. timerPc[t] = "clear"
  BY <1>2 DEF TimerGoto
<1>9. inStart' \in BOOLEAN /\ found' \in [Timers \union {Rtos} -> Timers \union {NoTimer}]
      /\ \A a \in (Timers \union {Rtos}) \ {t} : found'[a] = found[a]
  BY <1>1, <1>2 DEF TaskTypes
<1>10. HashTypes' /\ \A u \in Timers \ {t} : u \in hashed' => u \in hashed
  BY <1>1, <1>2 DEF HashTypes
<1>11. curId' \in {NoId} \union 1 .. given /\ ticking' \subseteq ticking
  BY <1>1, <1>2 DEF HandleInv
<1>12. handle' \in [Timers -> NoId .. given] /\ \A u \in Timers \ {t} : handle'[u] = handle[u]
  BY <1>1, <1>2 DEF HandleInv, NoId
<1>13. call[t] = "mod"
  BY <1>1, <1>3 DEF DelInv, Modifying
<1>14. "done" \in Steps
  BY DEF Steps
<1> QED BY <1>1, <1>2, <1>3, <1>9, <1>10, <1>11, <1>12, <1>13, <1>14, TypesFrame

LEMMA TypesEndCall == ASSUME TimerTypes, NEW t \in Timers, EndCall(t) PROVE TimerTypes'
<1>1. HandleInv /\ TaskTypes /\ HashTypes /\ DelInv
  BY DEF TimerTypes
<1>2. /\ TimerGoto(t, "done", "idle") /\ inStart' = FALSE
      /\ handle' = handle /\ started' = started /\ function' = function /\ hashed' = hashed /\ curId' = curId /\ given' = given /\ ticking' = ticking /\ call' = call /\ mixed' = mixed /\ xpc' = xpc /\ xid' = xid /\ found' = found /\ awaited' = awaited /\ timerCalls' = timerCalls
  BY DEF EndCall, timerVars, startVars, expiryVars
<1>3. timerPc[t] = "done"
  BY <1>2 DEF TimerGoto
<1>9. inStart' \in BOOLEAN /\ found' \in [Timers \union {Rtos} -> Timers \union {NoTimer}]
      /\ \A a \in (Timers \union {Rtos}) \ {t} : found'[a] = found[a]
  BY <1>1, <1>2 DEF TaskTypes
<1>10. HashTypes' /\ \A u \in Timers \ {t} : u \in hashed' => u \in hashed
  BY <1>1, <1>2 DEF HashTypes
<1>11. curId' \in {NoId} \union 1 .. given /\ ticking' \subseteq ticking
  BY <1>1, <1>2 DEF HandleInv
<1>12. handle' \in [Timers -> NoId .. given] /\ \A u \in Timers \ {t} : handle'[u] = handle[u]
  BY <1>1, <1>2 DEF HandleInv, NoId
<1>13. call[t] = "mod"
  BY <1>1, <1>3 DEF DelInv, Modifying
<1>14. "idle" \in Steps
  BY DEF Steps
<1> QED BY <1>1, <1>2, <1>3, <1>9, <1>10, <1>11, <1>12, <1>13, <1>14, TypesFrame

LEMMA TypesCancel == ASSUME TimerTypes, NEW t \in Timers, Cancel(t) PROVE TimerTypes'
<1>1. HandleInv /\ TaskTypes /\ HashTypes /\ DelInv
  BY DEF TimerTypes
<1>2. /\ awaited' = awaited \ {t} /\ started' = started \ {t} /\ hashed' = hashed \ {t}
      /\ TimerGoto(t, "cancel", "stop") \/ TimerGoto(t, "cancel", call[t])
      /\ handle' = handle /\ function' = function /\ inStart' = inStart /\ curId' = curId
      /\ given' = given /\ ticking' = ticking /\ call' = call /\ mixed' = mixed
      /\ xpc' = xpc /\ xid' = xid /\ found' = found /\ timerCalls' = timerCalls
  BY <1>1 DEF Cancel, Unlinked, startVars, expiryVars, HashTypes
<1>3. /\ inStart' \in BOOLEAN /\ found' \in [Timers \union {Rtos} -> Timers \union {NoTimer}]
      /\ \A a \in (Timers \union {Rtos}) \ {t} : found'[a] = found[a]
  BY <1>1, <1>2 DEF TaskTypes
<1>4. HashTypes' /\ (\A u \in Timers \ {t} : u \in hashed' => u \in hashed) /\ t \notin hashed'
  BY <1>1, <1>2 DEF HashTypes
<1>5. curId' \in {NoId} \union 1 .. given /\ ticking' \subseteq ticking
  BY <1>1, <1>2 DEF HandleInv
<1>6. handle' \in [Timers -> NoId .. given] /\ \A u \in Timers \ {t} : handle'[u] = handle[u]
  BY <1>1, <1>2 DEF HandleInv
<1>7. CASE TimerGoto(t, "cancel", "stop")
  <2>1. "stop" \in Steps /\ "stop" \notin Modifying
    BY DEF Steps, Modifying
  <2> QED BY <1>2, <1>3, <1>4, <1>5, <1>6, <1>7, <2>1, TypesFrame
<1>8. CASE TimerGoto(t, "cancel", call[t])
  <2>1. PICK c \in {"mod", "del"} : c = call[t]
    BY <1>1 DEF TaskTypes
  <2>2. c \in Steps /\ (c \in Modifying => c = "mod") /\ TimerGoto(t, "cancel", c)
    BY <1>8, <2>1 DEF Steps, Modifying
  <2> QED BY <1>2, <1>3, <1>4, <1>5, <1>6, <2>1, <2>2, TypesFrame
<1> QED BY <1>2, <1>7, <1>8

LEMMA TypesStop == ASSUME TimerTypes, NEW t \in Timers, Stop(t) PROVE TimerTypes'
<1>1. HandleInv /\ TaskTypes /\ HashTypes /\ DelInv
  BY DEF TimerTypes
<1>2. PICK c \in {"mod", "del"} : c = call[t]
  BY <1>1 DEF TaskTypes
<1>3. /\ awaited' = awaited /\ started' = started /\ hashed' = hashed /\ TimerGoto(t, "stop", c)
      /\ handle' = handle /\ function' = function /\ inStart' = inStart /\ curId' = curId
      /\ given' = given /\ ticking' \subseteq ticking /\ call' = call /\ mixed' = mixed
      /\ xpc' = xpc /\ xid' = xid /\ found' = found /\ timerCalls' = timerCalls
  BY <1>2 DEF Stop, timerVars, expiryVars
<1>4. /\ inStart' \in BOOLEAN /\ found' \in [Timers \union {Rtos} -> Timers \union {NoTimer}]
      /\ \A a \in (Timers \union {Rtos}) \ {t} : found'[a] = found[a]
  BY <1>1, <1>3 DEF TaskTypes
<1>5. HashTypes' /\ \A u \in Timers \ {t} : u \in hashed' => u \in hashed
  BY <1>1, <1>3 DEF HashTypes
<1>6. /\ curId' \in {NoId} \union 1 .. given
      /\ handle' \in [Timers -> NoId .. given] /\ \A u \in Timers \ {t} : handle'[u] = handle[u]
  BY <1>1, <1>3 DEF HandleInv
<1>7. call[t] = "del" => t \notin hashed'
  BY <1>1, <1>3 DEF DelInv, TimerGoto
<1>8. c \in Steps /\ (c \in Modifying => c = "mod") /\ c # "idle"
  BY DEF Steps, Modifying
<1> QED BY <1>2, <1>3, <1>4, <1>5, <1>6, <1>7, <1>8, TypesFrame

LEMMA TypesLate == ASSUME TimerTypes, NEW t \in Timers, Late(t) PROVE TimerTypes'
<1>1. HandleInv /\ TaskTypes /\ HashTypes /\ DelInv
  BY DEF TimerTypes
<1>2. PICK to \in {"done", "clear", "late_call"} :
        /\ TimerGoto(t, "late", to)
        /\ IF to = "late_call" THEN \E u \in ByHandle(curId) : found' = [found EXCEPT ![t] = u] ELSE found' = found
  BY DEF Late
<1>3. /\ handle' = handle /\ started' = started /\ function' = function /\ hashed' = hashed
      /\ inStart' = inStart /\ curId' = curId /\ given' = given /\ ticking' = ticking
      /\ call' = call /\ mixed' = mixed /\ xpc' = xpc /\ xid' = xid /\ awaited' = awaited
      /\ timerCalls' = timerCalls
  BY DEF Late, timerVars, startVars, expiryVars
<1>4. /\ found' \in [Timers \union {Rtos} -> Timers \union {NoTimer}]
      /\ \A a \in (Timers \union {Rtos}) \ {t} : found'[a] = found[a]
      /\ to = "late_call" => found'[t] \in Timers
  <2>1. ByHandle(curId) \subseteq Timers
    BY <1>1 DEF ByHandle, HashTypes
  <2>2. found \in [Timers \union {Rtos} -> Timers \union {NoTimer}]
    BY <1>1 DEF TaskTypes
  <2>3. CASE to = "late_call"
    <3>1. PICK u \in ByHandle(curId) : found' = [found EXCEPT ![t] = u]
      BY <1>2, <2>3
    <3> QED BY <2>1, <2>2, <3>1
  <2>4. CASE to # "late_call"
    BY <1>2, <2>2, <2>4
  <2> QED BY <2>3, <2>4
<1>5. HashTypes' /\ \A u \in Timers \ {t} : u \in hashed' => u \in hashed
  BY <1>1, <1>3 DEF HashTypes
<1>6. /\ curId' \in {NoId} \union 1 .. given /\ inStart' \in BOOLEAN
      /\ handle' \in [Timers -> NoId .. given] /\ \A u \in Timers \ {t} : handle'[u] = handle[u]
  BY <1>1, <1>3 DEF HandleInv, TaskTypes
<1>7. call[t] = "mod"
  BY <1>1, <1>2 DEF DelInv, Modifying, TimerGoto
<1>8. to \in Steps
  BY DEF Steps
<1> QED BY <1>2, <1>3, <1>4, <1>5, <1>6, <1>7, <1>8, TypesFrame

\* What the thread of the RTOS may do to the timers, the hash and the task that starts one.
ExpiryTypes ==
  /\ ticking' \subseteq ticking /\ hashed' \subseteq hashed /\ awaited' \subseteq awaited
  /\ \A t \in Timers : found'[t] = found[t]
  /\ found' \in [Timers \union {Rtos} -> Timers \union {NoTimer}]
  /\ xpc' \in {"idle", "find", "call"} /\ (xpc' = "call" => found'[Rtos] \in Timers)
  /\ curId' \in {NoId} \union 1 .. given /\ xid' \in {NoId} \union 1 .. given

LEMMA TypesExpiry == ASSUME TimerTypes, Expiry PROVE TimerTypes'
<1>1. HandleInv /\ TaskTypes /\ HashTypes /\ DelInv
  BY DEF TimerTypes
<1>2. /\ handle' = handle /\ started' = started /\ function' = function /\ inStart' = inStart
      /\ given' = given /\ timerPc' = timerPc /\ call' = call /\ mixed' = mixed /\ timerCalls' = timerCalls
  BY DEF Expiry, TimeUp, Find, Call, timerVars, startVars, taskVars
<1>3. ExpiryTypes
  <2>0. found \in [Timers \union {Rtos} -> Timers \union {NoTimer}] /\ Rtos \notin Timers
    BY <1>1, TimerSizes DEF TaskTypes
  <2>1. ASSUME NEW h \in ticking, TimeUp(h) PROVE ExpiryTypes
    BY <1>1, <2>0, <2>1 DEF TimeUp, timerVars, HandleInv, ExpiryTypes
  <2>2. CASE Find
    <3>1. /\ ticking' = ticking /\ hashed' = hashed /\ awaited' = awaited /\ xid' = xid
      BY <2>2 DEF Find, timerVars
    <3>2. CASE Missed(xid) /\ xpc' = "idle" /\ found' = found
      BY <1>1, <2>0, <3>1, <3>2 DEF Missed, HandleInv, ExpiryTypes
    <3>3. ASSUME NEW t \in ByHandle(xid), found' = [found EXCEPT ![Rtos] = t], xpc' = "call", curId' = curId
          PROVE ExpiryTypes
      <4>1. t \in Timers
        BY <1>1 DEF ByHandle, HashTypes
      <4> QED BY <1>1, <2>0, <3>1, <3>3, <4>1 DEF HandleInv, ExpiryTypes
    <3> QED BY <2>2, <3>2, <3>3 DEF Find
  <2>3. CASE Call
    <3>1. /\ ticking' = ticking /\ hashed' \subseteq hashed /\ awaited' \subseteq awaited /\ xid' = xid
          /\ xpc' = "idle" /\ found' = [found EXCEPT ![Rtos] = NoTimer] /\ curId' = curId
      BY <2>3 DEF Call, Expired, Unlinked, startVars
    <3> QED BY <1>1, <2>0, <3>1 DEF HandleInv, ExpiryTypes
  <2> QED BY <2>1, <2>2, <2>3 DEF Expiry
<1>4. HandleInv'
  <2>1. Starting' = Starting
    BY <1>2 DEF Starting
  <2> QED BY <1>1, <1>2, <1>3, <2>1 DEF ExpiryTypes, HandleInv, NoId
<1>5. TaskTypes'
  <2>1. \A t \in Timers : timerPc'[t] = "late_call" => found'[t] \in Timers
    BY <1>1, <1>2, <1>3 DEF ExpiryTypes, TaskTypes
  <2> QED BY <1>1, <1>2, <1>3, <2>1 DEF ExpiryTypes, TaskTypes, Rtos, NoTimer, Steps
<1>6. HashTypes' /\ DelInv'
  BY <1>1, <1>2, <1>3 DEF ExpiryTypes, HashTypes, DelInv, Modifying
<1> QED BY <1>4, <1>5, <1>6 DEF TimerTypes

LEMMA TypesKeep == ASSUME TimerTypes, [TimerNext]_rtosTimerVars PROVE TimerTypes'
<1>1. ASSUME NEW t \in Timers, TimerTask(t) PROVE TimerTypes'
  BY <1>1, TypesCancel, TypesStop, TypesDelete, TypesCallNow, TypesStartFlag, TypesStart, TypesHash,
     TypesLate, TypesLateCall, TypesClearFlag, TypesEndCall DEF TimerTask, ModTimer
<1>2. ASSUME NEW t \in Timers, NEW c \in {"mod", "del"}, TimerBegin(t, c) PROVE TimerTypes'
  BY <1>2, TypesBegin
<1>3. CASE UNCHANGED rtosTimerVars
  <2>1. HandleInv'
    <3>1. Starting' = Starting
      BY <1>3 DEF rtosTimerVars, taskVars, Starting
    <3> QED BY <1>3, <3>1 DEF rtosTimerVars, timerVars, startVars, expiryVars, TimerTypes, HandleInv, NoId
  <2>2. TaskTypes'
    BY <1>3 DEF rtosTimerVars, startVars, taskVars, expiryVars, TimerTypes, TaskTypes, Steps, NoTimer, Rtos
  <2>3. HashTypes' /\ DelInv'
    BY <1>3 DEF rtosTimerVars, timerVars, taskVars, TimerTypes, HashTypes, DelInv, Modifying
  <2> QED BY <2>1, <2>2, <2>3 DEF TimerTypes
<1> QED BY <1>1, <1>2, <1>3, TypesExpiry DEF TimerNext

\* The types, and what holds of a timer that was deleted.
LEMMA TypesMean == ASSUME TimerTypes PROVE TimerTypeOK /\ DeletedUnlinked
<1>1. HandleInv /\ TaskTypes /\ HashTypes /\ DelInv
  BY DEF TimerTypes
<1>2. given \in 0 .. timerCalls /\ timerCalls \in 0 .. MaxTimerCalls
  <2>1. Cardinality(Starting) \in Nat
    BY <1>1, FS_CardinalityType DEF HandleInv
  <2> QED BY <1>1, <2>1 DEF HandleInv
<1>3. handle \in [Timers -> NoId .. MaxTimerCalls] /\ {given, timerCalls} \subseteq 0 .. MaxTimerCalls
  <2>1. NoId .. given \subseteq NoId .. MaxTimerCalls
    BY <1>2, TimerSizes DEF NoId
  <2>2. handle \in [Timers -> NoId .. given]
    BY <1>1 DEF HandleInv
  <2>3. {given, timerCalls} \subseteq 0 .. MaxTimerCalls
    BY <1>2, TimerSizes
  <2> QED BY <2>1, <2>2, <2>3
<1>4. TimerTypeOK
  BY <1>1, <1>3 DEF TimerTypeOK, HandleInv, TaskTypes, HashTypes, Steps
<1>5. DeletedUnlinked
  <2>1. 0 \notin ticking
    BY <1>1 DEF HandleInv
  <2> QED BY <1>1, <2>1 DEF DelInv, DeletedUnlinked
<1> QED BY <1>4, <1>5

\* No expiry is left in cur_timeout_id but for a task that starts a timer.
LEMMA NoneLeft ==
  ASSUME ExpiryInv, \A u \in Timers : timerPc[u] \notin {"hash", "late", "late_call", "clear"}
  PROVE  curId = NoId
BY DEF ExpiryInv, LeftFor

\* A step of a task that starts and ends no wait for an expiry.
LEMMA UnmixedFrame ==
  ASSUME TaskTypes, HashTypes, UnmixedInv, NEW t \in Timers, NEW from, NEW to \in Steps, TimerGoto(t, from, to),
         \A u \in Timers \ {t} : timerPc[u] = "idle",
         HandlesOwn', \A u \in awaited : handle'[u] = handle[u],
         awaited' = awaited, hashed' = hashed, awaited \subseteq function',
         found' = found, xpc' = xpc, xid' = xid,
         ticking' \subseteq ticking, \A u \in awaited : handle[u] \in ticking => handle[u] \in ticking',
         curId' = NoId, \A u \in awaited : ~LeftFor(u),
         from \notin {"hash", "late_call"}, to \notin {"hash", "late_call"},
         to \in {"cancel", "stop", "mod", "del", "start", "clear"} => t \notin awaited,
         to \in {"cancel", "stop"} /\ call'[t] = "mod" => t \in function',
         to \in {"mod", "start"} => t \in function',
         to \in {"start", "late", "clear", "done"} => inStart'
  PROVE  UnmixedInv'
<1>1. OneTask /\ HandlesOwn /\ AwaitedInv /\ StepInv /\ ExpiryInv /\ OnePlace
  BY DEF UnmixedInv
<1>2. /\ timerPc[t] = from /\ timerPc'[t] = to /\ timerPc' \in [Timers -> Steps]
      /\ \A u \in Timers \ {t} : timerPc'[u] = "idle"
  BY Goes DEF TaskTypes
<1>3. OneTask'
  BY <1>2 DEF OneTask
<1>4. AwaitedInv'
  <2>1. \A u \in Timers : timerPc[u] # "hash" /\ timerPc'[u] # "hash"
    BY <1>2
  <2>2. awaited \subseteq Timers
    BY DEF HashTypes
  <2>3. hashed' = {u \in awaited' : timerPc'[u] # "hash"}
    BY <1>1, <2>1, <2>2 DEF AwaitedInv
  <2>4. \A u \in awaited' : handle'[u] # 0
    BY <1>1 DEF AwaitedInv
  <2> QED BY <2>3, <2>4 DEF AwaitedInv
<1>5. StepInv'
  <2>1. \A u \in Timers : found'[u] = NoTimer
    BY <1>1, <1>2 DEF StepInv
  <2>2. ASSUME NEW u \in Timers
        PROVE  /\ timerPc'[u] = "hash" => u \in awaited'
               /\ timerPc'[u] \in {"cancel", "stop", "mod", "del", "start", "clear"} => u \notin awaited'
               /\ timerPc'[u] \in {"cancel", "stop"} /\ call'[u] = "mod" => u \in function'
               /\ timerPc'[u] \in {"mod", "start"} => u \in function'
               /\ timerPc'[u] \in {"start", "hash", "late", "late_call", "clear", "done"} => inStart'
               /\ timerPc'[u] # "late_call" /\ found'[u] = NoTimer
    <3>1. CASE u = t
      BY <1>2, <2>1, <3>1
    <3>2. CASE u # t
      BY <1>2, <2>1, <3>2
    <3> QED BY <3>1, <3>2
  <2> QED BY <2>2 DEF StepInv, NoTimer
<1>6. ExpiryInv'
  <2>1. \A h \in ticking' : \E u \in awaited' : h = handle'[u]
    BY <1>1 DEF ExpiryInv
  <2>2. xpc' = "find" => \E u \in awaited' : xid' = handle'[u]
    BY <1>1 DEF ExpiryInv
  <2>3. IF xpc' = "call" THEN found'[Rtos] \in hashed' ELSE found'[Rtos] = NoTimer
    BY <1>1 DEF ExpiryInv
  <2> QED BY <2>1, <2>2, <2>3 DEF ExpiryInv, NoId, NoTimer, Rtos
<1>7. OnePlace'
  <2>1. ASSUME NEW u \in awaited
        PROVE  /\ TicksFor(u)' = TicksFor(u) /\ SoughtFor(u)' = SoughtFor(u)
               /\ CalledFor(u)' = CalledFor(u) /\ ~LeftFor(u)'
    <3>1. TicksFor(u)' = TicksFor(u)
      BY DEF TicksFor
    <3>2. SoughtFor(u)' = SoughtFor(u) /\ CalledFor(u)' = CalledFor(u)
      BY DEF SoughtFor, CalledFor, Rtos
    <3>3. ~LeftFor(u)'
      <4>1. \A v \in Timers : timerPc'[v] \in {"hash", "late", "late_call"} => handle'[v] >= 0 /\ v = t
        BY <1>2 DEF HandlesOwn
      <4>2. u \in Timers
        BY DEF HashTypes
      <4> QED BY <4>1, <4>2 DEF LeftFor, NoId, HandlesOwn
    <3> QED BY <3>1, <3>2, <3>3
  <2> QED BY <1>1, <2>1 DEF OnePlace
<1> QED BY <1>3, <1>4, <1>5, <1>6, <1>7 DEF UnmixedInv

\* The others are idle, and no expiry is left in cur_timeout_id for a task that
\* is not at the end of a start.
LEMMA Alone ==
  ASSUME TaskTypes, OneTask, NEW t \in Timers, timerPc[t] # "idle"
  PROVE  \A u \in Timers \ {t} : timerPc[u] = "idle"
BY DEF OneTask

LEMMA AloneNoneLeft ==
  ASSUME ExpiryInv, NEW t \in Timers, \A u \in Timers \ {t} : timerPc[u] = "idle",
         timerPc[t] \notin {"hash", "late", "late_call", "clear"}
  PROVE  curId = NoId
BY NoneLeft

LEMMA NotLeft ==
  ASSUME HandlesOwn, curId = NoId, NEW t \in Timers
  PROVE  ~LeftFor(t)
BY DEF HandlesOwn, LeftFor, NoId

LEMMA UnmixedBegin ==
  ASSUME TimerTypes, ~mixed, UnmixedInv, NEW t \in Timers, NEW c \in {"mod", "del"}, TimerBegin(t, c)
  PROVE  UnmixedInv'
<1>1. TaskTypes /\ HashTypes /\ OneTask /\ HandlesOwn /\ AwaitedInv /\ StepInv /\ ExpiryInv /\ OnePlace
  BY DEF UnmixedInv, TimerTypes
<1>2. /\ TimerGoto(t, "idle", "cancel") /\ call' = [call EXCEPT ![t] = c]
      /\ (\A u \in Timers : timerPc[u] = "idle") /\ t \notin awaited /\ (c = "mod" => t \in function)
      /\ mixed' = mixed /\ handle' = handle /\ started' = started /\ function' = function /\ hashed' = hashed
      /\ inStart' = inStart /\ curId' = curId /\ given' = given /\ ticking' = ticking
      /\ xpc' = xpc /\ xid' = xid /\ found' = found /\ awaited' = awaited
  BY DEF TimerBegin, timerVars, startVars, expiryVars
<1>3. curId' = NoId
  BY <1>1, <1>2, NoneLeft
<1>4. \A u \in awaited : ~LeftFor(u)
  BY <1>1, <1>2, <1>3, NotLeft DEF HashTypes
<1>5. HandlesOwn' /\ awaited \subseteq function'
  BY <1>1, <1>2 DEF HandlesOwn, AwaitedInv
<1>6. "cancel" \in Steps /\ call'[t] = c
  BY <1>1, <1>2 DEF Steps, TaskTypes
<1> QED BY <1>1, <1>2, <1>3, <1>4, <1>5, <1>6, UnmixedFrame

LEMMA UnmixedStop ==
  ASSUME TimerTypes, ~mixed, UnmixedInv, NEW t \in Timers, Stop(t)
  PROVE  UnmixedInv'
<1>1. TaskTypes /\ HashTypes /\ OneTask /\ HandlesOwn /\ AwaitedInv /\ StepInv /\ ExpiryInv /\ OnePlace
  BY DEF UnmixedInv, TimerTypes
<1>0. PICK c \in {"mod", "del"} : c = call[t]
  BY <1>1 DEF TaskTypes
<1>2. /\ TimerGoto(t, "stop", c) /\ ticking' = ticking \ {handle[t]}
      /\ handle' = handle /\ started' = started /\ function' = function /\ hashed' = hashed /\ inStart' = inStart /\ curId' = curId
      /\ given' = given /\ call' = call /\ mixed' = mixed /\ xpc' = xpc /\ xid' = xid /\ found' = found /\ awaited' = awaited
  BY <1>0, <1>1 DEF Stop, timerVars, startVars, expiryVars, Unlinked, AwaitedInv, StepInv, HashTypes, TimerGoto
<1>3. timerPc[t] = "stop" /\ \A u \in Timers \ {t} : timerPc[u] = "idle"
  BY <1>1, <1>2, Alone DEF TimerGoto
<1>4. curId' = NoId
  BY <1>1, <1>2, <1>3, AloneNoneLeft
<1>5. \A u \in awaited : ~LeftFor(u)
  BY <1>1, <1>2, <1>4, NotLeft DEF HashTypes
<1>6. HandlesOwn'
  BY <1>1, <1>2 DEF HandlesOwn
<1>7. awaited \subseteq function' /\ \A u \in awaited : handle'[u] = handle[u]
  BY <1>1, <1>2, <1>3 DEF AwaitedInv, TaskTypes, HashTypes, StepInv
<1>8. ticking' \subseteq ticking /\ \A u \in awaited : handle[u] \in ticking => handle[u] \in ticking'
  BY <1>1, <1>2, <1>3 DEF HandlesOwn, AwaitedInv, HashTypes, StepInv
<1>9. c \in Steps \ {"hash", "late_call"}
  BY <1>1 DEF Steps, TaskTypes
<1>10. t \notin awaited /\ (c = "mod" => t \in function)
  BY <1>0, <1>1, <1>3 DEF StepInv
<1> QED BY <1>0, <1>1, <1>2, <1>3, <1>4, <1>5, <1>6, <1>7, <1>8, <1>9, <1>10, UnmixedFrame

LEMMA UnmixedDelete ==
  ASSUME TimerTypes, ~mixed, UnmixedInv, NEW t \in Timers, Delete(t)
  PROVE  UnmixedInv'
<1>1. TaskTypes /\ HashTypes /\ OneTask /\ HandlesOwn /\ AwaitedInv /\ StepInv /\ ExpiryInv /\ OnePlace
  BY DEF UnmixedInv, TimerTypes
<1>2. /\ TimerGoto(t, "del", "idle") /\ function' = function \ {t} /\ handle' = [handle EXCEPT ![t] = 0]
      /\ hashed' = hashed /\ inStart' = inStart /\ curId' = curId /\ given' = given /\ ticking' = ticking /\ call' = call
      /\ mixed' = mixed /\ xpc' = xpc /\ xid' = xid /\ found' = found /\ awaited' = awaited
  BY <1>1 DEF Delete, timerVars, startVars, expiryVars, Unlinked, AwaitedInv, StepInv, HashTypes, TimerGoto
<1>3. timerPc[t] = "del" /\ \A u \in Timers \ {t} : timerPc[u] = "idle"
  BY <1>1, <1>2, Alone DEF TimerGoto
<1>4. curId' = NoId
  BY <1>1, <1>2, <1>3, AloneNoneLeft
<1>5. \A u \in awaited : ~LeftFor(u)
  BY <1>1, <1>2, <1>4, NotLeft DEF HashTypes
<1>6. HandlesOwn'
  BY <1>1, <1>2, TimerTypes DEF HandlesOwn, HandleInv, TimerTypes
<1>7. awaited \subseteq function' /\ \A u \in awaited : handle'[u] = handle[u]
  BY <1>1, <1>2, <1>3 DEF AwaitedInv, TaskTypes, HashTypes, StepInv
<1>8. ticking' \subseteq ticking /\ \A u \in awaited : handle[u] \in ticking => handle[u] \in ticking'
  BY <1>1, <1>2, <1>3 DEF HandlesOwn, AwaitedInv, HashTypes, StepInv
<1>9. "idle" \in Steps \ {"hash", "late_call"}
  BY <1>1 DEF Steps, TaskTypes
<1> QED BY <1>1, <1>2, <1>3, <1>4, <1>5, <1>6, <1>7, <1>8, <1>9, UnmixedFrame

LEMMA UnmixedCallNow ==
  ASSUME TimerTypes, ~mixed, UnmixedInv, NEW t \in Timers, CallNow(t)
  PROVE  UnmixedInv'
<1>1. TaskTypes /\ HashTypes /\ OneTask /\ HandlesOwn /\ AwaitedInv /\ StepInv /\ ExpiryInv /\ OnePlace
  BY DEF UnmixedInv, TimerTypes
<1>2. /\ TimerGoto(t, "mod", "idle")
      /\ handle' = handle /\ started' = started /\ function' = function /\ hashed' = hashed /\ inStart' = inStart /\ curId' = curId
      /\ given' = given /\ ticking' = ticking /\ call' = call /\ mixed' = mixed /\ xpc' = xpc /\ xid' = xid /\ found' = found /\ awaited' = awaited
  BY <1>1 DEF CallNow, timerVars, startVars, expiryVars, Unlinked, AwaitedInv, StepInv, HashTypes, TimerGoto
<1>3. timerPc[t] = "mod" /\ \A u \in Timers \ {t} : timerPc[u] = "idle"
  BY <1>1, <1>2, Alone DEF TimerGoto
<1>4. curId' = NoId
  BY <1>1, <1>2, <1>3, AloneNoneLeft
<1>5. \A u \in awaited : ~LeftFor(u)
  BY <1>1, <1>2, <1>4, NotLeft DEF HashTypes
<1>6. HandlesOwn'
  BY <1>1, <1>2 DEF HandlesOwn
<1>7. awaited \subseteq function' /\ \A u \in awaited : handle'[u] = handle[u]
  BY <1>1, <1>2, <1>3 DEF AwaitedInv, TaskTypes, HashTypes, StepInv
<1>8. ticking' \subseteq ticking /\ \A u \in awaited : handle[u] \in ticking => handle[u] \in ticking'
  BY <1>1, <1>2, <1>3 DEF HandlesOwn, AwaitedInv, HashTypes, StepInv
<1>9. "idle" \in Steps \ {"hash", "late_call"}
  BY <1>1 DEF Steps, TaskTypes
<1> QED BY <1>1, <1>2, <1>3, <1>4, <1>5, <1>6, <1>7, <1>8, <1>9, UnmixedFrame

LEMMA UnmixedStartFlag ==
  ASSUME TimerTypes, ~mixed, UnmixedInv, NEW t \in Timers, StartFlag(t)
  PROVE  UnmixedInv'
<1>1. TaskTypes /\ HashTypes /\ OneTask /\ HandlesOwn /\ AwaitedInv /\ StepInv /\ ExpiryInv /\ OnePlace
  BY DEF UnmixedInv, TimerTypes
<1>2. /\ TimerGoto(t, "mod", "start") /\ inStart' = TRUE
      /\ handle' = handle /\ started' = started /\ function' = function /\ hashed' = hashed /\ curId' = curId /\ given' = given
      /\ ticking' = ticking /\ call' = call /\ mixed' = mixed /\ xpc' = xpc /\ xid' = xid /\ found' = found /\ awaited' = awaited
  BY <1>1 DEF StartFlag, timerVars, startVars, expiryVars, Unlinked, AwaitedInv, StepInv, HashTypes, TimerGoto
<1>3. timerPc[t] = "mod" /\ \A u \in Timers \ {t} : timerPc[u] = "idle"
  BY <1>1, <1>2, Alone DEF TimerGoto
<1>4. curId' = NoId
  BY <1>1, <1>2, <1>3, AloneNoneLeft
<1>5. \A u \in awaited : ~LeftFor(u)
  BY <1>1, <1>2, <1>4, NotLeft DEF HashTypes
<1>6. HandlesOwn'
  BY <1>1, <1>2 DEF HandlesOwn
<1>7. awaited \subseteq function' /\ \A u \in awaited : handle'[u] = handle[u]
  BY <1>1, <1>2, <1>3 DEF AwaitedInv, TaskTypes, HashTypes, StepInv
<1>8. ticking' \subseteq ticking /\ \A u \in awaited : handle[u] \in ticking => handle[u] \in ticking'
  BY <1>1, <1>2, <1>3 DEF HandlesOwn, AwaitedInv, HashTypes, StepInv
<1>9. "start" \in Steps \ {"hash", "late_call"}
  BY <1>1 DEF Steps, TaskTypes
<1> QED BY <1>1, <1>2, <1>3, <1>4, <1>5, <1>6, <1>7, <1>8, <1>9, UnmixedFrame DEF StepInv

LEMMA UnmixedClearFlag ==
  ASSUME TimerTypes, ~mixed, UnmixedInv, NEW t \in Timers, ClearFlag(t)
  PROVE  UnmixedInv'
<1>1. TaskTypes /\ HashTypes /\ OneTask /\ HandlesOwn /\ AwaitedInv /\ StepInv /\ ExpiryInv /\ OnePlace
  BY DEF UnmixedInv, TimerTypes
<1>2. /\ TimerGoto(t, "clear", "done") /\ curId' = NoId
      /\ handle' = handle /\ started' = started /\ function' = function /\ hashed' = hashed /\ inStart' = inStart /\ given' = given
      /\ ticking' = ticking /\ call' = call /\ mixed' = mixed /\ xpc' = xpc /\ xid' = xid /\ found' = found /\ awaited' = awaited
  BY <1>1 DEF ClearFlag, timerVars, startVars, expiryVars, Unlinked, AwaitedInv, StepInv, HashTypes, TimerGoto
<1>3. timerPc[t] = "clear" /\ \A u \in Timers \ {t} : timerPc[u] = "idle"
  BY <1>1, <1>2, Alone DEF TimerGoto
<1>4. curId' = NoId
  BY <1>2
<1>5. \A u \in awaited : ~LeftFor(u)
  BY <1>1, <1>3 DEF StepInv, LeftFor, HashTypes
<1>6. HandlesOwn'
  BY <1>1, <1>2 DEF HandlesOwn
<1>7. awaited \subseteq function' /\ \A u \in awaited : handle'[u] = handle[u]
  BY <1>1, <1>2, <1>3 DEF AwaitedInv, TaskTypes, HashTypes, StepInv
<1>8. ticking' \subseteq ticking /\ \A u \in awaited : handle[u] \in ticking => handle[u] \in ticking'
  BY <1>1, <1>2, <1>3 DEF HandlesOwn, AwaitedInv, HashTypes, StepInv
<1>9. "done" \in Steps \ {"hash", "late_call"}
  BY <1>1 DEF Steps, TaskTypes
<1> QED BY <1>1, <1>2, <1>3, <1>4, <1>5, <1>6, <1>7, <1>8, <1>9, UnmixedFrame DEF StepInv

LEMMA UnmixedEndCall ==
  ASSUME TimerTypes, ~mixed, UnmixedInv, NEW t \in Timers, EndCall(t)
  PROVE  UnmixedInv'
<1>1. TaskTypes /\ HashTypes /\ OneTask /\ HandlesOwn /\ AwaitedInv /\ StepInv /\ ExpiryInv /\ OnePlace
  BY DEF UnmixedInv, TimerTypes
<1>2. /\ TimerGoto(t, "done", "idle") /\ inStart' = FALSE
      /\ handle' = handle /\ started' = started /\ function' = function /\ hashed' = hashed /\ curId' = curId /\ given' = given
      /\ ticking' = ticking /\ call' = call /\ mixed' = mixed /\ xpc' = xpc /\ xid' = xid /\ found' = found /\ awaited' = awaited
  BY <1>1 DEF EndCall, timerVars, startVars, expiryVars, Unlinked, AwaitedInv, StepInv, HashTypes, TimerGoto
<1>3. timerPc[t] = "done" /\ \A u \in Timers \ {t} : timerPc[u] = "idle"
  BY <1>1, <1>2, Alone DEF TimerGoto
<1>4. curId' = NoId
  BY <1>1, <1>2, <1>3, AloneNoneLeft
<1>5. \A u \in awaited : ~LeftFor(u)
  BY <1>1, <1>2, <1>4, NotLeft DEF HashTypes
<1>6. HandlesOwn'
  BY <1>1, <1>2 DEF HandlesOwn
<1>7. awaited \subseteq function' /\ \A u \in awaited : handle'[u] = handle[u]
  BY <1>1, <1>2, <1>3 DEF AwaitedInv, TaskTypes, HashTypes, StepInv
<1>8. ticking' \subseteq ticking /\ \A u \in awaited : handle[u] \in ticking => handle[u] \in ticking'
  BY <1>1, <1>2, <1>3 DEF HandlesOwn, AwaitedInv, HashTypes, StepInv
<1>9. "idle" \in Steps \ {"hash", "late_call"}
  BY <1>1 DEF Steps, TaskTypes
<1> QED BY <1>1, <1>2, <1>3, <1>4, <1>5, <1>6, <1>7, <1>8, <1>9, UnmixedFrame

LEMMA UnmixedCancel ==
  ASSUME TimerTypes, ~mixed, UnmixedInv, NEW t \in Timers, Cancel(t)
  PROVE  UnmixedInv'
<1>1. TaskTypes /\ HashTypes /\ OneTask /\ HandlesOwn /\ AwaitedInv /\ StepInv /\ ExpiryInv /\ OnePlace
  BY DEF UnmixedInv, TimerTypes
<1>2. PICK c \in {"stop", call[t]} : TimerGoto(t, "cancel", c)
  BY DEF Cancel
<1>3. timerPc[t] = "cancel" /\ \A u \in Timers \ {t} : timerPc[u] = "idle"
  BY <1>1, <1>2, Alone DEF TimerGoto
<1>a. t \notin awaited /\ t \notin hashed
  BY <1>1, <1>3 DEF StepInv, AwaitedInv
<1>b. /\ awaited' = awaited /\ hashed' = hashed /\ handle' = handle /\ function' = function
      /\ inStart' = inStart /\ curId' = curId /\ given' = given /\ ticking' = ticking
      /\ call' = call /\ mixed' = mixed /\ xpc' = xpc /\ xid' = xid /\ found' = found
  BY <1>a DEF Cancel, Unlinked, startVars, expiryVars
<1>4. curId' = NoId
  BY <1>1, <1>b, <1>3, AloneNoneLeft
<1>5. \A u \in awaited : ~LeftFor(u)
  BY <1>1, <1>b, <1>4, NotLeft DEF HashTypes
<1>6. HandlesOwn'
  BY <1>1, <1>b DEF HandlesOwn
<1>7. awaited \subseteq function'
  BY <1>1, <1>b DEF AwaitedInv
<1>8. c \in {"stop", "mod", "del"} /\ c \in Steps /\ (c = "mod" => t \in function)
  BY <1>1, <1>2, <1>3 DEF Steps, TaskTypes, StepInv
<1>9. call[t] = "mod" => t \in function
  BY <1>1, <1>3 DEF StepInv
<1> QED BY <1>1, <1>2, <1>3, <1>a, <1>b, <1>4, <1>5, <1>6, <1>7, <1>8, <1>9, UnmixedFrame

\* After a step of the task of t the others are still idle.
LEMMA StepFrame ==
  ASSUME TaskTypes, NEW t \in Timers, NEW from, NEW to \in Steps, TimerGoto(t, from, to),
         \A u \in Timers \ {t} : timerPc[u] = "idle",
         \A u \in Timers \ {t} : found'[u] = NoTimer,
         to = "hash" => t \in awaited', to = "clear" => t \notin awaited',
         to \in {"hash", "late", "late_call", "clear"}, inStart',
         IF to = "late_call" THEN found'[t] = t /\ curId' = handle'[t] ELSE found'[t] = NoTimer
  PROVE  OneTask' /\ StepInv'
<1>1. /\ timerPc'[t] = to /\ \A u \in Timers \ {t} : timerPc'[u] = "idle"
  BY Goes DEF TaskTypes
<1>2. OneTask'
  BY <1>1 DEF OneTask
<1>3. ASSUME NEW u \in Timers
      PROVE  /\ timerPc'[u] = "hash" => u \in awaited'
             /\ timerPc'[u] \in {"cancel", "stop", "mod", "del", "start", "clear"} => u \notin awaited'
             /\ timerPc'[u] \in {"cancel", "stop"} /\ call'[u] = "mod" => u \in function'
             /\ timerPc'[u] \in {"mod", "start"} => u \in function'
             /\ timerPc'[u] \in {"start", "hash", "late", "late_call", "clear", "done"} => inStart'
             /\ IF timerPc'[u] = "late_call" THEN found'[u] = u /\ curId' = handle'[u] ELSE found'[u] = NoTimer
  <2>1. CASE u = t
    BY <1>1, <2>1
  <2>2. CASE u # t
    BY <1>1, <2>2
  <2> QED BY <2>1, <2>2
<1> QED BY <1>2, <1>3 DEF StepInv, NoTimer

LEMMA UnmixedStart ==
  ASSUME TimerTypes, ~mixed, UnmixedInv, NEW t \in Timers, StartTimer(t)
  PROVE  UnmixedInv'
<1>1. /\ HandleInv /\ TaskTypes /\ HashTypes /\ OneTask /\ HandlesOwn /\ AwaitedInv /\ StepInv
      /\ ExpiryInv /\ OnePlace
  BY DEF UnmixedInv, TimerTypes
<1>2. PICK h : h = given + 1
  OBVIOUS
<1>3. /\ TimerGoto(t, "start", "hash") /\ handle' = [handle EXCEPT ![t] = h]
      /\ ticking' = ticking \union {h} /\ awaited' = awaited \union {t}
      /\ function' = function /\ hashed' = hashed /\ inStart' = inStart /\ curId' = curId
      /\ xpc' = xpc /\ xid' = xid /\ found' = found
  BY <1>2 DEF StartTimer, expiryVars
<1>4. /\ timerPc[t] = "start" /\ timerPc'[t] = "hash"
      /\ \A u \in Timers \ {t} : timerPc[u] = "idle" /\ timerPc'[u] = "idle"
  BY <1>1, <1>3, Alone DEF TimerGoto, TaskTypes
<1>5. /\ h \in Nat \ {0} /\ h # NoId /\ h \notin ticking /\ xid # h
      /\ \A u \in Timers : handle[u] # h
  BY <1>1, <1>2 DEF HandleInv, NoId
<1>6. handle'[t] = h /\ \A u \in Timers \ {t} : handle'[u] = handle[u]
  BY <1>1, <1>3 DEF HandleInv
<1>7. t \notin awaited /\ t \in function /\ inStart /\ awaited \subseteq Timers
  BY <1>1, <1>4 DEF StepInv, HashTypes
<1>8. curId = NoId
  BY <1>1, <1>4, AloneNoneLeft
<1>9. HandlesOwn'
  BY <1>1, <1>5, <1>6 DEF HandlesOwn
<1>10. AwaitedInv'
  <2>1. hashed = awaited
    BY <1>1, <1>4, <1>7 DEF AwaitedInv
  <2>2. hashed' = {u \in awaited' : timerPc'[u] # "hash"}
    BY <1>3, <1>4, <1>7, <2>1
  <2>3. \A u \in awaited' : handle'[u] # 0
    BY <1>1, <1>3, <1>5, <1>6, <1>7 DEF AwaitedInv
  <2>4. awaited' \subseteq function'
    BY <1>1, <1>3, <1>7 DEF AwaitedInv
  <2> QED BY <2>2, <2>3, <2>4 DEF AwaitedInv
<1>11. OneTask' /\ StepInv'
  <2>1. \A u \in Timers : found'[u] = NoTimer
    BY <1>1, <1>3, <1>4 DEF StepInv
  <2>2. "hash" \in Steps /\ t \in awaited' /\ inStart'
    BY <1>3, <1>7 DEF Steps
  <2> QED BY <1>1, <1>3, <1>4, <2>1, <2>2, StepFrame
<1>12. ExpiryInv'
  <2>1. \A k \in ticking' : \E u \in awaited' : k = handle'[u]
    <3>1. ASSUME NEW k \in ticking PROVE \E u \in awaited' : k = handle'[u]
      <4>1. PICK u \in awaited : k = handle[u]
        BY <1>1 DEF ExpiryInv
      <4> QED BY <1>3, <1>6, <1>7, <4>1
    <3> QED BY <1>3, <1>6, <3>1
  <2>2. xpc' = "find" => \E u \in awaited' : xid' = handle'[u]
    BY <1>1, <1>3, <1>6, <1>7 DEF ExpiryInv
  <2>3. IF xpc' = "call" THEN found'[Rtos] \in hashed' ELSE found'[Rtos] = NoTimer
    BY <1>1, <1>3 DEF ExpiryInv
  <2> QED BY <1>3, <1>8, <2>1, <2>2, <2>3 DEF ExpiryInv, NoId, NoTimer, Rtos
<1>13. OnePlace'
  <2>1. CalledFor(t) => FALSE
    BY <1>1, <1>7 DEF CalledFor, ExpiryInv, AwaitedInv
  <2>2. /\ TicksFor(t)' /\ ~SoughtFor(t)' /\ ~CalledFor(t)' /\ ~LeftFor(t)'
    BY <1>3, <1>5, <1>6, <1>8, <2>1 DEF TicksFor, SoughtFor, CalledFor, LeftFor, Rtos
  <2>3. ASSUME NEW u \in awaited
        PROVE  /\ TicksFor(u)' = TicksFor(u) /\ SoughtFor(u)' = SoughtFor(u)
               /\ CalledFor(u)' = CalledFor(u) /\ LeftFor(u)' = LeftFor(u)
    <3>1. u \in Timers \ {t}
      BY <1>7
    <3>2. handle'[u] = handle[u] /\ handle[u] # h /\ timerPc'[u] = timerPc[u]
      BY <1>4, <1>5, <1>6, <3>1
    <3>3. TicksFor(u)' = TicksFor(u)
      BY <1>3, <3>2 DEF TicksFor
    <3>4. SoughtFor(u)' = SoughtFor(u) /\ CalledFor(u)' = CalledFor(u)
      BY <1>3, <3>2 DEF SoughtFor, CalledFor, Rtos
    <3>5. LeftFor(u)' = LeftFor(u)
      BY <1>3, <3>2 DEF LeftFor
    <3> QED BY <3>3, <3>4, <3>5
  <2> QED BY <1>1, <1>3, <2>2, <2>3 DEF OnePlace
<1> QED BY <1>9, <1>10, <1>11, <1>12, <1>13 DEF UnmixedInv

LEMMA UnmixedHash ==
  ASSUME TimerTypes, ~mixed, UnmixedInv, NEW t \in Timers, Hash(t)
  PROVE  UnmixedInv'
<1>1. /\ HandleInv /\ TaskTypes /\ HashTypes /\ OneTask /\ HandlesOwn /\ AwaitedInv /\ StepInv
      /\ ExpiryInv /\ OnePlace
  BY DEF UnmixedInv, TimerTypes
<1>3. /\ TimerGoto(t, "hash", "late") /\ hashed' = hashed \union {t}
      /\ handle' = handle /\ ticking' = ticking /\ awaited' = awaited
      /\ function' = function /\ inStart' = inStart /\ curId' = curId
      /\ xpc' = xpc /\ xid' = xid /\ found' = found
  BY DEF Hash, startVars, expiryVars
<1>4. /\ timerPc[t] = "hash" /\ timerPc'[t] = "late"
      /\ \A u \in Timers \ {t} : timerPc[u] = "idle" /\ timerPc'[u] = "idle"
  BY <1>1, <1>3, Alone DEF TimerGoto, TaskTypes
<1>5. t \in awaited /\ inStart /\ awaited \subseteq Timers
  BY <1>1, <1>4 DEF StepInv, HashTypes
<1>6. HandlesOwn'
  BY <1>1, <1>3 DEF HandlesOwn
<1>7. AwaitedInv'
  <2>1. hashed' = {u \in awaited' : timerPc'[u] # "hash"}
    BY <1>1, <1>3, <1>4, <1>5 DEF AwaitedInv
  <2> QED BY <1>1, <1>3, <2>1 DEF AwaitedInv
<1>8. OneTask' /\ StepInv'
  <2>1. \A u \in Timers : found'[u] = NoTimer
    BY <1>1, <1>3, <1>4 DEF StepInv
  <2>2. "late" \in Steps /\ inStart'
    BY <1>3, <1>5 DEF Steps
  <2> QED BY <1>1, <1>3, <1>4, <2>1, <2>2, StepFrame
<1>9. ASSUME NEW u \in Timers
      PROVE  /\ TicksFor(u)' = TicksFor(u) /\ SoughtFor(u)' = SoughtFor(u)
             /\ CalledFor(u)' = CalledFor(u) /\ LeftFor(u)' = LeftFor(u)
             /\ timerPc[u] # "clear"
  <2>1. TicksFor(u)' = TicksFor(u) /\ SoughtFor(u)' = SoughtFor(u) /\ CalledFor(u)' = CalledFor(u)
    BY <1>3 DEF TicksFor, SoughtFor, CalledFor, Rtos
  <2>2. CASE u = t
    BY <1>3, <1>4, <2>1, <2>2 DEF LeftFor
  <2>3. CASE u # t
    BY <1>3, <1>4, <2>1, <2>3 DEF LeftFor
  <2> QED BY <2>2, <2>3
<1>10. ExpiryInv'
  <2>1. curId # NoId => \E u \in Timers : curId = handle[u] /\ LeftFor(u) /\ u \in awaited
    BY <1>1, <1>9 DEF ExpiryInv
  <2>2. curId' # NoId => \E u \in Timers : curId' = handle'[u] /\ (timerPc'[u] = "clear" \/ (LeftFor(u)' /\ u \in awaited'))
    BY <1>3, <1>9, <2>1
  <2>3. IF xpc' = "call" THEN found'[Rtos] \in hashed' ELSE found'[Rtos] = NoTimer
    BY <1>1, <1>3 DEF ExpiryInv
  <2>4. /\ \A h \in ticking' : \E u \in awaited' : h = handle'[u]
        /\ xpc' = "find" => \E u \in awaited' : xid' = handle'[u]
    BY <1>1, <1>3 DEF ExpiryInv
  <2> QED BY <2>2, <2>3, <2>4 DEF ExpiryInv, NoId, NoTimer, Rtos
<1>11. OnePlace'
  BY <1>1, <1>3, <1>5, <1>9 DEF OnePlace
<1> QED BY <1>6, <1>7, <1>8, <1>10, <1>11 DEF UnmixedInv

\* What is left in cur_timeout_id is left for the timer that starts.
LEMMA LeftForIt ==
  ASSUME ExpiryInv, NEW t \in Timers, \A u \in Timers \ {t} : timerPc[u] = "idle",
         timerPc[t] # "clear", curId # NoId
  PROVE  LeftFor(t) /\ t \in awaited
<1>1. PICK u \in Timers : curId = handle[u] /\ (timerPc[u] = "clear" \/ (LeftFor(u) /\ u \in awaited))
  BY DEF ExpiryInv
<1>2. u = t
  BY <1>1 DEF LeftFor
<1> QED BY <1>1, <1>2

LEMMA UnmixedLate ==
  ASSUME TimerTypes, ~mixed, UnmixedInv, NEW t \in Timers, Late(t)
  PROVE  UnmixedInv'
<1>1. /\ HandleInv /\ TaskTypes /\ HashTypes /\ OneTask /\ HandlesOwn /\ AwaitedInv /\ StepInv
      /\ ExpiryInv /\ OnePlace
  BY DEF UnmixedInv, TimerTypes
<1>2. /\ handle' = handle /\ ticking' = ticking /\ awaited' = awaited /\ hashed' = hashed
      /\ function' = function /\ inStart' = inStart /\ curId' = curId /\ call' = call
      /\ xpc' = xpc /\ xid' = xid
  BY DEF Late, timerVars, startVars, expiryVars
<1>3. timerPc[t] = "late" /\ \A u \in Timers \ {t} : timerPc[u] = "idle"
  BY <1>1, Alone DEF Late, TimerGoto
<1>4. HandlesOwn' /\ awaited \subseteq Timers /\ inStart
  BY <1>1, <1>2, <1>3 DEF HandlesOwn, HashTypes, StepInv
<1>5. CASE curId = NoId
  <2>1. TimerGoto(t, "late", "done") /\ found' = found
    BY <1>5 DEF Late
  <2>2. \A u \in awaited : ~LeftFor(u)
    BY <1>1, <1>4, <1>5, NotLeft
  <2>3. "done" \in Steps \ {"hash", "late_call"} /\ awaited \subseteq function'
    BY <1>1, <1>2 DEF Steps, AwaitedInv
  <2> QED BY <1>1, <1>2, <1>3, <1>4, <1>5, <2>1, <2>2, <2>3, UnmixedFrame
<1>6. CASE curId # NoId
  <2>1. LeftFor(t) /\ t \in awaited /\ curId = handle[t] /\ handle[t] # 0 /\ t \in hashed
    <3>1. LeftFor(t) /\ t \in awaited
      BY <1>1, <1>3, <1>6, LeftForIt
    <3> QED BY <1>1, <1>3, <3>1 DEF LeftFor, AwaitedInv
  <2>2. ByHandle(curId) = {t}
    BY <1>1, <2>1 DEF ByHandle, HandlesOwn, HashTypes
  <2>3. TimerGoto(t, "late", "late_call") /\ found' = [found EXCEPT ![t] = t]
    BY <1>6, <2>2 DEF Late
  <2>4. /\ timerPc'[t] = "late_call" /\ \A u \in Timers \ {t} : timerPc'[u] = "idle"
    BY <1>1, <1>3, <2>3 DEF TimerGoto, TaskTypes
  <2>5. found'[t] = t /\ \A a \in (Timers \union {Rtos}) \ {t} : found'[a] = found[a]
    BY <1>1, <2>3 DEF TaskTypes
  <2>6. found'[Rtos] = found[Rtos]
    BY <2>5, TimerSizes
  <2>7. AwaitedInv'
    <3>1. hashed' = {u \in awaited' : timerPc'[u] # "hash"}
      <4>1. \A u \in awaited : timerPc[u] # "hash" /\ timerPc'[u] # "hash"
        BY <1>3, <1>4, <2>4
      <4> QED BY <1>1, <1>2, <4>1 DEF AwaitedInv
    <3> QED BY <1>1, <1>2, <3>1 DEF AwaitedInv
  <2>8. OneTask' /\ StepInv'
    <3>1. \A u \in Timers \ {t} : found'[u] = NoTimer
      BY <1>1, <1>3, <2>5 DEF StepInv
    <3>2. "late_call" \in Steps /\ inStart' /\ curId' = handle'[t]
      BY <1>2, <1>4, <2>1 DEF Steps
    <3> QED BY <1>1, <1>3, <2>3, <2>5, <3>1, <3>2, StepFrame
  <2>9. ASSUME NEW u \in Timers
        PROVE  /\ TicksFor(u)' = TicksFor(u) /\ SoughtFor(u)' = SoughtFor(u)
               /\ CalledFor(u)' = CalledFor(u) /\ LeftFor(u)' = LeftFor(u)
    <3>1. TicksFor(u)' = TicksFor(u) /\ SoughtFor(u)' = SoughtFor(u) /\ CalledFor(u)' = CalledFor(u)
      BY <1>2, <2>6 DEF TicksFor, SoughtFor, CalledFor, Rtos
    <3>2. CASE u = t
      BY <1>2, <1>3, <2>4, <3>1, <3>2 DEF LeftFor
    <3>3. CASE u # t
      BY <1>2, <1>3, <2>4, <3>1, <3>3 DEF LeftFor
    <3> QED BY <3>2, <3>3
  <2>10. ExpiryInv'
    <3>1. curId' # NoId => \E u \in Timers : curId' = handle'[u] /\ (timerPc'[u] = "clear" \/ (LeftFor(u)' /\ u \in awaited'))
      BY <1>2, <2>1, <2>9
    <3>2. IF xpc' = "call" THEN found'[Rtos] \in hashed' ELSE found'[Rtos] = NoTimer
      BY <1>1, <1>2, <2>6 DEF ExpiryInv
    <3>3. /\ \A h \in ticking' : \E u \in awaited' : h = handle'[u]
          /\ xpc' = "find" => \E u \in awaited' : xid' = handle'[u]
      BY <1>1, <1>2 DEF ExpiryInv
    <3> QED BY <3>1, <3>2, <3>3 DEF ExpiryInv, NoId, NoTimer, Rtos
  <2>11. OnePlace'
    BY <1>1, <1>2, <1>4, <2>9 DEF OnePlace
  <2> QED BY <1>4, <2>7, <2>8, <2>10, <2>11 DEF UnmixedInv
<1> QED BY <1>5, <1>6

LEMMA UnmixedLateCall ==
  ASSUME TimerTypes, ~mixed, UnmixedInv, NEW t \in Timers, LateCall(t)
  PROVE  UnmixedInv'
<1>1. /\ HandleInv /\ TaskTypes /\ HashTypes /\ OneTask /\ HandlesOwn /\ AwaitedInv /\ StepInv
      /\ ExpiryInv /\ OnePlace
  BY DEF UnmixedInv, TimerTypes
<1>3. timerPc[t] = "late_call" /\ \A u \in Timers \ {t} : timerPc[u] = "idle"
  BY <1>1, Alone DEF LateCall, TimerGoto
<1>4. found[t] = t /\ curId = handle[t] /\ curId # NoId /\ inStart
  BY <1>1, <1>3 DEF StepInv, HandlesOwn, NoId
<1>5. LeftFor(t) /\ t \in awaited /\ t \in function /\ awaited \subseteq Timers
  BY <1>1, <1>3, <1>4, LeftForIt DEF AwaitedInv, HashTypes
<1>6. ~TicksFor(t) /\ ~SoughtFor(t) /\ ~CalledFor(t)
  BY <1>1, <1>5 DEF OnePlace
<1>2. /\ TimerGoto(t, "late_call", "clear") /\ found' = [found EXCEPT ![t] = NoTimer]
      /\ hashed' = hashed \ {t} /\ awaited' = awaited \ {t}
      /\ handle' = handle /\ ticking' = ticking
      /\ function' = function /\ inStart' = inStart /\ curId' = curId
      /\ xpc' = xpc /\ xid' = xid
  BY <1>4, <1>5 DEF LateCall, Expired, Unlinked, startVars, expiryVars
<1>7. /\ timerPc'[t] = "clear" /\ \A u \in Timers \ {t} : timerPc'[u] = "idle"
  BY <1>1, <1>2, <1>3 DEF TimerGoto, TaskTypes
<1>8. found'[t] = NoTimer /\ \A a \in (Timers \union {Rtos}) \ {t} : found'[a] = found[a]
  BY <1>1, <1>2 DEF TaskTypes
<1>9. found'[Rtos] = found[Rtos]
  BY <1>8, TimerSizes
<1>10. HandlesOwn'
  BY <1>1, <1>2 DEF HandlesOwn
<1>11. AwaitedInv'
  <2>1. \A u \in awaited \ {t} : timerPc[u] # "hash" /\ timerPc'[u] # "hash"
    BY <1>3, <1>5, <1>7
  <2>2. hashed' = {u \in awaited' : timerPc'[u] # "hash"}
    BY <1>1, <1>2, <2>1 DEF AwaitedInv
  <2> QED BY <1>1, <1>2, <2>2 DEF AwaitedInv
<1>12. OneTask' /\ StepInv'
  <2>1. \A u \in Timers \ {t} : found'[u] = NoTimer
    BY <1>1, <1>3, <1>8 DEF StepInv
  <2>2. "clear" \in Steps /\ inStart' /\ t \notin awaited'
    BY <1>2, <1>4 DEF Steps
  <2> QED BY <1>1, <1>2, <1>3, <1>8, <2>1, <2>2, StepFrame
<1>13. ExpiryInv'
  <2>1. \A h \in ticking' : \E u \in awaited' : h = handle'[u]
    <3>1. ASSUME NEW h \in ticking PROVE \E u \in awaited \ {t} : h = handle[u]
      <4>1. PICK u \in awaited : h = handle[u]
        BY <1>1 DEF ExpiryInv
      <4>2. u # t
        BY <1>6, <4>1 DEF TicksFor
      <4> QED BY <4>1, <4>2
    <3> QED BY <1>2, <3>1
  <2>2. xpc' = "find" => \E u \in awaited' : xid' = handle'[u]
    <3>1. ASSUME xpc = "find" PROVE \E u \in awaited \ {t} : xid = handle[u]
      <4>1. PICK u \in awaited : xid = handle[u]
        BY <1>1, <3>1 DEF ExpiryInv
      <4>2. u # t
        BY <1>6, <3>1, <4>1 DEF SoughtFor
      <4> QED BY <4>1, <4>2
    <3> QED BY <1>2, <3>1
  <2>3. IF xpc' = "call" THEN found'[Rtos] \in hashed' ELSE found'[Rtos] = NoTimer
    BY <1>1, <1>2, <1>6, <1>9 DEF ExpiryInv, CalledFor
  <2>4. curId' = handle'[t] /\ timerPc'[t] = "clear"
    BY <1>2, <1>4, <1>7
  <2> QED BY <2>1, <2>2, <2>3, <2>4 DEF ExpiryInv, NoId, NoTimer, Rtos
<1>14. OnePlace'
  <2>1. ASSUME NEW u \in awaited \ {t}
        PROVE  /\ TicksFor(u)' = TicksFor(u) /\ SoughtFor(u)' = SoughtFor(u)
               /\ CalledFor(u)' = CalledFor(u) /\ LeftFor(u)' = LeftFor(u)
    <3>1. TicksFor(u)' = TicksFor(u) /\ SoughtFor(u)' = SoughtFor(u) /\ CalledFor(u)' = CalledFor(u)
      BY <1>2, <1>9 DEF TicksFor, SoughtFor, CalledFor, Rtos
    <3>2. timerPc[u] = "idle" /\ timerPc'[u] = "idle"
      BY <1>3, <1>5, <1>7
    <3> QED BY <3>1, <3>2 DEF LeftFor
  <2> QED BY <1>1, <1>2, <2>1 DEF OnePlace
<1> QED BY <1>10, <1>11, <1>12, <1>13, <1>14 DEF UnmixedInv

\* What the thread of the RTOS leaves to the tasks.
LEMMA UnmixedRtos ==
  ASSUME TimerTypes, ~mixed, UnmixedInv, Expiry
  PROVE  UnmixedInv'
<1>1. /\ HandleInv /\ TaskTypes /\ HashTypes /\ OneTask /\ HandlesOwn /\ AwaitedInv /\ StepInv
      /\ ExpiryInv /\ OnePlace
  BY DEF UnmixedInv, TimerTypes
<1>2. /\ handle' = handle /\ function' = function /\ inStart' = inStart
      /\ timerPc' = timerPc /\ call' = call
  BY DEF Expiry, TimeUp, Find, Call, timerVars, startVars, taskVars
<1>3. OneTask' /\ HandlesOwn'
  BY <1>1, <1>2 DEF OneTask, HandlesOwn
<1>4. awaited \subseteq Timers /\ hashed \subseteq awaited /\ awaited \subseteq function /\ Rtos \notin Timers
      /\ NoTimer \notin Timers
  BY <1>1, TimerSizes DEF HashTypes, AwaitedInv
<1>5. ASSUME NEW h \in ticking, TimeUp(h) PROVE UnmixedInv'
  <2>1. /\ ticking' = ticking \ {h} /\ xpc = "idle" /\ xpc' = "find" /\ xid' = h
        /\ hashed' = hashed /\ curId' = curId /\ found' = found /\ awaited' = awaited
    BY <1>5 DEF TimeUp, timerVars
  <2>2. PICK u \in awaited : h = handle[u]
    BY <1>1 DEF ExpiryInv
  <2>3. \A w \in awaited : handle[w] = h => w = u
    BY <1>1, <1>4, <2>2 DEF HandlesOwn, AwaitedInv
  <2>4. AwaitedInv' /\ StepInv'
    BY <1>1, <1>2, <2>1 DEF AwaitedInv, StepInv, NoTimer
  <2>5. ExpiryInv'
    <3>1. \A k \in ticking' : \E w \in awaited' : k = handle'[w]
      BY <1>1, <1>2, <2>1 DEF ExpiryInv
    <3>2. \E w \in awaited' : xid' = handle'[w]
      BY <1>2, <2>1, <2>2
    <3>3. found'[Rtos] = NoTimer
      BY <1>1, <2>1 DEF ExpiryInv
    <3>4. \A w \in Timers : LeftFor(w)' = LeftFor(w)
      BY <1>2, <2>1 DEF LeftFor
    <3>5. curId' # NoId => \E w \in Timers : curId' = handle'[w] /\ (timerPc'[w] = "clear" \/ (LeftFor(w)' /\ w \in awaited'))
      BY <1>1, <1>2, <2>1, <3>4 DEF ExpiryInv
    <3> QED BY <2>1, <3>1, <3>2, <3>3, <3>5 DEF ExpiryInv, NoId, NoTimer, Rtos
  <2>6. OnePlace'
    <3>1. ASSUME NEW w \in awaited
          PROVE  /\ TicksFor(w)' \/ SoughtFor(w)' \/ CalledFor(w)' \/ LeftFor(w)'
                 /\ TicksFor(w)' => ~SoughtFor(w)' /\ ~CalledFor(w)' /\ ~LeftFor(w)'
                 /\ LeftFor(w)' => ~SoughtFor(w)' /\ ~CalledFor(w)'
      <4>1. LeftFor(w)' = LeftFor(w) /\ ~CalledFor(w)' /\ ~CalledFor(w) /\ ~SoughtFor(w)
        BY <1>2, <2>1 DEF LeftFor, CalledFor, SoughtFor
      <4>2. CASE w = u
        <5>1. TicksFor(w) /\ ~TicksFor(w)' /\ SoughtFor(w)'
          BY <1>2, <2>1, <2>2, <4>2 DEF TicksFor, SoughtFor
        <5> QED BY <1>1, <4>1, <5>1 DEF OnePlace
      <4>3. CASE w # u
        <5>1. TicksFor(w)' = TicksFor(w) /\ ~SoughtFor(w)'
          BY <1>2, <2>1, <2>3, <4>3 DEF TicksFor, SoughtFor
        <5> QED BY <1>1, <4>1, <5>1 DEF OnePlace
      <4> QED BY <4>2, <4>3
    <3> QED BY <2>1, <3>1 DEF OnePlace
  <2> QED BY <1>3, <2>4, <2>5, <2>6 DEF UnmixedInv
<1>6. CASE Find
  <2>1. /\ xpc = "find" /\ ticking' = ticking /\ hashed' = hashed /\ awaited' = awaited /\ xid' = xid
    BY <1>6 DEF Find, timerVars
  <2>2. PICK u \in awaited : xid = handle[u]
    BY <1>1, <2>1 DEF ExpiryInv
  <2>3. \A w \in Timers : handle[w] = xid => w = u
    BY <1>1, <1>4, <2>2 DEF HandlesOwn, AwaitedInv
  <2>4. SoughtFor(u) /\ ~TicksFor(u) /\ ~CalledFor(u) /\ ~LeftFor(u)
    BY <1>1, <2>1, <2>2 DEF OnePlace, SoughtFor, CalledFor
  <2>5. AwaitedInv'
    BY <1>1, <1>2, <2>1 DEF AwaitedInv
  <2>6. CASE Missed(xid) /\ xpc' = "idle" /\ found' = found
    <3>1. timerPc[u] = "hash"
      BY <1>1, <2>2, <2>6 DEF Missed, ByHandle, AwaitedInv
    <3>2. inStart /\ \A w \in Timers \ {u} : timerPc[w] = "idle"
      BY <1>1, <1>4, <3>1, Alone DEF StepInv
    <3>3. curId = NoId
      BY <1>1, <1>4, <2>4, <3>1, <3>2, LeftForIt
    <3>4. curId' = xid
      BY <2>6, <3>2, <3>3 DEF Missed
    <3>5. StepInv'
      <4>1. \A w \in Timers : timerPc[w] # "late_call"
        BY <3>1, <3>2
      <4> QED BY <1>1, <1>2, <2>1, <2>6, <4>1 DEF StepInv, NoTimer
    <3>6. LeftFor(u)'
      BY <1>2, <2>2, <3>1, <3>4 DEF LeftFor
    <3>7. ExpiryInv'
      <4>1. \A k \in ticking' : \E w \in awaited' : k = handle'[w]
        BY <1>1, <1>2, <2>1 DEF ExpiryInv
      <4>2. found'[Rtos] = NoTimer
        BY <1>1, <2>1, <2>6 DEF ExpiryInv
      <4>3. u \in Timers /\ curId' = handle'[u] /\ u \in awaited'
        BY <1>2, <1>4, <2>1, <2>2, <3>4
      <4> QED BY <2>6, <3>6, <4>1, <4>2, <4>3 DEF ExpiryInv, NoId, NoTimer, Rtos
    <3>8. OnePlace'
      <4>1. ASSUME NEW w \in awaited
            PROVE  /\ TicksFor(w)' \/ SoughtFor(w)' \/ CalledFor(w)' \/ LeftFor(w)'
                   /\ TicksFor(w)' => ~SoughtFor(w)' /\ ~CalledFor(w)' /\ ~LeftFor(w)'
                   /\ LeftFor(w)' => ~SoughtFor(w)' /\ ~CalledFor(w)'
        <5>1. TicksFor(w)' = TicksFor(w) /\ ~CalledFor(w)' /\ ~CalledFor(w) /\ ~SoughtFor(w)'
          BY <1>2, <2>1, <2>6 DEF TicksFor, CalledFor, SoughtFor
        <5>2. CASE w = u
          BY <2>4, <3>6, <5>1, <5>2
        <5>3. CASE w # u
          <6>1. ~SoughtFor(w) /\ ~LeftFor(w)'
            BY <1>2, <1>4, <2>3, <3>4, <5>3 DEF SoughtFor, LeftFor
          <6>2. ~LeftFor(w)
            BY <1>4, <3>2, <5>3 DEF LeftFor
          <6> QED BY <1>1, <5>1, <6>1, <6>2 DEF OnePlace
        <5> QED BY <5>2, <5>3
      <4> QED BY <2>1, <4>1 DEF OnePlace
    <3> QED BY <1>3, <2>5, <3>5, <3>7, <3>8 DEF UnmixedInv
  <2>7. CASE /\ \E t \in ByHandle(xid) : found' = [found EXCEPT ![Rtos] = t]
             /\ xpc' = "call" /\ curId' = curId
    <3>1. PICK t \in ByHandle(xid) : found' = [found EXCEPT ![Rtos] = t]
      BY <2>7
    <3>2. t = u /\ u \in hashed
      BY <1>4, <2>3, <3>1 DEF ByHandle
    <3>3. found'[Rtos] = u /\ \A w \in Timers : found'[w] = found[w]
      BY <1>1, <1>4, <3>1, <3>2 DEF TaskTypes
    <3>4. StepInv'
      BY <1>1, <1>2, <2>1, <2>7, <3>3 DEF StepInv, NoTimer
    <3>5. \A w \in Timers : LeftFor(w)' = LeftFor(w)
      BY <1>2, <2>7 DEF LeftFor
    <3>6. ExpiryInv'
      <4>1. \A k \in ticking' : \E w \in awaited' : k = handle'[w]
        BY <1>1, <1>2, <2>1 DEF ExpiryInv
      <4>2. xpc' = "call" /\ found'[Rtos] \in hashed'
        BY <2>1, <2>7, <3>2, <3>3
      <4>3. curId' # NoId => \E w \in Timers : curId' = handle'[w] /\ (timerPc'[w] = "clear" \/ (LeftFor(w)' /\ w \in awaited'))
        BY <1>1, <1>2, <2>1, <2>7, <3>5 DEF ExpiryInv
      <4> QED BY <4>1, <4>2, <4>3 DEF ExpiryInv, NoId, NoTimer, Rtos
    <3>7. OnePlace'
      <4>1. ASSUME NEW w \in awaited
            PROVE  /\ TicksFor(w)' \/ SoughtFor(w)' \/ CalledFor(w)' \/ LeftFor(w)'
                   /\ TicksFor(w)' => ~SoughtFor(w)' /\ ~CalledFor(w)' /\ ~LeftFor(w)'
                   /\ LeftFor(w)' => ~SoughtFor(w)' /\ ~CalledFor(w)'
        <5>1. TicksFor(w)' = TicksFor(w) /\ LeftFor(w)' = LeftFor(w) /\ ~SoughtFor(w)' /\ ~CalledFor(w)
          BY <1>2, <1>4, <2>1, <2>7, <3>5 DEF TicksFor, CalledFor, SoughtFor
        <5>2. CASE w = u
          <6>1. CalledFor(w)'
            BY <2>7, <3>3, <5>2 DEF CalledFor, Rtos
          <6> QED BY <2>4, <5>1, <5>2, <6>1
        <5>3. CASE w # u
          <6>1. ~SoughtFor(w) /\ ~CalledFor(w)'
            BY <1>4, <2>3, <3>3, <5>3 DEF SoughtFor, CalledFor, Rtos
          <6> QED BY <1>1, <5>1, <6>1 DEF OnePlace
        <5> QED BY <5>2, <5>3
      <4> QED BY <2>1, <4>1 DEF OnePlace
    <3> QED BY <1>3, <2>5, <3>4, <3>6, <3>7 DEF UnmixedInv
  <2> QED BY <1>6, <2>6, <2>7 DEF Find
<1>7. CASE Call
  <2>1. PICK t \in Timers : t = found[Rtos]
    BY <1>1, <1>7 DEF Call, TaskTypes
  <2>2. xpc = "call" /\ t \in hashed /\ t \in awaited /\ t \in function /\ CalledFor(t) /\ ~TicksFor(t)
        /\ ~LeftFor(t) /\ timerPc[t] # "hash"
    BY <1>1, <1>4, <1>7, <2>1 DEF Call, ExpiryInv, CalledFor, OnePlace, AwaitedInv
  <2>3. /\ xpc' = "idle" /\ hashed' = hashed \ {t} /\ awaited' = awaited \ {t}
        /\ found' = [found EXCEPT ![Rtos] = NoTimer] /\ ticking' = ticking /\ curId' = curId /\ xid' = xid
    BY <1>7, <2>1, <2>2 DEF Call, Expired, Unlinked, startVars
  <2>4. found'[Rtos] = NoTimer /\ \A w \in Timers : found'[w] = found[w]
    BY <1>1, <1>4, <2>3 DEF TaskTypes
  <2>5. AwaitedInv'
    <3>1. hashed' = {w \in awaited' : timerPc'[w] # "hash"}
      BY <1>1, <1>2, <2>3 DEF AwaitedInv
    <3> QED BY <1>1, <1>2, <2>3, <3>1 DEF AwaitedInv
  <2>6. StepInv'
    <3>1. \A w \in Timers : timerPc[w] = "hash" => w \in awaited'
      BY <1>1, <2>2, <2>3 DEF StepInv
    <3>2. \A w \in Timers : w \notin awaited => w \notin awaited'
      BY <2>3
    <3> QED BY <1>1, <1>2, <2>3, <2>4, <3>1, <3>2 DEF StepInv, NoTimer
  <2>7. \A w \in Timers : LeftFor(w)' = LeftFor(w)
    BY <1>2, <2>3 DEF LeftFor
  <2>8. ExpiryInv'
    <3>1. \A k \in ticking' : \E w \in awaited' : k = handle'[w]
      <4>1. ASSUME NEW k \in ticking PROVE \E w \in awaited \ {t} : k = handle[w]
        <5>1. PICK w \in awaited : k = handle[w]
          BY <1>1 DEF ExpiryInv
        <5>2. w # t
          BY <2>2, <5>1 DEF TicksFor
        <5> QED BY <5>1, <5>2
      <4> QED BY <1>2, <2>3, <4>1
    <3>2. curId' # NoId => \E w \in Timers : curId' = handle'[w] /\ (timerPc'[w] = "clear" \/ (LeftFor(w)' /\ w \in awaited'))
      <4>1. ASSUME curId # NoId
            PROVE \E w \in Timers : curId = handle[w] /\ (timerPc[w] = "clear" \/ (LeftFor(w) /\ w \in awaited \ {t}))
        BY <1>1, <2>2, <4>1 DEF ExpiryInv
      <4> QED BY <1>2, <2>3, <2>7, <4>1
    <3> QED BY <2>3, <2>4, <3>1, <3>2 DEF ExpiryInv, NoId, NoTimer, Rtos
  <2>9. OnePlace'
    <3>1. ASSUME NEW w \in awaited \ {t}
          PROVE  /\ TicksFor(w)' = TicksFor(w) /\ SoughtFor(w)' = SoughtFor(w)
                 /\ CalledFor(w)' = CalledFor(w) /\ LeftFor(w)' = LeftFor(w)
      BY <1>2, <1>4, <2>1, <2>2, <2>3, <2>7 DEF TicksFor, SoughtFor, CalledFor, Rtos
    <3> QED BY <1>1, <2>3, <3>1 DEF OnePlace
  <2> QED BY <1>3, <2>5, <2>6, <2>8, <2>9 DEF UnmixedInv
<1> QED BY <1>5, <1>6, <1>7 DEF Expiry

LEMMA UnmixedFirst == ASSUME TimerInit PROVE UnmixedInv
<1>1. /\ handle = [t \in Timers |-> 0] /\ function = Timers /\ hashed = {} /\ curId = NoId /\ ticking = {}
      /\ timerPc = [t \in Timers |-> "idle"] /\ xpc = "idle" /\ awaited = {}
      /\ found = [a \in Timers \union {Rtos} |-> NoTimer]
  BY DEF TimerInit
<1>2. OneTask /\ HandlesOwn
  BY <1>1 DEF OneTask, HandlesOwn
<1>3. AwaitedInv /\ StepInv
  BY <1>1 DEF AwaitedInv, StepInv
<1>4. ExpiryInv /\ OnePlace
  BY <1>1 DEF ExpiryInv, OnePlace
<1> QED BY <1>2, <1>3, <1>4 DEF UnmixedInv

LEMMA TimerKeeps == ASSUME TimerInv, [TimerNext]_rtosTimerVars PROVE TimerInv'
<1>1. TimerTypes' /\ mixed' = mixed /\ TimerTypes
  <2>1. ASSUME NEW t \in Timers, TimerTask(t) PROVE mixed' = mixed
    BY <2>1 DEF TimerTask, Cancel, Stop, Delete, ModTimer, CallNow, StartFlag, StartTimer, Hash, Late,
       LateCall, ClearFlag, EndCall
  <2>2. ASSUME NEW t \in Timers, NEW c \in {"mod", "del"}, TimerBegin(t, c) PROVE mixed' = mixed
    BY <2>2 DEF TimerBegin
  <2>3. ASSUME Expiry PROVE mixed' = mixed
    BY <2>3 DEF Expiry, TimeUp, Find, Call, taskVars
  <2>4. ASSUME UNCHANGED rtosTimerVars PROVE mixed' = mixed
    BY <2>4 DEF rtosTimerVars, taskVars
  <2>5. mixed' = mixed
    BY <2>1, <2>2, <2>3, <2>4 DEF TimerNext
  <2> QED BY <2>5, TypesKeep DEF TimerInv
<1>2. ASSUME ~mixed, UnmixedInv PROVE UnmixedInv'
  <2>1. ASSUME NEW t \in Timers, TimerTask(t) PROVE UnmixedInv'
    BY <1>1, <1>2, <2>1, UnmixedCancel, UnmixedStop, UnmixedDelete, UnmixedCallNow, UnmixedStartFlag,
       UnmixedStart, UnmixedHash, UnmixedLate, UnmixedLateCall, UnmixedClearFlag, UnmixedEndCall
       DEF TimerTask, ModTimer
  <2>2. ASSUME NEW t \in Timers, NEW c \in {"mod", "del"}, TimerBegin(t, c) PROVE UnmixedInv'
    BY <1>1, <1>2, <2>2, UnmixedBegin
  <2>3. CASE Expiry
    BY <1>1, <1>2, <2>3, UnmixedRtos
  <2>4. CASE UNCHANGED rtosTimerVars
    <3>1. /\ handle' = handle /\ function' = function /\ hashed' = hashed /\ inStart' = inStart
          /\ curId' = curId /\ ticking' = ticking /\ timerPc' = timerPc /\ call' = call
          /\ xpc' = xpc /\ xid' = xid /\ found' = found /\ awaited' = awaited
      BY <2>4 DEF rtosTimerVars, timerVars, startVars, taskVars, expiryVars
    <3>2. \A t \in Timers \union awaited :
             /\ TicksFor(t)' = TicksFor(t) /\ SoughtFor(t)' = SoughtFor(t)
             /\ CalledFor(t)' = CalledFor(t) /\ LeftFor(t)' = LeftFor(t)
      BY <3>1 DEF TicksFor, SoughtFor, CalledFor, LeftFor, Rtos
    <3>3. OneTask' /\ HandlesOwn' /\ AwaitedInv' /\ StepInv'
      BY <1>2, <3>1 DEF UnmixedInv, OneTask, HandlesOwn, AwaitedInv, StepInv, NoTimer
    <3>4. ExpiryInv' /\ OnePlace'
      BY <1>2, <3>1, <3>2 DEF UnmixedInv, ExpiryInv, OnePlace, NoTimer, NoId, Rtos
    <3> QED BY <3>3, <3>4 DEF UnmixedInv
  <2> QED BY <2>1, <2>2, <2>3, <2>4 DEF TimerNext
<1> QED BY <1>1, <1>2 DEF TimerInv

\* What the places of the expiries mean for the timers that are called.
LEMMA UnmixedMean == ASSUME TimerTypes, UnmixedInv PROVE CalledOnce /\ QuietAgrees
<1>1. /\ HandleInv /\ TaskTypes /\ HashTypes /\ OneTask /\ HandlesOwn /\ AwaitedInv /\ StepInv
      /\ ExpiryInv /\ OnePlace
  BY DEF UnmixedInv, TimerTypes
<1>2. hashed \subseteq awaited /\ awaited \subseteq Timers /\ NoTimer \notin Timers /\ Rtos \notin Timers
  BY <1>1, TimerSizes DEF AwaitedInv, HashTypes
<1>3. CalledOnce
  <2>1. ASSUME NEW a \in Timers, found[a] # NoTimer
        PROVE  found[a] = a /\ a \in awaited /\ LeftFor(a)
    <3>1. timerPc[a] = "late_call" /\ found[a] = a /\ curId = handle[a]
      BY <1>1, <2>1 DEF StepInv
    <3>2. curId # NoId
      BY <1>1, <3>1 DEF HandlesOwn, NoId
    <3>3. \A u \in Timers \ {a} : timerPc[u] = "idle"
      BY <1>1, <3>1, Alone
    <3> QED BY <1>1, <3>1, <3>2, <3>3, LeftForIt
  <2>2. found[Rtos] # NoTimer => found[Rtos] \in awaited /\ CalledFor(found[Rtos])
    BY <1>1, <1>2 DEF ExpiryInv, CalledFor
  <2>3. \A t \in awaited : ~(LeftFor(t) /\ CalledFor(t))
    BY <1>1 DEF OnePlace
  <2>4. DOMAIN found = Timers \union {Rtos}
    BY <1>1 DEF TaskTypes
  <2>5. ASSUME NEW a \in Timers \union {Rtos}, found[a] # NoTimer PROVE found[a] \in awaited
    BY <2>1, <2>2, <2>5
  <2>6. ASSUME NEW a \in Timers \union {Rtos}, NEW b \in Timers \union {Rtos},
               a # b, found[a] # NoTimer
        PROVE  found[a] # found[b]
    <3>1. CASE a \in Timers /\ b \in Timers
      BY <2>1, <2>6, <3>1
    <3>2. CASE a \in Timers /\ b = Rtos
      <4>1. LeftFor(a) /\ found[a] = a /\ a \in awaited
        BY <2>1, <2>6, <3>2
      <4>2. CASE found[Rtos] = NoTimer
        BY <2>6, <3>2, <4>2
      <4>3. CASE found[Rtos] # NoTimer
        BY <2>2, <2>3, <3>2, <4>1, <4>3
      <4> QED BY <4>2, <4>3
    <3>3. CASE a = Rtos /\ b \in Timers
      <4>1. CalledFor(found[Rtos])
        BY <2>2, <2>6, <3>3
      <4>2. CASE found[b] = NoTimer
        BY <2>6, <3>3, <4>2
      <4>3. CASE found[b] # NoTimer
        <5>1. LeftFor(b) /\ found[b] = b /\ b \in awaited
          BY <2>1, <3>3, <4>3
        <5> QED BY <2>3, <3>3, <4>1, <5>1
      <4> QED BY <4>2, <4>3
    <3> QED BY <2>6, <3>1, <3>2, <3>3
  <2> QED BY <2>4, <2>5, <2>6 DEF CalledOnce
<1>4. QuietAgrees
  <2> SUFFICES ASSUME xpc = "idle", \A t \in Timers : timerPc[t] = "idle"
               PROVE  hashed = awaited /\ ticking = {handle[t] : t \in awaited}
    BY DEF QuietAgrees
  <2>1. hashed = awaited
    BY <1>1, <1>2 DEF AwaitedInv
  <2>2. ASSUME NEW t \in awaited PROVE handle[t] \in ticking
    <3>1. ~SoughtFor(t) /\ ~CalledFor(t) /\ ~LeftFor(t)
      BY <1>2 DEF SoughtFor, CalledFor, LeftFor
    <3> QED BY <1>1, <3>1 DEF OnePlace, TicksFor
  <2> QED BY <1>1, <2>1, <2>2 DEF ExpiryInv
<1> QED BY <1>3, <1>4

LEMMA TimerMeans == ASSUME TimerInv PROVE TimerTypeOK /\ CalledOnce /\ QuietAgrees /\ DeletedUnlinked
<1>1. TimerTypes
  BY DEF TimerInv
<1>2. CASE mixed
  BY <1>1, <1>2, TypesMean DEF CalledOnce, QuietAgrees
<1>3. CASE ~mixed
  BY <1>1, <1>3, TypesMean, UnmixedMean DEF TimerInv
<1> QED BY <1>2, <1>3

LEMMA TimerFirst == ASSUME TimerInit PROVE TimerInv
BY TypesFirst, UnmixedFirst DEF TimerInv

\* Only a timer that was started is called, and once; the hash and the RTOS
\* agree when all is quiet; and a deleted timer is in neither (__timer_out_func,
\* atbm_mod_timer, atbm_del_timer).
THEOREM TimerSafe == TimerSpec => [](TimerTypeOK /\ CalledOnce /\ QuietAgrees /\ DeletedUnlinked)
<1>1. TimerInv /\ [TimerNext]_rtosTimerVars => TimerInv'
  BY TimerKeeps
<1>2. TimerInit => TimerInv
  BY TimerFirst
<1>3. TimerInv => TimerTypeOK /\ CalledOnce /\ QuietAgrees /\ DeletedUnlinked
  BY TimerMeans
<1> QED BY <1>1, <1>2, <1>3, PTL DEF TimerSpec

-----------------------------------------------------------------------------
(* The composition.                                                        *)

\* A behaviour of the composition is one of each part: the others stutter.
LEMMA UserParts == AllSpec => Spec /\ ScanSpec /\ StatusSpec /\ EchoSpec /\ WorkSpec /\ TimerSpec
<1>1. AllInit => Init /\ ScanInit /\ StatusInit /\ EchoInit /\ WorkInit /\ TimerInit
  BY DEF AllInit
<1>2. [AllNext]_<<userVars, rtosVars, part>> =>
        /\ [Next]_vars /\ [ScanNext]_scanVars /\ [StatusNext]_asyncVars /\ [EchoNext]_echoVars
        /\ [WorkNext]_rtosWorkVars /\ [TimerNext]_rtosTimerVars
  BY DEF AllNext, userVars, rtosVars
<1> QED BY <1>1, <1>2, PTL DEF AllSpec, Spec, ScanSpec, StatusSpec, EchoSpec, WorkSpec, TimerSpec

\* UserSafe, on any number of processors, for a watch that begins and ends as the
\* program likes and events that follow each other as they like.
THEOREM UserIsSafe == AllSpec => []UserSafe
<1>1. AllSpec => []TypeOK /\ []QueueAlive
  BY UserParts, AliveTyped, QueueHolds, PTL
<1>2. AllSpec => []Watched /\ []KnowsTheLink /\ []ScansReal
  BY UserParts, ScanWatched, LinkKnown, NoScanInvented, PTL
<1>3. AllSpec => []EchoTypeOK /\ []Listed /\ []BufferKept
  BY UserParts, EchoTyped, NeverWarns, Buffers, PTL
<1> QED BY <1>1, <1>2, <1>3, PTL DEF UserSafe

\* RtosSafe: what is queued and what is started on the RTOS is neither lost nor
\* called twice, until a work is queued that is due already.
THEOREM RtosIsSafe == AllSpec => []RtosSafe
<1>1. AllSpec => [](WorkTypeOK /\ DueLinked /\ DueNoticed)
  BY UserParts, WorkSafe, PTL
<1>2. AllSpec => [](TimerTypeOK /\ CalledOnce /\ QuietAgrees /\ DeletedUnlinked)
  BY UserParts, TimerSafe, PTL
<1> QED BY <1>1, <1>2, PTL DEF RtosSafe
=============================================================================

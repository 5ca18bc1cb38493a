------------------------------ MODULE BaSession -----------------------------
(***************************************************************************)
(* The life of the block acknowledgement sessions of one station and TID    *)
(* (agg-rx.c) and of the station itself (__sta_info_destroy, sta_info.c).   *)
(* Two tasks change them: atbm_wq, the work queue, runs ba_session_work,    *)
(* the peer's ADDBA and DELBA and the event that the station left;          *)
(* ndo_stop removes the station too.  sdio_rx and the reorder timer read    *)
(* them under RCU only, and set the timers again.                           *)
(*                                                                          *)
(* With one processor no task runs while sdio_rx is inside an RCU section   *)
(* or a timer function runs; a timer may fire inside sdio_rx's section.     *)
(***************************************************************************)
EXTENDS Integers, FiniteSets

CONSTANTS
  BaCpus,       \* the numbers of processors to look at, 1 or 2
  Timeouts,     \* the peer asks for an inactivity timeout, or not
  MaxSessions,  \* bound: ADDBA requests
  MaxPeerFrames \* bound: frames of the peer

ASSUME BaSessionAssumption ==
  /\ BaCpus \subseteq {1, 2} /\ Timeouts \subseteq BOOLEAN /\ Timeouts # {}
  /\ {MaxSessions, MaxPeerFrames} \subseteq Nat

VARIABLES
  cpus,          \* the processors of the machine
  tidRx,         \* ampdu_mlme.tid_rx[tid]: a session or None
  life,          \* session -> "unused", "live", "retired" or "freed"
  timeout,       \* session -> the peer asked for a timeout
  sessionTimer,  \* session -> session_timer is pending
  reorderTimer,  \* session -> reorder_timer is pending
  grace,         \* session -> the readers its call_rcu waits for
  expired,       \* the bit of tid_rx_timer_expired
  work,          \* ampdu_mlme.work is queued
  blocked,       \* WLAN_STA_BLOCK_BA
  sta,           \* "hashed", "unhashed" or "freed"
  staGrace,      \* the readers synchronize_rcu waits for
  staMtx, mtx,   \* the task that holds hw_priv->sta_mtx, ampdu_mlme.mtx
  pc, resume,    \* task -> its next step, its step after the stop
  stopping,      \* task -> the session it stops
  rx,            \* sdio_rx: [at, has], the session it fetched
  handler,       \* the reorder timer's function: [of, has]
  frames         \* frames received

sessionVars == <<tidRx, life, timeout, sessionTimer, reorderTimer, grace>>
workVars == <<expired, work>>
staVars == <<cpus, blocked, sta, staGrace>>
taskVars == <<staMtx, mtx, pc, resume, stopping>>
readerVars == <<rx, handler, frames>>
baVars == <<sessionVars, workVars, staVars, taskVars, readerVars>>

Sessions == 1 .. MaxSessions
None == 0
Tasks == {"atbm_wq", "ndo_stop"}
Steps ==
  {"idle", "ba", "install", "done", "cancel", "tear_down", "unhash", "free",
   "stop", "session", "reorder", "retire"}
Readers == {"sdio_rx", "timer"}
Nobody == "nobody"
Out == [at |-> "out", has |-> None]
NoHandler == [of |-> None, has |-> None]

BaInit ==
  /\ cpus \in BaCpus
  /\ tidRx = None
  /\ life = [s \in Sessions |-> "unused"]
  /\ timeout = [s \in Sessions |-> FALSE]
  /\ sessionTimer = [s \in Sessions |-> FALSE]
  /\ reorderTimer = [s \in Sessions |-> FALSE]
  /\ grace = [s \in Sessions |-> {}]
  /\ expired = FALSE /\ work = FALSE
  /\ blocked = FALSE /\ sta = "hashed" /\ staGrace = {}
  /\ staMtx = Nobody /\ mtx = Nobody
  /\ pc = [t \in Tasks |-> "idle"] /\ resume = [t \in Tasks |-> "idle"]
  /\ stopping = [t \in Tasks |-> None]
  /\ rx = Out /\ handler = NoHandler /\ frames = 0

\* The readers that are inside an RCU section now.
Inside == {r \in Readers : IF r = "sdio_rx" THEN rx.at # "out" ELSE handler.of # None}

TaskRuns == cpus = 1 => Inside = {}

Goto(t, from, to) ==
  /\ TaskRuns /\ pc[t] = from
  /\ pc' = [pc EXCEPT ![t] = to]

-----------------------------------------------------------------------------
(* ___ieee80211_stop_rx_ba_session, under ampdu_mlme.mtx, in four steps;    *)
(* then the task resumes its own.                                           *)

\* Mutant of ClearedPointer: the pointer is left in place.
ClearedPointerKept(s) == s

\* RCU_INIT_POINTER(sta->ampdu_mlme.tid_rx[tid], NULL)
ClearedPointer(s) == None

BeginStop(t, from, then) ==
  /\ Goto(t, from, "stop")
  /\ resume' = [resume EXCEPT ![t] = then]

\* "if (!tid_rx) return", else the pointer is cleared.
StopClear(t) ==
  /\ IF tidRx = None
     THEN Goto(t, "stop", resume[t]) /\ UNCHANGED <<tidRx, stopping>>
     ELSE /\ Goto(t, "stop", "session")
          /\ stopping' = [stopping EXCEPT ![t] = tidRx]
          /\ tidRx' = ClearedPointer(tidRx)
  /\ UNCHANGED <<life, timeout, sessionTimer, reorderTimer, grace, workVars,
                 staVars, staMtx, mtx, resume, readerVars>>

\* del_timer_sync(&tid_rx->session_timer); its function is one step here.
StopSessionTimer(t) ==
  /\ Goto(t, "session", "reorder")
  /\ sessionTimer' = [sessionTimer EXCEPT ![stopping[t]] = FALSE]
  /\ UNCHANGED <<tidRx, life, timeout, reorderTimer, grace, workVars, staVars,
                 staMtx, mtx, resume, stopping, readerVars>>

\* Mutant of StopReorderTimer: the reorder timer is not deleted.
StopReorderTimerNot(t) ==
  /\ Goto(t, "reorder", "retire")
  /\ UNCHANGED <<sessionVars, workVars, staVars, staMtx, mtx, resume, stopping, readerVars>>

\* del_timer_sync(&tid_rx->reorder_timer): waits for its function.
StopReorderTimer(t) ==
  /\ handler.of # stopping[t]
  /\ Goto(t, "reorder", "retire")
  /\ reorderTimer' = [reorderTimer EXCEPT ![stopping[t]] = FALSE]
  /\ UNCHANGED <<tidRx, life, timeout, sessionTimer, grace, workVars, staVars,
                 staMtx, mtx, resume, stopping, readerVars>>

\* call_rcu(&tid_rx->rcu_head, ieee80211_free_tid_rx)
StopRetire(t) ==
  /\ Goto(t, "retire", resume[t])
  /\ life' = [life EXCEPT ![stopping[t]] = "retired"]
  /\ grace' = [grace EXCEPT ![stopping[t]] = Inside]
  /\ stopping' = [stopping EXCEPT ![t] = None]
  /\ UNCHANGED <<tidRx, timeout, sessionTimer, reorderTimer, workVars, staVars,
                 staMtx, mtx, resume, readerVars>>

Stop(t) ==
  \/ StopClear(t) \/ StopSessionTimer(t)
  \/ StopReorderTimer(t) \/ StopRetire(t)

\* ieee80211_free_tid_rx, after the grace period
FreeSession(s) ==
  /\ life[s] = "retired" /\ grace[s] = {}
  /\ life' = [life EXCEPT ![s] = "freed"]
  /\ UNCHANGED <<tidRx, timeout, sessionTimer, reorderTimer, grace, workVars,
                 staVars, taskVars, readerVars>>

-----------------------------------------------------------------------------
(* The jobs of atbm_wq.                                                     *)

\* ieee80211_ba_session_work begins: nothing to do for a station that leaves.
BaWork ==
  /\ work /\ work' = FALSE
  /\ Goto("atbm_wq", "idle", IF blocked THEN "idle" ELSE "ba")
  /\ UNCHANGED <<sessionVars, expired, staVars, staMtx, mtx, resume, stopping, readerVars>>

\* mutex_lock, test_and_clear_bit
BaWorkTest ==
  /\ mtx = Nobody
  /\ expired' = FALSE
  /\ IF expired
     THEN BeginStop("atbm_wq", "ba", "done") /\ mtx' = "atbm_wq"
     ELSE Goto("atbm_wq", "ba", "idle") /\ UNCHANGED <<resume, mtx>>
  /\ UNCHANGED <<sessionVars, work, staVars, staMtx, stopping, readerVars>>

\* ieee80211_iface_work: the station is found under sta_mtx, then the
\* session's mutex is taken.
Action(ret) ==
  /\ sta = "hashed" /\ ~blocked
  /\ staMtx = Nobody /\ staMtx' = "atbm_wq"
  /\ mtx = Nobody /\ mtx' = "atbm_wq"
  /\ BeginStop("atbm_wq", "idle", ret)
  /\ UNCHANGED <<sessionVars, workVars, staVars, stopping, readerVars>>

Addba == (\E s \in Sessions : life[s] = "unused") /\ Action("install")
Delba == Action("done")

\* "if (timeout) mod_timer(&tid_agg_rx->session_timer, ...)"
Armed(asked) == asked

\* The rest of ieee80211_process_addba_request; an allocation may fail.
Install(asked) ==
  /\ Goto("atbm_wq", "install", "done")
  /\ \E s \in Sessions :
       /\ life[s] = "unused" /\ \A r \in Sessions : r < s => life[r] # "unused"
       /\ \/ /\ life' = [life EXCEPT ![s] = "live"]
             /\ timeout' = [timeout EXCEPT ![s] = asked]
             /\ sessionTimer' = [sessionTimer EXCEPT ![s] = Armed(asked)]
             /\ tidRx' = s
          \/ life' = [life EXCEPT ![s] = "freed"] /\ UNCHANGED <<tidRx, timeout, sessionTimer>>
  /\ UNCHANGED <<reorderTimer, grace, workVars, staVars, staMtx, mtx, resume, stopping, readerVars>>

Unlocked(m, t) == IF m = t THEN Nobody ELSE m

\* mutex_unlock, of both.
Done(t) ==
  /\ Goto(t, "done", "idle")
  /\ mtx' = Unlocked(mtx, t) /\ staMtx' = Unlocked(staMtx, t)
  /\ UNCHANGED <<sessionVars, workVars, staVars, resume, stopping, readerVars>>

-----------------------------------------------------------------------------
(* __sta_info_destroy, by the event that the station left (atbm_wq) or by   *)
(* sta_info_flush (ndo_stop).                                               *)

Destroy(t) ==
  /\ sta = "hashed" /\ staMtx = Nobody
  /\ Goto(t, "idle", "cancel")
  /\ staMtx' = t /\ blocked' = TRUE
  /\ UNCHANGED <<sessionVars, workVars, cpus, sta, staGrace, mtx, resume, stopping, readerVars>>

\* ba_session_work is running: cancel_work_sync waits for it.
WorkRuns ==
  \/ pc["atbm_wq"] = "ba"
  \/ mtx = "atbm_wq" /\ staMtx # "atbm_wq"

CancelWork(t) ==
  /\ ~WorkRuns
  /\ Goto(t, "cancel", "tear_down") /\ work' = FALSE
  /\ UNCHANGED <<sessionVars, expired, staVars, staMtx, mtx, resume, stopping, readerVars>>

TearDown(t) ==
  /\ mtx = Nobody /\ mtx' = t
  /\ BeginStop(t, "tear_down", "unhash")
  /\ UNCHANGED <<sessionVars, workVars, staVars, staMtx, stopping, readerVars>>

\* sta_info_hash_del, list_del; synchronize_rcu begins.
Unhash(t) ==
  /\ Goto(t, "unhash", "free")
  /\ mtx' = Nobody /\ sta' = "unhashed" /\ staGrace' = Inside
  /\ UNCHANGED <<sessionVars, workVars, cpus, blocked, staMtx, resume, stopping, readerVars>>

GraceOver(waits) == waits = {}

\* synchronize_rcu returns, __sta_info_free
FreeStation(t) ==
  /\ GraceOver(staGrace)
  /\ Goto(t, "free", "done")
  /\ sta' = "freed"
  /\ UNCHANGED <<sessionVars, workVars, cpus, blocked, staGrace, staMtx, mtx, resume, stopping, readerVars>>

-----------------------------------------------------------------------------
(* The readers.                                                             *)

\* Leaving an RCU section ends every grace period's wait for reader r.
Leave(r) ==
  /\ grace' = [s \in Sessions |-> grace[s] \ {r}]
  /\ staGrace' = staGrace \ {r}

NoSoftirq == cpus = 1 => handler = NoHandler

\* ieee80211_rx_reorder_ampdu finds the station and fetches its session.
RxFetch ==
  /\ NoSoftirq /\ rx = Out /\ sta = "hashed" /\ frames < MaxPeerFrames
  /\ frames' = frames + 1
  /\ rx' = [at |-> "session", has |-> tidRx]
  /\ UNCHANGED <<sessionVars, workVars, staVars, taskVars, handler>>

\* "reset session timer"
RxSessionTimer ==
  /\ NoSoftirq /\ rx.at = "session"
  /\ rx' = [rx EXCEPT !.at = "reorder"]
  /\ sessionTimer' = IF rx.has # None /\ timeout[rx.has]
                     THEN [sessionTimer EXCEPT ![rx.has] = TRUE] ELSE sessionTimer
  /\ UNCHANGED <<tidRx, life, timeout, reorderTimer, grace, workVars, staVars,
                 taskVars, handler, frames>>

\* The ring decides whether the reorder timer is to run (Reorder).
Rearm(has) ==
  \/ has # None /\ reorderTimer' = [reorderTimer EXCEPT ![has] = TRUE]
  \/ UNCHANGED reorderTimer

RxEnd ==
  /\ NoSoftirq /\ rx.at = "reorder"
  /\ Rearm(rx.has) /\ rx' = Out /\ Leave("sdio_rx")
  /\ UNCHANGED <<tidRx, life, timeout, sessionTimer, workVars, cpus, blocked, sta,
                 taskVars, handler, frames>>

\* sta_rx_agg_session_timer_expired
SessionTimer(s) ==
  /\ NoSoftirq /\ sessionTimer[s] /\ life[s] # "freed" /\ sta # "freed"
  /\ sessionTimer' = [sessionTimer EXCEPT ![s] = FALSE]
  /\ expired' = TRUE /\ work' = TRUE
  /\ UNCHANGED <<tidRx, life, timeout, reorderTimer, grace, staVars, taskVars, readerVars>>

\* sta_rx_agg_reorder_timer_expired, ieee80211_release_reorder_timeout: the
\* session is looked up again.
ReorderTimer(s) ==
  /\ handler = NoHandler /\ reorderTimer[s] /\ life[s] # "freed" /\ sta # "freed"
  /\ reorderTimer' = [reorderTimer EXCEPT ![s] = FALSE]
  /\ handler' = [of |-> s, has |-> tidRx]
  /\ UNCHANGED <<tidRx, life, timeout, sessionTimer, grace, workVars, staVars,
                 taskVars, rx, frames>>

ReorderTimerEnd ==
  /\ handler # NoHandler
  /\ Rearm(handler.has) /\ handler' = NoHandler /\ Leave("timer")
  /\ UNCHANGED <<tidRx, life, timeout, sessionTimer, workVars, cpus, blocked, sta,
                 taskVars, rx, frames>>

-----------------------------------------------------------------------------

TaskStep(t) ==
  \/ Stop(t)
  \/ Done(t) \/ CancelWork(t) \/ TearDown(t) \/ Unhash(t) \/ FreeStation(t)

WorkStep == BaWork \/ BaWorkTest \/ \E asked \in Timeouts : Install(asked)

BaNext ==
  \/ \E t \in Tasks : TaskStep(t) \/ Destroy(t)
  \/ WorkStep \/ Addba \/ Delba
  \/ RxFetch \/ RxSessionTimer \/ RxEnd \/ ReorderTimerEnd
  \/ \E s \in Sessions : FreeSession(s) \/ SessionTimer(s) \/ ReorderTimer(s)

\* The tasks go on, sections end and timers fire.  The peer owes nothing.
BaFairness ==
  /\ WF_baVars(WorkStep) /\ \A t \in Tasks : WF_baVars(TaskStep(t))
  /\ WF_baVars(RxSessionTimer) /\ WF_baVars(RxEnd) /\ WF_baVars(ReorderTimerEnd)
  /\ \A s \in Sessions : WF_baVars(SessionTimer(s))

BaSpec == BaInit /\ [][BaNext]_baVars

-----------------------------------------------------------------------------
(* Properties.                                                             *)

\* Every variable stays in its range, and a task that deletes timers has a
\* session and its mutex.
BaTypeOK ==
  /\ \A t \in Tasks : pc[t] \in {"session", "reorder", "retire"} =>
                      stopping[t] # None /\ mtx = t
  /\ tidRx \in Sessions \cup {None}
  /\ life \in [Sessions -> {"unused", "live", "retired", "freed"}]
  /\ {timeout, sessionTimer, reorderTimer} \subseteq [Sessions -> BOOLEAN]
  /\ grace \in [Sessions -> SUBSET Readers]
  /\ {expired, work, blocked} \subseteq BOOLEAN /\ cpus \in BaCpus
  /\ sta \in {"hashed", "unhashed", "freed"} /\ staGrace \subseteq Readers
  /\ {staMtx, mtx} \subseteq Tasks \cup {Nobody}
  /\ {pc["atbm_wq"], pc["ndo_stop"], resume["atbm_wq"], resume["ndo_stop"]} \subseteq Steps
  /\ stopping \in [Tasks -> Sessions \cup {None}]
  /\ rx.has \in Sessions \cup {None} /\ handler.has \in Sessions \cup {None}
  /\ frames \in 0 .. MaxPeerFrames

\* A session that sdio_rx or the reorder timer fetched under RCU is not freed
\* before they are done with it: the pointer is cleared before call_rcu.
FetchedAlive ==
  \A s \in {rx.has, handler.has} \ {None} : life[s] # "freed"

\* sdio_rx works on the station until its RCU section ends: it is not freed
\* under sdio_rx (synchronize_rcu in __sta_info_destroy).
StationAlive == rx.at # "out" => sta # "freed"

\* A session stays behind no longer than its station, and no timer that is
\* pending and no work that is queued refers to freed memory.  It needs one
\* processor, as a reader sets the timers of a session that is being stopped,
\* and peers that ask for no timeout, whose timer queues the work again after
\* cancel_work_sync.
NothingLeft ==
  cpus = 1 /\ (\A s \in Sessions : ~timeout[s]) =>
    /\ sta = "freed" =>
         /\ ~work
         /\ \A s \in Sessions : life[s] # "live" /\ ~sessionTimer[s] /\ ~reorderTimer[s]
    /\ \A s \in Sessions : life[s] = "freed" => ~sessionTimer[s] /\ ~reorderTimer[s]

\* "At this point, after we wait for an RCU grace period, neither mac80211 nor
\* the driver can reference this sta struct any more" (sta_info.c:391): the
\* work that is part of the station is not queued when the station is freed.
NoReferenceLeft == sta = "freed" => ~work

\* A session with a timeout whose peer falls silent comes to an end, by the
\* work, by the peer or with the station.  On one processor a reorder timer that
\* is set again and again could keep the others from running for ever.
IdleEnds ==
  \A s \in Sessions : (tidRx = s /\ timeout[s] /\ cpus = 2) ~> tidRx # s
=============================================================================

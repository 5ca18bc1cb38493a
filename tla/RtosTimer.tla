------------------------------- MODULE RtosTimer ----------------------------
(***************************************************************************)
(* The timers of the RTOS port (os/ankai_V330/atbm_os_timer.c). A timer is    *)
(* found by the handle of a virtual timer of the RTOS, which may expire      *)
(* before atbm_mod_timer has entered that handle into the hash: then its id  *)
(* is left in cur_timeout_id for atbm_mod_timer to find.                     *)
(*                                                                          *)
(* Each timer has one task that works on it, and the RTOS one thread that    *)
(* calls what has expired.                                                  *)
(***************************************************************************)
EXTENDS Integers, FiniteSets

CONSTANTS
  Timers,
  Mixings,     \* the values of mixed to check
  MaxTimerCalls,  \* bound: calls of atbm_mod_timer and atbm_del_timer ...
  MaxMixed     \* ... when the calls of different timers mix

ASSUME RtosTimerAssumption ==
  /\ Mixings \subseteq BOOLEAN /\ MaxTimerCalls \in Nat /\ MaxMixed \in 0 .. MaxTimerCalls
  /\ Timers \cap {"none", "rtos"} = {}

VARIABLES
  mixed,       \* whether calls of different timers mix, a timer is cancelled or
               \* started after its deletion, and the RTOS may have no virtual
               \* timer left: the same for ever
  handle,      \* TimerHander
  started,     \* bTimerStart
  function,    \* function # NULL
  hashed,      \* the timers in atbm_timer_hash
  inStart,     \* set_start_timer
  curId,       \* cur_timeout_id
  given,       \* handles given by drv_vtimer_start
  ticking,     \* the virtual timers that are to expire
  timerPc, call,    \* each task: its step, "mod" or "del"
  xpc, xid,    \* the thread of the RTOS: its step, the handle that expired
  found,       \* who is in __timer_out_func: the timer found
  awaited,     \* timers started, neither called nor cancelled since
  timerCalls

timerVars == <<handle, started, function, hashed>>
startVars == <<inStart, curId, given, ticking>>
taskVars == <<timerPc, call, mixed>>
expiryVars == <<xpc, xid>>
rtosTimerVars == <<timerVars, startVars, taskVars, expiryVars, found, awaited, timerCalls>>

NoTimer == "none"
NoId == -1
Rtos == "rtos"

\* atbm_init_timer, and the functions that the owners set
TimerInit ==
  /\ mixed \in Mixings
  /\ handle = [t \in Timers |-> 0] /\ started = {} /\ function = Timers /\ hashed = {}
  /\ inStart = FALSE /\ curId = NoId /\ given = 0 /\ ticking = {}
  /\ timerPc = [t \in Timers |-> "idle"] /\ call = [t \in Timers |-> "mod"]
  /\ xpc = "idle" /\ xid = NoId
  /\ found = [a \in Timers \union {Rtos} |-> NoTimer]
  /\ awaited = {} /\ timerCalls = 0

TimerGoto(t, from, to) == timerPc[t] = from /\ timerPc' = [timerPc EXCEPT ![t] = to]

-----------------------------------------------------------------------------
(* atbm_mod_timer, atbm_del_timer and the _cancel_timer they begin with     *)

TimerBegin(t, c) ==
  /\ timerCalls < (IF mixed THEN MaxMixed ELSE MaxTimerCalls) /\ timerCalls' = timerCalls + 1
  /\ mixed \/ \A u \in Timers : timerPc[u] = "idle"
  /\ mixed \/ t \notin awaited
  /\ c = "mod" => mixed \/ t \in function
  /\ TimerGoto(t, "idle", "cancel") /\ call' = [call EXCEPT ![t] = c]
  /\ UNCHANGED <<mixed, timerVars, startVars, expiryVars, found, awaited>>

\* __timer_hash_del_bytimer
Unlinked(t) == hashed \ {t}

\* bTimerStart is still set when the timer has expired.
Cancel(t) ==
  /\ \/ /\ t \in started
        /\ started' = started \ {t} /\ hashed' = Unlinked(t) /\ TimerGoto(t, "cancel", "stop")
     \/ t \notin started /\ UNCHANGED <<started, hashed>> /\ TimerGoto(t, "cancel", call[t])
  /\ awaited' = awaited \ {t}
  /\ UNCHANGED <<handle, function, startVars, call, mixed, expiryVars, found, timerCalls>>

\* drv_vtimer_stop
Stop(t) ==
  /\ TimerGoto(t, "stop", call[t]) /\ ticking' = ticking \ {handle[t]}
  /\ UNCHANGED <<timerVars, inStart, curId, given, call, mixed, expiryVars, found, awaited, timerCalls>>

\* The memset of atbm_del_timer clears the function too.
Delete(t) ==
  /\ TimerGoto(t, "del", "idle")
  /\ function' = function \ {t} /\ started' = started \ {t}
  /\ handle' = [handle EXCEPT ![t] = 0]
  /\ UNCHANGED <<hashed, startVars, call, mixed, expiryVars, found, awaited, timerCalls>>

\* A time that has come already: the function is called at once.
CallNow(t) ==
  /\ TimerGoto(t, "mod", "idle")
  /\ UNCHANGED <<timerVars, startVars, call, mixed, expiryVars, found, awaited, timerCalls>>

\* ATBM_SET_TIMER_IN_START(1)
StartFlag(t) ==
  /\ TimerGoto(t, "mod", "start") /\ inStart' = TRUE
  /\ UNCHANGED <<timerVars, curId, given, ticking, call, mixed, expiryVars, found, awaited, timerCalls>>

\* drv_vtimer_start. Its error is not seen, because TimerHander is unsigned.
StartTimer(t) ==
  /\ TimerGoto(t, "start", "hash")
  /\ \/ /\ given' = given + 1 /\ ticking' = ticking \union {given'}
        /\ handle' = [handle EXCEPT ![t] = given']
     \/ mixed /\ handle' = [handle EXCEPT ![t] = NoId] /\ UNCHANGED <<given, ticking>>
  /\ awaited' = awaited \union {t}
  /\ UNCHANGED <<started, function, hashed, inStart, curId, call, mixed, expiryVars, found, timerCalls>>

Hash(t) ==
  /\ TimerGoto(t, "hash", "late")
  /\ started' = started \union {t} /\ hashed' = hashed \union {t}
  /\ UNCHANGED <<handle, function, startVars, call, mixed, expiryVars, found, awaited, timerCalls>>

-----------------------------------------------------------------------------
(* __timer_out_func, in the thread of the RTOS or at the end of a start     *)

ByHandle(h) == {t \in hashed : handle[t] = h}

\* Nothing is found: somebody is told, when a start is under way.
Missed(id) ==
  /\ ByHandle(id) = {}
  /\ curId' = IF inStart /\ curId = NoId THEN id ELSE curId

\* The timer is unlinked and its function called, if it has one.
Expired(t) ==
  /\ hashed' = Unlinked(t)
  /\ awaited' = IF t \in function THEN awaited \ {t} ELSE awaited

TimeUp(h) ==
  /\ h \in ticking /\ ticking' = ticking \ {h}
  /\ xpc = "idle" /\ xpc' = "find" /\ xid' = h
  /\ UNCHANGED <<timerVars, inStart, curId, given, taskVars, found, awaited, timerCalls>>

Find ==
  /\ xpc = "find"
  /\ \/ Missed(xid) /\ xpc' = "idle" /\ UNCHANGED found
     \/ /\ \E t \in ByHandle(xid) : found' = [found EXCEPT ![Rtos] = t]
        /\ xpc' = "call" /\ UNCHANGED curId
  /\ UNCHANGED <<timerVars, inStart, given, ticking, taskVars, xid, awaited, timerCalls>>

Call ==
  /\ xpc = "call" /\ xpc' = "idle"
  /\ Expired(found[Rtos]) /\ found' = [found EXCEPT ![Rtos] = NoTimer]
  /\ UNCHANGED <<handle, started, function, startVars, taskVars, xid, timerCalls>>

\* Mutant of Late: the expiry that was missed is forgotten.
LateForgotten(t) ==
  /\ TimerGoto(t, "late", "done")
  /\ UNCHANGED <<timerVars, startVars, call, mixed, expiryVars, found, awaited, timerCalls>>

\* "if(ATBM_GET_CUR_ID() != -1)", now that the timer is in the hash
Late(t) ==
  /\ \/ curId = NoId /\ TimerGoto(t, "late", "done") /\ UNCHANGED found
     \/ curId # NoId /\ ByHandle(curId) = {} /\ TimerGoto(t, "late", "clear") /\ UNCHANGED found
     \/ /\ curId # NoId /\ \E u \in ByHandle(curId) : found' = [found EXCEPT ![t] = u]
        /\ TimerGoto(t, "late", "late_call")
  /\ UNCHANGED <<timerVars, startVars, call, mixed, expiryVars, awaited, timerCalls>>

LateCall(t) ==
  /\ TimerGoto(t, "late_call", "clear")
  /\ Expired(found[t]) /\ found' = [found EXCEPT ![t] = NoTimer]
  /\ UNCHANGED <<handle, started, function, startVars, call, mixed, expiryVars, timerCalls>>

ClearFlag(t) ==
  /\ TimerGoto(t, "clear", "done") /\ curId' = NoId
  /\ UNCHANGED <<timerVars, inStart, given, ticking, call, mixed, expiryVars, found, awaited, timerCalls>>

EndCall(t) ==
  /\ TimerGoto(t, "done", "idle") /\ inStart' = FALSE
  /\ UNCHANGED <<timerVars, curId, given, ticking, call, mixed, expiryVars, found, awaited, timerCalls>>

-----------------------------------------------------------------------------

ModTimer(t) == CallNow(t) \/ StartFlag(t) \/ StartTimer(t) \/ Hash(t) \/ Late(t) \/ LateCall(t) \/ ClearFlag(t) \/ EndCall(t)
TimerTask(t) == Cancel(t) \/ Stop(t) \/ Delete(t) \/ ModTimer(t)
Expiry == (\E h \in ticking : TimeUp(h)) \/ Find \/ Call

TimerNext ==
  \/ \E t \in Timers : TimerTask(t) \/ \E c \in {"mod", "del"} : TimerBegin(t, c)
  \/ Expiry

TimerSpec == TimerInit /\ [][TimerNext]_rtosTimerVars

\* The tasks finish their calls, and every virtual timer expires.
TimerFairness == WF_rtosTimerVars(Expiry) /\ \A t \in Timers : WF_rtosTimerVars(TimerTask(t))

-----------------------------------------------------------------------------
(* Properties.                                                             *)

\* Each variable in its range; a timer in the hash is one that was started.
TimerTypeOK ==
  /\ handle \in [Timers -> NoId .. MaxTimerCalls] /\ hashed \subseteq started /\ started \subseteq Timers
  /\ function \subseteq Timers /\ awaited \subseteq Timers /\ inStart \in BOOLEAN
  /\ curId \in {NoId} \union 1 .. given /\ ticking \subseteq 1 .. given /\ {given, timerCalls} \subseteq 0 .. MaxTimerCalls
  /\ timerPc \in [Timers -> {"idle", "cancel", "stop", "mod", "del", "start", "hash", "late", "late_call", "clear", "done"}]
  /\ call \in [Timers -> {"mod", "del"}] /\ xpc \in {"idle", "find", "call"} /\ xid \in {NoId} \union 1 .. given
  /\ found \in [Timers \union {Rtos} -> Timers \union {NoTimer}]

\* Only a timer that was started and not called since is called: not too
\* early and not twice (__timer_out_func in two contexts).
CalledOnce ==
  ~mixed =>
    /\ \A a \in DOMAIN found : found[a] # NoTimer => found[a] \in awaited
    /\ \A a, b \in DOMAIN found : a # b /\ found[a] # NoTimer => found[a] # found[b]

\* When nothing is under way, the hash holds the timers that are to be called
\* and the RTOS runs a virtual timer for each of them.
QuietAgrees ==
  ~mixed /\ xpc = "idle" /\ (\A t \in Timers : timerPc[t] = "idle")
     => hashed = awaited /\ ticking = {handle[t] : t \in awaited}

\* A timer that was deleted is in the hash no more, nor does its virtual timer
\* run: its owner may free it (atbm_del_timer_sync).
DeletedUnlinked ==
  \A t \in Timers : call[t] = "del" /\ timerPc[t] = "idle" => t \notin hashed /\ handle[t] \notin ticking

\* "releases expired frames from the reorder buffer" (sta_info.h:146): a timer
\* that is started is called, unless it is cancelled before.
ExpiresCalled == ~mixed => \A t \in Timers : []<>(t \notin awaited)

=============================================================================

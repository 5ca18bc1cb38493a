------------------------------- MODULE RtosWork -----------------------------
(***************************************************************************)
(* The work queue of the RTOS port (os/ankai_V330/atbm_os_queue.c): a        *)
(* doubly linked list, a mutex and a counting semaphore, in the place of     *)
(* the work queues of Linux. create_singlethread_workqueue starts the        *)
(* worker; the receive thread and the timer thread queue works; a work may    *)
(* send a command and wait for the confirmation, which the receive thread    *)
(* brings.                                                                  *)
(***************************************************************************)
EXTENDS Naturals, FiniteSets

CONSTANTS
  Works,        \* event_handler, vif->work, ampdu_mlme.work
  Commandings,  \* sets of works: the ones that send a command
  Queuers,      \* the threads that queue
  Receiver,     \* the one of them that brings the confirmations: sdio_rx
  MaxWorks     \* bound: calls of queue_work

ASSUME RtosWorkAssumption ==
  /\ Commandings \subseteq SUBSET Works /\ Receiver \in Queuers
  /\ MaxWorks \in Nat
  /\ Works \cap {"none", "work_head"} = {}

VARIABLES
  commanding,   \* the works that send a command and wait, the same for ever
  next, prev,   \* the links of the works and of work_head
  mutex,        \* who holds mutex_prot
  sem,          \* sem_sync
  workerPc,          \* the worker
  current,         \* the work it is at
  qpc,          \* the threads that queue: "idle", "lock" or "up"
  item,         \* what they queue
  answer,       \* the confirmation: "none", "due" or "there"
  due,          \* works queued and not started since
  twice,        \* a work joined the list although it was due already
  asked        \* calls of queue_work

listVars == <<next, prev, commanding>>
workerVars == <<workerPc, current>>
queuerVars == <<qpc, item>>
rtosWorkVars == <<listVars, mutex, sem, workerVars, queuerVars, answer, due, twice, asked>>

Worker == "worker"
WorkHead == "work_head"
None == "none"
Nodes == Works \union {WorkHead}

\* create_singlethread_workqueue, INIT_WORK
WorkInit ==
  /\ commanding \in Commandings
  /\ next = [n \in Nodes |-> IF n = WorkHead THEN WorkHead ELSE None] /\ prev = next
  /\ mutex = None /\ sem = 0
  /\ workerPc = "down" /\ current = WorkHead
  /\ qpc = [q \in Queuers |-> "idle"] /\ item = [q \in Queuers |-> None]
  /\ answer = "none" /\ due = {} /\ twice = FALSE /\ asked = 0

WorkerGoto(from, to) == workerPc = from /\ workerPc' = to
Queuer(q, from, to) == qpc[q] = from /\ qpc' = [qpc EXCEPT ![q] = to]

-----------------------------------------------------------------------------
(* queue_work                                                              *)

\* Something that makes a work necessary is received, or expires, whether the work
\* is due already or not.
Begin(q) ==
  /\ asked < MaxWorks /\ asked' = asked + 1
  /\ Queuer(q, "idle", "lock")
  /\ \E w \in Works : item' = [item EXCEPT ![q] = w]
  /\ UNCHANGED <<listVars, mutex, sem, workerVars, answer, due, twice>>

\* Mutant of AddTail: the last link of the work_head stays as it was.
TailKept(w) ==
  /\ next' = [[next EXCEPT ![prev[WorkHead]] = w] EXCEPT ![w] = WorkHead]
  /\ prev' = [prev EXCEPT ![w] = prev[WorkHead]]

\* The work joins the list behind the last one, wherever its links point to.
AddTail(w) ==
  LET out == [prev EXCEPT ![w] = prev[WorkHead]]
  IN  /\ next' = [[next EXCEPT ![prev[WorkHead]] = w] EXCEPT ![w] = WorkHead]
      /\ prev' = [out EXCEPT ![WorkHead] = w]

Link(q) ==
  /\ mutex = None /\ Queuer(q, "lock", "up")
  /\ AddTail(item[q])
  /\ due' = due \union {item[q]} /\ twice' = (twice \/ item[q] \in due)
  /\ UNCHANGED <<commanding, mutex, sem, workerVars, item, answer, asked>>

Posted(n) == n + 1

\* up(&wq->sem_sync)
Up(q) ==
  /\ Queuer(q, "up", "idle")
  /\ sem' = Posted(sem) /\ item' = [item EXCEPT ![q] = None]
  /\ UNCHANGED <<listVars, mutex, workerVars, answer, due, twice, asked>>

QueueWork == \E q \in Queuers : Link(q) \/ Up(q)

-----------------------------------------------------------------------------
(* workqueue_work                                                          *)

Down ==
  /\ sem > 0 /\ sem' = sem - 1
  /\ WorkerGoto("down", "lock")
  /\ UNCHANGED <<listVars, mutex, current, queuerVars, answer, due, twice, asked>>

Lock ==
  /\ mutex = None /\ mutex' = Worker
  /\ WorkerGoto("lock", "run") /\ current' = next[WorkHead]
  /\ UNCHANGED <<listVars, sem, queuerVars, answer, due, twice, asked>>

\* work->func(work)
Run ==
  /\ current # WorkHead
  /\ due' = due \ {current}
  /\ \/ current \notin commanding /\ WorkerGoto("run", "unlink") /\ UNCHANGED answer
     \/ current \in commanding /\ WorkerGoto("run", "wait") /\ answer' = "due"
  /\ UNCHANGED <<listVars, mutex, sem, current, queuerVars, twice, asked>>

\* __wait_event_timeout: down_timeout waits for ever, whatever its timeout.
Confirmed ==
  /\ answer = "there" /\ answer' = "none"
  /\ WorkerGoto("wait", "unlink")
  /\ UNCHANGED <<listVars, mutex, sem, current, queuerVars, due, twice, asked>>

\* work->next->prev = work->prev
Back(w) == prev[w]

Unlink ==
  /\ WorkerGoto("unlink", "run")
  /\ next' = [next EXCEPT ![prev[current]] = next[current]]
  /\ prev' = [prev EXCEPT ![next[current]] = Back(current)]
  /\ current' = next[current]
  /\ UNCHANGED <<commanding, mutex, sem, queuerVars, answer, due, twice, asked>>

Unlock ==
  /\ current = WorkHead
  /\ WorkerGoto("run", "down") /\ mutex' = None
  /\ UNCHANGED <<listVars, sem, current, queuerVars, answer, due, twice, asked>>

WorkqueueWork == Down \/ Lock \/ Run \/ Confirmed \/ Unlink \/ Unlock

-----------------------------------------------------------------------------

\* The receive thread brings the confirmation, unless it is in queue_work.
BringConfirmation ==
  /\ answer = "due" /\ answer' = "there"
  /\ qpc[Receiver] = "idle"
  /\ UNCHANGED <<listVars, mutex, sem, workerVars, queuerVars, due, twice, asked>>

WorkNext == (\E q \in Queuers : Begin(q)) \/ QueueWork \/ WorkqueueWork \/ BringConfirmation

WorkSpec == WorkInit /\ [][WorkNext]_rtosWorkVars

\* The threads go on, and the device answers.
WorkFairness ==
  /\ WF_rtosWorkVars(WorkqueueWork) /\ WF_rtosWorkVars(BringConfirmation)
  /\ \A q \in Queuers : SF_rtosWorkVars(Link(q)) /\ WF_rtosWorkVars(Up(q))

-----------------------------------------------------------------------------
(* Properties.                                                             *)

\* Each variable in its range; the worker holds mutex_prot while a work runs.
WorkTypeOK ==
  /\ {next, prev} \subseteq [Nodes -> Nodes \union {None}]
  /\ mutex \in {None, Worker} /\ sem \in 0 .. MaxWorks
  /\ workerPc \in {"down", "lock", "run", "wait", "unlink"} /\ current \in Nodes
  /\ (workerPc \in {"run", "wait", "unlink"}) = (mutex = Worker)
  /\ qpc \in [Queuers -> {"idle", "lock", "up"}] /\ item \in [Queuers -> Works \union {None}]
  /\ answer \in {"none", "due", "there"} /\ due \subseteq Works /\ twice \in BOOLEAN
  /\ asked \in 0 .. MaxWorks

\* The works that the worker comes by from node n: they are in every set that
\* leads from n by the links no further than to work_head.
OnTheWay(n) ==
  {w \in Works :
     \A S \in SUBSET (Nodes \union {None}) :
       n \in S /\ (\A m \in S \intersect Works : next[m] \in S) => w \in S}

\* Every work that is due is on the way of the worker: on the list that starts
\* at work_head, or behind the work it is at (queue_work, workqueue_work), until
\* a work joins the list that is due already: queue_work does not test for it.
DueLinked ==
  ~twice => due \subseteq OnTheWay(IF mutex = Worker THEN current ELSE next[WorkHead])

\* A semaphore token or the worker itself is on the way to what is due.
DueNoticed ==
  ~twice /\ due # {} => sem > 0 \/ workerPc # "down" \/ \E q \in Queuers : qpc[q] = "up"

\* A work that was queued starts (queue_work), until one was queued that was due
\* already; where a work waits for a command, the receive thread may be stuck
\* behind it for ever.
QueuedRuns == commanding = {} => \A w \in Works : []<>(w \notin due \/ twice)

=============================================================================

----------------------------- MODULE EventQueue ----------------------------
(***************************************************************************)
(* The queue of the firmware's events (wsm_event_indication in wsm.c,       *)
(* atbm_event_handler in main.c).  sdio_rx appends under event_queue_lock   *)
(* and queues the work after it has dropped the lock, and only for an event *)
(* that found the queue empty; the work takes the whole queue and handles   *)
(* its events one by one.                                                   *)
(***************************************************************************)
EXTENDS Naturals, Sequences

CONSTANT MaxLost  \* bound: allocations that fail

ASSUME EventQueueAssumption == MaxLost \in Nat

VARIABLES
  events,    \* hw_priv->event_queue
  first,     \* sdio_rx found the queue empty and is to queue the work
  work,      \* hw_priv->event_handler is queued
  handling,  \* atbm_event_handler is running
  batch,     \* the list it took
  lost       \* allocations that failed

queueVars == <<events, first, work, handling, batch, lost>>

QueueInit ==
  /\ events = <<>> /\ batch = <<>>
  /\ first = FALSE /\ work = FALSE /\ handling = FALSE
  /\ lost = 0

\* first = list_empty(&hw_priv->event_queue)
WasEmpty(queue) == queue = <<>>

\* Mutant of Added: the last event becomes the first.
AddedInFront(queue, e) == <<e>> \o queue

\* list_add_tail
Added(queue, e) == Append(queue, e)

\* An allocation fails.
Loses == lost < MaxLost /\ lost' = lost + 1

\* wsm_event_indication
Indicate(e) ==
  /\ ~first
  /\ \/ /\ events' = Added(events, e) /\ first' = WasEmpty(events)
        /\ UNCHANGED lost
     \/ Loses /\ UNCHANGED <<events, first>>
  /\ UNCHANGED <<work, handling, batch>>

\* "if (first) atbm_hw_priv_queue_work"
QueueWork ==
  /\ first /\ first' = FALSE /\ work' = TRUE
  /\ UNCHANGED <<events, handling, batch, lost>>

\* list_splice_init
TakeBatch ==
  /\ work /\ ~handling
  /\ work' = FALSE /\ handling' = TRUE
  /\ batch' = events /\ events' = <<>>
  /\ UNCHANGED <<first, lost>>

\* The next event of the batch is of this kind.
Handles(kind) == batch # <<>> /\ Head(batch).kind = kind

\* The handler is done with the event.
Handled == batch' = Tail(batch) /\ UNCHANGED <<events, first, work, handling>>

EndBatch ==
  /\ handling /\ batch = <<>> /\ handling' = FALSE
  /\ UNCHANGED <<events, first, work, batch, lost>>

\* No event is on its way.
NoEvents == events = <<>> /\ ~first /\ ~work /\ ~handling

-----------------------------------------------------------------------------
(* Properties.                                                             *)

\* An event that waits in the queue is noticed: the work is queued or sdio_rx
\* is about to queue it, although both sides act outside the lock.
Noticed == events # <<>> => first \/ work

\* Every event is taken by the handler.
EventsTaken == (events # <<>>) ~> handling

=============================================================================

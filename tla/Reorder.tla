------------------------------ MODULE Reorder -------------------------------
(***************************************************************************)
(* The reordering of received frames under a block acknowledgement session  *)
(* (rx.c): the ring of one station and TID between atbm_rx_cb, which runs   *)
(* in sdio_rx, and the reorder timer, a softirq.  Both change the ring under *)
(* reorder_lock and put what is to be handed over on a list of their own;   *)
(* the list is worked off later, under rx_path_lock.                        *)
(*                                                                          *)
(* Frames are numbered without end; the air and the ring use the numbers    *)
(* modulo SeqModulo.                                                        *)
(***************************************************************************)
EXTENDS Integers, Sequences, FiniteSets, SequencesExt

CONSTANTS
  SeqModulo,       \* SEQ_MODULO: 4096
  BufSize,         \* buf_size of the session, chosen by the peer
  Start,           \* so many frames came in order before
  MaxFrames,       \* bound: the frames of the peer are Start .. MaxFrames - 1
  MaxDuplicates,   \* bound: frames received once more
  Eapol,           \* the frames that are EAPOL frames
  Cpus             \* with one the timer cannot run while sdio_rx has a list

ASSUME ReorderAssumption ==
  /\ {SeqModulo, BufSize} \subseteq Nat \ {0} /\ 4 * BufSize <= SeqModulo
  /\ {MaxFrames, MaxDuplicates} \subseteq Nat /\ Start \in 0 .. MaxFrames
  /\ Eapol \subseteq 0 .. MaxFrames - 1 /\ Cpus \in {1, 2}

VARIABLES
  head,        \* the number whose value modulo SeqModulo is head_seq_num
  buf,         \* reorder_buf: slot -> frame or Empty
  stored,      \* stored_mpdu_num
  timer,       \* the slot for whose time reorder_timer is set, or Off
  list,        \* [{"rx", "timer"} -> frames taken from the ring]
  last,        \* last_seq_ctrl
  window,      \* the peer sends window .. window + BufSize - 1
  got,         \* frames that reached ieee80211_rx
  duplicates,  \* frames that did so again
  late,        \* frames dropped because their number was out of date
  delivered    \* frames handed to the stack

ringVars == <<head, buf, stored, timer>>
peerVars == <<window, got, duplicates>>
vars == <<ringVars, list, last, peerVars, late, delivered>>

Empty == -1
Off == -1
Slots == 0 .. BufSize - 1

\* ieee80211_process_addba_request agreed on number 0; the first Start frames
\* were handed over at once and are forgotten.
Init ==
  /\ head = Start /\ buf = [i \in Slots |-> Empty] /\ stored = 0 /\ timer = Off
  /\ list = [c \in {"rx", "timer"} |-> <<>>]
  /\ last = (Start - 1) % SeqModulo
  /\ window = Start /\ got = {} /\ duplicates = 0
  /\ late = {} /\ delivered = <<>>

-----------------------------------------------------------------------------
(* Numbers and slots.                                                      *)

SeqNo(n) == n % SeqModulo

\* seq_less, of numbers that were reduced
SeqLess(s, t) == (s - t) % SeqModulo > SeqModulo \div 2

\* Mutant of Index: the slot is off by one.
IndexShifted(n) == (SeqNo(n) + SeqNo(n) \div (SeqModulo - 1)) % BufSize

\* seq_sub(n, ssn) % buf_size, with ssn = 0
Index(n) == SeqNo(n) % BufSize

Occupied(b) == {i \in Slots : b[i] # Empty}

-----------------------------------------------------------------------------
(* Releasing frames.  A ring is [head, buf, out]: out is the list.         *)

Frames == 0 .. MaxFrames - 1
Rings == [head : Nat, buf : [Slots -> Frames \cup {Empty}], out : Seq(Frames)]

Ring == [head |-> head, buf |-> buf, out |-> <<>>]

\* What n rounds of a loop make of a state; body maps a state to the next one,
\* and keeps it once the loop has ended.
Rounds(body, state, n) ==
  LET run[k \in 0 .. n] == IF k = 0 THEN state ELSE body[run[k - 1]]
  IN  run[n]

\* ieee80211_release_reorder_frame
ReleaseFrame(r, i) ==
  [head |-> r.head + 1,
   buf  |-> [r.buf EXCEPT ![i] = Empty],
   out  |-> IF r.buf[i] = Empty THEN r.out ELSE Append(r.out, r.buf[i])]

\* ieee80211_release_reorder_frames: everything up to a new head.
ReleaseUpTo(r, newHead) ==
  LET body == [acc \in Rings |->
                 IF SeqLess(SeqNo(acc.head), SeqNo(newHead))
                 THEN ReleaseFrame(acc, Index(acc.head)) ELSE acc]
  IN  Rounds(body, r, SeqModulo)

\* ieee80211_sta_reorder_release: the frames up to the first that is missing.
ReleaseInOrder(r) ==
  LET body == [acc \in Rings |->
                 IF acc.buf[Index(acc.head)] # Empty
                 THEN ReleaseFrame(acc, Index(acc.head)) ELSE acc]
  IN  Rounds(body, r, BufSize)

\* ... or, when the first one is missing, those that waited for too long and
\* what follows them without a gap; stop is the slot that must wait on.
Searches == [ring : Rings, skipped : Nat, slot : Slots, stop : Slots \cup {Off}]

NextSlot(i) == (i + 1) % BufSize

\* Mutant of Skipped: the missing frames stay expected.
SkippedNone(acc) == 0

Skipped(acc) == acc.skipped

ReleaseSkipped(acc) ==
  LET ring == ReleaseFrame(acc.ring, acc.slot)
  IN  [ring |-> [ring EXCEPT !.head = ring.head + Skipped(acc)],
       skipped |-> 0, slot |-> NextSlot(acc.slot), stop |-> Off]

Search(acc, expired) ==
  IF acc.ring.buf[acc.slot] = Empty
  THEN [ring |-> acc.ring, skipped |-> acc.skipped + 1,
        slot |-> NextSlot(acc.slot), stop |-> Off]
  ELSE IF acc.skipped > 0 /\ acc.slot \notin expired
       THEN [acc EXCEPT !.stop = acc.slot]
       ELSE ReleaseSkipped(acc)

ReleaseLate(r, expired) ==
  LET body == [acc \in Searches |-> IF acc.stop # Off THEN acc ELSE Search(acc, expired)]
  IN  Rounds(body, [ring |-> r, skipped |-> 1, slot |-> NextSlot(Index(r.head)), stop |-> Off],
             BufSize - 1)

\* The slot for which the timer is set when nothing told it before: the first
\* that holds a frame, counted from the head.
FirstOccupied(r) ==
  LET at(k) == (Index(r.head) + k) % BufSize
      k == CHOOSE k \in Slots :
             at(k) \in Occupied(r.buf) /\ \A l \in 0 .. k - 1 : at(l) \notin Occupied(r.buf)
  IN  at(k)

\* Mutant of TimerOf: the timer is not set again.
TimerNotSet(r, stop) == Off

TimerOf(r, stop) ==
  IF Occupied(r.buf) = {} THEN Off ELSE IF stop # Off THEN stop ELSE FirstOccupied(r)

\* The whole of ieee80211_sta_reorder_release, in context c.
ReleaseSome(r, count, expired) ==
  IF r.buf[Index(r.head)] = Empty /\ count > 0
  THEN ReleaseLate(r, expired)
  ELSE [ring |-> ReleaseInOrder(r), stop |-> Off]

ReorderRelease(c, r, count, expired) ==
  \E after \in {ReleaseSome(r, count, expired)} :
    /\ head' = after.ring.head /\ buf' = after.ring.buf
    /\ stored' = count - (Len(after.ring.out) - Len(r.out))
    /\ timer' = TimerOf(after.ring, after.stop)
    /\ list' = [list EXCEPT ![c] = after.ring.out]

-----------------------------------------------------------------------------
(* sdio_rx: a frame of the session, ieee80211_rx up to the unlock.          *)

OutOfDate(n) == SeqLess(SeqNo(n), SeqNo(head))

BeyondWindow(n) == ~SeqLess(SeqNo(n), SeqNo(head + BufSize))

\* The frames that make room for frame n.
MakeRoom(n) ==
  IF BeyondWindow(n) THEN ReleaseUpTo(Ring, n - BufSize + 1) ELSE Ring

DropOld(n) ==
  /\ OutOfDate(n)
  /\ late' = late \cup {n}
  /\ UNCHANGED <<ringVars, list>>

\* An EAPOL frame one ahead of the head moves it no further than to itself.
DirectHead(r) == r.head + 1

\* Nothing is stored and the frame is the next one, or an EAPOL frame and the
\* one after that.
IsDirect(n, r, count) ==
  /\ count = 0
  /\ \/ SeqNo(n) = SeqNo(r.head)
     \/ n \in Eapol /\ SeqNo(n) = SeqNo(r.head) + 1

AlreadyStored(n, r, count) ==
  /\ r.buf[Index(n)] # Empty
  /\ head' = r.head /\ buf' = r.buf /\ stored' = count
  /\ list' = [list EXCEPT !["rx"] = r.out]
  /\ UNCHANGED timer

HandOver(n, r, count) ==
  /\ r.buf[Index(n)] = Empty /\ IsDirect(n, r, count)
  /\ head' = DirectHead(r) /\ buf' = r.buf /\ stored' = count
  /\ list' = [list EXCEPT !["rx"] = Append(r.out, n)]
  /\ UNCHANGED timer

Store(n, r, count) ==
  /\ r.buf[Index(n)] = Empty /\ ~IsDirect(n, r, count)
  /\ \E expired \in SUBSET Occupied(r.buf) :
       ReorderRelease("rx", [r EXCEPT !.buf[Index(n)] = n], count + 1, expired)

\* A frame that is not old; MakeRoom has taken some of the stored ones.
Place(n) ==
  LET r == MakeRoom(n)
      count == stored - Len(r.out)
  IN  /\ ~OutOfDate(n)
      /\ AlreadyStored(n, r, count) \/ HandOver(n, r, count) \/ Store(n, r, count)
      /\ UNCHANGED late

\* ieee80211_rx_h_check: a retransmission of the last frame
RetryOfLast(n, retry) == retry /\ last = SeqNo(n)

Arrives(n, retry) ==
  /\ list["rx"] = <<>> /\ (Cpus = 1 => list["timer"] = <<>>)
  /\ n - head < SeqModulo \div 2
  /\ \/ RetryOfLast(n, retry) /\ UNCHANGED <<ringVars, list, late, last>>
     \/ /\ ~RetryOfLast(n, retry)
        /\ last' = SeqNo(n)
        /\ DropOld(n) \/ Place(n)
  /\ UNCHANGED delivered

\* The peer sends what is in its window, again when it saw no acknowledgement.
Receive(n) ==
  /\ n \in window .. window + BufSize - 1 /\ n < MaxFrames /\ n \notin got
  /\ got' = got \cup {n}
  /\ Arrives(n, FALSE)
  /\ UNCHANGED <<window, duplicates>>

ReceiveAgain(n) ==
  /\ n \in window .. window + BufSize - 1 /\ n \in got
  /\ duplicates < MaxDuplicates /\ duplicates' = duplicates + 1
  /\ Arrives(n, TRUE)
  /\ UNCHANGED <<window, got>>

\* A frame was acknowledged, or the peer gave it up.
Advance ==
  /\ window < MaxFrames /\ window' = window + 1
  /\ UNCHANGED <<ringVars, list, last, got, duplicates, late, delivered>>

-----------------------------------------------------------------------------
(* The reorder timer, and the handlers.                                     *)

\* ieee80211_release_reorder_timeout.  The slot for which the timer was set is
\* late, unless HT_RX_REORDER_BUF_TIMEOUT was raised in the meantime.
Fire(found) ==
  /\ timer # Off
  /\ list["timer"] = <<>> /\ (Cpus = 1 => list["rx"] = <<>>)
  /\ \E expired \in SUBSET (Occupied(buf) \cup {timer}) :
       /\ (timer \in expired) = found
       /\ ReorderRelease("timer", Ring, stored, expired)
  /\ UNCHANGED <<last, peerVars, late, delivered>>

TimerFires == Fire(TRUE)
TimerFiresEarly == Fire(FALSE)

\* ieee80211_rx_handlers, under rx_path_lock
Handle(c) ==
  /\ list[c] # <<>>
  /\ delivered' = delivered \o list[c]
  /\ list' = [list EXCEPT ![c] = <<>>]
  /\ UNCHANGED <<ringVars, last, peerVars, late>>

-----------------------------------------------------------------------------
Next ==
  \/ \E n \in Start .. MaxFrames - 1 : Receive(n) \/ ReceiveAgain(n)
  \/ Advance
  \/ TimerFires \/ TimerFiresEarly
  \/ \E c \in {"rx", "timer"} : Handle(c)

\* Timers expire and handlers run.  The timeout is raised only while short
\* frames arrive, so that the timer finds what it was set for in the end.
Fairness ==
  /\ SF_vars(TimerFires)
  /\ \A c \in {"rx", "timer"} : WF_vars(Handle(c))

Spec == Init /\ [][Next]_vars
FairSpec == Spec /\ Fairness

-----------------------------------------------------------------------------
(* Properties.                                                             *)

Held == {buf[i] : i \in Occupied(buf)} \cup ToSet(list["rx"]) \cup ToSet(list["timer"])

TypeOK ==
  /\ head \in Nat /\ buf \in [Slots -> 0 .. MaxFrames - 1 \cup {Empty}]
  /\ timer \in Slots \cup {Off} /\ last \in 0 .. SeqModulo - 1
  /\ list \in [{"rx", "timer"} -> Seq(0 .. MaxFrames - 1)]
  /\ window \in 0 .. MaxFrames /\ got \subseteq 0 .. MaxFrames - 1
  /\ duplicates \in 0 .. MaxDuplicates /\ late \subseteq got
  /\ delivered \in Seq(got)

\* The count of stored frames, on which the loop that looks for the frame to
\* wait for relies to end, is the number of frames in the ring.
StoredCount == stored = Cardinality(Occupied(buf))

\* A stored frame is in the window and in its slot, and the timer runs for it.
RingOK ==
  /\ \A i \in Occupied(buf) : buf[i] \in head .. head + BufSize - 1 /\ Index(buf[i]) = i
  /\ stored > 0 => timer # Off

\* Every frame that was received is handed over, on its way, or came when its
\* number was out of date.  The ring drops nothing else: "check if we already
\* stored this frame" (rx.c).
NothingLost == got \subseteq ToSet(delivered) \cup Held \cup late

\* A stored frame does not wait for ever for one that was lost: as the frames
\* of the peer end, at last none is held.
Released == []<>(Held = {})

\* On one processor this is what Delivery promises; an EAPOL frame that overtook
\* the one before it (rx.c:322) may come a second time.
D == INSTANCE Delivery WITH Twice <- Eapol
DeliverySpec == D!Spec
=============================================================================

--------------------------- MODULE MCTransmit_proofs -------------------------
(***************************************************************************)
(* Proofs about a frame that goes out, for any number of processors, peers  *)
(* and senders, any headrooms and every queue size: the count of the queue  *)
(* (TxQueue), the way of a frame to it (XmitFrame), and what MCTransmit puts*)
(* together of them.                                                        *)
(*                                                                          *)
(* OverfullMeansStopped is not inductive: TxWake could start the queues of a*)
(* queue that has filled up again.  WakePending says why it does not unless *)
(* the queue was outrun: while the wakeup is due the queues are stopped, so *)
(* only the senders that were already inside can raise the count, and they  *)
(* are too few to raise it from the wake level to the size of the queue.    *)
(*                                                                          *)
(* Each processor has its own frame, so what holds of it is a predicate of  *)
(* a step and a frame: Good, whose reference the driver has, of the frame   *)
(* or of its clone, and what each way out makes of it; Fits, that the room  *)
(* suffices for what is still to be pushed unless the frame came tight;     *)
(* Chosen, that the QoS and the key of a call that was not raced are those  *)
(* of the peer's entry.  The entry is the handler's: a call that found it   *)
(* before it was complete is raced, and it is cleared only when the         *)
(* processors that found it have left their RCU sections.                   *)
(***************************************************************************)
EXTENDS MCTransmit, TLAPS

(* The queue and its count.                                                *)

\* While the interface is closed no sender is inside atbm_submit_package.
ClosedIsEmpty == ~up => counting = 0 /\ stopping = 0

WakePending ==
  up /\ txpc = "wake" /\ ~outrun =>
    /\ stopped /\ stopping = 0 /\ ~overfull
    /\ num + counting <= WakeLevel + Senders

QueueInv == TypeOK /\ Accounting /\ ClosedIsEmpty

StopInv == QueueInv /\ OverfullMeansStopped /\ WakePending

\* The threshold at which sdio_tx wakes the queues (bh_sdio.c) is an integer.
LEMMA WakeLevelInt == WakeLevel \in Int
  BY TxQueueAssumption DEF WakeLevel

\* Every step of atbm_submit_package, of wsm_cmd_send_no_ack, of sdio_tx and of
\* the interface keeps the types and the account of tx_num_queued.
LEMMA QueueStep == ASSUME QueueInv, [Next]_vars PROVE QueueInv'
<1> USE TxQueueAssumption DEF QueueInv, TypeOK, Accounting, ClosedIsEmpty
<1>1. CASE Enqueue
  BY <1>1 DEF Enqueue
<1>2. CASE Count
  <2>1. num' = num + 1 /\ overfull' = (overfull \/ num + 1 >= MaxQueueSz)
    BY <1>2 DEF Count, Full
  <2>2. overfull' \in BOOLEAN
    BY <2>1, Zenon
  <2>3. CASE overfull' # overfull
    BY <1>2, <2>1, <2>2, <2>3 DEF Count
  <2>4. CASE overfull' = overfull
    BY <1>2, <2>1, <2>2, <2>4 DEF Count
  <2> QED BY <2>3, <2>4
<1>3. CASE StopQueues
  BY <1>3 DEF StopQueues
<1>4. CASE SendNoAck
  BY <1>4 DEF SendNoAck
<1>5. CASE TxTake
  BY <1>5 DEF TxTake
<1>6. CASE TxCount
  <2>1. overfull' \in BOOLEAN /\ outrun' \in BOOLEAN
    BY <1>6, Zenon DEF TxCount
  <2>2. txpc' \in {"idle", "wake"} /\ txpc = "count" /\ num' = num - 1
    BY <1>6 DEF TxCount, AfterClear
  <2> QED BY <1>6, <2>1, <2>2 DEF TxCount
<1>7. CASE TxWake
  BY <1>7 DEF TxWake
<1>8. CASE Open
  <2>1. up' \in BOOLEAN /\ stopped' \in BOOLEAN /\ overfull' \in BOOLEAN /\ outrun' \in BOOLEAN
    BY <1>8, Zenon DEF Open, OpenClears
  <2> QED BY <1>8, <2>1 DEF Open
<1>9. CASE Close
  BY <1>9 DEF Close
<1>10. CASE UNCHANGED vars
  BY <1>10 DEF vars
<1> QED
  BY <1>1, <1>2, <1>3, <1>4, <1>5, <1>6, <1>7, <1>8, <1>9, <1>10
  DEF Next, TxStep

\* The driver starts with an empty queue and a closed interface.
LEMMA QueueInit == ASSUME Init PROVE QueueInv
<1>1. overfull \in BOOLEAN /\ stopped \in BOOLEAN /\ up \in BOOLEAN /\ outrun \in BOOLEAN
  BY Zenon DEF Init
<1>2. /\ length = 0 /\ counting = 0 /\ stopping = 0 /\ num = 0
      /\ txpc = "idle" /\ ipc = 0
  BY DEF Init
<1> QED
  BY <1>1, <1>2, TxQueueAssumption
  DEF QueueInv, TypeOK, Accounting, ClosedIsEmpty

\* The account of the queue holds by itself.
THEOREM QueueInvariant == Spec => []QueueInv
<1>1. Init => QueueInv
  BY QueueInit
<1>2. QueueInv /\ [Next]_vars => QueueInv'
  BY QueueStep
<1> QED BY <1>1, <1>2, PTL DEF Spec

\* Type correctness of the transmit queue: no frame is taken from an empty
\* queue, and no more senders are inside than there are netif queues.
THEOREM QueueTyped == Spec => []TypeOK
<1>1. QueueInv => TypeOK
  BY DEF QueueInv
<1> QED BY <1>1, QueueInvariant, PTL

\* tx_num_queued is the number of the senders' frames, less one for every frame
\* wsm_cmd_send_no_ack ever appended.
THEOREM Counted == Spec => []Accounting
<1>1. QueueInv => Accounting
  BY DEF QueueInv
<1> QED BY <1>1, QueueInvariant, PTL

\* Every step keeps the stop of an overfull queue and the bound on what can arrive
\* while a wakeup is due, or the queue was outrun.
LEMMA StopStep ==
  ASSUME StopInv, [Next]_vars PROVE (OverfullMeansStopped /\ WakePending)'
<1> USE TxQueueAssumption, WakeLevelInt
    DEF StopInv, QueueInv, TypeOK, OverfullMeansStopped, WakePending, ClosedIsEmpty
<1>1. CASE Enqueue
  BY <1>1 DEF Enqueue
<1>2. CASE Count
  <2>1. num' = num + 1 /\ counting' = counting - 1
    BY <1>2 DEF Count, Full
  <2>2. UNCHANGED <<stopped, up, txpc, outrun>>
    BY <1>2 DEF Count
  <2>3. CASE overfull' = overfull
    <3>1. stopping' = stopping
      BY <1>2, <2>3 DEF Count
    <3> QED BY <2>1, <2>2, <2>3, <3>1
  <2>4. CASE overfull' # overfull
    <3>1. stopping' = stopping + 1
      BY <1>2, <2>4 DEF Count
    <3>2. num + 1 >= MaxQueueSz
      BY <1>2, <2>4 DEF Count, Full
    <3>3. ~(up /\ txpc = "wake" /\ ~outrun)
      <4>1. counting > 0
        BY <1>2 DEF Count
      <4> QED BY <3>2, <4>1
    <3> QED BY <2>2, <3>1, <3>3
  <2> QED BY <2>3, <2>4
<1>3. CASE StopQueues
  BY <1>3 DEF StopQueues
<1>4. CASE SendNoAck
  BY <1>4 DEF SendNoAck
<1>5. CASE TxTake
  BY <1>5 DEF TxTake
<1>6. CASE TxCount
  <2>1. CASE overfull /\ num - 1 <= WakeLevel
    <3>1. /\ ~overfull' /\ num' = num - 1 /\ UNCHANGED <<stopped, stopping, counting, up>>
          /\ (outrun' <=> outrun \/ stopping > 0)
      BY <1>6, <2>1 DEF TxCount
    <3> QED BY <2>1, <3>1
  <2>2. CASE ~(overfull /\ num - 1 <= WakeLevel)
    BY <1>6, <2>2 DEF TxCount
  <2> QED BY <2>1, <2>2
<1>7. CASE TxWake
  BY <1>7 DEF TxWake
<1>8. CASE Open
  BY <1>8 DEF Open, OpenClears
<1>9. CASE Close
  BY <1>9 DEF Close
<1>10. CASE UNCHANGED vars
  BY <1>10 DEF vars
<1> QED
  BY <1>1, <1>2, <1>3, <1>4, <1>5, <1>6, <1>7, <1>8, <1>9, <1>10
  DEF Next, TxStep

\* An overfull queue is stopped or about to be, and sdio_tx never restarts one that
\* has filled up again, unless half a queue was sent between a sender's unlock and
\* its stop of the queues.
THEOREM Stopped == Spec => []OverfullMeansStopped
<1>1. Init => StopInv
  BY QueueInit DEF Init, StopInv, OverfullMeansStopped, WakePending
<1>2. StopInv /\ [Next]_vars => StopInv'
  BY QueueStep, StopStep DEF StopInv
<1>3. StopInv => OverfullMeansStopped
  BY DEF StopInv
<1> QED BY <1>1, <1>2, <1>3, PTL DEF Spec

-----------------------------------------------------------------------------
(* The frame, its references and the table.                                *)

Steps == {"idle", "copy", "header", "tx", "crypt", "wsm"} \cup Ended

One(f) == (f.orig = 1 /\ f.copy = 0) \/ (f.orig = 0 /\ f.copy = 1)

\* The driver works on the frame itself, or on the clone of a shared one.
Mine(f) ==
  IF f.held = "shared" THEN f.orig = 0 /\ f.copy = 1 ELSE f.orig = 1 /\ f.copy = 0

\* What holds of a processor's step x and frame f.
Good(x, f) ==
  /\ x = "copy" => f.orig = 1 /\ f.copy = 0
  /\ x \in {"header", "tx", "crypt", "wsm", "queued", "busy"} => Mine(f)
  /\ x = "dropped" => f.orig = 0 /\ f.copy = 0
  /\ x = "torn" => f.orig = 0 /\ f.copy = -1
  /\ x \in {"crypt", "wsm"} => f.to \in Peers \cup {Group}

Links ==
  /\ entry \in [Peers -> Entries] /\ group \in DOMAIN Iv
  /\ bssid \in Peers \cup {NoPeer} /\ who \in Peers \cup {NoPeer}
  /\ step \in {"idle", "wmm", "key", "carrier", "bssid", "wait", "down"}
  /\ step # "idle" => who \in Peers
  /\ readers \subseteq Cpus /\ links \in 0 .. MaxLinks

Flags == {carrier, enabled, rmmod} \subseteq BOOLEAN

Marks == raced \subseteq Cpus /\ tight \subseteq Cpus /\ type \in {"station", "ap"}

FrameInv ==
  /\ pc \in [Cpus -> Steps] /\ frame \in [Cpus -> Frames]
  /\ \A c \in Cpus : Good(pc[c], frame[c])
  /\ frames \in 0 .. MaxFrames

FrameTableInv == Links /\ Flags /\ Marks /\ FrameInv

-----------------------------------------------------------------------------

\* The ciphers and the bytes of each.
LEMMA IvNat == \A k \in DOMAIN Iv : Iv[k] \in Nat
BY DEF Iv

LEMMA CipherType == {Cipher, "open"} \subseteq DOMAIN Iv /\ DOMAIN Icv = DOMAIN Iv
BY XmitFrameAssumption DEF Iv, Icv

\* A step of one processor leaves the others' frames alone.
LEMMA OneProcessor ==
  ASSUME FrameInv, NEW c \in Cpus, NEW x \in Steps, NEW f \in Frames, Good(x, f),
         pc' = [pc EXCEPT ![c] = x], frame' = [frame EXCEPT ![c] = f],
         frames' \in 0 .. MaxFrames
  PROVE  FrameInv'
<1>1. pc' \in [Cpus -> Steps] /\ frame' \in [Cpus -> Frames]
  BY DEF FrameInv
<1>2. ASSUME NEW d \in Cpus PROVE Good(pc'[d], frame'[d])
  <2>1. CASE d = c
    BY <2>1 DEF FrameInv
  <2>2. CASE d # c
    BY <2>2 DEF FrameInv
  <2> QED BY <2>1, <2>2
<1> QED BY <1>1, <1>2 DEF FrameInv

\* A step that leaves the processors alone.
LEMMA SameFrames == ASSUME FrameInv, UNCHANGED frameVars PROVE FrameInv'
BY DEF FrameInv, frameVars

LEMMA MineIsOne == ASSUME NEW f, Mine(f) PROVE One(f)
BY DEF Mine, One

\* kfree_skb of the one reference.
LEMMA FreedOne ==
  ASSUME NEW f \in Frames, One(f)
  PROVE  Freed(f) \in Frames /\ Freed(f).orig = 0 /\ Freed(f).copy = 0
BY DEF Freed, One, Frames

\* skb_padto frees what it cannot pad, and the caller frees it again.
LEMMA FreedTwice ==
  ASSUME NEW f \in Frames, One(f)
  PROVE  LET g == Freed(Freed(f)) IN g \in Frames /\ g.orig = 0 /\ g.copy = -1
<1> DEFINE h == Freed(f)
<1>1. h \in Frames /\ h.orig = 0 /\ h.copy = 0
  BY FreedOne
<1> HIDE DEF h
<1>2. Freed(h) = [h EXCEPT !.copy = -1]
  BY <1>1 DEF Freed
<1>3. Freed(h) \in Frames /\ Freed(h).orig = 0 /\ Freed(h).copy = -1
  BY <1>1, <1>2 DEF Frames
<1> QED BY <1>3 DEF h

LEMMA KeyType ==
  ASSUME Links, NEW f \in Frames, f.to \in Peers \cup {Group}
  PROVE  KeyOf(f) \in DOMAIN Iv
BY DEF Links, KeyOf, Entries

\* The frame the stack hands over.
LEMMA Fresh == NoFrame \in Frames /\ NoFrame.orig = 0 /\ NoFrame.copy = 0
<1>1. "open" \in DOMAIN Iv /\ "open" \in DOMAIN Icv
  BY DEF Iv, Icv
<1> QED BY <1>1, SMT DEF Frames, NoFrame

LEMMA NewFrame ==
  ASSUME NEW held \in Holdings, NEW room \in Rooms, NEW to \in Peers \cup {NoPeer, Group}
  PROVE  LET f == [NoFrame EXCEPT !.held = held, !.room = room, !.to = to, !.orig = 1]
         IN  f \in Frames /\ f.orig = 1 /\ f.copy = 0
<1> DEFINE f == [NoFrame EXCEPT !.held = held, !.room = room, !.to = to, !.orig = 1]
           f1 == [NoFrame EXCEPT !.held = held]
           f2 == [f1 EXCEPT !.room = room]
           f3 == [f2 EXCEPT !.to = to]
           f4 == [f3 EXCEPT !.orig = 1]
<1>1. room \in Int
  BY XmitFrameAssumption
<1>2. f1 \in Frames /\ f1.copy = 0
  BY Fresh DEF Frames
<1> HIDE DEF f1
<1>3. f2 \in Frames /\ f2.copy = 0
  BY <1>1, <1>2 DEF Frames
<1> HIDE DEF f2
<1>4. f3 \in Frames /\ f3.copy = 0
  BY <1>3 DEF Frames
<1> HIDE DEF f3
<1>5. f4 \in Frames /\ f4.copy = 0 /\ f4.orig = 1
  BY <1>4 DEF Frames
<1>6. f = f4
  BY Fresh DEF Frames, f1, f2, f3
<1> QED BY <1>5, <1>6

\* The QoS of a frame is a truth value.
LEMMA WithQos ==
  ASSUME NEW f \in Frames, NEW q \in BOOLEAN
  PROVE  LET g == [f EXCEPT !.qos = q]
         IN  g \in Frames /\ g.orig = f.orig /\ g.copy = f.copy
BY SMT DEF Frames

-----------------------------------------------------------------------------
(* The steps of a processor.                                               *)

LEMMA HandedStep == ASSUME FrameTableInv, NEW c \in Cpus, Handed(c) PROVE FrameInv'
<1> USE DEF FrameTableInv
<1>1. PICK held \in Holdings, room \in Rooms, to \in To :
        LET f == [NoFrame EXCEPT !.held = held, !.room = room, !.to = to, !.orig = 1]
        IN  IF rmmod
            THEN Goto(c, "idle", "dropped") /\ Becomes(c, Failed(f, TRUE))
            ELSE Goto(c, "idle", "copy") /\ Becomes(c, [f EXCEPT !.qos = Qos(f)])
  BY DEF Handed
<1> DEFINE f == [NoFrame EXCEPT !.held = held, !.room = room, !.to = to, !.orig = 1]
<1>2. to \in Peers \cup {NoPeer, Group}
  BY DEF To, Links
<1>3. frames' \in 0 .. MaxFrames
  BY XmitFrameAssumption DEF Handed, FrameInv
<1>4. f \in Frames /\ f.orig = 1 /\ f.copy = 0
  BY <1>2, NewFrame
<1>5. IF rmmod
      THEN Goto(c, "idle", "dropped") /\ Becomes(c, Failed(f, TRUE))
      ELSE Goto(c, "idle", "copy") /\ Becomes(c, [f EXCEPT !.qos = Qos(f)])
  BY <1>1
<1> HIDE DEF f
<1>6. CASE rmmod
  <2>1. Freed(f) \in Frames /\ Good("dropped", Freed(f))
    BY <1>4, FreedOne DEF One, Good
  <2> QED BY <1>3, <1>5, <1>6, <2>1, OneProcessor DEF Goto, Becomes, Failed, Steps, Ended
<1>7. CASE ~rmmod
  <2> DEFINE q == Qos(f)
             g == [f EXCEPT !.qos = q]
  <2>1. q \in BOOLEAN
    <3>1. CASE Found(f)
      <4>1. f.to \in Peers
        BY <3>1 DEF Found
      <4>2. entry[f.to] \in Entries
        BY <4>1 DEF Links
      <4> HIDE DEF Entries
      <4>3. entry[f.to].wmm \in BOOLEAN
        BY <4>2 DEF Entries
      <4> QED BY <3>1, <4>3, Zenon DEF Qos
    <3>2. CASE ~Found(f)
      BY <3>2, Zenon DEF Qos
    <3> QED BY <3>1, <3>2
  <2>2. frame' = [frame EXCEPT ![c] = g] /\ pc' = [pc EXCEPT ![c] = "copy"]
    BY <1>5, <1>7, Zenon DEF Goto, Becomes
  <2> HIDE DEF q
  <2>3. g \in Frames /\ g.orig = 1 /\ g.copy = 0
    BY <1>4, <2>1, WithQos
  <2> HIDE DEF g
  <2>4. Good("copy", g)
    BY <2>3 DEF Good
  <2> QED BY <1>3, <2>2, <2>3, <2>4, OneProcessor DEF Steps
<1> QED BY <1>6, <1>7

LEMMA CopyStep == ASSUME FrameTableInv, NEW c \in Cpus, Copy(c) PROVE FrameInv'
<1> USE DEF FrameTableInv
<1> DEFINE f == frame[c]
           h == [f EXCEPT !.orig = @ - 1]
           g == [f EXCEPT !.orig = @ - 1, !.copy = 1]
<1>1. /\ pc[c] = "copy" /\ f \in Frames /\ f.orig = 1 /\ f.copy = 0
      /\ frames' \in 0 .. MaxFrames /\ f.held = "shared"
  BY DEF Copy, Goto, FrameInv, Good
<1>2. h \in Frames /\ h.orig = 0 /\ h.copy = 0 /\ h.held = "shared"
  BY <1>1 DEF Frames
<1>3. g = [h EXCEPT !.copy = 1]
  BY <1>1 DEF Frames
<1>4. g \in Frames /\ g.orig = 0 /\ g.copy = 1 /\ g.held = "shared"
  <2> HIDE DEF g, h
  <2> QED BY <1>2, <1>3 DEF Frames
<1>5. \/ Goto(c, "copy", "header") /\ Becomes(c, g)
      \/ Goto(c, "copy", "dropped") /\ Becomes(c, h)
  BY DEF Copy
<1> HIDE DEF f, g, h
<1>6. Good("header", g) /\ Good("dropped", h)
  BY <1>2, <1>4 DEF Good, Mine
<1> QED BY <1>1, <1>2, <1>4, <1>5, <1>6, OneProcessor DEF Goto, Becomes, Steps, Ended

LEMMA NoCopyStep == ASSUME FrameTableInv, NEW c \in Cpus, NoCopy(c) PROVE FrameInv'
<1> USE DEF FrameTableInv
<1>1. pc[c] = "copy" /\ frame[c] \in Frames /\ frames' \in 0 .. MaxFrames
  BY DEF NoCopy, Goto, FrameInv
<1>2. Good("header", frame[c]) /\ frame' = [frame EXCEPT ![c] = frame[c]]
  BY <1>1 DEF NoCopy, Good, Mine, FrameInv
<1> QED BY <1>1, <1>2, OneProcessor DEF NoCopy, Goto, Steps

\* The pull of the Ethernet header, and the pushes.
LEMMA Pushed ==
  ASSUME NEW f \in Frames, NEW n \in Int
  PROVE  LET g == [f EXCEPT !.pulled = TRUE, !.room = n]
         IN  /\ g \in Frames /\ g.orig = f.orig /\ g.copy = f.copy /\ g.to = f.to
             /\ g.held = f.held
<1> DEFINE f1 == [f EXCEPT !.pulled = TRUE]
           g == [f EXCEPT !.pulled = TRUE, !.room = n]
<1>1. /\ f1 \in Frames /\ f1.orig = f.orig /\ f1.copy = f.copy /\ f1.to = f.to
      /\ f1.held = f.held
  BY DEF Frames
<1>2. g = [f1 EXCEPT !.room = n]
  BY DEF Frames
<1> HIDE DEF f1, g
<1> QED BY <1>1, <1>2 DEF Frames

LEMMA HeaderStep == ASSUME FrameTableInv, NEW c \in Cpus, Header(c) PROVE FrameInv'
<1> USE DEF FrameTableInv
<1> DEFINE f == frame[c]
<1>1. pc[c] = "header" /\ f \in Frames /\ Mine(f) /\ frames' \in 0 .. MaxFrames
  BY DEF Header, Goto, FrameInv, Good
<1>2. CASE Goto(c, "header", "tx") /\ Becomes(c, WithHeader(f))
  <2> DEFINE n == f.room + Pulled + (IF Expands(f) THEN Added(f) ELSE 0) - HdrLen(f) - Encaps
  <2>1. f.room \in Int
    BY <1>1 DEF Frames
  <2>2. HdrLen(f) \in Int /\ Pulled \in Int /\ Encaps \in Int
    BY DEF HdrLen, Pulled, Encaps, EthLen
  <2>3. Added(f) \in Int
    BY <2>1, <2>2 DEF Added, AtLeastNone, Lacking, EncryptHeadroom, extra_tx_headroom,
         ExtraHeadroom
  <2>4. n \in Int
    <3> HIDE DEF f
    <3> QED BY <2>1, <2>2, <2>3
  <2>5. WithHeader(f) = [f EXCEPT !.pulled = TRUE, !.room = n]
    BY <1>1 DEF WithHeader, Frames
  <2>6. WithHeader(f) \in Frames /\ Good("tx", WithHeader(f))
    <3> DEFINE g == [f EXCEPT !.pulled = TRUE, !.room = n]
    <3>1. g \in Frames /\ g.orig = f.orig /\ g.copy = f.copy /\ g.held = f.held
      <4> HIDE DEF f, n
      <4> QED BY <1>1, <2>4, Pushed
    <3> HIDE DEF g
    <3>2. WithHeader(f) = g
      BY <2>5 DEF g
    <3> QED BY <1>1, <3>1, <3>2 DEF Good, Mine
  <2> QED BY <1>1, <1>2, <2>6, OneProcessor DEF Goto, Becomes, Steps
<1>3. CASE /\ Goto(c, "header", "busy")
           /\ Becomes(c, Failed([f EXCEPT !.pulled = TRUE, !.room = @ + Pulled], FALSE))
  <2> DEFINE g == [f EXCEPT !.pulled = TRUE, !.room = f.room + Pulled]
  <2>1. f.room + Pulled \in Int
    BY <1>1 DEF Frames, Pulled, EthLen
  <2>2. Failed([f EXCEPT !.pulled = TRUE, !.room = @ + Pulled], FALSE) = g
    BY <1>1 DEF Failed, Frames
  <2>3. g \in Frames /\ g.orig = f.orig /\ g.copy = f.copy /\ g.held = f.held
    <3> DEFINE n == f.room + Pulled
    <3> HIDE DEF f, n
    <3> QED BY <1>1, <2>1, Pushed DEF n
  <2>4. frame' = [frame EXCEPT ![c] = g] /\ pc' = [pc EXCEPT ![c] = "busy"]
    BY <1>3, <2>2 DEF Goto, Becomes
  <2> HIDE DEF g
  <2>5. Good("busy", g)
    BY <1>1, <2>3 DEF Good, Mine
  <2> QED BY <1>1, <2>3, <2>4, <2>5, OneProcessor DEF Steps, Ended
<1> QED BY <1>2, <1>3 DEF Header

LEMMA LookupStep == ASSUME FrameTableInv, NEW c \in Cpus, Lookup(c) PROVE FrameInv'
<1> USE DEF FrameTableInv
<1> DEFINE f == frame[c]
<1>1. pc[c] = "tx" /\ f \in Frames /\ frames' \in 0 .. MaxFrames
  BY DEF Lookup, Goto, FrameInv
<1>2. Mine(f) /\ One(f)
  BY <1>1, MineIsOne DEF FrameInv, Good
<1>3. CASE enabled /\ (Found(f) \/ f.to = Group)
  <2>1. Good("crypt", f) /\ frame' = [frame EXCEPT ![c] = f]
    BY <1>2, <1>3 DEF Lookup, Good, Found, FrameInv
  <2>2. pc' = [pc EXCEPT ![c] = "crypt"]
    BY <1>3 DEF Lookup, Goto
  <2> QED BY <1>1, <2>1, <2>2, OneProcessor DEF Steps
<1>4. CASE ~(enabled /\ (Found(f) \/ f.to = Group))
  <2>1. frame' = [frame EXCEPT ![c] = Freed(f)] /\ pc' = [pc EXCEPT ![c] = "dropped"]
    BY <1>4 DEF Lookup, Goto, Becomes, Dropped
  <2>2. Freed(f) \in Frames /\ Good("dropped", Freed(f))
    BY <1>1, <1>2, FreedOne DEF Good
  <2> QED BY <1>1, <2>1, <2>2, OneProcessor DEF Steps, Ended
<1> QED BY <1>3, <1>4

LEMMA Keyed ==
  ASSUME NEW f \in Frames, NEW k \in DOMAIN Iv
  PROVE  LET g == [f EXCEPT !.iv = k, !.room = @ - Iv[k]]
         IN  /\ g \in Frames /\ g.orig = f.orig /\ g.copy = f.copy /\ g.to = f.to
             /\ g.held = f.held
<1> DEFINE n == f.room - Iv[k]
           f1 == [f EXCEPT !.iv = k]
           g == [f EXCEPT !.iv = k, !.room = @ - Iv[k]]
<1>1. n \in Int
  BY IvNat DEF Frames
<1>2. /\ f1 \in Frames /\ f1.orig = f.orig /\ f1.copy = f.copy /\ f1.to = f.to
      /\ f1.held = f.held
  BY DEF Frames
<1>3. g = [f1 EXCEPT !.room = n]
  BY DEF Frames
<1>4. g \in Frames /\ g.orig = f.orig /\ g.copy = f.copy /\ g.to = f.to /\ g.held = f.held
  <2> HIDE DEF f1, g, n
  <2> QED BY <1>1, <1>2, <1>3 DEF Frames
<1> QED BY <1>4

LEMMA CryptStep == ASSUME FrameTableInv, NEW c \in Cpus, Crypt(c) PROVE FrameInv'
<1> USE DEF FrameTableInv
<1> DEFINE f == frame[c]
           k == KeyOf(f)
           g == [f EXCEPT !.iv = k, !.room = @ - Iv[k]]
<1>1. pc[c] = "crypt" /\ f \in Frames /\ frames' \in 0 .. MaxFrames
  BY DEF Crypt, Goto, FrameInv
<1>2. Mine(f) /\ One(f) /\ f.to \in Peers \cup {Group}
  BY <1>1, MineIsOne DEF FrameInv, Good
<1>3. k \in DOMAIN Iv
  BY <1>1, <1>2, KeyType
<1>4. \/ Goto(c, "crypt", "dropped") /\ Becomes(c, Freed(f))
      \/ Goto(c, "crypt", "wsm") /\ Becomes(c, g)
  BY DEF Crypt, Dropped
<1>5. g \in Frames /\ g.orig = f.orig /\ g.copy = f.copy /\ g.to = f.to /\ g.held = f.held
  <2> HIDE DEF f, k
  <2> QED BY <1>1, <1>3, Keyed
<1>6. Good("wsm", g)
  <2> HIDE DEF g
  <2> QED BY <1>2, <1>5 DEF Good, Mine
<1>7. Freed(f) \in Frames /\ Good("dropped", Freed(f))
  BY <1>1, <1>2, FreedOne DEF Good
<1> HIDE DEF f, g
<1> QED BY <1>1, <1>4, <1>5, <1>6, <1>7, OneProcessor DEF Goto, Becomes, Steps, Ended

LEMMA Submitted ==
  ASSUME NEW f \in Frames, NEW k \in DOMAIN Iv
  PROVE  LET g == [f EXCEPT !.icv = k, !.room = @ - Offset(f) - TxLen]
         IN  g \in Frames /\ g.orig = f.orig /\ g.copy = f.copy /\ g.held = f.held
<1> DEFINE n == f.room - Offset(f) - TxLen
           f1 == [f EXCEPT !.icv = k]
           g == [f EXCEPT !.icv = k, !.room = @ - Offset(f) - TxLen]
<1>1. n \in Int
  BY DEF Frames, Offset, TxLen
<1>2. f1 \in Frames /\ f1.orig = f.orig /\ f1.copy = f.copy /\ f1.held = f.held
  BY CipherType DEF Frames
<1>3. g = [f1 EXCEPT !.room = n]
  BY DEF Frames
<1>4. g \in Frames /\ g.orig = f.orig /\ g.copy = f.copy /\ g.held = f.held
  <2> HIDE DEF f1, g, n
  <2> QED BY <1>1, <1>2, <1>3 DEF Frames
<1> QED BY <1>4

LEMMA WsmStep == ASSUME FrameTableInv, NEW c \in Cpus, Wsm(c) PROVE FrameInv'
<1> USE DEF FrameTableInv
<1> DEFINE f == frame[c]
           k == KeyOf(f)
           g == [f EXCEPT !.icv = k, !.room = @ - Offset(f) - TxLen]
<1>1. pc[c] = "wsm" /\ f \in Frames /\ frames' \in 0 .. MaxFrames
  BY DEF Wsm, Goto, FrameInv
<1>2. Mine(f) /\ One(f) /\ f.to \in Peers \cup {Group}
  BY <1>1, MineIsOne DEF FrameInv, Good
<1>3. k \in DOMAIN Iv
  BY <1>1, <1>2, KeyType
<1>4. \/ Goto(c, "wsm", "dropped") /\ Becomes(c, Freed(f))
      \/ Goto(c, "wsm", "queued") /\ Becomes(c, g)
      \/ Goto(c, "wsm", "torn") /\ Becomes(c, Freed(Freed(g)))
  BY DEF Wsm, Dropped
<1>5. g \in Frames /\ g.orig = f.orig /\ g.copy = f.copy /\ g.held = f.held
  <2> HIDE DEF f, k
  <2> QED BY <1>1, <1>3, Submitted
<1>6. Good("queued", g) /\ One(g)
  <2> HIDE DEF g
  <2>1. Mine(g)
    BY <1>2, <1>5 DEF Mine
  <2> QED BY <2>1, MineIsOne DEF Good
<1>7. Freed(f) \in Frames /\ Good("dropped", Freed(f))
  BY <1>1, <1>2, FreedOne DEF Good
<1> HIDE DEF f, g
<1>8. Freed(Freed(g)) \in Frames /\ Good("torn", Freed(Freed(g)))
  BY <1>5, <1>6, FreedTwice DEF Good
<1> QED BY <1>1, <1>4, <1>5, <1>6, <1>7, <1>8, OneProcessor DEF Goto, Becomes, Steps, Ended

LEMMA AgainStep == ASSUME FrameTableInv, NEW c \in Cpus, Again(c) PROVE FrameInv'
<1>1. Good("idle", NoFrame)
  BY DEF Good
<1> QED BY <1>1, Fresh, OneProcessor DEF FrameTableInv, FrameInv, Again, Becomes, Steps

-----------------------------------------------------------------------------
(* The event handler.                                                      *)

HandlerStep ==
  \/ \E p \in Peers : Insert(p) \/ Unlink(p)
  \/ SetWmm \/ SetKey \/ Carrier \/ SetBssid \/ Left \/ Synchronize \/ Down
CpuStep(c) == Handed(c) \/ Copy(c) \/ NoCopy(c) \/ Header(c) \/ Lookup(c) \/ Crypt(c)
              \/ Wsm(c) \/ Again(c)

LEMMA EntryLife ==
  ASSUME NEW e \in Entries, NEW l \in {"none", "linked", "unlinked"}
  PROVE  [e EXCEPT !.life = l] \in Entries
BY SMT DEF Entries
LEMMA EntryWmm ==
  ASSUME NEW e \in Entries, NEW b \in BOOLEAN PROVE [e EXCEPT !.wmm = b] \in Entries
BY SMT DEF Entries
LEMMA EntryKey ==
  ASSUME NEW e \in Entries, NEW k \in DOMAIN Iv PROVE [e EXCEPT !.key = k] \in Entries
BY SMT DEF Entries
LEMMA EntryNone == NoEntry \in Entries
<1>1. "open" \in DOMAIN Iv
  BY DEF Iv
<1> QED BY <1>1, SMT DEF Entries, NoEntry

LEMMA LinksStep == ASSUME FrameTableInv, HandlerStep PROVE Links'
<1> USE DEF FrameTableInv
<1> HIDE DEF Entries
<1>1. ASSUME NEW p \in Peers, Insert(p) PROVE Links'
  <2>1. entry' = [entry EXCEPT ![p] = [entry[p] EXCEPT !.life = "linked"]]
    BY <1>1 DEF Insert
  <2>2. [entry[p] EXCEPT !.life = "linked"] \in Entries
    BY EntryLife DEF Links
  <2> HIDE DEF Insert
  <2>3. entry' \in [Peers -> Entries]
    BY <2>1, <2>2 DEF Links
  <2> QED BY <1>1, <2>3, XmitFrameAssumption DEF Insert, Links, EventStep
<1>2. ASSUME NEW p \in Peers, Unlink(p) PROVE Links'
  <2>1. entry' = [entry EXCEPT ![p] = [entry[p] EXCEPT !.life = "unlinked"]]
    BY <1>2 DEF Unlink, Unlinked
  <2>2. [entry[p] EXCEPT !.life = "unlinked"] \in Entries
    BY EntryLife DEF Links
  <2>3. entry' \in [Peers -> Entries]
    BY <2>1, <2>2 DEF Links
  <2> QED BY <1>2, <2>3 DEF Unlink, Links, EventStep, Reading
<1>3. CASE SetWmm
  <2>1. PICK b \in BOOLEAN : entry' = [entry EXCEPT ![who].wmm = b]
    BY <1>3 DEF SetWmm
  <2>2. who \in Peers /\ step' = "key"
    BY <1>3 DEF SetWmm, EventStep, Links
  <2>3. entry' = [entry EXCEPT ![who] = [entry[who] EXCEPT !.wmm = b]]
    BY <2>1
  <2>4. [entry[who] EXCEPT !.wmm = b] \in Entries
    BY <2>2, EntryWmm DEF Links
  <2>5. entry' \in [Peers -> Entries]
    BY <2>2, <2>3, <2>4, Zenon DEF Links
  <2>6. UNCHANGED <<who, readers, links, group, bssid>>
    BY <1>3 DEF SetWmm
  <2> QED BY <2>2, <2>5, <2>6 DEF Links
<1>4. CASE SetKey
  <2>1. who \in Peers /\ Cipher \in DOMAIN Iv /\ step' = "carrier"
    BY <1>4, CipherType DEF SetKey, EventStep, Links
  <2>2. entry' = [entry EXCEPT ![who] = [entry[who] EXCEPT !.key = Cipher]]
    BY <1>4 DEF SetKey
  <2>3. [entry[who] EXCEPT !.key = Cipher] \in Entries
    BY <2>1, EntryKey DEF Links
  <2>4. entry' \in [Peers -> Entries]
    BY <2>1, <2>2, <2>3 DEF Links
  <2> QED BY <1>4, <2>1, <2>4 DEF SetKey, Links
<1>5. CASE Carrier
  BY <1>5 DEF Carrier, Links, EventStep
<1>6. CASE SetBssid
  BY <1>6 DEF SetBssid, Links, EventStep
<1>7. CASE Left
  BY <1>7 DEF Left, Links
<1>8. CASE Synchronize
  <2>1. entry' \in [Peers -> Entries]
    BY <1>8, EntryNone DEF Synchronize, Links
  <2> QED BY <1>8, <2>1 DEF Synchronize, Links, EventStep
<1>9. CASE Down
  <2>1. UNCHANGED <<entry, who, readers, links, group, bssid>> /\ step' = "idle"
    BY <1>9 DEF Down, EventStep
  <2> QED BY <2>1 DEF Links
<1> QED BY <1>1, <1>2, <1>3, <1>4, <1>5, <1>6, <1>7, <1>8, <1>9 DEF HandlerStep

\* The processors' frames are not the handler's.
LEMMA HandlerFrames == ASSUME FrameTableInv, HandlerStep PROVE FrameInv'
<1>1. UNCHANGED frameVars
  BY DEF HandlerStep, Insert, Unlink, SetWmm, SetKey, Carrier, SetBssid, Left, Synchronize,
         Down, Rest
<1> QED BY <1>1, SameFrames DEF FrameTableInv

LEMMA FlagsStep == ASSUME FrameTableInv, XmitNext PROVE Flags'
<1>1. carrier \in BOOLEAN /\ enabled \in BOOLEAN /\ rmmod \in BOOLEAN
  BY Zenon DEF FrameTableInv, Flags
<1>2. ASSUME NEW c \in Cpus, CpuStep(c) PROVE UNCHANGED <<carrier, enabled, rmmod>>
  BY <1>2, Zenon DEF CpuStep, Handed, Copy, NoCopy, Header, Lookup, Crypt, Wsm, Again, linkVars,
         flagVars
<1>3. ASSUME HandlerStep PROVE carrier' \in BOOLEAN /\ UNCHANGED <<enabled, rmmod>>
  BY <1>1, <1>3, Zenon DEF HandlerStep, Insert, Unlink, SetWmm, SetKey, Carrier, SetBssid,
         Left, Synchronize, Down, Rest, flagVars
<1>4. ASSUME Stop \/ PreRmmod
      PROVE  {carrier', enabled', rmmod'} \subseteq BOOLEAN
  BY <1>1, <1>4, Zenon DEF Stop, PreRmmod, linkVars
<1>5. CASE \E c \in Cpus : CpuStep(c)
  BY <1>1, <1>2, <1>5, Zenon DEF Flags
<1>6. CASE HandlerStep
  BY <1>1, <1>3, <1>6, Zenon DEF Flags
<1>7. CASE Stop \/ PreRmmod
  BY <1>4, <1>7, Zenon DEF Flags
<1> QED BY <1>5, <1>6, <1>7 DEF XmitNext, CpuStep, HandlerStep

LEMMA MarksStep == ASSUME FrameTableInv, [XmitNext]_xmitVars PROVE Marks'
<1>1. raced \subseteq Cpus /\ tight \subseteq Cpus /\ type \in {"station", "ap"}
  BY DEF FrameTableInv, Marks
<1>2. ASSUME NEW c \in Cpus, CpuStep(c) PROVE Marks'
  <2>1. CASE Handed(c)
    BY <1>1, <2>1 DEF Handed, Marks, flagVars
  <2>2. CASE Header(c)
    BY <1>1, <2>2 DEF Header, Marks, flagVars
  <2>3. CASE Copy(c) \/ NoCopy(c) \/ Lookup(c) \/ Crypt(c) \/ Wsm(c) \/ Again(c)
    BY <1>1, <2>3 DEF Copy, NoCopy, Lookup, Crypt, Wsm, Again, Marks, flagVars
  <2> QED BY <1>2, <2>1, <2>2, <2>3 DEF CpuStep
<1>3. ASSUME HandlerStep PROVE Marks'
  <2>1. ASSUME NEW p \in Peers, Insert(p) PROVE Marks'
    BY <1>1, <2>1 DEF Insert, InCall, Marks, flagVars, frameVars
  <2>2. ASSUME Rest PROVE Marks'
    BY <1>1, <2>2 DEF Rest, Marks, flagVars, frameVars
  <2> QED BY <1>3, <2>1, <2>2
        DEF HandlerStep, Unlink, SetWmm, SetKey, Carrier, SetBssid, Left, Synchronize, Down
<1>4. ASSUME Stop \/ PreRmmod PROVE Marks'
  BY <1>1, <1>4 DEF Stop, PreRmmod, Marks, frameVars
<1>5. ASSUME UNCHANGED xmitVars PROVE Marks'
  BY <1>1, <1>5 DEF xmitVars, Marks, flagVars, frameVars
<1>6. CASE \E c \in Cpus : CpuStep(c)
  BY <1>2, <1>6
<1> QED BY <1>3, <1>4, <1>5, <1>6 DEF XmitNext, CpuStep, HandlerStep

-----------------------------------------------------------------------------
(* The invariant.                                                          *)

LEMMA FrameTableInit == XmitInit => FrameTableInv
<1> SUFFICES ASSUME XmitInit PROVE FrameTableInv
  OBVIOUS
<1>1. Links
  BY CipherType, EntryNone, XmitFrameAssumption DEF XmitInit, Links
<1>2. Flags
  BY Zenon DEF XmitInit, Flags
<1>3. FrameInv
  <2>1. pc \in [Cpus -> Steps] /\ frame \in [Cpus -> Frames] /\ frames \in 0 .. MaxFrames
    BY Fresh, XmitFrameAssumption DEF XmitInit, Steps
  <2>2. \A c \in Cpus : Good(pc[c], frame[c])
    BY DEF XmitInit, Good
  <2> QED BY <2>1, <2>2 DEF FrameInv
<1>4. Marks
  BY DEF XmitInit, Marks
<1> QED BY <1>1, <1>2, <1>3, <1>4 DEF FrameTableInv

LEMMA FrameTableStep == FrameTableInv /\ [XmitNext]_xmitVars => FrameTableInv'
<1> SUFFICES ASSUME FrameTableInv, [XmitNext]_xmitVars PROVE FrameTableInv'
  OBVIOUS
<1>1. ASSUME NEW c \in Cpus, CpuStep(c) PROVE Links' /\ FrameInv'
  <2>1. FrameInv'
    BY <1>1, HandedStep, CopyStep, NoCopyStep, HeaderStep, LookupStep, CryptStep, WsmStep,
       AgainStep DEF CpuStep
  <2>2. UNCHANGED linkVars
    BY <1>1 DEF CpuStep, Handed, Copy, NoCopy, Header, Lookup, Crypt, Wsm, Again
  <2>3. Links'
    BY <2>2 DEF FrameTableInv, Links, linkVars
  <2> QED BY <2>1, <2>3
<1>2. ASSUME HandlerStep PROVE Links' /\ FrameInv'
  BY <1>2, LinksStep, HandlerFrames
<1>3. ASSUME UNCHANGED frameVars, UNCHANGED linkVars PROVE Links' /\ FrameInv'
  <2>1. Links'
    BY <1>3 DEF FrameTableInv, Links, linkVars
  <2> QED BY <1>3, <2>1, SameFrames DEF FrameTableInv
<1>4. CASE XmitNext
  <2>1. Links' /\ FrameInv'
    BY <1>1, <1>2, <1>3, <1>4 DEF XmitNext, CpuStep, HandlerStep, Stop, PreRmmod
  <2> QED BY <1>4, <2>1, FlagsStep, MarksStep DEF FrameTableInv
<1>5. CASE UNCHANGED xmitVars
  <2>1. UNCHANGED frameVars /\ UNCHANGED linkVars /\ UNCHANGED <<carrier, enabled, rmmod>>
    BY <1>5 DEF xmitVars, linkVars, flagVars
  <2>2. Flags'
    BY <2>1, Zenon DEF FrameTableInv, Flags
  <2> QED BY <1>3, <2>1, <2>2, MarksStep DEF FrameTableInv
<1> QED BY <1>4, <1>5

THEOREM FrameTableInvariant == XmitSpec => []FrameTableInv
<1>1. FrameTableInv /\ [XmitNext]_xmitVars => FrameTableInv'
  BY FrameTableStep
<1> QED BY FrameTableInit, <1>1, PTL DEF XmitSpec

\* The variables have their types, whichever allocation fails.
THEOREM XmitTyped == XmitSpec => []XmitTypeOK
<1>1. FrameTableInv => XmitTypeOK
  <2> SUFFICES ASSUME FrameTableInv PROVE XmitTypeOK
    OBVIOUS
  <2>1. {carrier, enabled, rmmod} \subseteq BOOLEAN
    BY Zenon DEF FrameTableInv, Flags
  <2>2. /\ pc \in [Cpus -> {"idle", "copy", "header", "tx", "crypt", "wsm"} \cup Ended]
        /\ frame \in [Cpus -> Frames] /\ frames \in 0 .. MaxFrames
    BY DEF FrameTableInv, FrameInv, Steps
  <2>3. /\ entry \in [Peers -> Entries] /\ who \in Peers \cup {NoPeer}
        /\ step \in {"idle", "wmm", "key", "carrier", "bssid", "wait", "down"}
        /\ readers \subseteq Cpus /\ links \in 0 .. MaxLinks
        /\ group \in DOMAIN Iv /\ bssid \in Peers \cup {NoPeer}
    BY DEF FrameTableInv, Links
  <2>4. raced \subseteq Cpus /\ tight \subseteq Cpus /\ type \in {"station", "ap"}
    BY DEF FrameTableInv, Marks
  <2> QED BY <2>1, <2>2, <2>3, <2>4, Zenon DEF XmitTypeOK
<1> QED BY FrameTableInvariant, <1>1, PTL

\* Each way out accounts for the stack's reference once, the frame that could not be
\* padded and the shared one that is refused with a clone made excepted, whichever
\* allocation fails.
THEOREM KeepsAccount == XmitSpec => []Accounted
<1>1. FrameTableInv => Accounted
  BY DEF FrameTableInv, FrameInv, Accounted, Good, Mine
<1> QED BY FrameTableInvariant, <1>1, PTL

-----------------------------------------------------------------------------
(* What a step makes of the frame.                                         *)

Moves(c, x, g) == pc' = [pc EXCEPT ![c] = x] /\ frame' = [frame EXCEPT ![c] = g]

\* The reference counts and pulled are all that differs.
Alike(f, g) ==
  g.room = f.room /\ g.to = f.to /\ g.qos = f.qos /\ g.iv = f.iv /\ g.icv = f.icv
  /\ g.held = f.held

LEMMA OrigAlike ==
  ASSUME NEW f \in Frames, NEW n \in Int
  PROVE  [f EXCEPT !.orig = n] \in Frames /\ Alike(f, [f EXCEPT !.orig = n])
BY SMT DEF Frames, Alike

LEMMA CopyAlike ==
  ASSUME NEW f \in Frames, NEW n \in Int
  PROVE  [f EXCEPT !.copy = n] \in Frames /\ Alike(f, [f EXCEPT !.copy = n])
<1> DEFINE g == [f EXCEPT !.copy = n]
<1>1. g \in Frames
  BY DEF Frames
<1>2. g.room = f.room /\ g.to = f.to /\ g.qos = f.qos
  BY DEF Frames
<1>3. g.iv = f.iv /\ g.icv = f.icv /\ g.held = f.held
  BY DEF Frames
<1> QED BY <1>1, <1>2, <1>3 DEF Alike

LEMMA PulledAlike ==
  ASSUME NEW f \in Frames
  PROVE  [f EXCEPT !.pulled = TRUE] \in Frames /\ Alike(f, [f EXCEPT !.pulled = TRUE])
<1> DEFINE g == [f EXCEPT !.pulled = TRUE]
<1>1. g \in Frames
  BY DEF Frames
<1>2. g.room = f.room /\ g.to = f.to /\ g.qos = f.qos
  BY DEF Frames
<1>3. g.iv = f.iv /\ g.icv = f.icv /\ g.held = f.held
  BY DEF Frames
<1> QED BY <1>1, <1>2, <1>3 DEF Alike

LEMMA FreedAlike == ASSUME NEW f \in Frames PROVE Freed(f) \in Frames /\ Alike(f, Freed(f))
<1>1. f.copy - 1 \in Int /\ 0 \in Int
  BY DEF Frames
<1>2. Freed(f) = [f EXCEPT !.orig = 0] \/ Freed(f) = [f EXCEPT !.copy = f.copy - 1]
  BY DEF Freed
<1> HIDE DEF Freed
<1> QED BY <1>1, <1>2, OrigAlike, CopyAlike

LEMMA RoomOnly ==
  ASSUME NEW f \in Frames, NEW n \in Int
  PROVE  LET g == [f EXCEPT !.room = n]
         IN  /\ g \in Frames /\ g.room = n /\ g.to = f.to /\ g.qos = f.qos /\ g.iv = f.iv
             /\ g.icv = f.icv /\ g.held = f.held
BY SMT DEF Frames

LEMMA IvOnly ==
  ASSUME NEW f \in Frames, NEW k \in DOMAIN Iv
  PROVE  LET g == [f EXCEPT !.iv = k]
         IN  g \in Frames /\ g.room = f.room /\ g.to = f.to /\ g.qos = f.qos /\ g.iv = k
BY SMT DEF Frames

LEMMA IcvOnly ==
  ASSUME NEW f \in Frames, NEW k \in DOMAIN Iv
  PROVE  LET g == [f EXCEPT !.icv = k]
         IN  /\ g \in Frames /\ g.room = f.room /\ g.to = f.to /\ g.qos = f.qos /\ g.iv = f.iv
             /\ g.icv = k
<1>1. k \in DOMAIN Icv
  BY CipherType
<1> QED BY <1>1, SMT DEF Frames

LEMMA QosOnly ==
  ASSUME NEW f \in Frames, NEW q \in BOOLEAN
  PROVE  LET g == [f EXCEPT !.qos = q]
         IN  g \in Frames /\ g.room = f.room /\ g.to = f.to /\ g.qos = q
BY SMT DEF Frames

\* The frame the stack hands over, before the QoS is chosen.
NewOne(held, room, to) ==
  [NoFrame EXCEPT !.held = held, !.room = room, !.to = to, !.orig = 1]

LEMMA NewOneFields ==
  ASSUME NEW held \in Holdings, NEW room \in Rooms, NEW to \in Peers \cup {NoPeer, Group}
  PROVE  LET f == NewOne(held, room, to)
         IN  f \in Frames /\ f.room = room /\ f.to = to
<1> DEFINE f == NewOne(held, room, to)
           f1 == [NoFrame EXCEPT !.held = held]
           f2 == [f1 EXCEPT !.room = room]
           f3 == [f2 EXCEPT !.to = to]
           f4 == [f3 EXCEPT !.orig = 1]
<1>1. room \in Int
  BY XmitFrameAssumption
<1>2. f1 \in Frames
  BY Fresh DEF Frames
<1>3. f = f4
  BY Fresh DEF Frames, NewOne
<1> HIDE DEF f1
<1>4. f2 \in Frames /\ f2.room = room
  BY <1>1, <1>2, RoomOnly
<1> HIDE DEF f2
<1>5. f3 \in Frames /\ f3.room = room /\ f3.to = to
  BY <1>4, SMT DEF Frames
<1> HIDE DEF f3
<1>6. f4 \in Frames /\ f4.room = room /\ f4.to = to
  BY <1>5, OrigAlike DEF Alike
<1> HIDE DEF f4
<1>7. f \in Frames /\ f.room = room /\ f.to = to
  BY <1>3, <1>6
<1> QED BY <1>7

LEMMA HandedMoves ==
  ASSUME FrameTableInv, NEW c \in Cpus, Handed(c)
  PROVE  \E x, g : /\ Moves(c, x, g) /\ pc[c] = "idle"
                   /\ ((x = "copy" /\ g.qos = Qos(g)) \/ x = "dropped")
                   /\ g.room \in Rooms /\ g.to \in To
                   /\ raced' = IF BeingMade(g.to) THEN raced \cup {c} ELSE raced \ {c}
<1>1. PICK held \in Holdings, room \in Rooms, to \in To :
        LET f == NewOne(held, room, to)
        IN  /\ IF rmmod
               THEN Goto(c, "idle", "dropped") /\ Becomes(c, Failed(f, TRUE))
               ELSE Goto(c, "idle", "copy") /\ Becomes(c, [f EXCEPT !.qos = Qos(f)])
            /\ raced' = IF BeingMade(to) THEN raced \cup {c} ELSE raced \ {c}
  BY DEF Handed, NewOne
<1> DEFINE f == NewOne(held, room, to)
<1>2. to \in Peers \cup {NoPeer, Group}
  BY DEF FrameTableInv, To, Links
<1>4. IF rmmod
      THEN Goto(c, "idle", "dropped") /\ Becomes(c, Failed(f, TRUE))
      ELSE Goto(c, "idle", "copy") /\ Becomes(c, [f EXCEPT !.qos = Qos(f)])
  BY <1>1
<1>5. raced' = IF BeingMade(to) THEN raced \cup {c} ELSE raced \ {c}
  BY <1>1
<1>3. f \in Frames /\ f.room = room /\ f.to = to
  BY <1>2, NewOneFields
<1> HIDE DEF f
<1>6. CASE rmmod
  <2>1. Moves(c, "dropped", Freed(f)) /\ pc[c] = "idle"
    BY <1>4, <1>6 DEF Goto, Becomes, Failed, Moves
  <2>2. Freed(f).room = room /\ Freed(f).to = to
    BY <1>3, FreedAlike DEF Alike
  <2> QED BY <1>5, <2>1, <2>2, Zenon
<1>7. CASE ~rmmod
  <2> DEFINE q == Qos(f)
             g == [f EXCEPT !.qos = q]
  <2>1. Moves(c, "copy", g) /\ pc[c] = "idle"
    BY <1>4, <1>7 DEF Goto, Becomes, Moves
  <2>2. q \in BOOLEAN
    <3>1. Found(f) => entry[f.to] \in Entries
      BY DEF FrameTableInv, Links, Found
    <3>2. Found(f) => entry[f.to].wmm \in BOOLEAN
      BY <3>1 DEF Entries
    <3> QED BY <3>2, Zenon DEF Qos
  <2> HIDE DEF q
  <2>3. g.room = room /\ g.to = to /\ g.qos = q
    BY <1>3, <2>2, QosOnly
  <2> HIDE DEF g
  <2>4. g.qos = Qos(g)
    BY <1>3, <2>3 DEF q, Qos, Found
  <2> QED BY <1>5, <2>1, <2>3, <2>4, Zenon
<1> QED BY <1>6, <1>7

-----------------------------------------------------------------------------
(* The room before the data.                                               *)

\* The room of a frame f at a processor's step x; t says it came tight.
Fits(x, f, t) ==
  /\ f.room < 0 => t /\ f.iv = "open"
  /\ x \in {"idle", "copy", "header", "tx", "crypt", "wsm"} => f.room >= 0
  /\ x \in {"tx", "crypt"} => t \/ f.room >= ExtraHeadroom + Iv[Cipher]
  /\ x = "wsm" => (t /\ f.iv = "open") \/ f.room >= ExtraHeadroom

RoomInv == \A c \in Cpus : Fits(pc[c], frame[c], c \in tight)

-----------------------------------------------------------------------------
(* The peer's entry.                                                       *)

\* A linked entry that is complete has the network's key.
PeerInv ==
  /\ step \in {"wmm", "key", "carrier", "bssid"} => entry[who].life = "linked"
  /\ step = "wait" => entry[who].life = "unlinked"
  /\ \A p \in Peers : entry[p].life = "linked" /\ ~BeingMade(p) => entry[p].key = Cipher
  /\ type = "ap" => group = Cipher

\* A frame f of processor c at step x, before atbm_tx and in its RCU section.
Chosen(c, x, f) ==
  /\ f.to = Group => type = "ap"
  /\ x \in {"copy", "header", "tx"} /\ Found(f) => f.qos = entry[f.to].wmm /\ ~BeingMade(f.to)
  /\ x \in {"crypt", "wsm"} /\ f.to \in Peers =>
       /\ entry[f.to].life # "none" /\ ~BeingMade(f.to)
       /\ entry[f.to].key = Cipher /\ f.qos = entry[f.to].wmm
       /\ step = "wait" /\ f.to = who => c \in readers
  /\ x = "wsm" => f.iv = Cipher
  /\ x = "queued" => f.iv = Cipher /\ f.icv = Cipher

CallInv == \A c \in Cpus : c \notin raced => Chosen(c, pc[c], frame[c])

NetInv == PeerInv /\ CallInv

-----------------------------------------------------------------------------
(* What each step makes of the frame.                                      *)

LEMMA CopyMoves ==
  ASSUME FrameTableInv, NEW c \in Cpus, Copy(c) \/ NoCopy(c)
  PROVE  \E x, g : /\ Moves(c, x, g) /\ pc[c] = "copy" /\ x \in {"header", "dropped"}
                   /\ g.room = frame[c].room /\ g.to = frame[c].to /\ g.qos = frame[c].qos
<1> DEFINE f == frame[c]
           n == f.orig - 1
           h == [f EXCEPT !.orig = n]
           g == [h EXCEPT !.copy = 1]
<1>1. f \in Frames /\ n \in Int
  BY DEF FrameTableInv, FrameInv, Frames
<1>2. CASE Copy(c)
  <2>1. pc[c] = "copy" /\ (Moves(c, "header", g) \/ Moves(c, "dropped", h))
    BY <1>1, <1>2 DEF Copy, Goto, Becomes, Moves, Frames
  <2> HIDE DEF n, f
  <2>2. h \in Frames /\ Alike(f, h)
    BY <1>1, OrigAlike
  <2> HIDE DEF h
  <2>3. Alike(h, g)
    BY <2>2, CopyAlike
  <2> HIDE DEF g
  <2> QED BY <2>1, <2>2, <2>3 DEF Alike, f
<1>3. CASE NoCopy(c)
  <2>1. Moves(c, "header", f) /\ pc[c] = "copy"
    BY <1>3 DEF NoCopy, Goto, Moves, FrameTableInv, FrameInv
  <2> QED BY <2>1
<1> QED BY <1>2, <1>3

LEMMA PushedFields ==
  ASSUME NEW f \in Frames, NEW n \in Int
  PROVE  LET g == [f EXCEPT !.pulled = TRUE, !.room = n]
         IN  g.room = n /\ g.to = f.to /\ g.qos = f.qos
<1> DEFINE f1 == [f EXCEPT !.pulled = TRUE]
           g == [f EXCEPT !.pulled = TRUE, !.room = n]
<1>1. f1 \in Frames /\ Alike(f, f1)
  BY PulledAlike
<1>2. g = [f1 EXCEPT !.room = n]
  BY DEF Frames
<1> HIDE DEF f1, g
<1>3. g.room = n /\ g.to = f1.to /\ g.qos = f1.qos
  BY <1>1, <1>2, RoomOnly
<1>4. g.room = n /\ g.to = f.to /\ g.qos = f.qos
  BY <1>1, <1>3 DEF Alike
<1> QED BY <1>4 DEF g

\* The room of the frame with its header.
Headed(f) == f.room + Pulled + (IF Expands(f) THEN Added(f) ELSE 0) - HdrLen(f) - Encaps

LEMMA HeaderMoves ==
  ASSUME FrameTableInv, NEW c \in Cpus, Header(c)
  PROVE  \E x, g : /\ Moves(c, x, g) /\ pc[c] = "header"
                   /\ \/ x = "tx" /\ g.room = Headed(frame[c])
                      \/ x = "busy" /\ g.room = frame[c].room + Pulled
                   /\ g.to = frame[c].to /\ g.qos = frame[c].qos
<1> DEFINE f == frame[c]
           n == Headed(f)
           m == f.room + Pulled
           g == [f EXCEPT !.pulled = TRUE, !.room = n]
           h == [f EXCEPT !.pulled = TRUE, !.room = m]
<1>1. f \in Frames /\ f.room \in Int
  BY DEF FrameTableInv, FrameInv, Frames
<1>2. m \in Int /\ n \in Int
  <2>1. HdrLen(f) \in Int /\ Pulled \in Int /\ Encaps \in Int
    BY DEF HdrLen, Pulled, Encaps, EthLen
  <2>2. Added(f) \in Int
    BY <1>1, <2>1 DEF Added, AtLeastNone, Lacking, EncryptHeadroom, extra_tx_headroom,
         ExtraHeadroom
  <2> HIDE DEF f
  <2> QED BY <1>1, <2>1, <2>2 DEF Headed
<1>3. WithHeader(f) = g /\ Failed([f EXCEPT !.pulled = TRUE, !.room = @ + Pulled], FALSE) = h
  <2>1. WithHeader(f) = g
    BY <1>1 DEF WithHeader, Headed, Frames
  <2>2. Failed([f EXCEPT !.pulled = TRUE, !.room = @ + Pulled], FALSE) = h
    BY <1>1 DEF Failed, Frames
  <2> QED BY <2>1, <2>2
<1>4. pc[c] = "header" /\ (Moves(c, "tx", g) \/ Moves(c, "busy", h))
  <2>1. CASE Goto(c, "header", "tx") /\ Becomes(c, WithHeader(f))
    BY <1>3, <2>1 DEF Goto, Becomes, Moves
  <2>2. CASE /\ Goto(c, "header", "busy")
             /\ Becomes(c, Failed([f EXCEPT !.pulled = TRUE, !.room = @ + Pulled], FALSE))
    BY <1>3, <2>2 DEF Goto, Becomes, Moves
  <2> QED BY <2>1, <2>2 DEF Header
<1> HIDE DEF f, n, m
<1>5. g.room = n /\ g.to = f.to /\ g.qos = f.qos
  BY <1>1, <1>2, PushedFields
<1>6. h.room = m /\ h.to = f.to /\ h.qos = f.qos
  BY <1>1, <1>2, PushedFields
<1> HIDE DEF g, h
<1>7. CASE Moves(c, "tx", g)
  BY <1>4, <1>5, <1>7 DEF f, n
<1>8. CASE Moves(c, "busy", h)
  BY <1>4, <1>6, <1>8 DEF f, m
<1> QED BY <1>4, <1>7, <1>8

LEMMA LookupMoves ==
  ASSUME FrameTableInv, NEW c \in Cpus, Lookup(c)
  PROVE  \E x, g : /\ Moves(c, x, g) /\ pc[c] = "tx" /\ Alike(frame[c], g)
                   /\ \/ x = "crypt" /\ g = frame[c] /\ (Found(g) \/ g.to = Group)
                      \/ x = "dropped"
<1> DEFINE f == frame[c]
<1>1. f \in Frames /\ pc[c] = "tx"
  BY DEF FrameTableInv, FrameInv, Lookup, Goto
<1>2. CASE enabled /\ (Found(f) \/ f.to = Group)
  <2>1. Moves(c, "crypt", f)
    BY <1>2 DEF Lookup, Goto, Moves, FrameTableInv, FrameInv
  <2>2. Alike(f, f)
    BY DEF Alike
  <2> QED BY <1>1, <1>2, <2>1, <2>2
<1>3. CASE ~(enabled /\ (Found(f) \/ f.to = Group))
  <2>1. Moves(c, "dropped", Freed(f))
    BY <1>3 DEF Lookup, Goto, Becomes, Dropped, Moves
  <2> QED BY <1>1, <2>1, FreedAlike
<1> QED BY <1>2, <1>3

\* atbm_tx_h_crypt asks for the room only if there is a key.
Suffices(f) == KeyOf(f) = "open" \/ f.room >= ExtraHeadroom + Iv[KeyOf(f)]

LEMMA CryptMoves ==
  ASSUME FrameTableInv, NEW c \in Cpus, Crypt(c)
  PROVE  \E x, g : /\ Moves(c, x, g) /\ pc[c] = "crypt"
                   /\ g.to = frame[c].to /\ g.qos = frame[c].qos
                   /\ \/ x = "wsm" /\ g.iv = KeyOf(frame[c]) /\ Suffices(frame[c])
                         /\ g.room = frame[c].room - Iv[KeyOf(frame[c])]
                      \/ x = "dropped" /\ g.room = frame[c].room
<1> DEFINE f == frame[c]
           k == KeyOf(f)
           n == f.room - Iv[k]
           f1 == [f EXCEPT !.iv = k]
           g == [f1 EXCEPT !.room = n]
<1>1. f \in Frames /\ pc[c] = "crypt"
  BY DEF FrameTableInv, FrameInv, Crypt, Goto
<1>2. f.to \in Peers \cup {Group}
  BY <1>1 DEF FrameTableInv, FrameInv, Good
<1>3. k \in DOMAIN Iv
  BY <1>1, <1>2, KeyType DEF FrameTableInv
<1>4. n \in Int
  BY <1>1, <1>3, IvNat DEF Frames
<1>5. Moves(c, "dropped", Freed(f)) \/ (Moves(c, "wsm", g) /\ Suffices(f))
  <2>1. [f EXCEPT !.iv = k, !.room = @ - Iv[k]] = g
    BY <1>1 DEF Frames
  <2>2. CASE k # "open" /\ f.room < ExtraHeadroom + Iv[k]
    BY <2>2 DEF Crypt, Dropped, Goto, Becomes, Moves
  <2>3. CASE ~(k # "open" /\ f.room < ExtraHeadroom + Iv[k])
    <3>1. Moves(c, "wsm", g)
      BY <2>1, <2>3 DEF Crypt, Goto, Becomes, Moves
    <3>2. f.room \in Int /\ ExtraHeadroom + Iv[k] \in Int
      BY <1>1, <1>3, IvNat DEF Frames, ExtraHeadroom
    <3>3. k = "open" \/ f.room >= ExtraHeadroom + Iv[k]
      <4> HIDE DEF k, f
      <4> QED BY <2>3, <3>2
    <3> QED BY <3>1, <3>3 DEF Suffices
  <2> QED BY <2>2, <2>3
<1> HIDE DEF k, n, f
<1>6. f1 \in Frames /\ f1.to = f.to /\ f1.qos = f.qos /\ f1.iv = k
  BY <1>1, <1>3, IvOnly
<1> HIDE DEF f1
<1>7. g.room = n /\ g.to = f.to /\ g.qos = f.qos /\ g.iv = k
  BY <1>4, <1>6, RoomOnly
<1>8. Freed(f).room = f.room /\ Freed(f).to = f.to /\ Freed(f).qos = f.qos
  BY <1>1, FreedAlike DEF Alike
<1> HIDE DEF g
<1>9. CASE Moves(c, "wsm", g) /\ Suffices(f)
  BY <1>1, <1>7, <1>9 DEF f, k, n
<1>10. CASE Moves(c, "dropped", Freed(f))
  BY <1>1, <1>8, <1>10 DEF f
<1> QED BY <1>5, <1>9, <1>10

LEMMA WsmMoves ==
  ASSUME FrameTableInv, NEW c \in Cpus, Wsm(c)
  PROVE  \E x, g : /\ Moves(c, x, g) /\ pc[c] = "wsm"
                   /\ g.to = frame[c].to /\ g.iv = frame[c].iv
                   /\ \/ x = "queued" /\ g.icv = KeyOf(frame[c])
                         /\ g.room = frame[c].room - Offset(frame[c]) - TxLen
                      \/ x = "torn" /\ g.room = frame[c].room - Offset(frame[c]) - TxLen
                      \/ x = "dropped" /\ g.room = frame[c].room
<1> DEFINE f == frame[c]
           k == KeyOf(f)
           n == f.room - Offset(f) - TxLen
           f1 == [f EXCEPT !.icv = k]
           g == [f1 EXCEPT !.room = n]
<1>1. f \in Frames /\ pc[c] = "wsm"
  BY DEF FrameTableInv, FrameInv, Wsm, Goto
<1>2. f.to \in Peers \cup {Group}
  BY <1>1 DEF FrameTableInv, FrameInv, Good
<1>3. k \in DOMAIN Iv
  BY <1>1, <1>2, KeyType DEF FrameTableInv
<1>4. n \in Int
  BY <1>1 DEF Frames, Offset, TxLen
<1>5. \/ Moves(c, "dropped", Freed(f))
      \/ Moves(c, "queued", g)
      \/ Moves(c, "torn", Freed(Freed(g)))
  <2>1. [f EXCEPT !.icv = k, !.room = @ - Offset(f) - TxLen] = g
    BY <1>1 DEF Frames
  <2> QED BY <2>1 DEF Wsm, Dropped, Goto, Becomes, Moves
<1> HIDE DEF k, n, f
<1>6. f1 \in Frames /\ f1.to = f.to /\ f1.iv = f.iv /\ f1.icv = k
  BY <1>1, <1>3, IcvOnly
<1> HIDE DEF f1
<1>7. g \in Frames /\ g.room = n /\ g.to = f.to /\ g.iv = f.iv /\ g.icv = k
  BY <1>4, <1>6, RoomOnly
<1>8. Freed(f).room = f.room /\ Freed(f).to = f.to /\ Freed(f).iv = f.iv
  BY <1>1, FreedAlike DEF Alike
<1> HIDE DEF g
<1>11. LET h == Freed(Freed(g)) IN h.room = n /\ h.to = f.to /\ h.iv = f.iv
  BY <1>7, FreedAlike DEF Alike
<1>12. CASE Moves(c, "torn", Freed(Freed(g)))
  BY <1>1, <1>11, <1>12 DEF f, n
<1>9. CASE Moves(c, "queued", g)
  BY <1>1, <1>7, <1>9 DEF f, k, n
<1>10. CASE Moves(c, "dropped", Freed(f))
  BY <1>1, <1>8, <1>10 DEF f
<1> QED BY <1>5, <1>9, <1>10, <1>12

-----------------------------------------------------------------------------
(* The room, step by step.                                                 *)

LEMMA RoomOfOne ==
  ASSUME FrameTableInv, RoomInv, NEW c \in Cpus, NEW x, NEW g, Moves(c, x, g),
         Fits(x, g, c \in tight'), \A d \in Cpus \ {c} : d \in tight => d \in tight'
  PROVE  RoomInv'
<1>1. ASSUME NEW d \in Cpus PROVE Fits(pc'[d], frame'[d], d \in tight')
  <2>1. CASE d = c
    <3>1. pc'[d] = x /\ frame'[d] = g
      BY <2>1 DEF Moves, FrameTableInv, FrameInv
    <3> QED BY <2>1, <3>1
  <2>2. CASE d # c
    <3>1. pc'[d] = pc[d] /\ frame'[d] = frame[d]
      BY <2>2 DEF Moves, FrameTableInv, FrameInv
    <3>2. Fits(pc[d], frame[d], d \in tight) /\ (d \in tight => d \in tight')
      BY <2>2 DEF RoomInv
    <3>3. Fits(pc[d], frame[d], d \in tight')
      BY <3>2, Zenon DEF Fits
    <3> QED BY <3>1, <3>3
  <2> QED BY <2>1, <2>2
<1> QED BY <1>1 DEF RoomInv

LEMMA IvBounds == \A k \in DOMAIN Iv : Iv[k] \in 0 .. 8
BY DEF Iv

\* What ieee80211_skb_resize makes of a frame.
LEMMA HeadedFits ==
  ASSUME NEW f \in Frames, f.room >= 0
  PROVE  /\ Headed(f) \in Int /\ Headed(f) >= 0
         /\ Expands(f) => Headed(f) >= ExtraHeadroom + Iv[Cipher]
<1> DEFINE r == f.room
           h == HdrLen(f)
           v == Iv[Cipher]
<1>1. r \in Int /\ r >= 0
  BY DEF Frames
<1>2. h \in {24, 26}
  BY DEF HdrLen
<1>3. v \in 0 .. 8
  BY IvBounds, XmitFrameAssumption
<1>4. Lacking(f) = h - 4 - r
  <2>1. Lacking(f) = h + 8 - (r + 12)
    BY DEF Lacking, Encaps, Pulled, EthLen
  <2> HIDE DEF r, h
  <2> QED BY <1>1, <1>2, <2>1
<1>5. Added(f) = IF h + 132 - r > 0 THEN h + 132 - r ELSE 0
  <2>1. Lacking(f) + EncryptHeadroom + extra_tx_headroom = h + 132 - r
    <3> HIDE DEF r, h
    <3> QED BY <1>1, <1>2, <1>4 DEF EncryptHeadroom, extra_tx_headroom, ExtraHeadroom
  <2> QED BY <2>1 DEF Added, AtLeastNone
<1>6. Headed(f) = r + 4 - h + (IF Expands(f) THEN Added(f) ELSE 0)
  <2>1. Headed(f) = r + 12 + (IF Expands(f) THEN Added(f) ELSE 0) - h - 8
    BY DEF Headed, Encaps, Pulled, EthLen
  <2>2. Added(f) \in Int
    <3> HIDE DEF r, h
    <3> QED BY <1>1, <1>2, <1>5
  <2> HIDE DEF r, h
  <2> QED BY <1>1, <1>2, <2>1, <2>2
<1>7. Expands(f) \/ r >= h - 4
  <2>1. Expands(f) \/ ~(h - 4 - r > 0)
    BY <1>4 DEF Expands
  <2> HIDE DEF r, h
  <2> QED BY <1>1, <1>2, <2>1
<1> HIDE DEF r, h, v
<1>8. Headed(f) \in Int /\ Headed(f) >= 0 /\ (Expands(f) => Headed(f) >= 32 + v)
  BY <1>1, <1>2, <1>3, <1>5, <1>6, <1>7
<1> QED BY <1>8 DEF v, ExtraHeadroom

\* A frame that does not fit with its header came tight.
LEMMA TightIfNotRoomy ==
  ASSUME NEW f \in Frames, f.room >= 0
  PROVE  Tight(f) \/ Headed(f) >= ExtraHeadroom + Iv[Cipher]
<1>1. Headed(f) \in Int /\ ExtraHeadroom + Iv[Cipher] \in Int
  BY HeadedFits, IvNat, XmitFrameAssumption DEF ExtraHeadroom
<1>2. WithHeader(f) = [f EXCEPT !.pulled = TRUE, !.room = Headed(f)]
  BY DEF WithHeader, Headed, Frames
<1>3. WithHeader(f).room = Headed(f)
  <2> DEFINE n == Headed(f)
  <2> HIDE DEF n
  <2>1. [f EXCEPT !.pulled = TRUE, !.room = n].room = n
    BY <1>1, PushedFields DEF n
  <2> QED BY <1>2, <2>1 DEF n
<1> QED BY <1>1, <1>3, HeadedFits DEF Tight

LEMMA RoomCpuStep ==
  ASSUME FrameTableInv, RoomInv, NEW c \in Cpus, CpuStep(c)
  PROVE  RoomInv'
<1>1. Fits(pc[c], frame[c], c \in tight)
  BY DEF RoomInv
<1>2. Iv[Cipher] \in 0 .. 8 /\ ExtraHeadroom = 32
  BY IvBounds, XmitFrameAssumption DEF ExtraHeadroom
<1>3. frame[c] \in Frames /\ frame[c].room \in Int
  BY DEF FrameTableInv, FrameInv, Frames
<1>4. ~Header(c) => tight' = tight
  BY DEF CpuStep, Handed, Copy, NoCopy, Lookup, Crypt, Wsm, Again
<1>5. ASSUME NEW x, NEW g, Moves(c, x, g), Fits(x, g, c \in tight'), ~Header(c) PROVE RoomInv'
  BY <1>4, <1>5, RoomOfOne
<1>6. CASE Handed(c)
  <2>1. PICK x, g : Moves(c, x, g) /\ x \in {"copy", "dropped"} /\ g.room \in Rooms /\ pc[c] = "idle"
    BY <1>6, HandedMoves
  <2>2. g.room \in Nat
    BY <2>1, XmitFrameAssumption
  <2>3. Fits(x, g, c \in tight')
    BY <2>1, <2>2 DEF Fits
  <2> QED BY <1>5, <2>1, <2>3 DEF Header, Goto
<1>7. CASE Copy(c) \/ NoCopy(c)
  <2>1. PICK x, g : /\ Moves(c, x, g) /\ pc[c] = "copy" /\ x \in {"header", "dropped"}
                    /\ g.room = frame[c].room
    BY <1>7, CopyMoves
  <2>2. Fits(x, g, c \in tight')
    BY <1>1, <1>3, <2>1 DEF Fits
  <2> QED BY <1>5, <2>1, <2>2 DEF Header, Goto
<1>8. CASE Header(c)
  <2>1. PICK x, g : /\ Moves(c, x, g) /\ pc[c] = "header"
                    /\ \/ x = "tx" /\ g.room = Headed(frame[c])
                       \/ x = "busy" /\ g.room = frame[c].room + Pulled
    BY <1>8, HeaderMoves
  <2>2. frame[c].room >= 0
    BY <1>1, <2>1 DEF Fits
  <2>3. tight' = IF Tight(frame[c]) THEN tight \cup {c} ELSE tight \ {c}
    BY <1>8 DEF Header
  <2>4. CASE x = "tx" /\ g.room = Headed(frame[c])
    <3>1. g.room \in Int /\ g.room >= 0
      BY <1>3, <2>2, <2>4, HeadedFits
    <3>2. c \in tight' \/ g.room >= ExtraHeadroom + Iv[Cipher]
      BY <1>3, <2>2, <2>3, <2>4, TightIfNotRoomy
    <3>3. Fits(x, g, c \in tight')
      BY <2>4, <3>1, <3>2 DEF Fits
    <3> QED BY <2>1, <2>3, <3>3, RoomOfOne
  <2>5. CASE x = "busy" /\ g.room = frame[c].room + Pulled
    <3>1. g.room \in Int /\ g.room >= 0
      BY <1>3, <2>2, <2>5 DEF Pulled, EthLen
    <3>2. Fits(x, g, c \in tight')
      BY <2>5, <3>1 DEF Fits
    <3> QED BY <2>1, <2>3, <3>2, RoomOfOne
  <2> QED BY <2>1, <2>4, <2>5
<1>9. CASE Lookup(c)
  <2>1. PICK x, g : /\ Moves(c, x, g) /\ pc[c] = "tx" /\ g.room = frame[c].room
                    /\ x \in {"crypt", "dropped"}
    BY <1>9, LookupMoves DEF Alike
  <2>2. ~Header(c)
    BY <2>1 DEF Header, Goto
  <2>3. Fits(x, g, c \in tight')
    BY <1>1, <1>3, <1>4, <2>1, <2>2 DEF Fits
  <2> QED BY <1>5, <2>1, <2>2, <2>3
<1>10. CASE Crypt(c)
  <2>1. PICK x, g : /\ Moves(c, x, g) /\ pc[c] = "crypt"
                    /\ \/ x = "wsm" /\ g.iv = KeyOf(frame[c]) /\ Suffices(frame[c])
                          /\ g.room = frame[c].room - Iv[KeyOf(frame[c])]
                       \/ x = "dropped" /\ g.room = frame[c].room
    BY <1>10, CryptMoves
  <2>2. ~Header(c) /\ tight' = tight
    BY <1>4, <2>1 DEF Header, Goto
  <2>3. frame[c].to \in Peers \cup {Group}
    BY <2>1 DEF FrameTableInv, FrameInv, Good
  <2>4. Iv[KeyOf(frame[c])] \in 0 .. 8 /\ Iv["open"] = 0
    BY <1>3, <2>3, KeyType, IvBounds DEF FrameTableInv, Iv
  <2>5. frame[c].room >= 0 /\ (c \in tight \/ frame[c].room >= 32 + Iv[Cipher])
    BY <1>1, <1>2, <2>1 DEF Fits
  <2>6. CASE x = "dropped"
    <3>1. Fits(x, g, c \in tight')
      BY <1>3, <2>1, <2>5, <2>6 DEF Fits
    <3> QED BY <1>5, <2>1, <2>2, <3>1
  <2>7. CASE x = "wsm"
    <3> DEFINE k == KeyOf(frame[c])
    <3>1. g.iv = k /\ g.room = frame[c].room - Iv[k] /\ (k = "open" \/ frame[c].room >= 32 + Iv[k])
      BY <1>2, <2>1, <2>7 DEF Suffices
    <3> HIDE DEF k
    <3>2. Iv[k] \in 0 .. 8 /\ Iv["open"] = 0
      BY <2>4 DEF k
    <3>3. g.room \in Int /\ g.room >= 0
      BY <1>3, <2>5, <3>1, <3>2
    <3>4. g.room >= 32 \/ (c \in tight /\ g.iv = "open")
      BY <1>2, <1>3, <2>5, <3>1, <3>2
    <3>5. Fits(x, g, c \in tight')
      BY <1>2, <2>2, <2>7, <3>3, <3>4 DEF Fits
    <3> QED BY <1>5, <2>1, <2>2, <3>5
  <2> QED BY <2>1, <2>6, <2>7
<1>11. CASE Wsm(c)
  <2>1. PICK x, g : /\ Moves(c, x, g) /\ pc[c] = "wsm" /\ g.iv = frame[c].iv
                    /\ \/ /\ x \in {"queued", "torn"}
                          /\ g.room = frame[c].room - Offset(frame[c]) - TxLen
                       \/ x = "dropped" /\ g.room = frame[c].room
    BY <1>11, WsmMoves
  <2>2. ~Header(c) /\ tight' = tight
    BY <1>4, <2>1 DEF Header, Goto
  <2>3. /\ frame[c].room >= 0
        /\ (c \in tight /\ frame[c].iv = "open") \/ frame[c].room >= 32
    BY <1>1, <1>2, <2>1 DEF Fits
  <2>4. Offset(frame[c]) \in 0 .. 3 /\ TxLen = 28
    BY <1>3 DEF Offset, TxLen
  <2>5. g.room < 0 => c \in tight /\ g.iv = "open"
    BY <1>3, <2>1, <2>3, <2>4
  <2>6. Fits(x, g, c \in tight')
    BY <2>1, <2>2, <2>5 DEF Fits
  <2> QED BY <1>5, <2>1, <2>2, <2>6
<1>12. CASE Again(c)
  <2>1. Moves(c, "idle", NoFrame) /\ NoFrame.room = 0 /\ pc[c] \in Ended
    BY <1>12 DEF Again, Becomes, Moves, NoFrame
  <2>2. Fits("idle", NoFrame, c \in tight')
    BY <2>1 DEF Fits
  <2>3. ~Header(c)
    BY <2>1 DEF Header, Goto, Ended
  <2> QED BY <1>5, <2>1, <2>2, <2>3
<1> QED BY <1>6, <1>7, <1>8, <1>9, <1>10, <1>11, <1>12 DEF CpuStep

LEMMA RoomInit == XmitInit => RoomInv
BY DEF XmitInit, RoomInv, Fits, NoFrame

LEMMA RoomStep == ASSUME FrameTableInv, RoomInv, [XmitNext]_xmitVars PROVE RoomInv'
<1>1. CASE \E c \in Cpus : CpuStep(c)
  BY <1>1, RoomCpuStep
<1>2. CASE HandlerStep
  <2>1. UNCHANGED <<pc, frame, tight>>
    BY <1>2 DEF HandlerStep, Insert, Unlink, SetWmm, SetKey, Carrier, SetBssid, Left,
         Synchronize, Down, Rest, frameVars
  <2> QED BY <2>1 DEF RoomInv
<1>3. CASE UNCHANGED <<frameVars, linkVars>>
  BY <1>3 DEF RoomInv, frameVars
<1>4. \/ \E c \in Cpus : CpuStep(c)
      \/ HandlerStep
      \/ UNCHANGED <<frameVars, linkVars>>
  BY DEF XmitNext, xmitVars, CpuStep, HandlerStep, Stop, PreRmmod
<1> QED BY <1>1, <1>2, <1>3, <1>4

\* Whatever headroom the kernel gives a frame: a push below the head of the buffer
\* needs a frame that came tight and leaves without an IV.
THEOREM KeepsRoom == XmitSpec => []RoomKept
<1>1. FrameTableInv /\ RoomInv /\ [XmitNext]_xmitVars => RoomInv'
  BY RoomStep
<1>2. RoomInv => RoomKept
  BY DEF RoomInv, RoomKept, Fits
<1> QED BY FrameTableInvariant, RoomInit, <1>1, <1>2, PTL DEF XmitSpec

-----------------------------------------------------------------------------
(* The peer's entry, step by step.                                         *)

LEMMA NotGroup == Group \notin Peers /\ NoPeer \notin Peers /\ NoPeer # Group
BY XmitFrameAssumption DEF NoPeer, Group

LEMMA PeerCpuStep ==
  ASSUME FrameTableInv, PeerInv, NEW c \in Cpus, CpuStep(c) PROVE PeerInv'
<1>1. UNCHANGED <<entry, step, who, group, type>>
  BY DEF CpuStep, Handed, Copy, NoCopy, Header, Lookup, Crypt, Wsm, Again, linkVars, flagVars
<1> QED BY <1>1 DEF PeerInv, BeingMade

\* A step of one processor; its call may be raced, or its frame is chosen.
LEMMA ChosenOfOne ==
  ASSUME FrameTableInv, CallInv, NEW c \in Cpus, NEW x, NEW g, Moves(c, x, g),
         UNCHANGED <<entry, step, who, readers, group, type>>,
         \A d \in Cpus \ {c} : d \in raced => d \in raced',
         c \notin raced' => Chosen(c, x, g)
  PROVE  CallInv'
<1>1. ASSUME NEW d \in Cpus, d \notin raced' PROVE Chosen(d, pc[d], frame[d])'
  <2>1. CASE d = c
    <3>1. pc'[d] = x /\ frame'[d] = g
      BY <2>1 DEF Moves, FrameTableInv, FrameInv
    <3>2. Chosen(c, x, g)
      BY <1>1, <2>1
    <3> QED BY <2>1, <3>1, <3>2 DEF Chosen, Found, BeingMade
  <2>2. CASE d # c
    <3>1. pc'[d] = pc[d] /\ frame'[d] = frame[d]
      BY <2>2 DEF Moves, FrameTableInv, FrameInv
    <3>2. Chosen(d, pc[d], frame[d])
      BY <1>1, <2>2 DEF CallInv
    <3> QED BY <3>1, <3>2 DEF Chosen, Found, BeingMade
  <2> QED BY <2>1, <2>2
<1> QED BY <1>1 DEF CallInv

LEMMA ChosenCpuStep ==
  ASSUME FrameTableInv, NetInv, NEW c \in Cpus, CpuStep(c)
  PROVE  CallInv'
<1>1. UNCHANGED <<entry, step, who, readers, group, type>>
  BY DEF CpuStep, Handed, Copy, NoCopy, Header, Lookup, Crypt, Wsm, Again, linkVars, flagVars
<1>2. CallInv /\ PeerInv
  BY DEF NetInv
<1>3. ~Handed(c) => raced' = raced
  BY DEF CpuStep, Copy, NoCopy, Header, Lookup, Crypt, Wsm, Again
<1>4. c \notin raced => Chosen(c, pc[c], frame[c])
  BY <1>2 DEF CallInv
<1>5. ASSUME NEW x, NEW g, Moves(c, x, g), pc[c] # "idle", c \notin raced => Chosen(c, x, g)
      PROVE  CallInv'
  <2>1. raced' = raced
    BY <1>3, <1>5 DEF Handed, Goto
  <2> QED BY <1>1, <1>2, <1>5, <2>1, ChosenOfOne
<1>6. CASE Handed(c)
  <2>1. PICK x, g : /\ Moves(c, x, g) /\ ((x = "copy" /\ g.qos = Qos(g)) \/ x = "dropped")
                    /\ g.to \in To
                    /\ raced' = IF BeingMade(g.to) THEN raced \cup {c} ELSE raced \ {c}
    BY <1>6, HandedMoves
  <2>2. g.to = Group => type = "ap"
    BY <2>1, NotGroup DEF To, FrameTableInv, Links, Marks
  <2>3. x = "copy" /\ Found(g) => g.qos = entry[g.to].wmm
    <3>1. Found(g) => entry[g.to].wmm \in BOOLEAN
      BY DEF Found, FrameTableInv, Links, Entries
    <3>2. x = "copy" => g.qos = Qos(g)
      BY <2>1
    <3>3. ASSUME Found(g) PROVE Qos(g) = entry[g.to].wmm
      BY <3>1, <3>3, Zenon DEF Qos
    <3> QED BY <3>2, <3>3
  <2>4. c \notin raced' => ~BeingMade(g.to)
    BY <2>1
  <2>5. c \notin raced' => Chosen(c, x, g)
    BY <2>1, <2>2, <2>3, <2>4 DEF Chosen
  <2>6. \A d \in Cpus \ {c} : d \in raced => d \in raced'
    BY <2>1
  <2> QED BY <1>1, <1>2, <2>1, <2>5, <2>6, ChosenOfOne
<1>7. CASE Copy(c) \/ NoCopy(c)
  <2>1. PICK x, g : /\ Moves(c, x, g) /\ pc[c] = "copy" /\ x \in {"header", "dropped"}
                    /\ g.to = frame[c].to /\ g.qos = frame[c].qos
    BY <1>7, CopyMoves
  <2>2. c \notin raced => Chosen(c, x, g)
    BY <1>4, <2>1 DEF Chosen, Found
  <2> QED BY <1>5, <2>1, <2>2
<1>8. CASE Header(c)
  <2>1. PICK x, g : /\ Moves(c, x, g) /\ pc[c] = "header" /\ x \in {"tx", "busy"}
                    /\ g.to = frame[c].to /\ g.qos = frame[c].qos
    BY <1>8, HeaderMoves
  <2>2. c \notin raced => Chosen(c, x, g)
    BY <1>4, <2>1 DEF Chosen, Found
  <2> QED BY <1>5, <2>1, <2>2
<1>9. CASE Lookup(c)
  <2>1. PICK x, g : /\ Moves(c, x, g) /\ pc[c] = "tx" /\ g.to = frame[c].to
                    /\ \/ x = "crypt" /\ g = frame[c] /\ (Found(g) \/ g.to = Group)
                       \/ x = "dropped"
    BY <1>9, LookupMoves DEF Alike
  <2>2. c \notin raced => Chosen(c, x, g)
    <3>1. SUFFICES ASSUME c \notin raced PROVE Chosen(c, x, g)
      OBVIOUS
    <3>2. g.to = Group => type = "ap"
      BY <1>4, <2>1, <3>1 DEF Chosen
    <3>3. CASE x = "dropped"
      BY <3>2, <3>3 DEF Chosen
    <3>4. CASE x = "crypt" /\ g = frame[c]
      <4>1. ASSUME g.to \in Peers
            PROVE  /\ entry[g.to].life = "linked" /\ ~BeingMade(g.to)
                   /\ entry[g.to].key = Cipher /\ g.qos = entry[g.to].wmm
                   /\ ~(step = "wait" /\ g.to = who)
        <5>1. Found(g) /\ entry[g.to].life = "linked"
          BY <2>1, <3>4, <4>1, NotGroup DEF Found
        <5>2. g.qos = entry[g.to].wmm /\ ~BeingMade(g.to)
          BY <1>4, <2>1, <3>1, <3>4, <5>1 DEF Chosen
        <5> QED BY <1>2, <4>1, <5>1, <5>2 DEF PeerInv
      <4> QED BY <3>2, <3>4, <4>1 DEF Chosen
    <3> QED BY <2>1, <3>3, <3>4
  <2> QED BY <1>5, <2>1, <2>2
<1>10. ASSUME c \notin raced, pc[c] \in {"crypt", "wsm"} PROVE KeyOf(frame[c]) = Cipher
  <2>1. frame[c].to \in Peers \cup {Group}
    BY <1>10 DEF FrameTableInv, FrameInv, Good
  <2>2. CASE frame[c].to = Group
    BY <1>2, <1>4, <1>10, <2>2 DEF KeyOf, Chosen, PeerInv
  <2>3. CASE frame[c].to \in Peers
    BY <1>4, <1>10, <2>3, NotGroup DEF KeyOf, Chosen
  <2> QED BY <2>1, <2>2, <2>3
<1>11. CASE Crypt(c)
  <2>1. PICK x, g : /\ Moves(c, x, g) /\ pc[c] = "crypt"
                    /\ g.to = frame[c].to /\ g.qos = frame[c].qos
                    /\ ((x = "wsm" /\ g.iv = KeyOf(frame[c])) \/ x = "dropped")
    BY <1>11, CryptMoves
  <2>2. c \notin raced => Chosen(c, x, g)
    BY <1>4, <1>10, <2>1 DEF Chosen
  <2> QED BY <1>5, <2>1, <2>2
<1>12. CASE Wsm(c)
  <2>1. PICK x, g : /\ Moves(c, x, g) /\ pc[c] = "wsm" /\ g.to = frame[c].to
                    /\ g.iv = frame[c].iv
                    /\ ((x = "queued" /\ g.icv = KeyOf(frame[c])) \/ x \in {"torn", "dropped"})
    BY <1>12, WsmMoves
  <2>2. c \notin raced => Chosen(c, x, g)
    BY <1>4, <1>10, <2>1 DEF Chosen
  <2> QED BY <1>5, <2>1, <2>2
<1>13. CASE Again(c)
  <2>1. Moves(c, "idle", NoFrame) /\ NoFrame.to = NoPeer /\ pc[c] \in Ended
    BY <1>13 DEF Again, Becomes, Moves, NoFrame
  <2>2. pc[c] # "idle"
    BY <2>1 DEF Ended
  <2>3. Chosen(c, "idle", NoFrame)
    BY <2>1, NotGroup DEF Chosen
  <2> QED BY <1>5, <2>1, <2>2, <2>3
<1> QED BY <1>6, <1>7, <1>8, <1>9, <1>11, <1>12, <1>13 DEF CpuStep

-----------------------------------------------------------------------------
\* The entry of a peer who is in nobody's table: a call for it is raced, or ended.
LEMMA InsertKeeps ==
  ASSUME FrameTableInv, NetInv, NEW p \in Peers, Insert(p) PROVE NetInv'
<1> HIDE DEF Entries
<1>1. /\ UNCHANGED <<pc, frame, group, type, readers>> /\ step = "idle" /\ step' = "wmm"
      /\ who' = p /\ raced' = raced \cup {c \in InCall : frame[c].to = p}
      /\ entry[p].life = "none"
  BY DEF Insert, frameVars, flagVars, EventStep
<1>2. entry \in [Peers -> Entries]
  BY DEF FrameTableInv, Links
<1>3. entry'[p].life = "linked" /\ \A q \in Peers \ {p} : entry'[q] = entry[q]
  BY <1>2 DEF Insert, Entries
<1>4. PeerInv'
  BY <1>1, <1>3 DEF NetInv, PeerInv, BeingMade
<1>5. ASSUME NEW c \in Cpus, c \notin raced' PROVE Chosen(c, pc[c], frame[c])'
  <2>1. Chosen(c, pc[c], frame[c])
    BY <1>1, <1>5 DEF NetInv, CallInv
  <2>2. frame[c].to = p => pc[c] \in {"idle"} \cup Ended
    BY <1>1, <1>5 DEF InCall
  <2>3. CASE frame[c].to = p
    BY <1>1, <2>1, <2>2, <2>3, NotGroup DEF Chosen, Ended
  <2>4. CASE frame[c].to # p
    BY <1>1, <1>3, <2>1, <2>4 DEF Chosen, Found, BeingMade
  <2> QED BY <2>3, <2>4
<1> QED BY <1>4, <1>5 DEF NetInv, CallInv

\* The entry being filled in is nobody's but a raced call's.
LEMMA FillKeeps ==
  ASSUME FrameTableInv, NetInv, UNCHANGED <<pc, frame, raced, who, type>>,
         step \in {"wmm", "key"}, step' \in {"key", "carrier"}, who \in Peers,
         \A q \in Peers : entry'[q].life = entry[q].life,
         \A q \in Peers \ {who} : entry'[q] = entry[q]
  PROVE  CallInv'
<1>1. ASSUME NEW c \in Cpus, c \notin raced' PROVE Chosen(c, pc[c], frame[c])'
  <2>1. Chosen(c, pc[c], frame[c])
    BY <1>1 DEF NetInv, CallInv
  <2>2. entry[who].life = "linked" /\ BeingMade(who)
    BY DEF NetInv, PeerInv, BeingMade
  <2>3. CASE frame[c].to = who
    <3>1. pc[c] \notin {"copy", "header", "tx", "crypt", "wsm"}
      BY <2>1, <2>2, <2>3 DEF Chosen, Found
    <3> QED BY <2>1, <3>1 DEF Chosen
  <2>4. CASE frame[c].to # who
    BY <2>1, <2>4 DEF Chosen, Found, BeingMade
  <2> QED BY <2>3, <2>4
<1> QED BY <1>1 DEF CallInv

LEMMA SetWmmKeeps == ASSUME FrameTableInv, NetInv, SetWmm PROVE NetInv'
<1> HIDE DEF Entries
<1>1. /\ UNCHANGED <<pc, frame, group, who, type, raced>>
      /\ step = "wmm" /\ step' = "key" /\ who \in Peers
  BY DEF SetWmm, Rest, frameVars, flagVars, EventStep, FrameTableInv, Links
<1>2. entry \in [Peers -> Entries]
  BY DEF FrameTableInv, Links
<1>3. PICK b \in BOOLEAN : entry' = [entry EXCEPT ![who].wmm = b]
  BY DEF SetWmm
<1>4. /\ \A q \in Peers : entry'[q].life = entry[q].life /\ entry'[q].key = entry[q].key
      /\ \A q \in Peers \ {who} : entry'[q] = entry[q]
  BY <1>2, <1>3 DEF Entries
<1>5. PeerInv'
  BY <1>1, <1>4 DEF NetInv, PeerInv, BeingMade
<1>6. CallInv'
  BY <1>1, <1>4, FillKeeps
<1> QED BY <1>5, <1>6 DEF NetInv

LEMMA SetKeyKeeps == ASSUME FrameTableInv, NetInv, SetKey PROVE NetInv'
<1> HIDE DEF Entries
<1>1. /\ UNCHANGED <<pc, frame, who, type, raced>> /\ step = "key" /\ step' = "carrier"
      /\ who \in Peers /\ group' = Cipher
  BY DEF SetKey, Rest, frameVars, flagVars, EventStep, FrameTableInv, Links
<1>2. entry \in [Peers -> Entries]
  BY DEF FrameTableInv, Links
<1>3. entry' = [entry EXCEPT ![who].key = Cipher]
  BY DEF SetKey
<1>4. /\ \A q \in Peers : entry'[q].life = entry[q].life
      /\ entry'[who].key = Cipher /\ \A q \in Peers \ {who} : entry'[q] = entry[q]
  BY <1>1, <1>2, <1>3 DEF Entries
<1>5. PeerInv'
  BY <1>1, <1>4 DEF NetInv, PeerInv, BeingMade
<1>6. CallInv'
  BY <1>1, <1>4, FillKeeps
<1> QED BY <1>5, <1>6 DEF NetInv

\* A step that leaves the table and the frames alone.
LEMMA ChosenSame ==
  ASSUME CallInv, UNCHANGED <<pc, frame, entry, raced, type, who>>,
         step' \notin {"wmm", "key", "wait"} \/ (step' = step /\ readers' = readers)
  PROVE  CallInv'
<1>1. ASSUME NEW c \in Cpus, c \notin raced' PROVE Chosen(c, pc[c], frame[c])'
  <2>1. Chosen(c, pc[c], frame[c])
    BY <1>1 DEF CallInv
  <2> QED BY <2>1 DEF Chosen, Found, BeingMade
<1> QED BY <1>1 DEF CallInv

LEMMA CarrierKeeps == ASSUME FrameTableInv, NetInv, Carrier \/ SetBssid \/ Down PROVE NetInv'
<1>1. /\ UNCHANGED <<pc, frame, entry, who, group, type, raced>>
      /\ \/ step = "carrier" /\ step' = "bssid"
         \/ step \in {"bssid", "down"} /\ step' = "idle"
  BY DEF Carrier, SetBssid, Down, Rest, frameVars, flagVars, EventStep
<1>2. CallInv'
  BY <1>1, ChosenSame DEF NetInv
<1>3. PeerInv'
  BY <1>1 DEF NetInv, PeerInv, BeingMade
<1> QED BY <1>2, <1>3 DEF NetInv

\* The wait begins with the processors that may have found the entry.
LEMMA UnlinkKeeps ==
  ASSUME FrameTableInv, NetInv, NEW p \in Peers, Unlink(p) PROVE NetInv'
<1> HIDE DEF Entries
<1>1. /\ UNCHANGED <<pc, frame, group, type, raced>> /\ step = "idle" /\ step' = "wait"
      /\ who' = p /\ readers' = Reading
  BY DEF Unlink, Rest, frameVars, flagVars, EventStep
<1>2. entry \in [Peers -> Entries]
  BY DEF FrameTableInv, Links
<1>3. /\ entry'[p].life = "unlinked" /\ \A q \in Peers \ {p} : entry'[q] = entry[q]
      /\ entry'[p].key = entry[p].key /\ entry'[p].wmm = entry[p].wmm
  BY <1>2 DEF Unlink, Unlinked, Entries
<1>4. PeerInv'
  BY <1>1, <1>3 DEF NetInv, PeerInv, BeingMade
<1>5. ASSUME NEW c \in Cpus, c \notin raced' PROVE Chosen(c, pc[c], frame[c])'
  <2>1. pc[c] \in {"crypt", "wsm"} => c \in readers'
    BY <1>1 DEF Reading
  <2>2. Chosen(c, pc[c], frame[c])
    BY <1>1, <1>5 DEF NetInv, CallInv
  <2> QED BY <1>1, <1>3, <2>1, <2>2 DEF Chosen, Found, BeingMade
<1> QED BY <1>4, <1>5 DEF NetInv, CallInv

LEMMA LeftKeeps == ASSUME FrameTableInv, NetInv, Left PROVE NetInv'
<1>1. /\ UNCHANGED <<pc, frame, entry, step, who, group, type, raced>>
      /\ readers' = readers \cap Reading
  BY DEF Left, Rest, frameVars, flagVars
<1>2. PeerInv'
  BY <1>1 DEF NetInv, PeerInv, BeingMade
<1>3. ASSUME NEW c \in Cpus, c \notin raced' PROVE Chosen(c, pc[c], frame[c])'
  <2>1. pc[c] \in {"crypt", "wsm"} /\ c \in readers => c \in readers'
    BY <1>1 DEF Reading
  <2>2. Chosen(c, pc[c], frame[c])
    BY <1>1, <1>3 DEF NetInv, CallInv
  <2> QED BY <1>1, <2>1, <2>2 DEF Chosen, Found, BeingMade
<1> QED BY <1>2, <1>3 DEF NetInv, CallInv

\* When the wait is over nobody has the entry.
LEMMA SynchronizeKeeps == ASSUME FrameTableInv, NetInv, Synchronize PROVE NetInv'
<1> HIDE DEF Entries
<1>1. /\ UNCHANGED <<pc, frame, group, who, type, raced>> /\ step = "wait" /\ step' = "down"
      /\ readers = {} /\ who \in Peers
  BY DEF Synchronize, Rest, frameVars, flagVars, EventStep, FrameTableInv, Links
<1>2. entry \in [Peers -> Entries]
  BY DEF FrameTableInv, Links
<1>3. entry'[who].life = "none" /\ \A q \in Peers \ {who} : entry'[q] = entry[q]
  BY <1>1, <1>2 DEF Synchronize, NoEntry
<1>4. PeerInv'
  BY <1>1, <1>3 DEF NetInv, PeerInv, BeingMade
<1>5. ASSUME NEW c \in Cpus, c \notin raced' PROVE Chosen(c, pc[c], frame[c])'
  <2>1. Chosen(c, pc[c], frame[c])
    BY <1>1, <1>5 DEF NetInv, CallInv
  <2> QED BY <1>1, <1>3, <2>1 DEF Chosen, Found, BeingMade
<1> QED BY <1>4, <1>5 DEF NetInv, CallInv

LEMMA NetInit == XmitInit => NetInv
<1> SUFFICES ASSUME XmitInit PROVE NetInv
  OBVIOUS
<1>1. PeerInv
  BY DEF XmitInit, PeerInv, NoEntry
<1>2. CallInv
  BY NotGroup DEF XmitInit, CallInv, Chosen, NoFrame
<1> QED BY <1>1, <1>2 DEF NetInv

LEMMA NetStep == ASSUME FrameTableInv, NetInv, [XmitNext]_xmitVars PROVE NetInv'
<1>1. CASE \E c \in Cpus : CpuStep(c)
  BY <1>1, PeerCpuStep, ChosenCpuStep DEF NetInv
<1>2. CASE HandlerStep
  BY <1>2, InsertKeeps, SetWmmKeeps, SetKeyKeeps, CarrierKeeps, UnlinkKeeps, LeftKeeps,
     SynchronizeKeeps DEF HandlerStep
<1>3. CASE UNCHANGED <<frameVars, linkVars, raced, type>>
  <2>1. UNCHANGED <<pc, frame, entry, step, who, readers, group, raced, type>>
    BY <1>3 DEF frameVars, linkVars
  <2>2. PeerInv'
    BY <2>1 DEF NetInv, PeerInv, BeingMade
  <2> QED BY <2>1, <2>2, ChosenSame DEF NetInv
<1>4. \/ \E c \in Cpus : CpuStep(c)
      \/ HandlerStep
      \/ UNCHANGED <<frameVars, linkVars, raced, type>>
  BY DEF XmitNext, xmitVars, CpuStep, HandlerStep, Stop, PreRmmod, flagVars
<1> QED BY <1>1, <1>2, <1>3, <1>4

LEMMA NetSafe == FrameTableInv /\ NetInv => SameKey /\ Protected /\ QosAsPeer
BY DEF NetInv, CallInv, Chosen, SameKey, Protected, QosAsPeer

\* No frame is queued without the IV of its network's cipher, of a station or of an
\* access point, to one peer or to many, unless its call met its peer's entry
\* unfinished.
THEOREM KeepsProtected == XmitSpec => []Protected
<1>1. FrameTableInv /\ NetInv /\ [XmitNext]_xmitVars => NetInv'
  BY NetStep
<1> QED BY FrameTableInvariant, NetInit, <1>1, NetSafe, PTL DEF XmitSpec

\* The key and the QoS of such a frame are its peer's from its lookup to the queue.
THEOREM KeepsKey == XmitSpec => [](SameKey /\ QosAsPeer)
<1>1. FrameTableInv /\ NetInv /\ [XmitNext]_xmitVars => NetInv'
  BY NetStep
<1> QED BY FrameTableInvariant, NetInit, <1>1, NetSafe, PTL DEF XmitSpec

-----------------------------------------------------------------------------
(* The composition.                                                        *)

\* TransmitSafe.
THEOREM TransmitIsSafe == AllSpec => []TransmitSafe
<1>1. [AllNext]_<<vars, xmitVars, part>> => [Next]_vars /\ [XmitNext]_xmitVars
  BY DEF AllNext
<1>2. AllInit => Init /\ XmitInit
  BY DEF AllInit
<1>3. AllSpec => Spec /\ XmitSpec
  BY <1>1, <1>2, PTL DEF AllSpec, Spec, XmitSpec
<1>4. Spec => [](TypeOK /\ Accounting)
  BY QueueTyped, Counted, PTL
<1>5. XmitSpec => [](XmitTypeOK /\ RoomKept /\ SameKey /\ QosAsPeer)
  BY XmitTyped, KeepsRoom, KeepsKey, PTL
<1>6. (TypeOK /\ Accounting) /\ (XmitTypeOK /\ RoomKept /\ SameKey /\ QosAsPeer)
        => TransmitSafe
  BY DEF TransmitSafe
<1> QED BY <1>3, <1>4, <1>5, <1>6, PTL
=============================================================================

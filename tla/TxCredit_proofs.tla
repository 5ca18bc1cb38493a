-------------------------- MODULE TxCredit_proofs --------------------------
(***************************************************************************)
(* The credit scheme never promises more input buffers than the device has, *)
(* for every number of buffers, every width of the counters and every bound *)
(* of the model.                                                            *)
(***************************************************************************)
EXTENDS TxCredit, TLAPS

USE TxCreditAssumption DEF U32

\* Credits sdio_tx would compute from the counter value x.
Dist(x) == Sub(x, n_xmits)

\* hw_xmits is a value the device has reported: it lies between what the host
\* already counts on and what the device has really freed.
InReports == hw_bufs_free <= Dist(hw_xmits) /\ Dist(hw_xmits) <= Dist(freed)

\* The reports under way are later than hw_xmits, and in the order in which the
\* device made them.
Ordered ==
  \A i \in 1 .. Len(events) :
    /\ Dist(hw_xmits) <= Dist(events[i])
    /\ Dist(events[i]) <= Dist(freed)
    /\ \A j \in 1 .. Len(events) : i <= j => Dist(events[i]) <= Dist(events[j])

\* Every buffer is free, or holds a frame that is accounted in n_xmits.
Conserved == Dist(freed) = NumInpChBufs - batch - held - lost

PcInv ==
  /\ txpc = "reread" => hw_bufs_free = 0 /\ Dist(hw_xmited) <= Dist(hw_xmits)
  /\ txpc = "get" => hw_bufs_free >= 1
  /\ txpc \in {"idle", "wait"} => batch = 0

\* Before the startup indication nothing was sent and nothing is under way.
OffInv ==
  txpc = "off" =>
    /\ n_xmits = 0 /\ hw_bufs_free = 0
    /\ batch = 0 /\ held = 0 /\ lost = 0
    /\ freed = NumInpChBufs /\ told = freed /\ events = <<>>

\* The inductive invariant: all the counter values the host holds or will
\* receive are reports of the device.
IInv ==
  /\ TypeOK
  /\ Conserved
  /\ OffInv
  /\ txpc # "off" => InReports
  /\ Ordered
  /\ PcInv
  /\ ~bug

-----------------------------------------------------------------------------
(* The arithmetic of the wrapping counters.                                *)

\* The difference of two counters is a counter value.
LEMMA SubRange ==
  ASSUME NEW a \in U32, NEW b \in U32
  PROVE  Sub(a, b) \in U32
BY DEF Sub

\* Counting one more frame costs one credit, across the wrap of n_xmits.
LEMMA SubIncRight ==
  ASSUME NEW a \in U32, NEW b \in U32, Sub(a, b) >= 1
  PROVE  Inc(b) \in U32 /\ Sub(a, Inc(b)) = Sub(a, b) - 1
BY DEF Sub, Inc

\* One more buffer that the device freed is one more credit, across the wrap
\* of the device's counter.
LEMMA SubIncLeft ==
  ASSUME NEW a \in U32, NEW b \in U32, Sub(a, b) < NumInpChBufs
  PROVE  Inc(a) \in U32 /\ Sub(Inc(a), b) = Sub(a, b) + 1
BY DEF Sub, Inc

\* The signed difference atbm_sdio_have_enough_space computes is the number of
\* credits as long as that is at most the number of buffers.
LEMMA CreditsAreDist ==
  ASSUME TypeOK, NEW x \in U32, Dist(x) <= NumInpChBufs
  PROVE  CreditsOf(x) = Dist(x) /\ Dist(x) \in 0 .. NumInpChBufs
<1>1. Sub(x, n_xmits) \in U32
  BY SubRange DEF TypeOK
<1> QED
  BY <1>1 DEF CreditsOf, Dist, AsInt

\* Enough is the unsigned test of the code; for credits it is what it says.
LEMMA EnoughMeans ==
  ASSUME NEW f \in 0 .. NumInpChBufs
  PROVE  Enough(f) <=> f >= 1
BY DEF Enough, AsU32

\* What the device has freed is within its buffers, and so is every counter
\* value that is not later.
LEMMA FreedBound ==
  ASSUME IInv, NEW x \in U32, Dist(x) <= Dist(freed)
  PROVE  Dist(x) <= NumInpChBufs
<1>1. Dist(freed) \in U32 /\ Dist(x) \in U32
  BY SubRange DEF IInv, TypeOK, Dist
<1>2. batch \in Nat /\ held \in Nat /\ lost \in Nat
  BY DEF IInv, TypeOK
<1> QED
  BY <1>1, <1>2 DEF IInv, Conserved

-----------------------------------------------------------------------------
(* The invariant.                                                          *)

LEMMA InitInv == Init => IInv
<1> SUFFICES ASSUME Init PROVE IInv
  OBVIOUS
<1> USE DEF Init
<1>1. TypeOK
  <2>1. n_xmits \in U32 /\ hw_xmits \in U32 /\ hw_xmited \in U32 /\ freed \in U32
        /\ told \in U32 /\ hw_bufs_free \in 0 .. NumInpChBufs
        /\ queued \in 0 .. MaxQueued
    OBVIOUS
  <2>2. events \in Seq(U32)
    OBVIOUS
  <2>3. enough \in BOOLEAN /\ cmd \in BOOLEAN /\ missed \in BOOLEAN /\ bug \in BOOLEAN
    OBVIOUS
  <2> QED
    BY <2>1, <2>2, <2>3 DEF TypeOK
<1>2. Conserved
  BY DEF Conserved, Dist, Sub
<1>3. OffInv /\ PcInv /\ ~bug
  BY DEF OffInv, PcInv
<1>4. Ordered
  BY DEF Ordered
<1> QED
  BY <1>1, <1>2, <1>3, <1>4 DEF IInv

\* Steps that touch neither the counters nor the frames that are accounted.
LEMMA FrameInv ==
  ASSUME IInv, bug' = bug,
         UNCHANGED <<n_xmits, hw_xmits, hw_bufs_free, batch, held, freed, told,
                     events, lost>>,
         TypeOK', txpc' = "off" <=> txpc = "off", PcInv'
  PROVE  IInv'
BY DEF IInv, Conserved, OffInv, InReports, Ordered, Dist

LEMMA StartupInv == IInv /\ Startup => IInv'
<1> SUFFICES ASSUME IInv, Startup PROVE IInv'
  OBVIOUS
<1> USE DEF Startup, IInv, StartupXmits
<1>1. TypeOK'
  BY DEF TypeOK, workVars, devVars
<1>2. Conserved' /\ OffInv' /\ PcInv' /\ ~bug'
  BY DEF Conserved, OffInv, PcInv, Dist, devVars
<1>3. InReports'
  BY DEF InReports, Dist, Sub, OffInv, devVars
<1>4. Ordered'
  BY DEF Ordered, OffInv
<1> QED
  BY <1>1, <1>2, <1>3, <1>4

LEMMA SubmitInv == IInv /\ Submit => IInv'
<1> SUFFICES ASSUME IInv, Submit PROVE IInv'
  OBVIOUS
<1>1. TypeOK'
  <2>1. queued' \in 0 .. MaxQueued /\ early' \in Nat
    BY DEF IInv, TypeOK, Submit
  <2>2. cmd' \in BOOLEAN
    BY DEF IInv, TypeOK, Submit
  <2> QED
    BY <2>1, <2>2 DEF IInv, TypeOK, Submit, txVars, devVars
<1>2. PcInv'
  BY DEF IInv, PcInv, Submit, Dist, txVars, devVars
<1> QED
  BY <1>1, <1>2, FrameInv DEF Submit, txVars, devVars

LEMMA TxEnterInv == IInv /\ TxEnter => IInv'
<1> SUFFICES ASSUME IInv, TxEnter PROVE IInv'
  OBVIOUS
<1>1. TypeOK'
  BY DEF TxEnter, IInv, TypeOK, workVars, devVars
<1>2. batch' = batch /\ PcInv'
  BY DEF TxEnter, IInv, PcInv
<1> QED
  BY <1>1, <1>2, FrameInv DEF TxEnter, devVars

\* The cached credits suffice, or the value read is one the device reported.
LEMMA HaveSpaceInv == IInv /\ HaveSpace => IInv'
<1> SUFFICES ASSUME IInv, HaveSpace PROVE IInv'
  OBVIOUS
<1>1. hw_bufs_free \in 0 .. NumInpChBufs /\ hw_xmits \in U32 /\ TypeOK
  BY DEF IInv, TypeOK
<1>2. Enough(hw_bufs_free) <=> hw_bufs_free >= 1
  BY <1>1, EnoughMeans
<1>3. Dist(hw_xmits) <= Dist(freed)
  BY DEF IInv, HaveSpace, InReports
<1>4. Dist(hw_xmits) <= NumInpChBufs
  BY <1>1, <1>3, FreedBound
<1>5. CreditsOf(hw_xmits) \in 0 .. NumInpChBufs
  BY <1>1, <1>4, CreditsAreDist
<1>6. ~(CreditsOf(hw_xmits) > NumInpChBufs)
  BY <1>5
<1>7. CASE Enough(hw_bufs_free)
  <2>1. TypeOK'
    BY <1>7 DEF IInv, TypeOK, HaveSpace, workVars, devVars
  <2>2. PcInv'
    BY <1>1, <1>2, <1>7 DEF PcInv, HaveSpace
  <2> QED
    BY <1>7, <2>1, <2>2, FrameInv DEF HaveSpace, devVars
<1>8. CASE ~Enough(hw_bufs_free)
  <2>1. txpc' = "reread" /\ hw_xmited' = hw_xmits /\ bug' = bug
        /\ hw_bufs_free = 0
    BY <1>1, <1>2, <1>6, <1>8 DEF HaveSpace
  <2>2. TypeOK'
    BY <1>8, <2>1 DEF IInv, TypeOK, HaveSpace, workVars, devVars
  <2>3. Dist(hw_xmits) \in U32
    BY SubRange DEF IInv, TypeOK, Dist
  <2>4. PcInv'
    BY <2>1, <2>3 DEF PcInv, HaveSpace, Dist
  <2> QED
    BY <2>1, <2>2, <2>4, FrameInv DEF HaveSpace, devVars
<1> QED
  BY <1>7, <1>8

\* The recomputed credits are those of a reported value, stale or not: at most
\* what hw_xmits and every report under way allow.
LEMMA RereadSpaceInv == IInv /\ RereadSpace => IInv'
<1> SUFFICES ASSUME IInv, RereadSpace PROVE IInv'
  OBVIOUS
<1> DEFINE c == CreditsOf(hw_xmited)
<1>1. TypeOK /\ hw_xmited \in U32 /\ hw_xmits \in U32 /\ freed \in U32
      /\ n_xmits \in U32 /\ events \in Seq(U32)
  BY DEF IInv, TypeOK
<1>2. Dist(hw_xmited) <= Dist(hw_xmits) /\ Dist(hw_xmits) <= Dist(freed)
  BY DEF IInv, PcInv, InReports, RereadSpace
<1>3. Dist(hw_xmited) \in U32 /\ Dist(hw_xmits) \in U32 /\ Dist(freed) \in U32
  BY <1>1, SubRange DEF Dist
<1>4. Dist(hw_xmited) <= NumInpChBufs
  BY <1>1, <1>2, <1>3, FreedBound
<1>5. c = Dist(hw_xmited) /\ c \in 0 .. NumInpChBufs
  BY <1>1, <1>4, CreditsAreDist
<1>6. Enough(c) <=> c >= 1
  BY <1>5, EnoughMeans
<1>7. hw_bufs_free' = c /\ hw_xmits' \in {hw_xmited, hw_xmits}
      /\ UNCHANGED <<n_xmits, hw_xmited, batch, held, freed, told, events, lost, bug>>
      /\ txpc = "reread"
  BY DEF RereadSpace, devVars
<1>8. txpc' \in {"get", "write", "wait"} /\ (txpc' = "get" => c >= 1)
      /\ (txpc' = "wait" => batch = 0)
  BY <1>5, <1>6 DEF RereadSpace, IInv, TypeOK
<1>9. TypeOK'
  <2>1. enough' \in BOOLEAN
    BY DEF RereadSpace, Enough
  <2> QED
    BY <1>5, <1>7, <1>8, <2>1 DEF IInv, TypeOK, RereadSpace, workVars
<1>10. Conserved' /\ OffInv' /\ PcInv' /\ ~bug'
  BY <1>7, <1>8 DEF IInv, Conserved, OffInv, PcInv, Dist
<1>11. Dist(hw_xmits') <= Dist(hw_xmits) /\ c <= Dist(hw_xmits')
  BY <1>2, <1>3, <1>5, <1>7
<1>12. InReports'
  <2>1. Dist(hw_xmits') \in U32
    BY <1>1, <1>7, SubRange DEF Dist
  <2> QED
    BY <1>2, <1>3, <1>7, <1>11, <2>1 DEF InReports, Dist
<1>13. Ordered'
  <2>1. Dist(hw_xmits') \in U32
    BY <1>1, <1>7, SubRange DEF Dist
  <2>2. ASSUME NEW i \in 1 .. Len(events)
        PROVE  Dist(events[i]) \in U32
    <3>1. events[i] \in U32
      BY <1>1
    <3> QED
      BY <1>1, <3>1, SubRange DEF Dist
  <2>3. \A i \in 1 .. Len(events) : Dist(hw_xmits') <= Dist(events[i])
    BY <1>3, <1>11, <2>1, <2>2 DEF IInv, Ordered
  <2> QED
    BY <1>7, <2>3 DEF IInv, Ordered, Dist
<1> QED
  BY <1>9, <1>10, <1>12, <1>13 DEF IInv

LEMMA WaitSpaceInv == IInv /\ WaitSpace => IInv'
<1> SUFFICES ASSUME IInv, WaitSpace PROVE IInv'
  OBVIOUS
<1>1. TypeOK'
  BY DEF WaitSpace, IInv, TypeOK, workVars, devVars
<1>2. PcInv'
  BY DEF WaitSpace, PcInv
<1> QED
  BY <1>1, <1>2, FrameInv DEF WaitSpace, devVars

LEMMA GetNothingInv == IInv /\ GetNothing => IInv'
<1> SUFFICES ASSUME IInv, GetNothing PROVE IInv'
  OBVIOUS
<1>1. TypeOK'
  BY DEF GetNothing, IInv, TypeOK, workVars, devVars
<1>2. PcInv'
  BY DEF GetNothing, IInv, TypeOK, PcInv
<1> QED
  BY <1>1, <1>2, FrameInv DEF GetNothing, devVars

\* A frame costs one credit: every distance to n_xmits shrinks by one.
LEMMA GetFrameInv == IInv /\ GetFrame => IInv'
<1> SUFFICES ASSUME IInv, GetFrame PROVE IInv'
  OBVIOUS
<1>1. TypeOK /\ hw_xmits \in U32 /\ freed \in U32 /\ n_xmits \in U32
      /\ events \in Seq(U32) /\ hw_bufs_free \in 1 .. NumInpChBufs
      /\ batch \in Nat /\ held \in Nat /\ lost \in Nat
  BY DEF IInv, TypeOK, PcInv, GetFrame
<1>2. n_xmits' = Inc(n_xmits) /\ hw_bufs_free' = hw_bufs_free - 1
      /\ batch' = batch + 1 /\ bug' = bug /\ txpc' \in {"write", "check"}
      /\ txpc = "get"
      /\ UNCHANGED <<hw_xmits, hw_xmited, held, freed, told, events, lost>>
  BY <1>1 DEF GetFrame, TakeCredit, devVars
<1>3. ASSUME NEW x \in U32, Dist(x) >= hw_bufs_free
      PROVE  Sub(x, n_xmits') = Dist(x) - 1 /\ Dist(x) \in U32
  <2>1. Sub(x, n_xmits) \in U32
    BY <1>1, SubRange
  <2> QED
    BY <1>1, <1>2, <1>3, <2>1, SubIncRight DEF Dist
<1>4. Dist(hw_xmits) >= hw_bufs_free /\ Dist(hw_xmits) <= Dist(freed)
  BY <1>2 DEF IInv, InReports
<1>5. Dist(hw_xmits) \in U32 /\ Dist(freed) \in U32
  BY <1>1, SubRange DEF Dist
<1>6. Sub(freed, n_xmits') = Dist(freed) - 1 /\ Sub(hw_xmits, n_xmits') = Dist(hw_xmits) - 1
  BY <1>1, <1>3, <1>4, <1>5
<1>7. TypeOK'
  <2>1. n_xmits' \in U32
    BY <1>1, <1>2 DEF Inc
  <2>2. queued' \in 0 .. MaxQueued
    BY <1>1 DEF GetFrame, IInv, TypeOK
  <2>3. cmd' \in BOOLEAN
    BY DEF GetFrame, IInv, TypeOK, workVars
  <2> QED
    BY <1>1, <1>2, <2>1, <2>2, <2>3 DEF IInv, TypeOK, GetFrame, workVars
<1>8. Conserved'
  BY <1>1, <1>2, <1>5, <1>6 DEF IInv, Conserved, Dist
<1>9. OffInv' /\ PcInv' /\ ~bug'
  BY <1>2 DEF IInv, OffInv, PcInv
<1>10. InReports'
  BY <1>1, <1>2, <1>4, <1>5, <1>6 DEF InReports, Dist
<1>11. Ordered'
  <2>1. ASSUME NEW i \in 1 .. Len(events)
        PROVE  Sub(events[i], n_xmits') = Dist(events[i]) - 1 /\ Dist(events[i]) \in U32
    <3>1. events[i] \in U32 /\ Dist(hw_xmits) <= Dist(events[i])
      BY <1>1 DEF IInv, Ordered
    <3>2. Dist(events[i]) \in U32
      BY <1>1, <3>1, SubRange DEF Dist
    <3> QED
      BY <1>1, <1>3, <1>4, <1>5, <3>1, <3>2
  <2> QED
    BY <1>2, <1>5, <1>6, <2>1 DEF IInv, Ordered, Dist
<1> QED
  BY <1>7, <1>8, <1>9, <1>10, <1>11 DEF IInv

\* A written or a lost batch stays accounted.
LEMMA WriteInv == IInv /\ (Write \/ WriteError) => IInv'
<1> SUFFICES ASSUME IInv, Write \/ WriteError PROVE IInv'
  OBVIOUS
<1>1. batch \in Nat /\ held \in Nat /\ lost \in Nat
  BY DEF IInv, TypeOK
<1>2. UNCHANGED <<n_xmits, hw_bufs_free, hw_xmits, hw_xmited, queued, cmd, early,
                  freed, told, events, vif, missed, undone, bug>>
      /\ txpc = "write" /\ txpc' \in {"check", "wait"} /\ batch' = 0
      /\ enough' = FALSE
  BY DEF Write, WriteError, workVars
<1>3. held' \in Nat /\ lost' \in Nat
  BY <1>1 DEF Write, WriteError
<1>4. TypeOK'
  <2>1. enough' \in BOOLEAN /\ batch' \in Nat
    BY <1>2
  <2> QED
    BY <1>2, <1>3, <2>1 DEF IInv, TypeOK
<1>5. Conserved'
  <2>1. Sub(freed, n_xmits) = NumInpChBufs - batch - held - lost
    BY DEF IInv, Conserved, Dist
  <2>2. NumInpChBufs - batch' - held' - lost' = NumInpChBufs - batch - held - lost
    <3>1. CASE held' = held + batch /\ lost' = lost
      BY <1>1, <1>2, <3>1
    <3>2. CASE lost' = lost + batch /\ held' = held
      BY <1>1, <1>2, <3>2
    <3> QED
      BY <3>1, <3>2 DEF Write, WriteError
  <2>3. Sub(freed', n_xmits') = Sub(freed, n_xmits)
    BY <1>2
  <2> QED
    BY <2>1, <2>2, <2>3 DEF Conserved, Dist
<1> QED
  BY <1>2, <1>4, <1>5 DEF IInv, OffInv, PcInv, InReports, Ordered, Dist

\* The device frees a buffer: its counter is one further from n_xmits.
LEMMA DevConsumeInv == IInv /\ DevConsume => IInv'
<1> SUFFICES ASSUME IInv, DevConsume PROVE IInv'
  OBVIOUS
<1>1. batch \in Nat /\ held \in Nat /\ lost \in Nat /\ freed \in U32
      /\ n_xmits \in U32 /\ hw_xmits \in U32 /\ events \in Seq(U32)
  BY DEF IInv, TypeOK
<1>2. held > 0 /\ held' = held - 1 /\ freed' = Inc(freed) /\ txpc # "off"
      /\ UNCHANGED <<txVars, hw_xmits, workVars, told, events, lost, vif, missed, undone, bug>>
  BY <1>1 DEF DevConsume, IInv, OffInv
<1>3. Dist(freed) \in U32 /\ Dist(freed) = NumInpChBufs - batch - held - lost
  BY <1>1, SubRange DEF IInv, Conserved, Dist
<1>4. freed' \in U32 /\ Sub(freed', n_xmits) = Dist(freed) + 1
  BY <1>1, <1>2, <1>3, SubIncLeft DEF Dist
<1>5. TypeOK'
  BY <1>1, <1>2, <1>4 DEF IInv, TypeOK, txVars, workVars
<1>6. Conserved'
  BY <1>1, <1>2, <1>3, <1>4 DEF Conserved, Dist, txVars
<1>7. InReports'
  <2>1. Dist(hw_xmits) \in U32
    BY <1>1, SubRange DEF Dist
  <2> QED
    BY <1>2, <1>3, <1>4, <2>1 DEF IInv, InReports, Dist, txVars
<1>8. Ordered'
  <2>1. ASSUME NEW i \in 1 .. Len(events)
        PROVE  Dist(events[i]) \in U32
    <3>1. events[i] \in U32
      BY <1>1
    <3> QED
      BY <1>1, <3>1, SubRange DEF Dist
  <2> QED
    BY <1>2, <1>3, <1>4, <2>1 DEF IInv, Ordered, Dist, txVars
<1> QED
  BY <1>2, <1>5, <1>6, <1>7, <1>8 DEF IInv, OffInv, PcInv, Dist, txVars

\* A report is the newest of all: it comes after those under way.
LEMMA DevReportInv == IInv /\ DevReport => IInv'
<1> SUFFICES ASSUME IInv, DevReport PROVE IInv'
  OBVIOUS
<1>1. freed \in U32 /\ n_xmits \in U32 /\ hw_xmits \in U32 /\ events \in Seq(U32)
  BY DEF IInv, TypeOK
<1>2. events' = Append(events, freed) /\ told' = freed /\ txpc # "off"
      /\ UNCHANGED <<txVars, hw_xmits, workVars, held, freed, lost, vif, missed, undone, bug>>
  BY DEF DevReport, IInv, OffInv
<1>3. TypeOK'
  BY <1>1, <1>2 DEF IInv, TypeOK, txVars, workVars
<1>4. Dist(freed) \in U32 /\ Dist(hw_xmits) <= Dist(freed)
  BY <1>1, <1>2, SubRange DEF Dist, IInv, InReports
<1>5. Ordered'
  <2>1. Len(events') = Len(events) + 1 /\ events'[Len(events) + 1] = freed
        /\ \A i \in 1 .. Len(events) : events'[i] = events[i]
    BY <1>1, <1>2
  <2>2. ASSUME NEW i \in 1 .. Len(events')
        PROVE  Dist(hw_xmits) <= Dist(events'[i]) /\ Dist(events'[i]) <= Dist(freed)
    BY <1>1, <1>4, <2>1 DEF IInv, Ordered
  <2>3. ASSUME NEW i \in 1 .. Len(events'), NEW j \in 1 .. Len(events'), i <= j
        PROVE  Dist(events'[i]) <= Dist(events'[j])
    <3>1. CASE j = Len(events) + 1
      BY <2>1, <2>2, <3>1
    <3>2. CASE j # Len(events) + 1
      <4>1. Len(events) \in Nat
        BY <1>1
      <4>2. i \in 1 .. Len(events) /\ j \in 1 .. Len(events)
        BY <2>1, <2>3, <3>2, <4>1
      <4>3. Dist(events[i]) <= Dist(events[j])
        BY <2>3, <4>2 DEF IInv, Ordered
      <4> QED
        BY <2>1, <4>2, <4>3
    <3> QED
      BY <3>1, <3>2
  <2> QED
    BY <1>2, <2>2, <2>3 DEF Ordered, Dist, txVars
<1> QED
  BY <1>2, <1>3, <1>5
  DEF IInv, Conserved, OffInv, PcInv, InReports, Dist, txVars

\* The oldest report becomes hw_xmits, or is ignored.
LEMMA RxEventInv == IInv /\ RxEvent => IInv'
<1> SUFFICES ASSUME IInv, RxEvent PROVE IInv'
  OBVIOUS
<1>1. freed \in U32 /\ n_xmits \in U32 /\ hw_xmits \in U32 /\ events \in Seq(U32)
      /\ hw_bufs_free \in 0 .. NumInpChBufs /\ hw_xmited \in U32
  BY DEF IInv, TypeOK
<1>2. events # <<>> /\ events' = Tail(events) /\ hw_xmits' \in {Head(events), hw_xmits}
      /\ txpc # "off"
      /\ UNCHANGED <<txVars, workVars, devVars, lost, vif, bug>>
  BY DEF RxEvent, KeepReport, IInv, OffInv
<1>3. Head(events) = events[1] /\ Len(events) >= 1 /\ Len(events') = Len(events) - 1
      /\ \A i \in 1 .. Len(events') : events'[i] = events[i + 1]
  BY <1>1, <1>2
<1>4. ASSUME NEW i \in 1 .. Len(events)
      PROVE  events[i] \in U32 /\ Dist(events[i]) \in U32
  <2>1. events[i] \in U32
    BY <1>1
  <2> QED
    BY <1>1, <2>1, SubRange DEF Dist
<1>5. hw_xmits' \in U32
  BY <1>1, <1>2, <1>3, <1>4
<1>6. TypeOK'
  <2>1. missed' \in BOOLEAN /\ undone' \in BOOLEAN
    BY DEF RxEvent
  <2>2. events' \in Seq(U32)
    BY <1>1, <1>2
  <2> QED
    BY <1>2, <1>5, <2>1, <2>2 DEF IInv, TypeOK, txVars, workVars, devVars
<1>7. Dist(hw_xmits) <= Dist(hw_xmits') /\ Dist(hw_xmits') <= Dist(freed)
      /\ \A i \in 1 .. Len(events') : Dist(hw_xmits') <= Dist(events'[i])
                                      /\ Dist(events'[i]) <= Dist(freed)
  <2>1. Dist(hw_xmits) \in U32 /\ Dist(freed) \in U32
    BY <1>1, SubRange DEF Dist
  <2>2. 1 \in 1 .. Len(events) /\ \A i \in 1 .. Len(events') : i + 1 \in 1 .. Len(events)
    <3>1. Len(events) \in Nat
      BY <1>1
    <3> QED
      BY <1>3, <3>1
  <2>3. CASE hw_xmits' = hw_xmits
    BY <1>2, <1>3, <2>1, <2>2, <2>3 DEF IInv, Ordered, InReports
  <2>4. CASE hw_xmits' = events[1]
    BY <1>2, <1>3, <2>1, <2>2, <2>4 DEF IInv, Ordered, InReports
  <2> QED
    BY <1>2, <1>3, <2>3, <2>4
<1>8. Ordered'
  <2>1. ASSUME NEW i \in 1 .. Len(events'), NEW j \in 1 .. Len(events'), i <= j
        PROVE  Dist(events'[i]) <= Dist(events'[j])
    <3>1. i + 1 \in 1 .. Len(events) /\ j + 1 \in 1 .. Len(events) /\ i + 1 <= j + 1
      BY <1>1, <1>3, <2>1
    <3>2. events'[i] = events[i + 1] /\ events'[j] = events[j + 1]
      BY <1>3
    <3> QED
      BY <3>1, <3>2 DEF IInv, Ordered
  <2> QED
    BY <1>2, <1>7, <2>1 DEF Ordered, Dist, txVars, devVars
<1>9. Dist(hw_xmits) \in U32 /\ Dist(hw_xmits') \in U32 /\ Dist(hw_xmited) \in U32
  BY <1>1, <1>5, SubRange DEF Dist
<1>10. InReports'
  BY <1>1, <1>2, <1>7, <1>9 DEF IInv, InReports, Dist, txVars, devVars
<1>11. PcInv'
  BY <1>1, <1>2, <1>7, <1>9 DEF IInv, PcInv, Dist, txVars
<1> QED
  BY <1>2, <1>6, <1>8, <1>10, <1>11
  DEF IInv, Conserved, OffInv, Dist, txVars, devVars

LEMMA InterfaceInv == IInv /\ (AddInterface \/ RemoveInterface) => IInv'
<1> SUFFICES ASSUME IInv, AddInterface \/ RemoveInterface PROVE IInv'
  OBVIOUS
<1>1. vif' \in {"up", "removed"}
      /\ UNCHANGED <<txVars, hw_xmits, workVars, devVars, events, lost, missed, undone, bug>>
  BY DEF AddInterface, RemoveInterface
<1>2. TypeOK' /\ PcInv'
  BY <1>1 DEF IInv, TypeOK, PcInv, Dist, txVars, workVars, devVars
<1> QED
  BY <1>1, <1>2, FrameInv DEF txVars, devVars

LEMMA NextInv == IInv /\ [Next]_vars => IInv'
<1> SUFFICES ASSUME IInv, [Next]_vars PROVE IInv'
  OBVIOUS
<1>1. CASE UNCHANGED vars
  BY <1>1
  DEF vars, txVars, workVars, devVars, IInv, TypeOK, Conserved, OffInv, PcInv,
      InReports, Ordered, Dist
<1>2. CASE TxStep
  BY <1>2, TxEnterInv, HaveSpaceInv, RereadSpaceInv, WaitSpaceInv, GetFrameInv,
     GetNothingInv, WriteInv
  DEF TxStep
<1>3. CASE Startup \/ Submit
  BY <1>3, StartupInv, SubmitInv
<1>4. CASE DevConsume \/ DevReport \/ RxEvent
  BY <1>4, DevConsumeInv, DevReportInv, RxEventInv
<1>5. CASE AddInterface \/ RemoveInterface
  BY <1>5, InterfaceInv
<1> QED
  BY <1>1, <1>2, <1>3, <1>4, <1>5 DEF Next

THEOREM Invariant == Spec => []IInv
BY InitInv, NextInv, PTL DEF Spec

LEMMA InvImplies == IInv => TypeOK /\ CreditBound /\ NoBug
<1> SUFFICES ASSUME IInv PROVE CreditBound
  BY DEF IInv, NoBug
<1>1. batch \in Nat /\ held \in Nat /\ lost \in Nat
      /\ hw_bufs_free \in 0 .. NumInpChBufs /\ hw_xmits \in U32 /\ freed \in U32
      /\ n_xmits \in U32
  BY DEF IInv, TypeOK
<1>2. Dist(hw_xmits) \in U32 /\ Dist(freed) \in U32
  BY <1>1, SubRange DEF Dist
<1>3. CASE txpc = "off"
  BY <1>1, <1>3 DEF IInv, OffInv, CreditBound
<1>4. CASE txpc # "off"
  BY <1>1, <1>2, <1>4 DEF IInv, InReports, Conserved, CreditBound
<1> QED
  BY <1>3, <1>4

\* Type correctness: in particular the cached credits never become negative,
\* which the unsigned test of atbm_sdio_have_enough_space would take for many.
THEOREM Typed == Spec => []TypeOK
BY Invariant, InvImplies, PTL

\* The credits sdio_tx counts on and the frames that are accounted never exceed
\* the input buffers of the device, for every number of them, every width of
\* the counters, and with or without the racing store of line 281.
THEOREM Credits == Spec => []CreditBound
BY Invariant, InvImplies, PTL

\* The BUG_ONs of atbm_sdio_have_enough_space and atbm_sdio_tx_bh never fire.
THEOREM BugFree == Spec => []NoBug
BY Invariant, InvImplies, PTL

-----------------------------------------------------------------------------
(* The refinement.                                                         *)

LEMMA PoolStep == IInv /\ [Next]_vars => [Pool!Next]_(batch + held + lost)
<1> SUFFICES ASSUME IInv, [Next]_vars
             PROVE  Pool!Next \/ UNCHANGED (batch + held + lost)
  OBVIOUS
<1>1. batch \in Nat /\ held \in Nat /\ lost \in Nat
      /\ hw_bufs_free \in 0 .. NumInpChBufs
  BY DEF IInv, TypeOK
<1>2. CASE GetFrame
  <2>1. hw_bufs_free >= 1 /\ hw_bufs_free + batch + held + lost <= NumInpChBufs
    BY <1>2, InvImplies DEF GetFrame, IInv, PcInv, CreditBound
  <2>2. batch' = batch + 1 /\ held' = held /\ lost' = lost
    BY <1>1, <1>2, <2>1 DEF GetFrame, devVars
  <2> QED
    BY <1>1, <2>1, <2>2 DEF Pool!Next, Pool!Take
<1>3. CASE DevConsume
  <2>1. held > 0 /\ held' = held - 1 /\ batch' = batch /\ lost' = lost
    BY <1>3 DEF DevConsume, txVars
  <2> QED
    BY <1>1, <2>1 DEF Pool!Next, Pool!Give
<1>4. CASE Write \/ WriteError
  <2>1. CASE batch' = 0 /\ held' = held + batch /\ lost' = lost
    BY <1>1, <2>1
  <2>2. CASE batch' = 0 /\ lost' = lost + batch /\ held' = held
    BY <1>1, <2>2
  <2> QED
    BY <1>4, <2>1, <2>2 DEF Write, WriteError
<1>5. CASE TxEnter
  BY <1>5 DEF TxEnter, IInv, PcInv, devVars
<1>6. CASE Startup \/ Submit \/ HaveSpace \/ RereadSpace \/ WaitSpace \/ GetNothing
           \/ DevReport \/ RxEvent \/ AddInterface \/ RemoveInterface
           \/ UNCHANGED vars
  <2>1. batch' = batch /\ held' = held /\ lost' = lost
    BY <1>6
    DEF Startup, Submit, HaveSpace, RereadSpace, WaitSpace, GetNothing, DevReport,
        RxEvent, AddInterface, RemoveInterface, vars, txVars, devVars
  <2> QED
    BY <2>1
<1> QED
  BY <1>2, <1>3, <1>4, <1>5, <1>6 DEF Next, TxStep

\* The detailed scheme, with its wrapping counters, stale copies and lost
\* frames, implements the pool of buffers.
THEOREM Refinement == Spec => PoolSpec
<1>1. Init => Pool!Init
  BY DEF Init, Pool!Init
<1> QED
  BY <1>1, PoolStep, Invariant, PTL DEF Spec, PoolSpec, Pool!Spec

-----------------------------------------------------------------------------
(* No report is forgotten.                                                 *)

\* The last report under way is the device's last; when none is under way it is
\* in hw_xmits, unless it came while there was no interface.
LastReport ==
  /\ events # <<>> => events[Len(events)] = told
  /\ events = <<>> /\ txpc # "off" /\ ~missed /\ ~undone => hw_xmits = told

\* What is last in a queue stays last when the first is taken.
LEMMA LastOfTail ==
  ASSUME NEW S, NEW s \in Seq(S), s # <<>>, Len(s) # 1
  PROVE  Tail(s) # <<>> /\ Tail(s)[Len(Tail(s))] = s[Len(s)]
<1> DEFINE n == Len(s)
           m == Len(Tail(s))
<1>1. n \in Nat /\ n # 0 /\ n # 1 /\ m = n - 1 /\ \A i \in 1 .. n - 1 : Tail(s)[i] = s[i + 1]
  OBVIOUS
<1>2. Len(<<>>) = 0
  OBVIOUS
<1>3. Len(s) = n /\ Len(Tail(s)) = m
  OBVIOUS
<1> HIDE DEF n, m
<1>4. m # 0 /\ n - 1 \in 1 .. n - 1 /\ (n - 1) + 1 = n
  BY <1>1
<1>5. Tail(s)[n - 1] = s[n]
  BY <1>1, <1>4
<1> QED BY <1>1, <1>2, <1>3, <1>4, <1>5, Zenon

\* Only sdio_rx and the racing store of line 281 write hw_xmits.
LEMMA LastReportStep ==
  ASSUME IInv, LastReport, [Next]_vars PROVE LastReport'
<1>1. events \in Seq(U32) /\ told \in U32 /\ freed \in U32
  BY DEF IInv, TypeOK
<1>2. CASE Startup
  BY <1>2 DEF Startup, StartupXmits, IInv, OffInv, LastReport, devVars
<1>3. CASE Submit
  BY <1>3 DEF Submit, LastReport, txVars, devVars
<1>4. CASE TxStep
  <2>1. /\ UNCHANGED <<told, events, missed>> /\ (txpc' = "off" <=> txpc = "off")
        /\ UNCHANGED <<hw_xmits, undone>> \/ undone' \/ (hw_xmits' = hw_xmits /\ (undone' <=> undone))
    BY <1>4 DEF TxStep, TxEnter, HaveSpace, RereadSpace, WaitSpace, GetFrame, GetNothing, Write,
         WriteError, devVars
  <2> QED BY <2>1 DEF LastReport
<1>5. CASE DevConsume
  BY <1>5 DEF DevConsume, LastReport, txVars
<1>6. CASE DevReport
  <2>1. events' = Append(events, freed) /\ told' = freed
    BY <1>6 DEF DevReport
  <2>2. events'[Len(events')] = freed /\ events' # <<>>
    BY <1>1, <2>1
  <2> QED BY <2>1, <2>2 DEF LastReport
<1>7. CASE RxEvent
  <2>1. /\ events # <<>> /\ events' = Tail(events) /\ told' = told
        /\ vif = "up" => hw_xmits' = Head(events)
        /\ missed' = (vif # "up")
    BY <1>7 DEF RxEvent, KeepReport, devVars
  <2>2. CASE Len(events) = 1
    <3>1. events' = <<>> /\ Head(events) = told
      BY <1>1, <2>1, <2>2 DEF LastReport
    <3> QED BY <2>1, <3>1 DEF LastReport
  <2>3. CASE Len(events) # 1
    <3>1. events' # <<>> /\ events'[Len(events')] = events[Len(events)]
      BY <1>1, <2>1, <2>3, LastOfTail
    <3> QED BY <2>1, <3>1 DEF LastReport
  <2> QED BY <2>2, <2>3
<1>8. CASE AddInterface \/ RemoveInterface
  BY <1>8 DEF AddInterface, RemoveInterface, LastReport, txVars, devVars
<1>9. CASE UNCHANGED vars
  BY <1>9 DEF vars, LastReport, txVars, devVars
<1> QED BY <1>2, <1>3, <1>4, <1>5, <1>6, <1>7, <1>8, <1>9 DEF Next

LEMMA InitReport == Init => LastReport
BY DEF Init, LastReport

LEMMA LastReportMeans == LastReport => NoReportForgotten
BY DEF LastReport, NoReportForgotten

\* When the device has reported all it consumed and every report was handled,
\* sdio_tx finds all the credits there are, unless the last report found no interface
\* or was overwritten by sdio_tx: no earlier report that was overwritten can do harm
\* once a later one is kept (wsm_handle_rx, atbm_sdio_have_enough_space).
THEOREM NothingForgotten == Spec => []NoReportForgotten
<1>1. IInv /\ LastReport /\ [Next]_vars => LastReport'
  BY LastReportStep
<1> QED BY InitReport, LastReportMeans, <1>1, Invariant, PTL DEF Spec
=============================================================================

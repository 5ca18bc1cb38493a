-------------------------- MODULE MCReceive_proofs --------------------------
(***************************************************************************)
(* Proofs about the way of a received frame, for any number of frames,      *)
(* failures, register accesses and suspends, any sequence modulus and any   *)
(* lengths: how an aggregate is split (MultiRx), what becomes of one frame  *)
(* (RxFrames), how sdio_rx is told of frames and reads them (RxPath), and   *)
(* what MCReceive puts together of them.                                    *)
(*                                                                          *)
(* The split: the loop stands where the frames it has handled end (Place),  *)
(* so what it looks at is a frame as the firmware laid it out (Layout).     *)
(* The order: the number that is expected is the one behind the last frame  *)
(* handed on (OrderInv), and every frame dropped brings the device one      *)
(* nearer to it (Ahead), so that a lost frame costs one round at most.      *)
(***************************************************************************)
EXTENDS MCReceive, FiniteSetTheorems, SequenceTheorems, TLAPS

-----------------------------------------------------------------------------
(* The split of an aggregate.                                              *)

\* The firmware's layout: the frames one behind the other.
Layout ==
  /\ lens \in Seq(Lens) /\ Len(lens) \in 1 .. MaxInOne
  /\ places \in Seq(Nat) /\ Len(places) = Len(lens) + 1 /\ places[1] = 0
  /\ \A i \in 1 .. Len(lens) : places[i + 1] = places[i] + DeviceStride(lens[i])
  /\ \A i, j \in 1 .. Len(places) : i < j => places[i] < places[j]

\* Where the frame begins that the driver looks at, and how much is left.
AtFrame(k) ==
  /\ k \in 1 .. Len(lens)
  /\ at = places[k] /\ wsm_len = lens[k] /\ RxFrameNum = Len(lens) + 1 - k
  /\ data_len + at \in Sizes

SplitTypes ==
  /\ splitPc \in {"begin", "copy", "handle", "advance", "end", "failed", "done"}
  /\ at \in Nat /\ wsm_len \in Lens \cup {0} /\ RxFrameNum \in 0 .. MaxInOne
  /\ data_len \in Int /\ data_len >= -43 /\ copy \in BOOLEAN
  /\ handed \in Seq(Nat) /\ Len(handed) <= Len(lens)
  /\ handed = [i \in 1 .. Len(handed) |-> i]

Place ==
  /\ splitPc = "begin" => handed = <<>> /\ at = 0 /\ data_len = 0
  /\ splitPc \in {"copy", "handle"} => AtFrame(Len(handed) + 1)
  /\ splitPc = "advance" => AtFrame(Len(handed))
  /\ splitPc \in {"end", "done"} => RxFrameNum = 0 /\ Len(handed) = Len(lens)

\* The copies the driver still has.
Held == IF splitPc = "advance" /\ copy THEN 1 ELSE 0

Copies ==
  /\ kept \subseteq 1 .. Len(handed) /\ freed \in Nat
  /\ Cardinality(kept) + freed + Held = Len(handed)
  /\ splitPc \notin {"handle", "advance"} => ~copy

SplitInv == Layout /\ SplitTypes /\ Place /\ Copies

\* A stride holds a frame and its overhead, and is a multiple of four.
LEMMA Strides ==
  ASSUME NEW l \in Lens
  PROVE  /\ l \in Nat /\ l >= MinLen /\ Stride(l) = DeviceStride(l)
         /\ Stride(l) \in Nat /\ l < Stride(l) /\ Stride(l) <= l + 43
<1>1. l \in Nat /\ l >= MinLen
  BY MultiRxAssumption
<1>2. Stride(l) = DeviceStride(l)
  BY <1>1 DEF Stride, DeviceStride, Overhead
<1>3. DeviceStride(l) \in Nat /\ l + 40 <= DeviceStride(l) /\ DeviceStride(l) <= l + 43
  BY <1>1, SMT DEF DeviceStride
<1> QED BY <1>1, <1>2, <1>3

LEMMA SplitFirst == SplitInit => SplitInv
<1> SUFFICES ASSUME SplitInit PROVE SplitInv
  OBVIOUS
<1>1. PICK l \in Lens : lens = <<l>> /\ places = <<0, DeviceStride(l)>>
  BY DEF SplitInit
<1>2. Layout
  <2>1. DeviceStride(l) \in Nat /\ 0 < DeviceStride(l)
    BY Strides
  <2> DEFINE d == DeviceStride(l)
  <2>2. d \in Nat /\ 0 < d /\ places = <<0, d>>
    BY <1>1, <2>1
  <2>3. DeviceStride(lens[1]) = d
    BY <1>1
  <2> HIDE DEF d
  <2> QED BY <1>1, <2>2, <2>3, MultiRxAssumption DEF Layout
<1>3. SplitTypes
  <2>1. copy \in BOOLEAN
    BY Zenon DEF SplitInit
  <2>2. Len(lens) = 1 /\ handed = <<>>
    BY <1>1 DEF SplitInit
  <2> QED BY <2>1, <2>2, MultiRxAssumption DEF SplitInit, SplitTypes
<1>4. Place
  BY DEF SplitInit, Place
<1>5. Copies
  BY FS_EmptySet DEF SplitInit, Copies, Held
<1> QED BY <1>2, <1>3, <1>4, <1>5 DEF SplitInv

LEMMA PutKeeps == ASSUME SplitInv, NEW l \in Lens, PutFrame(l) PROVE SplitInv'
<1> DEFINE n == Len(lens)
<1> DEFINE d == DeviceStride(l)
<1>1. d \in Nat /\ 0 < d
  BY Strides
<1>2. Layout'
  <2>1. n \in 1 .. MaxInOne /\ n < MaxInOne /\ lens \in Seq(Lens) /\ places \in Seq(Nat)
        /\ Len(places) = n + 1
    BY DEF SplitInv, Layout, PutFrame
  <2>2. lens' = Append(lens, l) /\ places' = Append(places, places[n + 1] + d)
    BY <2>1 DEF PutFrame
  <2>3. places[n + 1] \in Nat
    BY <2>1
  <2> HIDE DEF n, d
  <2>4. lens' \in Seq(Lens) /\ Len(lens') = n + 1 /\ Len(lens') \in 1 .. MaxInOne
    <3>1. Len(lens) = n
      BY DEF n
    <3> QED BY <2>1, <2>2, <3>1, MultiRxAssumption
  <2>5. places' \in Seq(Nat) /\ Len(places') = n + 2
    BY <1>1, <2>1, <2>2, <2>3
  <2>6. /\ \A i \in 1 .. n + 1 : places'[i] = places[i] /\ places[i] \in Nat
        /\ places'[n + 2] = places[n + 1] + d
    BY <2>1, <2>2
  <2>7. /\ \A i \in 1 .. n : lens'[i] = lens[i]
        /\ lens'[n + 1] = l
    BY <2>1, <2>2 DEF n
  <2>8. places'[1] = 0
    BY <2>1, <2>6 DEF SplitInv, Layout
  <2>9. ASSUME NEW i \in 1 .. n + 1 PROVE places'[i + 1] = places'[i] + DeviceStride(lens'[i])
    <3>1. CASE i \in 1 .. n
      BY <2>1, <2>6, <2>7, <3>1 DEF SplitInv, Layout, n
    <3>2. CASE i = n + 1
      BY <2>1, <2>6, <2>7, <3>2 DEF d
    <3> QED BY <2>1, <3>1, <3>2
  <2>10. ASSUME NEW i \in 1 .. n + 2, NEW j \in 1 .. n + 2, i < j PROVE places'[i] < places'[j]
    <3>1. \A p, q \in 1 .. n + 1 : p < q => places[p] < places[q]
      BY <2>1 DEF SplitInv, Layout
    <3>2. CASE j \in 1 .. n + 1
      BY <2>1, <2>6, <2>10, <3>1, <3>2
    <3>3. CASE j = n + 2
      <4>1. i \in 1 .. n + 1
        BY <2>1, <2>10, <3>3
      <4>2. places[i] <= places[n + 1]
        BY <2>1, <2>6, <3>1, <4>1
      <4> QED BY <1>1, <2>1, <2>6, <3>3, <4>1, <4>2
    <3> QED BY <2>1, <3>2, <3>3
  <2>11. Len(places') = Len(lens') + 1
    BY <2>1, <2>4, <2>5, MultiRxAssumption
  <2>12. \A i \in 1 .. Len(lens') : places'[i + 1] = places'[i] + DeviceStride(lens'[i])
    BY <2>4, <2>9
  <2>13. \A i, j \in 1 .. Len(places') : i < j => places'[i] < places'[j]
    BY <2>5, <2>10
  <2> QED BY <2>4, <2>5, <2>8, <2>11, <2>12, <2>13 DEF Layout
<1>3. UNCHANGED <<splitPc, at, wsm_len, data_len, RxFrameNum, copy, kept, freed, handed>>
  BY DEF PutFrame, splitVars, copyVars
<1>4. splitPc = "begin" /\ handed = <<>>
  BY DEF PutFrame, SplitInv, Place
<1>5. SplitTypes'
  <2>1. Len(handed) = 0
    BY <1>4
  <2>2. Len(lens') \in Nat
    BY <1>2, MultiRxAssumption DEF Layout
  <2> QED BY <1>3, <2>1, <2>2 DEF SplitInv, SplitTypes
<1>6. Place'
  BY <1>3, <1>4 DEF SplitInv, Place
<1>7. Copies'
  BY <1>3 DEF SplitInv, Copies, Held
<1> QED BY <1>2, <1>5, <1>6, <1>7 DEF SplitInv

\* The aggregate stays.
LEMMA LayoutStays == ASSUME Layout, UNCHANGED aggregateVars PROVE Layout'
BY DEF Layout, aggregateVars

\* A place of a frame is the place of no other.
LEMMA OneFrameAt ==
  ASSUME Layout, NEW k \in 1 .. Len(lens)
  PROVE  FrameAt(places[k]) = {k} /\ LengthAt(places[k]) = {lens[k]}
<1>1. ASSUME NEW i \in 1 .. Len(lens), places[i] = places[k] PROVE i = k
  <2>1. i \in 1 .. Len(places) /\ k \in 1 .. Len(places)
    BY DEF Layout
  <2>2. places[i] \in Nat /\ places[k] \in Nat
    BY <2>1 DEF Layout
  <2> QED BY <1>1, <2>1, <2>2 DEF Layout
<1>2. DOMAIN lens = 1 .. Len(lens)
  BY DEF Layout
<1>3. FrameAt(places[k]) = {k}
  BY <1>1, <1>2 DEF FrameAt
<1> QED BY <1>3 DEF LengthAt

\* What is left at frame k: it fits, and so does the one behind it.
LEMMA Left ==
  ASSUME Layout, NEW k \in 1 .. Len(lens), NEW rest \in Int, rest + places[k] \in Sizes
  PROVE  /\ lens[k] <= rest
         /\ k < Len(lens) => rest - Stride(lens[k]) > 32
         /\ rest - Stride(lens[k]) >= -43
<1> DEFINE n == Len(lens)
<1> DEFINE p(i) == places[i]
<1> DEFINE l(i) == lens[i]
<1> DEFINE d(i) == DeviceStride(lens[i])
<1>1. /\ n \in Nat /\ k \in 1 .. n
      /\ \A i \in 1 .. n + 1 : p(i) \in Nat
      /\ \A i \in 1 .. n : p(i + 1) = p(i) + d(i)
      /\ \A i, j \in 1 .. n + 1 : i < j => p(i) < p(j)
  BY DEF Layout
<1>2. \A i \in 1 .. n : l(i) \in Nat /\ l(i) >= 44 /\ d(i) \in Nat /\ l(i) < d(i) /\ d(i) <= l(i) + 43
  <2>1. ASSUME NEW i \in 1 .. n PROVE lens[i] \in Lens
    BY DEF Layout
  <2> QED BY <2>1, Strides DEF MinLen
<1>3. rest + p(k) = p(n + 1) \/ rest + p(k) = p(n) + l(n)
  BY DEF Sizes
<1>4. Stride(lens[k]) = d(k)
  <2>1. lens[k] \in Lens
    BY DEF Layout
  <2> QED BY <2>1, Strides
<1> HIDE DEF n, p, l, d
<1>5. /\ n \in 1 .. n /\ n \in 1 .. n + 1 /\ k \in 1 .. n + 1
      /\ p(n) \in Nat /\ p(k) \in Nat /\ p(n + 1) = p(n) + d(n)
      /\ l(n) \in Nat /\ l(n) >= 44 /\ d(n) \in Nat /\ l(n) < d(n) /\ d(n) <= l(n) + 43
      /\ rest + p(k) >= p(n) + l(n) /\ rest + p(k) <= p(n) + d(n)
  <2>1. n \in 1 .. n /\ n \in 1 .. n + 1 /\ k \in 1 .. n + 1
    BY <1>1
  <2>2. p(n) \in Nat /\ p(k) \in Nat /\ p(n + 1) = p(n) + d(n)
    BY <1>1, <2>1
  <2>3. l(n) \in Nat /\ l(n) >= 44 /\ d(n) \in Nat /\ l(n) < d(n) /\ d(n) <= l(n) + 43
    BY <1>2, <2>1
  <2> QED BY <1>3, <2>1, <2>2, <2>3
<1>6. CASE k = n
  <2>1. l(k) <= rest /\ rest - d(k) >= -43
    BY <1>5, <1>6
  <2> QED BY <1>4, <1>6, <2>1 DEF n, l
<1>7. CASE k < n
  <2>1. p(k) + d(k) <= p(n)
    <3>1. p(k + 1) = p(k) + d(k)
      BY <1>1
    <3>2. p(k + 1) <= p(n)
      <4>1. k + 1 = n \/ k + 1 < n
        BY <1>1, <1>7
      <4>2. k + 1 \in 1 .. n + 1 /\ n \in 1 .. n + 1
        BY <1>1, <1>7
      <4> QED BY <1>1, <4>1, <4>2
    <3> QED BY <3>1, <3>2
  <2>2. n \in 1 .. n
    BY <1>1
  <2>3. p(k) \in Nat /\ p(n) \in Nat /\ d(k) \in Nat /\ l(n) \in Nat /\ l(n) >= 44
        /\ l(k) \in Nat /\ l(k) < d(k)
    BY <1>1, <1>2, <1>5
  <2>4. l(k) <= rest /\ rest - d(k) > 32
    <3>1. rest + p(k) >= p(n) + l(n) /\ p(n) \in Nat /\ l(n) \in Nat
      BY <1>5
    <3>2. rest >= d(k) + l(n)
      BY <2>1, <2>3, <3>1
    <3> QED BY <2>3, <3>2
  <2> QED BY <1>4, <2>3, <2>4 DEF n, l
<1> QED BY <1>1, <1>6, <1>7

LEMMA SizesType == Layout => Sizes \subseteq Nat
<1> SUFFICES ASSUME Layout PROVE Sizes \subseteq Nat
  OBVIOUS
<1> DEFINE n == Len(lens)
<1>1. n \in Nat /\ n >= 1 /\ lens \in Seq(Lens) /\ places \in Seq(Nat) /\ Len(places) = n + 1
  BY DEF Layout
<1>2. places[n] \in Nat /\ places[n + 1] \in Nat
  BY <1>1
<1>3. lens[n] \in Lens
  BY <1>1
<1>4. lens[n] \in Nat
  BY <1>3, Strides
<1> QED BY <1>2, <1>4 DEF Sizes

LEMMA BeginKeeps == ASSUME SplitInv, Begin PROVE SplitInv'
<1>1. Layout'
  BY LayoutStays DEF SplitInv, Begin
<1>2. UNCHANGED <<lens, places, at, copy, kept, freed, handed>> /\ splitPc' = "copy"
  BY DEF Begin, SplitGoto, aggregateVars, copyVars
<1>3. handed = <<>> /\ at = 0
  BY DEF Begin, SplitGoto, SplitInv, Place
<1>4. 1 \in 1 .. Len(lens) /\ at = places[1]
  BY <1>3 DEF SplitInv, Layout
<1>5. wsm_len' = lens[1] /\ lens[1] \in Lens
  <2>1. LengthAt(at) = {lens[1]}
    BY <1>4, OneFrameAt DEF SplitInv
  <2>2. lens[1] \in Lens
    BY <1>4 DEF SplitInv, Layout
  <2> QED BY <2>1, <2>2 DEF Begin
<1>6. RxFrameNum' = Len(lens) /\ data_len' \in Sizes
  BY DEF Begin
<1>7. Sizes \subseteq Int
  BY SizesType DEF SplitInv
<1>8. Sizes' = Sizes
  BY <1>2 DEF Sizes
<1>9. AtFrame(1)'
  BY <1>2, <1>3, <1>4, <1>5, <1>6, <1>7, <1>8 DEF AtFrame, SplitInv, Layout
<1>10. data_len' >= -43
  <2>1. data_len' \in Int /\ data_len' + places[1] \in Sizes
    BY <1>3, <1>4, <1>6, <1>7
  <2>2. lens[1] <= data_len' /\ lens[1] \in Nat
    BY <1>4, <1>5, <2>1, Left, Strides DEF SplitInv
  <2> QED BY <2>1, <2>2
<1>11. SplitTypes'
  BY <1>2, <1>5, <1>6, <1>7, <1>10 DEF SplitInv, SplitTypes, Layout
<1>12. Place'
  <2>1. Len(handed') = 0
    BY <1>2, <1>3
  <2> QED BY <1>2, <1>9, <2>1 DEF Place
<1>13. Copies'
  BY <1>2 DEF Begin, SplitGoto, SplitInv, Copies, Held
<1> QED BY <1>1, <1>11, <1>12, <1>13 DEF SplitInv

LEMMA CopyKeeps == ASSUME SplitInv, Copy PROVE SplitInv'
<1>1. Layout'
  BY LayoutStays DEF SplitInv, Copy
<1>2. UNCHANGED <<lens, places, at, wsm_len, data_len, RxFrameNum, handed, kept, freed>>
  BY DEF Copy, aggregateVars, splitVars
<1> DEFINE k == Len(handed) + 1
<1>3. AtFrame(k) /\ splitPc = "copy"
  BY DEF Copy, SplitGoto, SplitInv, Place
<1>4. data_len >= wsm_len
  <2>1. data_len \in Int /\ wsm_len = lens[k] /\ k \in 1 .. Len(lens)
        /\ data_len + places[k] \in Sizes
    BY <1>3 DEF AtFrame, SplitInv, SplitTypes
  <2>2. lens[k] <= data_len
    BY <2>1, Left DEF SplitInv
  <2>3. lens[k] \in Nat
    BY <2>1, Strides DEF SplitInv, Layout
  <2> QED BY <2>1, <2>2, <2>3
<1>5. splitPc' = "handle" /\ copy' = TRUE
  <2>1. ~(data_len < wsm_len)
    BY <1>4, Strides DEF SplitInv, SplitTypes
  <2>2. copy' = (data_len >= wsm_len)
    BY DEF Copy
  <2>3. splitPc' = "handle"
    BY <2>1 DEF Copy, SplitGoto
  <2> QED BY <1>4, <2>2, <2>3, Zenon
<1>6. SplitTypes'
  BY <1>2, <1>5 DEF SplitInv, SplitTypes
<1>7. Place'
  <2>1. AtFrame(k)'
    BY <1>2, <1>3 DEF AtFrame, Sizes
  <2> QED BY <1>2, <1>5, <2>1 DEF Place
<1>8. Copies'
  BY <1>2, <1>3, <1>5 DEF SplitInv, Copies, Held
<1> QED BY <1>1, <1>6, <1>7, <1>8 DEF SplitInv

LEMMA KeptFinite ==
  ASSUME Copies, SplitTypes
  PROVE  IsFiniteSet(kept) /\ Cardinality(kept) \in Nat /\ Len(handed) \in Nat
<1>1. Len(handed) \in Nat
  BY DEF SplitTypes
<1>2. IsFiniteSet(1 .. Len(handed))
  BY <1>1, FS_Interval
<1>3. IsFiniteSet(kept)
  BY <1>2, FS_Subset DEF Copies
<1> QED BY <1>1, <1>3, FS_CardinalityType

LEMMA HandleKeeps == ASSUME SplitInv, Handle PROVE SplitInv'
<1>1. Layout'
  BY LayoutStays DEF SplitInv, Handle
<1>2. UNCHANGED <<lens, places, at, wsm_len, data_len, RxFrameNum>>
  BY DEF Handle, aggregateVars, splitVars
<1>0. Len(handed) \in Nat
  BY DEF SplitInv, SplitTypes
<1>a. PICK k \in Nat : k = Len(handed) + 1
  BY <1>0
<1>3. splitPc = "handle" /\ AtFrame(k) /\ Len(handed) \in Nat /\ k \in 1 .. Len(lens)
  <2>1. splitPc = "handle"
    BY DEF Handle, SplitGoto
  <2> QED BY <1>0, <1>a, <2>1 DEF SplitInv, Place, AtFrame
<1>4. FrameAt(at) = {k}
  BY <1>3, OneFrameAt DEF SplitInv, AtFrame
<1>5. handed' = Append(handed, k)
  BY <1>4 DEF Handle
<1>6. Len(handed') = k /\ handed' \in Seq(Nat) /\ handed' = [i \in 1 .. k |-> i]
  BY <1>3, <1>a, <1>5 DEF SplitInv, SplitTypes
<1>7. PICK taken \in BOOLEAN, fails \in BOOLEAN :
        /\ kept' = IF taken THEN kept \cup {Len(handed')} ELSE kept
        /\ IF fails
           THEN SplitGoto("handle", "failed") /\ copy' = FALSE /\ freed' = freed + FreedOnError(taken)
           ELSE SplitGoto("handle", "advance") /\ copy' = ~taken /\ UNCHANGED freed
  BY DEF Handle
<1>8. splitPc' \in {"failed", "advance"}
  BY <1>7 DEF SplitGoto
<1>9. copy' \in BOOLEAN /\ (splitPc' = "failed" => copy' = FALSE)
  <2>1. CASE fails
    BY <1>7, <2>1, Zenon
  <2>2. CASE ~fails
    <3>1. splitPc' = "advance"
      BY <1>7, <2>2 DEF SplitGoto
    <3>2. copy' = ~taken
      BY <1>7, <2>2, Zenon
    <3> QED BY <3>1, <3>2, Zenon
  <2> QED BY <2>1, <2>2
<1>10. SplitTypes'
  BY <1>2, <1>3, <1>a, <1>6, <1>8, <1>9 DEF SplitInv, SplitTypes
<1>11. Place'
  <2>1. AtFrame(k)'
    BY <1>2, <1>3 DEF AtFrame, Sizes
  <2> QED BY <1>6, <1>8, <2>1 DEF Place
<1>12. Copies'
  <2>1. /\ kept \subseteq 1 .. Len(handed) /\ freed \in Nat /\ Held = 0
        /\ Cardinality(kept) + freed = Len(handed)
        /\ IsFiniteSet(kept) /\ Cardinality(kept) \in Nat
    BY <1>3, KeptFinite DEF SplitInv, Copies, Held
  <2>2. k \notin kept
    BY <1>3, <1>a, <2>1
  <2>3. Cardinality(kept \cup {k}) = Cardinality(kept) + 1
    BY <2>1, <2>2, FS_AddElement
  <2>4. kept' \subseteq 1 .. Len(handed')
    <3>1. kept' \subseteq kept \cup {k}
      BY <1>6, <1>7
    <3>2. 1 .. Len(handed) \subseteq 1 .. k /\ k \in 1 .. k
      BY <1>3, <1>a
    <3> QED BY <1>6, <2>1, <3>1, <3>2
  <2>5. splitPc' \notin {"handle", "advance"} => ~copy'
    BY <1>8, <1>9, Zenon
  <2>6. freed' \in Nat /\ Cardinality(kept') + freed' + Held' = Len(handed')
    <3>1. CASE taken /\ fails
      <4>1. splitPc' = "failed" /\ freed' = freed + 0 /\ kept' = kept \cup {k}
        BY <1>6, <1>7, <3>1 DEF SplitGoto, FreedOnError
      <4> QED BY <1>3, <1>a, <1>6, <2>1, <2>3, <4>1 DEF Held
    <3>2. CASE taken /\ ~fails
      <4>1. splitPc' = "advance" /\ freed' = freed /\ kept' = kept \cup {k}
        BY <1>6, <1>7, <3>2 DEF SplitGoto
      <4>2. ~copy'
        BY <1>7, <3>2, Zenon
      <4> QED BY <1>3, <1>a, <1>6, <2>1, <2>3, <4>1, <4>2 DEF Held
    <3>3. CASE ~taken /\ fails
      <4>1. splitPc' = "failed" /\ freed' = freed + 1 /\ kept' = kept
        BY <1>6, <1>7, <3>3 DEF SplitGoto, FreedOnError
      <4> QED BY <1>3, <1>a, <1>6, <2>1, <4>1 DEF Held
    <3>4. CASE ~taken /\ ~fails
      <4>1. splitPc' = "advance" /\ freed' = freed /\ kept' = kept
        BY <1>6, <1>7, <3>4 DEF SplitGoto
      <4>2. copy'
        BY <1>7, <3>4, Zenon
      <4> QED BY <1>3, <1>a, <1>6, <2>1, <4>1, <4>2 DEF Held
    <3> QED BY <3>1, <3>2, <3>3, <3>4
  <2> QED BY <2>4, <2>5, <2>6 DEF Copies
<1> QED BY <1>1, <1>10, <1>11, <1>12 DEF SplitInv

LEMMA AdvanceKeeps == ASSUME SplitInv, Advance PROVE SplitInv'
<1>1. Layout'
  BY LayoutStays DEF SplitInv, Advance
<1>2. UNCHANGED <<lens, places, handed, kept>> /\ splitPc = "advance"
  BY DEF Advance, aggregateVars, SplitGoto
<1> DEFINE k == Len(handed)
<1> DEFINE n == Len(lens)
<1>3. /\ k \in 1 .. n /\ n \in Nat /\ n <= MaxInOne /\ at = places[k] /\ wsm_len = lens[k]
      /\ RxFrameNum = n + 1 - k /\ data_len + places[k] \in Sizes /\ data_len \in Int
  BY <1>2 DEF SplitInv, Place, AtFrame, SplitTypes, Layout
<1>4. /\ data_len' = data_len - Stride(wsm_len) /\ RxFrameNum' = RxFrameNum - 1
      /\ at' = at + Stride(wsm_len)
  BY DEF Advance
<1>5. Stride(wsm_len) \in Nat /\ Stride(wsm_len) = DeviceStride(lens[k])
  <2>1. lens[k] \in Lens
    BY <1>3 DEF SplitInv, Layout
  <2> QED BY <1>3, <2>1, Strides
<1>6. at' = places[k + 1] /\ at' \in Nat
  <2>1. places[k + 1] = places[k] + DeviceStride(lens[k])
    BY <1>3 DEF SplitInv, Layout
  <2>2. at' = places[k + 1]
    BY <1>3, <1>4, <1>5, <2>1
  <2>3. k + 1 \in 1 .. Len(places)
    BY <1>3 DEF SplitInv, Layout
  <2>4. places[k + 1] \in Nat
    BY <2>3 DEF SplitInv, Layout
  <2> QED BY <2>2, <2>4
<1>7. data_len' \in Int /\ data_len' >= -43 /\ data_len' + at' = data_len + at
  <2>1. data_len - Stride(lens[k]) >= -43
    BY <1>3, Left DEF SplitInv
  <2>2. at \in Nat
    BY DEF SplitInv, SplitTypes
  <2>3. PICK s \in Nat : s = Stride(wsm_len)
    BY <1>5
  <2>4. data_len' = data_len - s /\ at' = at + s /\ data_len - s >= -43
    BY <1>3, <1>4, <2>1, <2>3
  <2> QED BY <1>3, <2>2, <2>4
<1>8. wsm_len' \in LengthAt(at') /\ wsm_len' \in Lens \cup {0}
  <2>1. wsm_len' \in LengthAt(at')
    <3>1. LengthAt(at') = LET p == at' IN
                          IF {i \in DOMAIN lens : places[i] = p} # {}
                          THEN {lens[i] : i \in {i \in DOMAIN lens : places[i] = p}}
                          ELSE Lens \cup {0}
      BY DEF LengthAt, FrameAt
    <3> QED BY DEF Advance
  <2>2. \A i \in DOMAIN lens : lens[i] \in Lens
    BY DEF SplitInv, Layout
  <2>3. wsm_len' \in (IF FrameAt(at') # {} THEN {lens[i] : i \in FrameAt(at')} ELSE Lens \cup {0})
    BY <2>1 DEF LengthAt
  <2> QED BY <2>1, <2>2, <2>3 DEF FrameAt
<1>9. copy' = FALSE /\ freed' = freed + (IF copy THEN 1 ELSE 0)
  BY DEF Advance
<1>10. Copies'
  <2>1. splitPc' # "advance"
    BY DEF Advance, SplitGoto
  <2>2. Held' = 0 /\ Held = IF copy THEN 1 ELSE 0
    BY <1>2, <2>1 DEF Held
  <2>3. Cardinality(kept) \in Nat /\ freed \in Nat
        /\ Cardinality(kept) + freed + Held = Len(handed)
    BY KeptFinite DEF SplitInv, Copies
  <2>4. freed' = freed + Held /\ Held \in Nat
    BY <1>9, <2>2
  <2>5. ~copy'
    BY <1>9, Zenon
  <2>6. kept' \subseteq 1 .. Len(handed')
    BY <1>2 DEF SplitInv, Copies
  <2>7. freed' \in Nat /\ Cardinality(kept') + freed' + Held' = Len(handed')
    BY <1>2, <2>2, <2>3, <2>4
  <2> QED BY <2>5, <2>6, <2>7 DEF Copies
<1>11. copy' \in BOOLEAN
  BY <1>9, Zenon
<1>12. CASE k = n
  <2>1. RxFrameNum' = 0
    BY <1>3, <1>4, <1>12
  <2>2. splitPc' = "end"
    BY <2>1 DEF Advance, More, SplitGoto
  <2>3. SplitTypes'
    BY <1>2, <1>6, <1>7, <1>8, <1>11, <2>1, <2>2, MultiRxAssumption DEF SplitInv, SplitTypes
  <2>4. Place'
    BY <1>2, <1>12, <2>1, <2>2 DEF Place
  <2> QED BY <1>1, <1>10, <2>3, <2>4 DEF SplitInv
<1>13. CASE k < n
  <2>1. RxFrameNum' = n - k /\ n - k \in 1 .. MaxInOne /\ k + 1 \in 1 .. n
    BY <1>3, <1>4, <1>13, MultiRxAssumption
  <2>2. data_len' > 32
    BY <1>3, <1>4, <1>13, Left DEF SplitInv
  <2>3. splitPc' = "copy"
    <3>1. More(RxFrameNum', data_len')
      BY <1>3, <1>13, <2>1, <2>2 DEF More
    <3> QED BY <3>1 DEF Advance, SplitGoto
  <2>4. wsm_len' = lens[k + 1]
    <3>1. LengthAt(places[k + 1]) = {lens[k + 1]}
      BY <2>1, OneFrameAt DEF SplitInv
    <3> QED BY <1>6, <1>8, <3>1
  <2>5. AtFrame(k + 1)'
    <3>1. RxFrameNum' = n + 1 - (k + 1)
      BY <1>3, <2>1
    <3>2. data_len' + at' \in Sizes
      BY <1>3, <1>7
    <3> QED BY <1>2, <1>6, <2>1, <2>4, <3>1, <3>2 DEF AtFrame, Sizes
  <2>6. SplitTypes'
    <3>1. RxFrameNum' \in 0 .. MaxInOne
      BY <2>1, MultiRxAssumption
    <3> QED BY <1>2, <1>6, <1>7, <1>8, <1>11, <2>3, <3>1 DEF SplitInv, SplitTypes
  <2>7. Place'
    BY <1>2, <2>3, <2>5 DEF Place
  <2> QED BY <1>1, <1>10, <2>6, <2>7 DEF SplitInv
<1> QED BY <1>3, <1>12, <1>13

LEMMA EndKeeps == ASSUME SplitInv, End PROVE SplitInv'
<1>1. Layout'
  BY LayoutStays DEF SplitInv, End
<1>2. UNCHANGED <<lens, at, wsm_len, data_len, RxFrameNum, copy, kept, freed, handed>>
  BY DEF End, aggregateVars, splitVars, copyVars
<1>3. splitPc = "end" /\ splitPc' = "done"
  BY DEF End, SplitGoto, SplitInv, Place
<1> QED BY <1>1, <1>2, <1>3 DEF SplitInv, SplitTypes, Place, Copies, Held

LEMMA SplitStep == SplitInv /\ [SplitNext]_multiVars => SplitInv'
<1> SUFFICES ASSUME SplitInv, [SplitNext]_multiVars PROVE SplitInv'
  OBVIOUS
<1>1. CASE UNCHANGED multiVars
  <2>1. Layout' /\ UNCHANGED <<lens, places, splitPc, at, wsm_len, data_len, RxFrameNum, copy, kept,
                               freed, handed>>
    BY <1>1, LayoutStays DEF SplitInv, multiVars, aggregateVars, splitVars, copyVars
  <2> QED BY <2>1 DEF SplitInv, SplitTypes, Place, AtFrame, Sizes, Copies, Held
<1> QED BY <1>1, PutKeeps, BeginKeeps, CopyKeeps, HandleKeeps, AdvanceKeeps, EndKeeps DEF SplitNext

LEMMA SplitMeans == SplitInv => SplitTypeOK /\ Whole /\ NoBug /\ Owned
<1> SUFFICES ASSUME SplitInv PROVE SplitTypeOK /\ Whole /\ NoBug /\ Owned
  OBVIOUS
<1>1. Len(handed) \in Nat /\ Len(handed) <= Len(lens) /\ Len(lens) \in 1 .. MaxInOne
      /\ Cardinality(kept) \in Nat
  BY KeptFinite DEF SplitInv, SplitTypes, Layout
<1>2. kept \subseteq 1 .. Len(handed) /\ freed \in Nat /\ Held \in Nat
      /\ Cardinality(kept) + freed + Held = Len(handed)
  BY DEF SplitInv, Copies, Held
<1>3. handed \in Seq(0 .. MaxInOne)
  <2>1. handed = [i \in 1 .. Len(handed) |-> i]
    BY DEF SplitInv, SplitTypes
  <2>2. \A i \in 1 .. Len(handed) : i \in 0 .. MaxInOne
    BY <1>1, MultiRxAssumption
  <2> DEFINE m == Len(handed)
  <2> HIDE DEF m
  <2>3. [i \in 1 .. m |-> i] \in [1 .. m -> 0 .. MaxInOne]
    BY <2>2 DEF m
  <2>4. [1 .. m -> 0 .. MaxInOne] \subseteq Seq(0 .. MaxInOne)
    BY <1>1, SeqDef DEF m
  <2>5. handed = [i \in 1 .. m |-> i]
    BY <2>1 DEF m
  <2> QED BY <2>3, <2>4, <2>5
<1>4. SplitTypeOK
  <2>1. kept \subseteq 1 .. MaxInOne /\ freed \in 0 .. MaxInOne
    BY <1>1, <1>2, MultiRxAssumption
  <2> QED BY <1>3, <2>1 DEF SplitInv, SplitTypes, SplitTypeOK
<1>5. Whole
  BY DEF SplitInv, SplitTypes, Place, Whole
<1>6. NoBug
  BY DEF SplitInv, SplitTypes, NoBug
<1>7. Owned
  BY <1>1, <1>2 DEF SplitInv, Copies, Held, Owned
<1> QED BY <1>4, <1>5, <1>6, <1>7

\* However many frames of whatever lengths the firmware puts together: each is
\* handed over in its turn, nothing of the aggregate is left, and a copy is
\* wsm_handle_rx's or freed.
THEOREM SplitIsWhole == SplitSpec => [](SplitTypeOK /\ Whole /\ NoBug /\ Owned)
<1>1. SplitSpec => []SplitInv
  BY SplitFirst, SplitStep, PTL DEF SplitSpec
<1> QED BY <1>1, SplitMeans, PTL

-----------------------------------------------------------------------------
(* What becomes of one frame.                                              *)

HandlerPcs == {"idle", "lookup", "check", "decrypt", "strip", "process", "mic", "allowed",
               "deliver", "amsdu", "action"}

FrameFlags == {ap, settled, sta, assoc, enc, apEnc, rxSta, crypto, queued, enabled} \subseteq BOOLEAN

FrameTypes ==
  /\ {staKey, groupKey, cipher} \subseteq {"none", "wep", "tkip", "aes"}
  /\ hpc \in HandlerPcs
  /\ wpc \in {"idle", "frames", "flags", "enc", "apenc", "key", "group", "remove", "sync"}
  /\ spc \in {"up", "flush", "sync", "wait", "purge", "down"}
  /\ frame \in Frames \union {NoFrame} /\ queue \in Seq(AllKinds)
  /\ rxKey \in {"NULL", "sta", "group"} /\ arrivals \in Nat

\* How often the frame was given away.
EndsInv ==
  /\ hpc # "idle" => ends = 0
  /\ hpc = "idle" => ends = 1 \/ (ends = 2 /\ Is({"amsdu"}))

\* What ieee80211_rx_h_check has let pass.
Checked == {"decrypt", "strip", "process", "mic", "allowed", "deliver", "amsdu", "action"}
KindInv ==
  /\ hpc \in {"allowed", "deliver"} => Is({"data"})
  /\ hpc = "amsdu" => Is({"amsdu"})
  /\ hpc \in Checked /\ Is(DataKinds) => rxSta

\* The key is chosen for a protected frame of a station, and while its header is
\* in the frame there was no reason to choose none.
Decrypted == {"process", "mic", "allowed", "deliver", "amsdu", "action"}
KeyInv ==
  /\ rxKey # "NULL" => rxSta /\ frame.prot
  /\ crypto => frame.prot /\ ~IvStripped
  /\ settled /\ hpc # "idle" => wpc \in {"idle", "frames"}
  /\ settled /\ hpc \in Decrypted /\ rxSta /\ enc => ~crypto
  /\ settled /\ hpc \in Decrypted /\ rxSta /\ enc /\ frame.prot /\ ~IvStripped => rxKey # "NULL"
  /\ hpc = "lookup" => rxKey = "NULL"
  /\ hpc = "strip" => rxKey # "NULL"
  /\ hpc = "deliver" /\ settled /\ enc => frame.prot

FrameInv == FrameFlags /\ FrameTypes /\ EndsInv /\ KindInv /\ KeyInv

LEMMA FrameFirst == FrameInit => FrameInv
<1> SUFFICES ASSUME FrameInit PROVE FrameInv
  OBVIOUS
<1>1. FrameFlags
  <2>1. PICK s \in Settings : ap = s[1] /\ settled = s[2] /\ stops = s[3]
    BY DEF FrameInit
  <2>2. s[1] \in BOOLEAN /\ s[2] \in BOOLEAN
    BY RxFramesAssumption
  <2>3. ap \in BOOLEAN /\ settled \in BOOLEAN
    BY <2>1, <2>2, Zenon
  <2> QED BY <2>3, Zenon DEF FrameInit, FrameFlags
<1>2. FrameTypes
  BY RxFramesAssumption DEF FrameInit, FrameTypes, HandlerPcs
<1>3. EndsInv /\ KindInv
  BY DEF FrameInit, EndsInv, KindInv, Checked
<1>4. KeyInv
  <2>1. ~crypto /\ hpc = "idle" /\ rxKey = "NULL"
    BY Zenon DEF FrameInit
  <2> QED BY <2>1 DEF KeyInv, Decrypted
<1> QED BY <1>1, <1>2, <1>3, <1>4 DEF FrameInv

-----------------------------------------------------------------------------
(* The receive thread.                                                     *)

LEMMA ArrivesKeeps == ASSUME FrameInv, NEW f \in Frames, FrameArrives(f) PROVE FrameInv'
<1>1. UNCHANGED <<connVars, workVars, wpc, stopVars>>
  BY DEF FrameArrives
<1>3. crypto' = (f.prot /\ f.status # "mic") /\ rxSta' = FALSE
  BY Zenon DEF FrameArrives
<1>4. FrameFlags'
  <2>1. crypto' \in BOOLEAN /\ rxSta' \in BOOLEAN
    BY <1>3, Zenon
  <2> QED BY <1>1, <2>1, Zenon
           DEF FrameInv, FrameFlags, connVars, settingVars, workVars, stopVars
<1>5. /\ frame' = f /\ rxKey' = "NULL" /\ arrivals' \in Nat
      /\ (hpc' = "idle" /\ ends' = 1) \/ (hpc' = "lookup" /\ ends' = 0)
      /\ settled => wpc \in {"idle", "frames"}
  BY DEF FrameArrives, FrameInv, FrameTypes
<1>6. FrameTypes'
  <2>1. UNCHANGED <<ap, staKey, groupKey, cipher, wpc, spc, queue>>
    BY <1>1 DEF connVars, settingVars, workVars, stopVars
  <2>2. Frames' = Frames
    BY <2>1 DEF Frames
  <2> QED BY <1>5, <2>1, <2>2 DEF FrameInv, FrameTypes, HandlerPcs
<1>7. EndsInv' /\ KindInv'
  BY <1>5 DEF EndsInv, KindInv, Checked
<1>8. settled' = settled /\ wpc' = wpc
  BY <1>1, Zenon DEF connVars, settingVars
<1>9. crypto' => frame'.prot /\ ~IvStripped'
  <2>1. crypto' => f.prot /\ f.status # "mic"
    BY <1>3, Zenon
  <2> QED BY <1>5, <2>1 DEF IvStripped
<1>10. KeyInv'
  BY <1>5, <1>8, <1>9 DEF KeyInv, Decrypted
<1> QED BY <1>4, <1>6, <1>7, <1>10 DEF FrameInv

\* What every step of the handlers leaves alone.
RxSame ==
  UNCHANGED <<settled, sta, assoc, enc, staKey, apEnc, groupKey, cipher, wpc, enabled, spc,
              frame, arrivals, ap>>

LEMMA RxLeaves ==
  ASSUME FrameInv, RxStep
  PROVE  RxSame /\ (UNCHANGED workVars \/ EnqueueOf)
<1>1. CASE Enqueue
  BY <1>1 DEF Enqueue, RxSame, connVars, settingVars, stopVars
<1>2. CASE Lookup \/ FrameCheck \/ Decrypt \/ Strip \/ Process \/ MicVerify
  BY <1>2 DEF Lookup, FrameCheck, Decrypt, Strip, Process, MicVerify, Freed, GoesOn,
              RxRest, RxSame, connVars, settingVars, stopVars
<1>3. CASE Allowed \/ Deliver \/ AmsduDrops \/ AmsduBroken \/ Amsdu \/ ActionDone
  BY <1>3 DEF Allowed, Deliver, DeliverOf, AmsduDrops, AmsduBroken, Amsdu, ActionDone, HandUp,
              Freed, GoesOn, RxRest, RxSame, connVars, settingVars, stopVars
<1> QED BY <1>1, <1>2, <1>3 DEF RxStep

\* A frame that is given away, and one that goes on to the next handler.
LEMMA GivenAway ==
  ASSUME FrameInv, RxStep, hpc # "idle", hpc' = "idle", ends' = ends + 1,
         UNCHANGED <<rxSta, rxKey, crypto>>
  PROVE  EndsInv' /\ KindInv' /\ KeyInv'
<1>1. RxSame
  BY RxLeaves
<1>2. EndsInv' /\ KindInv'
  BY DEF FrameInv, EndsInv, KindInv, Checked
<1>3. rxKey' # "NULL" => rxSta' /\ frame'.prot
  <2>1. rxSta' = rxSta /\ rxKey' = rxKey /\ frame' = frame
    BY <1>1, Zenon DEF RxSame
  <2>2. rxKey # "NULL" => rxSta /\ frame.prot
    BY Zenon DEF FrameInv, KeyInv
  <2> QED BY <2>1, <2>2
<1>4. crypto' => frame'.prot /\ ~IvStripped'
  <2>1. crypto' = crypto /\ frame' = frame
    BY <1>1, Zenon DEF RxSame
  <2>2. crypto => frame.prot /\ frame.status # "mic"
    BY Zenon DEF FrameInv, KeyInv, IvStripped
  <2> QED BY <2>1, <2>2 DEF IvStripped
<1>5. KeyInv'
  BY <1>3, <1>4 DEF KeyInv, Decrypted
<1> QED BY <1>2, <1>5

LEMMA Goes ==
  ASSUME FrameInv, RxStep, NEW from, NEW to, hpc = from, from \in HandlerPcs \ {"idle"},
         to \in HandlerPcs \ {"idle"}, GoesOn(to),
         to \in {"allowed", "deliver"} => Is({"data"}),
         to = "amsdu" => Is({"amsdu"}),
         to \in Checked /\ Is(DataKinds) => rxSta,
         to \notin {"lookup", "strip"},
         from \in Decrypted \/ (to \notin Decrypted \/ NoKey),
         to = "deliver" /\ settled /\ enc => frame.prot
  PROVE  EndsInv' /\ KindInv' /\ KeyInv'
<1>1. RxSame
  BY RxLeaves
<1>2. UNCHANGED <<rxSta, rxKey, crypto, ends>> /\ hpc' = to
  BY DEF GoesOn
<1>3. UNCHANGED <<settled, enc, wpc, frame>>
  BY <1>1 DEF RxSame
<1>4. EndsInv' /\ KindInv'
  BY <1>2, <1>3 DEF FrameInv, EndsInv, KindInv, Is
<1>5. from \in Decrypted => KeyInv'
  BY <1>2, <1>3 DEF FrameInv, KeyInv, Decrypted, IvStripped
<1>6. to \notin Decrypted => KeyInv'
  BY <1>2, <1>3 DEF FrameInv, KeyInv, Decrypted, IvStripped
<1>7. NoKey /\ to \in Decrypted => KeyInv'
  BY <1>2, <1>3 DEF FrameInv, KeyInv, Decrypted, IvStripped, NoKey
<1> QED BY <1>4, <1>5, <1>6, <1>7

LEMMA RxFlagsKeep == ASSUME FrameInv, RxStep PROVE FrameFlags'
<1>1. RxSame
  BY RxLeaves
<1>2. UNCHANGED <<settled, sta, assoc, enc, apEnc, enabled, ap>>
  BY <1>1, Zenon DEF RxSame
<1>3. queued' = queued \/ queued' = TRUE
  BY RxLeaves, Zenon DEF workVars, EnqueueOf
<1>4. queued' \in BOOLEAN
  BY <1>3, Zenon DEF FrameInv, FrameFlags
<1>5. rxSta' = rxSta \/ rxSta' = sta
  BY Zenon DEF RxStep, Lookup, FrameCheck, Decrypt, Strip, Process, MicVerify, Allowed, Deliver,
         DeliverOf, AmsduDrops, AmsduBroken, Amsdu, ActionDone, Enqueue, HandUp, Freed, GoesOn
<1>6. crypto' = crypto \/ crypto' = FALSE
  BY Zenon DEF RxStep, Lookup, FrameCheck, Decrypt, Strip, Process, MicVerify, Allowed, Deliver,
         DeliverOf, AmsduDrops, AmsduBroken, Amsdu, ActionDone, Enqueue, HandUp, Freed, GoesOn
<1>7. rxSta' \in BOOLEAN /\ crypto' \in BOOLEAN
  BY <1>5, <1>6, Zenon DEF FrameInv, FrameFlags
<1> QED BY <1>2, <1>4, <1>7, Zenon DEF FrameInv, FrameFlags

LEMMA RxTypesKeep == ASSUME FrameInv, RxStep PROVE FrameTypes'
<1>1. RxSame
  BY RxLeaves
<1>2. Frames' = Frames
  BY <1>1 DEF RxSame, Frames
<1>3. frame.kind \in AllKinds
  BY RxFramesAssumption DEF FrameInv, FrameTypes, Frames, NoFrame, AllKinds
<1>4. queue' \in Seq(AllKinds)
  <2>1. queue' = queue \/ queue' = Append(queue, frame.kind)
    BY RxLeaves DEF workVars, EnqueueOf
  <2>2. queue \in Seq(AllKinds)
    BY DEF FrameInv, FrameTypes
  <2> QED BY <1>3, <2>1, <2>2
<1>5. rxKey' \in {"NULL", "sta", "group"}
  BY DEF FrameInv, FrameTypes, RxStep, Lookup, FrameCheck, Decrypt, Strip, Process, MicVerify,
         Allowed, Deliver, DeliverOf, AmsduDrops, AmsduBroken, Amsdu, ActionDone, Enqueue, HandUp,
         Freed, GoesOn
<1>6. hpc' \in HandlerPcs
  BY DEF HandlerPcs, RxStep, Rx, Lookup, FrameCheck, Decrypt, Strip, Process, MicVerify,
         Allowed, Deliver, DeliverOf, AmsduDrops, AmsduBroken, Amsdu, ActionDone, Enqueue, HandUp,
         Freed, GoesOn
<1> QED BY <1>1, <1>2, <1>4, <1>5, <1>6 DEF RxSame, FrameInv, FrameTypes

LEMMA LookupKeeps == ASSUME FrameInv, RxStep, Lookup PROVE EndsInv' /\ KindInv' /\ KeyInv'
<1>1. RxSame
  BY RxLeaves
<1>2. hpc = "lookup" /\ hpc' = "check" /\ UNCHANGED <<rxKey, crypto, ends>>
  BY DEF Lookup, Rx
<1>3. UNCHANGED <<settled, enc, wpc, frame>>
  BY <1>1 DEF RxSame
<1>4. EndsInv' /\ KindInv'
  BY <1>2 DEF FrameInv, EndsInv, KindInv, Checked
<1>5. rxKey = "NULL"
  BY <1>2 DEF FrameInv, KeyInv
<1>6. KeyInv'
  BY <1>2, <1>3, <1>5 DEF FrameInv, KeyInv, Decrypted, IvStripped
<1> QED BY <1>4, <1>6

LEMMA CheckKeeps == ASSUME FrameInv, RxStep, FrameCheck PROVE EndsInv' /\ KindInv' /\ KeyInv'
<1>1. hpc = "check"
  BY DEF FrameCheck
<1>2. CASE Is(DataKinds) /\ (~rxSta \/ ~assoc)
  BY <1>1, <1>2, GivenAway DEF FrameCheck, Freed
<1>3. CASE ~(Is(DataKinds) /\ (~rxSta \/ ~assoc))
  <2>1. GoesOn("decrypt") /\ (Is(DataKinds) => rxSta)
    BY <1>3, Zenon DEF FrameCheck
  <2> QED BY <1>1, <2>1, Goes DEF HandlerPcs, Decrypted
<1> QED BY <1>2, <1>3

LEMMA DecryptKeeps == ASSUME FrameInv, RxStep, Decrypt PROVE EndsInv' /\ KindInv' /\ KeyInv'
<1>1. hpc = "decrypt" /\ (Is(DataKinds) => rxSta)
  BY DEF Decrypt, FrameInv, KindInv, Checked
<1>2. CASE NoKey
  <2>1. GoesOn("process")
    BY <1>2, Zenon DEF Decrypt
  <2> QED BY <1>1, <1>2, <2>1, Goes DEF HandlerPcs
<1>3. CASE ~NoKey
  <2>1. RxSame
    BY RxLeaves
  <2>2. /\ hpc' = "strip" /\ rxKey' = IF frame.mcast THEN "group" ELSE "sta"
        /\ UNCHANGED <<rxSta, crypto, ends>>
    BY <1>3 DEF Decrypt
  <2>3. UNCHANGED <<settled, enc, wpc, frame>>
    BY <2>1 DEF RxSame
  <2>4. rxSta /\ frame.prot
    BY <1>3, Zenon DEF NoKey
  <2>5. EndsInv' /\ KindInv'
    BY <1>1, <2>2, <2>3 DEF FrameInv, EndsInv, KindInv, Is
  <2>6. KeyInv'
    BY <1>1, <2>2, <2>3, <2>4 DEF FrameInv, KeyInv, Decrypted, IvStripped
  <2> QED BY <2>5, <2>6
<1> QED BY <1>2, <1>3

LEMMA StripKeeps == ASSUME FrameInv, RxStep, Strip PROVE EndsInv' /\ KindInv' /\ KeyInv'
<1>1. hpc = "strip" /\ rxKey # "NULL"
  BY DEF Strip, FrameInv, KeyInv
<1>2. CASE Freed
  BY <1>1, <1>2, GivenAway DEF Freed
<1>3. CASE hpc' = "process" /\ crypto' = FALSE /\ UNCHANGED <<rxSta, rxKey, ends>>
  <2>1. RxSame
    BY RxLeaves
  <2>2. UNCHANGED <<settled, enc, wpc, frame>>
    BY <2>1 DEF RxSame
  <2>3. EndsInv'
    BY <1>1, <1>3 DEF FrameInv, EndsInv
  <2>4. KindInv'
    BY <1>1, <1>3, <2>2 DEF FrameInv, KindInv, Checked, Is
  <2>5. ~crypto'
    BY <1>3, Zenon
  <2>6. KeyInv'
    BY <1>1, <1>3, <2>2, <2>5 DEF FrameInv, KeyInv, Decrypted, IvStripped
  <2> QED BY <2>3, <2>4, <2>6
<1> QED BY <1>2, <1>3 DEF Strip

LEMMA ProcessKeeps ==
  ASSUME FrameInv, RxStep, Process \/ MicVerify PROVE EndsInv' /\ KindInv' /\ KeyInv'
<1>1. hpc \in {"process", "mic"} /\ (Is(DataKinds) => rxSta)
  BY DEF Process, MicVerify, FrameInv, KindInv, Checked
<1>2. CASE Freed
  BY <1>1, <1>2, GivenAway DEF Freed
<1>3. CASE Process /\ GoesOn("mic")
  BY <1>1, <1>3, Goes DEF HandlerPcs, Decrypted
<1>4. CASE MicVerify /\ ~Freed
  <2> DEFINE to == CASE Is({"amsdu"}) -> "amsdu" [] Is({"data"}) -> "allowed" [] OTHER -> "action"
  <2>1. GoesOn(to)
    BY <1>4, Zenon DEF MicVerify
  <2>2. /\ to \in {"amsdu", "allowed", "action"}
        /\ to = "amsdu" => Is({"amsdu"})
        /\ to = "allowed" => Is({"data"})
    BY DEF Is
  <2> HIDE DEF to
  <2> QED BY <1>1, <2>1, <2>2, Goes DEF HandlerPcs, Decrypted
<1> QED BY <1>2, <1>3, <1>4 DEF Process

LEMMA AllowedKeeps == ASSUME FrameInv, RxStep, Allowed PROVE EndsInv' /\ KindInv' /\ KeyInv'
<1>1. hpc = "allowed" /\ Is({"data"})
  BY DEF Allowed, FrameInv, KindInv
<1>2. CASE Freed
  BY <1>1, <1>2, GivenAway DEF Freed
<1>3. CASE rxSta /\ ~Unencrypted /\ GoesOn("deliver")
  <2>1. enc => frame.prot
    BY <1>3, Zenon DEF Unencrypted
  <2> QED BY <1>1, <1>3, <2>1, Goes DEF HandlerPcs, Decrypted
<1> QED BY <1>2, <1>3 DEF Allowed

LEMMA DeliverKeeps == ASSUME FrameInv, RxStep, Deliver PROVE EndsInv' /\ KindInv' /\ KeyInv'
<1>1. hpc = "deliver" /\ (Freed \/ HandUp(1))
  BY DEF Deliver, DeliverOf
<1> QED BY <1>1, GivenAway DEF Freed, HandUp

LEMMA AmsduKeeps ==
  ASSUME FrameInv, RxStep, AmsduDrops \/ AmsduBroken \/ Amsdu
  PROVE  EndsInv' /\ KindInv' /\ KeyInv'
<1>1. hpc = "amsdu" /\ Is({"amsdu"})
  BY DEF AmsduDrops, AmsduBroken, Amsdu, FrameInv, KindInv
<1>2. CASE Freed
  BY <1>1, <1>2, GivenAway DEF Freed
<1>3. CASE HandUp(2)
  <2>1. RxSame
    BY RxLeaves
  <2>2. UNCHANGED <<settled, enc, wpc, frame>>
    BY <2>1 DEF RxSame
  <2>3. hpc' = "idle" /\ ends' = ends + 2 /\ UNCHANGED <<rxSta, rxKey, crypto>>
    BY <1>3 DEF HandUp
  <2>4. EndsInv' /\ KindInv'
    BY <1>1, <2>2, <2>3 DEF FrameInv, EndsInv, KindInv, Is, Checked
  <2>5. KeyInv'
    BY <2>2, <2>3 DEF FrameInv, KeyInv, Decrypted, IvStripped
  <2> QED BY <2>4, <2>5
<1> QED BY <1>2, <1>3 DEF AmsduDrops, AmsduBroken, Amsdu

LEMMA ActionKeeps ==
  ASSUME FrameInv, RxStep, Enqueue \/ ActionDone PROVE EndsInv' /\ KindInv' /\ KeyInv'
<1>1. /\ hpc = "action" /\ hpc' = "idle" /\ ends' = ends + 1
      /\ UNCHANGED <<rxSta, rxKey, crypto>>
  BY DEF Enqueue, ActionDone, Freed
<1> QED BY <1>1, GivenAway

LEMMA RxKeeps == ASSUME FrameInv, RxStep PROVE FrameInv'
<1>1. EndsInv' /\ KindInv' /\ KeyInv'
  BY LookupKeeps, CheckKeeps, DecryptKeeps, StripKeeps, ProcessKeeps, AllowedKeeps, DeliverKeeps,
     AmsduKeeps, ActionKeeps DEF RxStep
<1> QED BY <1>1, RxFlagsKeep, RxTypesKeep DEF FrameInv

-----------------------------------------------------------------------------
(* The work, the events and ndo_stop.                                      *)

\* They leave the frame of the receive thread alone, and what they change of the
\* connection they change, when it is settled, while there is none.
LEMMA OthersKeep ==
  ASSUME FrameInv, FrameFlags', FrameTypes', UNCHANGED rxVars, settled' = settled,
         settled /\ hpc # "idle" => enc' = enc /\ wpc' \in {"idle", "frames"}
  PROVE  FrameInv'
<1>1. UNCHANGED <<hpc, frame, rxSta, rxKey, crypto, ends>>
  BY DEF rxVars
<1>2. EndsInv'
  BY <1>1 DEF FrameInv, EndsInv, Is
<1>3. KindInv'
  BY <1>1 DEF FrameInv, KindInv, Is
<1>4. KeyInv'
  <2>1. CASE hpc = "idle"
    BY <1>1, <2>1 DEF FrameInv, KeyInv, Decrypted, IvStripped
  <2>2. CASE hpc # "idle" /\ settled
    BY <1>1, <2>2 DEF FrameInv, KeyInv, IvStripped
  <2>3. CASE ~settled
    BY <1>1, <2>3 DEF FrameInv, KeyInv, IvStripped
  <2> QED BY <2>1, <2>2, <2>3
<1> QED BY <1>2, <1>3, <1>4 DEF FrameInv

LEMMA FrameWorkKeeps == ASSUME FrameInv, FrameWork PROVE FrameInv'
<1>1. UNCHANGED <<rxVars, ap, settled, sta, enc, staKey, apEnc, groupKey, cipher, enabled, spc>>
  BY DEF FrameWork, BeginWork, HandleFrame, EndFrames, WorkRest, connVars, settingVars, stopVars
<1>2. wpc' \in {"idle", "frames"}
  BY DEF FrameWork, BeginWork, HandleFrame, EndFrames, Work
<1>3. FrameFlags'
  <2>1. UNCHANGED <<rxSta, crypto>>
    BY <1>1, Zenon DEF rxVars
  <2>2. queued' = queued \/ queued' = FALSE
    BY Zenon DEF FrameWork, BeginWork, HandleFrame, EndFrames, workVars
  <2>3. assoc' = assoc \/ assoc' = (assoc \/ (~ap /\ Head(queue) = "assoc_resp" /\ sta))
    BY Zenon DEF FrameWork, BeginWork, HandleFrame, EndFrames, connVars
  <2>4. queued' \in BOOLEAN /\ assoc' \in BOOLEAN
    BY <2>2, <2>3, Zenon DEF FrameInv, FrameFlags
  <2> QED BY <1>1, <2>1, <2>4, Zenon DEF FrameInv, FrameFlags
<1>4. FrameTypes'
  <2>1. Frames' = Frames
    BY <1>1 DEF Frames
  <2>2. queue' \in Seq(AllKinds)
    BY DEF FrameInv, FrameTypes, FrameWork, BeginWork, HandleFrame, EndFrames, workVars
  <2> QED BY <1>1, <1>2, <2>1, <2>2 DEF FrameInv, FrameTypes, rxVars
<1> QED BY <1>1, <1>2, <1>3, <1>4, OthersKeep

LEMMA EventsKeep == ASSUME FrameInv, Events PROVE FrameInv'
<1>1. UNCHANGED <<rxVars, ap, settled, stops, queue, queued, enabled, spc>>
  BY DEF Events, Insert, ClearFlags, SetFlags, SetEnc, SetApEnc, SetKey, SetGroup, Remove, Sync,
         WorkRest, connVars, settingVars, workVars, stopVars
<1>2. FrameFlags'
  <2>1. UNCHANGED <<rxSta, crypto>>
    BY <1>1, Zenon DEF rxVars
  <2>2. sta' = sta \/ sta' = TRUE \/ sta' = FALSE
    BY Zenon DEF Events, Insert, ClearFlags, SetFlags, SetEnc, SetApEnc, SetKey, SetGroup, Remove,
                 Sync, connVars
  <2>3. assoc' = assoc \/ assoc' = TRUE \/ assoc' = FALSE
    BY Zenon DEF Events, Insert, ClearFlags, SetFlags, SetEnc, SetApEnc, SetKey, SetGroup, Remove,
                 Sync, connVars
  <2>4. enc' = enc \/ enc' = FALSE \/ enc' = (cipher # "none")
    BY Zenon DEF Events, Insert, ClearFlags, SetFlags, SetEnc, SetApEnc, SetKey, SetGroup, Remove,
                 Sync, connVars
  <2>5. apEnc' = apEnc \/ apEnc' = enc
    BY Zenon DEF Events, Insert, ClearFlags, SetFlags, SetEnc, SetApEnc, SetKey, SetGroup, Remove,
                 Sync, connVars
  <2>6. sta' \in BOOLEAN /\ assoc' \in BOOLEAN /\ enc' \in BOOLEAN /\ apEnc' \in BOOLEAN
    BY <2>2, <2>3, <2>4, <2>5, Zenon DEF FrameInv, FrameFlags
  <2> QED BY <1>1, <2>1, <2>6, Zenon DEF FrameInv, FrameFlags
<1>3. FrameTypes'
  <2>1. Frames' = Frames
    BY <1>1 DEF Frames
  <2>2. {staKey', groupKey', cipher'} \subseteq {"none", "wep", "tkip", "aes"}
    BY RxFramesAssumption
       DEF Events, Insert, ClearFlags, SetFlags, SetEnc, SetApEnc, SetKey, SetGroup, Remove,
           Sync, connVars, GroupType, FrameInv, FrameTypes
  <2>3. wpc' \in {"idle", "frames", "flags", "enc", "apenc", "key", "group", "remove", "sync"}
    BY DEF Events, Insert, ClearFlags, SetFlags, SetEnc, SetApEnc, SetKey, SetGroup, Remove,
           Sync, Work
  <2> QED BY <1>1, <2>1, <2>2, <2>3 DEF FrameInv, FrameTypes, rxVars
<1>4. settled /\ hpc # "idle" => FALSE
  <2> SUFFICES ASSUME settled, hpc # "idle" PROVE FALSE
    OBVIOUS
  <2>1. wpc \in {"idle", "frames"}
    BY DEF FrameInv, KeyInv
  <2> QED BY <2>1 DEF Events, Insert, ClearFlags, SetFlags, SetEnc, SetApEnc, SetKey, SetGroup,
                      Remove, Sync, Work
<1> QED BY <1>1, <1>2, <1>3, <1>4, OthersKeep

LEMMA StopStepKeeps == ASSUME FrameInv, StopStep PROVE FrameInv'
<1>1. UNCHANGED <<rxVars, ap, settled, stops, assoc, enc, staKey, apEnc, groupKey, cipher, queued,
                  wpc>>
  BY DEF StopStep, BeginStop, FlushStations, SyncFlush, WaitFrames, Purge, Open, connVars,
         settingVars, workVars
<1>2. FrameFlags'
  <2>1. UNCHANGED <<rxSta, crypto>>
    BY <1>1, Zenon DEF rxVars
  <2>2. sta' = sta \/ sta' = FALSE
    BY Zenon DEF StopStep, BeginStop, FlushStations, SyncFlush, WaitFrames, Purge, Open, connVars
  <2>3. enabled' = enabled \/ enabled' = TRUE \/ enabled' = FALSE
    BY Zenon DEF StopStep, BeginStop, FlushStations, SyncFlush, WaitFrames, Purge, Open
  <2>4. sta' \in BOOLEAN /\ enabled' \in BOOLEAN
    BY <2>2, <2>3, Zenon DEF FrameInv, FrameFlags
  <2> QED BY <1>1, <2>1, <2>4, Zenon DEF FrameInv, FrameFlags
<1>3. FrameTypes'
  <2>1. Frames' = Frames
    BY <1>1 DEF Frames
  <2>2. spc' \in {"up", "flush", "sync", "wait", "purge", "down"}
    BY DEF StopStep, BeginStop, FlushStations, SyncFlush, WaitFrames, Purge, Open, Stop
  <2>3. queue' = queue \/ queue' = <<>>
    BY DEF StopStep, BeginStop, FlushStations, SyncFlush, WaitFrames, Purge, Open, workVars
  <2>4. queue' \in Seq(AllKinds)
    <3>1. queue \in Seq(AllKinds) /\ <<>> \in Seq(AllKinds)
      BY DEF FrameInv, FrameTypes
    <3> QED BY <2>3, <3>1
  <2> QED BY <1>1, <2>1, <2>2, <2>4 DEF FrameInv, FrameTypes, rxVars
<1>4. settled /\ hpc # "idle" => wpc' \in {"idle", "frames"}
  BY <1>1 DEF FrameInv, KeyInv
<1> QED BY <1>1, <1>2, <1>3, <1>4, OthersKeep

LEMMA FrameStays == ASSUME FrameInv, UNCHANGED rxfVars PROVE FrameInv'
<1>1. /\ UNCHANGED <<rxVars, ap, settled, sta, assoc, enc, staKey, apEnc, groupKey, cipher>>
      /\ UNCHANGED <<wpc, enabled, spc, queue, queued>>
  BY DEF rxfVars, connVars, settingVars, workVars, stopVars
<1>2. FrameFlags'
  <2>1. UNCHANGED <<rxSta, crypto>>
    BY <1>1, Zenon DEF rxVars
  <2> QED BY <1>1, <2>1, Zenon DEF FrameInv, FrameFlags
<1>3. Frames' = Frames
  BY <1>1 DEF Frames
<1>4. FrameTypes'
  BY <1>1, <1>3 DEF FrameInv, FrameTypes, rxVars
<1>5. settled /\ hpc # "idle" => wpc' \in {"idle", "frames"}
  BY <1>1 DEF FrameInv, KeyInv
<1> QED BY <1>1, <1>2, <1>4, <1>5, OthersKeep

LEMMA FrameStep == FrameInv /\ [FrameNext]_rxfVars => FrameInv'
BY ArrivesKeeps, RxKeeps, FrameWorkKeeps, EventsKeep, StopStepKeeps, FrameStays DEF FrameNext

LEMMA FrameMeans == FrameInv => FrameTypeOK /\ Once /\ KeyKnown
<1> SUFFICES ASSUME FrameInv PROVE FrameTypeOK /\ Once /\ KeyKnown
  OBVIOUS
<1>1. FrameTypeOK
  <2>1. {sta, assoc, enc, apEnc, rxSta, crypto, queued, enabled} \subseteq BOOLEAN
    BY Zenon DEF FrameInv, FrameFlags
  <2>2. rxKey # "NULL" => rxSta /\ frame.prot
    BY DEF FrameInv, KeyInv
  <2>3. ends \in Nat
    BY DEF FrameInv, EndsInv
  <2> QED BY <2>1, <2>2, <2>3 DEF FrameInv, FrameTypes, FrameTypeOK, HandlerPcs
<1>2. Once
  BY DEF FrameInv, EndsInv, Once
<1>3. KeyKnown
  <2> SUFFICES ASSUME settled, hpc = "amsdu", frame.prot, frame.status = "ok", enc
               PROVE  rxKey # "NULL"
    BY DEF KeyKnown
  <2>1. rxSta
    BY DEF FrameInv, KindInv, Checked, Is, DataKinds
  <2> QED BY <2>1 DEF FrameInv, KeyInv, Decrypted, IvStripped
<1> QED BY <1>1, <1>2, <1>3

\* A frame is freed, queued or handed up once, whatever the events do meanwhile;
\* an A-MSDU of an encrypted connection comes to ieee80211_rx_h_amsdu with a key.
THEOREM FramesEnd == FrameSpec => [](FrameTypeOK /\ Once /\ KeyKnown)
<1>1. FrameSpec => []FrameInv
  BY FrameFirst, FrameStep, PTL DEF FrameSpec
<1> QED BY <1>1, FrameMeans, PTL

\* The header of the cipher is gone from what goes up the stack.
LEMMA UpStripped == FrameInv => (settled /\ GoesUp /\ enc => ~crypto)
<1> SUFFICES ASSUME FrameInv, settled, GoesUp, enc PROVE ~crypto
  OBVIOUS
<1>1. hpc \in {"deliver", "amsdu"}
  BY DEF GoesUp, Deliver, Amsdu
<1>2. rxSta
  BY <1>1 DEF FrameInv, KindInv, Checked, Is, DataKinds
<1> QED BY <1>1, <1>2 DEF FrameInv, KeyInv, Decrypted

\* While no frame comes during an event the stack gets no frame of an encrypted
\* connection with the header of the cipher, whichever key it needed.
THEOREM KeepsStripped == FrameSpec => Stripped
<1>1. FrameSpec => []FrameInv
  BY FrameFirst, FrameStep, PTL DEF FrameSpec
<1> QED BY <1>1, UpStripped, PTL DEF FrameSpec, Stripped

-----------------------------------------------------------------------------
(* Numbers that go round.                                                  *)

\* A remainder is known by a quotient.
LEMMA RemainderIs ==
  ASSUME NEW m \in Nat \ {0}, NEW x \in Int, NEW q \in Int, NEW r \in 0 .. m - 1, x = q * m + r
  PROVE  x % m = r
<1> DEFINE p == x \div m
<1> DEFINE s == x % m
<1>1. p \in Int /\ s \in 0 .. m - 1 /\ x = p * m + s
  OBVIOUS
<1> HIDE DEF p, s
<1>2. (q - p) * m = s - r
  BY <1>1
<1>3. q - p = 0
  <2> DEFINE d == q - p
  <2>1. d \in Int /\ d * m = s - r /\ s - r < m /\ s - r > -m
    BY <1>1, <1>2
  <2> HIDE DEF d
  <2>2. ~(d >= 1)
    <3> SUFFICES ASSUME d >= 1 PROVE FALSE
      OBVIOUS
    <3>1. d * m >= m
      BY <2>1
    <3> QED BY <1>1, <2>1, <3>1
  <2>3. ~(d <= -1)
    <3> SUFFICES ASSUME d <= -1 PROVE FALSE
      OBVIOUS
    <3>1. d * m <= -m
      BY <2>1
    <3> QED BY <1>1, <2>1, <3>1
  <2>4. d = 0
    BY <2>1, <2>2, <2>3
  <2> QED BY <2>4 DEF d
<1>4. s = r
  BY <1>1, <1>2, <1>3
<1> QED BY <1>4 DEF s

LEMMA Divides ==
  ASSUME NEW m \in Nat \ {0}, NEW x \in Int
  PROVE  \E q \in Int : x = q * m + (x % m) /\ (x % m) \in 0 .. m - 1
<1>1. PICK q \in Int : x = q * m + (x % m) /\ (x % m) \in 0 .. m - 1
  <2> DEFINE p == x \div m
  <2> DEFINE s == (x % m)
  <2>1. p \in Int /\ s \in 0 .. m - 1 /\ x = p * m + s
    OBVIOUS
  <2> QED BY <2>1
<1> QED BY <1>1

LEMMA RemainderType ==
  ASSUME NEW m \in Nat \ {0}, NEW x \in Int PROVE (x % m) \in 0 .. m - 1
BY Divides

\* One less, unless it goes round.
LEMMA RemainderDown ==
  ASSUME NEW m \in Nat \ {0}, NEW x \in Int
  PROVE  /\ (x % m) # 0 => (x - 1) % m = (x % m) - 1
         /\ (x % m) = 0 => (x - 1) % m = m - 1
<1> DEFINE r == (x % m)
<1>1. PICK q \in Int : x = q * m + r /\ r \in 0 .. m - 1
  BY Divides
<1> HIDE DEF r
<1>2. CASE r # 0
  <2>1. x - 1 = q * m + (r - 1) /\ r - 1 \in 0 .. m - 1 /\ x - 1 \in Int
    BY <1>1, <1>2
  <2>2. (x - 1) % m = r - 1
    BY <2>1, RemainderIs
  <2> QED BY <1>2, <2>2 DEF r
<1>3. CASE r = 0
  <2>1. (q - 1) * m = q * m - m
    BY <1>1
  <2>2. x - 1 = (q - 1) * m + (m - 1) /\ m - 1 \in 0 .. m - 1 /\ x - 1 \in Int /\ q - 1 \in Int
    BY <1>1, <1>3, <2>1
  <2>3. (x - 1) % m = m - 1
    BY <2>2, RemainderIs
  <2> QED BY <1>3, <2>3 DEF r
<1> QED BY <1>2, <1>3

LEMMA RemainderMinus ==
  ASSUME NEW m \in Nat \ {0}, NEW x \in Int, NEW y \in Int
  PROVE  ((x % m) - y) % m = (x - y) % m
<1> DEFINE r == (x % m)
<1> DEFINE s == (x - y) % m
<1>1. PICK q \in Int : x = q * m + r /\ r \in 0 .. m - 1
  BY Divides
<1>2. PICK p \in Int : x - y = p * m + s /\ s \in 0 .. m - 1
  <2>1. PICK z \in Int : z = x - y
    OBVIOUS
  <2> QED BY <2>1, Divides
<1> HIDE DEF r, s
<1>3. (p - q) * m = p * m - q * m
  BY <1>1, <1>2
<1>4. r - y = (p - q) * m + s /\ p - q \in Int /\ r - y \in Int
  BY <1>1, <1>2, <1>3
<1>5. (r - y) % m = s
  BY <1>2, <1>4, RemainderIs
<1> QED BY <1>5 DEF r, s

LEMMA RemainderPlus ==
  ASSUME NEW m \in Nat \ {0}, NEW x \in Int
  PROVE  ((x % m) + 1) % m = (x + 1) % m
<1>1. PICK y \in Int : y = -1
  OBVIOUS
<1>2. ((x % m) - y) % m = (x - y) % m
  BY RemainderMinus
<1>3. (x % m) \in Int
  BY RemainderType
<1>4. (x % m) - y = (x % m) + 1 /\ x - y = x + 1
  BY <1>1, <1>3
<1> QED BY <1>2, <1>4

LEMMA RemainderZero ==
  ASSUME NEW m \in Nat \ {0}, NEW r \in 0 .. m - 1, NEW x \in Int
  PROVE  (r - x) % m = 0 <=> (x % m) = r
<1>1. ASSUME (r - x) % m = 0 PROVE (x % m) = r
  <2>1. PICK q \in Int : r - x = q * m
    <3>1. PICK z \in Int : z = r - x
      OBVIOUS
    <3>2. PICK q \in Int : z = q * m + (z % m)
      BY Divides
    <3> QED BY <1>1, <3>1, <3>2
  <2>2. (-q) * m = -(q * m)
    BY <2>1
  <2>3. x = (-q) * m + r /\ -q \in Int
    BY <2>1, <2>2
  <2> QED BY <2>3, RemainderIs
<1>2. ASSUME (x % m) = r PROVE (r - x) % m = 0
  <2>1. ((x % m) - x) % m = (x - x) % m
    BY RemainderMinus
  <2>2. x - x = 0 * m + 0 /\ 0 \in 0 .. m - 1 /\ x - x \in Int
    OBVIOUS
  <2>3. (x - x) % m = 0
    BY <2>2, RemainderIs
  <2> QED BY <1>2, <2>1, <2>3
<1> QED BY <1>1, <1>2

\* Two numbers with the same remainder, the second one higher.
LEMMA RemainderStep ==
  ASSUME NEW m \in Nat \ {0}, NEW x \in Int, NEW y \in Int, (y % m) = (x + 1) % m
  PROVE  (y - x) % m = 1 % m
<1>1. ((y % m) - x) % m = (y - x) % m
  BY RemainderMinus
<1>2. PICK z \in Int : z = x + 1
  OBVIOUS
<1>3. ((z % m) - x) % m = (z - x) % m
  BY RemainderMinus
<1>4. z - x = 1
  BY <1>2
<1> QED BY <1>1, <1>2, <1>3, <1>4

-----------------------------------------------------------------------------
(* How frames are read.                                                    *)

PathFlags ==
  {status, latching, irqEn, subscribed, running, expired, armed, wakeup, rxResync, saved}
    \subseteq BOOLEAN

PathPlaces ==
  /\ ipc \in {"idle", "wake"} /\ dpc \in {"idle", "saved", "mode"}
  /\ tpc \in {"wake", "test", "period", "pre", "enable", "sleepy", "sleep",
              "slept", "parked", "read", "check", "data"}
  /\ mpc \in {"up", "suspending", "suspended", "irq off", "subscribe", "irq on"}

\* sdio_rx reads the data of a frame only where there is one.
PathNumbers ==
  /\ sent \in 0 .. MaxFrames /\ next \in 0 .. sent
  /\ accesses \in 0 .. MaxAccesses /\ suspends \in 0 .. MaxSuspends
  /\ errors \in 0 .. MaxErrors
  /\ tpc = "data" => next < sent

PathTypes == PathPlaces /\ PathNumbers

\* The frames that were handed on are in order, and the number that is expected
\* is the one behind the last of them.
OrderInv ==
  /\ delivered \in Seq(Nat)
  /\ \A i \in 1 .. Len(delivered) : delivered[i] < next
  /\ InOrder
  /\ delivered # <<>> =>
       /\ ~rxResync /\ recvCnt = Unchecked
       /\ rxSeq = (delivered[Len(delivered)] + 1) % SeqMod

\* As many frames will be dropped as the expected number is ahead.
Ahead == (rxSeq - next) % SeqMod

LossInv ==
  /\ rxSeq \in 0 .. SeqMod - 1 /\ recvCnt \in 0 .. Unchecked
  /\ dropped \in Nat /\ lost \in Nat
  /\ dropped + lost + Len(delivered) <= next
  /\ recvCnt < Unchecked => rxSeq = recvCnt % SeqMod
  /\ dropped + Ahead <= (SeqMod - 1) * lost

ReadInv == OrderInv /\ LossInv

\* Without failures and accesses of other tasks, sdio_rx turns the interrupt on
\* before it sleeps, and whoever turns it off again wakes it.
SleepInv ==
  /\ dpc # "idle" => accesses > 0
  /\ mpc \in {"suspended", "irq off", "subscribe", "irq on"} => tpc = "parked"
  /\ (tpc \in {"sleepy", "sleep"} /\ armed /\ errors = 0 /\ accesses = 0 /\ ~irqEn)
       => (wakeup \/ ipc = "wake")

PathInv == PathFlags /\ PathTypes /\ ReadInv /\ SleepInv

LEMMA PathFirst == Init => PathInv
<1> SUFFICES ASSUME Init PROVE PathInv
  OBVIOUS
<1>1. PathFlags
  <2>1. rxResync \in BOOLEAN
    BY Zenon DEF Init
  <2> QED BY <2>1, Zenon DEF Init, PathFlags
<1>2. PathTypes
  BY RxPathAssumption DEF Init, PathTypes, PathPlaces, PathNumbers
<1>3. OrderInv
  BY DEF Init, OrderInv, InOrder
<1>4. LossInv
  <2>1. 0 = 0 * SeqMod + 0 /\ 0 \in 0 .. SeqMod - 1 /\ SeqMod \in Nat \ {0} /\ Unchecked \in Nat
    BY RxPathAssumption
  <2>2. 0 % SeqMod = 0
    BY <2>1, RemainderIs
  <2>3. Ahead = 0
    BY <2>2 DEF Init, Ahead
  <2>4. (SeqMod - 1) * lost = 0
    BY <2>1 DEF Init
  <2>5. /\ rxSeq = 0 /\ (recvCnt = 0 \/ recvCnt = Unchecked) /\ dropped = 0 /\ lost = 0
        /\ delivered = <<>> /\ next = 0
    BY DEF Init
  <2>6. recvCnt < Unchecked => recvCnt = 0
    BY <2>1, <2>5
  <2> QED BY <2>1, <2>2, <2>3, <2>4, <2>5, <2>6 DEF LossInv
<1>5. SleepInv
  BY DEF Init, SleepInv
<1> QED BY <1>1, <1>2, <1>3, <1>4, <1>5 DEF PathInv, ReadInv

-----------------------------------------------------------------------------
(* What a frame does to the numbers.                                       *)

LEMMA SeqModType == SeqMod \in Nat \ {0} /\ Unchecked \in Nat
BY RxPathAssumption

LEMMA AheadType == ASSUME rxSeq \in Int, next \in Nat PROVE Ahead \in 0 .. SeqMod - 1
<1>1. PICK x \in Int : x = rxSeq - next
  OBVIOUS
<1>2. x % SeqMod \in 0 .. SeqMod - 1
  BY RemainderType, SeqModType
<1> QED BY <1>1, <1>2 DEF Ahead

\* The device goes on by one frame, and the expected number stays.
LEMMA AheadLess ==
  ASSUME rxSeq \in Int, next \in Nat, next' = next + 1, rxSeq' = rxSeq
  PROVE  /\ Ahead # 0 => Ahead' = Ahead - 1
         /\ Ahead = 0 => Ahead' = SeqMod - 1
<1>1. PICK x \in Int : x = rxSeq - next
  OBVIOUS
<1>2. rxSeq' - next' = x - 1
  BY <1>1
<1>3. /\ (x % SeqMod) # 0 => (x - 1) % SeqMod = (x % SeqMod) - 1
      /\ (x % SeqMod) = 0 => (x - 1) % SeqMod = SeqMod - 1
  BY RemainderDown, SeqModType
<1> QED BY <1>1, <1>2, <1>3 DEF Ahead

\* Both go on: n is counted for the expected number.
LEMMA AheadSame ==
  ASSUME NEW n \in Nat, rxSeq \in Int, next \in Nat, rxSeq = n % SeqMod, next' = next + 1,
         rxSeq' = SeqAfter(n)
  PROVE  Ahead' = Ahead
<1>1. PICK m \in Nat : m = n + 1
  OBVIOUS
<1>2. PICK y \in Nat : y = next + 1
  OBVIOUS
<1>i. m \in Int /\ y \in Int /\ n \in Int /\ next \in Int /\ SeqMod \in Nat \ {0}
  BY <1>1, <1>2, SeqModType
<1>3. ((m % SeqMod) - y) % SeqMod = (m - y) % SeqMod
  BY <1>i, RemainderMinus, Zenon
<1>4. ((n % SeqMod) - next) % SeqMod = (n - next) % SeqMod
  BY <1>i, RemainderMinus, Zenon
<1>5. m - y = n - next
  BY <1>1, <1>2
<1>6. rxSeq' = m % SeqMod /\ next' = y
  BY <1>1, <1>2 DEF SeqAfter
<1> QED BY <1>3, <1>4, <1>5, <1>6 DEF Ahead

\* The frame that was read is the one that is expected now.
LEMMA AheadNone ==
  ASSUME next \in Nat, next' = next + 1, rxSeq' = SeqAfter(SeqNo(next))
  PROVE  /\ rxSeq' = (next + 1) % SeqMod /\ rxSeq' \in 0 .. SeqMod - 1
         /\ Ahead' = 0
<1>1. PICK y \in Nat : y = next + 1
  OBVIOUS
<1>i. y \in Int /\ next \in Int /\ SeqMod \in Nat \ {0}
  BY <1>1, SeqModType
<1>2. ((next % SeqMod) + 1) % SeqMod = (next + 1) % SeqMod
  BY <1>i, RemainderPlus, Zenon
<1>3. rxSeq' = y % SeqMod
  BY <1>1, <1>2 DEF SeqAfter, SeqNo
<1>4. (y % SeqMod) \in 0 .. SeqMod - 1
  BY RemainderType, SeqModType
<1>5. PICK r \in 0 .. SeqMod - 1 : r = y % SeqMod
  BY <1>4
<1>6. (r - y) % SeqMod = 0
  BY <1>i, <1>5, RemainderZero, Zenon
<1> QED BY <1>1, <1>3, <1>4, <1>5, <1>6 DEF Ahead

\* Another number is behind the expected one.
LEMMA AheadSome ==
  ASSUME next \in Nat, rxSeq \in 0 .. SeqMod - 1, SeqNo(next) # rxSeq PROVE Ahead # 0
<1>1. PICK r \in 0 .. SeqMod - 1 : r = rxSeq
  OBVIOUS
<1>i. next \in Int /\ SeqMod \in Nat \ {0}
  BY SeqModType
<1>2. (r - next) % SeqMod = 0 <=> (next % SeqMod) = r
  BY <1>i, RemainderZero, Zenon
<1> QED BY <1>1, <1>2 DEF Ahead, SeqNo

-----------------------------------------------------------------------------
(* The frames that sdio_rx reads.                                          *)

LEMMA SkipKeeps ==
  ASSUME ReadInv, next \in Nat, SkipFirst, next' = next + 1 PROVE ReadInv'
<1>1. /\ recvCnt < Unchecked /\ recvCnt' = recvCnt + 1 /\ rxSeq' = SeqAfter(recvCnt)
      /\ UNCHANGED <<delivered, dropped, lost>>
  BY DEF SkipFirst
<1>2. /\ rxSeq \in 0 .. SeqMod - 1 /\ recvCnt \in 0 .. Unchecked /\ rxSeq = recvCnt % SeqMod
      /\ dropped \in Nat /\ lost \in Nat /\ dropped + lost + Len(delivered) <= next
      /\ dropped + Ahead <= (SeqMod - 1) * lost
  BY <1>1 DEF ReadInv, LossInv
<1>3. delivered = <<>>
  BY <1>1, <1>2, SeqModType DEF ReadInv, OrderInv
<1>4. Ahead' = Ahead
  BY <1>1, <1>2, AheadSame
<1>5. PICK m \in Nat : m = recvCnt + 1
  BY <1>2
<1>6. rxSeq' = m % SeqMod /\ recvCnt' = m /\ m \in 0 .. Unchecked
  BY <1>1, <1>2, <1>5, SeqModType DEF SeqAfter
<1>7. rxSeq' \in 0 .. SeqMod - 1
  BY <1>6, RemainderType, SeqModType
<1>8. LossInv'
  <2>1. dropped' + lost' + Len(delivered') <= next'
    BY <1>1, <1>2, <1>3
  <2>2. dropped' + Ahead' <= (SeqMod - 1) * lost'
    BY <1>1, <1>2, <1>4
  <2> QED BY <1>1, <1>2, <1>6, <1>7, <2>1, <2>2 DEF LossInv
<1>9. OrderInv'
  BY <1>1, <1>3 DEF ReadInv, OrderInv, InOrder
<1> QED BY <1>8, <1>9 DEF ReadInv

LEMMA AcceptKeeps ==
  ASSUME ReadInv, next \in Nat, Accept(next), next' = next + 1 PROVE ReadInv'
<1>1. /\ recvCnt >= Unchecked /\ InSequence(next) /\ rxSeq' = SeqAfter(SeqNo(next))
      /\ rxResync' = FALSE /\ delivered' = Append(delivered, next)
      /\ UNCHANGED <<recvCnt, dropped, lost>>
  BY DEF Accept
<1>2. /\ rxSeq \in 0 .. SeqMod - 1 /\ recvCnt \in 0 .. Unchecked
      /\ dropped \in Nat /\ lost \in Nat /\ dropped + lost + Len(delivered) <= next
      /\ dropped + Ahead <= (SeqMod - 1) * lost
  BY DEF ReadInv, LossInv
<1>3. /\ rxSeq' = (next + 1) % SeqMod /\ rxSeq' \in 0 .. SeqMod - 1
      /\ Ahead' = 0
  BY <1>1, AheadNone
<1>4. Ahead \in 0 .. SeqMod - 1
  BY <1>2, AheadType, SeqModType
<1>5. recvCnt = Unchecked
  BY <1>1, <1>2, SeqModType
<1> DEFINE n == Len(delivered)
<1>6. delivered \in Seq(Nat) /\ n \in Nat
  BY DEF ReadInv, OrderInv
<1>7. /\ delivered' \in Seq(Nat) /\ Len(delivered') = n + 1 /\ delivered'[n + 1] = next
      /\ \A i \in 1 .. n : delivered'[i] = delivered[i]
  BY <1>1, <1>6
<1>8. LossInv'
  <2>1. dropped' + lost' + Len(delivered') <= next'
    BY <1>1, <1>2, <1>6, <1>7
  <2>2. dropped' + Ahead' <= (SeqMod - 1) * lost'
    <3>1. PICK b : b = (SeqMod - 1) * lost
      OBVIOUS
    <3>2. dropped + Ahead <= b /\ b \in Int
      BY <1>2, <3>1, SeqModType
    <3>3. dropped <= b
      BY <1>2, <1>4, <3>2
    <3>4. dropped' = dropped /\ Ahead' = 0 /\ (SeqMod - 1) * lost' = b
      BY <1>1, <1>3, <3>1
    <3> QED BY <1>2, <3>3, <3>4
  <2>3. ~(recvCnt' < Unchecked)
    BY <1>1, <1>5, SeqModType
  <2> QED BY <1>1, <1>2, <1>3, <2>1, <2>2, <2>3 DEF LossInv
<1>9. OrderInv'
  <2>1. ASSUME NEW i \in 1 .. n + 1 PROVE delivered'[i] < next'
    <3>1. CASE i \in 1 .. n
      <4>1. delivered[i] < next /\ delivered[i] \in Nat
        BY <1>6, <3>1 DEF ReadInv, OrderInv
      <4> QED BY <1>7, <3>1, <4>1
    <3>2. CASE i = n + 1
      BY <1>7, <3>2
    <3> QED BY <1>6, <3>1, <3>2
  <2>2. ASSUME NEW i \in 1 .. n
        PROVE  delivered'[i + 1] - delivered'[i] > 0
               /\ (delivered'[i + 1] - delivered'[i]) % SeqMod = 1 % SeqMod
    <3>1. CASE i < n
      <4>1. i \in 1 .. Len(delivered) - 1 /\ i + 1 \in 1 .. n
        BY <1>6, <3>1
      <4>2. delivered[i + 1] - delivered[i] > 0
            /\ (delivered[i + 1] - delivered[i]) % SeqMod = 1 % SeqMod
        BY <4>1 DEF ReadInv, OrderInv, InOrder
      <4> QED BY <1>7, <4>1, <4>2
    <3>2. CASE i = n
      <4>1. delivered # <<>>
        BY <3>2
      <4>2. PICK x \in Nat : x = delivered[n]
        BY <1>6, <3>2
      <4>3. ~rxResync /\ rxSeq = (x + 1) % SeqMod /\ x < next
        BY <3>2, <4>1, <4>2 DEF ReadInv, OrderInv
      <4>4. next % SeqMod = (x + 1) % SeqMod
        BY <1>1, <4>3 DEF InSequence, SeqNo
      <4>i. next \in Int /\ x \in Int /\ SeqMod \in Nat \ {0}
        BY <4>2, SeqModType
      <4>5. (next - x) % SeqMod = 1 % SeqMod
        BY <4>i, <4>4, RemainderStep, Zenon
      <4>6. delivered'[i + 1] = next /\ delivered'[i] = x
        BY <1>7, <3>2, <4>2
      <4> QED BY <4>3, <4>5, <4>6
    <3> QED BY <1>6, <3>1, <3>2
  <2>3. InOrder'
    <3>1. Len(delivered') - 1 = n
      BY <1>6, <1>7
    <3> QED BY <2>2, <3>1 DEF InOrder
  <2>4. ~rxResync'
    BY <1>1, Zenon
  <2>5. rxSeq' = (delivered'[Len(delivered')] + 1) % SeqMod
    BY <1>3, <1>7
  <2>6. recvCnt' = Unchecked
    BY <1>1, <1>5
  <2>7. \A i \in 1 .. Len(delivered') : delivered'[i] < next'
    BY <1>7, <2>1
  <2> QED BY <1>7, <2>3, <2>4, <2>5, <2>6, <2>7 DEF OrderInv
<1> QED BY <1>8, <1>9 DEF ReadInv

\* A later frame leaves the order alone.
LEMMA OrderStays ==
  ASSUME OrderInv, next \in Nat, next' = next + 1 \/ next' = next,
         UNCHANGED <<delivered, rxResync, recvCnt, rxSeq>>
  PROVE  OrderInv'
<1>1. \A i \in 1 .. Len(delivered) : delivered[i] < next'
  <2>1. ASSUME NEW i \in 1 .. Len(delivered) PROVE delivered[i] < next'
    <3>1. delivered[i] \in Nat /\ delivered[i] < next
      BY DEF OrderInv
    <3> QED BY <3>1
  <2> QED BY <2>1
<1> QED BY <1>1 DEF OrderInv, InOrder

LEMMA MismatchKeeps ==
  ASSUME ReadInv, next \in Nat, Mismatch(next), next' = next + 1 PROVE ReadInv'
<1>1. /\ ~InSequence(next) /\ rxSeq' = rxSeq /\ dropped' = dropped + 1
      /\ UNCHANGED <<rxResync, recvCnt, delivered, lost>>
  BY DEF Mismatch, ExpectedAfterGap
<1>2. /\ rxSeq \in 0 .. SeqMod - 1 /\ recvCnt \in 0 .. Unchecked
      /\ dropped \in Nat /\ lost \in Nat /\ dropped + lost + Len(delivered) <= next
      /\ dropped + Ahead <= (SeqMod - 1) * lost /\ Len(delivered) \in Nat
  BY DEF ReadInv, LossInv, OrderInv
<1>3. Ahead # 0
  BY <1>1, <1>2, AheadSome DEF InSequence
<1>4. Ahead' = Ahead - 1 /\ Ahead \in 0 .. SeqMod - 1
  BY <1>1, <1>2, <1>3, AheadLess, AheadType, SeqModType
<1>5. LossInv'
  <2>1. dropped' + lost' + Len(delivered') <= next'
    BY <1>1, <1>2
  <2>2. dropped' + Ahead' = dropped + Ahead
    BY <1>1, <1>2, <1>4, SeqModType
  <2>3. recvCnt' < Unchecked => rxSeq' = recvCnt' % SeqMod
    BY <1>1 DEF ReadInv, LossInv
  <2> QED BY <1>1, <1>2, <2>1, <2>2, <2>3 DEF LossInv
<1>6. OrderInv'
  BY <1>1, OrderStays DEF ReadInv
<1> QED BY <1>5, <1>6 DEF ReadInv

\* A frame is lost.
LEMMA LostKeeps ==
  ASSUME ReadInv, next \in Nat, next' = next + 1, lost' = lost + 1,
         UNCHANGED <<rxSeq, rxResync, recvCnt, delivered, dropped>>
  PROVE  ReadInv'
<1>1. /\ rxSeq \in 0 .. SeqMod - 1 /\ recvCnt \in 0 .. Unchecked
      /\ dropped \in Nat /\ lost \in Nat /\ dropped + lost + Len(delivered) <= next
      /\ dropped + Ahead <= (SeqMod - 1) * lost /\ Len(delivered) \in Nat
  BY DEF ReadInv, LossInv, OrderInv
<1>2. Ahead \in 0 .. SeqMod - 1 /\ Ahead' <= Ahead + (SeqMod - 1) /\ Ahead' \in Int
  <2>1. Ahead \in 0 .. SeqMod - 1
    BY <1>1, AheadType, SeqModType
  <2>2. (Ahead # 0 => Ahead' = Ahead - 1) /\ (Ahead = 0 => Ahead' = SeqMod - 1)
    BY <1>1, AheadLess, SeqModType
  <2> QED BY <2>1, <2>2, SeqModType
<1>3. LossInv'
  <2>1. dropped' + lost' + Len(delivered') <= next'
    BY <1>1
  <2>2. dropped' + Ahead' <= (SeqMod - 1) * lost'
    <3>1. PICK b \in Int : b = (SeqMod - 1) * lost
      BY <1>1, SeqModType
    <3>2. (SeqMod - 1) * lost' = b + (SeqMod - 1)
      BY <1>1, <3>1, SeqModType
    <3>3. dropped + Ahead <= b
      BY <1>1, <3>1
    <3>4. PICK c \in Int : c = SeqMod - 1
      BY SeqModType
    <3>5. Ahead' <= Ahead + c /\ Ahead \in Int /\ Ahead' \in Int
      BY <1>2, <3>4
    <3>6. dropped + Ahead' <= b + c
      <4>1. PICK d \in Int : d = dropped
        BY <1>1
      <4>2. PICK y \in Int : y = Ahead
        BY <3>5
      <4>3. PICK z \in Int : z = Ahead'
        BY <3>5
      <4>4. d + y <= b /\ z <= y + c
        BY <3>3, <3>5, <4>1, <4>2, <4>3
      <4>5. d + z <= b + c
        BY <4>4
      <4> QED BY <4>1, <4>3, <4>5
    <3> QED BY <3>2, <3>4, <3>6
  <2>3. recvCnt' < Unchecked => rxSeq' = recvCnt' % SeqMod
    BY DEF ReadInv, LossInv
  <2> QED BY <1>1, <2>1, <2>2, <2>3 DEF LossInv
<1>4. OrderInv'
  BY OrderStays DEF ReadInv
<1> QED BY <1>3, <1>4 DEF ReadInv

LEMMA ReadStays == ASSUME ReadInv, UNCHANGED readVars PROVE ReadInv'
BY DEF ReadInv, readVars, OrderInv, InOrder, LossInv, Ahead

-----------------------------------------------------------------------------
(* What each step keeps.                                                   *)

LEMMA PathBounds ==
  /\ MaxFrames \in Nat /\ MaxErrors \in Nat /\ MaxAccesses \in Nat /\ MaxSuspends \in Nat
  /\ Unchecked \in Nat /\ SeqMod \in Nat \ {0}
BY RxPathAssumption, Zenon

LEMMA DataKeeps == ASSUME ReadInv, next \in Nat, Data PROVE ReadInv'
<1>1. next' = next + 1
  BY DEF Data
<1>2. SkipFirst \/ Accept(next) \/ Mismatch(next) \/ Exception
  BY DEF Data
<1>3. CASE SkipFirst
  BY <1>1, <1>3, SkipKeeps
<1>4. CASE Accept(next)
  BY <1>1, <1>4, AcceptKeeps
<1>5. CASE Mismatch(next)
  BY <1>1, <1>5, MismatchKeeps
<1>6. CASE Exception
  BY <1>1, <1>6, LostKeeps DEF Exception
<1> QED BY <1>2, <1>3, <1>4, <1>5, <1>6

LEMMA DataFailsKeeps == ASSUME ReadInv, next \in Nat, DataFails PROVE ReadInv'
<1>1. UNCHANGED <<rxSeq, rxResync, recvCnt, delivered, dropped>>
  BY DEF DataFails
<1>2. CASE next' = next + 1 /\ lost' = lost + 1
  BY <1>1, <1>2, LostKeeps
<1>3. CASE UNCHANGED <<next, lost>>
  BY <1>1, <1>3, ReadStays DEF readVars
<1> QED BY <1>2, <1>3 DEF DataFails

\* The flags stay flags; sdio_rx reads only frames that there are.
LEMMA FlagsStep == ASSUME PathFlags, [Next]_vars PROVE PathFlags'
<1>1. CASE Arrive
  BY <1>1, Zenon DEF Arrive, deviceVars, irqVars, threadVars, readVars, accessVars, pmVars, PathFlags
<1>2. CASE Interrupt
  BY <1>2, Zenon DEF Interrupt, Handler, IrqEnable, Works, Fails, HostClaimed, deviceVars, irqVars, threadVars, readVars, accessVars, pmVars, PathFlags
<1>3. CASE InterruptWakes
  BY <1>3, Zenon DEF InterruptWakes, WakeThread, deviceVars, irqVars, threadVars, readVars, accessVars, pmVars, PathFlags
<1>4. CASE Wake
  BY <1>4, Zenon DEF Wake, Goto, deviceVars, irqVars, threadVars, readVars, accessVars, pmVars, PathFlags
<1>5. CASE Test
  BY <1>5, Zenon DEF Test, Goto, ShouldSuspend, deviceVars, irqVars, threadVars, readVars, accessVars, pmVars, PathFlags
<1>6. CASE IrqPeriod
  BY <1>6, Zenon DEF IrqPeriod, Poll, MissIrq, Handler, IrqEnable, WakeThread, ReadControl, AfterPeriod, Works, Fails, HostClaimed, deviceVars, irqVars, threadVars, readVars, accessVars, pmVars, PathFlags
<1>7. CASE PreSched
  BY <1>7, Zenon DEF PreSched, Poll, MissIrq, Handler, IrqEnable, WakeThread, ReadControl, Works, Fails, HostClaimed, deviceVars, irqVars, threadVars, readVars, accessVars, pmVars, PathFlags
<1>8. CASE PreSchedEnables
  BY <1>8, Zenon DEF PreSchedEnables, Goto, IrqEnable, EnablesWith, Works, Fails, deviceVars, irqVars, threadVars, readVars, accessVars, pmVars, PathFlags
<1>9. CASE SetInterruptible
  BY <1>9, Zenon DEF SetInterruptible, Goto, deviceVars, irqVars, threadVars, readVars, accessVars, pmVars, PathFlags
<1>10. CASE Woken
  BY <1>10, Zenon DEF Woken, Goto, deviceVars, irqVars, threadVars, readVars, accessVars, pmVars, PathFlags
<1>11. CASE LeaveSuspend
  BY <1>11, Zenon DEF LeaveSuspend, Goto, ShouldSuspend, deviceVars, irqVars, threadVars, readVars, accessVars, pmVars, PathFlags
<1>12. CASE Claim
  BY <1>12, Zenon DEF Claim, Goto, HostClaimed, deviceVars, irqVars, threadVars, readVars, accessVars, pmVars, PathFlags
<1>13. CASE Check
  BY <1>13, Zenon DEF Check, ReadControl, Works, Fails, Pending, deviceVars, irqVars, threadVars, readVars, accessVars, pmVars, PathFlags
<1>14. CASE Data
  BY <1>14, Zenon DEF Data, SkipFirst, Accept, Mismatch, Exception, Works, Fails, Piggyback, deviceVars, irqVars, threadVars, readVars, accessVars, pmVars, PathFlags
<1>15. CASE DataFails
  BY <1>15, Zenon DEF DataFails, Works, Fails, deviceVars, irqVars, threadVars, readVars, accessVars, pmVars, PathFlags
<1>16. CASE Expire
  BY <1>16, Zenon DEF Expire, Goto, deviceVars, irqVars, threadVars, readVars, accessVars, pmVars, PathFlags
<1>17. CASE AccessSaves
  BY <1>17, Zenon DEF AccessSaves, HostClaimed, deviceVars, irqVars, threadVars, readVars, accessVars, pmVars, PathFlags
<1>18. CASE AccessRestores
  BY <1>18, Zenon DEF AccessRestores, HostClaimed, deviceVars, irqVars, threadVars, readVars, accessVars, pmVars, PathFlags
<1>19. CASE SuspendAsks
  BY <1>19, Zenon DEF SuspendAsks, deviceVars, irqVars, threadVars, readVars, accessVars, pmVars, PathFlags
<1>20. CASE ResumeStart
  BY <1>20, Zenon DEF ResumeStart, deviceVars, irqVars, threadVars, readVars, accessVars, pmVars, PathFlags
<1>21. CASE SuspendUnsubscribes
  BY <1>21, Zenon DEF SuspendUnsubscribes, HostClaimed, deviceVars, irqVars, threadVars, readVars, accessVars, pmVars, PathFlags
<1>22. CASE Resume
  BY <1>22, Zenon DEF Resume, ResumeIrq, ResumeSubscribes, IrqEnable, Works, Fails, HostClaimed, deviceVars, irqVars, threadVars, readVars, accessVars, pmVars, PathFlags
<1>23. CASE UNCHANGED vars
  BY <1>23, Zenon DEF vars, deviceVars, irqVars, threadVars, readVars, accessVars, pmVars, PathFlags
<1> QED
  BY <1>1, <1>2, <1>3, <1>4, <1>5, <1>6, <1>7, <1>8, <1>9, <1>10, <1>11, <1>12, <1>13, <1>14, <1>15, <1>16, <1>17, <1>18, <1>19, <1>20, <1>21, <1>22, <1>23
     DEF Next, InterruptStep, ThreadStep, SuspendStep

LEMMA PlacesStep == ASSUME PathPlaces, [Next]_vars PROVE PathPlaces'
<1>1. CASE Arrive
  BY <1>1 DEF Arrive, deviceVars, irqVars, threadVars, readVars, accessVars, pmVars, PathPlaces
<1>2. CASE Interrupt
  BY <1>2 DEF Interrupt, Handler, IrqEnable, Works, Fails, HostClaimed, deviceVars, irqVars, threadVars, readVars, accessVars, pmVars, PathPlaces
<1>3. CASE InterruptWakes
  BY <1>3 DEF InterruptWakes, WakeThread, deviceVars, irqVars, threadVars, readVars, accessVars, pmVars, PathPlaces
<1>4. CASE Wake
  BY <1>4 DEF Wake, Goto, deviceVars, irqVars, threadVars, readVars, accessVars, pmVars, PathPlaces
<1>5. CASE Test
  BY <1>5 DEF Test, Goto, ShouldSuspend, deviceVars, irqVars, threadVars, readVars, accessVars, pmVars, PathPlaces
<1>6. CASE IrqPeriod
  BY <1>6 DEF IrqPeriod, Poll, MissIrq, Handler, IrqEnable, WakeThread, ReadControl, AfterPeriod, Works, Fails, HostClaimed, deviceVars, irqVars, threadVars, readVars, accessVars, pmVars, PathPlaces
<1>7. CASE PreSched
  BY <1>7 DEF PreSched, Poll, MissIrq, Handler, IrqEnable, WakeThread, ReadControl, Works, Fails, HostClaimed, deviceVars, irqVars, threadVars, readVars, accessVars, pmVars, PathPlaces
<1>8. CASE PreSchedEnables
  BY <1>8 DEF PreSchedEnables, Goto, IrqEnable, EnablesWith, Works, Fails, deviceVars, irqVars, threadVars, readVars, accessVars, pmVars, PathPlaces
<1>9. CASE SetInterruptible
  BY <1>9 DEF SetInterruptible, Goto, deviceVars, irqVars, threadVars, readVars, accessVars, pmVars, PathPlaces
<1>10. CASE Woken
  BY <1>10 DEF Woken, Goto, deviceVars, irqVars, threadVars, readVars, accessVars, pmVars, PathPlaces
<1>11. CASE LeaveSuspend
  BY <1>11 DEF LeaveSuspend, Goto, ShouldSuspend, deviceVars, irqVars, threadVars, readVars, accessVars, pmVars, PathPlaces
<1>12. CASE Claim
  BY <1>12 DEF Claim, Goto, HostClaimed, deviceVars, irqVars, threadVars, readVars, accessVars, pmVars, PathPlaces
<1>13. CASE Check
  BY <1>13 DEF Check, ReadControl, Works, Fails, Pending, deviceVars, irqVars, threadVars, readVars, accessVars, pmVars, PathPlaces
<1>14. CASE Data
  BY <1>14 DEF Data, SkipFirst, Accept, Mismatch, Exception, Works, Fails, Piggyback, deviceVars, irqVars, threadVars, readVars, accessVars, pmVars, PathPlaces
<1>15. CASE DataFails
  BY <1>15 DEF DataFails, Works, Fails, deviceVars, irqVars, threadVars, readVars, accessVars, pmVars, PathPlaces
<1>16. CASE Expire
  BY <1>16 DEF Expire, Goto, deviceVars, irqVars, threadVars, readVars, accessVars, pmVars, PathPlaces
<1>17. CASE AccessSaves
  BY <1>17 DEF AccessSaves, HostClaimed, deviceVars, irqVars, threadVars, readVars, accessVars, pmVars, PathPlaces
<1>18. CASE AccessRestores
  BY <1>18 DEF AccessRestores, HostClaimed, deviceVars, irqVars, threadVars, readVars, accessVars, pmVars, PathPlaces
<1>19. CASE SuspendAsks
  BY <1>19 DEF SuspendAsks, deviceVars, irqVars, threadVars, readVars, accessVars, pmVars, PathPlaces
<1>20. CASE ResumeStart
  BY <1>20 DEF ResumeStart, deviceVars, irqVars, threadVars, readVars, accessVars, pmVars, PathPlaces
<1>21. CASE SuspendUnsubscribes
  BY <1>21 DEF SuspendUnsubscribes, HostClaimed, deviceVars, irqVars, threadVars, readVars, accessVars, pmVars, PathPlaces
<1>22. CASE Resume
  BY <1>22 DEF Resume, ResumeIrq, ResumeSubscribes, IrqEnable, Works, Fails, HostClaimed, deviceVars, irqVars, threadVars, readVars, accessVars, pmVars, PathPlaces
<1>23. CASE UNCHANGED vars
  BY <1>23 DEF vars, deviceVars, irqVars, threadVars, readVars, accessVars, pmVars, PathPlaces
<1> QED
  BY <1>1, <1>2, <1>3, <1>4, <1>5, <1>6, <1>7, <1>8, <1>9, <1>10, <1>11, <1>12, <1>13, <1>14, <1>15, <1>16, <1>17, <1>18, <1>19, <1>20, <1>21, <1>22, <1>23
     DEF Next, InterruptStep, ThreadStep, SuspendStep

LEMMA NumbersStep == ASSUME PathNumbers, [Next]_vars PROVE PathNumbers'
<1> USE PathBounds
<1>1. CASE Arrive
  BY <1>1 DEF Arrive, deviceVars, irqVars, threadVars, readVars, accessVars, pmVars, PathNumbers
<1>2. CASE Interrupt
  <2>1. errors' = errors \/ (errors < MaxErrors /\ errors' = errors + 1)
    BY <1>2 DEF Interrupt, Handler, IrqEnable, Works, Fails
  <2>2. UNCHANGED <<sent, next, accesses, suspends, tpc>>
    BY <1>2 DEF Interrupt, deviceVars, threadVars, readVars, accessVars, pmVars
  <2> QED BY <2>1, <2>2, PathBounds DEF PathNumbers
<1>3. CASE InterruptWakes
  BY <1>3 DEF InterruptWakes, WakeThread, deviceVars, irqVars, threadVars, readVars, accessVars, pmVars, PathNumbers
<1>4. CASE Wake
  BY <1>4 DEF Wake, Goto, deviceVars, irqVars, threadVars, readVars, accessVars, pmVars, PathNumbers
<1>5. CASE Test
  BY <1>5 DEF Test, Goto, ShouldSuspend, deviceVars, irqVars, threadVars, readVars, accessVars, pmVars, PathNumbers
<1>6. CASE IrqPeriod
  BY <1>6 DEF IrqPeriod, Poll, MissIrq, Handler, IrqEnable, WakeThread, ReadControl, AfterPeriod, Works, Fails, deviceVars, irqVars, threadVars, readVars, accessVars, pmVars, PathNumbers
<1>7. CASE PreSched
  BY <1>7 DEF PreSched, Poll, MissIrq, Handler, IrqEnable, WakeThread, ReadControl, Works, Fails, deviceVars, irqVars, threadVars, readVars, accessVars, pmVars, PathNumbers
<1>8. CASE PreSchedEnables
  BY <1>8 DEF PreSchedEnables, Goto, IrqEnable, EnablesWith, Works, Fails, deviceVars, irqVars, threadVars, readVars, accessVars, pmVars, PathNumbers
<1>9. CASE SetInterruptible
  BY <1>9 DEF SetInterruptible, Goto, deviceVars, irqVars, threadVars, readVars, accessVars, pmVars, PathNumbers
<1>10. CASE Woken
  BY <1>10 DEF Woken, Goto, deviceVars, irqVars, threadVars, readVars, accessVars, pmVars, PathNumbers
<1>11. CASE LeaveSuspend
  BY <1>11 DEF LeaveSuspend, Goto, ShouldSuspend, deviceVars, irqVars, threadVars, readVars, accessVars, pmVars, PathNumbers
<1>12. CASE Claim
  BY <1>12 DEF Claim, Goto, deviceVars, irqVars, threadVars, readVars, accessVars, pmVars, PathNumbers
<1>13. CASE Check
  BY <1>13 DEF Check, ReadControl, Works, Fails, Pending, deviceVars, irqVars, threadVars, readVars, accessVars, pmVars, PathNumbers
<1>14. CASE Data
  BY <1>14 DEF Data, SkipFirst, Accept, Mismatch, Exception, Works, Fails, Piggyback, deviceVars, irqVars, threadVars, readVars, accessVars, pmVars, PathNumbers
<1>15. CASE DataFails
  BY <1>15 DEF DataFails, Works, Fails, deviceVars, irqVars, threadVars, readVars, accessVars, pmVars, PathNumbers
<1>16. CASE Expire
  BY <1>16 DEF Expire, Goto, deviceVars, irqVars, threadVars, readVars, accessVars, pmVars, PathNumbers
<1>17. CASE AccessSaves
  BY <1>17 DEF AccessSaves, deviceVars, irqVars, threadVars, readVars, accessVars, pmVars, PathNumbers
<1>18. CASE AccessRestores
  BY <1>18 DEF AccessRestores, deviceVars, irqVars, threadVars, readVars, accessVars, pmVars, PathNumbers
<1>19. CASE SuspendAsks
  BY <1>19 DEF SuspendAsks, deviceVars, irqVars, threadVars, readVars, accessVars, pmVars, PathNumbers
<1>20. CASE ResumeStart
  BY <1>20 DEF ResumeStart, deviceVars, irqVars, threadVars, readVars, accessVars, pmVars, PathNumbers
<1>21. CASE SuspendUnsubscribes
  BY <1>21 DEF SuspendUnsubscribes, deviceVars, irqVars, threadVars, readVars, accessVars, pmVars, PathNumbers
<1>22. CASE Resume
  <2>1. errors' = errors \/ (errors < MaxErrors /\ errors' = errors + 1)
    BY <1>22 DEF Resume, ResumeIrq, ResumeSubscribes, IrqEnable, Works, Fails
  <2>2. UNCHANGED <<sent, next, accesses, suspends, tpc>>
    BY <1>22 DEF Resume, ResumeIrq, ResumeSubscribes, deviceVars, threadVars, readVars, accessVars
  <2> QED BY <2>1, <2>2, PathBounds DEF PathNumbers
<1>23. CASE UNCHANGED vars
  BY <1>23 DEF vars, deviceVars, irqVars, threadVars, readVars, accessVars, pmVars, PathNumbers
<1> QED
  BY <1>1, <1>2, <1>3, <1>4, <1>5, <1>6, <1>7, <1>8, <1>9, <1>10, <1>11, <1>12, <1>13, <1>14, <1>15, <1>16, <1>17, <1>18, <1>19, <1>20, <1>21, <1>22, <1>23
     DEF Next, InterruptStep, ThreadStep, SuspendStep

LEMMA PathNaturals ==
  ASSUME PathNumbers
  PROVE  /\ sent \in Nat /\ next \in Nat /\ next <= sent /\ sent <= MaxFrames
         /\ errors \in Nat /\ accesses \in Nat
BY PathBounds DEF PathNumbers

\* Who turns the interrupt off while nobody fails wakes sdio_rx.
LEMMA SleepStep == ASSUME PathFlags, PathPlaces, PathNumbers, SleepInv, [Next]_vars PROVE SleepInv'
<1>a. errors \in Nat /\ accesses \in Nat
  BY PathNaturals
<1>1. CASE Arrive
  BY <1>1, <1>a DEF Arrive, deviceVars, irqVars, threadVars, readVars, accessVars, pmVars, SleepInv
<1>2. CASE Interrupt
  BY <1>2, <1>a DEF Interrupt, Handler, IrqEnable, Works, Fails, HostClaimed, deviceVars, irqVars, threadVars, readVars, accessVars, pmVars, SleepInv
<1>3. CASE InterruptWakes
  BY <1>3, <1>a DEF InterruptWakes, WakeThread, deviceVars, irqVars, threadVars, readVars, accessVars, pmVars, SleepInv
<1>4. CASE Wake
  BY <1>4, <1>a DEF Wake, Goto, deviceVars, irqVars, threadVars, readVars, accessVars, pmVars, SleepInv
<1>5. CASE Test
  <2>1. /\ mpc' = mpc /\ dpc' = dpc /\ accesses' = accesses
        /\ tpc = "test" /\ (tpc' \in {"sleepy", "sleep"} => ~armed /\ UNCHANGED <<wakeup, armed>>)
    <3>1. CASE wakeup /\ Goto("test", "read")
      BY <1>5, <3>1 DEF Test, Goto, accessVars, pmVars
    <3>2. CASE ~wakeup /\ UNCHANGED <<wakeup, running, armed>>
      BY <1>5, <3>2 DEF Test, Goto, accessVars, pmVars
    <3> QED BY <1>5, <3>1, <3>2 DEF Test
  <2>2. dpc' # "idle" => accesses' > 0
    BY <2>1 DEF SleepInv
  <2>3. mpc' \in {"suspended", "irq off", "subscribe", "irq on"} => tpc' = "parked"
    BY <2>1 DEF SleepInv
  <2>4. (tpc' \in {"sleepy", "sleep"} /\ armed' /\ errors' = 0 /\ accesses' = 0 /\ ~irqEn')
           => (wakeup' \/ ipc' = "wake")
    BY <2>1 DEF SleepInv
  <2> QED BY <2>2, <2>3, <2>4 DEF SleepInv
<1>6. CASE IrqPeriod
  BY <1>6, <1>a DEF IrqPeriod, Poll, MissIrq, Handler, IrqEnable, WakeThread, ReadControl, AfterPeriod, Works, Fails, HostClaimed, deviceVars, irqVars, threadVars, readVars, accessVars, pmVars, SleepInv
<1>7. CASE PreSched
  BY <1>7, <1>a DEF PreSched, Poll, MissIrq, Handler, IrqEnable, WakeThread, ReadControl, Works, Fails, HostClaimed, deviceVars, irqVars, threadVars, readVars, accessVars, pmVars, SleepInv
<1>8. CASE PreSchedEnables
  <2>1. tpc = "enable" /\ UNCHANGED <<accessVars, pmVars>>
    BY <1>8 DEF PreSchedEnables, Goto
  <2>2. irqEn' = TRUE \/ errors' # 0
    <3>1. CASE Works /\ irqEn' = EnablesWith
      BY <3>1, Zenon DEF EnablesWith
    <3>2. CASE Fails
      BY <1>a, <3>2 DEF Fails
    <3> QED BY <1>8, <3>1, <3>2 DEF PreSchedEnables, IrqEnable
  <2> QED BY <2>1, <2>2 DEF SleepInv, accessVars, pmVars
<1>9. CASE SetInterruptible
  BY <1>9, <1>a DEF SetInterruptible, Goto, deviceVars, irqVars, threadVars, readVars, accessVars, pmVars, SleepInv
<1>10. CASE Woken
  BY <1>10, <1>a DEF Woken, Goto, deviceVars, irqVars, threadVars, readVars, accessVars, pmVars, SleepInv
<1>11. CASE LeaveSuspend
  BY <1>11, <1>a DEF LeaveSuspend, Goto, ShouldSuspend, deviceVars, irqVars, threadVars, readVars, accessVars, pmVars, SleepInv
<1>12. CASE Claim
  BY <1>12, <1>a DEF Claim, Goto, HostClaimed, deviceVars, irqVars, threadVars, readVars, accessVars, pmVars, SleepInv
<1>13. CASE Check
  BY <1>13, <1>a DEF Check, ReadControl, Works, Fails, Pending, deviceVars, irqVars, threadVars, readVars, accessVars, pmVars, SleepInv
<1>14. CASE Data
  BY <1>14, <1>a DEF Data, SkipFirst, Accept, Mismatch, Exception, Works, Fails, Piggyback, deviceVars, irqVars, threadVars, readVars, accessVars, pmVars, SleepInv
<1>15. CASE DataFails
  BY <1>15, <1>a DEF DataFails, Works, Fails, deviceVars, irqVars, threadVars, readVars, accessVars, pmVars, SleepInv
<1>16. CASE Expire
  BY <1>16, <1>a DEF Expire, Goto, deviceVars, irqVars, threadVars, readVars, accessVars, pmVars, SleepInv
<1>17. CASE AccessSaves
  <2>1. accesses' = accesses + 1 /\ accesses' > 0 /\ accesses' # 0 /\ mpc' = mpc /\ tpc' = tpc
    BY <1>17, <1>a DEF AccessSaves, threadVars, pmVars
  <2>2. dpc' # "idle" => accesses' > 0
    BY <2>1, <1>a DEF SleepInv
  <2>3. mpc' \in {"suspended", "irq off", "subscribe", "irq on"} => tpc' = "parked"
    BY <2>1, <1>a DEF SleepInv
  <2>4. (tpc' \in {"sleepy", "sleep"} /\ armed' /\ errors' = 0 /\ accesses' = 0 /\ ~irqEn')
           => (wakeup' \/ ipc' = "wake")
    BY <2>1, Zenon
  <2> QED BY <2>2, <2>3, <2>4 DEF SleepInv
<1>18. CASE AccessRestores
  <2>1. dpc # "idle" /\ accesses' = accesses /\ mpc' = mpc /\ tpc' = tpc
    BY <1>18 DEF AccessRestores, threadVars, pmVars
  <2>a. accesses > 0
    BY <2>1 DEF SleepInv
  <2>2. accesses > 0 /\ accesses' # 0
    BY <2>a, <2>1, <1>a
  <2>3. dpc' # "idle" => accesses' > 0
    BY <2>1, <2>2, <1>a DEF SleepInv
  <2>4. mpc' \in {"suspended", "irq off", "subscribe", "irq on"} => tpc' = "parked"
    BY <2>1, <2>2, <1>a DEF SleepInv
  <2>5. (tpc' \in {"sleepy", "sleep"} /\ armed' /\ errors' = 0 /\ accesses' = 0 /\ ~irqEn')
           => (wakeup' \/ ipc' = "wake")
    BY <2>2, Zenon
  <2> QED BY <2>3, <2>4, <2>5 DEF SleepInv
<1>19. CASE SuspendAsks
  BY <1>19, <1>a DEF SuspendAsks, deviceVars, irqVars, threadVars, readVars, accessVars, pmVars, SleepInv
<1>20. CASE ResumeStart
  BY <1>20, <1>a DEF ResumeStart, deviceVars, irqVars, threadVars, readVars, accessVars, pmVars, SleepInv
<1>21. CASE SuspendUnsubscribes
  BY <1>21, <1>a DEF SuspendUnsubscribes, HostClaimed, deviceVars, irqVars, threadVars, readVars, accessVars, pmVars, SleepInv
<1>22. CASE Resume
  BY <1>22, <1>a DEF Resume, ResumeIrq, ResumeSubscribes, IrqEnable, Works, Fails, HostClaimed, deviceVars, irqVars, threadVars, readVars, accessVars, pmVars, SleepInv
<1>23. CASE UNCHANGED vars
  BY <1>23 DEF vars, deviceVars, irqVars, threadVars, readVars, accessVars, pmVars, SleepInv
<1> QED
  BY <1>1, <1>2, <1>3, <1>4, <1>5, <1>6, <1>7, <1>8, <1>9, <1>10, <1>11, <1>12, <1>13, <1>14, <1>15, <1>16, <1>17, <1>18, <1>19, <1>20, <1>21, <1>22, <1>23
     DEF Next, InterruptStep, ThreadStep, SuspendStep

LEMMA ReadStep == ASSUME PathNumbers, ReadInv, [Next]_vars PROVE ReadInv'
<1>a. next \in Nat
  BY PathNaturals
<1>1. CASE Data
  BY <1>a, <1>1, DataKeeps
<1>2. CASE DataFails
  BY <1>a, <1>2, DataFailsKeeps
<1>3. CASE ~Data /\ ~DataFails
  <2>1. UNCHANGED readVars
    BY <1>3, Zenon
       DEF Next, vars, InterruptStep, ThreadStep, SuspendStep, Resume, ResumeIrq, ResumeSubscribes,
           Arrive, Interrupt, InterruptWakes, Wake, Test, IrqPeriod, PreSched, PreSchedEnables, SetInterruptible, Woken, LeaveSuspend, Claim, Check, Expire, AccessSaves, AccessRestores, SuspendAsks, ResumeStart, SuspendUnsubscribes
  <2> QED BY <2>1, ReadStays
<1> QED BY <1>1, <1>2, <1>3

LEMMA PathStep == PathInv /\ [Next]_vars => PathInv'
BY FlagsStep, PlacesStep, NumbersStep, SleepStep, ReadStep DEF PathInv, PathTypes

-----------------------------------------------------------------------------
(* What it means.                                                          *)

LEMMA LossBounded == PathInv => BoundedLoss
<1> SUFFICES ASSUME PathInv PROVE BoundedLoss
  OBVIOUS
<1>1. /\ dropped \in Nat /\ dropped + Ahead <= (SeqMod - 1) * lost
      /\ rxSeq \in 0 .. SeqMod - 1 /\ lost \in Nat /\ next \in Nat
  BY PathNaturals DEF PathInv, PathTypes, ReadInv, LossInv
<1>2. Ahead \in 0 .. SeqMod - 1
  BY <1>1, AheadType, SeqModType
<1>3. PICK b \in Int : b = (SeqMod - 1) * lost
  BY <1>1, SeqModType
<1>4. dropped <= b
  BY <1>1, <1>2, <1>3
<1> QED BY <1>3, <1>4 DEF BoundedLoss

LEMMA PathMeans == PathInv => TypeOK /\ SleepsArmed /\ InOrder /\ BoundedLoss
<1> SUFFICES ASSUME PathInv PROVE TypeOK /\ SleepsArmed /\ InOrder /\ BoundedLoss
  OBVIOUS
<1>1. TypeOK
  <2>1. delivered \in Seq(0 .. MaxFrames - 1)
    <3>1. delivered \in Seq(Nat) /\ \A i \in 1 .. Len(delivered) : delivered[i] < next
      BY DEF PathInv, ReadInv, OrderInv
    <3>2. next <= MaxFrames /\ next \in Nat /\ MaxFrames \in Nat
      BY PathNaturals, PathBounds DEF PathInv, PathTypes
    <3>3. ASSUME NEW i \in 1 .. Len(delivered) PROVE delivered[i] \in 0 .. MaxFrames - 1
      <4>1. delivered[i] \in Nat /\ delivered[i] < next
        BY <3>1
      <4> QED BY <3>2, <4>1
    <3>4. delivered \in [1 .. Len(delivered) -> 0 .. MaxFrames - 1] /\ Len(delivered) \in Nat
      BY <3>1, <3>3
    <3> QED BY <3>4, SeqDef
  <2>2. {status, latching, irqEn, subscribed, running, expired, armed, wakeup, rxResync, saved}
          \subseteq BOOLEAN
    BY Zenon DEF PathInv, PathFlags
  <2>3. /\ rxSeq \in 0 .. SeqMod - 1 /\ recvCnt \in 0 .. Unchecked
        /\ dropped + lost + Len(delivered) <= next
    BY DEF PathInv, ReadInv, LossInv
  <2> QED BY <2>1, <2>2, <2>3, Zenon DEF PathInv, PathTypes, PathPlaces, PathNumbers, TypeOK
<1>2. SleepsArmed
  BY DEF PathInv, SleepInv, SleepsArmed
<1>3. InOrder
  BY DEF PathInv, ReadInv, OrderInv
<1> QED BY <1>1, <1>2, <1>3, LossBounded

THEOREM PathInvariant == Spec => []PathInv
<1>1. Init => PathInv
  BY PathFirst
<1>2. PathInv /\ [Next]_vars => PathInv'
  BY PathStep
<1> QED BY <1>1, <1>2, PTL DEF Spec

\* atbm_rx_directly: frames are handed on in the order of the device.
THEOREM FramesInOrder == Spec => []InOrder
BY PathInvariant, PathMeans, PTL

\* A lost frame costs at most the rest of the round of the sequence number.
THEOREM LossIsBounded == Spec => []BoundedLoss
BY PathInvariant, PathMeans, PTL

\* atbm_sdio_rx_pre_sched misses nothing before the sleep of sdio_rx.
THEOREM SleepIsArmed == Spec => []SleepsArmed
BY PathInvariant, PathMeans, PTL

-----------------------------------------------------------------------------
(* All of them: each model steps on its own.                               *)

AllInv == SplitInv /\ FrameInv /\ PathInv

LEMMA AllFirst == AllInit => AllInv
BY SplitFirst, FrameFirst, PathFirst DEF AllInit, AllInv

LEMMA Apart ==
  [AllNext]_allVars => [Next]_vars /\ [SplitNext]_multiVars /\ [FrameNext]_rxfVars
BY Zenon DEF AllNext, Path, Split, Frame, allVars

LEMMA AllStep == AllInv /\ [AllNext]_allVars => AllInv'
BY Apart, SplitStep, FrameStep, PathStep DEF AllInv

LEMMA AllMeans == AllInv => ReceiveSafe /\ InOrder /\ Once
BY SplitMeans, FrameMeans, PathMeans, Zenon DEF AllInv, ReceiveSafe

THEOREM ReceiveInvariant == AllSpec => []AllInv
BY AllFirst, AllStep, PTL DEF AllSpec

\* The way of a frame in one: sdio_rx does not sleep past a frame and hands
\* them on in order, a gap costs no more than its round, an aggregate is split
\* without a cut frame, and each frame ends once, with its key.
THEOREM ReceiveIsSafe == AllSpec => [](ReceiveSafe /\ InOrder /\ Once)
BY ReceiveInvariant, AllMeans, PTL

\* Beside everything else, a frame goes up without its cipher header only.
THEOREM ReceivesStripped == AllSpec => Stripped
<1>1. AllInv => FrameInv
  BY DEF AllInv
<1> QED BY ReceiveInvariant, <1>1, UpStripped, PTL DEF Stripped
=============================================================================

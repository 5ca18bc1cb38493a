------------------------------- MODULE MultiRx ------------------------------
(***************************************************************************)
(* The split of an aggregated indication (atbm_rx_tasklet, bh_sdio.c): the  *)
(* firmware puts several received frames, each with the header of an        *)
(* indication and the descriptor's overhead, behind one header with their   *)
(* number; the driver copies each and hands the copy to wsm_handle_rx, which *)
(* keeps it or not.                                                         *)
(*                                                                          *)
(* The firmware puts the frames one behind the other, before the driver     *)
(* looks at the aggregate; the length found where no frame begins is        *)
(* anything.                                                                *)
(***************************************************************************)
EXTENDS Integers, Sequences, FiniteSets

CONSTANTS
  Lens,       \* the lengths of indications, headers included
  MaxInOne    \* bound: frames of an aggregate

\* wsm_hdr, the fields of wsm_rx and an 802.11 header: 4 + 16 + 24.
MinLen == 44

ASSUME MultiRxAssumption ==
  /\ Lens # {} /\ \A l \in Lens : l \in Nat /\ l >= MinLen
  /\ MaxInOne \in Nat \ {0}

VARIABLES
  lens,      \* the lengths of the frames of the aggregate
  places,    \* where they begin, and where the next one would
  splitPc,   \* where the loop is
  at,        \* wsm: where the frame begins that is looked at
  wsm_len, data_len, RxFrameNum,
  copy,      \* atbm_skb_copy # NULL
  handed,    \* the frames given to wsm_handle_rx; 0 if there is no such frame
  kept,      \* frames wsm_handle_rx took
  freed      \* copies freed

splitVars == <<at, wsm_len, data_len, RxFrameNum>>
copyVars == <<copy, kept, freed>>
aggregateVars == <<lens, places>>
multiVars == <<aggregateVars, splitPc, splitVars, copyVars, handed>>

\* RX_ALLOC_BUFF_OFFLOAD
Overhead == 40 + 16 - 16

\* ALIGN(l + RX_ALLOC_BUFF_OFFLOAD, 4)
Stride(l) == 4 * ((l + Overhead + 3) \div 4)

\* What the firmware sends (external): the last frame is followed by its
\* overhead or not.
DeviceStride(l) == 4 * ((l + 40 + 3) \div 4)
Sizes == {places[Len(lens) + 1], places[Len(lens)] + lens[Len(lens)]}
FrameAt(p) == {i \in DOMAIN lens : places[i] = p}
LengthAt(p) == IF FrameAt(p) # {} THEN {lens[i] : i \in FrameAt(p)} ELSE Lens \cup {0}

SplitInit ==
  /\ \E l \in Lens : lens = <<l>> /\ places = <<0, DeviceStride(l)>>
  /\ splitPc = "begin"
  /\ at = 0 /\ wsm_len = 0 /\ data_len = 0 /\ RxFrameNum = 0
  /\ copy = FALSE /\ handed = <<>> /\ kept = {} /\ freed = 0

\* The firmware (external) puts a frame behind the others.
PutFrame(l) ==
  /\ splitPc = "begin" /\ Len(lens) < MaxInOne
  /\ lens' = Append(lens, l)
  /\ places' = Append(places, places[Len(places)] + DeviceStride(l))
  /\ UNCHANGED <<splitPc, splitVars, copyVars, handed>>

-----------------------------------------------------------------------------

SplitGoto(from, to) == splitPc = from /\ splitPc' = to

Begin ==
  /\ SplitGoto("begin", "copy")
  /\ RxFrameNum' = Len(lens) /\ data_len' \in Sizes /\ wsm_len' \in LengthAt(at)
  /\ UNCHANGED <<aggregateVars, at, copyVars, handed>>

\* The copy; a frame that does not fit ends the loop.
Copy ==
  /\ SplitGoto("copy", IF data_len < wsm_len THEN "end" ELSE "handle")
  /\ copy' = (data_len >= wsm_len)
  /\ UNCHANGED <<aggregateVars, splitVars, handed, kept, freed>>

FreedOnError(taken) == IF taken THEN 0 ELSE 1

\* wsm_handle_rx takes the frame or not; when it fails, the rest of the
\* aggregate is left.
Handle ==
  /\ handed' = Append(handed, IF FrameAt(at) = {} THEN 0 ELSE CHOOSE i \in FrameAt(at) : TRUE)
  /\ \E taken, fails \in BOOLEAN :
       /\ kept' = IF taken THEN kept \cup {Len(handed')} ELSE kept
       /\ IF fails
          THEN SplitGoto("handle", "failed") /\ copy' = FALSE /\ freed' = freed + FreedOnError(taken)
          ELSE SplitGoto("handle", "advance") /\ copy' = ~taken /\ UNCHANGED freed
  /\ UNCHANGED <<aggregateVars, splitVars>>

More(n, rest) == n > 0 /\ rest > 32

\* The next header; what wsm_handle_rx did not take is freed.
Advance ==
  /\ data_len' = data_len - Stride(wsm_len) /\ RxFrameNum' = RxFrameNum - 1
  /\ at' = at + Stride(wsm_len) /\ wsm_len' \in LengthAt(at')
  /\ SplitGoto("advance", IF More(RxFrameNum', data_len') THEN "copy" ELSE "end")
  /\ freed' = freed + (IF copy THEN 1 ELSE 0) /\ copy' = FALSE
  /\ UNCHANGED <<aggregateVars, handed, kept>>

\* BUG_ON(RxFrameNum != 0)
End ==
  /\ SplitGoto("end", IF RxFrameNum = 0 THEN "done" ELSE "bug")
  /\ UNCHANGED <<aggregateVars, splitVars, copyVars, handed>>

SplitNext == (\E l \in Lens : PutFrame(l)) \/ Begin \/ Copy \/ Handle \/ Advance \/ End

SplitSpec == SplitInit /\ [][SplitNext]_multiVars

-----------------------------------------------------------------------------
\* The variables have their types; data_len, which is signed here and compared
\* with an unsigned length, ends at most one overhead below zero.
SplitTypeOK ==
  /\ splitPc \in {"begin", "copy", "handle", "advance", "end", "failed", "done", "bug"}
  /\ at \in Nat /\ wsm_len \in Lens \cup {0} /\ data_len \in Int /\ data_len >= -43 /\ RxFrameNum \in 0 .. MaxInOne
  /\ copy \in BOOLEAN /\ handed \in Seq(0 .. MaxInOne)
  /\ kept \subseteq 1 .. MaxInOne /\ freed \in 0 .. MaxInOne

\* Each frame of the aggregate is handed over once and in its order: where the
\* driver looks for the next header is where the firmware has put it, and what
\* is left tells whether there is one.
Whole ==
  /\ handed = [i \in 1 .. Len(handed) |-> i]
  /\ splitPc = "done" => Len(handed) = Len(lens)

\* BUG_ON(RxFrameNum != 0) does not stop the machine.
NoBug == splitPc # "bug"

\* A copy is wsm_handle_rx's or is freed, once.
Owned ==
  splitPc \in {"failed", "done"} => ~copy /\ Cardinality(kept) + freed = Len(handed)
=============================================================================

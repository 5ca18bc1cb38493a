----------------------------- MODULE BufferPool -----------------------------
(***************************************************************************)
(* What the credit scheme between the host and the device has to provide:   *)
(* a pool of Size input buffers.  A buffer is taken before a frame is put   *)
(* together and given back when the device has consumed the frame.          *)
(***************************************************************************)
EXTENDS Integers

CONSTANT Size

VARIABLE used

Init == used = 0

Take == used < Size /\ used' = used + 1

Give == used > 0 /\ used' = used - 1

Next == Take \/ Give

Spec == Init /\ [][Next]_used
=============================================================================

------------------------------ MODULE Delivery ------------------------------
(***************************************************************************)
(* What the receive path promises to the network stack about one stream of  *)
(* frames (a station and a TID) under a block acknowledgement session: what *)
(* is handed over was received, in the order in which the peer numbered it  *)
(* and once; frames may be left out.  Only a frame of Twice may be handed   *)
(* over a second time, before any other.                                    *)
(***************************************************************************)
EXTENDS Integers, Sequences

CONSTANT Twice

VARIABLES
  got,        \* the numbers of the frames that were received
  delivered   \* the numbers of the frames handed over, in order

Init == got = {} /\ delivered = <<>>

\* The peer numbers its frames from 0, without end.
Receive(n) ==
  /\ got' = got \cup {n}
  /\ UNCHANGED delivered

Extends(s, t) == Len(t) > Len(s) /\ SubSeq(t, 1, Len(s)) = s

\* One call of the handlers hands over all the frames of its list.
Deliver ==
  /\ Extends(delivered, delivered')
  /\ \A i \in Len(delivered) + 1 .. Len(delivered') :
       /\ delivered'[i] \in got
       /\ i > 1 => \/ delivered'[i - 1] < delivered'[i]
                   \/ delivered'[i - 1] = delivered'[i] /\ delivered'[i] \in Twice
  /\ UNCHANGED got

Next == (\E n \in got' : Receive(n)) \/ Deliver

Spec == Init /\ [][Next]_<<got, delivered>>
=============================================================================

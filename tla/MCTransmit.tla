------------------------------ MODULE MCTransmit ------------------------------
(***************************************************************************)
(* The two models of a frame that goes out: what atbm_tx makes of it before *)
(* it is queued (XmitFrame), and how many may be queued (TxQueue).  They    *)
(* share no variable: part says which of them the behaviour is of.          *)
(***************************************************************************)
EXTENDS TxQueue, XmitFrame

VARIABLE part

AllInit == part \in {"frame", "queue"} /\ XmitInit /\ Init

AllNext ==
  /\ UNCHANGED part
  /\ \/ part = "frame" /\ XmitNext /\ UNCHANGED vars
     \/ part = "queue" /\ Next /\ UNCHANGED xmitVars

\* A queue that stays in its initial state has nothing fairness asks for.
AllSpec == AllInit /\ [][AllNext]_<<vars, xmitVars, part>> /\ Fairness

-----------------------------------------------------------------------------
(* Properties: the ones of a model that go together, as one.              *)

\* The models' variables stay in their ranges and tx_num_queued is what it counts
\* (Accounting). A frame reaches atbm_tx with room for all that is pushed there
\* (RoomKept), all its headers are those of one key (SameKey), and it has a QoS
\* header if its peer has one (QosAsPeer).
TransmitSafe ==
  /\ TypeOK /\ Accounting
  /\ XmitTypeOK /\ RoomKept /\ SameKey /\ QosAsPeer
=============================================================================

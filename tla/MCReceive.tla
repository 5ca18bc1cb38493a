------------------------------ MODULE MCReceive ------------------------------
(***************************************************************************)
(* The way of a received frame in one model-checking run: how sdio_rx is    *)
(* told of it and reads it (RxPath), how an aggregate is split (MultiRx)    *)
(* and what becomes of one frame (RxFrames).  The three models share no     *)
(* variable: part says which of them the behaviour is of.                   *)
(***************************************************************************)
EXTENDS RxPath, RxFrames, MultiRx

VARIABLE part

allVars == <<vars, multiVars, rxfVars, part>>

\* An access point; a station beside ndo_stop; a station whose frames race with
\* the events that make and end the connection.
Three == {<<TRUE, TRUE, FALSE>>, <<FALSE, TRUE, TRUE>>, <<FALSE, FALSE, FALSE>>}

\* One aggregate and one setting will do for the behaviours of the other parts.
One ==
  /\ part # "split" => lens = <<CHOOSE l \in Lens : TRUE>>
  /\ part # "frame" => settled /\ ap /\ cipher = "none"
  /\ part # "path" => latching /\ irqEn /\ rxResync

AllInit ==
  /\ part \in {"path", "split", "frame"}
  /\ Init /\ SplitInit /\ FrameInit /\ One

Path(step) == part = "path" /\ step /\ UNCHANGED <<multiVars, rxfVars, part>>
Split(step) == part = "split" /\ step /\ UNCHANGED <<vars, rxfVars, part>>
Frame(step) == part = "frame" /\ step /\ UNCHANGED <<vars, multiVars, part>>

AllNext == Path(Next) \/ Split(SplitNext) \/ Frame(FrameNext)

\* The fairness of RxPath and of RxFrames: as only one of them is stepped, a
\* strong conjunct of each is one conjunct here.
AllSpec ==
  /\ AllInit /\ [][AllNext]_allVars
  /\ WF_allVars(Path(InterruptStep)) /\ WF_allVars(Path(Expire))
  /\ WF_allVars(Frame(RxStep)) /\ WF_allVars(Frame(Events))
  /\ SF_allVars(Path(ThreadStep) \/ Frame(FrameWork))
  /\ SF_allVars(Path(AccessRestores \/ SuspendStep))

-----------------------------------------------------------------------------
(* Properties: the ones of a model that go together, as one.              *)

\* The models' variables stay in their ranges. sdio_rx does not sleep past a
\* frame (SleepsArmed), a gap costs no more than its round (BoundedLoss), no
\* frame of an aggregate is cut, left out, or freed by two (Whole, NoBug, Owned),
\* and what is read as an encrypted A-MSDU or group frame has its key (KeyKnown).
ReceiveSafe ==
  /\ TypeOK /\ SleepsArmed /\ BoundedLoss
  /\ FrameTypeOK /\ KeyKnown
  /\ SplitTypeOK /\ Whole /\ NoBug /\ Owned

\* Every frame of the device is read while the machine is up (FramesServed), and
\* the work empties the queue of the interface while it is up (QueueDrains).
ReceiveServes == FramesServed /\ QueueDrains
=============================================================================

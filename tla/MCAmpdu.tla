------------------------------- MODULE MCAmpdu -------------------------------
(***************************************************************************)
(* Block acknowledgement in one model-checking run: the ring that puts the  *)
(* frames of a session in order (Reorder, which implements Delivery) and    *)
(* the life of the sessions (BaSession).  The two models share no variable: *)
(* part says which of them the behaviour is of.                             *)
(***************************************************************************)
EXTENDS Reorder, BaSession

VARIABLE part

\* One number of processors will do for the behaviours of the ring.
AllInit ==
  /\ part \in {"ring", "session"} /\ Init /\ BaInit
  /\ part = "ring" => cpus = CHOOSE c \in BaCpus : TRUE

AllNext ==
  /\ UNCHANGED part
  /\ \/ part = "ring" /\ Next /\ UNCHANGED baVars
     \/ part = "session" /\ BaNext /\ UNCHANGED vars

\* In the initial state of a model there is nothing fairness asks for.
AllSpec ==
  AllInit /\ [][AllNext]_<<vars, baVars, part>> /\ Fairness /\ BaFairness

-----------------------------------------------------------------------------
(* Properties: the ones of a model that go together, as one.              *)

\* The models' variables stay in their ranges. The ring agrees with its count and
\* its timer (StoredCount, RingOK), and neither a session nor a station is freed
\* under whom fetched it (FetchedAlive, StationAlive).
AmpduSafe ==
  /\ TypeOK /\ StoredCount /\ RingOK
  /\ BaTypeOK /\ FetchedAlive /\ StationAlive

\* No frame is held for ever (Released), and no session whose peer fell silent
\* stays (IdleEnds).
AmpduEnds == Released /\ IdleEnds
=============================================================================

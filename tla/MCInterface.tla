----------------------------- MODULE MCInterface -----------------------------
(***************************************************************************)
(* The driver's interface in one model-checking run: the stations it knows, *)
(* as a station (Station) and as an access point (ApStations), the probe    *)
(* and release of the driver (Lifecycle), and the accesses to registers of  *)
(* the chip while the firmware is loaded (DirectAccess).  Station and       *)
(* ApStations share the queue of events, of which a behaviour serves one;   *)
(* the others share nothing: part says which of them the behaviour is of.   *)
(***************************************************************************)
EXTENDS Station, ApStations, Lifecycle, DirectAccess

VARIABLE part

allVars == <<queueVars, stationVars, apOwnVars, lifeVars, directVars, part>>

\* Each step of the probe that may fail is in one of these.
SomeFail ==
  {{"on", "alloc", "threads", "load"}, {"on", "alloc", "pm", "threads", "load", "netdev"}}

\* One setting will do for the behaviours of the other parts.
One ==
  /\ part # "station" => racing = CHOOSE r \in Racings : TRUE
  /\ part # "ap" => prompt = CHOOSE p \in Prompts : TRUE
  /\ part # "module" => failing = CHOOSE f \in ProbeFails : TRUE

AllInit ==
  /\ part \in {"station", "ap", "module", "access"}
  /\ Init /\ ApInit /\ LifeInit /\ AccessInit /\ One

AsStation(step) ==
  part = "station" /\ step /\ UNCHANGED <<apOwnVars, lifeVars, directVars, part>>
AsAp(step) ==
  part = "ap" /\ step /\ UNCHANGED <<stationVars, lifeVars, directVars, part>>
OfModule(step) ==
  part = "module" /\ step /\ UNCHANGED <<vars, apOwnVars, directVars, part>>
OfAccess(step) ==
  part = "access" /\ step /\ UNCHANGED <<vars, apOwnVars, lifeVars, part>>

AllNext == AsStation(Next) \/ AsAp(ApNext) \/ OfModule(LifeNext) \/ OfAccess(AccessNext)

\* The work queue, ndo_open, every task of the probe and the register accesses
\* go on; the firmware, the user and the card owe nothing.
AllSpec ==
  /\ AllInit /\ [][AllNext]_allVars
  /\ WF_allVars(AsStation(QueueStep)) /\ WF_allVars(AsStation(HandlerStep))
  /\ WF_allVars(AsStation(NdoStep))
  /\ WF_allVars(AsAp(ApQueueStep)) /\ WF_allVars(AsAp(ApHandlerStep))
  /\ WF_allVars(OfModule(ModuleStep)) /\ WF_allVars(OfModule(BusStep))
  /\ WF_allVars(OfModule(GracePeriod)) /\ WF_allVars(OfModule(EventWork))
  /\ WF_allVars(OfAccess(AccessNext))

-----------------------------------------------------------------------------
(* Properties: the ones of a model that go together, as one.              *)

\* The models' variables stay in their ranges. Events are noticed (Noticed); an
\* access point has one entry, which lives while it is used (OneEntry,
\* UsesLive); the host knows the stations of the firmware (KnowsTheStations); a
\* failing init undoes what it did, and atbm_rcu.head is queued once
\* (InitUndone, HeadOnce); and CONFIG is out of access mode when an access is
\* over (ModeLeft).
InterfaceSafe ==
  /\ Noticed /\ TypeOK /\ OneEntry /\ UsesLive
  /\ ApTypeOK /\ KnowsTheStations
  /\ LifeTypeOK /\ HeadOnce /\ InitUndone
  /\ AccessTypeOK /\ ModeLeft

\* Every event is taken (EventsTaken), the reported stations stay
\* (KeepsTheReported), the exit of the module returns (StartedExitReturns), and
\* every access of a register ends (Ends).
InterfaceGoesOn == EventsTaken /\ KeepsTheReported /\ StartedExitReturns /\ Ends
=============================================================================

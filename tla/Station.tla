------------------------------- MODULE Station -----------------------------
(***************************************************************************)
(* The interface as a station: the table of sta_info.c, connect_success and *)
(* the carrier (iface.c), kept by the handler of the firmware's events on   *)
(* atbm_wq and by ndo_open and ndo_stop, which asks the firmware itself.    *)
(*                                                                          *)
(* A section under sta_mtx is one step; what happens inside the removal of  *)
(* an entry is the subject of BaSession.                                    *)
(***************************************************************************)
EXTENDS EventQueue, FiniteSets

CONSTANTS
  Bssids,      \* the access points
  Racings,     \* the values of racing to look at
  MaxEntries,  \* bound: entries allocated
  MaxChanges,  \* bound: connections made and lost
  MaxOpens     \* bound: times the interface is brought up

ASSUME StationAssumption ==
  /\ Bssids # {} /\ "none" \notin Bssids /\ Racings \subseteq BOOLEAN
  /\ {MaxEntries, MaxChanges, MaxOpens} \subseteq Nat

VARIABLES
  racing,   \* ndo_open and ndo_stop may run while events are on their way
  link,     \* the access point the firmware is connected to, or NoBss
  changes,  \* times it changed
  entry,    \* struct sta_info: [bssid, life]
  pc, mine, \* task -> its next step, the entry it has a pointer to
  cnf,      \* ndo_open: the answer to wsm_get_config
  success,  \* vif->connect_success
  carrier,  \* netif_carrier_on
  enabled,  \* vif->enabled
  opens     \* times ndo_open ran

ifaceVars == <<success, carrier>>
taskVars == <<pc, mine>>
openVars == <<racing, cnf, enabled, opens>>
stationVars == <<link, changes, entry, taskVars, openVars, ifaceVars>>
vars == <<queueVars, stationVars>>

Wq == "atbm_wq"
Ndo == "ndo"
Tasks == {Wq, Ndo}
NoBss == "none"
None == 0
Ids == 1 .. MaxEntries

Init ==
  /\ QueueInit /\ racing \in Racings
  /\ link = NoBss /\ changes = 0
  /\ entry = [i \in Ids |-> [bssid |-> NoBss, life |-> "unused"]]
  /\ pc = [t \in Tasks |-> "idle"] /\ mine = [t \in Tasks |-> None]
  /\ cnf = NoBss /\ enabled = FALSE /\ opens = 0
  /\ success = FALSE /\ carrier = FALSE

Goto(t, from, to) == pc[t] = from /\ pc' = [pc EXCEPT ![t] = to]

\* The step after atbm_sta_connect_event or atbm_sta_disconnect_event.
Return(t) == IF t = Wq THEN "idle" ELSE "carrier"

\* The handler goes on to the next event; ndo_open was called for itself.
Returns(t) == IF t = Wq THEN Handled ELSE UNCHANGED <<events, first, work, handling, batch>>

\* Without racing ndo_open and ndo_stop have the interface to themselves.
Alone == racing \/ NoEvents
Undisturbed == racing \/ pc[Ndo] = "idle"

-----------------------------------------------------------------------------
(* The firmware and its events.                                            *)

Changes(bss, e) ==
  /\ Undisturbed /\ changes < MaxChanges /\ changes' = changes + 1
  /\ link' = bss /\ Indicate(e)
  /\ UNCHANGED <<entry, taskVars, openVars, ifaceVars>>

Connects == \E b \in Bssids :
  link = NoBss /\ Changes(b, [kind |-> "connect", bssid |-> b])
Loss == link # NoBss /\ Changes(NoBss, [kind |-> "lost", bssid |-> link])

\* The steps of the queue itself.
QueueStep ==
  /\ \/ QueueWork
     \/ TakeBatch
     \/ pc[Wq] = "idle" /\ EndBatch
  /\ UNCHANGED <<link, changes, entry, taskVars, openVars, ifaceVars>>

-----------------------------------------------------------------------------
(* The table.                                                              *)

\* sta_info_get: at most one, where OneEntry holds.
Hashed(b) == {i \in Ids : entry[i].life = "hashed" /\ entry[i].bssid = b}
Table == {i \in Ids : entry[i].life = "hashed"}
Free(entries) == [i \in Ids |-> IF i \in entries THEN [entry[i] EXCEPT !.life = "freed"] ELSE entry[i]]

\* exist_sta in sta_info_insert_non_ibss
Exists(b) == Hashed(b) # {}

\* "if (ret) goto exit"
OnExist(t, from) == Goto(t, from, Return(t)) /\ Returns(t)

\* atbm_sta_connect_event: sta_info_alloc, sta_info_insert_rcu.
Insert(t, b, from) ==
  /\ \E i \in Ids :
       /\ entry[i].life = "unused" /\ \A j \in Ids : j < i => entry[j].life # "unused"
       /\ mine' = [mine EXCEPT ![t] = i]
       /\ entry' = [entry EXCEPT ![i] =
                     [bssid |-> b, life |-> IF Exists(b) THEN "freed" ELSE "hashed"]]
  /\ IF Exists(b)
     THEN OnExist(t, from)
     ELSE Goto(t, from, "fill") /\ UNCHANGED <<events, first, work, handling, batch>>
  /\ UNCHANGED <<lost, link, changes, openVars, ifaceVars>>

\* sta_info_alloc fails.
InsertFails(t, from) ==
  /\ Goto(t, from, Return(t)) /\ Returns(t) /\ Loses
  /\ UNCHANGED <<link, changes, entry, mine, openVars, ifaceVars>>

\* The rest of atbm_sta_connect_event, on the entry, under sta_mtx.
Fill(t) ==
  /\ Goto(t, "fill", Return(t)) /\ Returns(t)
  /\ success' = TRUE /\ carrier' = TRUE
  /\ UNCHANGED <<lost, link, changes, entry, mine, openVars>>

HandleConnect ==
  /\ Handles("connect")
  /\ Insert(Wq, Head(batch).bssid, "idle") \/ InsertFails(Wq, "idle")

\* atbm_sta_disconnect_event looks the entry up without the mutex ...
HandleLost ==
  /\ Handles("lost")
  /\ IF Hashed(Head(batch).bssid) = {}
     THEN /\ pc[Wq] = "idle" /\ Handled /\ UNCHANGED taskVars
     ELSE /\ Goto(Wq, "idle", "drop")
          /\ \E i \in Hashed(Head(batch).bssid) : mine' = [mine EXCEPT ![Wq] = i]
          /\ UNCHANGED <<events, first, work, handling, batch>>
  /\ UNCHANGED <<lost, link, changes, entry, openVars, ifaceVars>>

\* ... and removes it under the mutex.
Drop ==
  /\ Goto(Wq, "drop", "idle") /\ Handled
  /\ entry' = Free({mine[Wq]})
  /\ success' = FALSE /\ carrier' = FALSE
  /\ UNCHANGED <<lost, link, changes, mine, openVars>>

HandlerStep == HandleConnect \/ HandleLost \/ Drop \/ Fill(Wq)

-----------------------------------------------------------------------------
(* atbm_open and atbm_stop, under the rtnl.                                *)

\* wsm_get_config
Open ==
  /\ Alone /\ ~enabled /\ opens < MaxOpens /\ opens' = opens + 1 /\ UNCHANGED racing
  /\ Goto(Ndo, "idle", "config") /\ enabled' = TRUE /\ cnf' = link
  /\ UNCHANGED <<queueVars, link, changes, entry, mine, ifaceVars>>

\* vif->connect_success = cnf.bconnect
OpenConfig ==
  /\ Goto(Ndo, "config", IF cnf = NoBss THEN "carrier" ELSE "connect")
  /\ success' = (cnf # NoBss)
  /\ UNCHANGED <<queueVars, link, changes, entry, mine, openVars, carrier>>

OpenConnect == Insert(Ndo, cnf, "connect") \/ InsertFails(Ndo, "connect")

OpenCarrier ==
  /\ Goto(Ndo, "carrier", "idle") /\ carrier' = success
  /\ UNCHANGED <<queueVars, link, changes, entry, mine, openVars, success>>

\* sta_info_flush; flush_work and synchronize_rcu do not concern the table.
Stop ==
  /\ Alone /\ enabled /\ pc[Ndo] = "idle"
  /\ enabled' = FALSE /\ entry' = Free(Table)
  /\ UNCHANGED <<queueVars, link, changes, taskVars, racing, cnf, opens, ifaceVars>>

NdoStep == OpenConfig \/ OpenConnect \/ OpenCarrier \/ Fill(Ndo)

-----------------------------------------------------------------------------

Next ==
  Connects \/ Loss \/ QueueStep \/ HandlerStep \/ Open \/ NdoStep \/ Stop

Spec == Init /\ [][Next]_vars

-----------------------------------------------------------------------------
(* Properties.                                                             *)

\* Every variable stays in its range, and a task has an entry to work on.
TypeOK ==
  /\ \A t \in Tasks : pc[t] \in {"fill", "drop"} => mine[t] # None
  /\ link \in Bssids \cup {NoBss} /\ cnf \in Bssids \cup {NoBss}
  /\ racing \in Racings /\ changes \in 0 .. MaxChanges /\ lost \in 0 .. MaxLost /\ opens \in 0 .. MaxOpens
  /\ {first, work, handling, success, carrier, enabled} \subseteq BOOLEAN
  /\ entry \in [Ids -> [bssid : Bssids \cup {NoBss}, life : {"unused", "hashed", "freed"}]]
  /\ pc \in [Tasks -> {"idle", "fill", "drop", "config", "connect", "carrier"}]
  /\ mine \in [Tasks -> Ids \cup {None}]

\* Nothing is under way and no allocation failed.
Settled == NoEvents /\ pc[Ndo] = "idle" /\ lost = 0

\* When every event was handled and the interface is up, the table, the flag
\* and the carrier say what the firmware says, however the two ways in which
\* they learn of it, the event and the answer at ndo_open, came together.  It
\* needs that ndo_open and ndo_stop do not race with events.
AgreesWithFirmware ==
  Settled /\ enabled /\ ~racing =>
    /\ success = (link # NoBss) /\ carrier = success
    /\ {entry[i].bssid : i \in Table} = {link} \ {NoBss}

\* "it is not racy against itself because it keeps the mutex locked"
\* (sta_info.c:256): no access point has two entries.
OneEntry == \A b \in Bssids : Cardinality(Hashed(b)) <= 1

\* "All users of the structure need to be RCU protected so that the structure
\* won't be freed before they are done using it" (sta_info.c:59): the entry
\* that a task works on was not freed.  The tasks hold no RCU section: they
\* rely on ndo_stop not coming between two steps of an event.
UsesLive ==
  \A t \in Tasks :
    pc[t] \in {"fill", "drop"} /\ ~racing => entry[mine[t]].life = "hashed"
=============================================================================

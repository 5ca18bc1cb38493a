-------------------------- MODULE MCInterface_proofs -------------------------
(***************************************************************************)
(* Proofs about the driver's interface, for any number of access points,    *)
(* stations, events, failures and probes: the queue of the events           *)
(* (EventQueue), the interface as a station (Station) and as an access      *)
(* point (ApStations), the probe and release (Lifecycle), the accesses to   *)
(* registers (DirectAccess), and what MCInterface puts together of them.    *)
(*                                                                          *)
(* That the host agrees with the firmware rests on the order of the events: *)
(* the batch and the queue form a chain of access points that leads from    *)
(* the one the handler knows to the one of the firmware (Chain).  An access *)
(* point of the host's own follows its stations one event behind (Tells).   *)
(***************************************************************************)
EXTENDS MCInterface, FiniteSetTheorems, TLAPS

-----------------------------------------------------------------------------
(* The queue of the events.                                                *)

QueueFlags ==
  /\ first \in BOOLEAN /\ work \in BOOLEAN /\ handling \in BOOLEAN
  /\ lost \in 0 .. MaxLost

\* The events are of the kinds E, and one that waits is noticed.
QueueInv(E) ==
  /\ events \in Seq(E) /\ batch \in Seq(E)
  /\ events # <<>> => first \/ work
  /\ batch # <<>> => handling
  /\ QueueFlags

LEMMA QueueFirst == ASSUME NEW E, QueueInit PROVE QueueInv(E)
<1>1. first \in BOOLEAN /\ work \in BOOLEAN /\ handling \in BOOLEAN
  BY Zenon DEF QueueInit
<1>2. lost \in 0 .. MaxLost
  BY EventQueueAssumption DEF QueueInit
<1>3. events \in Seq(E) /\ batch \in Seq(E) /\ events = <<>> /\ batch = <<>>
  BY DEF QueueInit
<1> QED BY <1>1, <1>2, <1>3 DEF QueueInv, QueueFlags

LEMMA LosesType == ASSUME QueueFlags, Loses PROVE lost' \in 0 .. MaxLost /\ lost' # 0
BY EventQueueAssumption DEF QueueFlags, Loses

LEMMA IndicateKeeps ==
  ASSUME NEW E, QueueInv(E), NEW e \in E, Indicate(e) PROVE QueueInv(E)'
<1>1. UNCHANGED <<work, handling, batch>>
  BY DEF Indicate
<1>2. CASE events' = Added(events, e) /\ first' = WasEmpty(events) /\ UNCHANGED lost
  <2>1. events' \in Seq(E)
    BY <1>2 DEF QueueInv, Added
  <2>2. first' \in BOOLEAN /\ (events = <<>> => first')
    BY <1>2, Zenon DEF WasEmpty
  <2>3. events' # <<>> => first' \/ work'
    <3>1. ~first /\ work' = work
      BY <1>1 DEF Indicate
    <3>2. events # <<>> => work
      BY <3>1 DEF QueueInv
    <3> QED BY <2>2, <3>1, <3>2, Zenon
  <2> QED BY <1>1, <1>2, <2>1, <2>2, <2>3 DEF QueueInv, QueueFlags
<1>3. CASE Loses /\ UNCHANGED <<events, first>>
  BY <1>1, <1>3, LosesType DEF QueueInv, QueueFlags
<1> QED BY <1>2, <1>3 DEF Indicate

LEMMA QueueKeeps ==
  ASSUME NEW E, QueueInv(E), QueueWork \/ TakeBatch \/ EndBatch PROVE QueueInv(E)'
<1>1. CASE QueueWork
  <2>1. first' \in BOOLEAN /\ work' \in BOOLEAN /\ work'
    BY <1>1, Zenon DEF QueueWork
  <2> QED BY <1>1, <2>1 DEF QueueWork, QueueInv, QueueFlags
<1>2. CASE TakeBatch
  <2>1. work' \in BOOLEAN /\ handling' \in BOOLEAN /\ handling'
    BY <1>2, Zenon DEF TakeBatch
  <2>2. events' \in Seq(E) /\ events' = <<>>
    BY <1>2 DEF TakeBatch
  <2> QED BY <1>2, <2>1, <2>2 DEF TakeBatch, QueueInv, QueueFlags
<1>3. CASE EndBatch
  <2>1. handling' \in BOOLEAN
    BY <1>3, Zenon DEF EndBatch
  <2> QED BY <1>3, <2>1 DEF EndBatch, QueueInv, QueueFlags
<1> QED BY <1>1, <1>2, <1>3

LEMMA HandledKeeps ==
  ASSUME NEW E, QueueInv(E), batch # <<>>, Handled, Loses \/ UNCHANGED lost
  PROVE  QueueInv(E)' /\ batch' = Tail(batch)
<1>1. batch' \in Seq(E) /\ batch' = Tail(batch)
  BY DEF Handled, QueueInv
<1>2. lost' \in 0 .. MaxLost
  BY LosesType DEF QueueInv, QueueFlags
<1> QED BY <1>1, <1>2 DEF Handled, QueueInv, QueueFlags

LEMMA QueueStays ==
  ASSUME NEW E, QueueInv(E), UNCHANGED <<events, first, work, handling, batch>>,
         Loses \/ UNCHANGED lost
  PROVE  QueueInv(E)'
BY LosesType DEF QueueInv, QueueFlags

-----------------------------------------------------------------------------
(* The station.                                                            *)

StationEvents == [kind : {"connect", "lost"}, bssid : Bssids]
EntryType == [bssid : Bssids \cup {NoBss}, life : {"unused", "hashed", "freed"}]

StationFlags == racing \in Racings /\ {success, carrier, enabled} \subseteq BOOLEAN

StationTypes ==
  /\ link \in Bssids \cup {NoBss} /\ cnf \in Bssids \cup {NoBss}
  /\ changes \in 0 .. MaxChanges /\ opens \in 0 .. MaxOpens
  /\ entry \in [Ids -> EntryType]
  /\ pc \in [Tasks -> {"idle", "fill", "drop", "config", "connect", "carrier"}]
  /\ mine \in [Tasks -> Ids \cup {None}]

\* The handler is at an event; ndo_open has the interface to itself.
TaskInv ==
  /\ pc[Wq] \in {"idle", "fill", "drop"} /\ pc[Ndo] # "drop"
  /\ pc[Wq] # "idle" => batch # <<>>
  /\ pc[Wq] = "fill" => Head(batch).kind = "connect"
  /\ pc[Wq] = "drop" => Head(batch).kind = "lost"
  /\ \A t \in Tasks : pc[t] \in {"fill", "drop"} => mine[t] \in Ids
  /\ pc[Ndo] \in {"connect", "fill"} => cnf # NoBss
  /\ ~racing /\ pc[Ndo] # "idle" => NoEvents /\ batch = <<>>

TableInv ==
  /\ \A i, j \in Ids :
       entry[i].life = "hashed" /\ entry[j].life = "hashed" /\ entry[i].bssid = entry[j].bssid => i = j
  /\ ~racing => \A t \in Tasks : pc[t] \in {"fill", "drop"} => entry[mine[t]].life = "hashed"

StationInv == QueueInv(StationEvents) /\ StationFlags /\ StationTypes /\ TaskInv /\ TableInv

-----------------------------------------------------------------------------
LEMMA TasksApart == Wq # Ndo /\ Tasks = {Wq, Ndo}
BY DEF Wq, Ndo, Tasks

LEMMA HeadType == ASSUME QueueInv(StationEvents), batch # <<>>
                  PROVE  Head(batch).bssid \in Bssids /\ Head(batch).kind \in {"connect", "lost"}
<1>1. Head(batch) \in StationEvents
  BY DEF QueueInv
<1> QED BY <1>1 DEF StationEvents

\* sta_info_insert_rcu: the entry i is hashed, or freed at once.
Inserted(i, t, b, from) ==
  /\ mine' = [mine EXCEPT ![t] = i]
  /\ entry[i].life = "unused" /\ entry' \in [Ids -> EntryType]
  /\ entry'[i].bssid = b /\ \A j \in Ids \ {i} : entry'[j] = entry[j]
  /\ IF Exists(b)
     THEN entry'[i].life = "freed" /\ OnExist(t, from)
     ELSE /\ entry'[i].life = "hashed" /\ Goto(t, from, "fill")
          /\ UNCHANGED <<events, first, work, handling, batch>>

LEMMA InsertMakes ==
  ASSUME entry \in [Ids -> EntryType], NEW t, NEW b \in Bssids, NEW from, Insert(t, b, from)
  PROVE  \E i \in Ids : Inserted(i, t, b, from)
<1>1. PICK i \in Ids :
        /\ entry[i].life = "unused"
        /\ mine' = [mine EXCEPT ![t] = i]
        /\ entry' = [entry EXCEPT ![i] =
                       [bssid |-> b, life |-> IF Exists(b) THEN "freed" ELSE "hashed"]]
  BY DEF Insert
<1> DEFINE e == [bssid |-> b, life |-> IF Exists(b) THEN "freed" ELSE "hashed"]
<1>2. e \in EntryType /\ e.bssid = b /\ (e.life = IF Exists(b) THEN "freed" ELSE "hashed")
  BY DEF EntryType
<1>3. entry' = [entry EXCEPT ![i] = e]
  BY <1>1
<1> HIDE DEF e
<1>4. entry' \in [Ids -> EntryType] /\ entry'[i] = e /\ \A j \in Ids \ {i} : entry'[j] = entry[j]
  BY <1>2, <1>3
<1>5. IF Exists(b) THEN OnExist(t, from)
      ELSE Goto(t, from, "fill") /\ UNCHANGED <<events, first, work, handling, batch>>
  BY DEF Insert
<1>6. CASE Exists(b)
  BY <1>1, <1>2, <1>4, <1>5, <1>6 DEF Inserted
<1>7. CASE ~Exists(b)
  BY <1>1, <1>2, <1>4, <1>5, <1>7 DEF Inserted
<1> QED BY <1>6, <1>7

\* sta_info_destroy and sta_info_flush.
LEMMA FreeMakes ==
  ASSUME entry \in [Ids -> EntryType], NEW S, entry' = Free(S)
  PROVE  /\ entry' \in [Ids -> EntryType]
         /\ \A i \in Ids : /\ entry'[i].bssid = entry[i].bssid
                           /\ i \in S => entry'[i].life = "freed"
                           /\ i \notin S => entry'[i] = entry[i]
<1>1. ASSUME NEW e \in EntryType
      PROVE  LET f == [e EXCEPT !.life = "freed"]
             IN  f \in EntryType /\ f.bssid = e.bssid /\ f.life = "freed"
  BY DEF EntryType
<1>2. ASSUME NEW i \in Ids
      PROVE  /\ entry'[i] \in EntryType /\ entry'[i].bssid = entry[i].bssid
             /\ i \in S => entry'[i].life = "freed"
             /\ i \notin S => entry'[i] = entry[i]
  <2>1. entry'[i] = IF i \in S THEN [entry[i] EXCEPT !.life = "freed"] ELSE entry[i]
    BY DEF Free
  <2>2. CASE i \in S
    <3>1. entry[i] \in EntryType
      OBVIOUS
    <3> QED BY <1>1, <2>1, <2>2, <3>1
  <2>3. CASE i \notin S
    BY <2>1, <2>3
  <2> QED BY <2>2, <2>3
<1>3. entry' = [i \in Ids |-> entry'[i]]
  BY DEF Free
<1> QED BY <1>2, <1>3

(* Its steps.                                                              *)

LEMMA ChangesKeeps ==
  ASSUME StationInv, NEW b \in Bssids \cup {NoBss}, NEW e \in StationEvents, Changes(b, e)
  PROVE  StationInv'
<1>1. Indicate(e) /\ Undisturbed /\ link' = b /\ changes' \in 0 .. MaxChanges
      /\ UNCHANGED <<entry, pc, mine, racing, cnf, enabled, opens, success, carrier>>
  BY StationAssumption DEF Changes, StationInv, StationTypes, taskVars, openVars, ifaceVars
<1>2. QueueInv(StationEvents)'
  BY <1>1, IndicateKeeps DEF StationInv
<1>3. StationFlags' /\ TableInv'
  BY <1>1 DEF StationInv, StationFlags, TableInv
<1>4. StationTypes'
  BY <1>1 DEF StationInv, StationTypes
<1>5. TaskInv'
  <2>1. batch' = batch
    BY <1>1 DEF Indicate
  <2>2. ~racing => pc[Ndo] = "idle"
    BY <1>1 DEF Undisturbed
  <2> QED BY <1>1, <2>1, <2>2 DEF StationInv, TaskInv
<1> QED BY <1>2, <1>3, <1>4, <1>5 DEF StationInv

LEMMA QueueStepKeeps == ASSUME StationInv, QueueStep PROVE StationInv'
<1>1. /\ QueueWork \/ TakeBatch \/ (pc[Wq] = "idle" /\ EndBatch)
      /\ UNCHANGED <<link, changes, entry, pc, mine, racing, cnf, enabled, opens, success, carrier>>
  BY DEF QueueStep, taskVars, openVars, ifaceVars
<1>2. QueueInv(StationEvents)'
  BY <1>1, QueueKeeps DEF StationInv
<1>3. StationFlags' /\ TableInv'
  BY <1>1 DEF StationInv, StationFlags, TableInv
<1>4. StationTypes'
  BY <1>1 DEF StationInv, StationTypes
<1>5. batch' = batch \/ (batch = <<>> /\ ~handling)
  BY <1>1 DEF QueueWork, TakeBatch, EndBatch, StationInv, QueueInv
<1>6. ~NoEvents
  BY <1>1 DEF QueueWork, TakeBatch, EndBatch, NoEvents
<1>7. TaskInv'
  BY <1>1, <1>5, <1>6 DEF StationInv, TaskInv
<1> QED BY <1>2, <1>3, <1>4, <1>7 DEF StationInv

\* What the end of a handler of an event does to the queue.
LEMMA ReturnsKeeps ==
  ASSUME StationInv, NEW t \in Tasks, Returns(t), t = Wq => batch # <<>>,
         Loses \/ UNCHANGED lost
  PROVE  /\ QueueInv(StationEvents)'
         /\ t = Ndo => UNCHANGED <<events, first, work, handling, batch>>
<1>1. CASE t = Wq
  BY <1>1, HandledKeeps, TasksApart DEF Returns, StationInv
<1>2. CASE t # Wq
  BY <1>2, QueueStays, TasksApart DEF Returns, StationInv
<1> QED BY <1>1, <1>2, TasksApart

\* The places and the entry of one task.
LEMMA InsertKeeps ==
  ASSUME StationInv, NEW t \in Tasks, NEW b \in Bssids, NEW from, Insert(t, b, from),
         t = Wq => batch # <<>> /\ Head(batch).kind = "connect",
         t = Ndo => pc[Ndo] = "connect"
  PROVE  StationInv'
<1>1. entry \in [Ids -> EntryType] /\ pc \in [Tasks -> {"idle", "fill", "drop", "config", "connect", "carrier"}]
      /\ mine \in [Tasks -> Ids \cup {None}]
  BY DEF StationInv, StationTypes
<1>0. PICK i \in Ids : Inserted(i, t, b, from)
  BY <1>1, InsertMakes
<1>2. /\ mine' = [mine EXCEPT ![t] = i]
      /\ entry[i].life = "unused" /\ entry' \in [Ids -> EntryType]
      /\ entry'[i].bssid = b /\ \A j \in Ids \ {i} : entry'[j] = entry[j]
      /\ IF Exists(b)
         THEN entry'[i].life = "freed" /\ OnExist(t, from)
         ELSE /\ entry'[i].life = "hashed" /\ Goto(t, from, "fill")
              /\ UNCHANGED <<events, first, work, handling, batch>>
  BY <1>0 DEF Inserted
<1>3. UNCHANGED <<lost, link, changes, racing, cnf, enabled, opens, success, carrier>>
  BY DEF Insert, openVars, ifaceVars
<1>4. StationFlags'
  BY <1>3 DEF StationInv, StationFlags
<1>5. PICK x \in {"fill", Return(t)} : Goto(t, from, x) /\ (x = Return(t) => Exists(b))
        /\ (x = "fill" => ~Exists(b) /\ UNCHANGED <<events, first, work, handling, batch>>)
        /\ (x # "fill" => Returns(t))
  <2>1. Return(t) # "fill"
    BY DEF Return
  <2> QED BY <1>2, <2>1 DEF OnExist
<1>6. Return(t) \in {"idle", "carrier"} /\ (t = Wq => Return(t) = "idle")
  BY DEF Return
<1>7. QueueInv(StationEvents)' /\ (t = Ndo => UNCHANGED <<events, first, work, handling, batch>>)
  <2>1. CASE x = "fill"
    BY <1>3, <1>5, <2>1, QueueStays DEF StationInv
  <2>2. CASE x # "fill"
    BY <1>3, <1>5, <2>2, ReturnsKeeps
  <2> QED BY <2>1, <2>2
<1>8. pc' = [pc EXCEPT ![t] = x] /\ pc[t] = from /\ mine' \in [Tasks -> Ids \cup {None}]
  BY <1>1, <1>2, <1>5 DEF Goto
<1>9. StationTypes'
  BY <1>1, <1>2, <1>3, <1>5, <1>6, <1>8 DEF StationInv, StationTypes
<1>10. TaskInv'
  <2>1. CASE t = Wq
    <3>1. pc'[Wq] = x /\ pc'[Ndo] = pc[Ndo]
      BY <1>1, <1>8, <2>1, TasksApart
    <3>2. ~racing => pc[Ndo] = "idle"
      BY <2>1 DEF StationInv, TaskInv
    <3>3. \A u \in Tasks : pc'[u] \in {"fill", "drop"} => mine'[u] \in Ids
      BY <1>1, <1>2, <1>6, <1>8, <2>1, <3>1, TasksApart DEF StationInv, TaskInv
    <3> QED BY <1>3, <1>5, <1>6, <2>1, <3>1, <3>2, <3>3 DEF StationInv, TaskInv
  <2>2. CASE t = Ndo
    <3>1. pc'[Ndo] = x /\ pc'[Wq] = pc[Wq]
      BY <1>1, <1>8, <2>2, TasksApart
    <3>2. UNCHANGED <<events, first, work, handling, batch>> /\ cnf # NoBss
      BY <1>7, <2>2 DEF StationInv, TaskInv
    <3>3. \A u \in Tasks : pc'[u] \in {"fill", "drop"} => mine'[u] \in Ids
      BY <1>1, <1>2, <1>6, <1>8, <2>2, <3>1, TasksApart DEF StationInv, TaskInv
    <3> QED BY <1>3, <1>5, <1>6, <2>2, <3>1, <3>2, <3>3 DEF StationInv, TaskInv, NoEvents
  <2> QED BY <2>1, <2>2, TasksApart
<1>11. TableInv'
  <2>1. \A u \in Tasks \ {t} : pc'[u] = pc[u] /\ mine'[u] = mine[u]
    BY <1>1, <1>2, <1>8
  <2>2. pc'[t] = x /\ mine'[t] = i
    BY <1>1, <1>2, <1>8
  <2>3. \A j, k \in Ids :
          entry'[j].life = "hashed" /\ entry'[k].life = "hashed" /\ entry'[j].bssid = entry'[k].bssid => j = k
    <3>1. ~Exists(b) => \A j \in Ids : ~(entry[j].life = "hashed" /\ entry[j].bssid = b)
      BY DEF Exists, Hashed
    <3> QED BY <1>2, <3>1 DEF StationInv, TableInv
  <2>4. ASSUME ~racing, NEW u \in Tasks, pc'[u] \in {"fill", "drop"} PROVE entry'[mine'[u]].life = "hashed"
    <3>1. CASE u = t
      BY <1>2, <1>5, <1>6, <2>2, <2>4, <3>1
    <3>2. CASE u # t
      <4>1. entry[mine[u]].life = "hashed" /\ mine[u] \in Ids
        BY <2>1, <2>4, <3>2 DEF StationInv, TableInv, TaskInv
      <4> QED BY <1>2, <2>1, <3>2, <4>1
    <3> QED BY <3>1, <3>2
  <2> QED BY <1>3, <2>3, <2>4 DEF TableInv
<1> QED BY <1>4, <1>7, <1>9, <1>10, <1>11 DEF StationInv

\* The allocation of the entry fails, or connect_success and the carrier are set.
LEMMA GoesKeeps ==
  ASSUME StationInv, NEW t \in Tasks, NEW from, Goto(t, from, Return(t)), Returns(t),
         t = Wq => batch # <<>>, t = Ndo => pc[Ndo] \in {"connect", "fill"},
         Loses \/ UNCHANGED lost, StationFlags',
         UNCHANGED <<link, changes, entry, mine, racing, cnf, opens>>
  PROVE  StationInv'
<1>1. QueueInv(StationEvents)' /\ (t = Ndo => UNCHANGED <<events, first, work, handling, batch>>)
  BY ReturnsKeeps
<1>2. Return(t) \in {"idle", "carrier"} /\ (t = Wq => Return(t) = "idle")
  BY DEF Return
<1>3. /\ pc' = [pc EXCEPT ![t] = Return(t)]
      /\ pc \in [Tasks -> {"idle", "fill", "drop", "config", "connect", "carrier"}]
  BY DEF Goto, StationInv, StationTypes
<1>4. pc'[t] = Return(t) /\ \A u \in Tasks \ {t} : pc'[u] = pc[u]
  BY <1>3
<1>5. StationTypes'
  BY <1>2, <1>3 DEF StationInv, StationTypes
<1>6. TableInv'
  <2>1. \A u \in Tasks : pc'[u] \in {"fill", "drop"} => pc[u] = pc'[u]
    BY <1>2, <1>4
  <2> QED BY <2>1 DEF StationInv, TableInv
<1>7. TaskInv'
  <2>1. CASE t = Wq
    <3>1. ~racing => pc[Ndo] = "idle"
      BY <2>1 DEF StationInv, TaskInv
    <3> QED BY <1>2, <1>4, <2>1, <3>1, TasksApart DEF StationInv, TaskInv
  <2>2. CASE t = Ndo
    BY <1>1, <1>2, <1>4, <2>2, TasksApart DEF StationInv, TaskInv, NoEvents
  <2> QED BY <2>1, <2>2, TasksApart
<1> QED BY <1>1, <1>5, <1>6, <1>7 DEF StationInv

LEMMA InsertFailsKeeps ==
  ASSUME StationInv, NEW t \in Tasks, NEW from, InsertFails(t, from), t = Wq => batch # <<>>,
         t = Ndo => pc[Ndo] \in {"connect", "fill"}
  PROVE  StationInv'
<1>1. StationFlags'
  BY DEF InsertFails, StationInv, StationFlags, openVars, ifaceVars
<1> QED BY <1>1, GoesKeeps DEF InsertFails, openVars

LEMMA FillKeeps ==
  ASSUME StationInv, NEW t \in Tasks, Fill(t) PROVE StationInv'
<1>1. StationFlags'
  BY Zenon DEF Fill, StationInv, StationFlags, openVars
<1>2. t = Wq => batch # <<>>
  BY DEF Fill, Goto, StationInv, TaskInv
<1>3. t = Ndo => pc[Ndo] \in {"connect", "fill"}
  BY DEF Fill, Goto
<1> QED BY <1>1, <1>2, <1>3, GoesKeeps DEF Fill, openVars

LEMMA HandleConnectKeeps == ASSUME StationInv, HandleConnect PROVE StationInv'
<1>1. batch # <<>> /\ Head(batch).kind = "connect" /\ Wq \in Tasks
  BY TasksApart DEF HandleConnect, Handles
<1>2. Head(batch).bssid \in Bssids
  BY <1>1, HeadType DEF StationInv
<1>3. PICK b \in Bssids : b = Head(batch).bssid
  BY <1>2
<1>4. Insert(Wq, b, "idle") \/ InsertFails(Wq, "idle")
  BY <1>3 DEF HandleConnect
<1> QED BY <1>1, <1>4, InsertKeeps, InsertFailsKeeps, TasksApart

LEMMA HandleLostKeeps == ASSUME StationInv, HandleLost PROVE StationInv'
<1>1. batch # <<>> /\ Head(batch).kind = "lost" /\ pc[Wq] = "idle"
  BY DEF HandleLost, Handles, Goto
<1>2. UNCHANGED <<lost, link, changes, entry, racing, cnf, enabled, opens, success, carrier>>
  BY DEF HandleLost, openVars, ifaceVars
<1>3. StationFlags'
  BY <1>2 DEF StationInv, StationFlags
<1>4. ~racing => pc[Ndo] = "idle"
  BY <1>1 DEF StationInv, TaskInv
<1>5. CASE Handled /\ UNCHANGED taskVars
  <2>1. QueueInv(StationEvents)'
    BY <1>1, <1>2, <1>5, HandledKeeps DEF StationInv
  <2>2. UNCHANGED <<pc, mine>>
    BY <1>5 DEF taskVars
  <2>3. StationTypes' /\ TableInv'
    BY <1>2, <2>2 DEF StationInv, StationTypes, TableInv
  <2>4. TaskInv'
    BY <1>1, <1>2, <1>4, <2>2 DEF StationInv, TaskInv
  <2> QED BY <1>3, <2>1, <2>3, <2>4 DEF StationInv
<1>6. CASE /\ Goto(Wq, "idle", "drop")
           /\ \E i \in Hashed(Head(batch).bssid) : mine' = [mine EXCEPT ![Wq] = i]
           /\ UNCHANGED <<events, first, work, handling, batch>>
  <2>1. PICK i \in Ids : entry[i].life = "hashed" /\ mine' = [mine EXCEPT ![Wq] = i]
    BY <1>6 DEF Hashed
  <2>2. /\ pc' = [pc EXCEPT ![Wq] = "drop"]
        /\ pc \in [Tasks -> {"idle", "fill", "drop", "config", "connect", "carrier"}]
        /\ mine \in [Tasks -> Ids \cup {None}]
    BY <1>6 DEF Goto, StationInv, StationTypes
  <2>3. pc'[Wq] = "drop" /\ pc'[Ndo] = pc[Ndo] /\ mine'[Wq] = i /\ mine'[Ndo] = mine[Ndo]
    BY <2>1, <2>2, TasksApart
  <2>4. QueueInv(StationEvents)'
    BY <1>2, <1>6, QueueStays DEF StationInv
  <2>5. StationTypes'
    BY <1>2, <2>1, <2>2 DEF StationInv, StationTypes
  <2>6. TaskInv'
    BY <1>1, <1>2, <1>4, <1>6, <2>3, TasksApart DEF StationInv, TaskInv
  <2>7. TableInv'
    <3>1. ASSUME ~racing, NEW u \in Tasks, pc'[u] \in {"fill", "drop"}
          PROVE  entry[mine'[u]].life = "hashed"
      BY <2>1, <2>3, <3>1, TasksApart DEF StationInv, TableInv
    <3> QED BY <1>2, <3>1 DEF StationInv, TableInv
  <2> QED BY <1>3, <2>4, <2>5, <2>6, <2>7 DEF StationInv
<1> QED BY <1>5, <1>6 DEF HandleLost

LEMMA DropKeeps == ASSUME StationInv, Drop PROVE StationInv'
<1>1. pc[Wq] = "drop" /\ pc' = [pc EXCEPT ![Wq] = "idle"] /\ Handled /\ entry' = Free({mine[Wq]})
      /\ UNCHANGED <<lost, link, changes, mine, racing, cnf, enabled, opens>>
  BY DEF Drop, Goto, openVars
<1>2. batch # <<>>
  BY <1>1 DEF StationInv, TaskInv
<1>3. entry \in [Ids -> EntryType] /\ pc \in [Tasks -> {"idle", "fill", "drop", "config", "connect", "carrier"}]
  BY DEF StationInv, StationTypes
<1>4. StationFlags'
  BY <1>1, Zenon DEF Drop, StationInv, StationFlags
<1>5. QueueInv(StationEvents)'
  BY <1>1, <1>2, HandledKeeps DEF StationInv
<1>6. /\ entry' \in [Ids -> EntryType]
      /\ \A i \in Ids : /\ entry'[i].bssid = entry[i].bssid
                        /\ i \in {mine[Wq]} => entry'[i].life = "freed"
                        /\ i \notin {mine[Wq]} => entry'[i] = entry[i]
  BY <1>1, <1>3, FreeMakes
<1>7. pc'[Wq] = "idle" /\ pc'[Ndo] = pc[Ndo]
  BY <1>1, <1>3, TasksApart
<1>8. StationTypes'
  BY <1>1, <1>6 DEF StationInv, StationTypes
<1>9. ~racing => pc[Ndo] = "idle"
  BY <1>2 DEF StationInv, TaskInv
<1>10. TaskInv'
  BY <1>1, <1>7, <1>9, TasksApart DEF StationInv, TaskInv
<1>11. TableInv'
  <2>1. \A j \in Ids : entry'[j].life = "hashed" => entry[j].life = "hashed"
    BY <1>6
  <2>2. ~racing => \A u \in Tasks : pc'[u] \notin {"fill", "drop"}
    BY <1>7, <1>9, TasksApart
  <2>3. \A j \in Ids : entry'[j].life = "hashed" => entry'[j].bssid = entry[j].bssid
    BY <1>6
  <2>4. \A j, k \in Ids : entry'[j].life = "hashed" /\ entry'[k].life = "hashed"
          /\ entry'[j].bssid = entry'[k].bssid => j = k
    BY <2>1, <2>3 DEF StationInv, TableInv
  <2> QED BY <1>1, <2>2, <2>4 DEF TableInv
<1> QED BY <1>4, <1>5, <1>8, <1>10, <1>11 DEF StationInv

LEMMA OpenKeeps ==
  ASSUME StationInv, Open \/ OpenConfig \/ OpenCarrier PROVE StationInv'
<1>1. PICK x \in {"config", "carrier", "connect", "idle"} :
        /\ pc' = [pc EXCEPT ![Ndo] = x] /\ (x = "connect" => cnf # NoBss)
        /\ pc[Ndo] \in {"idle", "config", "carrier"}
  BY DEF Open, OpenConfig, OpenCarrier, Goto
<1>2. UNCHANGED <<events, first, work, handling, batch, lost, link, changes, entry, mine, racing>>
  BY DEF Open, OpenConfig, OpenCarrier, queueVars, openVars
<1>3. pc \in [Tasks -> {"idle", "fill", "drop", "config", "connect", "carrier"}]
  BY DEF StationInv, StationTypes
<1>4. pc'[Ndo] = x /\ pc'[Wq] = pc[Wq]
  BY <1>1, <1>3, TasksApart
<1>5. QueueInv(StationEvents)'
  BY <1>2, QueueStays DEF StationInv
<1>6. StationFlags'
  <2>1. enabled' = TRUE \/ enabled' = enabled
    BY DEF Open, OpenConfig, OpenCarrier, openVars
  <2>2. success' = (cnf # NoBss) \/ success' = success
    BY DEF Open, OpenConfig, OpenCarrier, ifaceVars
  <2>3. carrier' = success \/ carrier' = carrier
    BY DEF Open, OpenConfig, OpenCarrier, ifaceVars
  <2> QED BY <1>2, <2>1, <2>2, <2>3, Zenon DEF StationInv, StationFlags
<1>7. cnf' \in Bssids \cup {NoBss} /\ opens' \in 0 .. MaxOpens /\ (x = "connect" => cnf' = cnf)
  <2>1. link \in Bssids \cup {NoBss} /\ cnf \in Bssids \cup {NoBss} /\ opens \in 0 .. MaxOpens
    BY DEF StationInv, StationTypes
  <2>2. CASE Open
    <3>1. cnf' = link /\ opens' = opens + 1 /\ opens < MaxOpens /\ pc' = [pc EXCEPT ![Ndo] = "config"]
      BY <2>2 DEF Open, Goto
    <3>2. x = "config"
      BY <1>1, <1>3, <3>1, TasksApart
    <3> QED BY <2>1, <3>1, <3>2, StationAssumption
  <2>3. CASE OpenConfig \/ OpenCarrier
    BY <2>1, <2>3 DEF OpenConfig, OpenCarrier, openVars
  <2> QED BY <2>2, <2>3
<1>8. StationTypes'
  BY <1>1, <1>2, <1>3, <1>7 DEF StationInv, StationTypes
<1>9. ~racing => NoEvents /\ batch = <<>>
  <2>1. CASE pc[Ndo] # "idle"
    BY <2>1 DEF StationInv, TaskInv
  <2>2. CASE pc[Ndo] = "idle"
    BY <2>2 DEF Open, OpenConfig, OpenCarrier, Goto, Alone, NoEvents, StationInv, QueueInv
  <2> QED BY <2>1, <2>2
<1>10. TaskInv'
  BY <1>1, <1>2, <1>4, <1>7, <1>9, TasksApart DEF StationInv, TaskInv, NoEvents
<1>11. TableInv'
  <2>1. \A u \in Tasks : pc'[u] \in {"fill", "drop"} => pc[u] = pc'[u]
    BY <1>4, TasksApart
  <2> QED BY <1>2, <2>1 DEF StationInv, TableInv
<1> QED BY <1>5, <1>6, <1>8, <1>10, <1>11 DEF StationInv

LEMMA StopKeeps == ASSUME StationInv, Stop PROVE StationInv'
<1>1. /\ Alone /\ pc[Ndo] = "idle" /\ enabled' = FALSE /\ entry' = Free(Table)
      /\ UNCHANGED <<events, first, work, handling, batch, lost, link, changes, pc, mine, racing,
                     cnf, opens, success, carrier>>
  BY DEF Stop, queueVars, taskVars, ifaceVars
<1>2. entry \in [Ids -> EntryType]
  BY DEF StationInv, StationTypes
<1>3. QueueInv(StationEvents)'
  BY <1>1, QueueStays DEF StationInv
<1>4. StationFlags'
  BY <1>1, Zenon DEF StationInv, StationFlags
<1>5. /\ entry' \in [Ids -> EntryType]
      /\ \A i \in Ids : /\ entry'[i].bssid = entry[i].bssid
                        /\ i \in Table => entry'[i].life = "freed"
                        /\ i \notin Table => entry'[i] = entry[i]
  BY <1>1, <1>2, FreeMakes
<1>6. StationTypes'
  BY <1>1, <1>5 DEF StationInv, StationTypes
<1>7. TaskInv'
  BY <1>1 DEF StationInv, TaskInv
<1>8. ~racing => \A u \in Tasks : pc[u] \notin {"fill", "drop"}
  BY <1>1, TasksApart DEF Alone, NoEvents, StationInv, TaskInv, QueueInv
<1>9. TableInv'
  <2>1. \A j \in Ids : entry'[j].life # "hashed"
    BY <1>5 DEF Table
  <2> QED BY <1>1, <1>8, <2>1 DEF TableInv
<1> QED BY <1>3, <1>4, <1>6, <1>7, <1>9 DEF StationInv

LEMMA StationFirst == Init => StationInv
<1> SUFFICES ASSUME Init PROVE StationInv
  OBVIOUS
<1>1. QueueInv(StationEvents)
  BY QueueFirst DEF Init
<1>2. StationFlags
  BY Zenon DEF Init, StationFlags
<1>3. StationTypes
  <2>1. [bssid |-> NoBss, life |-> "unused"] \in EntryType
    BY DEF EntryType
  <2>2. entry \in [Ids -> EntryType]
    BY <2>1 DEF Init
  <2> QED BY <2>2, StationAssumption DEF Init, StationTypes
<1>4. TaskInv
  BY TasksApart DEF Init, TaskInv
<1>5. TableInv
  BY DEF Init, TableInv
<1> QED BY <1>1, <1>2, <1>3, <1>4, <1>5 DEF StationInv

LEMMA StationStep == StationInv /\ [Next]_vars => StationInv'
<1> SUFFICES ASSUME StationInv, [Next]_vars PROVE StationInv'
  OBVIOUS
<1>1. CASE Connects
  <2>1. PICK b \in Bssids : Changes(b, [kind |-> "connect", bssid |-> b])
    BY <1>1 DEF Connects
  <2>2. [kind |-> "connect", bssid |-> b] \in StationEvents
    BY DEF StationEvents
  <2> QED BY <2>1, <2>2, ChangesKeeps
<1>2. CASE Loss
  <2>1. PICK b \in Bssids : b = link /\ Changes(NoBss, [kind |-> "lost", bssid |-> b])
    BY <1>2 DEF Loss, StationInv, StationTypes
  <2>2. [kind |-> "lost", bssid |-> b] \in StationEvents
    BY DEF StationEvents
  <2> QED BY <2>1, <2>2, ChangesKeeps
<1>3. CASE QueueStep
  BY <1>3, QueueStepKeeps
<1>4. CASE HandlerStep
  BY <1>4, HandleConnectKeeps, HandleLostKeeps, DropKeeps, FillKeeps, TasksApart DEF HandlerStep
<1>5. CASE Open
  BY <1>5, OpenKeeps
<1>6. CASE NdoStep
  <2>1. CASE OpenConfig \/ OpenCarrier
    BY <2>1, OpenKeeps
  <2>2. CASE Fill(Ndo)
    BY <2>2, FillKeeps, TasksApart
  <2>3. CASE OpenConnect
    <3>1. pc[Ndo] = "connect"
      BY <2>3 DEF OpenConnect, Insert, InsertFails, OnExist, Goto
    <3>2. PICK b \in Bssids : b = cnf
      BY <3>1 DEF StationInv, TaskInv, StationTypes
    <3>3. Insert(Ndo, b, "connect") \/ InsertFails(Ndo, "connect")
      BY <2>3, <3>2 DEF OpenConnect
    <3> QED BY <3>1, <3>3, InsertKeeps, InsertFailsKeeps, TasksApart
  <2> QED BY <1>6, <2>1, <2>2, <2>3 DEF NdoStep
<1>7. CASE Stop
  BY <1>7, StopKeeps
<1>8. CASE UNCHANGED vars
  <2>1. UNCHANGED <<events, first, work, handling, batch, lost, link, changes, entry, pc, mine,
                    racing, cnf, enabled, opens, success, carrier>>
    BY <1>8 DEF vars, queueVars, stationVars, taskVars, openVars, ifaceVars
  <2>2. QueueInv(StationEvents)'
    BY <2>1, QueueStays DEF StationInv
  <2>3. StationFlags' /\ StationTypes' /\ TaskInv' /\ TableInv'
    BY <2>1 DEF StationInv, StationFlags, StationTypes, TaskInv, TableInv, NoEvents
  <2> QED BY <2>2, <2>3 DEF StationInv
<1> QED BY <1>1, <1>2, <1>3, <1>4, <1>5, <1>6, <1>7, <1>8 DEF Next

(* What the events that wait say.                                          *)

\* The access point before and after an event.
Before(e) == IF e.kind = "connect" THEN NoBss ELSE e.bssid
After(e) == IF e.kind = "connect" THEN e.bssid ELSE NoBss

\* The events of s lead from access point a to z.
Chain(s, a, z) ==
  /\ s = <<>> => a = z
  /\ s # <<>> => a = Before(s[1]) /\ After(s[Len(s)]) = z
  /\ \A i \in 1 .. Len(s) - 1 : After(s[i]) = Before(s[i + 1])

\* The firmware changes its access point.
LEMMA ChainAdd ==
  ASSUME NEW E, NEW s \in Seq(E), NEW e \in E, NEW a, NEW z, Chain(s, a, z), Before(e) = z
  PROVE  Chain(Append(s, e), a, After(e))
<1> DEFINE n == Len(s)
           t == Append(s, e)
<1>1. n \in Nat /\ Len(t) = n + 1 /\ t[n + 1] = e /\ t # <<>>
  OBVIOUS
<1>2. \A i \in 1 .. n : t[i] = s[i]
  OBVIOUS
<1>3. n = 0 <=> s = <<>>
  OBVIOUS
<1>4. (s = <<>> => a = z) /\ (s # <<>> => a = Before(s[1]) /\ After(s[n]) = z)
  BY DEF Chain
<1>5. \A i \in 1 .. n - 1 : After(s[i]) = Before(s[i + 1])
  BY DEF Chain
<1> HIDE DEF n, t
<1>6. a = Before(t[1])
  <2>1. CASE n = 0
    BY <1>1, <1>3, <1>4, <2>1
  <2>2. CASE n # 0
    BY <1>1, <1>2, <1>3, <1>4, <2>2
  <2> QED BY <2>1, <2>2
<1>7. ASSUME NEW i \in 1 .. n PROVE After(t[i]) = Before(t[i + 1])
  <2>1. CASE i = n
    <3>1. After(t[i]) = z
      BY <1>1, <1>2, <1>3, <1>4, <2>1
    <3> QED BY <1>1, <2>1, <3>1
  <2>2. CASE i # n
    <3>1. i \in 1 .. n - 1 /\ i + 1 \in 1 .. n
      BY <1>1, <2>2
    <3> QED BY <1>2, <1>5, <3>1
  <2> QED BY <2>1, <2>2
<1>8. Chain(t, a, After(e))
  BY <1>1, <1>6, <1>7 DEF Chain
<1> QED BY <1>8 DEF t

\* The handler is done with the first.
LEMMA ChainTail ==
  ASSUME NEW E, NEW s \in Seq(E), s # <<>>, NEW a, NEW z, Chain(s, a, z)
  PROVE  a = Before(Head(s)) /\ Chain(Tail(s), After(Head(s)), z)
<1> DEFINE n == Len(s)
           t == Tail(s)
<1>1. n \in Nat /\ n >= 1 /\ Len(t) = n - 1 /\ Head(s) = s[1]
  OBVIOUS
<1>2. \A i \in 1 .. n - 1 : t[i] = s[i + 1]
  OBVIOUS
<1>3. t = <<>> <=> n = 1
  <2>1. t \in Seq(E)
    OBVIOUS
  <2>2. Len(t) = 0 <=> t = <<>>
    <3> HIDE DEF t
    <3> QED BY <2>1
  <2> QED BY <1>1, <2>2
<1>4. a = Before(s[1]) /\ After(s[n]) = z /\ \A i \in 1 .. n - 1 : After(s[i]) = Before(s[i + 1])
  BY DEF Chain
<1> HIDE DEF n, t
<1>5. CASE n = 1
  BY <1>1, <1>3, <1>4, <1>5 DEF Chain, t
<1>6. CASE n # 1
  <2>1. 1 \in 1 .. n - 1 /\ n - 1 \in 1 .. n - 1
    BY <1>1, <1>6
  <2>2. t[1] = s[2] /\ t[n - 1] = s[n] /\ After(s[1]) = Before(s[2])
    BY <1>1, <1>2, <1>4, <2>1
  <2>3. \A i \in 1 .. (n - 1) - 1 : After(t[i]) = Before(t[i + 1])
    <3> TAKE i \in 1 .. (n - 1) - 1
    <3>1. i \in 1 .. n - 1 /\ i + 1 \in 1 .. n - 1
      BY <1>1
    <3> QED BY <1>2, <1>4, <3>1
  <2>4. Chain(t, After(s[1]), z)
    BY <1>1, <1>3, <1>4, <1>6, <2>2, <2>3 DEF Chain
  <2> QED BY <1>1, <1>4, <2>4 DEF t
<1> QED BY <1>5, <1>6

\* The access point of the handler is a: the one before the event it is at.
Mid == IF events = <<>> THEN link ELSE Before(events[1])
Known(a) == Chain(batch, a, Mid) /\ Chain(events, Mid, link)

Bss == {entry[i].bssid : i \in Table}

\* The entries on the table are of the handler's access point.
At(a) ==
  /\ Known(a)
  /\ pc[Wq] # "fill" => Bss \subseteq {a} \ {NoBss}
  /\ pc[Wq] = "fill" => Bss = {Head(batch).bssid}
  /\ pc[Wq] = "drop" => Bss = {a} /\ entry[mine[Wq]].bssid = a
  /\ enabled /\ pc[Ndo] = "idle" =>
       /\ success = (a # NoBss) /\ carrier = success
       /\ pc[Wq] # "fill" => Bss = {a} \ {NoBss}
  /\ pc[Ndo] # "idle" => enabled /\ cnf = link
  /\ pc[Ndo] \in {"connect", "fill", "carrier"} => success = (cnf # NoBss)
  /\ pc[Ndo] \in {"fill", "carrier"} => Bss = {cnf} \ {NoBss}

AgreesInv == ~racing /\ lost = 0 => \E a \in Bssids \cup {NoBss} : At(a)

LEMMA BeforeAfter ==
  ASSUME NEW e \in StationEvents
  PROVE  /\ Before(e) \in Bssids \cup {NoBss} /\ After(e) \in Bssids \cup {NoBss}
         /\ e.kind = "connect" => Before(e) = NoBss /\ After(e) = e.bssid
         /\ e.kind = "lost" => Before(e) = e.bssid /\ After(e) = NoBss
BY DEF StationEvents, Before, After

\* An event is added.
LEMMA KnownAdds ==
  ASSUME StationInv, NEW a, Known(a), NEW e \in StationEvents, lost' = lost, lost = 0,
         Indicate(e), Before(e) = link, link' = After(e)
  PROVE  Known(a)'
<1>1. events' = Append(events, e) /\ batch' = batch
  <2>1. ~Loses
    BY LosesType DEF StationInv, QueueInv
  <2> QED BY <2>1 DEF Indicate, Added
<1>2. events \in Seq(StationEvents)
  BY DEF StationInv, QueueInv
<1>3. Mid' = Mid
  <2>1. events' # <<>> /\ (events = <<>> => events'[1] = e) /\ (events # <<>> => events'[1] = events[1])
    BY <1>1, <1>2
  <2> QED BY <2>1 DEF Mid
<1>4. Chain(events, Mid, link)
  BY DEF Known
<1>5. Chain(Append(events, e), Mid, After(e))
  BY <1>2, <1>4, ChainAdd
<1> QED BY <1>1, <1>3, <1>5 DEF Known

\* The queue is taken.
LEMMA KnownTaken ==
  ASSUME StationInv, NEW a, Known(a), QueueStep PROVE Known(a)'
<1>1. link' = link
  BY DEF QueueStep
<1>2. CASE UNCHANGED <<events, batch>>
  BY <1>1, <1>2 DEF Known, Mid
<1>3. CASE TakeBatch
  <2>1. batch' = events /\ events' = <<>> /\ batch = <<>>
    BY <1>3 DEF TakeBatch, StationInv, QueueInv
  <2>2. a = Mid /\ Chain(events, a, link)
    BY <2>1 DEF Known, Chain
  <2>3. Mid' = link
    BY <1>1, <2>1 DEF Mid
  <2>4. Chain(<<>>, link, link)
    BY DEF Chain
  <2> QED BY <1>1, <2>1, <2>2, <2>3, <2>4 DEF Known
<1> QED BY <1>2, <1>3 DEF QueueStep, QueueWork, EndBatch

\* An event is handled.
LEMMA KnownHead ==
  ASSUME StationInv, NEW a, Known(a), batch # <<>> PROVE a = Before(Head(batch))
BY ChainTail DEF StationInv, QueueInv, Known

LEMMA KnownHandled ==
  ASSUME StationInv, NEW a, Known(a), batch # <<>>, Handled, link' = link,
         NEW b, b = After(Head(batch))
  PROVE  Known(b)'
<1>1. batch' = Tail(batch) /\ events' = events
  BY DEF Handled
<1>2. Chain(Tail(batch), b, Mid)
  BY ChainTail DEF StationInv, QueueInv, Known
<1>3. Mid' = Mid
  BY <1>1 DEF Mid
<1> QED BY <1>1, <1>2, <1>3 DEF Known

(* The table and the handler's access point, step by step.                 *)

LEMMA BssHas ==
  ASSUME NEW i \in Ids, entry[i].life = "hashed" PROVE entry[i].bssid \in Bss
BY DEF Bss, Table

LEMMA BssOf == ASSUME NEW b \in Bss PROVE Exists(b)
BY DEF Bss, Table, Exists, Hashed

LEMMA BssAdds ==
  ASSUME NEW i \in Ids, NEW b, entry[i].life = "unused", entry'[i].bssid = b,
         entry'[i].life = "hashed", \A j \in Ids \ {i} : entry'[j] = entry[j]
  PROVE  Bss' = Bss \cup {b}
<1>1. ASSUME NEW x \in Bss' PROVE x \in Bss \cup {b}
  <2>1. PICK j \in Ids : entry'[j].life = "hashed" /\ x = entry'[j].bssid
    BY <1>1 DEF Bss, Table
  <2> QED BY <2>1 DEF Bss, Table
<1>2. ASSUME NEW x \in Bss \cup {b} PROVE x \in Bss'
  <2>1. CASE x = b
    BY <2>1 DEF Bss, Table
  <2>2. CASE x \in Bss
    <3>1. PICK j \in Ids : entry[j].life = "hashed" /\ x = entry[j].bssid
      BY <2>2 DEF Bss, Table
    <3>2. entry'[j] = entry[j]
      BY <3>1
    <3> QED BY <3>1, <3>2 DEF Bss, Table
  <2> QED BY <1>2, <2>1, <2>2
<1> QED BY <1>1, <1>2

LEMMA BssStays ==
  ASSUME NEW i \in Ids, entry[i].life # "hashed", entry'[i].life # "hashed",
         \A j \in Ids \ {i} : entry'[j] = entry[j]
  PROVE  Bss' = Bss
<1>1. ASSUME NEW x \in Bss' PROVE x \in Bss
  <2>1. PICK j \in Ids : entry'[j].life = "hashed" /\ x = entry'[j].bssid
    BY <1>1 DEF Bss, Table
  <2> QED BY <2>1 DEF Bss, Table
<1>2. ASSUME NEW x \in Bss PROVE x \in Bss'
  <2>1. PICK j \in Ids : entry[j].life = "hashed" /\ x = entry[j].bssid
    BY <1>2 DEF Bss, Table
  <2>2. entry'[j] = entry[j]
    BY <2>1
  <2> QED BY <2>1, <2>2 DEF Bss, Table
<1> QED BY <1>1, <1>2

LEMMA AtChanges ==
  ASSUME StationInv, ~racing, lost = 0, lost' = lost, NEW a, At(a),
         NEW b \in Bssids \cup {NoBss}, NEW e \in StationEvents, Changes(b, e),
         Before(e) = link, After(e) = b
  PROVE  At(a)'
<1>1. UNCHANGED <<entry, pc, mine, cnf, enabled, success, carrier>> /\ Indicate(e) /\ link' = b
  BY DEF Changes, taskVars, openVars, ifaceVars
<1>2. Known(a)'
  BY <1>1, KnownAdds DEF At
<1>3. pc[Ndo] = "idle"
  BY DEF Changes, Undisturbed
<1>4. Bss' = Bss /\ batch' = batch
  BY <1>1 DEF Bss, Table, Indicate
<1> QED BY <1>1, <1>2, <1>3, <1>4 DEF At

LEMMA AtQueue ==
  ASSUME StationInv, NEW a, At(a), QueueStep PROVE At(a)'
<1>1. UNCHANGED <<link, entry, pc, mine, cnf, enabled, success, carrier>>
  BY DEF QueueStep, taskVars, openVars, ifaceVars
<1>2. Known(a)'
  BY KnownTaken DEF At
<1>3. Bss' = Bss
  BY <1>1 DEF Bss, Table
<1>4. batch' = batch \/ pc[Wq] \notin {"fill", "drop"}
  BY DEF QueueStep, QueueWork, TakeBatch, EndBatch, StationInv, QueueInv, TaskInv
<1> QED BY <1>1, <1>2, <1>3, <1>4 DEF At

\* The access point is not on the table, for then it would be the handler's.
LEMMA AtConnect ==
  ASSUME StationInv, ~racing, lost' = 0, NEW a, At(a), HandleConnect PROVE At(a)'
<1>1. batch # <<>> /\ Head(batch).kind = "connect"
  BY DEF HandleConnect, Handles
<1>2. Head(batch) \in StationEvents /\ Head(batch).bssid \in Bssids
  BY <1>1, HeadType DEF StationInv, QueueInv
<1>3. PICK b \in Bssids : b = Head(batch).bssid
  BY <1>2
<1>4. a = NoBss
  BY <1>1, <1>2, KnownHead, BeforeAfter DEF At
<1>5. Insert(Wq, b, "idle")
  <2>1. ~InsertFails(Wq, "idle")
    BY LosesType DEF InsertFails, StationInv, QueueInv
  <2> QED BY <1>3, <2>1 DEF HandleConnect
<1>6. entry \in [Ids -> EntryType] /\ pc \in [Tasks -> {"idle", "fill", "drop", "config", "connect", "carrier"}]
  BY DEF StationInv, StationTypes
<1>7. PICK i \in Ids : Inserted(i, Wq, b, "idle")
  BY <1>5, <1>6, InsertMakes
<1>8. pc[Wq] = "idle"
  BY <1>7 DEF Inserted, OnExist, Goto
<1>9. Bss = {}
  BY <1>4, <1>8 DEF At
<1>10. ~Exists(b)
  BY <1>9, BssHas DEF Exists, Hashed
<1>11. Bss' = {b}
  BY <1>7, <1>9, <1>10, BssAdds DEF Inserted
<1>12. pc'[Wq] = "fill" /\ pc'[Ndo] = pc[Ndo] /\ UNCHANGED <<events, batch>>
  BY <1>6, <1>7, <1>10, TasksApart DEF Inserted, Goto
<1>13. UNCHANGED <<link, cnf, enabled, success, carrier>> /\ pc[Ndo] = "idle"
  BY <1>1, <1>5 DEF Insert, openVars, ifaceVars, StationInv, TaskInv
<1>14. Known(a)'
  BY <1>12, <1>13 DEF At, Known, Mid
<1> QED BY <1>3, <1>11, <1>12, <1>13, <1>14 DEF At

LEMMA AtFill ==
  ASSUME StationInv, ~racing, NEW a, At(a), Fill(Wq) PROVE \E b \in Bssids : At(b)'
<1>1. pc[Wq] = "fill" /\ batch # <<>> /\ Head(batch).kind = "connect" /\ pc[Ndo] = "idle"
  BY DEF Fill, Goto, StationInv, TaskInv
<1>2. Head(batch) \in StationEvents /\ Head(batch).bssid \in Bssids
  BY <1>1, HeadType DEF StationInv, QueueInv
<1>3. PICK b \in Bssids : b = Head(batch).bssid
  BY <1>2
<1>4. b = After(Head(batch)) /\ b # NoBss
  BY <1>1, <1>2, <1>3, BeforeAfter, StationAssumption DEF NoBss
<1>5. pc'[Wq] = "idle" /\ pc'[Ndo] = "idle"
  BY <1>1, TasksApart DEF Fill, Goto, Return, StationInv, StationTypes
<1>6. UNCHANGED <<link, entry, enabled>> /\ Handled /\ success' = TRUE /\ carrier' = TRUE
  BY DEF Fill, Returns, openVars
<1>7. Known(b)'
  BY <1>1, <1>4, <1>6, KnownHandled DEF At
<1>8. Bss' = {b}
  BY <1>1, <1>3, <1>6 DEF At, Bss, Table
<1>9. At(b)'
  BY <1>4, <1>5, <1>6, <1>7, <1>8 DEF At
<1> QED BY <1>9

LEMMA AtLost ==
  ASSUME StationInv, ~racing, NEW a, At(a), HandleLost PROVE At(a)' \/ At(NoBss)'
<1>1. batch # <<>> /\ Head(batch).kind = "lost" /\ pc[Wq] = "idle"
  BY DEF HandleLost, Handles, Goto
<1>2. Head(batch) \in StationEvents /\ Head(batch).bssid \in Bssids
  BY <1>1, HeadType DEF StationInv, QueueInv
<1>3. a = Head(batch).bssid /\ After(Head(batch)) = NoBss /\ a # NoBss
  BY <1>1, <1>2, KnownHead, BeforeAfter, StationAssumption DEF At, NoBss
<1>4. UNCHANGED <<link, entry, cnf, enabled, success, carrier>> /\ pc[Ndo] = "idle"
  BY <1>1 DEF HandleLost, openVars, ifaceVars, StationInv, TaskInv
<1>5. Bss' = Bss
  BY <1>4 DEF Bss, Table
<1>6. CASE Hashed(a) = {}
  <2>1. Handled /\ UNCHANGED <<pc, mine>>
    BY <1>3, <1>6 DEF HandleLost, taskVars
  <2>2. Known(NoBss)'
    BY <1>1, <1>3, <1>4, <2>1, KnownHandled DEF At
  <2>3. a \notin Bss
    BY <1>6, BssOf DEF Exists
  <2>4. Bss = {} /\ ~enabled
    BY <1>1, <1>3, <1>4, <2>3 DEF At
  <2> QED BY <1>1, <1>4, <1>5, <2>1, <2>2, <2>4 DEF At
<1>7. CASE Hashed(a) # {}
  <2>1. PICK i \in Hashed(a) : mine' = [mine EXCEPT ![Wq] = i]
    BY <1>3, <1>7 DEF HandleLost
  <2>2. Goto(Wq, "idle", "drop") /\ UNCHANGED <<events, first, work, handling, batch>>
    BY <1>3, <1>7 DEF HandleLost
  <2>3. pc'[Wq] = "drop" /\ pc'[Ndo] = pc[Ndo] /\ mine'[Wq] = i
    BY <2>1, <2>2, TasksApart DEF Goto, StationInv, StationTypes
  <2>4. entry[i].bssid = a /\ a \in Bss
    BY <2>1, BssHas DEF Hashed
  <2>5. Bss = {a}
    BY <1>1, <2>4 DEF At
  <2>6. Known(a)'
    BY <1>4, <2>2 DEF At, Known, Mid
  <2> QED BY <1>1, <1>3, <1>4, <1>5, <2>3, <2>4, <2>5, <2>6 DEF At
<1> QED BY <1>6, <1>7

LEMMA AtDrop == ASSUME StationInv, ~racing, NEW a, At(a), Drop PROVE At(NoBss)'
<1>1. pc[Wq] = "drop" /\ batch # <<>> /\ Head(batch).kind = "lost" /\ pc[Ndo] = "idle"
  BY DEF Drop, Goto, StationInv, TaskInv
<1>2. Head(batch) \in StationEvents
  BY <1>1 DEF StationInv, QueueInv
<1>3. After(Head(batch)) = NoBss
  BY <1>1, <1>2, BeforeAfter
<1>4. UNCHANGED <<link, enabled>> /\ Handled /\ success' = FALSE /\ carrier' = FALSE
      /\ entry' = Free({mine[Wq]})
  BY DEF Drop, openVars
<1>5. pc'[Wq] = "idle" /\ pc'[Ndo] = "idle"
  BY <1>1, TasksApart DEF Drop, Goto, StationInv, StationTypes
<1>6. Known(NoBss)'
  BY <1>1, <1>3, <1>4, KnownHandled DEF At
<1>7. entry \in [Ids -> EntryType] /\ mine[Wq] \in Ids /\ entry[mine[Wq]].life = "hashed"
  BY <1>1, TasksApart DEF StationInv, StationTypes, TaskInv, TableInv
<1>8. \A i \in Ids : /\ entry'[i].bssid = entry[i].bssid
                     /\ i = mine[Wq] => entry'[i].life = "freed"
                     /\ i # mine[Wq] => entry'[i] = entry[i]
  <2>1. \A i \in Ids : /\ entry'[i].bssid = entry[i].bssid
                       /\ i \in {mine[Wq]} => entry'[i].life = "freed"
                       /\ i \notin {mine[Wq]} => entry'[i] = entry[i]
    BY <1>4, <1>7, FreeMakes
  <2> QED BY <2>1
<1>9. Bss = {a} /\ entry[mine[Wq]].bssid = a
  BY <1>1 DEF At
<1>10. ASSUME NEW i \in Ids PROVE entry'[i].life # "hashed"
  <2>1. CASE entry[i].life = "hashed"
    <3>1. entry[i].bssid = a
      BY <1>9, <2>1, BssHas
    <3>2. i = mine[Wq]
      BY <1>7, <1>9, <2>1, <3>1 DEF StationInv, TableInv
    <3> QED BY <1>8, <3>2
  <2>2. CASE entry[i].life # "hashed"
    BY <1>8, <2>2
  <2> QED BY <2>1, <2>2
<1>11. Bss' = {}
  BY <1>10 DEF Bss, Table
<1> QED BY <1>4, <1>5, <1>6, <1>11 DEF At

\* ndo_open has the interface to itself, so the handler knows what it is told.
LEMMA AloneKnows ==
  ASSUME StationInv, NoEvents, NEW a, At(a) PROVE a = link /\ pc[Wq] = "idle" /\ batch = <<>>
<1>1. events = <<>> /\ batch = <<>> /\ pc[Wq] = "idle"
  BY DEF NoEvents, StationInv, QueueInv, TaskInv
<1> QED BY <1>1 DEF At, Known, Mid, Chain

LEMMA AtOpen ==
  ASSUME StationInv, ~racing, NEW a, At(a), Open \/ OpenConfig \/ OpenCarrier PROVE At(a)'
<1>1. NoEvents
  BY DEF Open, OpenConfig, OpenCarrier, Goto, Alone, StationInv, TaskInv
<1>2. a = link /\ pc[Wq] = "idle"
  BY <1>1, AloneKnows
<1>3. UNCHANGED <<events, batch, link, entry, mine>>
  BY DEF Open, OpenConfig, OpenCarrier, queueVars
<1>4. Known(a)' /\ Bss' = Bss
  BY <1>3 DEF At, Known, Mid, Bss, Table
<1>5. pc'[Wq] = "idle"
  BY <1>2, TasksApart DEF Open, OpenConfig, OpenCarrier, Goto, StationInv, StationTypes
<1>6. CASE Open
  <2>1. pc'[Ndo] = "config" /\ cnf' = link /\ enabled'
    BY <1>6, TasksApart DEF Open, Goto, StationInv, StationTypes
  <2>2. Bss \subseteq {a} \ {NoBss}
    BY <1>2 DEF At
  <2> QED BY <1>2, <1>3, <1>4, <1>5, <2>1, <2>2 DEF At
<1>7. CASE OpenConfig
  <2>1. /\ pc[Ndo] = "config" /\ pc'[Ndo] = IF cnf = NoBss THEN "carrier" ELSE "connect"
        /\ success' = (cnf # NoBss) /\ UNCHANGED <<cnf, enabled>>
    BY <1>7, TasksApart DEF OpenConfig, Goto, StationInv, StationTypes, openVars
  <2>2. enabled /\ cnf = link /\ Bss \subseteq {a} \ {NoBss}
    BY <1>2, <2>1 DEF At
  <2>3. cnf = NoBss => Bss = {cnf} \ {NoBss}
    BY <1>2, <2>2
  <2> QED BY <1>2, <1>3, <1>4, <1>5, <2>1, <2>2, <2>3 DEF At
<1>8. CASE OpenCarrier
  <2>1. /\ pc[Ndo] = "carrier" /\ pc'[Ndo] = "idle" /\ carrier' = success
        /\ UNCHANGED <<cnf, enabled, success>>
    BY <1>8, TasksApart DEF OpenCarrier, Goto, StationInv, StationTypes, openVars
  <2>2. cnf = link /\ success = (cnf # NoBss) /\ Bss = {cnf} \ {NoBss}
    BY <2>1 DEF At
  <2> QED BY <1>2, <1>3, <1>4, <1>5, <2>1, <2>2 DEF At
<1> QED BY <1>6, <1>7, <1>8

LEMMA AtOpenConnect ==
  ASSUME StationInv, ~racing, lost' = 0, NEW a, At(a), OpenConnect PROVE At(a)'
<1>1. pc[Ndo] = "connect"
  BY DEF OpenConnect, Insert, InsertFails, OnExist, Goto
<1>2. NoEvents /\ cnf # NoBss /\ cnf \in Bssids
  BY <1>1 DEF StationInv, TaskInv, StationTypes
<1>3. a = link /\ pc[Wq] = "idle" /\ cnf = link /\ success = (cnf # NoBss) /\ enabled
  BY <1>1, <1>2, AloneKnows DEF At
<1>4. PICK b \in Bssids : b = cnf
  BY <1>2
<1>5. Insert(Ndo, b, "connect")
  <2>1. ~InsertFails(Ndo, "connect")
    BY LosesType DEF InsertFails, StationInv, QueueInv
  <2> QED BY <1>4, <2>1 DEF OpenConnect
<1>6. entry \in [Ids -> EntryType] /\ pc \in [Tasks -> {"idle", "fill", "drop", "config", "connect", "carrier"}]
  BY DEF StationInv, StationTypes
<1>7. PICK i \in Ids : Inserted(i, Ndo, b, "connect")
  BY <1>5, <1>6, InsertMakes
<1>8. Bss \subseteq {b}
  BY <1>3, <1>4 DEF At
<1>9. UNCHANGED <<link, cnf, enabled, success, carrier>>
  BY <1>5 DEF Insert, openVars, ifaceVars
<1>10. UNCHANGED <<events, batch>>
  BY <1>7, TasksApart DEF Inserted, OnExist, Returns
<1>11. pc'[Wq] = "idle" /\ pc'[Ndo] \in {"fill", "carrier"}
  BY <1>3, <1>6, <1>7, TasksApart DEF Inserted, OnExist, Goto, Return
<1>12. Bss' = {b}
  <2>1. CASE Exists(b)
    <3>1. Bss' = Bss
      BY <1>7, <2>1, BssStays DEF Inserted
    <3>2. b \in Bss
      BY <2>1, BssHas DEF Exists, Hashed
    <3> QED BY <1>8, <3>1, <3>2
  <2>2. CASE ~Exists(b)
    <3>1. Bss' = Bss \cup {b}
      BY <1>7, <2>2, BssAdds DEF Inserted
    <3> QED BY <1>8, <3>1
  <2> QED BY <2>1, <2>2
<1>13. Known(a)'
  BY <1>9, <1>10 DEF At, Known, Mid
<1> QED BY <1>2, <1>3, <1>4, <1>9, <1>11, <1>12, <1>13 DEF At

LEMMA AtFillNdo ==
  ASSUME StationInv, ~racing, NEW a, At(a), Fill(Ndo) PROVE At(a)'
<1>1. pc[Ndo] = "fill"
  BY DEF Fill, Goto
<1>2. NoEvents /\ cnf # NoBss
  BY <1>1 DEF StationInv, TaskInv
<1>3. pc[Wq] = "idle" /\ cnf = link /\ enabled /\ Bss = {cnf} \ {NoBss}
  BY <1>1, <1>2, AloneKnows DEF At
<1>4. UNCHANGED <<link, entry, cnf, enabled, events, batch>> /\ success' = TRUE
  BY TasksApart DEF Fill, Returns, openVars
<1>5. pc'[Wq] = "idle" /\ pc'[Ndo] = "carrier"
  BY <1>3, TasksApart DEF Fill, Goto, Return, StationInv, StationTypes
<1>6. Known(a)' /\ Bss' = Bss
  BY <1>4 DEF At, Known, Mid, Bss, Table
<1>7. Bss \subseteq {a} \ {NoBss}
  BY <1>3 DEF At
<1> QED BY <1>2, <1>3, <1>4, <1>5, <1>6, <1>7 DEF At

LEMMA AtStop == ASSUME StationInv, ~racing, NEW a, At(a), Stop PROVE At(a)'
<1>1. NoEvents /\ pc[Ndo] = "idle" /\ ~enabled' /\ entry' = Free(Table)
      /\ UNCHANGED <<events, batch, link, pc, mine>>
  BY DEF Stop, Alone, queueVars, taskVars
<1>2. pc[Wq] = "idle"
  BY <1>1, AloneKnows
<1>3. entry \in [Ids -> EntryType]
  BY DEF StationInv, StationTypes
<1>4. \A i \in Ids : entry'[i].life # "hashed"
  <2>1. \A i \in Ids : /\ i \in Table => entry'[i].life = "freed"
                       /\ i \notin Table => entry'[i] = entry[i]
    BY <1>1, <1>3, FreeMakes
  <2> QED BY <2>1 DEF Table
<1>5. Bss' = {}
  BY <1>4 DEF Bss, Table
<1>6. Known(a)'
  BY <1>1 DEF At, Known, Mid
<1> QED BY <1>1, <1>2, <1>5, <1>6 DEF At

LEMMA AgreesFirst == Init => AgreesInv
<1> SUFFICES ASSUME Init PROVE At(NoBss)
  BY DEF AgreesInv
<1>1. Known(NoBss)
  BY DEF Init, QueueInit, Known, Mid, Chain
<1>2. Bss = {}
  BY DEF Init, Bss, Table
<1> QED BY <1>1, <1>2, TasksApart DEF Init, At

LEMMA LostStays ==
  ASSUME StationInv, [Next]_vars, lost' = 0 PROVE lost = 0
<1>1. UNCHANGED lost \/ Loses
  BY DEF Next, Connects, Loss, Changes, Indicate, QueueStep, QueueWork, TakeBatch, EndBatch,
       HandlerStep, HandleConnect, HandleLost, Drop, Fill, Insert, InsertFails, Open, NdoStep,
       OpenConfig, OpenConnect, OpenCarrier, Stop, vars, queueVars
<1> QED BY <1>1, LosesType DEF StationInv, QueueInv

LEMMA AgreesStep == StationInv /\ AgreesInv /\ [Next]_vars => AgreesInv'
<1> SUFFICES ASSUME StationInv, AgreesInv, [Next]_vars, ~racing', lost' = 0
             PROVE  \E b \in Bssids \cup {NoBss} : At(b)'
  BY DEF AgreesInv
<1>1. ~racing /\ lost = 0
  <2>1. racing' = racing
    BY DEF Next, Connects, Loss, Changes, QueueStep, HandlerStep, HandleConnect, HandleLost, Drop,
         Fill, Insert, InsertFails, Open, NdoStep, OpenConfig, OpenConnect, OpenCarrier, Stop,
         vars, stationVars, openVars
  <2> QED BY <2>1, LostStays
<1>2. PICK a \in Bssids \cup {NoBss} : At(a)
  BY <1>1 DEF AgreesInv
<1>3. CASE Connects
  <2>1. PICK b \in Bssids : link = NoBss /\ Changes(b, [kind |-> "connect", bssid |-> b])
    BY <1>3 DEF Connects
  <2> DEFINE e == [kind |-> "connect", bssid |-> b]
  <2>2. e \in StationEvents /\ Before(e) = link /\ After(e) = b
    BY <2>1 DEF StationEvents, Before, After
  <2>3. Changes(b, e)
    BY <2>1
  <2> HIDE DEF e
  <2> QED BY <1>1, <1>2, <2>2, <2>3, AtChanges
<1>4. CASE Loss
  <2>1. PICK b \in Bssids : b = link /\ Changes(NoBss, [kind |-> "lost", bssid |-> b])
    BY <1>4 DEF Loss, StationInv, StationTypes
  <2> DEFINE e == [kind |-> "lost", bssid |-> b]
  <2>2. e \in StationEvents /\ Before(e) = link /\ After(e) = NoBss
    BY <2>1 DEF StationEvents, Before, After
  <2>3. Changes(NoBss, e)
    BY <2>1
  <2> HIDE DEF e
  <2> QED BY <1>1, <1>2, <2>2, <2>3, AtChanges
<1>5. CASE QueueStep
  BY <1>2, <1>5, AtQueue
<1>6. CASE HandlerStep
  BY <1>1, <1>2, <1>6, AtConnect, AtFill, AtLost, AtDrop DEF HandlerStep
<1>7. CASE Open
  BY <1>1, <1>2, <1>7, AtOpen
<1>8. CASE NdoStep
  BY <1>1, <1>2, <1>8, AtOpen, AtOpenConnect, AtFillNdo DEF NdoStep
<1>9. CASE Stop
  BY <1>1, <1>2, <1>9, AtStop
<1>10. CASE UNCHANGED vars
  <2>1. UNCHANGED <<events, batch, link, entry, pc, mine, cnf, enabled, success, carrier>>
    BY <1>10 DEF vars, queueVars, stationVars, taskVars, openVars, ifaceVars
  <2>2. At(a)'
    BY <1>2, <2>1 DEF At, Known, Mid, Bss, Table
  <2> QED BY <1>2, <2>2
<1> QED BY <1>3, <1>4, <1>5, <1>6, <1>7, <1>8, <1>9, <1>10 DEF Next

-----------------------------------------------------------------------------
LEMMA QueueNotices == ASSUME NEW E, QueueInv(E) PROVE Noticed
BY DEF QueueInv, Noticed

LEMMA StationMeans == StationInv => TypeOK /\ OneEntry /\ UsesLive /\ Noticed
<1> SUFFICES ASSUME StationInv PROVE TypeOK /\ OneEntry /\ UsesLive /\ Noticed
  OBVIOUS
<1>1. TypeOK
  <2>1. {first, work, handling, success, carrier, enabled} \subseteq BOOLEAN /\ racing \in Racings
    BY Zenon DEF StationInv, StationFlags, QueueInv, QueueFlags
  <2>2. \A t \in Tasks : pc[t] \in {"fill", "drop"} => mine[t] # None
    BY DEF StationInv, TaskInv, Ids, None
  <2>3. /\ link \in Bssids \cup {NoBss} /\ cnf \in Bssids \cup {NoBss}
        /\ changes \in 0 .. MaxChanges /\ opens \in 0 .. MaxOpens
        /\ entry \in [Ids -> [bssid : Bssids \cup {NoBss}, life : {"unused", "hashed", "freed"}]]
        /\ pc \in [Tasks -> {"idle", "fill", "drop", "config", "connect", "carrier"}]
        /\ mine \in [Tasks -> Ids \cup {None}]
    BY DEF StationInv, StationTypes, EntryType
  <2>4. lost \in 0 .. MaxLost
    BY DEF StationInv, QueueInv, QueueFlags
  <2> QED BY <2>1, <2>2, <2>3, <2>4, Zenon DEF TypeOK
<1>2. OneEntry
  <2>1. ASSUME NEW b \in Bssids PROVE Cardinality(Hashed(b)) <= 1
    <3>1. CASE Hashed(b) = {}
      BY <3>1, FS_EmptySet
    <3>2. CASE Hashed(b) # {}
      <4>1. PICK i \in Hashed(b) : TRUE
        BY <3>2
      <4>2. Hashed(b) = {i}
        BY <4>1 DEF Hashed, StationInv, TableInv
      <4>3. Cardinality({i}) = 1
        BY FS_Singleton
      <4> QED BY <4>2, <4>3
    <3> QED BY <3>1, <3>2
  <2> QED BY <2>1 DEF OneEntry
<1>3. UsesLive
  BY DEF StationInv, TableInv, UsesLive
<1>4. Noticed
  BY QueueNotices DEF StationInv
<1> QED BY <1>1, <1>2, <1>3, <1>4

LEMMA AgreesMeans == StationInv /\ AgreesInv => AgreesWithFirmware
<1> SUFFICES ASSUME StationInv, AgreesInv, Settled, enabled, ~racing
             PROVE  /\ success = (link # NoBss) /\ carrier = success
                    /\ Bss = {link} \ {NoBss}
  BY DEF AgreesWithFirmware, Bss
<1>1. NoEvents /\ pc[Ndo] = "idle" /\ lost = 0
  BY DEF Settled
<1>2. PICK a : At(a)
  BY <1>1 DEF AgreesInv
<1>3. a = link /\ pc[Wq] = "idle"
  BY <1>1, <1>2, AloneKnows
<1> QED BY <1>1, <1>2, <1>3 DEF At

\* Without races and failures the table, the flag and the carrier say what the
\* firmware says whenever every event was handled.
THEOREM Agrees == Spec => []AgreesWithFirmware
<1>1. Init => StationInv /\ AgreesInv
  BY StationFirst, AgreesFirst
<1>2. StationInv /\ AgreesInv /\ [Next]_vars => (StationInv /\ AgreesInv)'
  BY StationStep, AgreesStep
<1> QED BY <1>1, <1>2, AgreesMeans, PTL DEF Spec

\* Under sta_mtx an access point gets one entry, and an entry is not freed
\* while a task works on it.
THEOREM TableSafe == Spec => [](OneEntry /\ UsesLive)
<1>1. StationInv => OneEntry /\ UsesLive
  BY StationMeans
<1> QED BY <1>1, StationFirst, StationStep, PTL DEF Spec

-----------------------------------------------------------------------------
(* The access point.                                                       *)

ApEvents == [kind : {"add", "loss"}]

ApFlags == prompt \in Prompts /\ {prompt, apSuccess, apCarrier} \subseteq BOOLEAN

ApTypes ==
  /\ list \subseteq Macs /\ old \subseteq Macs /\ table \subseteq Macs
  /\ mac \in Macs \cup {NoMac} /\ count \in 0 .. Cardinality(Macs)
  /\ apPc \in {"idle", "insert", "fill", "drop"}
  /\ apChanges \in 0 .. MaxApChanges /\ stops \in 0 .. MaxStops
  /\ apPc # "idle" => mac \in Macs /\ batch # <<>>

\* What the one event e on its way tells: a station that joined or left.
Tells(e) ==
  \/ e.kind = "add" /\ \E m \in Macs \ old : list = old \cup {m}
  \/ e.kind = "loss" /\ \E m \in old : list = old \ {m}

\* One event is on its way at most.
OneEvent ==
  /\ Len(events) + Len(batch) <= 1
  /\ work \/ first => batch = <<>>
  /\ ~(work /\ first)

\* The list is what the host knows but for the event that is on its way.
TellsInv ==
  /\ apPc = "idle" => table = old
  /\ apPc = "idle" /\ events = <<>> /\ batch = <<>> => list = old
  /\ events # <<>> => Tells(events[1])
  /\ apPc = "idle" /\ batch # <<>> => Tells(batch[1])
  /\ apPc # "idle" => list = old /\ count = Cardinality(list)
  /\ apPc = "insert" => mac \in list /\ table = list \ {mac}
  /\ apPc = "fill" => mac \in list /\ table = list
  /\ apPc = "drop" => mac \notin list /\ table = list \cup {mac}

\* The carrier is on while the table has a station the handler is done with.
CarrierInv ==
  /\ apSuccess = apCarrier
  /\ apPc # "fill" => apCarrier = (table # {})
  /\ apPc = "fill" => apCarrier = (table \ {mac} # {})

\* Every event is handled before the next, and nothing failed.
Smooth == prompt /\ lost = 0 /\ stops = 0

KnowsInv == Smooth => OneEvent /\ TellsInv /\ CarrierInv

ApInv == ApFlags /\ ApTypes /\ QueueInv(ApEvents) /\ KnowsInv

LEMMA CountType == ASSUME ApTypes PROVE Cardinality(list) \in 0 .. Cardinality(Macs)
<1>1. IsFiniteSet(Macs)
  BY ApStationsAssumption
<1>2. list \subseteq Macs
  BY DEF ApTypes
<1>3. /\ IsFiniteSet(list) /\ Cardinality(list) <= Cardinality(Macs)
  BY <1>1, <1>2, FS_Subset
<1>4. Cardinality(list) \in Nat /\ Cardinality(Macs) \in Nat
  BY <1>1, <1>3, FS_CardinalityType
<1> QED BY <1>3, <1>4

LEMMA ApFirst == ApInit => ApInv
<1> SUFFICES ASSUME ApInit PROVE ApInv
  OBVIOUS
<1>1. ApFlags
  <2>1. prompt \in Prompts /\ apSuccess = FALSE /\ apCarrier = FALSE
    BY DEF ApInit
  <2>2. prompt \in BOOLEAN
    BY <2>1, ApStationsAssumption
  <2> QED BY <2>1, <2>2, Zenon DEF ApFlags
<1>2. ApTypes
  <2>1. Cardinality(Macs) \in Nat
    BY ApStationsAssumption, FS_CardinalityType
  <2> QED BY <2>1, ApStationsAssumption DEF ApInit, ApTypes, NoMac
<1>3. QueueInv(ApEvents)
  BY QueueFirst DEF ApInit
<1>4. OneEvent
  BY DEF ApInit, QueueInit, OneEvent
<1>5. TellsInv
  BY DEF ApInit, QueueInit, TellsInv
<1>6. CarrierInv
  <2>1. apSuccess = FALSE /\ apCarrier = FALSE /\ table = {} /\ apPc = "idle"
    BY DEF ApInit
  <2> QED BY <2>1, Zenon DEF CarrierInv
<1> QED BY <1>1, <1>2, <1>3, <1>4, <1>5, <1>6 DEF ApInv, KnowsInv

\* A behaviour that is smooth after a step was so before it.
LEMMA WasSmooth ==
  ASSUME QueueFlags, Loses \/ UNCHANGED lost, UNCHANGED <<prompt, stops>>, Smooth'
  PROVE  Smooth /\ lost' = lost
<1>1. lost' = lost
  BY LosesType DEF Smooth
<1> QED BY <1>1, Zenon DEF Smooth

\* The flags of the interface stay.
LEMMA ApFlagsStay == ASSUME ApFlags, UNCHANGED apIfaceVars PROVE ApFlags'
BY Zenon DEF ApFlags, apIfaceVars

LEMMA ApCarrierStays ==
  ASSUME CarrierInv, UNCHANGED <<apIfaceVars, table, mac>>, apPc' # "fill", apPc # "fill"
  PROVE  CarrierInv'
BY Zenon DEF CarrierInv, apIfaceVars

-----------------------------------------------------------------------------
(* A station joins or leaves.                                              *)

LEMMA ApChangesKeep ==
  ASSUME NEW new \in SUBSET Macs, NEW kind \in {"add", "loss"}, ApInv, ApChanges(new, kind),
         kind = "add" => \E m \in Macs \ list : new = list \cup {m},
         kind = "loss" => \E m \in list : new = list \ {m}
  PROVE  ApInv'
<1> DEFINE e == [kind |-> kind]
<1>1. e \in ApEvents /\ e.kind = kind
  BY DEF ApEvents
<1>2. Indicate(e) /\ list' = new
  BY DEF ApChanges
<1>3. UNCHANGED <<old, table, apPc, mac, count, apIfaceVars, stops>>
  BY DEF ApChanges, handlerVars
<1>4. UNCHANGED <<work, handling, batch>>
  BY <1>2 DEF Indicate
<1>5. QueueInv(ApEvents)'
  BY <1>1, <1>2, IndicateKeeps DEF ApInv
<1>6. ApFlags'
  BY <1>3, ApFlagsStay DEF ApInv
<1>7. ApTypes'
  <2>1. apChanges' \in 0 .. MaxApChanges
    BY ApStationsAssumption DEF ApInv, ApTypes, ApChanges
  <2> QED BY <1>2, <1>3, <1>4, <2>1 DEF ApInv, ApTypes
<1>8. ASSUME Smooth' PROVE OneEvent' /\ TellsInv' /\ CarrierInv'
  <2>1. Loses \/ UNCHANGED lost
    BY <1>2 DEF Indicate
  <2>2. UNCHANGED <<prompt, stops>>
    BY <1>3, Zenon DEF apIfaceVars
  <2>3. Smooth /\ lost' = lost
    BY <1>8, <2>1, <2>2, WasSmooth DEF ApInv, QueueInv
  <2>4. OneEvent /\ TellsInv /\ CarrierInv
    BY <2>3 DEF ApInv, KnowsInv
  <2>5. events = <<>> /\ ~first /\ ~work /\ ~handling /\ apPc = "idle"
    BY <2>3 DEF ApChanges, Quiet, NoEvents, Smooth
  <2>6. batch = <<>>
    BY <2>5 DEF ApInv, QueueInv
  <2>7. ~Loses
    BY <2>3, LosesType DEF ApInv, QueueInv, Smooth
  <2>8. events' = <<e>>
    BY <1>2, <2>5, <2>7 DEF Indicate, Added
  <2>9. OneEvent'
    BY <1>4, <2>5, <2>6, <2>8 DEF OneEvent
  <2>10. list = old /\ table = old
    BY <2>4, <2>5, <2>6 DEF TellsInv
  <2>11. Tells(e)'
    <3>1. old \subseteq Macs
      BY DEF ApInv, ApTypes
    <3> QED BY <1>1, <1>2, <1>3, <2>10 DEF Tells
  <2>12. TellsInv'
    BY <1>3, <1>4, <2>5, <2>6, <2>8, <2>10, <2>11 DEF TellsInv
  <2>13. CarrierInv'
    BY <1>3, <2>4, <2>5, ApCarrierStays
  <2> QED BY <2>9, <2>12, <2>13
<1> QED BY <1>5, <1>6, <1>7, <1>8 DEF ApInv, KnowsInv

-----------------------------------------------------------------------------
(* The queue.                                                              *)

LEMMA ApQueueKeeps == ApInv /\ ApQueueStep => ApInv'
<1> SUFFICES ASSUME ApInv, ApQueueStep PROVE ApInv'
  OBVIOUS
<1>1. UNCHANGED <<list, apChanges, old, table, apPc, mac, count, apIfaceVars, stops>>
  BY DEF ApQueueStep, handlerVars
<1>2. QueueInv(ApEvents)'
  BY QueueKeeps DEF ApInv, ApQueueStep
<1>3. ApFlags'
  BY <1>1, ApFlagsStay DEF ApInv
<1>4. apPc # "idle" => batch' # <<>>
  <2>1. apPc # "idle" => batch # <<>>
    BY DEF ApInv, ApTypes
  <2>2. batch # <<>> => batch' = batch
    BY DEF ApQueueStep, QueueWork, TakeBatch, EndBatch, ApInv, QueueInv
  <2> QED BY <2>1, <2>2
<1>5. ApTypes'
  BY <1>1, <1>4 DEF ApInv, ApTypes
<1>6. ASSUME Smooth' PROVE OneEvent' /\ TellsInv' /\ CarrierInv'
  <2>1. UNCHANGED <<prompt, stops>>
    BY <1>1, Zenon DEF apIfaceVars
  <2>2. UNCHANGED lost
    BY DEF ApQueueStep, QueueWork, TakeBatch, EndBatch
  <2>3. OneEvent /\ TellsInv /\ CarrierInv
    BY <1>6, <2>1, <2>2, WasSmooth DEF ApInv, QueueInv, KnowsInv
  <2>4. CarrierInv'
    BY <1>1, <2>3, Zenon DEF CarrierInv, apIfaceVars
  <2>5. ASSUME NEW x, Tells(x) PROVE Tells(x)'
    BY <1>1, <2>5 DEF Tells
  <2>6. CASE QueueWork
    <3>1. OneEvent'
      BY <2>3, <2>6 DEF QueueWork, OneEvent
    <3>2. UNCHANGED <<events, batch>>
      BY <2>6 DEF QueueWork
    <3>3. TellsInv'
      BY <1>1, <2>3, <2>5, <3>2 DEF TellsInv
    <3> QED BY <2>4, <3>1, <3>3
  <2>7. CASE TakeBatch
    <3>1. batch = <<>> /\ ~first /\ work' = FALSE /\ first' = first
      BY <2>3, <2>7 DEF TakeBatch, OneEvent
    <3>2. batch' = events /\ events' = <<>>
      BY <2>7 DEF TakeBatch
    <3>3. OneEvent'
      BY <2>3, <3>1, <3>2 DEF OneEvent
    <3>4. apPc = "idle"
      BY <3>1 DEF ApInv, ApTypes
    <3>5. TellsInv'
      BY <1>1, <2>3, <2>5, <3>1, <3>2, <3>4 DEF TellsInv
    <3> QED BY <2>4, <3>3, <3>5
  <2>8. CASE EndBatch
    <3>1. UNCHANGED <<events, batch, first, work>>
      BY <2>8 DEF EndBatch
    <3>2. OneEvent'
      BY <2>3, <3>1 DEF OneEvent
    <3>3. TellsInv'
      BY <1>1, <2>3, <2>5, <3>1 DEF TellsInv
    <3> QED BY <2>4, <3>2, <3>3
  <2> QED BY <2>6, <2>7, <2>8 DEF ApQueueStep
<1> QED BY <1>2, <1>3, <1>5, <1>6 DEF ApInv, KnowsInv

(* The handler.                                                            *)

\* The handler's step leaves the list and the flags that say smooth.
LEMMA HandlerSmooth ==
  ASSUME ApInv, ApHandlerStep, Smooth'
  PROVE  /\ Smooth /\ lost' = lost /\ ~Loses
         /\ OneEvent /\ TellsInv /\ CarrierInv
<1>1. UNCHANGED stops
  BY DEF ApHandlerStep, Checked, ApFails, ApInsert, ApFill, ApDrop
<1>2. prompt' = prompt
  BY Zenon DEF ApHandlerStep, Checked, ApFails, ApInsert, ApFill, ApDrop, apIfaceVars
<1>3. Loses \/ UNCHANGED lost
  BY DEF ApHandlerStep, Checked, ApFails, ApInsert, ApFill, ApDrop
<1>4. Smooth /\ lost' = lost
  BY <1>1, <1>2, <1>3, WasSmooth DEF ApInv, QueueInv
<1>5. ~Loses
  BY <1>4, LosesType DEF ApInv, QueueInv, Smooth
<1> QED BY <1>4, <1>5 DEF ApInv, KnowsInv

\* The one event of the batch is over.
LEMMA EventOver ==
  ASSUME OneEvent, batch # <<>>, batch \in Seq(ApEvents), events \in Seq(ApEvents), Handled
  PROVE  /\ OneEvent' /\ events' = <<>> /\ batch' = <<>>
<1> DEFINE n == Len(batch)
<1> DEFINE k == Len(events)
<1>1. n \in Nat /\ k \in Nat /\ n # 0 /\ n + k <= 1 /\ (k = 0 => events = <<>>)
  BY DEF OneEvent
<1>2. n = 1 /\ k = 0
  <2> HIDE DEF n, k
  <2> QED BY <1>1
<1>3. batch' = <<>> /\ events' = <<>> /\ UNCHANGED <<first, work>>
  BY <1>1, <1>2 DEF Handled
<1> QED BY <1>3 DEF OneEvent

LEMMA ApCheckedKeeps ==
  ASSUME NEW kind \in {"add", "loss"}, NEW next, kind = "add" => next = "insert",
         kind = "loss" => next = "drop", ApInv, Checked(kind, next), ApHandlerStep
  PROVE  ApInv'
<1>1. /\ UNCHANGED <<lost, list, apChanges, table, apIfaceVars, stops>>
      /\ apPc = "idle" /\ batch # <<>> /\ batch[1].kind = kind
  BY DEF Checked, Handles
<1>2. old' = list
  BY DEF Checked, Remembered
<1>3. count' = Cardinality(list)
  BY DEF Checked
<1>4. list \subseteq Macs /\ old \subseteq Macs /\ Difference(kind) \subseteq Macs
  BY DEF ApInv, ApTypes, Difference
<1>5. ApFlags'
  BY <1>1, ApFlagsStay DEF ApInv
<1>6. CASE Difference(kind) = {}
  <2>1. Handled /\ UNCHANGED <<apPc, mac>>
    BY <1>6 DEF Checked
  <2>2. QueueInv(ApEvents)'
    BY <1>1, <2>1, HandledKeeps DEF ApInv
  <2>3. ApTypes'
    BY <1>1, <1>2, <1>3, <1>4, <2>1, CountType DEF ApInv, ApTypes
  <2>4. ~Smooth'
    <3> SUFFICES ASSUME Smooth' PROVE FALSE
      OBVIOUS
    <3>1. Tells(batch[1])
      BY <1>1, HandlerSmooth DEF TellsInv
    <3> QED BY <1>1, <1>6, <3>1 DEF Tells, Difference
  <2> QED BY <1>5, <2>2, <2>3, <2>4 DEF ApInv, KnowsInv
<1>7. CASE Difference(kind) # {}
  <2>1. mac' \in Difference(kind) /\ apPc' = next /\ UNCHANGED <<events, first, work, handling, batch>>
    BY <1>7 DEF Checked
  <2>2. QueueInv(ApEvents)'
    BY <1>1, <2>1, QueueStays DEF ApInv
  <2>3. ApTypes'
    BY <1>1, <1>2, <1>3, <1>4, <2>1, CountType DEF ApInv, ApTypes
  <2>4. ASSUME Smooth' PROVE OneEvent' /\ TellsInv' /\ CarrierInv'
    <3>1. OneEvent /\ TellsInv /\ CarrierInv
      BY <2>4, HandlerSmooth
    <3>2. OneEvent'
      BY <2>1, <3>1 DEF OneEvent
    <3>3. table = old /\ Tells(batch[1])
      BY <1>1, <3>1 DEF TellsInv
    <3>4. events = <<>>
      BY <1>1, <3>1 DEF OneEvent, ApInv, QueueInv
    <3>5. TellsInv'
      <4>1. CASE kind = "add"
        BY <1>1, <1>2, <1>3, <2>1, <3>3, <3>4, <4>1 DEF TellsInv, Tells, Difference
      <4>2. CASE kind = "loss"
        BY <1>1, <1>2, <1>3, <2>1, <3>3, <3>4, <4>2 DEF TellsInv, Tells, Difference
      <4> QED BY <4>1, <4>2
    <3>6. CarrierInv'
      <4>1. apPc' # "fill" /\ apPc # "fill" /\ UNCHANGED table
        BY <1>1, <2>1
      <4> QED BY <1>1, <3>1, <4>1, Zenon DEF CarrierInv, apIfaceVars
    <3> QED BY <3>2, <3>5, <3>6
  <2> QED BY <1>5, <2>2, <2>3, <2>4 DEF ApInv, KnowsInv
<1> QED BY <1>6, <1>7

LEMMA ApFailsKeep == ASSUME ApInv, ApFails, ApHandlerStep PROVE ApInv'
<1>1. batch # <<>> /\ Handled /\ Loses /\ apPc' = "idle"
  BY DEF ApFails, ApInv, ApTypes
<1>2. UNCHANGED <<list, apChanges, old, table, mac, count, apIfaceVars, stops>>
  BY DEF ApFails
<1>3. QueueInv(ApEvents)'
  BY <1>1, HandledKeeps DEF ApInv
<1>4. ApFlags'
  BY <1>2, ApFlagsStay DEF ApInv
<1>5. ApTypes'
  BY <1>1, <1>2 DEF ApInv, ApTypes
<1>6. ~Smooth'
  BY <1>1, HandlerSmooth
<1> QED BY <1>3, <1>4, <1>5, <1>6 DEF ApInv, KnowsInv

LEMMA ApInsertKeeps == ASSUME ApInv, ApInsert, ApHandlerStep PROVE ApInv'
<1>1. apPc = "insert" /\ mac \in Macs /\ batch # <<>>
  BY DEF ApInsert, ApInv, ApTypes
<1>2. UNCHANGED <<lost, list, apChanges, old, mac, count, apIfaceVars, stops>> /\ table' = table \cup {mac}
  BY DEF ApInsert
<1>3. ApFlags'
  BY <1>2, ApFlagsStay DEF ApInv
<1>4. CASE mac \in table
  <2>1. apPc' = "idle" /\ Handled
    BY <1>4 DEF ApInsert
  <2>2. QueueInv(ApEvents)'
    BY <1>1, <1>2, <2>1, HandledKeeps DEF ApInv
  <2>3. ApTypes'
    BY <1>1, <1>2, <2>1 DEF ApInv, ApTypes
  <2>4. ~Smooth'
    BY <1>1, <1>4, HandlerSmooth DEF TellsInv
  <2> QED BY <1>3, <2>2, <2>3, <2>4 DEF ApInv, KnowsInv
<1>5. CASE mac \notin table
  <2>1. apPc' = "fill" /\ UNCHANGED <<events, first, work, handling, batch>>
    BY <1>5 DEF ApInsert
  <2>2. QueueInv(ApEvents)'
    BY <1>2, <2>1, QueueStays DEF ApInv
  <2>3. ApTypes'
    BY <1>1, <1>2, <2>1 DEF ApInv, ApTypes
  <2>4. ASSUME Smooth' PROVE OneEvent' /\ TellsInv' /\ CarrierInv'
    <3>1. OneEvent /\ TellsInv /\ CarrierInv
      BY <2>4, HandlerSmooth
    <3>2. OneEvent'
      BY <2>1, <3>1 DEF OneEvent
    <3>3. events = <<>>
      BY <1>1, <3>1 DEF OneEvent, ApInv, QueueInv
    <3>4. TellsInv'
      BY <1>1, <1>2, <2>1, <3>1, <3>3 DEF TellsInv
    <3>5. CarrierInv'
      <4>1. table' \ {mac'} = table
        BY <1>2, <1>5
      <4>2. apPc' = "fill" /\ apPc # "fill"
        BY <1>1, <2>1
      <4> QED BY <1>2, <3>1, <4>1, <4>2, Zenon DEF CarrierInv, apIfaceVars
    <3> QED BY <3>2, <3>4, <3>5
  <2> QED BY <1>3, <2>2, <2>3, <2>4 DEF ApInv, KnowsInv
<1> QED BY <1>4, <1>5

LEMMA ApFillKeeps == ASSUME ApInv, ApFill, ApHandlerStep PROVE ApInv'
<1>1. apPc = "fill" /\ apPc' = "idle" /\ mac \in Macs /\ batch # <<>> /\ Handled
  BY DEF ApFill, ApInv, ApTypes
<1>2. UNCHANGED <<lost, list, apChanges, old, table, mac, count, stops>>
  BY DEF ApFill
<1>3. prompt' = prompt
  BY DEF ApFill
<1>4. /\ count = 1 => apSuccess' = TRUE /\ apCarrier' = TRUE
      /\ count # 1 => UNCHANGED <<apSuccess, apCarrier>>
  BY Zenon DEF ApFill, apIfaceVars
<1>5. ApFlags'
  <2>1. CASE count = 1
    BY <1>3, <1>4, <2>1, Zenon DEF ApInv, ApFlags
  <2>2. CASE count # 1
    BY <1>3, <1>4, <2>2, Zenon DEF ApInv, ApFlags
  <2> QED BY <2>1, <2>2
<1>6. QueueInv(ApEvents)'
  BY <1>1, <1>2, HandledKeeps DEF ApInv
<1>7. ApTypes'
  BY <1>1, <1>2 DEF ApInv, ApTypes
<1>8. ASSUME Smooth' PROVE OneEvent' /\ TellsInv' /\ CarrierInv'
  <2>1. OneEvent /\ TellsInv /\ CarrierInv
    BY <1>8, HandlerSmooth
  <2>2. OneEvent' /\ events' = <<>> /\ batch' = <<>>
    BY <1>1, <2>1, EventOver DEF ApInv, QueueInv
  <2>3. list = old /\ count = Cardinality(list) /\ mac \in list /\ table = list
    BY <1>1, <2>1 DEF TellsInv
  <2>4. TellsInv'
    BY <1>1, <1>2, <2>2, <2>3 DEF TellsInv
  <2>5. apSuccess' = apCarrier'
    <3>1. apSuccess = apCarrier
      BY <2>1, Zenon DEF CarrierInv
    <3> QED BY <1>4, <3>1, Zenon
  <2>6. apCarrier' = (table' # {})
    <3>1. table' # {}
      BY <1>2, <2>3
    <3>2. apCarrier'
      <4>1. CASE count = 1
        BY <1>4, <4>1, Zenon
      <4>2. CASE count # 1
        <5>1. table \ {mac} # {}
          <6>1. SUFFICES ASSUME table \ {mac} = {} PROVE FALSE
            OBVIOUS
          <6>2. list = {mac}
            BY <2>3, <6>1
          <6>3. Cardinality({mac}) = 1
            BY FS_Singleton
          <6> QED BY <2>3, <4>2, <6>2, <6>3
        <5>2. apCarrier = (table \ {mac} # {})
          BY <1>1, <2>1, Zenon DEF CarrierInv
        <5>3. apCarrier' = apCarrier
          BY <1>4, <4>2, Zenon
        <5> QED BY <5>1, <5>2, <5>3, Zenon
      <4> QED BY <4>1, <4>2
    <3>3. apCarrier' \in BOOLEAN
      BY <1>5, Zenon DEF ApFlags
    <3> QED BY <3>1, <3>2, <3>3, Zenon
  <2>7. CarrierInv'
    <3>1. apPc' # "fill"
      BY <1>1
    <3> QED BY <2>5, <2>6, <3>1, Zenon DEF CarrierInv
  <2> QED BY <2>2, <2>4, <2>7
<1> QED BY <1>5, <1>6, <1>7, <1>8 DEF ApInv, KnowsInv

LEMMA ApDropKeeps == ASSUME ApInv, ApDrop, ApHandlerStep PROVE ApInv'
<1>1. apPc = "drop" /\ apPc' = "idle" /\ mac \in Macs /\ batch # <<>> /\ Handled
  BY DEF ApDrop, ApInv, ApTypes
<1>2. UNCHANGED <<lost, list, apChanges, old, mac, count, stops>> /\ table' = table \ {mac}
  BY DEF ApDrop
<1>3. prompt' = prompt
  BY DEF ApDrop
<1>4. /\ mac \in table /\ count = 0 => apSuccess' = FALSE /\ apCarrier' = FALSE
      /\ ~(mac \in table /\ count = 0) => UNCHANGED <<apSuccess, apCarrier>>
  BY Zenon DEF ApDrop, apIfaceVars, IsLast
<1>5. ApFlags'
  <2>1. CASE mac \in table /\ count = 0
    BY <1>3, <1>4, <2>1, Zenon DEF ApInv, ApFlags
  <2>2. CASE ~(mac \in table /\ count = 0)
    BY <1>3, <1>4, <2>2, Zenon DEF ApInv, ApFlags
  <2> QED BY <2>1, <2>2
<1>6. QueueInv(ApEvents)'
  BY <1>1, <1>2, HandledKeeps DEF ApInv
<1>7. ApTypes'
  BY <1>1, <1>2 DEF ApInv, ApTypes
<1>8. ASSUME Smooth' PROVE OneEvent' /\ TellsInv' /\ CarrierInv'
  <2>1. OneEvent /\ TellsInv /\ CarrierInv
    BY <1>8, HandlerSmooth
  <2>2. OneEvent' /\ events' = <<>> /\ batch' = <<>>
    BY <1>1, <2>1, EventOver DEF ApInv, QueueInv
  <2>3. list = old /\ count = Cardinality(list) /\ mac \notin list /\ table = list \cup {mac}
    BY <1>1, <2>1 DEF TellsInv
  <2>4. table' = list
    BY <1>2, <2>3
  <2>5. TellsInv'
    BY <1>1, <1>2, <2>2, <2>3, <2>4 DEF TellsInv
  <2>6. apSuccess' = apCarrier'
    <3>1. apSuccess = apCarrier
      BY <2>1, Zenon DEF CarrierInv
    <3> QED BY <1>4, <3>1, Zenon
  <2>7. apCarrier' = (table' # {})
    <3>1. list \subseteq Macs /\ IsFiniteSet(list)
      BY ApStationsAssumption, FS_Subset DEF ApInv, ApTypes
    <3>2. count = 0 <=> list = {}
      BY <2>3, <3>1, FS_EmptySet
    <3>3. apCarrier = TRUE
      <4>1. table # {} /\ apPc # "fill"
        BY <1>1, <2>3
      <4> QED BY <2>1, <4>1, Zenon DEF CarrierInv
    <3>4. mac \in table
      BY <2>3
    <3>5. CASE count = 0
      BY <1>4, <2>4, <3>2, <3>4, <3>5, Zenon
    <3>6. CASE count # 0
      BY <1>4, <2>4, <3>2, <3>3, <3>6, Zenon
    <3> QED BY <3>5, <3>6
  <2>8. CarrierInv'
    <3>1. apPc' # "fill"
      BY <1>1
    <3> QED BY <2>6, <2>7, <3>1, Zenon DEF CarrierInv
  <2> QED BY <2>2, <2>5, <2>8
<1> QED BY <1>5, <1>6, <1>7, <1>8 DEF ApInv, KnowsInv

LEMMA ApStopKeeps == ASSUME ApInv, ApStop PROVE ApInv'
<1>1. UNCHANGED <<queueVars, list, apChanges, old, apPc, mac, count, apIfaceVars>> /\ table' = {}
  BY DEF ApStop, handlerVars
<1>2. ApFlags'
  BY <1>1, ApFlagsStay DEF ApInv
<1>3. UNCHANGED <<events, first, work, handling, batch, lost>>
  BY <1>1 DEF queueVars
<1>4. QueueInv(ApEvents)'
  BY <1>3, QueueStays DEF ApInv
<1>5. stops' \in 0 .. MaxStops /\ stops' # 0
  BY ApStationsAssumption DEF ApStop, ApInv, ApTypes
<1>6. ApTypes'
  BY <1>1, <1>3, <1>5 DEF ApInv, ApTypes
<1>7. ~Smooth'
  BY <1>5 DEF Smooth
<1> QED BY <1>2, <1>4, <1>6, <1>7 DEF ApInv, KnowsInv

LEMMA ApStays == ASSUME ApInv, UNCHANGED apVars PROVE ApInv'
<1>1. UNCHANGED <<list, apChanges, old, table, apPc, mac, count, apIfaceVars, stops, queueVars>>
  BY DEF apVars, apOwnVars, handlerVars
<1>2. UNCHANGED <<events, first, work, handling, batch, lost>>
  BY <1>1 DEF queueVars
<1>3. ApFlags'
  BY <1>1, ApFlagsStay DEF ApInv
<1>4. QueueInv(ApEvents)'
  BY <1>2, QueueStays DEF ApInv
<1>5. ApTypes'
  BY <1>1, <1>2 DEF ApInv, ApTypes
<1>6. prompt' = prompt
  BY <1>1, Zenon DEF apIfaceVars
<1>7. ASSUME Smooth' PROVE OneEvent' /\ TellsInv' /\ CarrierInv'
  <2>1. OneEvent /\ TellsInv /\ CarrierInv
    BY <1>1, <1>2, <1>6, <1>7, WasSmooth DEF ApInv, QueueInv, KnowsInv
  <2>2. OneEvent'
    BY <1>2, <2>1 DEF OneEvent
  <2>3. TellsInv'
    BY <1>1, <1>2, <2>1 DEF TellsInv, Tells
  <2>4. CarrierInv'
    BY <1>1, <2>1, Zenon DEF CarrierInv, apIfaceVars
  <2> QED BY <2>2, <2>3, <2>4
<1> QED BY <1>3, <1>4, <1>5, <1>7 DEF ApInv, KnowsInv

LEMMA ApStep == ApInv /\ [ApNext]_apVars => ApInv'
<1> SUFFICES ASSUME ApInv, [ApNext]_apVars PROVE ApInv'
  OBVIOUS
<1>1. CASE Joins
  <2>1. PICK m \in Macs \ list : ApChanges(list \cup {m}, "add")
    BY <1>1 DEF Joins
  <2>2. list \cup {m} \in SUBSET Macs
    BY DEF ApInv, ApTypes
  <2> QED BY <2>1, <2>2, ApChangesKeep
<1>2. CASE Leaves
  <2>1. PICK m \in list : ApChanges(list \ {m}, "loss")
    BY <1>2 DEF Leaves
  <2>2. list \ {m} \in SUBSET Macs
    BY DEF ApInv, ApTypes
  <2> QED BY <2>1, <2>2, ApChangesKeep
<1>3. CASE ApQueueStep
  BY <1>3, ApQueueKeeps
<1>4. CASE ApHandlerStep
  <2>1. CASE Checked("add", "insert")
    BY <1>4, <2>1, ApCheckedKeeps
  <2>2. CASE Checked("loss", "drop")
    BY <1>4, <2>2, ApCheckedKeeps
  <2> QED BY <1>4, <2>1, <2>2, ApFailsKeep, ApInsertKeeps, ApFillKeeps, ApDropKeeps DEF ApHandlerStep
<1>5. CASE ApStop
  BY <1>5, ApStopKeeps
<1>6. CASE UNCHANGED apVars
  BY <1>6, ApStays
<1> QED BY <1>1, <1>2, <1>3, <1>4, <1>5, <1>6 DEF ApNext

LEMMA ApMeans == ApInv => ApTypeOK /\ KnowsTheStations /\ Noticed
<1> SUFFICES ASSUME ApInv PROVE ApTypeOK /\ KnowsTheStations /\ Noticed
  OBVIOUS
<1>1. ApTypeOK
  <2>1. {apSuccess, apCarrier} \subseteq BOOLEAN
    BY Zenon DEF ApInv, ApFlags
  <2>2. lost \in 0 .. MaxLost
    BY DEF ApInv, QueueInv, QueueFlags
  <2> QED BY <2>1, <2>2, ApStationsAssumption DEF ApInv, ApTypes, ApTypeOK, NoMac
<1>2. KnowsTheStations
  <2> SUFFICES ASSUME prompt, Quiet, lost = 0, stops = 0
               PROVE  table = list /\ apCarrier = (list # {}) /\ apSuccess = apCarrier
    BY Zenon DEF KnowsTheStations
  <2>1. TellsInv /\ CarrierInv
    BY Zenon DEF ApInv, KnowsInv, Smooth
  <2>2. events = <<>> /\ apPc = "idle" /\ batch = <<>>
    BY DEF Quiet, NoEvents, ApInv, QueueInv
  <2>3. table = list /\ apPc # "fill"
    BY <2>1, <2>2 DEF TellsInv
  <2> QED BY <2>1, <2>3, Zenon DEF CarrierInv
<1>3. Noticed
  BY DEF ApInv, QueueInv, Noticed
<1> QED BY <1>1, <1>2, <1>3

\* Where each event is handled before the next station joins or leaves, and
\* nothing fails, the table has the firmware's stations when all are handled.
THEOREM StationsAreKnown == ApSpec => [](ApTypeOK /\ KnowsTheStations /\ Noticed)
<1>1. ApSpec => []ApInv
  BY ApFirst, ApStep, PTL DEF ApSpec
<1> QED BY <1>1, ApMeans, PTL

\* The station that atbm_sta_loss_event works on is not in the list it got.
Unlisted == apPc = "drop" => mac \notin old

LEMMA UnlistedStep == Unlisted /\ [ApNext]_apVars => Unlisted'
<1> SUFFICES ASSUME Unlisted, [ApNext]_apVars PROVE Unlisted'
  OBVIOUS
<1>1. CASE Joins \/ Leaves \/ ApQueueStep \/ ApStop
  BY <1>1 DEF Unlisted, Joins, Leaves, ApChanges, ApQueueStep, ApStop, handlerVars
<1>2. CASE Checked("add", "insert")
  BY <1>2 DEF Unlisted, Checked
<1>3. CASE Checked("loss", "drop")
  BY <1>3 DEF Unlisted, Checked, Difference, Remembered
<1>4. CASE ApFails \/ ApInsert \/ ApFill \/ ApDrop
  BY <1>4 DEF Unlisted, ApFails, ApInsert, ApFill, ApDrop
<1>5. CASE UNCHANGED apVars
  BY <1>5 DEF Unlisted, apVars, apOwnVars, handlerVars
<1> QED BY <1>1, <1>2, <1>3, <1>4, <1>5 DEF ApNext, ApHandlerStep

\* A station of two lists one after the other stays in the table while the
\* interface is up, however many events come in a bunch and whatever fails.
THEOREM ReportedStay == ApSpec => KeepsTheReported
<1> DEFINE Keeps == \A m \in Macs :
                      m \in old /\ m \in old' /\ m \in table /\ stops' = stops => m \in table'
<1>1. ASSUME ApTypes, Unlisted, [ApNext]_apVars PROVE Keeps
  <2>1. CASE Joins \/ Leaves \/ ApQueueStep
    BY <2>1 DEF Joins, Leaves, ApChanges, ApQueueStep
  <2>2. CASE Checked("add", "insert") \/ Checked("loss", "drop") \/ ApFails \/ ApInsert \/ ApFill
    BY <2>2 DEF Checked, ApFails, ApInsert, ApFill
  <2>3. CASE ApDrop
    BY <1>1, <2>3 DEF ApDrop, Unlisted
  <2>4. CASE ApStop
    <3>1. stops \in Nat /\ stops' = stops + 1
      BY <1>1, <2>4, ApStationsAssumption DEF ApStop, ApTypes
    <3> QED BY <2>4, <3>1 DEF ApStop
  <2>5. CASE UNCHANGED apVars
    BY <2>5 DEF apVars, apOwnVars
  <2> QED BY <1>1, <2>1, <2>2, <2>3, <2>4, <2>5 DEF ApNext, ApHandlerStep
<1>2. ApInit => Unlisted
  BY DEF ApInit, Unlisted
<1>3. ApSpec => [](ApInv /\ Unlisted)
  BY <1>2, ApFirst, ApStep, UnlistedStep, PTL DEF ApSpec
<1>4. ApInv /\ Unlisted /\ [ApNext]_apVars => [Keeps]_apVars
  BY <1>1 DEF ApInv
<1> QED BY <1>3, <1>4, PTL DEF ApSpec, KeepsTheReported

-----------------------------------------------------------------------------
(* The probe and release.                                                  *)

Phases == {"unbound", "pm", "threads", "load", "ready", "netdev", "bound", "unbind",
           "err_tx", "err_rx", "err_free", "irq_off", "stop_tx", "stop_rx", "destroy", "forget", "free"}

LifeTypes ==
  /\ failing \in ProbeFails /\ bus \in Phases
  /\ mod \in {"unloaded", "register", "attach", "on", "loaded", "undo", "failed", "unregister",
              "power_off", "wait_rcu", "gone"}
  /\ threads \subseteq {"sdio_tx", "sdio_rx"}
  /\ card \in {"out", "new", "in"} /\ hw \in {"none", "alive", "freed"}
  /\ plugs \in 0 .. MaxPlugs + 1 /\ reloads \in 0 .. MaxReloads
  /\ initCnt \in Nat /\ pending \in Nat

LifeFlags == {power, driver, wq, event, self, irq, reading, vif, done} \subseteq BOOLEAN

\* Where the threads may exist, what they know, and where an interrupt, the
\* reading of sdio_rx, which outlives it, and an event may come from.
UsersInv ==
  /\ "pm" \notin failing /\ bus \in {"load", "ready", "netdev", "bound", "irq_off", "stop_tx",
                                     "stop_rx", "err_tx", "err_rx"} => self
  /\ hw = "freed" => bus \in {"unbind", "unbound"}
  /\ "netdev" \notin failing =>
       /\ bus \in {"unbound", "pm", "threads", "unbind", "err_free", "destroy", "forget", "free"} =>
            threads = {}
       /\ bus \in {"err_rx", "stop_rx"} => "sdio_tx" \notin threads
       /\ irq => bus \in {"ready", "netdev", "bound", "irq_off"}
       /\ reading => "sdio_rx" \in threads
       /\ reading /\ reloads = 0 =>
            bus \in {"ready", "netdev", "bound", "irq_off", "stop_tx", "stop_rx"}
       /\ event /\ reloads = 0 =>
            bus \in {"ready", "netdev", "bound", "irq_off", "stop_tx", "stop_rx", "destroy"}

\* No card has been probed.
Unprobed == bus = "unbound" /\ initCnt = 0 /\ threads = {} /\ pending = 0

Alive(t) == IF t \in threads THEN 1 ELSE 0

\* One probe has made two threads at most, and one callback.
OneCard ==
  plugs <= 1 =>
    /\ plugs = 0 => card = "out"
    /\ plugs = 0 \/ card = "new" => Unprobed
    /\ bus \in {"pm", "threads"} => initCnt = 0 /\ threads = {}
    /\ initCnt + Alive("sdio_tx") + Alive("sdio_rx") <= 2
    /\ pending <= 1 /\ (pending = 1 => initCnt = 2)

Undone ==
  /\ mod \in {"undo", "failed"} => ~power
  /\ mod = "failed" => ~driver /\ bus = "unbound"

LifeInv == LifeTypes /\ LifeFlags /\ UsersInv /\ OneCard /\ Undone
-----------------------------------------------------------------------------
(* Its steps.                                                              *)

Later == <<bus, hwVars, userVars, probeVars, rcuVars>>

\* The steps of the module: the task in module_init or module_exit.
TaskStep ==
  PowerOn \/ BeginExit \/ Register \/ Attached \/ On \/ PowerOff
  \/ Unregister("undo", "failed") \/ Unregister("unregister", "power_off")

LifeStopStep ==
  \/ StopThread("sdio_tx", "err_tx", "err_rx") \/ StopThread("sdio_rx", "err_rx", "err_free")
  \/ StopThread("sdio_tx", "stop_tx", "stop_rx") \/ StopThread("sdio_rx", "stop_rx", "destroy")

CardStep == Plug \/ Pull
ProbeAny == ProbePm \/ ProbeThreads \/ ProbeLoad \/ ProbeReady \/ ProbeNetdev
EndStep ==
  Unbound \/ LifeFree("err_free", "unbind") \/ LifeFree("free", "unbind") \/ Remove \/ IrqOff
  \/ DestroyWorkqueue \/ ForgetWorkqueue
WorkStep == GracePeriod \/ WakeRx \/ Indication \/ RxSleeps \/ EventWork \/ WaitRcu

LEMMA LifeKinds ==
  ASSUME LifeNext
  PROVE  TaskStep \/ CardStep \/ Probe \/ ProbeAny \/ LifeStopStep \/ EndStep \/ WorkStep
BY DEF LifeNext, ModuleStep, BusStep, ProbeStep, ReleaseStep, TaskStep, CardStep, ProbeAny,
     LifeStopStep, EndStep, WorkStep

LEMMA LifeFirst == LifeInit => LifeInv
<1> SUFFICES ASSUME LifeInit PROVE LifeInv
  OBVIOUS
<1>1. LifeTypes
  BY LifecycleAssumption DEF LifeInit, LifeTypes, Phases
<1>2. LifeFlags
  BY Zenon DEF LifeInit, LifeFlags
<1>3. UsersInv
  BY DEF LifeInit, UsersInv
<1>4. OneCard
  BY DEF LifeInit, OneCard, Unprobed, Alive
<1>5. Undone
  BY DEF LifeInit, Undone
<1> QED BY <1>1, <1>2, <1>3, <1>4, <1>5 DEF LifeInv

LEMMA TaskKeeps ==
  ASSUME LifeInv, TaskStep PROVE LifeTypes' /\ UsersInv' /\ OneCard' /\ Undone'
<1>1. UNCHANGED <<failing, cardVars, bus, hwVars, userVars, probeVars, rcuVars>>
  BY DEF TaskStep, PowerOn, BeginExit, Register, Attached, On, PowerOff, Unregister
<1>2. UNCHANGED <<failing, card, plugs, bus, hw, wq, event, threads, irq, reading, self, reloads, vif,
                  initCnt, pending, done>>
  BY <1>1 DEF cardVars, hwVars, userVars, probeVars, rcuVars
<1>3. mod' \in {"register", "attach", "on", "loaded", "undo", "failed", "unregister",
                "power_off", "wait_rcu"}
  BY DEF TaskStep, PowerOn, BeginExit, Register, Attached, On, PowerOff, Unregister, Module
<1>4. LifeTypes'
  BY <1>2, <1>3 DEF LifeInv, LifeTypes
<1>5. UsersInv' /\ OneCard'
  BY <1>2 DEF LifeInv, UsersInv, OneCard, Unprobed, Alive
<1>6. Undone'
  BY <1>2 DEF LifeInv, Undone, TaskStep, PowerOn, BeginExit, Register, Attached, On, PowerOff,
       Unregister, Module, PowerAfterFailure
<1> QED BY <1>4, <1>5, <1>6

LEMMA CardKeeps ==
  ASSUME LifeInv, CardStep PROVE LifeTypes' /\ UsersInv' /\ OneCard' /\ Undone'
<1>1. UNCHANGED <<failing, mod, power, driver, bus, hw, wq, event, threads, irq, reading, self, reloads,
                  vif, initCnt, pending, done>>
  BY DEF CardStep, Plug, Pull, modVars, hwVars, userVars, probeVars, rcuVars
<1>2. card' \in {"new", "out"} /\ (card' = "new" => card = "out" /\ plugs' = plugs + 1
         /\ plugs < MaxPlugs) /\ (card' = "out" => plugs' = plugs)
  BY DEF CardStep, Plug, Pull
<1>3. plugs \in Nat /\ MaxPlugs \in Nat
  BY LifecycleAssumption DEF LifeInv, LifeTypes
<1>4. LifeTypes'
  BY <1>1, <1>2, <1>3 DEF LifeInv, LifeTypes
<1>5. UsersInv' /\ Undone'
  BY <1>1 DEF LifeInv, UsersInv, Undone
<1>6. OneCard'
  BY <1>1, <1>2, <1>3 DEF LifeInv, OneCard, Unprobed, Alive
<1> QED BY <1>4, <1>5, <1>6

LEMMA ProbeKeeps ==
  ASSUME LifeInv, Probe PROVE LifeTypes' /\ UsersInv' /\ OneCard' /\ Undone'
<1>1. UNCHANGED <<failing, mod, power, driver, plugs, event, threads, irq, reading, reloads, vif,
                  initCnt, pending, done>>
  BY DEF Probe, modVars, userVars, rcuVars
<1>2. /\ driver /\ card = "new" /\ card' = "in" /\ bus = "unbound"
      /\ \/ bus' = "pm" /\ hw' = "alive"
         \/ bus' = "unbind" /\ hw' = hw
  BY DEF Probe, Bus, hwVars
<1>3. LifeTypes'
  BY <1>1, <1>2 DEF LifeInv, LifeTypes, Phases
<1>4. UsersInv'
  BY <1>1, <1>2 DEF LifeInv, UsersInv
<1>5. OneCard'
  BY <1>1, <1>2 DEF LifeInv, OneCard, Unprobed, Alive
<1>6. Undone'
  BY <1>1, <1>2 DEF LifeInv, Undone
<1> QED BY <1>3, <1>4, <1>5, <1>6

LEMMA ProbeAnyKeeps ==
  ASSUME LifeInv, ProbeAny PROVE LifeTypes' /\ UsersInv' /\ OneCard' /\ Undone'
<1>1. UNCHANGED <<failing, mod, power, driver, card, plugs, hw, event, reading, initCnt, pending, done>>
  BY DEF ProbeAny, ProbePm, ProbeThreads, ProbeLoad, ProbeReady, ProbeNetdev, modVars, cardVars,
       hwVars, userVars, probeVars, rcuVars
<1>2. LifeTypes'
  <2>1. bus' \in Phases /\ threads' \subseteq {"sdio_tx", "sdio_rx"}
    BY DEF ProbeAny, ProbePm, ProbeThreads, ProbeLoad, ProbeReady, ProbeNetdev, Bus, userVars,
         LifeInv, LifeTypes, Phases
  <2>2. reloads' \in 0 .. MaxReloads
    BY LifecycleAssumption DEF ProbeAny, ProbePm, ProbeThreads, ProbeLoad, ProbeReady,
         ProbeNetdev, probeVars, LifeInv, LifeTypes
  <2> QED BY <1>1, <2>1, <2>2 DEF LifeInv, LifeTypes
<1>3. Undone'
  BY <1>1 DEF LifeInv, Undone, ProbeAny, ProbePm, ProbeThreads, ProbeLoad, ProbeReady,
       ProbeNetdev, Bus
<1>4. CASE ProbePm
  <2>1. /\ UNCHANGED <<threads, irq, self, reloads>> /\ bus = "pm"
        /\ \/ bus' = "threads"
           \/ bus' = "err_tx" /\ "pm" \in failing
    BY <1>4 DEF ProbePm, Bus, MayFail, userVars, probeVars
  <2>2. UsersInv' /\ OneCard'
    BY <1>1, <2>1 DEF LifeInv, UsersInv, OneCard, Unprobed, Alive
  <2> QED BY <1>2, <1>3, <2>2
<1>5. CASE ProbeThreads
  <2>1. /\ bus = "threads" /\ bus' \in {"load", "err_tx"} /\ self' = TRUE
        /\ UNCHANGED <<irq, reloads>> /\ threads' \subseteq {"sdio_tx", "sdio_rx"}
    BY <1>5 DEF ProbeThreads, Bus, SelfAfter
  <2>2. UsersInv' /\ OneCard'
    BY <1>1, <2>1 DEF LifeInv, UsersInv, OneCard, Unprobed, Alive
  <2> QED BY <1>2, <1>3, <2>2
<1>6. CASE ProbeLoad
  <2>1. /\ bus = "load" /\ UNCHANGED <<threads, self, reloads>>
        /\ \/ bus' = "ready"
           \/ bus' = "err_tx" /\ irq' = irq
    BY <1>6 DEF ProbeLoad, Bus, probeVars
  <2>2. UsersInv' /\ OneCard'
    BY <1>1, <2>1 DEF LifeInv, UsersInv, OneCard, Unprobed, Alive
  <2> QED BY <1>2, <1>3, <2>2
<1>7. CASE ProbeReady
  <2>1. /\ bus = "ready" /\ UNCHANGED <<threads, self>>
        /\ \/ bus' = "netdev" /\ UNCHANGED <<irq, reloads>>
           \/ bus' = "load" /\ irq' = FALSE /\ reloads' = reloads + 1
    BY <1>7 DEF ProbeReady, Bus
  <2>2. reloads \in Nat
    BY LifecycleAssumption DEF LifeInv, LifeTypes
  <2>3. UsersInv' /\ OneCard'
    BY <1>1, <2>1, <2>2 DEF LifeInv, UsersInv, OneCard, Unprobed, Alive
  <2> QED BY <1>2, <1>3, <2>3
<1>8. CASE ProbeNetdev
  <2>1. /\ bus = "netdev" /\ UNCHANGED <<threads, self, irq, reloads>>
        /\ \/ bus' = "bound"
           \/ bus' = "unbind" /\ "netdev" \in failing
    BY <1>8 DEF ProbeNetdev, Bus, MayFail, userVars
  <2>2. UsersInv' /\ OneCard'
    BY <1>1, <2>1 DEF LifeInv, UsersInv, OneCard, Unprobed, Alive
  <2> QED BY <1>2, <1>3, <2>2
<1> QED BY <1>4, <1>5, <1>6, <1>7, <1>8 DEF ProbeAny

LEMMA LifeStopKeeps ==
  ASSUME LifeInv, LifeStopStep PROVE LifeTypes' /\ UsersInv' /\ OneCard' /\ Undone'
<1>1. PICK t \in {"sdio_tx", "sdio_rx"} :
        /\ <<t, bus, bus'>> \in
             {<<"sdio_tx", "err_tx", "err_rx">>, <<"sdio_rx", "err_rx", "err_free">>,
              <<"sdio_tx", "stop_tx", "stop_rx">>, <<"sdio_rx", "stop_rx", "destroy">>}
        /\ self /\ threads' = threads \ {t} /\ reading' = (reading /\ t # "sdio_rx")
        /\ IF t \in threads THEN AsynchronizeRcu ELSE UNCHANGED rcuVars
  BY DEF LifeStopStep, StopThread, Bus
<1>2. UNCHANGED <<failing, mod, power, driver, card, plugs, hw, wq, event, irq, self, reloads,
                  vif>>
  BY DEF LifeStopStep, StopThread, modVars, cardVars, hwVars, probeVars
<1>3. initCnt \in Nat /\ pending \in Nat
  BY DEF LifeInv, LifeTypes
<1>4. \/ t \notin threads /\ initCnt' = initCnt /\ pending' = pending
      \/ /\ t \in threads /\ initCnt' = initCnt + 1
         /\ pending' = IF initCnt > 0 THEN pending + 1 ELSE pending
  BY <1>1 DEF AsynchronizeRcu, rcuVars, Counts
<1>5. LifeTypes'
  BY <1>1, <1>2, <1>3, <1>4 DEF LifeInv, LifeTypes, Phases
<1>6. UsersInv'
  BY <1>1, <1>2 DEF LifeInv, UsersInv, LifeTypes
<1>7. OneCard'
  BY <1>1, <1>2, <1>3, <1>4 DEF LifeInv, OneCard, Unprobed, Alive
<1>8. Undone'
  BY <1>1, <1>2 DEF LifeInv, Undone
<1> QED BY <1>5, <1>6, <1>7, <1>8

LEMMA EndKeeps ==
  ASSUME LifeInv, EndStep PROVE LifeTypes' /\ UsersInv' /\ OneCard' /\ Undone'
<1>1. UNCHANGED <<failing, mod, power, driver, card, plugs, event, threads, reading, self, reloads,
                  initCnt, pending, done>>
  BY DEF EndStep, Unbound, LifeFree, Remove, IrqOff, DestroyWorkqueue, ForgetWorkqueue, modVars, cardVars,
       userVars, probeVars, rcuVars
<1>2. \/ bus = "unbind" /\ bus' = "unbound" /\ UNCHANGED <<hw, irq>>
      \/ bus \in {"err_free", "free"} /\ bus' = "unbind" /\ hw' = "freed" /\ irq' = irq
      \/ bus = "bound" /\ bus' = "irq_off" /\ UNCHANGED <<hw, irq>>
      \/ bus = "irq_off" /\ bus' = "stop_tx" /\ irq' = FALSE /\ hw' = hw
      \/ bus = "destroy" /\ bus' = "forget" /\ ~event /\ UNCHANGED <<hw, irq>>
      \/ bus = "forget" /\ bus' = "free" /\ UNCHANGED <<hw, irq>>
  BY DEF EndStep, Unbound, LifeFree, Remove, IrqOff, DestroyWorkqueue, ForgetWorkqueue, Bus, hwVars, userVars
<1>3. LifeTypes'
  BY <1>1, <1>2 DEF LifeInv, LifeTypes, Phases
<1>4. UsersInv'
  BY <1>1, <1>2 DEF LifeInv, UsersInv
<1>5. OneCard'
  BY <1>1, <1>2 DEF LifeInv, OneCard, Unprobed, Alive
<1>6. Undone'
  BY <1>1, <1>2 DEF LifeInv, Undone
<1> QED BY <1>3, <1>4, <1>5, <1>6

LEMMA WorkKeeps ==
  ASSUME LifeInv, WorkStep PROVE LifeTypes' /\ UsersInv' /\ OneCard' /\ Undone'
<1>1. UNCHANGED <<failing, power, driver, card, plugs, bus, hw, threads, irq, self, reloads,
                  initCnt>>
  BY DEF WorkStep, GracePeriod, WakeRx, Indication, RxSleeps, EventWork, WaitRcu, modVars, cardVars, hwVars,
       userVars, probeVars, rcuVars
<1>2. (pending' = pending \/ pending' = 0) /\ (mod' = mod \/ mod' = "gone")
  BY DEF WorkStep, GracePeriod, WakeRx, Indication, RxSleeps, EventWork, WaitRcu, Module, rcuVars, modVars
<1>3. /\ event' => event \/ reading
      /\ reading' => reading \/ (irq /\ "sdio_rx" \in threads)
  BY DEF WorkStep, GracePeriod, WakeRx, Indication, RxSleeps, EventWork, WaitRcu, userVars
<1>4. LifeTypes'
  BY <1>1, <1>2 DEF LifeInv, LifeTypes
<1>5. UsersInv'
  BY <1>1, <1>3 DEF LifeInv, UsersInv
<1>6. OneCard'
  BY <1>1, <1>2 DEF LifeInv, OneCard, Unprobed, Alive
<1>7. Undone'
  BY <1>1, <1>2 DEF LifeInv, Undone
<1> QED BY <1>4, <1>5, <1>6, <1>7

LEMMA LifeFlagsStep == ASSUME LifeInv, LifeNext PROVE LifeFlags'
<1> DEFINE Flag(x) == x \in BOOLEAN
<1>1. /\ power \in BOOLEAN /\ driver \in BOOLEAN /\ wq \in BOOLEAN /\ event \in BOOLEAN
      /\ self \in BOOLEAN /\ irq \in BOOLEAN /\ vif \in BOOLEAN /\ done \in BOOLEAN
      /\ reading \in BOOLEAN
  BY Zenon DEF LifeInv, LifeFlags
<1>2. power' \in BOOLEAN /\ driver' \in BOOLEAN
  <2>1. ASSUME TaskStep PROVE power' \in BOOLEAN /\ driver' \in BOOLEAN
    BY <1>1, <2>1, Zenon DEF TaskStep, PowerOn, BeginExit, Register, Attached, On, PowerOff,
         Unregister, PowerAfterFailure
  <2>2. ASSUME CardStep \/ Probe \/ ProbeAny \/ LifeStopStep \/ EndStep \/ WorkStep
        PROVE  UNCHANGED <<power, driver>>
    BY <2>2 DEF CardStep, Plug, Pull, Probe, ProbeAny, ProbePm, ProbeThreads, ProbeLoad,
         ProbeReady, ProbeNetdev, LifeStopStep, StopThread, EndStep, Unbound, LifeFree, Remove, IrqOff,
         DestroyWorkqueue, ForgetWorkqueue, WorkStep, GracePeriod, WakeRx, Indication, RxSleeps, EventWork, WaitRcu, modVars
  <2> QED BY <1>1, <2>1, <2>2, LifeKinds, Zenon
<1>3. wq' \in BOOLEAN /\ event' \in BOOLEAN /\ irq' \in BOOLEAN /\ reading' \in BOOLEAN
  <2>1. ASSUME TaskStep \/ CardStep
        PROVE  UNCHANGED <<wq, event, irq, reading>>
    BY <2>1 DEF TaskStep, PowerOn, BeginExit, Register, Attached, On, PowerOff, Unregister,
         CardStep, Plug, Pull, hwVars, userVars
  <2>2. ASSUME Probe PROVE (wq' = TRUE \/ wq' = wq) /\ UNCHANGED <<event, irq, reading>>
    BY <2>2 DEF Probe, hwVars, userVars
  <2>3. ASSUME ProbeAny
        PROVE  UNCHANGED <<wq, event, reading>> /\ (irq' = TRUE \/ irq' = FALSE \/ irq' = irq)
    BY <2>3 DEF ProbeAny, ProbePm, ProbeThreads, ProbeLoad, ProbeReady, ProbeNetdev, hwVars, userVars
  <2>4. ASSUME EndStep
        PROVE  /\ wq' = FALSE \/ wq' = wq
               /\ event' = event /\ reading' = reading /\ (irq' = FALSE \/ irq' = irq)
    BY <2>4 DEF EndStep, Unbound, LifeFree, Remove, IrqOff, DestroyWorkqueue, ForgetWorkqueue,
         hwVars, userVars
  <2>5. ASSUME WorkStep
        PROVE  /\ UNCHANGED <<wq, irq>> /\ (event' = TRUE \/ event' = FALSE \/ event' = event)
               /\ reading' = TRUE \/ reading' = FALSE \/ reading' = reading
    BY <2>5 DEF WorkStep, GracePeriod, WakeRx, Indication, RxSleeps, EventWork, WaitRcu, hwVars, userVars
  <2>6. ASSUME LifeStopStep
        PROVE  UNCHANGED <<wq, event, irq>> /\ (reading' = FALSE \/ reading' = reading)
    <3>1. \E t \in {"sdio_tx", "sdio_rx"} : reading' = (reading /\ t # "sdio_rx")
      BY <2>6, Zenon DEF LifeStopStep, StopThread
    <3>2. reading' = FALSE \/ reading' = reading
      BY <3>1, <1>1, Zenon
    <3>3. UNCHANGED <<wq, event, irq>>
      BY <2>6 DEF LifeStopStep, StopThread, hwVars
    <3> QED BY <3>2, <3>3
  <2> QED BY <1>1, <2>1, <2>2, <2>3, <2>4, <2>5, <2>6, LifeKinds, Zenon
<1>4. self' \in BOOLEAN /\ vif' \in BOOLEAN
  <2>1. ASSUME TaskStep \/ CardStep \/ LifeStopStep \/ WorkStep PROVE UNCHANGED <<self, vif>>
    BY <2>1 DEF TaskStep, PowerOn, BeginExit, Register, Attached, On, PowerOff, Unregister,
         CardStep, Plug, Pull, LifeStopStep, StopThread, WorkStep, GracePeriod, WakeRx, Indication, RxSleeps, EventWork,
         WaitRcu, probeVars
  <2>2. ASSUME Probe PROVE self' = FALSE /\ vif' = vif
    BY <2>2 DEF Probe
  <2>3. ASSUME ProbeAny PROVE (self' = TRUE \/ self' = self) /\ (vif' = TRUE \/ vif' = vif)
    BY <2>3 DEF ProbeAny, ProbePm, ProbeThreads, ProbeLoad, ProbeReady, ProbeNetdev, probeVars,
         SelfAfter
  <2>4. ASSUME EndStep PROVE self' = self /\ (vif' = FALSE \/ vif' = vif)
    BY <2>4 DEF EndStep, Unbound, LifeFree, Remove, IrqOff, DestroyWorkqueue, ForgetWorkqueue, probeVars
  <2> QED BY <1>1, <2>1, <2>2, <2>3, <2>4, LifeKinds, Zenon
<1>5. done' \in BOOLEAN
  <2>1. ASSUME TaskStep \/ CardStep \/ Probe \/ ProbeAny \/ EndStep PROVE done' = done
    BY <2>1 DEF TaskStep, PowerOn, BeginExit, Register, Attached, On, PowerOff, Unregister,
         CardStep, Plug, Pull, Probe, ProbeAny, ProbePm, ProbeThreads, ProbeLoad, ProbeReady,
         ProbeNetdev, EndStep, Unbound, LifeFree, Remove, IrqOff, DestroyWorkqueue, ForgetWorkqueue, rcuVars
  <2>2. ASSUME LifeStopStep PROVE done' = FALSE \/ done' = done
    BY <2>2 DEF LifeStopStep, StopThread, AsynchronizeRcu, rcuVars
  <2>3. ASSUME WorkStep PROVE done' = TRUE \/ done' = FALSE \/ done' = done
    BY <2>3 DEF WorkStep, GracePeriod, WakeRx, Indication, RxSleeps, EventWork, WaitRcu, rcuVars
  <2> QED BY <1>1, <2>1, <2>2, <2>3, LifeKinds, Zenon
<1> QED BY <1>2, <1>3, <1>4, <1>5, Zenon DEF LifeFlags

LEMMA LifeStep == LifeInv /\ [LifeNext]_lifeVars => LifeInv'
<1> SUFFICES ASSUME LifeInv, [LifeNext]_lifeVars PROVE LifeInv'
  OBVIOUS
<1>1. CASE LifeNext
  BY <1>1, LifeFlagsStep, LifeKinds, TaskKeeps, CardKeeps, ProbeKeeps, ProbeAnyKeeps, LifeStopKeeps,
     EndKeeps, WorkKeeps DEF LifeInv
<1>2. CASE UNCHANGED lifeVars
  <2>1. UNCHANGED <<failing, mod, power, driver, card, plugs, bus, hw, wq, event, threads, irq, reading,
                    self, reloads, vif, initCnt, pending, done>>
    BY <1>2 DEF lifeVars, modVars, cardVars, hwVars, userVars, probeVars, rcuVars
  <2>2. LifeTypes' /\ UsersInv' /\ OneCard' /\ Undone'
    BY <2>1 DEF LifeInv, LifeTypes, UsersInv, OneCard, Unprobed, Alive, Undone
  <2>3. LifeFlags'
    BY <2>1, Zenon DEF LifeInv, LifeFlags
  <2> QED BY <2>2, <2>3 DEF LifeInv
<1> QED BY <1>1, <1>2

\* Where the threads, the interrupt and the events may be, at every step of the
\* probe and of the release.
THEOREM LifeInvariant == LifeSpec => []LifeInv
BY LifeFirst, LifeStep, PTL DEF LifeSpec

LEMMA LifeMeans == LifeInv => UsersEnd /\ HeadOnce /\ InitUndone /\ LifeTypeOK
<1> SUFFICES ASSUME LifeInv PROVE UsersEnd /\ HeadOnce /\ InitUndone /\ LifeTypeOK
  OBVIOUS
<1>1. UsersEnd
  BY DEF LifeInv, UsersInv, UsersEnd
<1>2. HeadOnce
  BY DEF LifeInv, OneCard, HeadOnce
<1>3. InitUndone
  BY DEF LifeInv, UsersInv, Undone, InitUndone
<1>4. {power, driver, wq, event, self, irq, reading, vif, done} \subseteq BOOLEAN
  BY DEF LifeInv, LifeFlags
<1>5. LifeTypes /\ ("pm" \notin failing /\ bus \in {"stop_tx", "stop_rx", "err_tx", "err_rx"} => self)
  BY DEF LifeInv, UsersInv
<1>6. LifeTypeOK
  <2>1. /\ failing \in ProbeFails /\ threads \subseteq {"sdio_tx", "sdio_rx"}
        /\ card \in {"out", "new", "in"} /\ hw \in {"none", "alive", "freed"}
        /\ plugs \in 0 .. MaxPlugs + 1 /\ reloads \in 0 .. MaxReloads
        /\ {initCnt, pending} \subseteq Nat
    BY <1>5 DEF LifeTypes
  <2> QED BY <1>4, <1>5, <2>1, Zenon DEF LifeTypeOK
<1> QED BY <1>1, <1>2, <1>3, <1>6

\* Whoever works with the driver's structures has come to an end when they are
\* freed, whichever steps of the probe fail and whenever the card is pulled out.
THEOREM UsersAreOver == LifeSpec => []UsersEnd
BY LifeInvariant, LifeMeans, PTL

-----------------------------------------------------------------------------
(* The accesses to registers.                                              *)

Outside == {"call", "end", "over"}

\* CONFIG is clear outside an access, and what will be restored is clear inside.
Saved ==
  /\ accessPc \in Outside => config = {}
  /\ accessPc \notin Outside => orig = {}

AccessInv == AccessTypeOK /\ Saved

\* The calls of the probe, one by one.
LEMMA CallsType == Len(Calls) = 4 /\ \A n \in 1 .. 4 : Calls[n].or \subseteq Bits
<1>1. Len(Calls) = 4
  BY DEF Calls
<1>2. ASSUME NEW n \in 1 .. 4 PROVE Calls[n].or \subseteq Bits
  <2>1. n = 1 \/ n = 2 \/ n = 3 \/ n = 4
    BY <1>2
  <2> QED BY <2>1 DEF Calls, Bits
<1> QED BY <1>1, <1>2

LEMMA AccessFirst == AccessInit => AccessInv
BY DirectAccessAssumption, CallsType
   DEF AccessInit, AccessInv, AccessTypeOK, Saved, Outside, Unknown, First, Registers, Bits

\* The writes of CONFIG.
LEMMA WriteConfigStep ==
  ASSUME AccessInv, NEW from, NEW c \in SUBSET {AccessMode, Prefetch}, NEW ok, NEW bad,
         <<from, c, ok, bad>> \in
           {<<"mode", config \cup {AccessMode}, "address", "restore">>,
            <<"prefetch", config \cup {Prefetch}, "poll", "restore">>,
            <<"restore", orig, "end", "restore">>},
         WriteConfig(from, c, ok, bad)
  PROVE  AccessInv'
<1> USE DirectAccessAssumption DEF AccessInv, AccessTypeOK, WriteConfig, Succeeds, AccessFails
<1>1. AccessTypeOK'
  OBVIOUS
<1>2. Saved'
  BY DEF Saved, Outside
<1> QED BY <1>1, <1>2

\* Every step keeps the invariant.
LEMMA AccessStep == ASSUME AccessInv, [AccessNext]_directVars PROVE AccessInv'
<1> USE DirectAccessAssumption DEF AccessInv
<1>1. CASE ReadConfig
  <2>1. AccessTypeOK'
    BY <1>1 DEF ReadConfig, Step, Succeeds, AccessFails, AccessTypeOK, chipVars
  <2>2. Saved'
    BY <1>1 DEF ReadConfig, Step, Saved, Outside, chipVars
  <2> QED BY <2>1, <2>2
<1>2. CASE SetMode \/ SetPrefetch \/ Restore
  <2>1. {orig, config, config \cup {AccessMode}, config \cup {Prefetch}}
          \subseteq SUBSET {AccessMode, Prefetch}
    BY DEF AccessTypeOK
  <2> QED BY <1>2, <2>1, WriteConfigStep DEF SetMode, SetPrefetch, Restore, AfterFailure
<1>3. CASE Address
  <2>1. AccessTypeOK'
    BY <1>3 DEF Address, Step, Succeeds, AccessFails, AccessTypeOK, chipVars
  <2>2. Saved'
    BY <1>3 DEF Address, Step, Saved, Outside, chipVars
  <2> QED BY <2>1, <2>2
<1>4. CASE ReadAgain
  <2>1. AccessTypeOK'
    BY <1>4 DEF ReadAgain, Step, Succeeds, AccessFails, AccessTypeOK, chipVars
  <2>2. Saved'
    BY <1>4 DEF ReadAgain, Step, Saved, Outside, chipVars
  <2> QED BY <2>1, <2>2
<1>5. CASE Poll
  <2>1. reg[Now.at] \in SUBSET Bits
    <3>1. call = 1 \/ call = 2 \/ call = 3 \/ call = 4
      BY CallsType DEF AccessTypeOK
    <3> QED BY <3>1 DEF AccessTypeOK, Now, Calls, Registers
  <2>2. polls' \in 0 .. Polls - 1
    BY <1>5 DEF Poll, AccessTypeOK
  <2>3. AccessTypeOK'
    BY <1>5, <2>1, <2>2 DEF Poll, Succeeds, AccessFails, AccessTypeOK
  <2>4. Saved'
    BY <1>5 DEF Poll, Saved, Outside
  <2> QED BY <2>3, <2>4
<1>6. CASE Data
  <2>1. AccessTypeOK'
    BY <1>6 DEF Data, Succeeds, AccessFails, AccessTypeOK
  <2>2. Saved'
    BY <1>6 DEF Data, Saved, Outside
  <2> QED BY <2>1, <2>2
<1>7. CASE NextCall
  <2>1. call \in 1 .. 4 /\ Now.or \subseteq Bits
    BY CallsType DEF AccessTypeOK, Now
  <2>2. AccessTypeOK'
    BY <1>7, <2>1, CallsType DEF NextCall, Raised, AccessTypeOK, accessVars, chipVars
  <2>3. Saved'
    BY <1>7 DEF NextCall, Saved, Outside, accessVars, chipVars
  <2> QED BY <2>2, <2>3
<1>8. CASE UNCHANGED directVars
  BY <1>8 DEF directVars, accessVars, chipVars, AccessTypeOK, Saved, Outside
<1> QED BY <1>1, <1>2, <1>3, <1>4, <1>5, <1>6, <1>7, <1>8 DEF AccessNext

\* The variables have their types, and CONFIG is saved where it was changed.
THEOREM AccessInvariant == AccessSpec => []AccessInv
BY AccessFirst, AccessStep, PTL DEF AccessSpec

\* The variables have their types, however many operations fail.
THEOREM AccessTyped == AccessSpec => []AccessTypeOK
<1>1. AccessInv => AccessTypeOK
  BY DEF AccessInv
<1> QED BY <1>1, AccessInvariant, PTL

\* Between two direct accesses CONFIG is as it was.
THEOREM PutBack == AccessSpec => []ModeLeft
<1>1. AccessInv => ModeLeft
  BY DEF AccessInv, Saved, Outside, ModeLeft
<1> QED BY <1>1, AccessInvariant, PTL

-----------------------------------------------------------------------------
(* All of them.                                                            *)

\* The variables of a part that a behaviour is not of.
StationRest ==
  /\ racing \in Racings /\ link = NoBss /\ changes = 0
  /\ entry = [i \in Ids |-> [bssid |-> NoBss, life |-> "unused"]]
  /\ pc = [t \in Tasks |-> "idle"] /\ mine = [t \in Tasks |-> None]
  /\ cnf = NoBss /\ enabled = FALSE /\ opens = 0 /\ success = FALSE /\ carrier = FALSE

ApRest ==
  /\ list = {} /\ apChanges = 0 /\ old = {} /\ table = {}
  /\ apPc = "idle" /\ mac = NoMac /\ count = 0
  /\ apSuccess = FALSE /\ apCarrier = FALSE /\ stops = 0

AllInv ==
  /\ part = "station" => StationInv /\ AgreesInv
  /\ part = "ap" => ApInv
  /\ part # "station" => StationRest
  /\ part # "ap" => ApRest
  /\ part \notin {"station", "ap"} => QueueInit
  /\ LifeInv /\ AccessInv

LEMMA AllFirst == AllInit => AllInv
<1> SUFFICES ASSUME AllInit PROVE AllInv
  OBVIOUS
<1>1. Init /\ ApInit /\ LifeInit /\ AccessInit
  BY DEF AllInit
<1>2. StationInv /\ AgreesInv /\ ApInv /\ LifeInv /\ AccessInv
  BY <1>1, StationFirst, AgreesFirst, ApFirst, LifeFirst, AccessFirst
<1>3. StationRest /\ ApRest /\ QueueInit
  BY <1>1, Zenon DEF Init, ApInit, StationRest, ApRest
<1> QED BY <1>2, <1>3, Zenon DEF AllInv

LEMMA StationRests == ASSUME StationRest, UNCHANGED stationVars PROVE StationRest'
BY Zenon DEF StationRest, stationVars, taskVars, openVars, ifaceVars

LEMMA ApRests == ASSUME ApRest, UNCHANGED apOwnVars PROVE ApRest'
BY Zenon DEF ApRest, apOwnVars, handlerVars, apIfaceVars

LEMMA QueueRests == ASSUME QueueInit, UNCHANGED queueVars PROVE QueueInit'
BY Zenon DEF QueueInit, queueVars

LEMMA AllStep == AllInv /\ [AllNext]_allVars => AllInv'
<1> SUFFICES ASSUME AllInv, [AllNext]_allVars PROVE AllInv'
  OBVIOUS
<1>1. part' = part
  BY DEF AllNext, AsStation, AsAp, OfModule, OfAccess, allVars
<1>2. [LifeNext]_lifeVars /\ [AccessNext]_directVars
  BY DEF AllNext, AsStation, AsAp, OfModule, OfAccess, allVars
<1>3. LifeInv' /\ AccessInv'
  BY <1>2, LifeStep, AccessStep DEF AllInv
<1>4. CASE part = "station"
  <2>1. [Next]_vars /\ UNCHANGED apOwnVars
    BY <1>4 DEF AllNext, AsStation, AsAp, OfModule, OfAccess, allVars, vars
  <2>2. StationInv' /\ AgreesInv'
    BY <1>4, <2>1, StationStep, AgreesStep DEF AllInv
  <2>3. ApRest'
    BY <1>4, <2>1, ApRests DEF AllInv
  <2> QED BY <1>1, <1>3, <1>4, <2>2, <2>3, Zenon DEF AllInv
<1>5. CASE part = "ap"
  <2>1. [ApNext]_apVars /\ UNCHANGED stationVars
    BY <1>5 DEF AllNext, AsStation, AsAp, OfModule, OfAccess, allVars, vars, apVars
  <2>2. ApInv'
    BY <1>5, <2>1, ApStep DEF AllInv
  <2>3. StationRest'
    BY <1>5, <2>1, StationRests DEF AllInv
  <2> QED BY <1>1, <1>3, <1>5, <2>2, <2>3, Zenon DEF AllInv
<1>6. CASE part \notin {"station", "ap"}
  <2>1. UNCHANGED <<queueVars, stationVars, apOwnVars>>
    BY <1>6 DEF AllNext, AsStation, AsAp, OfModule, OfAccess, allVars, vars
  <2>2. StationRest' /\ ApRest' /\ QueueInit'
    BY <1>6, <2>1, StationRests, ApRests, QueueRests DEF AllInv
  <2>3. part # "station" /\ part # "ap"
    BY <1>6
  <2> QED BY <1>1, <1>3, <2>2, <2>3, Zenon DEF AllInv
<1> QED BY <1>4, <1>5, <1>6

\* What holds of a station that nothing happens to.
LEMMA StationRestMeans ==
  StationRest /\ QueueFlags => TypeOK /\ OneEntry /\ UsesLive /\ AgreesWithFirmware
<1> SUFFICES ASSUME StationRest, QueueFlags
             PROVE  TypeOK /\ OneEntry /\ UsesLive /\ AgreesWithFirmware
  OBVIOUS
<1>1. TypeOK
  <2>1. {first, work, handling, success, carrier, enabled} \subseteq BOOLEAN
    BY Zenon DEF StationRest, QueueFlags
  <2>2. /\ link \in Bssids \cup {NoBss} /\ cnf \in Bssids \cup {NoBss}
        /\ racing \in Racings /\ changes \in 0 .. MaxChanges /\ opens \in 0 .. MaxOpens
    BY StationAssumption DEF StationRest
  <2>3. /\ entry \in [Ids -> [bssid : Bssids \cup {NoBss}, life : {"unused", "hashed", "freed"}]]
        /\ pc \in [Tasks -> {"idle", "fill", "drop", "config", "connect", "carrier"}]
        /\ mine \in [Tasks -> Ids \cup {None}]
        /\ \A t \in Tasks : pc[t] = "idle"
    BY DEF StationRest
  <2>4. lost \in 0 .. MaxLost
    BY DEF QueueFlags
  <2> QED BY <2>1, <2>2, <2>3, <2>4 DEF TypeOK
<1>2. OneEntry
  <2>1. ASSUME NEW b \in Bssids PROVE Hashed(b) = {}
    BY DEF Hashed, StationRest
  <2>2. Cardinality({}) <= 1
    BY FS_EmptySet
  <2> QED BY <2>1, <2>2 DEF OneEntry
<1>3. UsesLive
  BY DEF UsesLive, StationRest
<1>4. AgreesWithFirmware
  BY Zenon DEF AgreesWithFirmware, StationRest
<1> QED BY <1>1, <1>2, <1>3, <1>4

\* What holds of an access point that nothing happens to.
LEMMA ApRestMeans == ApRest /\ QueueFlags => ApTypeOK /\ KnowsTheStations
<1> SUFFICES ASSUME ApRest, QueueFlags PROVE ApTypeOK /\ KnowsTheStations
  OBVIOUS
<1>1. ApTypeOK
  <2>1. {apSuccess, apCarrier} \subseteq BOOLEAN
    BY Zenon DEF ApRest
  <2>2. Cardinality(Macs) \in Nat
    BY ApStationsAssumption, FS_CardinalityType
  <2>3. lost \in 0 .. MaxLost
    BY DEF QueueFlags
  <2> QED BY <2>1, <2>2, <2>3, ApStationsAssumption DEF ApRest, ApTypeOK
<1>2. KnowsTheStations
  BY Zenon DEF KnowsTheStations, ApRest
<1> QED BY <1>1, <1>2

LEMMA AllMeans == AllInv => InterfaceSafe /\ AgreesWithFirmware /\ UsersEnd
<1> SUFFICES ASSUME AllInv PROVE InterfaceSafe /\ AgreesWithFirmware /\ UsersEnd
  OBVIOUS
<1>1. UsersEnd /\ HeadOnce /\ InitUndone /\ LifeTypeOK
  BY LifeMeans DEF AllInv
<1>2. AccessTypeOK /\ ModeLeft
  BY DEF AllInv, AccessInv, Saved, Outside, ModeLeft
<1>3. Noticed /\ QueueFlags
  <2>1. CASE part = "station"
    BY <2>1, StationMeans DEF AllInv, StationInv, QueueInv
  <2>2. CASE part = "ap"
    BY <2>2, ApMeans DEF AllInv, ApInv, QueueInv
  <2>3. CASE part \notin {"station", "ap"}
    <3>1. QueueInv({})
      BY <2>3, QueueFirst DEF AllInv
    <3> QED BY <3>1, QueueNotices DEF QueueInv
  <2> QED BY <2>1, <2>2, <2>3
<1>4. TypeOK /\ OneEntry /\ UsesLive /\ AgreesWithFirmware
  <2>1. CASE part = "station"
    BY <2>1, StationMeans, AgreesMeans DEF AllInv
  <2>2. CASE part # "station"
    BY <1>3, <2>2, StationRestMeans DEF AllInv
  <2> QED BY <2>1, <2>2
<1>5. ApTypeOK /\ KnowsTheStations
  <2>1. CASE part = "ap"
    BY <2>1, ApMeans DEF AllInv
  <2>2. CASE part # "ap"
    BY <1>3, <2>2, ApRestMeans DEF AllInv
  <2> QED BY <2>1, <2>2
<1> QED BY <1>1, <1>2, <1>3, <1>4, <1>5, Zenon DEF InterfaceSafe

\* The interface in one: an access point has one entry on the table, which
\* lives while a task uses it; a station that has handled its events agrees
\* with the firmware, and an access point that handles each before the next
\* knows the firmware's stations; no event is forgotten; a failing init undoes
\* what it did, and what used the hardware ends before it is freed; and CONFIG
\* is out of access mode between two accesses.
THEOREM InterfaceIsSafe == AllSpec => [](InterfaceSafe /\ AgreesWithFirmware /\ UsersEnd)
<1>1. AllSpec => []AllInv
  BY AllFirst, AllStep, PTL DEF AllSpec
<1> QED BY <1>1, AllMeans, PTL
=============================================================================

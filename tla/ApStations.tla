------------------------------ MODULE ApStations ---------------------------
(***************************************************************************)
(* The interface as an access point: the handler of WSM_EVENT_STA_ADD and   *)
(* WSM_EVENT_STA_LOSS (iface.c).  The events do not say which station joined *)
(* or left: the handler asks the firmware for its list and compares it with *)
(* the list it got the last time.                                           *)
(***************************************************************************)
EXTENDS EventQueue, FiniteSets

CONSTANTS
  Macs,         \* the stations
  Prompts,      \* the values of prompt to look at
  MaxApChanges, \* bound: stations that joined and left
  MaxStops      \* bound: times the interface is brought down

ASSUME ApStationsAssumption ==
  /\ IsFiniteSet(Macs) /\ "none" \notin Macs
  /\ Prompts \subseteq BOOLEAN /\ {MaxApChanges, MaxStops} \subseteq Nat

VARIABLES
  prompt,     \* an event is handled before the next station joins or leaves
  list,       \* the stations of the firmware
  apChanges,  \* times it changed
  old,        \* sta_list_old
  table,      \* the stations in the table of sta_info.c
  apPc,       \* the handler's next step
  mac,        \* the station it works on
  count,      \* the number of stations in the list it got
  apSuccess,  \* vif->connect_success
  apCarrier,  \* netif_carrier_on
  stops       \* times atbm_stop ran

handlerVars == <<apPc, mac, count>>
apIfaceVars == <<prompt, apSuccess, apCarrier>>
apOwnVars == <<list, apChanges, old, table, handlerVars, apIfaceVars, stops>>
apVars == <<queueVars, apOwnVars>>

NoMac == "none"

ApInit ==
  /\ QueueInit /\ prompt \in Prompts
  /\ list = {} /\ apChanges = 0 /\ old = {} /\ table = {}
  /\ apPc = "idle" /\ mac = NoMac /\ count = 0
  /\ apSuccess = FALSE /\ apCarrier = FALSE /\ stops = 0

Quiet == NoEvents /\ apPc = "idle"

\* The firmware: a station joins or leaves.
ApChanges(new, kind) ==
  /\ prompt => Quiet
  /\ apChanges < MaxApChanges /\ apChanges' = apChanges + 1
  /\ list' = new /\ Indicate([kind |-> kind])
  /\ UNCHANGED <<old, table, handlerVars, apIfaceVars, stops>>

Joins == \E m \in Macs \ list : ApChanges(list \cup {m}, "add")
Leaves == \E m \in list : ApChanges(list \ {m}, "loss")

ApQueueStep ==
  /\ \/ QueueWork
     \/ TakeBatch
     \/ apPc = "idle" /\ EndBatch
  /\ UNCHANGED <<list, apChanges, old, table, handlerVars, apIfaceVars, stops>>

-----------------------------------------------------------------------------
(* atbm_get_checked_sta                                                     *)

\* "memcpy(&sta_list_old, &sta_list, ...)"
Remembered(kind) == list

\* The stations that joined, or left, since the last list.
Difference(kind) == IF kind = "add" THEN list \ old ELSE old \ list

\* One of them is taken, the first in the list; the others are forgotten.
Checked(kind, next) ==
  /\ apPc = "idle" /\ Handles(kind)
  /\ old' = Remembered(kind) /\ count' = Cardinality(list)
  /\ IF Difference(kind) = {}
     THEN Handled /\ UNCHANGED <<apPc, mac>>
     ELSE /\ mac' \in Difference(kind) /\ apPc' = next
          /\ UNCHANGED <<events, first, work, handling, batch>>
  /\ UNCHANGED <<lost, list, apChanges, table, apIfaceVars, stops>>

\* wsm_get_stalist fails, before the old list is replaced, or sta_info_alloc,
\* after it: the event is over.
ApFails ==
  /\ \/ apPc = "idle" /\ batch # <<>>
     \/ apPc = "insert"
  /\ apPc' = "idle" /\ Handled /\ Loses
  /\ UNCHANGED <<list, apChanges, old, table, mac, count, apIfaceVars, stops>>

-----------------------------------------------------------------------------
(* atbm_sta_add_event, atbm_sta_loss_event                                  *)

ApInsert ==
  /\ apPc = "insert"
  /\ IF mac \in table
     THEN apPc' = "idle" /\ Handled
     ELSE apPc' = "fill" /\ UNCHANGED <<events, first, work, handling, batch>>
  /\ table' = table \cup {mac}
  /\ UNCHANGED <<lost, list, apChanges, old, mac, count, apIfaceVars, stops>>

ApFill ==
  /\ apPc = "fill" /\ apPc' = "idle" /\ Handled
  /\ IF count = 1 THEN apSuccess' = TRUE /\ apCarrier' = TRUE ELSE UNCHANGED apIfaceVars
  /\ UNCHANGED <<prompt, lost, list, apChanges, old, table, mac, count, stops>>

\* Mutant of IsLast: the last station but one counts as the last.
IsLastButOne(n) == n <= 1

\* "if (sta_cnt == 0)"
IsLast(n) == n = 0

ApDrop ==
  /\ apPc = "drop" /\ apPc' = "idle" /\ Handled
  /\ table' = table \ {mac}
  /\ IF mac \in table /\ IsLast(count)
     THEN apSuccess' = FALSE /\ apCarrier' = FALSE ELSE UNCHANGED apIfaceVars
  /\ UNCHANGED <<prompt, lost, list, apChanges, old, mac, count, stops>>

ApHandlerStep ==
  Checked("add", "insert") \/ Checked("loss", "drop") \/ ApFails \/ ApInsert \/ ApFill \/ ApDrop

\* atbm_stop: sta_info_flush leaves sta_list_old alone.
ApStop ==
  /\ prompt => Quiet
  /\ stops < MaxStops /\ stops' = stops + 1
  /\ table' = {}
  /\ UNCHANGED <<queueVars, list, apChanges, old, handlerVars, apIfaceVars>>

ApNext == Joins \/ Leaves \/ ApQueueStep \/ ApHandlerStep \/ ApStop

ApSpec == ApInit /\ [][ApNext]_apVars

-----------------------------------------------------------------------------
(* Properties.                                                             *)

\* Every variable stays in its range, and the handler has a station to work on.
ApTypeOK ==
  /\ apPc # "idle" => mac # NoMac
  /\ list \subseteq Macs /\ old \subseteq Macs /\ table \subseteq Macs
  /\ mac \in Macs \cup {NoMac} /\ count \in 0 .. Cardinality(Macs)
  /\ apPc \in {"idle", "insert", "fill", "drop"}
  /\ {apSuccess, apCarrier} \subseteq BOOLEAN
  /\ apChanges \in 0 .. MaxApChanges /\ lost \in 0 .. MaxLost /\ stops \in 0 .. MaxStops

\* Where every event is handled before the next change, no allocation or
\* command fails and the interface stays up, the host knows exactly the
\* stations of the firmware, and the carrier is on as long as there is one.
KnowsTheStations ==
  prompt /\ Quiet /\ lost = 0 /\ stops = 0 =>
    table = list /\ apCarrier = (list # {}) /\ apSuccess = apCarrier

\* Events that come in a bunch, and failures, leave the host with stations
\* that left and without stations that joined.  But a station that was in two
\* lists one after the other stays, whatever event the second was got for,
\* until the interface is brought down.
KeepsTheReported ==
  [][\A m \in Macs : m \in old /\ m \in old' /\ m \in table /\ stops' = stops => m \in table']_apVars
=============================================================================

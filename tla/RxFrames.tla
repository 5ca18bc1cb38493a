------------------------------ MODULE RxFrames ------------------------------
(***************************************************************************)
(* What becomes of one received frame, from the indication (atbm_rx_cb,     *)
(* txrx.c) through the handlers of rx.c to the network stack, to the free   *)
(* list, or to the queue of the interface and its work (iface.c), beside    *)
(* the events that make and end a connection and beside ndo_stop.           *)
(*                                                                          *)
(* Frames come one at a time (the receive thread).  The work queue has one  *)
(* thread, so events and the work of the interface never run together.      *)
(* Duplicates and the reorder ring are in Reorder, sessions in BaSession,   *)
(* the replay counter may drop any frame here.  The pairwise and the group  *)
(* cipher of a connection are the same.                                     *)
(***************************************************************************)
EXTENDS Naturals, Sequences

CONSTANTS
  Settings,   \* the triples of ap, settled and stops to look at
  Kinds,      \* the kinds of frame that arrive
  Reports,    \* the status of an indication: "ok", "failed", "mic"
  Ciphers,    \* the ciphers of the connections
  MaxArrivals \* bound: frames that arrive

DataKinds == {"data", "amsdu", "null"}
BackKinds == {"addba", "addba_resp", "delba"}
MgmtKinds == {"beacon", "deauth", "auth", "denied", "assoc_resp"}
AllKinds == DataKinds \union BackKinds \union MgmtKinds \union {"action", "other"}

ASSUME RxFramesAssumption ==
  /\ Settings \subseteq BOOLEAN \X BOOLEAN \X BOOLEAN /\ MaxArrivals \in Nat
  /\ Kinds \subseteq AllKinds /\ Reports \subseteq {"ok", "failed", "mic"}
  /\ Ciphers \subseteq {"none", "wep", "tkip", "aes"} /\ Ciphers # {}

VARIABLES
  ap,       \* the interface is an access point, with one station
  settled,  \* no frame arrives while the work makes or ends a connection
  stops,    \* ndo_stop and ndo_open are called
  sta,      \* the entry of the peer is in the table
  assoc, enc, staKey,   \* WLAN_STA_ASSOC with _AUTHORIZED, enc and key.key_type of the entry
  apEnc, groupKey,      \* vif->ap_info.enc, vif->group_key.key_type
  cipher,   \* the cipher of the connection that the event tells of
  hpc, frame,            \* the receive thread and its frame
  rxSta, rxKey,         \* rx->sta is not NULL; rx->key: "NULL", "sta" or "group"
  crypto,   \* the header of the cipher is in the frame
  ends,     \* times the frame was freed, queued or handed to the stack
  queue, queued,        \* vif->skb_queue; vif->work is queued
  wpc,      \* the work queue
  enabled, spc,         \* vif->enabled; ndo_stop and ndo_open
  arrivals

settingVars == <<ap, settled, stops>>
connVars == <<settingVars, sta, assoc, enc, staKey, apEnc, groupKey, cipher>>
rxVars == <<hpc, frame, rxSta, rxKey, crypto, ends, arrivals>>
workVars == <<queue, queued>>
stopVars == <<enabled, spc>>
rxfVars == <<connVars, rxVars, workVars, wpc, stopVars>>

\* prot is the bit of the header, which becomes RX_FLAG_DECRYPTED.
Frames ==
  {f \in [kind : Kinds, mcast : BOOLEAN, prot : BOOLEAN, status : Reports] :
     /\ f.prot \/ f.mcast => f.kind \in DataKinds
     /\ f.status = "mic" => f.prot
     /\ f.mcast => ~ap}

NoFrame == [kind |-> "other", mcast |-> FALSE, prot |-> FALSE, status |-> "ok"]

FrameInit ==
  /\ \E s \in Settings : ap = s[1] /\ settled = s[2] /\ stops = s[3]
  /\ sta = FALSE /\ assoc = FALSE /\ enc = FALSE /\ staKey = "none"
  /\ apEnc = FALSE /\ groupKey = "none" /\ cipher \in Ciphers
  /\ hpc = "idle" /\ frame = NoFrame /\ rxSta = FALSE /\ rxKey = "NULL" /\ crypto = FALSE
  /\ ends = 1 /\ arrivals = 0
  /\ queue = <<>> /\ queued = FALSE /\ wpc = "idle"
  /\ enabled = TRUE /\ spc = "up"

Is(kinds) == frame.kind \in kinds
KeyType == CASE rxKey = "sta" -> staKey [] rxKey = "group" -> groupKey [] OTHER -> "none"

\* atbm_rx_cb sets RX_FLAG_IV_STRIPPED together with the failure of the MIC.
IvStripped == frame.status = "mic"

Rx(from, to) == hpc = from /\ hpc' = to
RxRest == UNCHANGED <<connVars, workVars, wpc, stopVars, frame, arrivals>>

\* ieee80211_rx_handlers_result, and every other place that frees the frame.
Freed == hpc' = "idle" /\ ends' = ends + 1 /\ UNCHANGED <<rxSta, rxKey, crypto>> /\ RxRest
GoesOn(to) == hpc' = to /\ UNCHANGED <<rxSta, rxKey, crypto, ends>> /\ RxRest

-----------------------------------------------------------------------------
(* The receive thread                                                      *)

\* An indication of a failure is freed by the caller of atbm_rx_cb.
FrameArrives(f) ==
  /\ hpc = "idle" /\ arrivals < MaxArrivals /\ arrivals' = arrivals + 1
  /\ settled => wpc \in {"idle", "frames"} /\ spc # "sync"
  /\ frame' = f /\ crypto' = (f.prot /\ f.status # "mic")
  /\ rxSta' = FALSE /\ rxKey' = "NULL"
  /\ IF f.status = "failed"
     THEN hpc' = "idle" /\ ends' = 1
     ELSE hpc' = "lookup" /\ ends' = 0
  /\ UNCHANGED <<connVars, workVars, wpc, stopVars>>

Lookup ==
  /\ Rx("lookup", "check") /\ rxSta' = sta
  /\ UNCHANGED <<rxKey, crypto, ends>> /\ RxRest

\* ieee80211_rx_h_check
FrameCheck ==
  /\ hpc = "check"
  /\ IF Is(DataKinds) /\ (~rxSta \/ ~assoc) THEN Freed ELSE GoesOn("decrypt")

\* Mutant of NoKey: the test of RX_FLAG_DECRYPTED is inverted.
NoKeyInverted == ~rxSta \/ ~enc \/ frame.prot \/ IvStripped

\* ieee80211_rx_h_decrypt up to the choice of the key.
NoKey == ~rxSta \/ ~enc \/ ~frame.prot \/ IvStripped

Decrypt ==
  /\ hpc = "decrypt"
  /\ IF NoKey
     THEN GoesOn("process")
     ELSE /\ hpc' = "strip" /\ rxKey' = IF frame.mcast THEN "group" ELSE "sta"
          /\ UNCHANGED <<rxSta, crypto, ends>> /\ RxRest

\* A key without a type drops the frame; so may the replay counter.
Strip ==
  /\ hpc = "strip"
  /\ \/ KeyType \in {"none", "tkip", "aes"} /\ Freed
     \/ /\ KeyType # "none" /\ hpc' = "process" /\ crypto' = FALSE
        /\ UNCHANGED <<rxSta, rxKey, ends>> /\ RxRest

\* ieee80211_rx_h_sta_process
Process ==
  /\ hpc = "process"
  /\ IF Is({"null"}) THEN Freed ELSE GoesOn("mic")

\* ieee80211_rx_h_michael_mic_verify
MicVerify ==
  /\ hpc = "mic"
  /\ IF rxKey # "NULL" /\ KeyType = "tkip" /\ frame.status = "mic"
     THEN Freed
     ELSE GoesOn(CASE Is({"amsdu"}) -> "amsdu" [] Is({"data"}) -> "allowed" [] OTHER -> "action")

-----------------------------------------------------------------------------
(* ieee80211_rx_h_data                                                     *)

\* ieee80211_drop_unencrypted, part of ieee80211_frame_allowed.
Unencrypted == ~frame.prot /\ enc

\* A frame that cannot be converted is dropped as well.
Allowed ==
  /\ hpc = "allowed"
  /\ \/ Freed
     \/ rxSta /\ assoc /\ ~Unencrypted /\ GoesOn("deliver")

HandUp(times) ==
  /\ hpc' = "idle" /\ ends' = ends + times
  /\ UNCHANGED <<rxSta, rxKey, crypto>> /\ RxRest

\* The station of an encrypted network takes no frame in the clear.
InTheClear == ~ap /\ ~frame.prot /\ apEnc

\* Mutant of DeliverOf: the frame dropped in the clear is handed up as well.
DeliverTwice == IF InTheClear THEN HandUp(2) ELSE HandUp(1)

\* ieee80211_deliver_skb
DeliverOf == IF InTheClear THEN Freed ELSE HandUp(1)

Deliver == hpc = "deliver" /\ DeliverOf

\* ieee80211_rx_h_amsdu looks at rx->key->key_type; without a key (KeyKnown) it
\* goes on here as if the cipher were another.
AmsduDrops ==
  /\ hpc = "amsdu"
  /\ \/ frame.mcast
     \/ frame.prot /\ KeyType \in {"wep", "tkip"}
     \/ InTheClear
  /\ Freed

\* A broken aggregate is dropped before any of it is handed up.
AmsduBroken == hpc = "amsdu" /\ ~frame.mcast /\ ~InTheClear /\ Freed

\* The frame itself is the last subframe that netif_rx gets; then it is freed.
Amsdu ==
  /\ hpc = "amsdu" /\ ~frame.mcast /\ ~InTheClear
  /\ ~(frame.prot /\ KeyType \in {"wep", "tkip"})
  /\ HandUp(2)

-----------------------------------------------------------------------------
(* ieee80211_rx_h_action, ieee80211_rx_h_mgmt                              *)

EnqueueOf == queue' = Append(queue, frame.kind) /\ queued' = TRUE

Enqueue ==
  /\ hpc = "action" /\ hpc' = "idle" /\ ends' = ends + 1
  /\ \/ Is(BackKinds) /\ rxSta
     \/ Is(MgmtKinds) /\ (Is({"deauth"}) => ~ap)
  /\ EnqueueOf
  /\ UNCHANGED <<connVars, wpc, stopVars, frame, arrivals, rxSta, rxKey, crypto>>

ActionDone ==
  /\ hpc = "action"
  /\ \/ Is({"action", "other"})
     \/ Is(BackKinds) /\ ~rxSta
     \/ Is({"deauth"}) /\ ap
  /\ Freed

-----------------------------------------------------------------------------
(* ieee80211_iface_work                                                    *)

Work(from, to) == wpc = from /\ wpc' = to
WorkRest == UNCHANGED <<rxVars, stopVars>>

BeginWork ==
  /\ queued /\ queued' = FALSE
  /\ IF enabled THEN Work("idle", "frames") ELSE Work("idle", "idle")
  /\ UNCHANGED <<connVars, queue>> /\ WorkRest

HandleFrame ==
  /\ Work("frames", "frames") /\ queue # <<>>
  /\ queue' = Tail(queue)
  /\ assoc' = (assoc \/ (~ap /\ Head(queue) = "assoc_resp" /\ sta))
  /\ UNCHANGED <<settingVars, sta, enc, staKey, apEnc, groupKey, cipher, queued>> /\ WorkRest

EndFrames ==
  /\ Work("frames", "idle") /\ queue = <<>>
  /\ UNCHANGED <<connVars, workVars>> /\ WorkRest

-----------------------------------------------------------------------------
(* atbm_sta_connect_event, atbm_sta_add_event: the entry, its flags, its    *)
(* encryption and its keys, one after the other                            *)

Insert ==
  /\ ~sta /\ spc # "sync" /\ sta' = TRUE /\ cipher' \in Ciphers
  /\ (settled => hpc = "idle") /\ Work("idle", "flags")
  /\ assoc' = FALSE /\ enc' = FALSE /\ staKey' = "none"
  /\ UNCHANGED <<settingVars, apEnc, groupKey, workVars>> /\ WorkRest

SetFlags ==
  /\ IF ap THEN Work("flags", "key") ELSE Work("flags", "enc")
  /\ assoc' = TRUE
  /\ UNCHANGED <<settingVars, sta, enc, staKey, apEnc, groupKey, cipher, workVars>> /\ WorkRest

SetEnc ==
  /\ IF ap THEN Work("enc", "idle") ELSE Work("enc", "apenc")
  /\ enc' = (cipher # "none")
  /\ UNCHANGED <<settingVars, sta, assoc, staKey, apEnc, groupKey, cipher, workVars>> /\ WorkRest

SetApEnc ==
  /\ IF enc THEN Work("apenc", "key") ELSE Work("apenc", "idle")
  /\ apEnc' = enc
  /\ UNCHANGED <<settingVars, sta, assoc, enc, staKey, groupKey, cipher, workVars>> /\ WorkRest

SetKey ==
  /\ IF ap THEN Work("key", "enc") ELSE Work("key", "group")
  /\ staKey' = cipher
  /\ UNCHANGED <<settingVars, sta, assoc, enc, apEnc, groupKey, cipher, workVars>> /\ WorkRest

GroupType == cipher

SetGroup ==
  /\ Work("group", "idle") /\ groupKey' = GroupType
  /\ UNCHANGED <<settingVars, sta, assoc, enc, staKey, apEnc, cipher, workVars>> /\ WorkRest

\* atbm_sta_disconnect_event, atbm_sta_loss_event
ClearFlags ==
  /\ sta /\ (settled => hpc = "idle") /\ Work("idle", "remove")
  /\ assoc' = FALSE
  /\ UNCHANGED <<settingVars, sta, enc, staKey, apEnc, groupKey, cipher, workVars>> /\ WorkRest

Remove ==
  /\ Work("remove", "sync") /\ sta' = FALSE
  /\ UNCHANGED <<settingVars, assoc, enc, staKey, apEnc, groupKey, cipher, workVars>> /\ WorkRest

\* synchronize_rcu: the frame that may hold the entry is done with.
Sync ==
  /\ Work("sync", "idle") /\ hpc = "idle"
  /\ UNCHANGED <<connVars, workVars>> /\ WorkRest

-----------------------------------------------------------------------------
(* atbm_stop, atbm_open                                                    *)

Stop(from, to) == spc = from /\ spc' = to

BeginStop ==
  /\ stops /\ Stop("up", "flush") /\ enabled' = FALSE
  /\ UNCHANGED <<connVars, rxVars, workVars, wpc>>

\* sta_info_flush under sta_mtx; an event that has its entry already is in Station.
FlushStations ==
  /\ Stop("flush", "sync") /\ wpc \in {"idle", "frames"} /\ (settled => hpc = "idle")
  /\ sta' = FALSE
  /\ UNCHANGED <<settingVars, assoc, enc, staKey, apEnc, groupKey, cipher, rxVars, workVars, wpc, enabled>>

SyncFlush ==
  /\ Stop("sync", "wait") /\ hpc = "idle"
  /\ UNCHANGED <<connVars, rxVars, workVars, wpc, enabled>>

\* flush_work, then synchronize_rcu
WaitFrames ==
  /\ Stop("wait", "purge") /\ ~queued /\ wpc # "frames" /\ hpc = "idle"
  /\ UNCHANGED <<connVars, rxVars, workVars, wpc, enabled>>

Purge ==
  /\ Stop("purge", "down") /\ queue' = <<>>
  /\ UNCHANGED <<connVars, rxVars, queued, wpc, enabled>>

Open ==
  /\ Stop("down", "up") /\ enabled' = TRUE
  /\ UNCHANGED <<connVars, rxVars, workVars, wpc>>

-----------------------------------------------------------------------------

RxStep ==
  \/ Lookup \/ FrameCheck \/ Decrypt \/ Strip \/ Process \/ MicVerify
  \/ Allowed \/ Deliver \/ AmsduDrops \/ AmsduBroken \/ Amsdu
  \/ Enqueue \/ ActionDone
FrameWork == BeginWork \/ HandleFrame \/ EndFrames
Events ==
  \/ Insert \/ ClearFlags
  \/ SetFlags \/ SetEnc \/ SetApEnc \/ SetKey \/ SetGroup \/ Remove \/ Sync
StopStep == BeginStop \/ FlushStations \/ SyncFlush \/ WaitFrames \/ Purge \/ Open

FrameNext == (\E f \in Frames : FrameArrives(f)) \/ RxStep \/ FrameWork \/ Events \/ StopStep

\* The threads go on; the work queue serves what is queued.
FrameFairness == WF_rxfVars(RxStep) /\ SF_rxfVars(FrameWork) /\ WF_rxfVars(Events)

FrameSpec == FrameInit /\ [][FrameNext]_rxfVars /\ FrameFairness

-----------------------------------------------------------------------------

\* The variables hold values of their types; the key pointer is set only for a
\* protected frame of a known station.
FrameTypeOK ==
  /\ {sta, assoc, enc, apEnc, rxSta, crypto, queued, enabled} \subseteq BOOLEAN
  /\ {staKey, groupKey, cipher} \subseteq {"none", "wep", "tkip", "aes"}
  /\ hpc \in {"idle", "lookup", "check", "decrypt", "strip", "process", "mic", "allowed",
             "deliver", "amsdu", "action"}
  /\ wpc \in {"idle", "frames", "flags", "enc", "apenc", "key", "group", "remove", "sync"}
  /\ spc \in {"up", "flush", "sync", "wait", "purge", "down"}
  /\ frame \in Frames \union {NoFrame} /\ queue \in Seq(AllKinds)
  /\ rxKey \in {"NULL", "sta", "group"} /\ (rxKey # "NULL" => rxSta /\ frame.prot)
  /\ {ends, arrivals} \subseteq Nat

\* A frame is freed, queued or handed up exactly once, whatever the handlers
\* decide and whatever the events change meanwhile ("whether or not the skb was
\* consumed", rx.c:1425).  Not so an A-MSDU: its last subframe is the frame
\* itself, which is freed after netif_rx took it.
Once == (hpc = "idle" => ends > 0) /\ (ends <= 1 \/ Is({"amsdu"}))

GoesUp == (Deliver /\ ~InTheClear) \/ Amsdu

\* The header of the cipher is gone from a frame of an encrypted connection that
\* goes up the stack, whichever key it needed.  The event sets the flags, the
\* encryption and the keys one after the other without a lock that the handlers
\* take, so it holds while no frame comes during an event.
Stripped == [][settled /\ GoesUp /\ enc => ~crypto]_rxfVars

\* ieee80211_rx_h_amsdu reads the type of the key of a protected frame, so
\* ieee80211_rx_h_decrypt must have chosen one.  Protected frames come on an
\* encrypted connection only; as Stripped it holds while no frame comes during
\* an event, and for frames whose MIC is right.
KeyKnown ==
  settled /\ hpc = "amsdu" /\ frame.prot /\ ~frame.mcast /\ frame.status = "ok" /\ enc
    => rxKey # "NULL"

\* Every frame that was queued is handled, while the interface stays up: what is
\* queued between the purge of ndo_stop and the next ndo_open waits for another
\* frame.
QueueDrains == []<>(queue = <<>> \/ stops)
=============================================================================

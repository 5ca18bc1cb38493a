------------------------------ MODULE XmitFrame ----------------------------
(***************************************************************************)
(* A frame of the network stack on its way to the transmit queue:           *)
(* atbm_subif_start_xmit (iface.c) and atbm_tx (txrx.c) on each processor,  *)
(* beside the event handler that makes, keys and removes the peer's entry   *)
(* of the station table.                                                    *)
(*                                                                          *)
(* A frame is what the code asks about it: who else holds it, the bytes     *)
(* free before its data, the headers pushed.  It is an IP frame (the        *)
(* Ethernet type is at least 0x600); its queue is one of the four.          *)
(***************************************************************************)
EXTENDS Integers, FiniteSets

CONSTANTS
  Cpus,       \* the processors
  Peers,      \* access points, or the stations of one
  Cipher,     \* the pairwise and the group cipher of the network
  Rooms,      \* headrooms of the frames handed over
  Holdings,   \* subset of {"own", "cloned", "shared"}: who else holds a frame
  MayFail,    \* subset of {"clone", "expand", "pad"}: allocations that fail
  MaxFrames,  \* bound: frames handed over
  MaxLinks    \* bound: entries made

Iv == [open |-> 0, wep |-> 4, tkip |-> 8, aes |-> 8]
Icv == [open |-> 0, wep |-> 4, tkip |-> 12, aes |-> 8]

ASSUME XmitFrameAssumption ==
  /\ IsFiniteSet(Cpus) /\ IsFiniteSet(Peers) /\ Cipher \in DOMAIN Iv
  /\ {"none", "group"} \cap Peers = {}
  /\ Rooms \subseteq Nat /\ Holdings \subseteq {"own", "cloned", "shared"}
  /\ MayFail \subseteq {"clone", "expand", "pad"}
  /\ {MaxFrames, MaxLinks} \subseteq Nat

VARIABLES
  pc, frame,       \* processor -> its step, its frame
  frames,          \* frames handed over
  raced,           \* history: processors whose call met the entry of its peer unfinished
  tight,           \* history: processors whose frame had room for the first header only
  type,            \* vif->type: "station" or "ap"
  entry,           \* peer -> its entry: [life, wmm, key]
  step, who,       \* the event handler's step, the peer it is about
  readers,         \* processors the handler's synchronize_rcu waits for
  links,           \* entries made
  carrier, group,  \* netif_carrier_on; vif->group_key
  bssid,           \* ap_info.bssid
  enabled, rmmod   \* vif->enabled, is_pre_rmmod

frameVars == <<pc, frame, frames, tight>>
linkVars == <<entry, step, who, readers, links, carrier, group, bssid>>
flagVars == <<enabled, rmmod, type>>
xmitVars == <<frameVars, linkVars, flagVars, raced>>

EthLen == 14
Pulled == EthLen - 2            \* skip_header_bytes: the type stays
Encaps == 8                     \* rfc1042_header
TxLen == 28                     \* sizeof(struct wsm_tx)
ExtraHeadroom == 32             \* WSM_TX_EXTRA_HEADROOM
extra_tx_headroom == ExtraHeadroom + 64 + 8 + 12
EncryptHeadroom == 20
HdrLen(f) == IF f.qos THEN 26 ELSE 24

NoPeer == "none"
Group == "group"                \* the address of a frame to many
NoFrame == [held |-> "own", room |-> 0, to |-> NoPeer, qos |-> FALSE, pulled |-> FALSE,
            iv |-> "open", icv |-> "open", orig |-> 0, copy |-> 0]
NoEntry == [life |-> "none", wmm |-> FALSE, key |-> "open"]

XmitInit ==
  /\ pc = [c \in Cpus |-> "idle"] /\ frame = [c \in Cpus |-> NoFrame]
  /\ frames = 0 /\ raced = {} /\ tight = {} /\ type \in {"station", "ap"}
  /\ entry = [p \in Peers |-> NoEntry]
  /\ step = "idle" /\ who = NoPeer /\ readers = {} /\ links = 0
  /\ carrier = FALSE /\ bssid = NoPeer /\ enabled = TRUE /\ rmmod = FALSE
  /\ group = IF type = "ap" THEN Cipher ELSE "open"

-----------------------------------------------------------------------------
(* The frame on processor c.                                               *)

Goto(c, from, to) == pc[c] = from /\ pc' = [pc EXCEPT ![c] = to]
Becomes(c, f) == frame' = [frame EXCEPT ![c] = f]

\* The buffer being worked on, the frame or its clone, loses a reference.
Freed(f) == IF f.orig = 1 THEN [f EXCEPT !.orig = 0] ELSE [f EXCEPT !.copy = @ - 1]

\* The `fail` label: ret is NETDEV_TX_OK, or NETDEV_TX_BUSY.
Failed(f, ok) == IF ok THEN Freed(f) ELSE f

\* Mutant of Found: an entry that was taken off the table is found.
FoundAnywhere(f) == f.to \in Peers

\* sta_info_get: an entry off the table is not found.
Found(f) == f.to \in Peers /\ entry[f.to].life = "linked"

Qos(f) == Found(f) /\ entry[f.to].wmm

\* A station sends all to its access point.
To == IF type = "station" THEN {bssid} ELSE Peers \cup {Group}

\* The entry of p is on the table and being filled in.
BeingMade(p) == step \in {"wmm", "key"} /\ who = p

\* The stack hands over a frame while the carrier is on.
Handed(c) ==
  /\ carrier /\ frames < MaxFrames /\ frames' = frames + 1
  /\ \E held \in Holdings, room \in Rooms, to \in To :
       LET f == [NoFrame EXCEPT !.held = held, !.room = room, !.to = to, !.orig = 1]
       IN  /\ IF rmmod
              THEN Goto(c, "idle", "dropped") /\ Becomes(c, Failed(f, TRUE))
              ELSE /\ Goto(c, "idle", "copy")
                   /\ Becomes(c, [f EXCEPT !.qos = Qos(f)])
           /\ raced' = IF BeingMade(to) THEN raced \cup {c} ELSE raced \ {c}
  /\ UNCHANGED <<linkVars, flagVars, tight>>

\* skb_shared: the clone takes the place of the frame, which is freed.
Copy(c) ==
  LET f == frame[c] IN
  /\ pc[c] = "copy" /\ f.held = "shared"
  /\ \/ /\ Goto(c, "copy", "header")
        /\ Becomes(c, [f EXCEPT !.orig = @ - 1, !.copy = 1])
     \/ /\ "clone" \in MayFail
        /\ Goto(c, "copy", "dropped")       \* dev_kfree_skb(NULL)
        /\ Becomes(c, [f EXCEPT !.orig = @ - 1])
  /\ UNCHANGED <<frames, linkVars, flagVars, raced, tight>>
NoCopy(c) ==
  /\ frame[c].held # "shared" /\ Goto(c, "copy", "header")
  /\ UNCHANGED <<frame, frames, linkVars, flagVars, raced, tight>>

Lacking(f) == HdrLen(f) + Encaps - (f.room + Pulled)
Expands(f) == Lacking(f) > 0 \/ f.held # "own"
AtLeastNone(n) == IF n > 0 THEN n ELSE 0

\* Mutant of Added: room is made for the header alone.
AddedForHeader(f) == AtLeastNone(Lacking(f))

Added(f) == AtLeastNone(Lacking(f) + EncryptHeadroom + extra_tx_headroom)

\* The frame with the 802.11 header in the place of the Ethernet header.
WithHeader(f) ==
  [f EXCEPT !.pulled = TRUE,
            !.room = @ + Pulled + (IF Expands(f) THEN Added(f) ELSE 0) - HdrLen(f) - Encaps]

\* Room for the first header, so that no more is made, and not for the rest.
Tight(f) == ~Expands(f) /\ WithHeader(f).room < ExtraHeadroom + Iv[Cipher]

Header(c) ==
  LET f == frame[c] IN
  /\ \/ Goto(c, "header", "tx") /\ Becomes(c, WithHeader(f))
     \/ /\ Expands(f) /\ "expand" \in MayFail
        /\ Goto(c, "header", "busy")
        /\ Becomes(c, Failed([f EXCEPT !.pulled = TRUE, !.room = @ + Pulled], FALSE))
  /\ tight' = IF Tight(f) THEN tight \cup {c} ELSE tight \ {c}
  /\ UNCHANGED <<frames, linkVars, flagVars, raced>>

\* Mutant of Dropped: the frame is not freed.
DroppedOnly(f) == f

Dropped(f) == Freed(f)

\* atbm_tx finds the station, in the RCU section the rest of it runs in.
Lookup(c) ==
  LET f == frame[c] IN
  /\ IF enabled /\ (Found(f) \/ f.to = Group)
     THEN Goto(c, "tx", "crypt") /\ UNCHANGED frame
     ELSE Goto(c, "tx", "dropped") /\ Becomes(c, Dropped(f))
  /\ UNCHANGED <<frames, linkVars, flagVars, raced, tight>>

KeyOf(f) == IF f.to = Group THEN group ELSE entry[f.to].key

\* atbm_tx_h_crypt.
Crypt(c) ==
  LET f == frame[c]
      k == KeyOf(f)
  IN  /\ pc[c] = "crypt"
      /\ IF k # "open" /\ f.room < ExtraHeadroom + Iv[k]
         THEN Goto(c, "crypt", "dropped") /\ Becomes(c, Dropped(f))
         ELSE /\ Goto(c, "crypt", "wsm")
              /\ Becomes(c, [f EXCEPT !.iv = k, !.room = @ - Iv[k]])
      /\ UNCHANGED <<frames, linkVars, flagVars, raced, tight>>

\* atbm_tx_h_align; the buffer begins on a multiple of four.
Offset(f) == f.room % 4
Misaligned(f) == Offset(f) % 2 = 1 \/ f.room < Offset(f)

\* atbm_tx_h_align, atbm_tx_h_wsm, atbm_tx_h_skb_pad, which frees what it
\* cannot pad, and atbm_submit_package.
Wsm(c) ==
  LET f == [frame[c] EXCEPT !.icv = KeyOf(frame[c]), !.room = @ - Offset(frame[c]) - TxLen]
  IN  /\ pc[c] = "wsm"
      /\ \/ /\ Misaligned(frame[c])
            /\ Goto(c, "wsm", "dropped") /\ Becomes(c, Dropped(frame[c]))
         \/ /\ ~Misaligned(frame[c])
            /\ Goto(c, "wsm", "queued") /\ Becomes(c, f)
         \/ /\ ~Misaligned(frame[c]) /\ "pad" \in MayFail
            /\ Goto(c, "wsm", "torn") /\ Becomes(c, Dropped(Freed(f)))
      /\ UNCHANGED <<frames, linkVars, flagVars, raced, tight>>

Ended == {"dropped", "queued", "busy", "torn"}

\* The call has returned, and the stack hands over another frame.
Again(c) ==
  /\ pc[c] \in Ended /\ pc' = [pc EXCEPT ![c] = "idle"] /\ Becomes(c, NoFrame)
  /\ UNCHANGED <<frames, linkVars, flagVars, raced, tight>>

-----------------------------------------------------------------------------
(* The event handler: the entry is inserted, then filled in.               *)

EventStep(from, to) == step = from /\ step' = to
Rest == UNCHANGED <<frameVars, raced, flagVars>>
Others(p) == {q \in Peers \ {p} : entry[q].life = "linked"}
InCall == {c \in Cpus : pc[c] \notin {"idle"} \cup Ended}

Insert(p) ==
  /\ EventStep("idle", "wmm") /\ who' = p /\ entry[p].life = "none"
  /\ type = "station" => Others(p) = {}
  /\ links < MaxLinks /\ links' = links + 1
  /\ entry' = [entry EXCEPT ![p].life = "linked"]
  /\ raced' = raced \cup {c \in InCall : frame[c].to = p}
  /\ UNCHANGED <<frameVars, flagVars, readers, carrier, group, bssid>>

SetWmm ==
  /\ EventStep("wmm", "key")
  /\ \E wmm \in BOOLEAN : entry' = [entry EXCEPT ![who].wmm = wmm]
  /\ Rest /\ UNCHANGED <<who, readers, links, carrier, group, bssid>>

SetKey ==
  /\ EventStep("key", "carrier") /\ entry' = [entry EXCEPT ![who].key = Cipher]
  /\ group' = Cipher
  /\ Rest /\ UNCHANGED <<who, readers, links, carrier, bssid>>

\* With a first station, or an access point, the link is up.
Carrier ==
  /\ EventStep("carrier", "bssid") /\ carrier' = TRUE
  /\ Rest /\ UNCHANGED <<entry, who, readers, links, group, bssid>>

SetBssid ==
  /\ EventStep("bssid", "idle") /\ bssid' = IF type = "station" THEN who ELSE bssid
  /\ Rest /\ UNCHANGED <<entry, who, readers, links, carrier, group>>

\* The RCU sections synchronize_rcu waits for.
Reading == {c \in Cpus : pc[c] \in {"crypt", "wsm"}}

Unlinked(e) == [e EXCEPT !.life = "unlinked"]

\* __sta_info_destroy, up to synchronize_rcu.
Unlink(p) ==
  /\ EventStep("idle", "wait") /\ who' = p /\ entry[p].life = "linked"
  /\ entry' = [entry EXCEPT ![p] = Unlinked(@)] /\ readers' = Reading
  /\ Rest /\ UNCHANGED <<links, carrier, group, bssid>>

\* A reader the wait began with has left its section.
Left ==
  /\ step = "wait" /\ readers \ Reading # {}
  /\ readers' = readers \cap Reading
  /\ Rest /\ UNCHANGED <<entry, step, who, links, carrier, group, bssid>>

Synchronize ==
  /\ EventStep("wait", "down") /\ readers = {}
  /\ entry' = [entry EXCEPT ![who] = NoEntry]
  /\ Rest /\ UNCHANGED <<who, readers, links, carrier, group, bssid>>

Down ==
  /\ EventStep("down", "idle") /\ carrier' = (Others(who) # {})
  /\ Rest /\ UNCHANGED <<entry, who, readers, links, group, bssid>>

\* ndo_stop, whose flush is Unlink; the program announces the removal.
Stop ==
  /\ enabled /\ enabled' = FALSE /\ UNCHANGED <<frameVars, raced, linkVars, rmmod, type>>
PreRmmod ==
  /\ ~rmmod /\ rmmod' = TRUE /\ UNCHANGED <<frameVars, raced, linkVars, enabled, type>>

XmitNext ==
  \/ \E c \in Cpus :
       \/ Handed(c)
       \/ Copy(c)
       \/ NoCopy(c)
       \/ Header(c)
       \/ Lookup(c)
       \/ Crypt(c)
       \/ Wsm(c)
       \/ Again(c)
  \/ \E p \in Peers : Insert(p) \/ Unlink(p)
  \/ SetWmm
  \/ SetKey
  \/ Carrier
  \/ SetBssid
  \/ Left
  \/ Synchronize
  \/ Down
  \/ Stop
  \/ PreRmmod

XmitSpec == XmitInit /\ [][XmitNext]_xmitVars

-----------------------------------------------------------------------------
Frames == [held : Holdings \cup {"own"}, room : Int, to : Peers \cup {NoPeer, Group},
           qos : BOOLEAN, pulled : BOOLEAN, iv : DOMAIN Iv, icv : DOMAIN Icv,
           orig : Int, copy : Int]
Entries == [life : {"none", "linked", "unlinked"}, wmm : BOOLEAN, key : DOMAIN Iv]

\* The variables have their types.
XmitTypeOK ==
  /\ pc \in [Cpus -> {"idle", "copy", "header", "tx", "crypt", "wsm"} \cup Ended]
  /\ frame \in [Cpus -> Frames] /\ frames \in 0 .. MaxFrames
  /\ entry \in [Peers -> Entries] /\ who \in Peers \cup {NoPeer}
  /\ step \in {"idle", "wmm", "key", "carrier", "bssid", "wait", "down"}
  /\ readers \subseteq Cpus /\ links \in 0 .. MaxLinks
  /\ {carrier, enabled, rmmod} \subseteq BOOLEAN /\ type \in {"station", "ap"}
  /\ group \in DOMAIN Iv /\ bssid \in Peers \cup {NoPeer}
  /\ raced \subseteq Cpus /\ tight \subseteq Cpus

\* NETDEV_TX_OK takes the stack's reference: the frame or its clone is in the
\* queue once, or nothing of it is left, whichever allocation failed; only a frame
\* that could not be padded is given back once too often (skb_padto, txrx.c).  After
\* NETDEV_TX_BUSY the stack still has what it handed over, unless the frame was
\* shared: then its reference is gone, and a clone nobody knows is left (iface.c).
Accounted ==
  \A c \in Cpus :
    LET f == frame[c] IN
    /\ pc[c] = "queued" => {f.orig, f.copy} = {0, 1}
    /\ pc[c] = "dropped" => f.orig = 0 /\ f.copy = 0
    /\ pc[c] = "torn" => f.orig + f.copy = -1
    /\ pc[c] = "busy" =>
         IF f.held = "shared" THEN f.orig = 0 /\ f.copy = 1 ELSE f.orig = 1 /\ f.copy = 0

\* A frame reaches atbm_tx with room for everything that is pushed there: the
\* IV, the alignment and struct wsm_tx, unless the headroom it came with was enough
\* for the first header only.  Such a frame is dropped when it needs an IV; without
\* a key the last push may end below the head of the buffer.
RoomKept ==
  \A c \in Cpus :
    /\ frame[c].room < 0 => c \in tight /\ frame[c].iv = "open"
    /\ pc[c] = "crypt" => c \in tight \/ frame[c].room >= ExtraHeadroom + Iv[Cipher]

\* The IV atbm_tx_h_crypt makes room for and the ICV atbm_tx_h_wsm counts are
\* of the same key, which each reads for itself, unless the peer's entry was being
\* made during the call.
SameKey ==
  \A c \in Cpus : pc[c] = "queued" /\ c \notin raced => frame[c].iv = frame[c].icv

\* A frame of a protected network enters the queue with FCTL_PROTECTED, unless the
\* entry of its peer, which is on the table before it has a key, was made or filled
\* in after the call began: removals, other peers' entries and the other processor
\* do not matter.
Protected ==
  \A c \in Cpus : pc[c] = "queued" /\ c \notin raced => frame[c].iv = Cipher

\* Likewise a frame has a QoS header if its peer takes one, though the header is
\* chosen by another lookup than the key.
QosAsPeer ==
  \A c \in Cpus :
    pc[c] \in {"crypt", "wsm"} /\ c \notin raced /\ frame[c].to \in Peers =>
      frame[c].qos = entry[frame[c].to].wmm
=============================================================================

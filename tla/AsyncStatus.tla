------------------------------- MODULE AsyncStatus --------------------------
(***************************************************************************)
(* The one struct status_async by which the driver tells a program what has  *)
(* happened (atbm_ioctl.c): the event handler and the work of a scan write   *)
(* it and send SIGIO, the program reads it in its signal handler. A signal   *)
(* that is pending already is not sent again, and nothing keeps an event     *)
(* from being written over the one before: the handler writes the events of  *)
(* its queue back to back.                                                   *)
(***************************************************************************)
EXTENDS Naturals

CONSTANT MaxEvents    \* bound: events

ASSUME AsyncStatusAssumption == MaxEvents \in Nat

VARIABLES
  type, is_connected,   \* of status
  writer,      \* the event handler: "idle", "type" or "signal"
  linked,      \* the connection as the event handler knows it
  scanner,     \* the work of a scan: "idle" or "signal"
  sigio,       \* SIGIO is pending
  reader,      \* the program: "idle", "copy" or "reset"
  known,       \* the connection as the program knows it
  realScans,   \* scans that are over
  toldScans,   \* scans that the program was told of
  events,
  last,        \* what was last written to type, or "read" if it was read since
  missed,      \* the last connection event was written over before it was read
  untold,      \* the last scan that was over has not been told
  hidden,      \* ... for another event was written over it before it was read
  empties      \* readings of the type that the reading before had left

statusVars == <<type, is_connected>>
writerVars == <<writer, linked, scanner>>
readerVars == <<reader, known, toldScans>>
ghostStatus == <<last, missed, untold, hidden, empties>>
asyncVars == <<statusVars, writerVars, sigio, readerVars, realScans, events, ghostStatus>>

Invalid == "invalid"

\* atbm_ioctl_add; "status.type = -1; // invalid msg type"
StatusInit ==
  /\ type = Invalid /\ is_connected = FALSE
  /\ writer = "idle" /\ linked = FALSE /\ scanner = "idle"
  /\ sigio = FALSE /\ reader = "idle" /\ known = FALSE
  /\ realScans = 0 /\ toldScans = 0 /\ events = 0
  /\ last = "none" /\ empties = 0
  /\ missed = FALSE /\ untold = FALSE /\ hidden = FALSE

Quiet == writer = "idle" /\ scanner = "idle" /\ ~sigio /\ reader = "idle"

MayCome == events < MaxEvents /\ events' = events + 1

\* The type is written over: an event that was not read yet is gone.
Writes(t) ==
  /\ type' = t /\ last' = t
  /\ missed' = (t # "connect" /\ (missed \/ last = "connect"))
  /\ hidden' = (t # "scan" /\ (hidden \/ last = "scan"))
  /\ untold' = (t = "scan" \/ untold) /\ UNCHANGED empties

-----------------------------------------------------------------------------

\* atbm_ioctl_connect_async writes is_connected,
Connects(up) == up

Connection ==
  /\ writer = "idle" /\ writer' = "type" /\ MayCome
  /\ linked' = ~linked /\ is_connected' = Connects(linked')
  /\ UNCHANGED <<type, scanner, sigio, readerVars, realScans, ghostStatus>>

\* ... then the type,
WriteType ==
  /\ writer = "type" /\ writer' = "signal" /\ Writes("connect")
  /\ UNCHANGED <<is_connected, linked, scanner, sigio, readerVars, realScans, events>>

\* ... and tells the program, as the other events do.
Signal ==
  /\ writer = "signal" /\ writer' = "idle" /\ sigio' = TRUE
  /\ UNCHANGED <<statusVars, linked, scanner, readerVars, realScans, events, ghostStatus>>

\* atbm_ioctl_driver_async, _wakeup_async, _disconn_async, _conn_err_async
OtherEvent ==
  /\ writer = "idle" /\ writer' = "signal" /\ MayCome
  /\ Writes("other")
  /\ UNCHANGED <<is_connected, linked, scanner, sigio, readerVars, realScans>>

\* scan_complete_work
ScanComplete ==
  /\ scanner = "idle" /\ scanner' = "signal" /\ MayCome
  /\ Writes("scan") /\ realScans' = realScans + 1
  /\ UNCHANGED <<is_connected, writer, linked, sigio, readerVars>>

ScanSignal ==
  /\ scanner = "signal" /\ scanner' = "idle" /\ sigio' = TRUE
  /\ UNCHANGED <<statusVars, writer, linked, readerVars, realScans, events, ghostStatus>>

-----------------------------------------------------------------------------

\* ioctl_msg_func of the program begins.
Deliver ==
  /\ sigio /\ sigio' = FALSE
  /\ reader = "idle" /\ reader' = "copy"
  /\ UNCHANGED <<statusVars, writerVars, known, toldScans, realScans, events, ghostStatus>>

\* copy_to_user, and what the program takes from it
Copy ==
  /\ reader = "copy" /\ reader' = "reset"
  /\ known' = IF type = "connect" THEN is_connected ELSE known
  /\ toldScans' = IF type = "scan" THEN toldScans + 1 ELSE toldScans
  /\ last' = "read" /\ untold' = (untold /\ type # "scan")
  /\ empties' = IF last = "empty" THEN empties + 1 ELSE empties
  /\ UNCHANGED <<statusVars, writerVars, sigio, realScans, events, missed, hidden>>

\* "status.type = 2", which is the type of a scan
Empty == "scan"

StatusReset ==
  /\ reader = "reset" /\ reader' = "idle" /\ type' = Empty
  /\ last' = IF last = "scan" THEN "scan" ELSE "empty"
  /\ missed' = (missed \/ last = "connect")
  /\ UNCHANGED <<is_connected, writerVars, sigio, known, toldScans, realScans, events,
                 untold, hidden, empties>>

-----------------------------------------------------------------------------

StatusStep == WriteType \/ Signal \/ ScanSignal \/ Deliver \/ Copy \/ StatusReset
StatusNext == Connection \/ OtherEvent \/ ScanComplete \/ StatusStep

StatusSpec == StatusInit /\ [][StatusNext]_asyncVars

\* The writers go on, and the program handles its signal.
StatusFairness == WF_asyncVars(StatusStep)

-----------------------------------------------------------------------------
(* Properties.                                                             *)

\* When everything that happened was told, the program knows whether the driver
\* is connected (atbm_ioctl_connect_async, atbm_ioctl_read), however the events
\* follow each other and the signals merge, unless another event, a scan or the
\* "status.type = 2" of a reading was written over the last connection event
\* before it was read.
KnowsTheLink == Quiet /\ ~missed => known = linked

\* "2:scan complete" (atbm_ioctl.c:29): the program is told of no more scans than
\* there were, and of one more each time it reads what the reading before left.
ScansReal == toldScans <= realScans + empties

\* A scan that is over is told, in spite of the readings and the scans that come
\* between, unless an event of another type was written over it.
ScansTold == []<>(~untold \/ hidden)
=============================================================================

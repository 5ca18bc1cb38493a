# TLA+ models of the atbm6441 Wi-Fi driver

The repository is the Linux host driver (with a port to an RTOS) of an SDIO
Wi-Fi chip whose firmware runs the 802.11 MAC. The driver's own logic is in
`src/hal_apollo`: a command channel, a credit-based data path, two kernel
threads that serve the SDIO bus, and a small station layer. This directory holds
TLA+ modules of that logic, the TLC configurations that check them on small
instances, and proofs checked by TLAPS.

    tlc -config <run>.cfg <Module>.tla      # model-check one run
    tlapm <Module>_proofs.tla               # check the proofs

`PROJECT.json` lists the runs, the mutants that show each property can fail, the
source lines of every definition, the hazards, the findings and the theorems.

## Inventory

| component | state | operations | concurrency and failure | correct means | modules |
|---|---|---|---|---|---|
| WSM command channel (`wsm.c`, `bh_sdio.c`) | `wsm_cmd` {ptr, len, arg, cmd, ret, done}, `wsm_cmd_buf`, `wsm_cmd_mux` | ~60 `wsm_*` wrappers, `wsm_cmd_send`, `wsm_get_tx`, `wsm_txed`, `wsm_handle_rx`, `atbm_sdio_force_free_wsm` | callers, sdio_tx, sdio_rx; timeouts, late and repeated confirmations, failed writes, removal | a caller gets its own answer, no confirm handler writes to the stack of a caller that left, every call returns | `WsmCmd` |
| transmit credits (`bh_sdio.c`, `wsm.c`) | `n_xmits`, `hw_xmits`, `hw_bufs_free` | `atbm_sdio_have_enough_space`, `..._wait_enough_space`, `atbm_sdio_tx_bh`, the INPUTCHAN event | `hw_xmits` is written without a lock by two threads, u32 wrap, failed writes, release | the device's buffers are never overrun, no credit is forgotten, the thread comes back when the driver goes | `BufferPool`, `TxCredit`, `TxStop` |
| transmit queue and frames (`txrx.c`, `bh_sdio.c`, `iface.c`) | `tx_frame_queue`, `tx_num_queued`, `tx_queue_overfull`, the netif queues; a frame's headroom, references, headers | `atbm_subif_start_xmit`, `atbm_tx`, `atbm_submit_package`, `atbm_open`, `atbm_stop`, the dequeue in `atbm_sdio_tx_bh` | four netif queues, several processors, sdio_tx, the event handler | the queue is bounded, a stopped queue is woken again, a frame is freed or queued once, with its headroom and one key | `TxQueue`, `XmitFrame` |
| sdio threads (`apollo_sdio.c`) | flags WAKEUP, SHOULD_SUSPEND, SUSPENED, SHOULD_STOP, the `suspended` completion, the task state | `atbm_sdio_wait_action`, `..._thread_wakeup`, `atbm_kthread_try_suspend/resume`, `..._thread_deinit` | wakeups, suspend and stop at any moment | no work is forgotten, a suspended thread does not run, a stop ends | `BhThread` |
| receive path (`apollo_sdio.c`, `bh_sdio.c`, `rx.c`, `txrx.c`) | the irq enable, the control register, `wsm_rx_seq`; the frame and its key; `skb_queue` | `atbm_irq_handler`, `atbm_sdio_rx_pre_sched`, `..._irq_period`, `atbm_rx_directly`, `atbm_rx_tasklet`, `atbm_rx_cb`, the handlers `ieee80211_rx_h_*`, `atbm_iface_work` | a frame between the last poll and the enable; events that change flags and keys under a frame; interface down | what the device offers is read, in order; a frame is consumed once, without its cipher headers | `RxPath`, `MultiRx`, `RxFrames` |
| A-MPDU (`rx.c`, `agg-rx.c`) | the reorder buffer, head sequence, timers, the session and the work | `ieee80211_sta_manage_reorder_buf`, release on timeout, ADDBA, DELBA, the session timer | timer against receive, 12-bit wrap, RCU readers | frames go up in order and once; nothing is freed under a reader | `Delivery`, `Reorder`, `BaSession` |
| event queue (`main.c`, `wsm.c`) | `event_queue`, the event work | `wsm_event_indication`, `atbm_event_handler` | the work runs while events are added | every event is handled, in order | `EventQueue` |
| station table and interface (`sta_info.c`, `iface.c`) | the list and hash of stations, flags, `connect_success`, the carrier | insert, destroy, flush, connection events, the comparison of station lists, open, stop | `sta_mtx`, RCU, ndo calls against events | the table says what the firmware says | `Station`, `ApStations` |
| probe and release (`main.c`, `apollo_sdio.c`) | `atbm_common`, work queue, threads, interrupt, `atbm_rcu` | module init and exit, probe, disconnect, `atbm_core_probe`, `atbm_core_release` | failure of every step, a card that is pulled out | users end before what they use is freed | `Lifecycle` |
| ioctl interface (`atbm_ioctl.c`) | `status_async`, scan state, check_alive_info | the scan and its poll, SIGIO and read, the watch over the firmware | timers, works and tasks without a lock | a program is told what happened | `ScanPoll`, `AsyncStatus`, `CheckAlive` |
| module_fs (`module_fs.c`) | the list of waiting answers, marks, buffers | the sysfs commands, `echo=` | failing allocations, a changing limit | list, marks, count and buffers agree | `EchoList` |
| bus access and firmware download (`hwio_sdio.c`, `fwio.c`) | CONFIG, the AHB window | `atbm_direct_read_reg_32`, `..._write_reg_32` | bus errors, a slow chip | CONFIG is put back, the access ends | `DirectAccess` |
| RTOS port (`src/os/ankai_V330`) | a work queue of links and a semaphore; timers in a hash | `queue_work`, `workqueue_work`, `atbm_mod_timer`, `atbm_del_timer`, `__timer_out_func` | threads of the RTOS, an expiry before its timer is entered | what is queued runs, what is started expires | `RtosWork`, `RtosTimer` |
| wakelock (`pm.c`) | a timer with an empty handler in the default build | `atbm_pm_stay_awake` | none that anything waits for | nothing depends on it | not modelled |
| frame building and parsing (`tx.c`, `util.c`) | frames | headers, rates | none | formats | not modelled |
| skb and memory wrappers, platform control, SPI variant, calibration tables, tools, kconfig | | | | | not modelled |

The parts meet in few places. A caller and sdio_tx share the command slot; both
the slot and `tx_frame_queue` are drained by one loop, `atbm_sdio_tx_bh`, which
needs a credit for each frame; sdio_rx feeds confirmations back to the slot,
reports to the credits, events to the event queue and frames to the receive
handlers; and the work queue handles events, session ends and management frames
one at a time, against the ndo calls and the programs.

## Plan

All modules of the plan are written. In the order of what breaks worst:
`WsmCmd`; `BufferPool`, `TxCredit`; `BhThread`; `TxQueue`; `RxPath`; `Delivery`,
`Reorder`, `BaSession`; `EventQueue`, `Station`, `ApStations`; `Lifecycle`;
`RtosWork`, `RtosTimer`; `ScanPoll`, `AsyncStatus`, `CheckAlive`; `RxFrames`,
`MultiRx`; `EchoList`, `XmitFrame`, `DirectAccess`; `TxStop`; and the proofs. What could
follow: what two processors keep of the order of `Delivery`, the invariants of
`Reorder` for sizes whose slots do meet at the wrap, and the retries of the data
port once the chip's side of them is documented.

## How the modules are put together

| extends | module |
|---|---|
| `TxStop` | `TxCredit`: the loop of sdio_tx with the release of the driver around it |
| `TxCredit` | instance of `BufferPool`, its abstract specification |
| `Reorder` | instance of `Delivery`, its abstract specification |
| `Station`, `ApStations` | `EventQueue`: the handler as a station and as an access point |
| `MC*` | the modules of one part of the driver, for one TLC run |

The `MC` modules put models side by side that share no variable (`MCInterface`:
only the event queue, of which a behaviour serves one). A rigid variable `part`
picks the model whose steps a behaviour takes; the others stay in their initial
state. As the models do not interact this loses nothing: each behaviour of each
model is one of the run, and a property that names the variables of one model is
checked in all of that model's states. The fairness of a model is that of its own
module where nothing that it asks for is enabled in the initial state, and is
restated for steps with `part` where something is. Beside the properties that
are listed by their own name, an `MC` module joins the ones of its models that go
together: `...Safe` is a conjunction of invariants (the type invariants among
them), and `ThreadServes`, `TransmitEnds`, `ReceiveServes`, `AmpduEnds`,
`InterfaceGoesOn` and `UserTold` are conjunctions of liveness or action properties.
The comment of each names its parts, which are stated in the models.

Where the code lets a promise be broken, the model takes that step too, and a
property says until when, or but for what, it holds. Two forms are used. A
history variable records that the step has happened (`orphans`, `astray`, `undone`,
`outrun`, `raced`, `tight`, `missed`, `twice`, ...): it is read by no guard. A rigid
variable with its values in a constant is a regime of the environment that holds for
a whole behaviour (`racing`, `prompt`, `settled` of `RxFrames`, `mixed`, `cpus`, `failing`,
`when`): one run checks what holds in every regime, and what needs one in it.

## The modules

### WsmCmd: the command channel

A task takes `wsm_cmd_mux` and puts its request into the one buffer (`Lock`),
publishes it in the slot (`Publish`), sleeps until `done` (`Completed`) or until
its time is up (`TimedOut`, then `LastChance` when the answer had been taken),
and leaves (`Return`). sdio_tx sees the command without the lock (`TxPeek`),
fetches it under the lock (`TxGet`), checks and copies it (`TxCopy`), clears the
slot (`TxTxed`) and writes (`TxWrite`, `TxWriteError` with `ForceComplete`);
A try of the write that fails may have reached the device (`TxTry`); when
all tries fail the command is completed by force, and its answer still comes.
`TxExit` is its end. sdio_rx handles a confirmation in two critical sections
with the confirm handler between them (`RxTake`, `RxDone`). The device is
external: it answers in order, perhaps twice.

A command is its serial number. A pointer to the caller's stack, the contents of
the shared buffer and a response are all the serial of the command they belong
to, which makes "somebody else's answer" and "a stack that is gone" visible.
Identifiers are kept apart, because `wsm_handle_rx` matches by identifier.
A task may time out at any moment; how often it may do so while an answer is
under way or sdio_tx has the slot in its hands (`Late`) is bounded by `MaxLate`.
`orphans` are the commands whose task has left while their answer was under way,
by the timer or because the command was completed by force.

### TxCredit, BufferPool and TxStop: the credits

The u32 counters are taken modulo `2 * Half`, so that they wrap within a few
frames. `atbm_sdio_have_enough_space` is two actions, because it reads
`hw_xmits` (`HaveSpace`) and stores it again (`RereadSpace`) without a lock
while sdio_rx stores reports (`RxEvent`). The store is a data race, which a
compiler may also drop: both are steps of the model, and `undone` says that an older
report was stored over the last. A failed write may have reached the device or
not (`WriteError`), and stays counted. Reports are ignored while there is no
interface. `BufferPool` is the abstract specification: a buffer is taken when it
is free and given back when it is used; `used` maps to the frames in the batch,
in the device and lost.

`TxStop` adds the release: the interface is removed, the interrupt is given
back, and kthread_stop waits for a thread that looks for the stop only in
`atbm_sdio_wait_action`, outside the wait for credits.

### BhThread: a thread of the bus

Every access of the thread to something it shares is a step of its own:
`tpc` names the point between two of them, `running` is the task state that
`wake_up_process` sets and `set_current_state` clears. `schedule_timeout` ends
when the thread is running (`Woken`) or its timer expires (`Expire`);
`schedule()` in `atbm_kthread_into_suspend` only by a wakeup (`Unpark`). A
producer queues work, sets THREAD_WAKEUP and wakes when the bit was clear. One
task suspends, resumes and removes: the device core serialises these calls of
one device. A suspend may give up after a second (`SuspendGivesUp`, `gaveup`);
`astray` says that the thread told it is suspended while nobody waited for it. Memory is taken to be sequentially consistent; the read-modify-write
bit operations the code relies on are full barriers in Linux.

### TxQueue: back-pressure

Senders are anonymous and counted by the point of `atbm_submit_package` they
are at: appended and not counted yet (`counting`), and about to stop the queues
after the unlock (`stopping`). sdio_tx takes, counts and wakes in three steps, in
any order with the senders'. `outrun` says that sdio_tx has sent half a queue, and
cleared overfull, while a sender was between its unlock and its stop: with
the 256 frames of the driver that is 128 frames on the bus against a few
instructions, but nothing rules it out.

### XmitFrame: a frame on its way out

On each processor the steps of `atbm_subif_start_xmit` and `atbm_tx`: the test of
the link (`Handed`), the copy of a shared frame (`Copy`), headroom and 802.11
header (`Header`), the station and its key (`Lookup`), IV and ICV (`Crypt`), the
WSM header and the queue (`Wsm`), and the return of a busy frame (`Again`). Beside
them the event handler makes, completes and removes the entry of the peer step
by step. A frame is its references, its bytes of headroom and the headers on
it: `Rooms` holds frames with `needed_headroom` (168), with none to speak of, and
with room for the first header only (`tight`). The interface is a station or an
access point. `raced` are the calls that met the entry of their own peer while the
event handler was making it.

### RxPath: from the interrupt to the frame

The device offers frames and latches an interrupt that is lost when it is not
enabled; `atbm_irq_handler` turns it off and wakes sdio_rx; sdio_rx reads until
the control register is empty, polls once more before and after it enables the
interrupt, and sleeps. Beside it, `atbm_direct_*` saves CONFIG, which holds the
enable bit, and writes it back under another claim; the machine suspends; an
access fails. `wsm_rx_seq` is taken modulo `SeqMod`, and the first frames
after the module is loaded are not checked.

### MultiRx: the split of an aggregate

`atbm_rx_tasklet` walks over an aggregated indication by the length of each
header, aligned to four bytes, and ends by the number of frames and by the bytes
left. `places` is where the frames lie, and only grows by `PutFrame`, so that the
loop is compared with it and computes its own way. The run covers every list of
up to three frames of the lengths that differ in alignment; a length is at least 44 bytes, the headers of an indication. (With
a frame of 32 bytes or fewer the two ends of the loop would disagree.)

### RxFrames: the handlers of a frame

One action per handler: `FrameArrives` and `Lookup` (`atbm_rx_cb`), `FrameCheck`,
`Decrypt`, `Strip`, `Process`, `MicVerify`, `Amsdu`, `Enqueue`, `ActionDone`, with the
choice of the key, the flags of the status, and what each handler frees. The work
takes the queue of the interface; the event handler and ndo_stop change `assoc`,
`enc`, the keys and the queue in the order of the code.

### Delivery, Reorder: the window of a session

The ring is kept with the numbers as the air carries them, modulo `SeqModulo`,
while frames are numbered without end, so that a wrap that goes wrong is seen.
sdio_rx and the timer change the ring under `reorder_lock` and hand their list
over later: between the two, on two processors, the other may overtake. A loop
over the ring is a body that runs for a number of rounds (`Rounds`): as many as
it can run at all, of which the later ones change nothing.
`Delivery` is what the network stack may expect: frames that were received, in
order, once (an EAPOL frame perhaps twice, rx.c:322).

### BaSession: sessions and stations

The work queue and ndo_stop stop sessions and remove the station step by step;
sdio_rx and the reorder timer hold what they fetched under RCU; `call_rcu` and
`synchronize_rcu` wait for the readers there are. `cpus` says whether a task
may run while a reader is in its section.

### EventQueue, Station, ApStations: events

sdio_rx appends an event under the lock and queues the work outside of it, if
the queue was empty; the work takes the whole list. As a station the handler
makes and drops the entry of the access point, beside ndo_open, which asks the
firmware itself, and ndo_stop. As an access point it asks for the list of
stations at each event and takes one difference to the list it got before.

### Lifecycle: load, probe, release, unload

Module init with its error path, the probe with each step that can fail, the
release in the order of `atbm_core_release` and the stop of the two threads, the
exit that waits for `atbm_rcu.completion`; the card is plugged in and pulled out
at any moment; threads, interrupt and event work are the users of the memory. When
the interrupt is off, sdio_rx goes on with what it has begun to read (`reading`), and
may queue the event work, until it is stopped.

### DirectAccess: registers of the chip

The four accesses of the probe: CONFIG is saved and put in access mode, the
address is written, the prefetch awaited with a bounded number of reads, the data
moved, and CONFIG put back, again and again until it succeeds.

### ScanPoll, AsyncStatus, CheckAlive, EchoList: what programs see

`ScanPoll`: the task, the timer and the work of a scan, each statement that touches
the shared state a step. `AsyncStatus`: the one struct, its writers, which may follow
each other before anything is read, and the read on SIGIO. `CheckAlive`: the timer
counts, the work sends a command and clears the count, in any interleaving with each
other and with the program's calls; what a destroyed work queue does when it is used
is either nothing or a stop of the machine. `EchoList`: the list of commands with an answer waiting, under one lock.

### RtosWork, RtosTimer: the RTOS port

`RtosWork` has the links of the list as they are, so that a wrong unlink is seen,
and the worker that runs works with the mutex held. What is linked is what is in
each set that the links do not leave (`OnTheWay`). A work may be queued while it is due
(`twice`), as rx.c:1297 does for each management frame. `RtosTimer` has the hash, the
handle that is known only after the timer runs, and the two flags by which an
expiry that came too early is made up for.

## The runs

| run | expects | what it shows |
|---|---|---|
| `WsmCmd_safe` | pass | two tasks, three commands, failed writes that arrive, late and repeated answers, removal: no handler after its caller until a timer expires meanwhile; own answers, no answer rejected, the copied command is the published one and no BUG_ON until a caller leaves an answer behind |
| `WsmCmd_late` | pass | every call returns, or a BUG_ON stops the machine, whenever timers expire |
| `MCThreads` | pass | a suspend finds the thread parked, each time, work is served, suspend and stop end (`BhThread`); wrapping counters, racing store, lost writes, ignored reports: credits conserved, BUG_ONs silent, the pool implemented, no report forgotten (`TxCredit`); waits and the release end, or the credits are gone for a named reason (`TxStop`) |
| `MCTransmit` | pass | the account of the queue, overfull means stopped, queues restart (`TxQueue`); a frame is accounted for whichever allocation fails, has its headroom, one key for all its headers, is protected, and has a QoS header as its peer wants (`XmitFrame`) |
| `MCReceive` | pass | no sleep with a frame pending, order, bounded loss, every frame read (`RxPath`); splitting (`MultiRx`); each frame consumed once, by a key that is known, stripped, and the queue emptied (`RxFrames`) |
| `MCAmpdu` | pass | the ring implements `Delivery`, nothing received is lost, what is held is released (`Reorder`); nothing freed under a reader, nothing left behind, idle sessions end (`BaSession`) |
| `MCInterface` | pass | events noticed and taken (`EventQueue`); table, flag and carrier agree with the firmware (`Station`, `ApStations`); users end first, one callback at a time, init undone, exit returns (`Lifecycle`); accesses end with the mode put back (`DirectAccess`) |
| `MCUser` | pass | alarms are true and come (`CheckAlive`); a scan is told, when over (`ScanPoll`); an event is read unless it was written over, and none is invented (`AsyncStatus`); list, marks and buffers agree (`EchoList`); in the RTOS port no work is lost from the links, and each runs, until one is queued that is due (`RtosWork`); timers are called once, for their start, and a deleted one is gone (`RtosTimer`) |
| `WsmCmd_stack` | violation of `ConfirmInsideSend` | the last-chance wait does not cover an answer that has not been taken yet |
| `WsmCmd_slot` | violation of `SlotFree` | after a failed write that had reached the device a late answer leaves the slot occupied, and `BUG_ON(wsm_cmd.ptr)` fires; no timer expires |
| `BhThread_timeout` | violation of `SuspendedMeansParked` | a suspend that gave up counts as done |
| `ba_leave` | violation of `NoReferenceLeft` | a session timer queues the work of a station after it was cancelled, and the station is freed |

### What the code does not keep

Where a property has an exception or is stated for a regime, this is the reason;
without it the property is violated, by the steps named here.

- `WsmCmd`: after a timer that expired while an answer was under way,
  `HandlerInsideSend`. After that or a failed write that had arrived, once the caller has
  left (`orphans`): somebody else's answer is reported (`OwnResponse`), the
  slot is marked as answered and the waiting command's own answer rejected
  (`ConfirmAccepted`), its buffer is reset before sdio_tx has copied it
  (`CopiesTheCommand`), and a BUG_ON fires (`NoBug`, and `SlotFree` in `WsmCmd_slot`).
- `TxCredit`, `TxStop`: the store of line 281 overwrites a newer report (`undone`:
  `NoReportForgotten`, `WaitEnds`); credits of failed writes do not come back (`WaitEnds`,
  when all are lost); a report without an interface is ignored, and sdio_tx, once out
  of credits, does not look at the stop (`ReleaseEnds`).
- `BhThread`: a suspend that gives up leaves a completion for the next one, and
  so does a thread woken while it is suspended that meets the resume and tells once
  more (`gaveup`, `astray`: `SuspendKept` and `WorkServed`); its resume can fall between the
  test of THREAD_SHOULD_SUSPEND and the setting of THREAD_SUSPENED.
- `TxQueue`: queues that are stopped after they were woken stay stopped (`outrun`:
  `OverfullMeansStopped`, `QueuesRestart`), until the interface is opened again.
- `XmitFrame`: a headroom between the first header's and the whole one is not made
  up (`tight`: `RoomKept`); a frame that cannot be padded is freed twice, and a shared frame that
  comes back busy has been freed with its clone kept (clauses of `Accounted`); a
  frame to a peer whose entry is being made (`raced`: `Protected`, `SameKey`,
  `QosAsPeer`).
- `RxFrames`: `Once` fails for an A-MSDU (its last subframe is freed after it was
  handed up); `Stripped` and `KeyKnown` during an event (`settled = FALSE`).
  `stops`: frames that come while the interface is down stay on the queue.
  Frames with a MIC failure are handed up when the firmware reports the IV
  stripped. The work has a WARN for frames the handlers do queue.
- `Reorder`: two processors violate `DeliverySpec`; a `BufSize` that does not divide
  `SeqModulo` violates `NothingLost` at the wrap.
- `BaSession`: `NothingLeft` fails on two processors, where a reader sets a timer
  that was just deleted, and with session timeouts. An ADDBA that replaces a
  session leaves the bit of its timer, which ends the new one.
- `Station`: `racing` violates `UsesLive` and `AgreesWithFirmware`. `ApStations`: without
  `prompt` stations are missed or kept.
- `Lifecycle`: a failing `atbm_pm_init` stops threads that were never made; a
  failing `atbm_netdev_add` is not cleaned up; with a firmware that is loaded
  again the error path flushes no work; a module whose card never came does not
  unload; `g_hw_priv` keeps the address of the structure that was freed.
- `DirectAccess`: a chip that keeps the prefetch bit, or an access that fails, is
  not told to the caller, which goes on with a variable that was not written.
- `CheckAlive`: the 0 of an answer falls into a `cur_cnt++` (`raced`: `AlarmTrue`);
  `atbm_del_timer` does not wait for a callback that arms the timer again
  (`overlap`), and a watch begun again after a sleep finds no work queue, as
  `is_first` stays 0 (`again`: `QueueAlive`). `ScanPoll`: a program that scans on the
  signal itself (`"told"`) is told of the new scan at once. `AsyncStatus`: an event
  is written over before it was read (`missed`: `KnowsTheLink`; `hidden`: `ScansTold`), and
  a reading of what the last one left is taken for a scan (`empties`: `ScansReal`).
- `RtosWork`: a work that commands (`commanding`) stops the queue for good when
  sdio_rx is in `queue_work`; a work queued while it is due breaks the links
  (`twice`: `DueLinked`, `DueNoticed`, `QueuedRuns`). `RtosTimer`: `mixed`
  violates `CalledOnce`, `QuietAgrees` and `ExpiresCalled`; a timer that was deleted
  calls nothing when it is started again (atbm_os_timer.c:191).

### Bounds

- `WsmCmd`: two tasks are what the mutex orders; three commands are one that is
  abandoned, one that suffers and one after it; two identifiers, one of which
  a failed write does not complete; one late timer and one repeated response. In
  `WsmCmd_late` two commands and two late timers.
- `TxCredit`, `TxStop`: two buffers and batches of two make full, partly full and empty
  pools and batches, and all buffers may be lost; counters modulo 6 wrap several
  times in a behaviour; two commands may come after the interface was removed.
- `BhThread`: two producers, one that finds THREAD_WAKEUP set and one that set
  it; two items, so that one comes while the thread works; two suspends, of
  which the first may leave something behind for the second.
- `TxQueue`: a queue of 6 with 2 senders keeps the room between the wake level
  and the limit that 256 and 4 have; the queue may exceed its limit by two IPC
  frames. `XmitFrame`: one processor, two peers, two links, three frames: two frames
  share nothing but what the event handler writes, so a second processor adds
  interleavings and no behaviour of a frame; the proofs are for any number.
- `RxPath`: three frames with numbers modulo 2 make a whole round after a gap, one
  failing access, one restored register, one suspend. `RxFrames`: two frames of
  six kinds. `MultiRx`: three frames, of lengths of different alignment.
- `Reorder`: numbers modulo 16, a ring of 4, frames 13 to 17, so that the
  window wraps, one duplicate, an EAPOL frame on either side of the wrap.
  `BaSession`: two sessions, of which one replaces the other.
- `Station`: two access points, four changes, two opens; `ApStations`: three
  stations, four changes, so that two join between two events.
  `Lifecycle`: two cards, one reload. `DirectAccess`: three failing operations,
  three polls.
- `CheckAlive`: limits 2 and 3, three calls, so that the watch begins, sleeps and
  begins again, and a lost answer; `ScanPoll`: four scans, three failing
  commands; `AsyncStatus`: four events; `EchoList`: five commands, limits 0 to 3.
- `RtosWork`: three works on the list, so that one is between two others;
  `RtosTimer`: two timers, six calls, or three that mix.

### Fairness

sdio_tx and sdio_rx are SCHED_FIFO threads and the work queue has its own: their
steps are weakly fair, and strongly where another context can disable the step
again and again (a claimed bus, a lock). Timers expire. A context that has begun
to wake, stop, count or finish a call does so. The device takes, reports and
answers in `TxCredit` and `TxQueue`; in `WsmCmd` commands are not
assumed to be answered, nor frames, events, scans, suspends, calls of programs
or pulled cards to happen anywhere. RCU grace periods end.

## What is proved

Each invariant and each action property of a passing run is a theorem, for every
value of the constants that the assumptions of its module allow; a module
of proofs is about one `MC` module, composition included: the parts step on their
own, so a behaviour of the whole is one of each part (`UserParts` and the like).
The assumptions on constants say that counts are numbers, that an absent
element (`"none"`, `"group"`, `"rtos"`, ...) is no element of a set, that sets
the driver keeps on lists (`Macs`, `Peers`, `Cpus`) are finite, that there is a length
to choose (`Lens # {}`), and the sizes named below.

- `WsmCmd_proofs`: `Typed`, and from one invariant the five properties of
  `WsmCmd_safe`. The command under way (`Away`) is that of the task in the call or one
  whose caller has left (`Held`), which gives `Own`. While there is no such
  orphan the command is at one place (`Placed`): not sent, in the slot, copied, in the
  batch, in the device, on its way back, in the handler, or completed; this gives
  `Accepted`, `Copies` and `NoBugFires`. Until a timer has expired with an answer under
  way, a slot that is not marked as taken has a waiting task (`Heard`), which gives
  `ConfirmsInside`.
- `TxCredit_proofs`, from `TxCreditAssumption` (the pool is smaller than half the
  range of the counters): `Typed`, `Credits`, `BugFree` and the refinement of
  `BufferPool`. The inductive invariant adds `Conserved`, the account of every
  credit between the counters, and `Reported` and `Ordered`: each value on its way
  is behind the next by a distance that together fits in the pool, so that the
  modular difference to `n_xmits` is the true one. `NothingForgotten`: `LastReport`
  says that the newest report is on its way or stored, and
  that only the store of line 281 (`undone`) or a missing interface takes it away.
- `MCThreads_proofs`: `BhTyped`; `EverySuspendParks`, for any number of suspends, from
  `Suspending`: while no suspend gave up and the thread told nobody in vain, no
  bit and no completion is left when the next suspend asks, so that the one it waits
  for is the thread's own. `TxStop` adds no step to the credits but the end of the
  thread; `ThreadsAreSafe` has both.
- `MCTransmit_proofs`: `Counted`, and `Stopped`: a pending wakeup could restart a
  queue that has filled up again, and `WakePending` bounds the count while one is
  due and sdio_tx has not outrun a sender. `KeepsAccount`, whichever allocation fails,
  from `Good` (a frame under way is referenced once, as the original or as the
  copy, and a freed one is held by nobody); `KeepsRoom` from `Fits` (the room left
  is enough for the pushes to come, unless the frame came `tight`);
  `KeepsProtected` and `KeepsKey` (one key for IV, room and ICV, and a QoS header as
  the peer wants) from `Chosen`: between `Lookup` and `Crypt` the frame's key is that
  of its peer's entry, unless the entry was made during the call (`raced`); an
  entry is cleared only after the read sections were left.
- `MCReceive_proofs`: `SplitIsWhole`: the loop stands where the frames it has handled
  end (`Place`), so the header it reads is one (`Layout`), for any lengths.
  `FramesEnd`, `KeepsStripped`: a frame is in one place until it is handed up,
  queued or freed, once, and its key is known and its cipher header gone where
  `RxFrames` says so. `FramesInOrder`, `LossIsBounded`: the expected number is behind the
  last frame handed on (`OrderInv`), and each dropped frame brings the device one
  nearer to it (`Ahead`). `SleepIsArmed`: a thread that sleeps with the interrupt off
  is about to be woken, while no access fails and CONFIG is not written back.
- `MCAmpdu_proofs`: the loops of the ring keep what a round keeps (`RoundsKeep`, by
  induction on the rounds). A ring whose frames are in their slots and of one window
  stays one whatever is released, and the list it fills is in order. Two numbers
  of a window have two slots (`OneSlot`) if the ring divides the range of the
  numbers (`Fits`), which the 4096 numbers of 802.11 and a power of two do; other
  sizes violate `NothingLost`. From it `NothingIsLost` and, on one processor, the
  refinement of `Delivery` step by step (`RingImplementsDelivery`); two processors
  violate it. `SessionsAreSafe`: who holds a session or the station is in its read
  section, the grace period waits for the section, and nobody fetches what was
  unpublished; on one processor and without timeouts nothing is left behind.
- `MCInterface_proofs`: `Agrees`, `TableSafe`: the batch of the handler and the queue are
  a chain of access points that leads from the one the handler knows to the
  one of the firmware (`Chain`). `StationsAreKnown`, `ReportedStay`: the table of an
  access point follows the list of the firmware one event behind (`Tells`).
  `UsersAreOver` and the rest of `Lifecycle`, `HeadOnce` included, from `LifeInv`.
  `PutBack`: CONFIG is clear outside an access, and what will be put back is
  clear inside (`Saved`).
- `MCUser_proofs`: `ReportTrue` (the count is that of the periods without an answer)
  and `QueueHolds`; `ScanWatched`, `ToldTrue`: there is one token, the timer or its
  callback, as long as something scans; `LinkKnown` and `NoScanInvented`: the last
  event of each kind is what was written last (`LastWritten`) or is on its way to the
  program (`LinkOnItsWay`, `ScanOnItsWay`); `NeverWarns`, `Buffers`: list, marks, count and
  buffers agree, and the list grows only within its limit (`GrowsWithinLimit`).
  `WorkSafe`: the links are those of a ring of the works that are due (`ListInv`), in
  which the worker stands at the first; linking and unlinking make a ring of a
  ring, by induction every work is on its way, and the semaphore or somebody on the
  way to `up` counts for it, until a work is queued that is due already.
  `TimerSafe`: while calls do not mix, an awaited timer is in one of four places
  (`OnePlace`): its virtual timer runs, is sought, is called, or its expiry is left
  in cur_timeout_id; that a deleted timer is gone holds also when they mix.

The theorems have no hypotheses beyond these assumptions and, for the ring, `Fits`
and the one processor named above. What the code does not keep is in the properties
themselves, as a variable that remembers that the exceptional step was
taken, or as the regime they are stated for: "What the code does not keep" lists
these, and without each TLC finds a violation.

For each property of a passing run `PROJECT.json` has a mutant, a definition
changed as a bug in the code would change it, under which TLC finds the property
violated. For a conjunction there is one mutant, of one of its parts.

## What is only model-checked

Liveness, on the instances above: temporal reasoning under fairness is out of
the prover's reach. That is `SendReturns` (`WsmCmd`), `ThreadServes`,
`TransmitEnds`, `QueuesRestart`, `ReceiveServes`, `AmpduEnds`, `InterfaceGoesOn`, `UserTold`, `QueuedRuns` and `ExpiresCalled`. Of the action
properties that a conjunction of these names, `KeepsTheReported` and `Limited`
are proved alone (`ReportedStay`, `GrowsWithinLimit`).

## Not modelled

The build is the default one: CONFIG_TX_NO_CONFIRM set,
CONFIG_SDIO_IRQ_THREAD_PROCESS_DATA, CONFIG_WAKELOCK and the SPI bus unset, a
chip that boots without a download.

- `firmware.h`, `dcxo_dpll*.c` and the like, a third of the lines: images, tables
  and a calibration sequence, without states that interact.
- `src/tools`, `src/atbm_kconf`: a user-space command line and a vendored parser.
- `tx.c` is not in the driver's list of objects; `util.c`, the rest of `rx.c` and the
  wrappers of `wsm.c` (one `wsm_*` function per command, which fill a buffer and call
  `wsm_cmd_send`): formats.
- `atbm_ioctl.c` and `module_fs.c` besides the parts above: one function per
  command that parses parameters and passes them on.
- `pm.c` (an empty timer in this build), `atbm_platform.c` (board I/O), the skb and
  memory wrappers, the SPI variant (`*_spi.c`).
- The RTOS port besides its work queue and timers: wrappers, socket buffers and
  a command line.
- In modelled components: the contents of commands and frames; `hw_bufs_used`,
  which only decides on an extra wakeup and a warning; `wsm_cmd_send`'s return on a
  terminated bus, which is dead code on SDIO; the `ndev` of an interface that is
  being removed; `conf_mutex` at release; the retries of the data port, whose
  meaning to the chip is nowhere in the repository.

The share of the repository's lines the models stand for is small for that reason:
they are about the lines where contexts meet.

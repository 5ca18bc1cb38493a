------------------------------- MODULE Lifecycle ---------------------------
(***************************************************************************)
(* Loading and unloading the module, and binding the driver to the card:    *)
(* apollo_sdio_module_init and _exit, atbm_sdio_probe and _disconnect       *)
(* (apollo_sdio.c), atbm_core_probe and atbm_core_release (main.c).         *)
(* Beside them run sdio_tx, sdio_rx and the event work.                     *)
(*                                                                          *)
(* The card may fail, be pulled out and be plugged in at any moment; each   *)
(* step of a probe that can fail, fails if it is in failing.                *)
(***************************************************************************)
EXTENDS Naturals, FiniteSets

CONSTANTS
  ProbeFails,  \* the sets to look at of steps of a probe that may fail
  AtBoot,      \* the card is there when the module is loaded
  MaxPlugs,    \* bound: cards plugged in
  MaxReloads   \* bound: firmware loaded again

ASSUME LifecycleAssumption ==
  /\ ProbeFails \subseteq SUBSET {"on", "alloc", "pm", "threads", "load", "netdev"}
  /\ AtBoot \in BOOLEAN /\ {MaxPlugs, MaxReloads} \subseteq Nat

VARIABLES
  failing,   \* the steps of a probe that may fail
  mod,       \* the task in module_init or module_exit
  power,     \* clk_ctrl and power_ctrl switched on
  driver,    \* sdio_driver is registered
  card,      \* "out", "new" (not probed yet) or "in"
  plugs,     \* cards plugged in so far
  bus,       \* the task in probe or disconnect
  hw,        \* the struct atbm_common: "none", "alive" or "freed"
  wq,        \* hw_priv->workqueue exists
  event,     \* hw_priv->event_handler is queued there
  threads,   \* the threads that exist, of sdio_tx and sdio_rx
  self,      \* tx_thread.self and rx_thread.self are set
  irq,       \* the interrupt is subscribed: irq_handler is set
  reading,   \* sdio_rx was woken and reads: THREAD_WAKEUP, atbm_sdio_rx_bh
  reloads,   \* times the firmware was loaded again
  vif,       \* hw_priv->vif_list[0] # NULL
  initCnt,   \* init_cnt of asynchronize_rcu
  pending,   \* callbacks queued with atbm_rcu.head
  done       \* atbm_rcu.completion

modVars == <<failing, mod, power, driver>>
cardVars == <<card, plugs>>
hwVars == <<hw, wq>>
userVars == <<event, threads, irq, reading>>
probeVars == <<self, reloads, vif>>
rcuVars == <<initCnt, pending, done>>
lifeVars == <<modVars, cardVars, bus, hwVars, userVars, probeVars, rcuVars>>

LifeInit ==
  /\ failing \in ProbeFails
  /\ mod = "unloaded" /\ power = FALSE /\ driver = FALSE
  /\ card = (IF AtBoot THEN "new" ELSE "out") /\ plugs = IF AtBoot THEN 1 ELSE 0
  /\ bus = "unbound" /\ hw = "none"
  /\ wq = FALSE /\ event = FALSE /\ threads = {} /\ self = FALSE
  /\ irq = FALSE /\ reading = FALSE /\ reloads = 0 /\ vif = FALSE
  /\ initCnt = 0 /\ pending = 0 /\ done = FALSE

MayFail(step) == step \in failing

-----------------------------------------------------------------------------
(* The module.                                                             *)

Module(from, to) == mod = from /\ mod' = to

PowerOn ==
  /\ Module("unloaded", "register") /\ power' = TRUE
  /\ UNCHANGED <<failing, driver, cardVars, bus, hwVars, userVars, probeVars, rcuVars>>

Register ==
  /\ Module("register", "attach") /\ driver' = TRUE
  /\ UNCHANGED <<failing, power, cardVars, bus, hwVars, userVars, probeVars, rcuVars>>

\* A card that is there is probed before atbm_sdio_register_driver returns.
Attached ==
  /\ card # "new" /\ bus \in {"unbound", "bound"}
  /\ Module("attach", "on")
  /\ UNCHANGED <<failing, power, driver, cardVars, bus, hwVars, userVars, probeVars, rcuVars>>

\* err_on: power_ctrl(pdata, false), clk_ctrl(pdata, false)
PowerAfterFailure(on) == FALSE

\* atbm_sdio_on, at the end of atbm_sdio_init
On ==
  /\ \/ Module("on", "loaded") /\ UNCHANGED power
     \/ MayFail("on") /\ Module("on", "undo") /\ power' = PowerAfterFailure(power)
  /\ UNCHANGED <<failing, driver, cardVars, bus, hwVars, userVars, probeVars, rcuVars>>

\* atbm_sdio_unregister_driver, from err_clk or from atbm_sdio_exit
BeginExit ==
  /\ Module("loaded", "unregister")
  /\ UNCHANGED <<failing, power, driver, cardVars, bus, hwVars, userVars, probeVars, rcuVars>>

Unregister(from, to) ==
  /\ Module(from, to) /\ bus = "unbound" /\ driver' = FALSE
  /\ UNCHANGED <<failing, power, cardVars, bus, hwVars, userVars, probeVars, rcuVars>>

PowerOff ==
  /\ Module("power_off", "wait_rcu") /\ power' = FALSE
  /\ UNCHANGED <<failing, driver, cardVars, bus, hwVars, userVars, probeVars, rcuVars>>

\* "wait rcu sync complete"
WaitRcu ==
  /\ Module("wait_rcu", "gone") /\ done /\ done' = FALSE
  /\ UNCHANGED <<failing, power, driver, cardVars, bus, hwVars, userVars, probeVars, initCnt, pending>>

ModuleStep ==
  \/ Register \/ Attached \/ On \/ PowerOff \/ WaitRcu
  \/ Unregister("undo", "failed") \/ Unregister("unregister", "power_off")

-----------------------------------------------------------------------------
(* The card.                                                               *)

Plug ==
  /\ card = "out" /\ plugs < MaxPlugs
  /\ card' = "new" /\ plugs' = plugs + 1
  /\ UNCHANGED <<modVars, bus, hwVars, userVars, probeVars, rcuVars>>

Pull ==
  /\ card # "out" /\ card' = "out"
  /\ UNCHANGED <<modVars, plugs, bus, hwVars, userVars, probeVars, rcuVars>>

-----------------------------------------------------------------------------
(* atbm_sdio_probe, atbm_core_probe                                         *)

Bus(from, to) == bus = from /\ bus' = to

\* atbm_init_common; without memory nothing is left to undo.
Probe ==
  /\ driver /\ mod \notin {"undo", "unregister"}
  /\ card = "new" /\ card' = "in"
  /\ \/ /\ Bus("unbound", "pm")
        /\ hw' = "alive" /\ wq' = TRUE
     \/ MayFail("alloc") /\ Bus("unbound", "unbind") /\ UNCHANGED hwVars
  /\ self' = FALSE /\ UNCHANGED <<reloads, vif>>
  /\ UNCHANGED <<modVars, plugs, userVars, rcuVars>>

\* atbm_pm_init
ProbePm ==
  /\ \/ Bus("pm", "threads")
     \/ MayFail("pm") /\ Bus("pm", "err_tx")
  /\ UNCHANGED <<modVars, cardVars, hwVars, userVars, probeVars, rcuVars>>

\* thread->self = self, before the thread is created
SelfAfter(created) == TRUE

\* sbus_xmit_func_init, sbus_rev_func_init: both are called, each may fail.
ProbeThreads ==
  /\ \/ Bus("threads", "load") /\ threads' = {"sdio_tx", "sdio_rx"}
     \/ /\ MayFail("threads") /\ Bus("threads", "err_tx")
        /\ threads' \in SUBSET {"sdio_tx", "sdio_rx"}
  /\ self' = SelfAfter(threads')
  /\ UNCHANGED <<modVars, cardVars, hwVars, event, irq, reading, reloads, vif, rcuVars>>

\* atbm_load_firmware; the failure of irq_subscribe is only logged.
ProbeLoad ==
  /\ \/ Bus("load", "ready") /\ irq' = TRUE
     \/ MayFail("load") /\ Bus("load", "err_tx") /\ UNCHANGED irq
  /\ UNCHANGED <<modVars, cardVars, hwVars, event, threads, reading, probeVars, rcuVars>>

\* The firmware reports that it is ready, or the chip is reset and loaded again.
ProbeReady ==
  /\ \/ Bus("ready", "netdev") /\ UNCHANGED <<irq, reloads>>
     \/ /\ Bus("ready", "load") /\ irq' = FALSE
        /\ reloads < MaxReloads /\ reloads' = reloads + 1
  /\ UNCHANGED <<modVars, cardVars, hwVars, event, threads, reading, self, vif, rcuVars>>

\* atbm_netdev_add; its failure is the result of the probe, with no clean up.
ProbeNetdev ==
  /\ \/ Bus("netdev", "bound") /\ vif' = TRUE
     \/ MayFail("netdev") /\ Bus("netdev", "unbind") /\ UNCHANGED vif
  /\ UNCHANGED <<modVars, cardVars, hwVars, userVars, self, reloads, rcuVars>>

\* The struct sbus_priv is freed, by atbm_sdio_probe or atbm_sdio_disconnect.
Unbound ==
  /\ Bus("unbind", "unbound")
  /\ UNCHANGED <<modVars, cardVars, hwVars, userVars, probeVars, rcuVars>>

ProbeStep ==
  ProbePm \/ ProbeThreads \/ ProbeLoad \/ ProbeReady \/ ProbeNetdev \/ Unbound

-----------------------------------------------------------------------------
(* Stopping the threads, on the error path and in the release.             *)

\* Mutant of Counts: the callback is queued from the third call on.
CountsLate(n) == n > 1

\* "if (init_cnt)"
Counts(n) == n > 0

\* asynchronize_rcu
AsynchronizeRcu ==
  /\ initCnt' = initCnt + 1
  /\ IF Counts(initCnt) THEN pending' = pending + 1 /\ done' = FALSE
                        ELSE UNCHANGED <<pending, done>>

\* wakeme_after_rcu
GracePeriod ==
  /\ pending > 0 /\ pending' = 0 /\ done' = TRUE
  /\ UNCHANGED <<modVars, cardVars, bus, hwVars, userVars, probeVars, initCnt>>

\* atbm_sdio_thread_deinit: kthread_stop waits for the thread, which ends when it
\* has read what it began with.
StopThread(t, from, to) ==
  /\ Bus(from, to) /\ self
  /\ IF t \in threads THEN AsynchronizeRcu ELSE UNCHANGED rcuVars
  /\ threads' = threads \ {t} /\ reading' = (reading /\ t # "sdio_rx")
  /\ UNCHANGED <<modVars, cardVars, hwVars, event, irq, probeVars>>

-----------------------------------------------------------------------------
(* The error path of atbm_core_probe, and atbm_sdio_disconnect.            *)

LifeFree(from, to) ==
  /\ Bus(from, to) /\ hw' = "freed"
  /\ UNCHANGED <<modVars, cardVars, wq, userVars, probeVars, rcuVars>>

\* The card was pulled out, or the driver is being unregistered.
Remove ==
  /\ card = "out" \/ mod \in {"undo", "unregister"}
  /\ Bus("bound", "irq_off") /\ vif' = FALSE
  /\ UNCHANGED <<modVars, cardVars, hwVars, userVars, self, reloads, rcuVars>>

\* irq_unsubscribe does not wait for sdio_rx.
IrqOff ==
  /\ Bus("irq_off", "stop_tx") /\ irq' = FALSE
  /\ UNCHANGED <<modVars, cardVars, hwVars, event, threads, reading, probeVars, rcuVars>>

\* flush_workqueue, destroy_workqueue
DestroyWorkqueue ==
  /\ ~event /\ Bus("destroy", "forget")
  /\ UNCHANGED <<modVars, cardVars, hwVars, userVars, probeVars, rcuVars>>

\* hw_priv->workqueue = NULL
ForgetWorkqueue ==
  /\ Bus("forget", "free") /\ wq' = FALSE
  /\ UNCHANGED <<modVars, cardVars, hw, userVars, probeVars, rcuVars>>

\* Mutant of ReleaseStep: sdio_rx is stopped after the work queue is destroyed.
ReleaseFlushesFirst ==
  \/ StopThread("sdio_tx", "err_tx", "err_rx") \/ StopThread("sdio_rx", "err_rx", "err_free")
  \/ LifeFree("err_free", "unbind")
  \/ IrqOff
  \/ StopThread("sdio_tx", "stop_tx", "destroy") \/ DestroyWorkqueue \/ ForgetWorkqueue
  \/ StopThread("sdio_rx", "free", "stop_rx") \/ LifeFree("stop_rx", "unbind")

ReleaseStep ==
  \/ StopThread("sdio_tx", "err_tx", "err_rx") \/ StopThread("sdio_rx", "err_rx", "err_free")
  \/ LifeFree("err_free", "unbind")
  \/ IrqOff
  \/ StopThread("sdio_tx", "stop_tx", "stop_rx") \/ StopThread("sdio_rx", "stop_rx", "destroy")
  \/ DestroyWorkqueue \/ ForgetWorkqueue \/ LifeFree("free", "unbind")

-----------------------------------------------------------------------------
(* The users of the structure.                                             *)

\* atbm_irq_handler, called by the interrupt or by sdio_rx when it polls the
\* control register, wakes sdio_rx.
WakeRx ==
  /\ irq /\ "sdio_rx" \in threads /\ ~reading /\ reading' = TRUE
  /\ UNCHANGED <<modVars, cardVars, bus, hwVars, event, threads, irq, probeVars, rcuVars>>

\* atbm_sdio_rx_bh gets an event: atbm_hw_priv_queue_work, unless workqueue is NULL.
Indication ==
  /\ reading /\ wq /\ event' = TRUE
  /\ UNCHANGED <<modVars, cardVars, bus, hwVars, threads, irq, reading, probeVars, rcuVars>>

\* atbm_sdio_rx_bh has nothing more to read.
RxSleeps ==
  /\ reading /\ reading' = FALSE
  /\ UNCHANGED <<modVars, cardVars, bus, hwVars, event, threads, irq, probeVars, rcuVars>>

EventWork ==
  /\ event /\ event' = FALSE
  /\ UNCHANGED <<modVars, cardVars, bus, hwVars, threads, irq, reading, probeVars, rcuVars>>

-----------------------------------------------------------------------------

BusStep == Probe \/ ProbeStep \/ Remove \/ ReleaseStep

LifeNext ==
  \/ PowerOn \/ BeginExit \/ ModuleStep \/ Plug \/ Pull \/ BusStep
  \/ GracePeriod \/ WakeRx \/ Indication \/ RxSleeps \/ EventWork

LifeSpec == LifeInit /\ [][LifeNext]_lifeVars

-----------------------------------------------------------------------------
(* Properties.                                                             *)

\* Every variable stays in its range, and a thread that is to be stopped knows
\* its struct sbus_priv, unless the probe failed before the threads were made.
LifeTypeOK ==
  /\ "pm" \notin failing /\ bus \in {"stop_tx", "stop_rx", "err_tx", "err_rx"} => self
  /\ failing \in ProbeFails /\ threads \subseteq {"sdio_tx", "sdio_rx"}
  /\ card \in {"out", "new", "in"} /\ hw \in {"none", "alive", "freed"}
  /\ {power, driver, wq, event, self, irq, reading, vif, done} \subseteq BOOLEAN
  /\ plugs \in 0 .. MaxPlugs + 1 /\ reloads \in 0 .. MaxReloads
  /\ {initCnt, pending} \subseteq Nat

\* Whoever works with struct atbm_common or struct sbus_priv has come to an
\* end when it is freed: the threads, the interrupt and the event work, although
\* sdio_rx reads on after the interrupt is off until it is stopped.  It
\* needs an atbm_netdev_add that succeeds, for its failure is not cleaned up,
\* and a firmware that is ready at once: the error path flushes no work, and
\* the firmware loaded before the last may have sent an event.
UsersEnd ==
  (hw = "freed" \/ bus = "unbound") /\ "netdev" \notin failing /\ reloads = 0 =>
    threads = {} /\ ~irq /\ ~reading /\ ~event

\* The static atbm_rcu.head is queued again only after its callback ran
\* (call_rcu in asynchronize_rcu), as long as one card is all there ever is.
HeadOnce == plugs <= 1 => pending <= 1

\* An atbm_sdio_init that fails leaves nothing behind.
InitUndone ==
  mod = "failed" /\ "netdev" \notin failing =>
    ~power /\ ~driver /\ bus = "unbound" /\ threads = {} /\ ~irq

\* With both threads started in some probe, the module exit returns: the wait
\* for atbm_rcu.completion ends, whatever failed and was pulled out on the way.
\* A probe that fails before it made the threads, or after it started them,
\* leaves them to nobody, or stops them through a pointer that is not set.
StartedExitReturns ==
  (mod = "unregister" /\ initCnt + Cardinality(threads) >= 2
     /\ failing \cap {"pm", "netdev"} = {}) ~> (mod = "gone")
=============================================================================

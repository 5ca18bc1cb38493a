------------------------------- MODULE WsmCmd -------------------------------
(***************************************************************************)
(* The WSM command channel of the driver (wsm.c, bh_sdio.c, apollo_sdio.c): *)
(* one command slot struct wsm_cmd shared by                                *)
(*   - the tasks that call a wsm_* function and sleep in wsm_cmd_send,      *)
(*   - the sdio_tx thread, which copies the command out of the one shared   *)
(*     buffer wsm_cmd_buf and writes it to the device,                      *)
(*   - the sdio_rx thread, which runs wsm_handle_rx on every confirmation,  *)
(*   - the device, which is external: it answers what reaches it.           *)
(*                                                                          *)
(* The n-th command that is sent has serial number n.  A response is        *)
(* represented by the serial of the command it answers, a pointer to the    *)
(* caller's stack (wsm_cmd.arg) by the serial of that caller's command, and *)
(* the contents of the shared buffer by the serial of the command whose     *)
(* bytes they are.                                                          *)
(***************************************************************************)
EXTENDS Integers, Sequences

CONSTANTS
  Tasks,       \* tasks that issue commands
  Ids,         \* command identifiers (cmd & ~link id)
  Exempt,      \* identifiers atbm_sdio_force_free_wsm does not complete
  FFFF,        \* 0xFFFF, the value of wsm_cmd.cmd when a confirm was taken
  Nobody,      \* the holder of wsm_cmd_mux when it is free
  MaxSends,    \* bound: commands sent in one behaviour
  MaxRepeats,  \* bound: responses the device sends twice
  MaxLate      \* bound: timers that expire while an answer is under way

ASSUME WsmCmdAssumption ==
  /\ Exempt \subseteq Ids
  /\ FFFF \notin Ids
  /\ Nobody \notin Tasks
  /\ MaxSends \in Nat /\ MaxRepeats \in Nat /\ MaxLate \in Nat

NULL == 0          \* wsm_cmd.arg = NULL, a wsm_cmd_buf that was reset
EIO == -1          \* wsm_cmd.ret after a forced completion
ETIMEDOUT == -2    \* wsm_cmd_send gave up

VARIABLES
  pc,       \* [Tasks -> where the task is in its wsm_* call]
  my,       \* [Tasks -> serial of the task's current or last command]
  result,   \* [Tasks -> what its last wsm_cmd_send returned]
  mux,      \* holder of wsm_cmd_mux
  issued,   \* identifiers of the commands, by serial
  buf,      \* contents of wsm_cmd_buf
  ptr, arg, cmd, len, done, ret,   \* struct wsm_cmd; len: by the serial
  txpc,     \* where sdio_tx is in atbm_sdio_tx_bh
  data,     \* serial of the command whose length wsm_get_tx handed out
  batch,    \* commands linearized into xmit_buff
  need,     \* need_confirm # NULL
  tried,    \* the device has the batch, although no write of it succeeded yet
  fw,       \* commands the device has received and not answered
  cnf,      \* responses on their way to the host
  rxpc, rxarg, rxser,         \* wsm_handle_rx: wsm_arg and the response
  repeats,  \* responses sent twice so far
  ignored,  \* serials whose confirm was rejected as not matching
  bug,      \* the BUG_ON that fired, "" if none did: the machine has stopped
  expired,  \* history: timers that expired while an answer was under way
  orphans   \* history: commands whose task left with their answer under way

sendVars == <<pc, my, result, mux, issued>>
slotVars == <<ptr, arg, cmd, len, done, ret>>
txVars == <<txpc, data, batch, need, tried>>
rxVars == <<rxpc, rxarg, rxser, ignored>>
devVars == <<fw, cnf, repeats>>
history == <<expired, orphans>>
vars == <<sendVars, buf, slotVars, txVars, rxVars, devVars, bug, history>>

Init ==
  /\ pc = [t \in Tasks |-> "idle"]
  /\ my = [t \in Tasks |-> 0]
  /\ result = [t \in Tasks |-> 0]
  /\ mux = Nobody
  /\ issued = <<>>
  /\ buf = NULL
  /\ ptr = FALSE /\ arg = NULL /\ len = 0 /\ done = FALSE /\ ret = 0
  /\ cmd \in Ids              \* the structure is zeroed, and 0 is a command
  /\ txpc = "idle" /\ data = 0 /\ batch = <<>> /\ need = FALSE
  /\ tried = FALSE
  /\ fw = <<>> /\ cnf = <<>> /\ repeats = 0
  /\ rxpc = "idle" /\ rxarg = NULL /\ rxser = 0 /\ ignored = {}
  /\ bug = "" /\ expired = 0 /\ orphans = {}

Running == bug = ""

Elements(s) == {s[i] : i \in DOMAIN s}

\* The commands that wait for their write, are with the device, or whose
\* answer is on its way: what sdio_rx may still see.
Away ==
  IF txpc = "exited" THEN {}
  ELSE Elements(fw) \cup Elements(cnf) \cup (IF tried THEN {} ELSE Elements(batch))

\* sdio_tx is between the test of wsm_get_tx and wsm_txed, a few instructions.
TxHandling == txpc \in {"peeked", "got", "copied"}

-----------------------------------------------------------------------------
(* The task: a wsm_* function and wsm_cmd_send.                            *)

\* Mutant of MutexFree: the request is put together without wsm_cmd_lock.
NoMutex == TRUE

MutexFree == mux = Nobody

\* wsm_cmd_lock, the WSM_PUTs of the request and its header.  The interfaces
\* are removed before sdio_tx is stopped, so no call starts after that.
Lock(t) ==
  /\ Running /\ pc[t] = "idle" /\ MutexFree /\ txpc # "exited"
  /\ Len(issued) < MaxSends
  /\ \E id \in Ids : issued' = Append(issued, id)
  /\ mux' = t
  /\ pc' = [pc EXCEPT ![t] = "filled"]
  /\ my' = [my EXCEPT ![t] = Len(issued) + 1]
  /\ buf' = Len(issued) + 1
  /\ UNCHANGED <<result, slotVars, txVars, rxVars, devVars, bug, history>>

\* Mutant of FillSlot: done keeps the value the previous command left.
FillSlotKeepsDone(t) ==
  /\ ptr' = TRUE /\ arg' \in {NULL, my[t]} /\ cmd' = issued[my[t]] /\ len' = my[t]
  /\ UNCHANGED <<done, ret>>

\* Mutant of FillSlot: cmd keeps the value the previous command left.
FillSlotKeepsCmd(t) ==
  /\ ptr' = TRUE /\ arg' \in {NULL, my[t]} /\ done' = FALSE /\ len' = my[t]
  /\ UNCHANGED <<cmd, ret>>

FillSlot(t) ==
  /\ ptr' = TRUE
  /\ arg' \in {NULL, my[t]}
  /\ cmd' = issued[my[t]]
  /\ len' = my[t]
  /\ done' = FALSE
  /\ UNCHANGED ret

\* The critical section that publishes the command, and the wakeup of sdio_tx.
Publish(t) ==
  /\ Running /\ pc[t] = "filled"
  /\ IF ptr
     THEN /\ bug' = "slot busy"
          /\ UNCHANGED <<pc, slotVars>>
     ELSE /\ FillSlot(t)
          /\ pc' = [pc EXCEPT ![t] = "wait"]
          /\ UNCHANGED bug
  /\ UNCHANGED <<my, result, mux, issued, buf, txVars, rxVars, devVars, history>>

\* Mutant of CmdDone: a confirmation that was taken counts as handled.
DoneWhenTaken == done \/ cmd = FFFF

\* The condition of wait_event_timeout, read without the lock.
CmdDone == done

\* wait_event_timeout saw done.
Completed(t) ==
  /\ Running /\ pc[t] = "wait" /\ CmdDone
  /\ result' = [result EXCEPT ![t] = ret]
  /\ pc' = [pc EXCEPT ![t] = "out"]
  /\ orphans' = orphans \cup (IF ptr \/ TxHandling \/ my[t] \in Away \cup {rxser}
                             THEN {my[t]} ELSE {})
  /\ UNCHANGED <<my, mux, issued, buf, slotVars, txVars, rxVars, devVars, bug, expired>>

\* An answer is under way, or sdio_tx has the slot in its hands.
Late == TxHandling \/ Away # {} \/ (rxpc = "confirm" /\ cmd # FFFF)

\* Mutant of ClearedPtr: the timeout leaves the command in the slot.
ClearedPtrKept == ptr

ClearedPtr == FALSE

\* Mutant of TimedOut: wait_event in the place of wait_event_timeout.
WaitsForever(t) == FALSE

\* All the slices of the wait ran out.  The slot's cmd and done stay as they
\* are; raceCheck sends the task to the last-chance wait.
TimedOut(t) ==
  /\ Running /\ pc[t] = "wait" /\ ~CmdDone
  /\ arg' = NULL
  /\ ptr' = ClearedPtr
  /\ result' = [result EXCEPT ![t] = ETIMEDOUT]
  /\ pc' = [pc EXCEPT ![t] = IF cmd = FFFF THEN "lastchance" ELSE "out"]
  /\ IF Late THEN expired < MaxLate /\ expired' = expired + 1 ELSE UNCHANGED expired
  /\ orphans' = orphans \cup (IF TxHandling \/ my[t] \in Away \/ (rxser = my[t] /\ cmd # FFFF)
                             THEN {my[t]} ELSE {})
  /\ UNCHANGED <<my, mux, issued, buf, cmd, len, done, ret, txVars, rxVars,
                 devVars, bug>>

LastChance(t) ==
  /\ Running /\ pc[t] = "lastchance" /\ done
  /\ pc' = [pc EXCEPT ![t] = "out"]
  /\ UNCHANGED <<my, result, mux, issued, buf, slotVars, txVars, rxVars, devVars,
                 bug, history>>

\* Ten seconds more without done.  A handler that was entered has finished by
\* then, so the wait fails only when no handler is running.
LastChanceExpired(t) ==
  /\ Running /\ pc[t] = "lastchance" /\ ~done /\ rxpc = "idle"
  /\ bug' = "confirm lost"
  /\ UNCHANGED <<sendVars, buf, slotVars, txVars, rxVars, devVars, history>>

\* wsm_buf_reset, the return of wsm_cmd_send and wsm_cmd_unlock.
Return(t) ==
  /\ Running /\ pc[t] = "out"
  /\ buf' = NULL
  /\ mux' = Nobody
  /\ pc' = [pc EXCEPT ![t] = "idle"]
  /\ UNCHANGED <<my, result, issued, slotVars, txVars, rxVars, devVars, bug,
                 history>>

-----------------------------------------------------------------------------
(* The sdio_tx thread: the command part of atbm_sdio_tx_bh.                *)

\* wsm_get_tx tests wsm_cmd.ptr without the lock ...
TxPeek ==
  /\ Running /\ txpc = "idle" /\ ptr
  /\ txpc' = "peeked"
  /\ UNCHANGED <<sendVars, buf, slotVars, data, batch, need, tried, rxVars,
                 devVars, bug, history>>

\* ... and reads it again under the lock.
TxGet ==
  /\ Running /\ txpc = "peeked"
  /\ IF ptr
     THEN /\ txpc' = "got" /\ data' = len
          /\ UNCHANGED bug
     ELSE /\ bug' = "no command"
          /\ UNCHANGED <<txpc, data>>
  /\ UNCHANGED <<sendVars, buf, slotVars, batch, need, tried, rxVars, devVars,
                 history>>

\* The header must still hold the length wsm_get_tx returned; then
\* atbm_xmit_linearize copies whatever the shared buffer holds.
TxCopy ==
  /\ Running /\ txpc = "got"
  /\ \/ /\ buf # NULL
        /\ txpc' = "copied" /\ batch' = Append(batch, buf)
        /\ UNCHANGED bug
     \/ /\ buf # data
        /\ bug' = "header length"
        /\ UNCHANGED <<txpc, batch>>
  /\ UNCHANGED <<sendVars, buf, slotVars, data, need, tried, rxVars, devVars,
                 history>>

\* wsm_txed compares addresses; a command ends the batch, anything else is
\* accounted as a data frame and the batch goes on.
TxTxed ==
  /\ Running /\ txpc = "copied"
  /\ IF ptr
     THEN ptr' = FALSE /\ need' = TRUE /\ txpc' = "write"
     ELSE need' = FALSE /\ txpc' = "idle" /\ UNCHANGED ptr
  /\ UNCHANGED <<sendVars, buf, arg, cmd, len, done, ret, data, batch, tried,
                 rxVars, devVars, bug, history>>

AtWrite == txpc = "write" \/ (txpc = "idle" /\ batch # <<>>)

\* Of a batch that is tried again the device takes one: its number is part of
\* the address of the write.
TxWrite ==
  /\ Running /\ AtWrite
  /\ fw' = IF tried THEN fw ELSE fw \o batch
  /\ batch' = <<>> /\ need' = FALSE /\ tried' = FALSE /\ txpc' = "idle"
  /\ UNCHANGED <<sendVars, buf, slotVars, data, rxVars, cnf, repeats, bug, history>>

\* A try of atbm_data_write that fails, after the batch has reached the device.
TxTry ==
  /\ Running /\ AtWrite /\ ~tried
  /\ fw' = fw \o batch
  /\ tried' = TRUE /\ txpc' = "write"
  /\ UNCHANGED <<sendVars, buf, slotVars, data, batch, need, rxVars, cnf, repeats,
                 bug, history>>

\* The branch of atbm_sdio_force_free_wsm (and all of
\* atbm_sdio_release_err_cmd) that completes the command in the slot.
ForceComplete ==
  IF cmd # FFFF
  THEN /\ ret' = EIO /\ done' = TRUE /\ cmd' = FFFF
       /\ ptr' = FALSE /\ arg' = NULL /\ UNCHANGED len
  ELSE UNCHANGED slotVars

\* atbm_data_write failed after its retries; one of them may have reached the
\* device (TxTry).
TxWriteError ==
  /\ Running /\ AtWrite
  /\ IF need /\ (buf # NULL => issued[buf] \notin Exempt)
     THEN ForceComplete ELSE UNCHANGED slotVars
  /\ batch' = <<>> /\ need' = FALSE /\ tried' = FALSE /\ txpc' = "idle"
  /\ UNCHANGED <<sendVars, buf, data, rxVars, devVars, bug, history>>

\* The thread is stopped (removal of the driver): atbm_sdio_release_err_cmd.
TxExit ==
  /\ Running /\ txpc = "idle" /\ batch = <<>>
  /\ txpc' = "exited"
  /\ ForceComplete
  /\ UNCHANGED <<sendVars, buf, data, batch, need, tried, rxVars, devVars, bug,
                 history>>

-----------------------------------------------------------------------------
(* The device (external): answers in order, possibly twice.                *)

DevAnswer ==
  /\ Running /\ fw # <<>>
  /\ cnf' = Append(cnf, Head(fw))
  /\ fw' = Tail(fw)
  /\ UNCHANGED <<sendVars, buf, slotVars, txVars, rxVars, repeats, bug, history>>

DevAnswerTwice ==
  /\ Running /\ fw # <<>> /\ repeats < MaxRepeats
  /\ cnf' = cnf \o <<Head(fw), Head(fw)>>
  /\ fw' = Tail(fw)
  /\ repeats' = repeats + 1
  /\ UNCHANGED <<sendVars, buf, slotVars, txVars, rxVars, bug, history>>

-----------------------------------------------------------------------------
(* The sdio_rx thread: the confirm branch of wsm_handle_rx.                *)

TakenMark == FFFF

\* The first critical section takes arg and cmd and marks the slot as taken;
\* a response that does not match is rejected.  init_done is cleared before
\* sdio_tx is stopped: from then on atbm_irq_handler drops what arrives.
RxTake ==
  /\ Running /\ rxpc = "idle" /\ cnf # <<>> /\ txpc # "exited"
  /\ cnf' = Tail(cnf)
  /\ cmd' = TakenMark
  /\ IF issued[Head(cnf)] = cmd
     THEN /\ rxpc' = "confirm" /\ rxarg' = arg /\ rxser' = Head(cnf)
          /\ UNCHANGED ignored
     ELSE /\ ignored' = ignored \cup {Head(cnf)}
          /\ UNCHANGED <<rxpc, rxarg, rxser>>
  /\ UNCHANGED <<sendVars, buf, ptr, arg, len, done, ret, txVars, fw, repeats,
                 bug, history>>

\* wsm_*_confirm has stored the answer through wsm_arg: the second critical
\* section reports the result.
RxDone ==
  /\ Running /\ rxpc = "confirm"
  /\ ret' = rxser
  /\ done' = TRUE
  /\ rxpc' = "idle" /\ rxarg' = NULL /\ rxser' = 0
  /\ UNCHANGED <<sendVars, buf, ptr, arg, cmd, len, txVars, ignored, devVars, bug,
                 history>>

-----------------------------------------------------------------------------
TaskStep(t) ==
  \/ Lock(t) \/ Publish(t) \/ Completed(t) \/ TimedOut(t)
  \/ LastChance(t) \/ LastChanceExpired(t) \/ Return(t)

TxStep == TxPeek \/ TxGet \/ TxCopy \/ TxTxed \/ TxTry \/ TxWrite \/ TxWriteError
RxStep == RxTake \/ RxDone
DevStep == DevAnswer \/ DevAnswerTwice

\* No task is in a call and every bound is used up, or the machine has stopped.
Finished ==
  /\ ~Running \/ \A t \in Tasks : pc[t] = "idle"
  /\ UNCHANGED vars

Next ==
  \/ \E t \in Tasks : TaskStep(t)
  \/ TxStep \/ TxExit \/ RxStep \/ DevStep
  \/ Finished

\* The waits of a task end by the clock, and the threads are scheduled.  The
\* device is not assumed to answer.
Fairness ==
  /\ \A t \in Tasks :
       /\ WF_vars(Publish(t)) /\ WF_vars(Completed(t) \/ TimedOut(t))
       /\ WF_vars(LastChance(t) \/ LastChanceExpired(t)) /\ WF_vars(Return(t))
  /\ WF_vars(TxStep) /\ WF_vars(RxStep)

Spec == Init /\ [][Next]_vars
FairSpec == Spec /\ Fairness

-----------------------------------------------------------------------------
(* Properties.                                                             *)

TypeOK ==
  /\ pc \in [Tasks -> {"idle", "filled", "wait", "lastchance", "out"}]
  /\ my \in [Tasks -> Nat] /\ result \in [Tasks -> Int]
  /\ mux \in Tasks \cup {Nobody}
  /\ issued \in Seq(Ids)
  /\ buf \in Nat /\ ptr \in BOOLEAN /\ arg \in Nat /\ cmd \in Ids \cup {FFFF}
  /\ len \in Nat /\ done \in BOOLEAN /\ ret \in Int
  /\ txpc \in {"idle", "peeked", "got", "copied", "write", "exited"}
  /\ data \in Nat /\ batch \in Seq(Nat) /\ need \in BOOLEAN /\ tried \in BOOLEAN
  /\ fw \in Seq(Nat) /\ cnf \in Seq(Nat) /\ repeats \in 0..MaxRepeats
  /\ rxpc \in {"idle", "confirm"} /\ rxarg \in Nat /\ rxser \in Nat
  /\ ignored \subseteq Nat /\ expired \in 0..MaxLate /\ orphans \subseteq Nat
  /\ bug \in {"", "slot busy", "confirm lost", "no command", "header length"}

\* While a wsm_*_confirm handler runs with a pointer to a caller's stack, that
\* caller is still inside wsm_cmd_send: "make sure _confirm is not called after
\* exit of _send" (wsm.c).
ConfirmInsideSend ==
  rxpc = "confirm" /\ rxarg # NULL =>
    \E t \in Tasks : my[t] = rxarg /\ pc[t] \in {"wait", "lastchance"}

\* It is so unless a timer of wsm_cmd_send expired while an answer was under way,
\* whatever writes fail, arrive all the same or are answered twice (wsm_cmd_send,
\* wsm_handle_rx).
HandlerInsideSend == expired = 0 => ConfirmInsideSend

\* A wsm_cmd_send that reports a confirmation reports the one of its own command,
\* or of an earlier one whose task left, by its timer or because sdio_tx
\* completed it by force, while the answer was still under way: no other way
\* leads to somebody else's answer, as wsm_handle_rx matches by identifier.
OwnResponse ==
  \A t \in Tasks : pc[t] \in {"out", "idle"} /\ result[t] > 0 =>
                      result[t] = my[t] \/ result[t] \in orphans

\* While no task has left an answer behind, wsm_handle_rx never rejects the
\* response of the command a task is waiting for: the slot still describes that
\* command when its response arrives, "Protection against repeated response"
\* (wsm.c).
ConfirmAccepted ==
  orphans = {} =>
    \A t \in Tasks : pc[t] \in {"wait", "lastchance"} /\ ~done => my[t] \notin ignored

\* While no task has left an answer behind, what sdio_tx copies out of the shared
\* buffer is the command in the slot, whole: no task rewrites wsm_cmd_buf between
\* wsm_get_tx and wsm_txed, nor leaves before its command is with the device.
CopiesTheCommand ==
  orphans = {} =>
    /\ txpc \in {"got", "copied"} => ptr /\ buf = data
    /\ ~tried => \A i \in DOMAIN batch : \E t \in Tasks : my[t] = batch[i] /\ pc[t] # "idle"

\* A BUG_ON of the channel fires only after a task has left its answer behind:
\* neither forced completions and repeated answers nor the race of the timer with
\* the handler is enough (wsm_cmd_send, wsm_get_tx, atbm_sdio_tx_bh).
NoBug == bug # "" => orphans # {}

\* BUG_ON(hw_priv->wsm_cmd.ptr): the slot is free when a command is published.
SlotFree == bug # "slot busy"

\* Every call that got the command mutex returns, whatever the device does, or
\* the machine stops on a BUG_ON.
SendReturns ==
  \A t \in Tasks : pc[t] = "filled" ~> (pc[t] = "idle" \/ ~Running)
=============================================================================

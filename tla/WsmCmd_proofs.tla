---------------------------- MODULE WsmCmd_proofs ---------------------------
(***************************************************************************)
(* Proofs about WsmCmd, for every set of tasks and identifiers and every    *)
(* bound, whatever timer expires, write fails or answer is repeated.        *)
(*                                                                          *)
(* What is under way (Away) is the command of the task that is in the call, *)
(* or an orphan, whose task has left (Held): from that follows whose answer *)
(* a call can report.  As long as there is no orphan, the command is where  *)
(* the slot says it is (Placed), and none of the ways the channel can go    *)
(* wrong is open.  As long as no timer expired while an answer was under    *)
(* way, a slot that is not marked as taken has a task that waits (Heard).   *)
(***************************************************************************)
EXTENDS WsmCmd, SequenceTheorems, TLAPS

-----------------------------------------------------------------------------
(* Types, whatever times out and is repeated.                              *)

\* The serial of a task that is in a call is one that was issued.
Issued == \A t \in Tasks : pc[t] # "idle" => my[t] \in 1..Len(issued)

IInv == TypeOK /\ Issued

SendTypes ==
  /\ pc \in [Tasks -> {"idle", "filled", "wait", "lastchance", "out"}]
  /\ my \in [Tasks -> Nat] /\ result \in [Tasks -> Int]
  /\ mux \in Tasks \cup {Nobody}
  /\ issued \in Seq(Ids)
  /\ buf \in Nat

SlotTypes ==
  arg \in Nat /\ cmd \in Ids \cup {FFFF} /\ len \in Nat /\ ret \in Int

Flags == ptr \in BOOLEAN /\ done \in BOOLEAN /\ need \in BOOLEAN /\ tried \in BOOLEAN

ThreadTypes ==
  /\ txpc \in {"idle", "peeked", "got", "copied", "write", "exited"}
  /\ data \in Nat /\ batch \in Seq(Nat)
  /\ fw \in Seq(Nat) /\ cnf \in Seq(Nat) /\ repeats \in 0..MaxRepeats
  /\ rxpc \in {"idle", "confirm"} /\ rxarg \in Nat /\ rxser \in Nat
  /\ ignored \subseteq Nat
  /\ bug \in {"", "slot busy", "confirm lost", "no command", "header length"}

Histories == expired \in 0..MaxLate /\ orphans \subseteq Nat

LEMMA TypesSplit == TypeOK <=> SendTypes /\ SlotTypes /\ ThreadTypes /\ Flags /\ Histories
  BY DEF TypeOK, SendTypes, SlotTypes, ThreadTypes, Flags, Histories

LEMMA PairIsSeq == ASSUME NEW s \in Nat PROVE <<s, s>> \in Seq(Nat)
  OBVIOUS

\* The calls of the tasks and the serials of their commands.
LEMMA SendStep ==
  ASSUME SendTypes, Issued, ret \in Int, [Next]_vars PROVE SendTypes' /\ Issued'
<1> USE WsmCmdAssumption DEF SendTypes, Issued
<1>1. ASSUME NEW t \in Tasks, Lock(t) PROVE SendTypes' /\ Issued'
  <2>1. PICK id \in Ids : issued' = Append(issued, id)
    BY <1>1 DEF Lock
  <2>2. issued' \in Seq(Ids) /\ Len(issued') = Len(issued) + 1 /\ Len(issued) \in Nat
    BY <2>1, AppendProperties
  <2>3. SendTypes'
    BY <1>1, <2>2 DEF Lock
  <2>4. Issued'
    BY <1>1, <2>2 DEF Lock
  <2> QED BY <2>3, <2>4
<1>2. ASSUME NEW t \in Tasks, Publish(t) PROVE SendTypes' /\ Issued'
  BY <1>2 DEF Publish
<1>3. ASSUME NEW t \in Tasks, Completed(t) PROVE SendTypes' /\ Issued'
  BY <1>3 DEF Completed
<1>4. ASSUME NEW t \in Tasks, LastChance(t) \/ LastChanceExpired(t) \/ Return(t)
      PROVE SendTypes' /\ Issued'
  <2>1. CASE LastChance(t)
    BY <2>1 DEF LastChance
  <2>2. CASE LastChanceExpired(t)
    BY <2>2 DEF LastChanceExpired, sendVars
  <2>3. CASE Return(t)
    BY <2>3 DEF Return, NULL
  <2> QED BY <1>4, <2>1, <2>2, <2>3
<1>5. ASSUME NEW t \in Tasks, TimedOut(t) PROVE SendTypes' /\ Issued'
  BY <1>5 DEF TimedOut, ETIMEDOUT
<1>6. CASE TxStep \/ TxExit \/ RxStep \/ DevStep
  BY <1>6 DEF TxStep, TxPeek, TxGet, TxCopy, TxTxed, TxTry, TxWrite, TxWriteError, TxExit, RxStep,
     RxTake, RxDone, DevStep, DevAnswer, DevAnswerTwice, sendVars
<1>7. CASE Finished \/ UNCHANGED vars
  BY <1>7 DEF Finished, vars, sendVars
<1> QED BY <1>1, <1>2, <1>3, <1>4, <1>5, <1>6, <1>7 DEF Next, TaskStep

\* The slot.
LEMMA SlotStep ==
  ASSUME SendTypes, Issued, SlotTypes, ThreadTypes, [Next]_vars PROVE SlotTypes'
<1> USE WsmCmdAssumption DEF SlotTypes
<1>1. ASSUME NEW t \in Tasks, Publish(t) PROVE SlotTypes'
  <2>1. my[t] \in Nat /\ issued[my[t]] \in Ids
    BY <1>1, ElementOfSeq DEF Publish, SendTypes, Issued
  <2>2. CASE UNCHANGED slotVars
    BY <2>2 DEF slotVars
  <2>3. CASE FillSlot(t)
    <3>1. arg' \in {0, my[t]} /\ cmd' = issued[my[t]] /\ len' = my[t] /\ ret' = ret
      BY <2>3, Zenon DEF FillSlot, NULL
    <3> QED BY <2>1, <3>1
  <2> QED BY <1>1, <2>2, <2>3, Zenon DEF Publish
<1>2. ASSUME NEW t \in Tasks, TimedOut(t) PROVE SlotTypes'
  BY <1>2 DEF TimedOut, NULL
<1>3. ASSUME NEW t \in Tasks,
             Lock(t) \/ Completed(t) \/ LastChance(t) \/ LastChanceExpired(t) \/ Return(t)
      PROVE  SlotTypes'
  BY <1>3 DEF Lock, Completed, LastChance, LastChanceExpired, Return, slotVars
<1>4. CASE TxPeek \/ TxGet \/ TxCopy \/ TxTxed \/ TxTry \/ TxWrite
  BY <1>4 DEF TxPeek, TxGet, TxCopy, TxTxed, TxTry, TxWrite, slotVars
<1>5. CASE TxWriteError \/ TxExit
  <2>1. ForceComplete \/ UNCHANGED slotVars
    BY <1>5 DEF TxWriteError, TxExit
  <2>2. CASE ForceComplete /\ cmd # FFFF
    BY <2>2 DEF ForceComplete, NULL, EIO
  <2>3. CASE UNCHANGED slotVars
    BY <2>3 DEF slotVars
  <2> QED BY <2>1, <2>2, <2>3 DEF ForceComplete
<1>6. CASE RxStep
  <2>1. CASE RxTake
    BY <2>1 DEF RxTake, TakenMark
  <2>2. CASE RxDone
    <3>1. ret' = rxser /\ arg' = arg /\ cmd' = cmd /\ len' = len
      BY <2>2, Zenon DEF RxDone
    <3>2. rxser \in Nat
      BY Zenon DEF ThreadTypes
    <3> QED BY <3>1, <3>2
  <2> QED BY <1>6, <2>1, <2>2 DEF RxStep
<1>7. CASE DevStep \/ Finished \/ UNCHANGED vars
  BY <1>7 DEF DevStep, DevAnswer, DevAnswerTwice, Finished, vars, slotVars
<1> QED BY <1>1, <1>2, <1>3, <1>4, <1>5, <1>6, <1>7 DEF Next, TaskStep, TxStep

\* The flags.
LEMMA FlagsStep == ASSUME Flags, [Next]_vars PROVE Flags'
<1> USE DEF Flags, slotVars, txVars
<1>1. ASSUME NEW t \in Tasks, TaskStep(t) PROVE Flags'
  BY <1>1, Zenon DEF TaskStep, Lock, Publish, FillSlot, Completed, TimedOut, ClearedPtr, LastChance,
     LastChanceExpired, Return
<1>2. CASE TxStep
  BY <1>2, Zenon DEF TxStep, TxPeek, TxGet, TxCopy, TxTxed, TxTry, TxWrite, TxWriteError,
     ForceComplete
<1>3. CASE TxExit \/ RxStep \/ DevStep
  BY <1>3, Zenon DEF TxExit, ForceComplete, RxStep, RxTake, RxDone, DevStep,
     DevAnswer, DevAnswerTwice
<1>4. CASE Finished \/ UNCHANGED vars
  BY <1>4, Zenon DEF Finished, vars
<1> QED BY <1>1, <1>2, <1>3, <1>4, Zenon DEF Next

\* The threads and the device.
LEMMA ThreadStep ==
  ASSUME SendTypes, Issued, SlotTypes, ThreadTypes, [Next]_vars PROVE ThreadTypes'
<1> USE WsmCmdAssumption DEF ThreadTypes
<1>1. ASSUME NEW t \in Tasks, TaskStep(t) PROVE ThreadTypes'
  BY <1>1 DEF TaskStep, Lock, Publish, Completed, TimedOut, LastChance, LastChanceExpired,
     Return, txVars, rxVars, devVars
<1>2. CASE TxPeek \/ TxGet \/ TxTxed
  BY <1>2 DEF TxPeek, TxGet, TxTxed, SlotTypes, rxVars, devVars
<1>3. CASE TxCopy
  <2>1. Append(batch, buf) \in Seq(Nat)
    BY AppendProperties DEF SendTypes
  <2> QED BY <1>3, <2>1 DEF TxCopy, rxVars, devVars
<1>4. CASE TxTry \/ TxWrite
  <2>1. fw \o batch \in Seq(Nat) /\ <<>> \in Seq(Nat)
    BY ConcatProperties, EmptySeq
  <2> QED BY <1>4, <2>1 DEF TxTry, TxWrite, rxVars
<1>5. CASE TxWriteError \/ TxExit
  BY <1>5, EmptySeq DEF TxWriteError, TxExit, rxVars, devVars
<1>6. CASE RxTake
  <2>1. Head(cnf) \in Nat /\ Tail(cnf) \in Seq(Nat)
    BY <1>6, HeadTailProperties DEF RxTake
  <2> QED BY <1>6, <2>1 DEF RxTake, SlotTypes, txVars
<1>7. CASE RxDone
  BY <1>7 DEF RxDone, NULL, txVars, devVars
<1>8. CASE DevStep
  <2>1. fw # <<>> /\ Head(fw) \in Nat /\ Tail(fw) \in Seq(Nat)
    BY <1>8, HeadTailProperties DEF DevStep, DevAnswer, DevAnswerTwice
  <2>2. Append(cnf, Head(fw)) \in Seq(Nat)
    BY <2>1, AppendProperties
  <2>3. <<Head(fw), Head(fw)>> \in Seq(Nat)
    BY <2>1, PairIsSeq
  <2>4. cnf \o <<Head(fw), Head(fw)>> \in Seq(Nat)
    BY <2>3, ConcatProperties
  <2>5. CASE DevAnswer
    BY <2>1, <2>2, <2>5 DEF DevAnswer, txVars, rxVars
  <2>6. CASE DevAnswerTwice
    <3>1. repeats + 1 \in 0..MaxRepeats
      <4>1. repeats \in 0..MaxRepeats /\ repeats < MaxRepeats
        BY <2>6, Zenon DEF DevAnswerTwice
      <4> HIDE DEF ThreadTypes
      <4> QED BY <4>1
    <3> QED BY <2>1, <2>4, <2>6, <3>1 DEF DevAnswerTwice, txVars, rxVars
  <2> QED BY <1>8, <2>5, <2>6 DEF DevStep
<1>9. CASE Finished \/ UNCHANGED vars
  BY <1>9 DEF Finished, vars, txVars, rxVars, devVars
<1> QED BY <1>1, <1>2, <1>3, <1>4, <1>5, <1>6, <1>7, <1>8, <1>9 DEF Next, TxStep, RxStep

\* What is remembered of the calls.
LEMMA HistoryStep == ASSUME SendTypes, Histories, [Next]_vars PROVE Histories'
<1> USE WsmCmdAssumption DEF Histories
<1>1. ASSUME NEW t \in Tasks, Completed(t) PROVE Histories'
  BY <1>1 DEF Completed, SendTypes
<1>2. ASSUME NEW t \in Tasks, TimedOut(t) PROVE Histories'
  <2>1. expired' = expired \/ (expired < MaxLate /\ expired' = expired + 1)
    BY <1>2, Zenon DEF TimedOut
  <2>2. expired \in 0..MaxLate /\ MaxLate \in Nat
    OBVIOUS
  <2>3. expired' \in 0..MaxLate
    <3> HIDE DEF Histories
    <3> QED BY <2>1, <2>2
  <2>4. orphans' \subseteq Nat
    BY <1>2 DEF TimedOut, SendTypes
  <2> QED BY <2>3, <2>4
<1>3. UNCHANGED history => Histories'
  BY DEF history
<1>4. ASSUME NEW t \in Tasks,
             Lock(t) \/ Publish(t) \/ LastChance(t) \/ LastChanceExpired(t) \/ Return(t)
      PROVE  UNCHANGED history
  BY <1>4 DEF Lock, Publish, LastChance, LastChanceExpired, Return
<1>5. TxStep \/ TxExit \/ RxStep \/ DevStep => UNCHANGED history
  BY DEF TxStep, TxPeek, TxGet, TxCopy, TxTxed, TxTry, TxWrite, TxWriteError, TxExit, RxStep,
     RxTake, RxDone, DevStep, DevAnswer, DevAnswerTwice
<1>6. Finished \/ UNCHANGED vars => UNCHANGED history
  BY DEF Finished, vars, history
<1> QED BY <1>1, <1>2, <1>3, <1>4, <1>5, <1>6 DEF Next, TaskStep

LEMMA IInvInit == ASSUME Init PROVE IInv
<1>1. SendTypes /\ Issued
  <2>1. /\ pc = [t \in Tasks |-> "idle"] /\ my = [t \in Tasks |-> 0]
        /\ result = [t \in Tasks |-> 0] /\ mux = Nobody /\ issued = <<>> /\ buf = 0
    BY Zenon DEF Init, NULL
  <2>2. issued \in Seq(Ids)
    BY <2>1, EmptySeq
  <2> QED BY <2>1, <2>2 DEF SendTypes, Issued
<1>2. SlotTypes
  <2>1. arg = 0 /\ cmd \in Ids /\ len = 0 /\ ret = 0
    BY Zenon DEF Init, NULL
  <2> QED BY <2>1 DEF SlotTypes
<1>3. ThreadTypes
  <2>1. /\ txpc = "idle" /\ data = 0 /\ batch = <<>> /\ fw = <<>> /\ cnf = <<>> /\ repeats = 0
        /\ rxpc = "idle" /\ rxarg = 0 /\ rxser = 0 /\ ignored = {} /\ bug = ""
    BY Zenon DEF Init, NULL
  <2>2. <<>> \in Seq(Nat)
    BY EmptySeq
  <2>3. 0 \in 0..MaxRepeats
    BY WsmCmdAssumption
  <2> QED BY <2>1, <2>2, <2>3, Zenon DEF ThreadTypes
<1>4. Flags
  BY Zenon DEF Init, Flags
<1>5. Histories
  <2>1. expired = 0 /\ orphans = {}
    BY Zenon DEF Init
  <2> QED BY <2>1, WsmCmdAssumption DEF Histories
<1> QED BY <1>1, <1>2, <1>3, <1>4, <1>5, TypesSplit DEF IInv

LEMMA IInvStep == ASSUME IInv, [Next]_vars PROVE IInv'
<1>1. SendTypes /\ SlotTypes /\ ThreadTypes /\ Flags /\ Histories /\ Issued
  BY TypesSplit DEF IInv
<1>2. SendTypes' /\ SlotTypes' /\ ThreadTypes' /\ Flags' /\ Histories' /\ Issued'
  BY <1>1, SendStep, SlotStep, ThreadStep, FlagsStep, HistoryStep DEF SlotTypes
<1> QED BY <1>2 DEF IInv, TypeOK, SendTypes, SlotTypes, ThreadTypes, Flags, Histories

THEOREM Invariant == Spec => []IInv
<1>1. Init => IInv
  BY IInvInit
<1>2. IInv /\ [Next]_vars => IInv'
  BY IInvStep
<1> QED BY <1>1, <1>2, PTL DEF Spec

\* Type correctness of the command channel, whatever times out or is repeated:
\* the slot only ever holds a command that was issued.
THEOREM Typed == Spec => []TypeOK
<1>1. IInv => TypeOK
  BY DEF IInv
<1> QED BY <1>1, Invariant, PTL

-----------------------------------------------------------------------------
(* What is under way.                                                      *)

\* A batch the device has not got holds what is under way.
LEMMA AwayIs ==
  /\ txpc = "exited" => Away = {}
  /\ txpc # "exited" =>
       /\ Elements(fw) \subseteq Away /\ Elements(cnf) \subseteq Away
       /\ ~tried => Elements(batch) \subseteq Away
  BY DEF Away

LEMMA ElementsOfConcat ==
  ASSUME NEW S, NEW a \in Seq(S), NEW b \in Seq(S)
  PROVE  Elements(a \o b) \subseteq Elements(a) \cup Elements(b)
<1> SUFFICES ASSUME NEW i \in DOMAIN (a \o b)
             PROVE  (a \o b)[i] \in Elements(a) \cup Elements(b)
  BY DEF Elements
<1>1. i \in 1..(Len(a) + Len(b)) /\ Len(a) \in Nat /\ Len(b) \in Nat
  BY ConcatProperties, LenProperties
<1>2. CASE i <= Len(a)
  <2>1. i \in DOMAIN a /\ (a \o b)[i] = a[i]
    BY <1>1, <1>2, ConcatProperties, LenProperties
  <2> QED BY <2>1 DEF Elements
<1>3. CASE i > Len(a)
  <2>1. i - Len(a) \in DOMAIN b /\ (a \o b)[i] = b[i - Len(a)]
    BY <1>1, <1>3, ConcatProperties, LenProperties
  <2> QED BY <2>1 DEF Elements
<1> QED BY <1>1, <1>2, <1>3

LEMMA ElementsOfAppend ==
  ASSUME NEW S, NEW a \in Seq(S), NEW e \in S
  PROVE  Elements(Append(a, e)) \subseteq Elements(a) \cup {e}
<1> SUFFICES ASSUME NEW i \in DOMAIN Append(a, e)
             PROVE  Append(a, e)[i] \in Elements(a) \cup {e}
  BY DEF Elements
<1>1. i \in 1..(Len(a) + 1) /\ Len(a) \in Nat
  BY AppendProperties, LenProperties
<1>2. CASE i <= Len(a)
  <2>1. i \in DOMAIN a /\ Append(a, e)[i] = a[i]
    BY <1>1, <1>2, AppendProperties, LenProperties
  <2> QED BY <2>1 DEF Elements
<1>3. CASE i = Len(a) + 1
  BY <1>3, AppendProperties
<1> QED BY <1>1, <1>2, <1>3

LEMMA ElementsOfTail ==
  ASSUME NEW S, NEW a \in Seq(S), a # <<>>
  PROVE  Head(a) \in Elements(a) /\ Elements(Tail(a)) \subseteq Elements(a)
<1>1. Len(a) \in Nat /\ Len(a) # 0 /\ DOMAIN a = 1..Len(a) /\ Head(a) = a[1]
  BY LenProperties, EmptySeq
<1>2. 1 \in DOMAIN a
  BY <1>1
<1>3. ASSUME NEW i \in DOMAIN Tail(a) PROVE Tail(a)[i] \in Elements(a)
  <2>1. i \in 1..(Len(a) - 1) /\ Tail(a)[i] = a[i + 1]
    BY <1>1, HeadTailProperties, LenProperties
  <2>2. i + 1 \in DOMAIN a
    BY <1>1, <2>1
  <2> QED BY <2>1, <2>2 DEF Elements
<1> QED BY <1>1, <1>2, <1>3 DEF Elements

LEMMA NoElements == Elements(<<>>) = {}
<1>1. DOMAIN <<>> = {}
  OBVIOUS
<1> QED BY <1>1 DEF Elements

LEMMA ElementsOfPair == ASSUME NEW e PROVE Elements(<<e, e>>) = {e}
<1>1. DOMAIN <<e, e>> = {1, 2} /\ <<e, e>>[1] = e /\ <<e, e>>[2] = e
  OBVIOUS
<1> QED BY <1>1 DEF Elements

\* What is under way came from the shared buffer when sdio_tx copied it.
LEMMA AwayStep ==
  ASSUME SendTypes, ThreadTypes, [Next]_vars
  PROVE  Away' \subseteq Away \/ (TxCopy /\ Away' \subseteq Away \cup {buf} /\ buf # NULL)
<1> USE DEF ThreadTypes
<1>1. ASSUME UNCHANGED <<fw, cnf, batch, tried>>, txpc = "exited" => txpc' = "exited"
      PROVE  Away' \subseteq Away
  <2> HIDE DEF ThreadTypes
  <2> QED BY <1>1 DEF Away
<1>2. ASSUME NEW t \in Tasks, TaskStep(t) PROVE Away' \subseteq Away
  <2>1. UNCHANGED txVars /\ UNCHANGED devVars
    BY <1>2 DEF TaskStep, Lock, Publish, Completed, TimedOut, LastChance, LastChanceExpired,
       Return
  <2> QED BY <1>1, <2>1 DEF txVars, devVars
<1>3. CASE TxPeek \/ TxGet \/ TxTxed
  <2>1. UNCHANGED <<fw, cnf, batch, tried>> /\ txpc # "exited"
    BY <1>3 DEF TxPeek, TxGet, TxTxed, devVars
  <2> QED BY <1>1, <2>1
<1>4. CASE TxCopy
  <2>1. UNCHANGED <<fw, cnf, tried>> /\ txpc = "got" /\ txpc' # "exited"
    BY <1>4 DEF TxCopy, devVars
  <2>2. CASE batch' = batch
    BY <1>1, <2>1, <2>2
  <2>3. CASE buf # NULL /\ batch' = Append(batch, buf)
    <3>1. Elements(batch') \subseteq Elements(batch) \cup {buf}
      BY <2>3, ElementsOfAppend DEF SendTypes
    <3> QED BY <1>4, <2>1, <2>3, <3>1 DEF Away
  <2> QED BY <1>4, <2>2, <2>3 DEF TxCopy
<1>5. CASE TxTry \/ TxWrite
  <2>1. Elements(fw \o batch) \subseteq Elements(fw) \cup Elements(batch)
    BY ElementsOfConcat
  <2>2. txpc # "exited" /\ txpc' # "exited" /\ cnf' = cnf
    BY <1>5 DEF TxTry, TxWrite, AtWrite
  <2>3. CASE TxTry
    <3>1. fw' = fw \o batch /\ tried' /\ ~tried
      BY <2>3 DEF TxTry
    <3> QED BY <2>1, <2>2, <3>1 DEF Away
  <2>4. CASE TxWrite
    <3>1. batch' = <<>> /\ fw' = IF tried THEN fw ELSE fw \o batch
      BY <2>4 DEF TxWrite
    <3> QED BY <2>1, <2>2, <3>1, NoElements DEF Away
  <2> QED BY <1>5, <2>3, <2>4
<1>6. CASE TxWriteError
  <2>1. UNCHANGED <<fw, cnf>> /\ batch' = <<>> /\ txpc # "exited" /\ txpc' # "exited"
    BY <1>6 DEF TxWriteError, AtWrite, devVars
  <2> QED BY <2>1, NoElements DEF Away
<1>7. CASE TxExit
  BY <1>7 DEF TxExit, Away
<1>8. CASE RxTake
  <2>1. /\ cnf # <<>> /\ cnf' = Tail(cnf) /\ UNCHANGED <<fw, batch, tried, txpc>>
    BY <1>8 DEF RxTake, txVars
  <2>2. Elements(cnf') \subseteq Elements(cnf)
    BY <2>1, ElementsOfTail
  <2> QED BY <2>1, <2>2 DEF Away
<1>9. CASE RxDone
  <2>1. UNCHANGED <<fw, cnf, batch, tried, txpc>>
    BY <1>9 DEF RxDone, txVars, devVars
  <2> QED BY <1>1, <2>1
<1>10. CASE DevStep
  <2>1. /\ fw # <<>> /\ fw' = Tail(fw) /\ UNCHANGED <<batch, tried, txpc>>
        /\ cnf' = Append(cnf, Head(fw)) \/ cnf' = cnf \o <<Head(fw), Head(fw)>>
    BY <1>10 DEF DevStep, DevAnswer, DevAnswerTwice, txVars
  <2>2. Head(fw) \in Elements(fw) /\ Elements(fw') \subseteq Elements(fw) /\ Head(fw) \in Nat
    BY <2>1, ElementsOfTail, HeadTailProperties
  <2>3. Elements(cnf') \subseteq Elements(cnf) \cup {Head(fw)}
    <3>1. <<Head(fw), Head(fw)>> \in Seq(Nat)
      BY <2>2, PairIsSeq
    <3> QED BY <2>1, <2>2, <3>1, ElementsOfAppend, ElementsOfConcat, ElementsOfPair
  <2> QED BY <2>1, <2>2, <2>3 DEF Away
<1>11. CASE Finished \/ UNCHANGED vars
  <2>1. UNCHANGED <<fw, cnf, batch, tried, txpc>>
    BY <1>11 DEF Finished, vars, txVars, devVars
  <2> QED BY <1>1, <2>1
<1> QED BY <1>2, <1>3, <1>4, <1>5, <1>6, <1>7, <1>8, <1>9, <1>10, <1>11
        DEF Next, TxStep, RxStep

-----------------------------------------------------------------------------
(* Whose answers there are.                                                *)

Called == mux # Nobody

\* One task is in a call, and the shared buffer holds its command.
OneCall ==
  /\ \A t \in Tasks : t # mux => pc[t] = "idle"
  /\ Called => pc[mux] # "idle" /\ buf = my[mux]
  /\ ~Called => buf = 0

\* The command s is the one of the task in the call, which has not left.
Held(s) == Called /\ s = my[mux] /\ pc[mux] \in {"filled", "wait"}

\* What is under way, or with the handler, has its task or is an orphan.
AwayHeld == \A s \in Away : s \in orphans \/ Held(s)
HandlerHeld ==
  /\ rxpc = "confirm" =>
       \/ rxser \in orphans \/ Held(rxser)
       \/ Called /\ rxser = my[mux] /\ pc[mux] = "lastchance" /\ ~done
  /\ rxpc = "idle" => rxser = 0

\* A task that has left the wait with its command in the slot has left an orphan.
SlotHeld ==
  Called /\ pc[mux] \in {"lastchance", "out"} /\ (ptr \/ TxHandling) => my[mux] \in orphans

Taken == Called /\ pc[mux] = "lastchance" => cmd = FFFF /\ ~(result[mux] > 0)

ResultHeld ==
  Called /\ pc[mux] = "wait" /\ done /\ ret > 0 => ret = my[mux] \/ ret \in orphans

JInv ==
  /\ OneCall /\ AwayHeld /\ HandlerHeld /\ SlotHeld /\ Taken /\ ResultHeld /\ OwnResponse
  /\ orphans \subseteq 1..Len(issued)

\* The current serial is one that was issued.
LEMMA Current ==
  ASSUME IInv, OneCall, Called
  PROVE  /\ mux \in Tasks /\ my[mux] \in 1..Len(issued) /\ my[mux] \in Nat /\ my[mux] # 0
         /\ issued[my[mux]] \in Ids /\ issued[my[mux]] # FFFF
<1>1. SendTypes /\ Issued
  BY TypesSplit DEF IInv
<1>2. mux \in Tasks /\ pc[mux] # "idle"
  BY <1>1 DEF SendTypes, OneCall, Called
<1>3. my[mux] \in 1..Len(issued)
  BY <1>1, <1>2 DEF Issued
<1>4. issued[my[mux]] \in Ids
  BY <1>1, <1>3, ElementOfSeq DEF SendTypes
<1>5. my[mux] \in Nat /\ my[mux] # 0
  BY <1>1, <1>2, <1>3 DEF SendTypes
<1> QED BY <1>2, <1>3, <1>4, <1>5, WsmCmdAssumption

LEMMA Caller ==
  ASSUME IInv, OneCall, NEW t \in Tasks, pc[t] # "idle" PROVE t = mux /\ Called
  BY WsmCmdAssumption DEF OneCall, Called

\* What sdio_rx may see has an identifier.
LEMMA AnsweredIssued ==
  ASSUME IInv, JInv, cnf # <<>>, txpc # "exited"
  PROVE  /\ Head(cnf) \in Away /\ Head(cnf) \in 1..Len(issued)
         /\ issued[Head(cnf)] \in Ids /\ issued[Head(cnf)] # FFFF
<1>1. SendTypes /\ ThreadTypes
  BY TypesSplit DEF IInv
<1>2. Head(cnf) \in Away
  BY <1>1, ElementsOfTail DEF Away, ThreadTypes
<1>3. Head(cnf) \in 1..Len(issued)
  BY <1>2, Current DEF JInv, AwayHeld, Held
<1>4. issued[Head(cnf)] \in Ids
  BY <1>1, <1>3, ElementOfSeq DEF SendTypes
<1> QED BY <1>2, <1>3, <1>4, WsmCmdAssumption

\* A step that changes nothing of this keeps it.
LEMMA HeldStays ==
  ASSUME JInv, UNCHANGED <<sendVars, buf, slotVars, txVars, rxVars, devVars, orphans>> PROVE JInv'
<1> USE DEF sendVars, slotVars, txVars, rxVars, devVars
<1>1. UNCHANGED <<Away, TxHandling, Called>>
  BY DEF Away, TxHandling, Called
<1>2. OneCall' /\ SlotHeld' /\ Taken' /\ ResultHeld' /\ OwnResponse'
  BY <1>1 DEF JInv, OneCall, SlotHeld, Taken, ResultHeld, OwnResponse
<1>3. AwayHeld' /\ HandlerHeld'
  BY <1>1 DEF JInv, AwayHeld, HandlerHeld, Held
<1> QED BY <1>2, <1>3 DEF JInv

\* The steps of the calls.
LEMMA CallsHeld ==
  ASSUME IInv, JInv, NEW t \in Tasks, TaskStep(t) PROVE JInv'
<1>1. SendTypes /\ Issued /\ SlotTypes /\ ThreadTypes /\ Flags
  BY TypesSplit DEF IInv
<1>2. Away' \subseteq Away
  <2>1. UNCHANGED txVars /\ UNCHANGED devVars
    BY DEF TaskStep, Lock, Publish, Completed, TimedOut, LastChance, LastChanceExpired, Return
  <2> QED BY <2>1 DEF Away, txVars, devVars
<1>3. pc[t] # "idle" => t = mux /\ Called
  BY Caller DEF JInv
<1>4. CASE Lock(t)
  <2>1. /\ ~Called /\ mux' = t /\ pc' = [pc EXCEPT ![t] = "filled"] /\ buf' = Len(issued) + 1
        /\ my' = [my EXCEPT ![t] = Len(issued) + 1] /\ result' = result
        /\ UNCHANGED <<rxpc, rxser, orphans>>
    BY <1>4 DEF Lock, MutexFree, Called, rxVars, history
  <2>2. Called' /\ pc'[mux'] = "filled" /\ my'[mux'] = Len(issued) + 1
    BY <1>1, <2>1, WsmCmdAssumption DEF SendTypes, Called
  <2>3. OneCall'
    BY <1>1, <2>1, <2>2, WsmCmdAssumption DEF OneCall, JInv, SendTypes, Called
  <2>4. AwayHeld' /\ HandlerHeld'
    BY <1>2, <2>1 DEF JInv, AwayHeld, HandlerHeld, Held
  <2>5. SlotHeld' /\ Taken' /\ ResultHeld'
    BY <2>2 DEF SlotHeld, Taken, ResultHeld
  <2>6. OwnResponse'
    BY <1>1, <2>1 DEF JInv, OwnResponse, SendTypes
  <2>7. orphans' \subseteq 1..Len(issued')
    <3>1. PICK id \in Ids : issued' = Append(issued, id)
      BY <1>4 DEF Lock
    <3>2. Len(issued') = Len(issued) + 1 /\ Len(issued) \in Nat
      BY <1>1, <3>1, AppendProperties, LenProperties DEF SendTypes
    <3> QED BY <2>1, <3>2 DEF JInv
  <2> QED BY <2>3, <2>4, <2>5, <2>6, <2>7 DEF JInv
<1>5. CASE Publish(t)
  <2>1. t = mux /\ Called /\ pc[mux] = "filled"
    BY <1>3, <1>5 DEF Publish
  <2>2. UNCHANGED <<my, result, mux, issued, buf, rxpc, rxser, orphans, txpc>>
    BY <1>5 DEF Publish, rxVars, txVars, history
  <2>3. \/ pc' = pc /\ UNCHANGED slotVars
        \/ pc' = [pc EXCEPT ![t] = "wait"] /\ ~done'
    BY <1>5, Zenon DEF Publish, FillSlot
  <2>4. pc'[mux] \in {"filled", "wait"} /\ \A u \in Tasks : u # mux => pc'[u] = pc[u]
    BY <1>1, <2>1, <2>3 DEF SendTypes
  <2>5. OneCall' /\ OwnResponse'
    BY <2>1, <2>2, <2>4 DEF JInv, OneCall, Called, OwnResponse
  <2>6. AwayHeld' /\ HandlerHeld'
    BY <1>2, <2>1, <2>2, <2>4 DEF JInv, AwayHeld, HandlerHeld, Held, Called
  <2>7. SlotHeld' /\ Taken' /\ ResultHeld'
    BY <1>1, <2>1, <2>2, <2>3, <2>4 DEF SlotHeld, Taken, ResultHeld, SendTypes
  <2> QED BY <2>2, <2>5, <2>6, <2>7 DEF JInv
<1>6. CASE Completed(t)
  <2>1. t = mux /\ Called /\ pc[mux] = "wait" /\ done
    BY <1>3, <1>6 DEF Completed, CmdDone
  <2>2. /\ result' = [result EXCEPT ![t] = ret] /\ pc' = [pc EXCEPT ![t] = "out"]
        /\ UNCHANGED <<my, mux, issued, buf>> /\ UNCHANGED <<rxpc, rxser, txpc, ptr, done, cmd, ret>>
        /\ orphans \subseteq orphans' /\ orphans' \subseteq orphans \cup {my[t]}
        /\ ptr \/ TxHandling \/ my[t] \in Away \cup {rxser} => my[t] \in orphans'
    BY <1>6 DEF Completed, rxVars, txVars, slotVars
  <2>3. pc'[mux] = "out" /\ \A u \in Tasks : u # mux => pc'[u] = pc[u] /\ result'[u] = result[u]
    BY <1>1, <2>1, <2>2 DEF SendTypes
  <2>4. result'[mux] = ret
    BY <1>1, <2>1, <2>2 DEF SendTypes
  <2>5. OneCall'
    BY <2>1, <2>2, <2>3 DEF JInv, OneCall, Called
  <2>6. OwnResponse'
    BY <2>1, <2>2, <2>3, <2>4 DEF JInv, OwnResponse, ResultHeld
  <2>7. AwayHeld' /\ HandlerHeld'
    BY <1>2, <2>1, <2>2 DEF JInv, AwayHeld, HandlerHeld, Held
  <2>8. SlotHeld' /\ Taken' /\ ResultHeld'
    BY <2>1, <2>2, <2>3 DEF SlotHeld, Taken, ResultHeld, TxHandling
  <2>9. orphans' \subseteq 1..Len(issued')
    BY <2>1, <2>2, Current DEF JInv
  <2> QED BY <2>5, <2>6, <2>7, <2>8, <2>9 DEF JInv
<1>7. CASE TimedOut(t)
  <2>1. t = mux /\ Called /\ pc[mux] = "wait" /\ ~done
    BY <1>3, <1>7 DEF TimedOut, CmdDone
  <2>2. /\ result' = [result EXCEPT ![t] = ETIMEDOUT] /\ ~ptr'
        /\ pc' = [pc EXCEPT ![t] = IF cmd = FFFF THEN "lastchance" ELSE "out"]
        /\ UNCHANGED <<my, mux, issued, buf>> /\ UNCHANGED <<rxpc, rxser, txpc, done, cmd, ret>>
        /\ orphans \subseteq orphans' /\ orphans' \subseteq orphans \cup {my[t]}
        /\ TxHandling \/ my[t] \in Away \/ (rxser = my[t] /\ cmd # FFFF) => my[t] \in orphans'
    BY <1>7 DEF TimedOut, ClearedPtr, rxVars, txVars
  <2>3. /\ pc'[mux] = IF cmd = FFFF THEN "lastchance" ELSE "out"
        /\ \A u \in Tasks : u # mux => pc'[u] = pc[u] /\ result'[u] = result[u]
    BY <1>1, <2>1, <2>2 DEF SendTypes
  <2>4. ~(result'[mux] > 0)
    BY <1>1, <2>1, <2>2 DEF SendTypes, ETIMEDOUT
  <2>5. OneCall'
    BY <2>1, <2>2, <2>3 DEF JInv, OneCall, Called
  <2>6. OwnResponse'
    BY <2>1, <2>2, <2>3, <2>4 DEF JInv, OwnResponse
  <2>7. AwayHeld' /\ HandlerHeld'
    BY <1>2, <2>1, <2>2, <2>3 DEF JInv, AwayHeld, HandlerHeld, Held, Called
  <2>8. SlotHeld' /\ Taken' /\ ResultHeld'
    BY <2>1, <2>2, <2>3, <2>4 DEF SlotHeld, Taken, ResultHeld, TxHandling
  <2>9. orphans' \subseteq 1..Len(issued')
    BY <2>1, <2>2, Current DEF JInv
  <2> QED BY <2>5, <2>6, <2>7, <2>8, <2>9 DEF JInv
<1>8. CASE LastChance(t)
  <2>1. t = mux /\ Called /\ pc[mux] = "lastchance" /\ done
    BY <1>3, <1>8 DEF LastChance
  <2>2. /\ pc' = [pc EXCEPT ![t] = "out"]
        /\ UNCHANGED <<my, mux, issued, buf, result>> /\ UNCHANGED <<rxpc, rxser, txpc, ptr>>
        /\ orphans' = orphans
    BY <1>8 DEF LastChance, rxVars, txVars, slotVars, history
  <2>3. pc'[mux] = "out" /\ \A u \in Tasks : u # mux => pc'[u] = pc[u]
    BY <1>1, <2>1, <2>2 DEF SendTypes
  <2>4. OneCall'
    BY <2>1, <2>2, <2>3 DEF JInv, OneCall, Called
  <2>5. OwnResponse'
    <3>1. ~(result[mux] > 0)
      BY <2>1 DEF JInv, Taken
    <3> QED BY <2>1, <2>2, <2>3, <3>1 DEF JInv, OwnResponse
  <2>6. AwayHeld' /\ HandlerHeld'
    BY <1>2, <2>1, <2>2, <2>3 DEF JInv, AwayHeld, HandlerHeld, Held, Called
  <2>7. SlotHeld' /\ Taken' /\ ResultHeld'
    BY <2>1, <2>2, <2>3 DEF JInv, SlotHeld, Taken, ResultHeld, TxHandling, Called
  <2> QED BY <2>2, <2>4, <2>5, <2>6, <2>7 DEF JInv
<1>9. CASE LastChanceExpired(t)
  <2>1. UNCHANGED <<sendVars, buf, slotVars, txVars, rxVars, devVars, orphans>>
    BY <1>9 DEF LastChanceExpired, history
  <2> QED BY <2>1, HeldStays
<1>10. CASE Return(t)
  <2>1. t = mux /\ Called /\ pc[mux] = "out"
    BY <1>3, <1>10 DEF Return
  <2>2. /\ buf' = 0 /\ mux' = Nobody /\ pc' = [pc EXCEPT ![t] = "idle"]
        /\ UNCHANGED <<my, result, issued>> /\ UNCHANGED <<rxpc, rxser, orphans>>
    BY <1>10 DEF Return, NULL, rxVars, history
  <2>3. ~Called' /\ \A u \in Tasks : pc'[u] = "idle"
    BY <1>1, <2>1, <2>2, WsmCmdAssumption DEF JInv, OneCall, Called, SendTypes
  <2>4. OneCall' /\ SlotHeld' /\ Taken' /\ ResultHeld'
    BY <2>2, <2>3 DEF OneCall, SlotHeld, Taken, ResultHeld
  <2>5. OwnResponse'
    BY <1>1, <2>1, <2>2, <2>3 DEF JInv, OwnResponse, OneCall
  <2>6. AwayHeld' /\ HandlerHeld'
    BY <1>2, <2>1, <2>2 DEF JInv, AwayHeld, HandlerHeld, Held
  <2> QED BY <2>2, <2>4, <2>5, <2>6 DEF JInv
<1> QED BY <1>4, <1>5, <1>6, <1>7, <1>8, <1>9, <1>10 DEF TaskStep
\* The steps of sdio_tx.
LEMMA TxHeld ==
  ASSUME IInv, JInv, TxStep \/ TxExit PROVE JInv'
<1>1. SendTypes /\ Issued /\ SlotTypes /\ ThreadTypes /\ Flags
  BY TypesSplit DEF IInv
<1>2. UNCHANGED <<pc, my, result, mux, issued, buf, rxpc, rxser, orphans>>
  BY DEF TxStep, TxPeek, TxGet, TxCopy, TxTxed, TxTry, TxWrite, TxWriteError, TxExit, sendVars,
     rxVars, history
<1>3. OneCall' /\ OwnResponse' /\ orphans' \subseteq 1..Len(issued')
  BY <1>2 DEF JInv, OneCall, OwnResponse, Called
<1>4. AwayHeld'
  <2>1. CASE Away' \subseteq Away
    BY <1>2, <2>1 DEF JInv, AwayHeld, Held, Called
  <2>2. CASE TxCopy /\ Away' \subseteq Away \cup {buf} /\ buf # NULL
    <3>1. Called /\ buf = my[mux] /\ TxHandling
      BY <2>2 DEF JInv, OneCall, NULL, TxCopy, TxHandling
    <3>2. buf \in orphans \/ Held(buf)
      <4>1. mux \in Tasks /\ pc[mux] \in {"filled", "wait", "lastchance", "out"}
        BY <1>1, <3>1 DEF JInv, OneCall, Called, SendTypes
      <4> QED BY <3>1, <4>1 DEF JInv, SlotHeld, Held
    <3> QED BY <1>2, <2>2, <3>2 DEF JInv, AwayHeld, Held, Called
  <2>3. [Next]_vars
    BY DEF Next
  <2> QED BY <1>1, <2>1, <2>2, <2>3, AwayStep
<1>5. (ptr' \/ TxHandling') => (ptr \/ TxHandling)
  BY DEF TxStep, TxPeek, TxGet, TxCopy, TxTxed, TxTry, TxWrite, TxWriteError, TxExit, TxHandling,
     ForceComplete, slotVars
<1>6. SlotHeld'
  BY <1>2, <1>5 DEF JInv, SlotHeld, Called
<1>7. \/ UNCHANGED <<done, ret, cmd>>
      \/ cmd # FFFF /\ ret' = EIO /\ done' /\ cmd' = FFFF
  BY DEF TxStep, TxPeek, TxGet, TxCopy, TxTxed, TxTry, TxWrite, TxWriteError, TxExit,
     ForceComplete, slotVars
<1>8. HandlerHeld' /\ Taken' /\ ResultHeld'
  BY <1>2, <1>7 DEF JInv, HandlerHeld, Held, Taken, ResultHeld, Called, EIO
<1> QED BY <1>3, <1>4, <1>6, <1>8 DEF JInv

\* The steps of sdio_rx: a response that is taken was under way, and belongs to
\* the task that waits or to an orphan.
LEMMA RxHeld ==
  ASSUME IInv, JInv, RxStep PROVE JInv'
<1>1. SendTypes /\ Issued /\ SlotTypes /\ ThreadTypes /\ Flags
  BY TypesSplit DEF IInv
<1>2. UNCHANGED <<pc, my, result, mux, issued, buf, ptr, txpc, orphans>>
  BY DEF RxStep, RxTake, RxDone, sendVars, txVars, history
<1>3. OneCall' /\ OwnResponse' /\ SlotHeld' /\ orphans' \subseteq 1..Len(issued')
  BY <1>2 DEF JInv, OneCall, OwnResponse, Called, SlotHeld, TxHandling
<1>4. AwayHeld'
  <2>1. [Next]_vars
    BY DEF Next
  <2>2. ~TxCopy
    BY DEF RxStep, RxTake, RxDone, TxCopy, txVars, Running
  <2>3. Away' \subseteq Away
    BY <1>1, <2>1, <2>2, AwayStep
  <2> QED BY <1>2, <2>3 DEF JInv, AwayHeld, Held, Called
<1>5. CASE RxTake
  <2>1. cnf # <<>> /\ txpc # "exited" /\ rxpc = "idle" /\ cmd' = FFFF /\ UNCHANGED <<done, ret>>
    BY <1>5 DEF RxTake, TakenMark
  <2>2. Head(cnf) \in Away /\ issued[Head(cnf)] # FFFF
    BY <2>1, AnsweredIssued
  <2>3. Taken' /\ ResultHeld'
    BY <1>2, <2>1 DEF JInv, Taken, ResultHeld, Called
  <2>4. HandlerHeld'
    BY <1>2, <1>5, <2>1, <2>2 DEF RxTake, JInv, HandlerHeld, AwayHeld, Held, Called
  <2> QED BY <1>3, <1>4, <2>3, <2>4 DEF JInv
<1>6. CASE RxDone
  <2>1. rxpc = "confirm" /\ ret' = rxser /\ cmd' = cmd /\ rxpc' = "idle" /\ rxser' = 0
    BY <1>6 DEF RxDone
  <2>2. Taken' /\ ResultHeld' /\ HandlerHeld'
    BY <1>2, <2>1 DEF JInv, Taken, ResultHeld, HandlerHeld, Held, Called
  <2> QED BY <1>3, <1>4, <2>2 DEF JInv
<1> QED BY <1>5, <1>6 DEF RxStep

LEMMA JInvStep == ASSUME IInv, JInv, [Next]_vars PROVE JInv'
<1>1. CASE \E t \in Tasks : TaskStep(t)
  BY <1>1, CallsHeld
<1>2. CASE TxStep \/ TxExit
  BY <1>2, TxHeld
<1>3. CASE RxStep
  BY <1>3, RxHeld
<1>4. CASE DevStep
  <2>1. SendTypes /\ ThreadTypes
    BY TypesSplit DEF IInv
  <2>2. /\ UNCHANGED <<pc, my, result, mux, issued, buf, rxpc, rxser, orphans>>
        /\ UNCHANGED <<ptr, cmd, done, ret, txpc>>
    BY <1>4 DEF DevStep, DevAnswer, DevAnswerTwice, sendVars, slotVars, rxVars, txVars, history
  <2>3. Away' \subseteq Away
    <3>1. ~TxCopy
      BY <1>4, <2>2 DEF TxCopy, DevStep, DevAnswer, DevAnswerTwice, Running
    <3>2. [Next]_vars
      BY <1>4 DEF Next
    <3> QED BY <2>1, <3>1, <3>2, AwayStep
  <2>4. OneCall' /\ OwnResponse' /\ SlotHeld' /\ Taken' /\ ResultHeld'
    BY <2>2 DEF JInv, OneCall, OwnResponse, Called, SlotHeld, TxHandling, Taken, ResultHeld
  <2>5. AwayHeld' /\ HandlerHeld'
    BY <2>2, <2>3 DEF JInv, AwayHeld, HandlerHeld, Held, Called
  <2> QED BY <2>2, <2>4, <2>5 DEF JInv
<1>5. CASE Finished \/ UNCHANGED vars
  BY <1>5, HeldStays DEF Finished, vars, history
<1> QED BY <1>1, <1>2, <1>3, <1>4, <1>5 DEF Next

LEMMA JInvInit == ASSUME Init PROVE JInv
<1>1. /\ pc = [t \in Tasks |-> "idle"] /\ my = [t \in Tasks |-> 0]
      /\ result = [t \in Tasks |-> 0] /\ mux = Nobody /\ issued = <<>> /\ buf = 0
      /\ batch = <<>> /\ fw = <<>> /\ cnf = <<>> /\ rxpc = "idle" /\ rxser = 0 /\ orphans = {}
  BY DEF Init, NULL
<1>2. Away = {} /\ ~Called
  BY <1>1, NoElements DEF Away, Called
<1> QED BY <1>1, <1>2 DEF JInv, OneCall, AwayHeld, HandlerHeld, SlotHeld, Taken, ResultHeld,
           OwnResponse

THEOREM Holders == Spec => []JInv
<1>1. Init => JInv
  BY JInvInit
<1>2. IInv /\ JInv /\ [Next]_vars => JInv'
  BY JInvStep
<1> QED BY <1>1, <1>2, Invariant, PTL DEF Spec

\* What a wsm_cmd_send reports is the answer of its own command, or the one an
\* earlier call left behind, whatever the timers, the writes and the device do.
THEOREM Own == Spec => []OwnResponse
<1>1. JInv => OwnResponse
  BY DEF JInv
<1> QED BY <1>1, Holders, PTL
-----------------------------------------------------------------------------
(* Who waits while a handler runs.                                         *)

\* The handler has a task that waits for it, and so has a slot that is not marked
\* as taken while there is something sdio_rx may take.
Attended ==
  Called /\ pc[mux] \in {"wait", "lastchance"} /\ ~done /\ rxarg \in {0, my[mux]}
Awaited == Called /\ pc[mux] = "wait" /\ ~done /\ arg \in {0, my[mux]}
Still == Away = {} /\ ~ptr /\ ~TxHandling

Heard ==
  expired = 0 =>
    /\ rxpc = "confirm" => cmd = FFFF /\ Attended
    /\ cmd # FFFF => Awaited \/ Still

\* A step that changes nothing of this keeps it.
LEMMA HeardStays ==
  ASSUME Heard, expired' = expired, Away' \subseteq Away,
         (ptr' \/ TxHandling') => (ptr \/ TxHandling),
         UNCHANGED <<pc, my, mux, arg, cmd, done, rxpc, rxarg>>
  PROVE  Heard'
<1>1. (Attended' <=> Attended) /\ (Awaited' <=> Awaited)
  BY DEF Attended, Awaited, Called
<1>2. Still => Still'
  BY DEF Still
<1> QED BY <1>1, <1>2 DEF Heard

LEMMA CallsHeard ==
  ASSUME IInv, JInv, Heard, NEW t \in Tasks, TaskStep(t) PROVE Heard'
<1>1. SendTypes /\ Issued /\ SlotTypes /\ ThreadTypes /\ Flags /\ Histories
  BY TypesSplit DEF IInv
<1>2. UNCHANGED txVars /\ UNCHANGED rxVars /\ UNCHANGED devVars
  BY DEF TaskStep, Lock, Publish, Completed, TimedOut, LastChance, LastChanceExpired, Return
<1>3. Away' = Away /\ TxHandling' = TxHandling /\ rxpc' = rxpc /\ rxarg' = rxarg
  BY <1>2 DEF Away, TxHandling, txVars, devVars, rxVars
<1>4. pc[t] # "idle" => t = mux /\ Called
  BY Caller DEF JInv
<1>5. CASE Lock(t)
  <2>1. ~Called /\ UNCHANGED slotVars /\ UNCHANGED history
    BY <1>5 DEF Lock, MutexFree, Called
  <2>2. expired = 0 => rxpc # "confirm" /\ (cmd # FFFF => Still)
    BY <2>1 DEF Heard, Attended, Awaited
  <2> QED BY <1>3, <2>1, <2>2 DEF Heard, Still, slotVars, history
<1>6. CASE Publish(t)
  <2>1. t = mux /\ Called /\ pc[mux] = "filled"
    BY <1>4, <1>6 DEF Publish
  <2>2. UNCHANGED <<mux, my>> /\ UNCHANGED history
    BY <1>6 DEF Publish
  <2>3. CASE ptr
    <3>1. UNCHANGED <<pc, slotVars>>
      BY <1>6, <2>3 DEF Publish
    <3> QED BY <1>3, <2>2, <3>1, HeardStays DEF slotVars, history
  <2>4. CASE ~ptr
    <3>1. FillSlot(t) /\ pc' = [pc EXCEPT ![t] = "wait"]
      BY <1>6, <2>4 DEF Publish
    <3>2. Awaited'
      BY <1>1, <2>1, <2>2, <3>1 DEF FillSlot, Awaited, Called, NULL, SendTypes
    <3>3. expired = 0 => rxpc # "confirm"
      BY <2>1 DEF Heard, Attended
    <3> QED BY <1>3, <2>2, <3>2, <3>3 DEF Heard, history
  <2> QED BY <2>3, <2>4
<1>7. CASE Completed(t)
  <2>1. t = mux /\ Called /\ pc[mux] = "wait" /\ done
    BY <1>4, <1>7 DEF Completed, CmdDone
  <2>2. expired' = expired /\ UNCHANGED slotVars
    BY <1>7 DEF Completed
  <2>3. expired = 0 => rxpc # "confirm" /\ (cmd # FFFF => Still)
    BY <2>1 DEF Heard, Attended, Awaited
  <2> QED BY <1>3, <2>2, <2>3 DEF Heard, Still, slotVars
<1>8. CASE TimedOut(t)
  <2>1. t = mux /\ Called /\ pc[mux] = "wait" /\ ~done
    BY <1>4, <1>8 DEF TimedOut, CmdDone
  <2>2. /\ pc' = [pc EXCEPT ![t] = IF cmd = FFFF THEN "lastchance" ELSE "out"] /\ ~ptr'
        /\ UNCHANGED <<my, mux, cmd, done>>
    BY <1>8 DEF TimedOut, ClearedPtr
  <2>3. CASE Late
    <3>1. expired' # 0
      <4>1. expired' = expired + 1
        BY <1>8, <2>3 DEF TimedOut
      <4>2. expired \in Nat
        BY <1>1, WsmCmdAssumption DEF Histories
      <4> QED BY <4>1, <4>2
    <3> QED BY <3>1 DEF Heard
  <2>4. CASE ~Late
    <3>1. expired' = expired
      BY <1>8, <2>4 DEF TimedOut
    <3>2. Still'
      BY <1>3, <2>2, <2>4 DEF Late, Still
    <3>3. pc'[mux] = IF cmd = FFFF THEN "lastchance" ELSE "out"
      BY <1>1, <2>1, <2>2 DEF SendTypes
    <3>4. expired = 0 /\ rxpc = "confirm" => cmd = FFFF /\ Attended'
      BY <1>3, <2>1, <2>2, <3>3 DEF Heard, Attended, Called
    <3> QED BY <1>3, <2>2, <3>1, <3>2, <3>4 DEF Heard
  <2> QED BY <2>3, <2>4
<1>9. CASE LastChance(t)
  <2>1. t = mux /\ Called /\ pc[mux] = "lastchance" /\ done
    BY <1>4, <1>9 DEF LastChance
  <2>2. UNCHANGED slotVars /\ UNCHANGED history
    BY <1>9 DEF LastChance
  <2>3. expired = 0 => rxpc # "confirm" /\ (cmd # FFFF => Still)
    BY <2>1 DEF Heard, Attended, Awaited
  <2> QED BY <1>3, <2>2, <2>3 DEF Heard, Still, slotVars, history
<1>10. CASE LastChanceExpired(t)
  BY <1>3, <1>10, HeardStays DEF LastChanceExpired, sendVars, slotVars, history
<1>11. CASE Return(t)
  <2>1. t = mux /\ Called /\ pc[mux] = "out"
    BY <1>4, <1>11 DEF Return
  <2>2. UNCHANGED slotVars /\ UNCHANGED history
    BY <1>11 DEF Return
  <2>3. expired = 0 => rxpc # "confirm" /\ (cmd # FFFF => Still)
    BY <2>1 DEF Heard, Attended, Awaited
  <2> QED BY <1>3, <2>2, <2>3 DEF Heard, Still, slotVars, history
<1> QED BY <1>5, <1>6, <1>7, <1>8, <1>9, <1>10, <1>11 DEF TaskStep

LEMMA TxHeard ==
  ASSUME IInv, JInv, Heard, TxStep \/ TxExit PROVE Heard'
<1>1. SendTypes /\ ThreadTypes
  BY TypesSplit DEF IInv
<1>2. UNCHANGED <<pc, my, mux, rxpc, rxarg, expired>>
  BY DEF TxStep, TxPeek, TxGet, TxCopy, TxTxed, TxTry, TxWrite, TxWriteError, TxExit, sendVars,
     rxVars, history
<1>3. CASE TxPeek \/ TxGet \/ TxCopy
  <2>1. (ptr \/ TxHandling) /\ UNCHANGED slotVars
    BY <1>3 DEF TxPeek, TxGet, TxCopy, TxHandling
  <2>2. expired = 0 /\ cmd # FFFF => Awaited
    BY <2>1 DEF Heard, Still
  <2> QED BY <1>2, <2>1, <2>2 DEF Heard, Attended, Awaited, Called, slotVars
<1>4. CASE ~(TxPeek \/ TxGet \/ TxCopy)
  <2>1. Away' \subseteq Away
    BY <1>1, <1>4, AwayStep DEF Next
  <2>2. (ptr' \/ TxHandling') => (ptr \/ TxHandling)
    BY DEF TxStep, TxPeek, TxGet, TxCopy, TxTxed, TxTry, TxWrite, TxWriteError, TxExit,
       TxHandling, ForceComplete, slotVars
  <2>3. CASE UNCHANGED <<arg, cmd, done>>
    BY <1>2, <2>1, <2>2, <2>3, HeardStays
  <2>4. CASE ~UNCHANGED <<arg, cmd, done>>
    <3>1. cmd # FFFF /\ cmd' = FFFF
      BY <1>4, <2>4 DEF TxStep, TxTxed, TxTry, TxWrite, TxWriteError, TxExit, ForceComplete,
         slotVars
    <3> QED BY <1>2, <3>1 DEF Heard
  <2> QED BY <2>3, <2>4
<1> QED BY <1>3, <1>4

LEMMA RxHeard ==
  ASSUME IInv, JInv, Heard, RxStep PROVE Heard'
<1>1. UNCHANGED <<pc, my, mux, expired, done>> \/ RxDone
  BY DEF RxStep, RxTake, sendVars, history
<1>2. CASE RxTake
  <2>1. /\ cnf # <<>> /\ txpc # "exited" /\ rxpc = "idle" /\ cmd' = FFFF
        /\ UNCHANGED <<pc, my, mux, expired, done>>
    BY <1>2 DEF RxTake, TakenMark, sendVars, history
  <2>2. Head(cnf) \in Away /\ issued[Head(cnf)] # FFFF
    BY <2>1, AnsweredIssued
  <2>3. expired = 0 /\ cmd # FFFF => Awaited
    BY <2>2 DEF Heard, Still
  <2>4. rxpc' = "confirm" => issued[Head(cnf)] = cmd /\ rxarg' = arg
    BY <1>2, <2>1 DEF RxTake
  <2>5. expired = 0 /\ rxpc' = "confirm" => Attended'
    BY <2>1, <2>2, <2>3, <2>4 DEF Awaited, Attended, Called
  <2> QED BY <2>1, <2>5 DEF Heard
<1>3. CASE RxDone
  <2>1. rxpc = "confirm" /\ rxpc' = "idle" /\ UNCHANGED <<cmd, expired>>
    BY <1>3 DEF RxDone, history
  <2> QED BY <2>1 DEF Heard
<1> QED BY <1>2, <1>3 DEF RxStep

LEMMA HeardStep == ASSUME IInv, JInv, Heard, [Next]_vars PROVE Heard'
<1>1. CASE \E t \in Tasks : TaskStep(t)
  BY <1>1, CallsHeard
<1>2. CASE TxStep \/ TxExit
  BY <1>2, TxHeard
<1>3. CASE RxStep
  BY <1>3, RxHeard
<1>4. CASE DevStep \/ Finished \/ UNCHANGED vars
  <2>1. SendTypes /\ ThreadTypes
    BY TypesSplit DEF IInv
  <2>2. /\ UNCHANGED <<pc, my, mux, arg, cmd, done, rxpc, rxarg>>
        /\ UNCHANGED <<txpc, ptr, batch, bug, expired>>
    BY <1>4 DEF DevStep, DevAnswer, DevAnswerTwice, Finished, vars, sendVars, slotVars, rxVars,
       txVars, history
  <2>3. ~TxCopy \/ Away' \subseteq Away
    BY <1>4, <2>2 DEF TxCopy, DevStep, DevAnswer, DevAnswerTwice, Running, Finished, vars
  <2>4. Away' \subseteq Away
    BY <2>1, <2>3, AwayStep
  <2> QED BY <2>2, <2>4, HeardStays DEF TxHandling
<1> QED BY <1>1, <1>2, <1>3, <1>4 DEF Next

\* A handler runs with a pointer to the stack of a task that is still in
\* wsm_cmd_send, unless a timer expired while an answer was under way: no failed
\* write, repeated answer or forced completion is enough.
THEOREM ConfirmsInside == Spec => []HandlerInsideSend
<1>1. Init => Heard
  <2>1. Init => rxpc = "idle" /\ batch = <<>> /\ fw = <<>> /\ cnf = <<>> /\ ~ptr /\ txpc = "idle"
    BY DEF Init
  <2> QED BY <2>1, NoElements DEF Heard, Still, Away, TxHandling
<1>2. IInv /\ JInv /\ Heard /\ [Next]_vars => Heard'
  BY HeardStep
<1>3. IInv /\ JInv /\ Heard => HandlerInsideSend
  BY Current DEF JInv, Heard, Attended, HandlerInsideSend, ConfirmInsideSend, NULL
<1> QED BY <1>1, <1>2, <1>3, Invariant, Holders, PTL DEF Spec
-----------------------------------------------------------------------------
(* Where the command is while no task has left an answer behind.           *)

\* Between the commands nothing is under way.
Resting == ~Called \/ pc[mux] \in {"filled", "out"} => Still /\ rxpc = "idle"

\* The task of the last chance waits for the handler that took its answer.
Parting ==
  Called /\ pc[mux] = "lastchance" =>
    /\ Still
    /\ IF done THEN rxpc = "idle" ELSE cmd = FFFF /\ rxpc = "confirm"

\* The task that waits has its command in the slot, then its answer with the
\* handler, then its result.
InSlot == cmd = issued[my[mux]] /\ rxpc = "idle"
InHandler == cmd = FFFF /\ rxpc = "confirm" /\ ~ptr /\ ~TxHandling
Waiting ==
  Called /\ pc[mux] = "wait" =>
    IF done THEN cmd = FFFF /\ rxpc = "idle" /\ ~ptr /\ ~TxHandling ELSE InSlot \/ InHandler

\* sdio_tx works on the command of the task that waits, and nothing else is away.
Loading ==
  ptr \/ TxHandling =>
    /\ ptr /\ Called /\ pc[mux] = "wait" /\ ~done /\ len = my[mux]
    /\ txpc \in {"got", "copied"} => data = my[mux]
    /\ IF txpc = "copied" THEN fw = <<>> /\ cnf = <<>> ELSE Away = {}

Batches ==
  /\ txpc \in {"idle", "peeked", "got", "exited"} => batch = <<>>
  /\ tried => txpc = "write"

\* The command that is not answered yet has not been rejected.
Unspoilt ==
  /\ Called /\ pc[mux] \in {"filled", "wait", "lastchance"} /\ (pc[mux] = "filled" \/ ~done) =>
       my[mux] \notin ignored
  /\ ignored \subseteq 1..Len(issued)

Placed ==
  orphans = {} =>
    Resting /\ Parting /\ Waiting /\ Loading /\ Batches /\ Unspoilt /\ bug = ""

\* Without an orphan what is under way is the command of the task that waits.
LEMMA AwayCurrent ==
  ASSUME JInv, orphans = {}
  PROVE  /\ Away \subseteq {my[mux]}
         /\ Away # {} => Called /\ pc[mux] \in {"filled", "wait"}
  BY DEF JInv, AwayHeld, Held

\* The steps of the calls.
LEMMA CallsPlaced ==
  ASSUME IInv, JInv, Placed, NEW t \in Tasks, TaskStep(t) PROVE Placed'
<1>1. SendTypes /\ Issued /\ SlotTypes /\ ThreadTypes /\ Flags /\ Histories
  BY TypesSplit DEF IInv
<1>2. UNCHANGED txVars /\ UNCHANGED rxVars /\ UNCHANGED devVars
  BY DEF TaskStep, Lock, Publish, Completed, TimedOut, LastChance, LastChanceExpired, Return
<1>3. /\ Away' = Away /\ TxHandling' = TxHandling
      /\ UNCHANGED <<rxpc, rxser, txpc, batch, tried, data, ignored, fw, cnf>>
  BY <1>2 DEF Away, TxHandling, txVars, devVars, rxVars
<1>4. pc[t] # "idle" => t = mux /\ Called
  BY Caller DEF JInv
<1>5. SUFFICES ASSUME orphans' = {}
               PROVE  /\ Resting' /\ Parting' /\ Waiting' /\ Loading' /\ Batches' /\ Unspoilt'
                      /\ bug' = ""
  BY DEF Placed
<1>6. orphans = {}
  BY <1>5 DEF TaskStep, Lock, Publish, Completed, TimedOut, LastChance, LastChanceExpired, Return,
     history
<1>7. Resting /\ Parting /\ Waiting /\ Loading /\ Batches /\ Unspoilt /\ bug = ""
  BY <1>6 DEF Placed
<1>8. Batches'
  BY <1>3, <1>7 DEF Batches
<1>9. CASE Lock(t)
  <2>1. /\ ~Called /\ mux' = t /\ my' = [my EXCEPT ![t] = Len(issued) + 1]
        /\ pc' = [pc EXCEPT ![t] = "filled"] /\ UNCHANGED slotVars /\ UNCHANGED bug
    BY <1>9 DEF Lock, MutexFree, Called
  <2>2. Called' /\ pc'[mux'] = "filled" /\ my'[mux'] = Len(issued) + 1
    BY <1>1, <2>1, WsmCmdAssumption DEF SendTypes, Called
  <2>3. Still' /\ rxpc' = "idle"
    BY <1>3, <1>7, <2>1 DEF Resting, Still, slotVars
  <2>4. Unspoilt'
    <3>1. PICK id \in Ids : issued' = Append(issued, id)
      BY <1>9 DEF Lock
    <3>2. Len(issued') = Len(issued) + 1 /\ Len(issued) \in Nat
      BY <1>1, <3>1, AppendProperties, LenProperties DEF SendTypes
    <3>3. Len(issued) + 1 \notin 1..Len(issued) /\ 1..Len(issued) \subseteq 1..(Len(issued) + 1)
      BY <3>2
    <3>4. ignored' \subseteq 1..Len(issued)
      BY <1>3, <1>7 DEF Unspoilt
    <3> QED BY <2>2, <3>2, <3>3, <3>4 DEF Unspoilt
  <2> QED BY <1>7, <1>8, <2>1, <2>2, <2>3, <2>4 DEF Resting, Parting, Waiting, Loading, Still
<1>10. CASE Publish(t)
  <2>1. t = mux /\ Called /\ pc[mux] = "filled"
    BY <1>4, <1>10 DEF Publish
  <2>2. Still /\ rxpc = "idle"
    BY <1>7, <2>1 DEF Resting
  <2>3. /\ FillSlot(t) /\ pc' = [pc EXCEPT ![t] = "wait"] /\ UNCHANGED <<my, mux, issued>>
        /\ bug' = bug
    BY <1>10, <2>2 DEF Publish, Still
  <2>4. /\ ptr' /\ cmd' = issued'[my'[mux']] /\ len' = my'[mux'] /\ ~done'
        /\ Called' /\ pc'[mux'] = "wait"
    BY <1>1, <2>1, <2>3 DEF FillSlot, Called, SendTypes
  <2>5. Unspoilt'
    BY <1>3, <1>7, <2>1, <2>3 DEF Unspoilt
  <2>6. Waiting'
    BY <1>3, <2>2, <2>4 DEF Waiting, InSlot
  <2>7. Loading'
    BY <1>3, <2>2, <2>4 DEF Loading, Still, TxHandling
  <2> QED BY <1>7, <1>8, <2>3, <2>4, <2>5, <2>6, <2>7 DEF Resting, Parting
<1>11. CASE Completed(t)
  <2>1. t = mux /\ Called /\ pc[mux] = "wait" /\ done
    BY <1>4, <1>11 DEF Completed, CmdDone
  <2>2. /\ pc' = [pc EXCEPT ![t] = "out"] /\ UNCHANGED <<my, mux, issued, bug>>
        /\ UNCHANGED slotVars /\ ~ptr /\ ~TxHandling /\ my[t] \notin Away
    BY <1>5, <1>11 DEF Completed
  <2>3. pc'[mux'] = "out" /\ Called'
    BY <1>1, <2>1, <2>2 DEF SendTypes, Called
  <2>4. Still' /\ rxpc' = "idle"
    BY <1>3, <1>6, <1>7, <2>1, <2>2, AwayCurrent DEF Still, Waiting, slotVars
  <2>5. Unspoilt'
    BY <1>3, <1>7, <2>2, <2>3 DEF Unspoilt
  <2> QED BY <1>7, <1>8, <2>2, <2>3, <2>4, <2>5 DEF Resting, Parting, Waiting, Loading, Still
<1>12. CASE TimedOut(t)
  <2>1. t = mux /\ Called /\ pc[mux] = "wait" /\ ~done
    BY <1>4, <1>12 DEF TimedOut, CmdDone
  <2>2. /\ pc' = [pc EXCEPT ![t] = IF cmd = FFFF THEN "lastchance" ELSE "out"] /\ ~ptr'
        /\ UNCHANGED <<my, mux, issued, bug>> /\ UNCHANGED <<cmd, done>>
        /\ ~TxHandling /\ my[t] \notin Away
    BY <1>5, <1>12 DEF TimedOut, ClearedPtr
  <2>3. pc'[mux'] = (IF cmd = FFFF THEN "lastchance" ELSE "out") /\ Called'
    BY <1>1, <2>1, <2>2 DEF SendTypes, Called
  <2>4. Still'
    BY <1>3, <1>6, <2>1, <2>2, AwayCurrent DEF Still
  <2>5. issued[my[mux]] # FFFF
    BY <2>1, Current DEF JInv
  <2>6. IF cmd = FFFF THEN rxpc = "confirm" ELSE rxpc = "idle"
    BY <1>7, <2>1, <2>5 DEF Waiting, InSlot, InHandler
  <2>7. Unspoilt'
    BY <1>3, <1>7, <2>1, <2>2, <2>3 DEF Unspoilt
  <2>8. Loading' /\ Waiting'
    BY <2>3, <2>4 DEF Loading, Waiting, Still
  <2>9. Resting' /\ Parting'
    BY <1>3, <2>1, <2>2, <2>3, <2>4, <2>6 DEF Resting, Parting
  <2> QED BY <1>7, <1>8, <2>2, <2>7, <2>8, <2>9
<1>13. CASE LastChance(t)
  <2>1. t = mux /\ Called /\ pc[mux] = "lastchance" /\ done
    BY <1>4, <1>13 DEF LastChance
  <2>2. /\ pc' = [pc EXCEPT ![t] = "out"] /\ UNCHANGED <<my, mux, issued, bug>>
        /\ UNCHANGED slotVars
    BY <1>13 DEF LastChance
  <2>3. pc'[mux'] = "out" /\ Called'
    BY <1>1, <2>1, <2>2 DEF SendTypes, Called
  <2>4. Still' /\ rxpc' = "idle"
    BY <1>3, <1>7, <2>1, <2>2 DEF Parting, Still, slotVars
  <2>5. Unspoilt'
    BY <1>3, <1>7, <2>2, <2>3 DEF Unspoilt
  <2> QED BY <1>7, <1>8, <2>2, <2>3, <2>4, <2>5 DEF Resting, Parting, Waiting, Loading, Still
<1>14. CASE LastChanceExpired(t)
  <2>1. t = mux /\ Called /\ pc[mux] = "lastchance" /\ ~done /\ rxpc = "idle"
    BY <1>4, <1>14 DEF LastChanceExpired
  <2> QED BY <1>7, <2>1 DEF Parting
<1>15. CASE Return(t)
  <2>1. t = mux /\ Called /\ pc[mux] = "out"
    BY <1>4, <1>15 DEF Return
  <2>2. ~Called' /\ UNCHANGED slotVars /\ UNCHANGED <<issued, bug>>
    BY <1>15 DEF Return, Called
  <2>3. Still' /\ rxpc' = "idle"
    BY <1>3, <1>7, <2>1, <2>2 DEF Resting, Still, slotVars
  <2> QED BY <1>3, <1>7, <1>8, <2>2, <2>3
          DEF Resting, Parting, Waiting, Loading, Still, Unspoilt
<1> QED BY <1>9, <1>10, <1>11, <1>12, <1>13, <1>14, <1>15 DEF TaskStep
\* The steps of sdio_tx.
LEMMA TxPlaced ==
  ASSUME IInv, JInv, Placed, TxStep \/ TxExit PROVE Placed'
<1>1. SendTypes /\ ThreadTypes /\ Flags
  BY TypesSplit DEF IInv
<1>2. UNCHANGED <<pc, my, mux, issued, buf, rxpc, rxser, ignored, orphans>>
  BY DEF TxStep, TxPeek, TxGet, TxCopy, TxTxed, TxTry, TxWrite, TxWriteError, TxExit, sendVars,
     rxVars, history
<1>3. SUFFICES ASSUME orphans = {}
               PROVE  /\ Resting' /\ Parting' /\ Waiting' /\ Loading' /\ Batches' /\ Unspoilt'
                      /\ bug' = ""
  BY <1>2 DEF Placed
<1>4. Resting /\ Parting /\ Waiting /\ Loading /\ Batches /\ Unspoilt /\ bug = ""
  BY <1>3 DEF Placed
<1>5. done => done'
  BY DEF TxStep, TxPeek, TxGet, TxCopy, TxTxed, TxTry, TxWrite, TxWriteError, TxExit,
     ForceComplete, slotVars
<1>6. Unspoilt'
  BY <1>1, <1>2, <1>4, <1>5 DEF Unspoilt, Called, Flags
<1>7. CASE TxPeek \/ TxGet \/ TxCopy \/ TxTxed
  <2>1. ptr \/ TxHandling
    BY <1>7 DEF TxPeek, TxGet, TxCopy, TxTxed, TxHandling
  <2>2. /\ ptr /\ Called /\ pc[mux] = "wait" /\ ~done /\ len = my[mux] /\ InSlot /\ ~tried
        /\ txpc \in {"got", "copied"} => data = my[mux]
        /\ IF txpc = "copied" THEN fw = <<>> /\ cnf = <<>> ELSE Away = {}
    BY <1>4, <1>7, <2>1 DEF Loading, Waiting, InHandler, Batches, TxPeek, TxGet, TxCopy, TxTxed
  <2>3. buf = my[mux] /\ my[mux] # 0
    BY <2>2, Current DEF JInv, OneCall
  <2>4. UNCHANGED <<arg, cmd, len, done, tried, fw, cnf>>
    BY <1>7 DEF TxPeek, TxGet, TxCopy, TxTxed, slotVars, devVars
  <2>5. Called' /\ pc'[mux'] = "wait" /\ InSlot' /\ ~done' /\ Resting' /\ Parting' /\ Waiting'
    BY <1>2, <2>2, <2>4 DEF Called, InSlot, Resting, Parting, Waiting
  <2>6. CASE TxPeek \/ TxGet
    <3>1. /\ txpc' \in {"peeked", "got"} /\ ptr' /\ batch' = batch /\ bug' = "" /\ txpc # "copied"
          /\ txpc' = "got" => data' = len
          /\ txpc \in {"idle", "peeked"}
      BY <1>4, <2>2, <2>6 DEF TxPeek, TxGet, slotVars
    <3>2. Away' = Away
      BY <2>4, <3>1 DEF Away
    <3>3. Loading' /\ Batches'
      BY <1>2, <1>4, <2>2, <2>4, <2>5, <3>1, <3>2 DEF Loading, Batches
    <3> QED BY <1>6, <2>5, <3>1, <3>3
  <2>7. CASE TxCopy
    <3>1. txpc' = "copied" /\ ptr' /\ bug' = "" /\ txpc = "got" /\ data' = data
      BY <1>4, <2>2, <2>3, <2>7 DEF TxCopy, NULL, slotVars
    <3>2. fw = <<>> /\ cnf = <<>>
      <4>1. Elements(fw) = {} /\ Elements(cnf) = {}
        BY <2>2, <3>1 DEF Away
      <4>2. ASSUME NEW s \in Seq(Nat), Elements(s) = {} PROVE s = <<>>
        BY <4>2, ElementsOfTail
      <4> QED BY <1>1, <4>1, <4>2 DEF ThreadTypes
    <3>3. Loading' /\ Batches'
      BY <1>2, <2>2, <2>4, <2>5, <3>1, <3>2 DEF Loading, Batches
    <3> QED BY <1>6, <2>5, <3>1, <3>3
  <2>8. CASE TxTxed
    <3>1. ~ptr' /\ txpc' = "write" /\ bug' = ""
      BY <1>4, <2>2, <2>8 DEF TxTxed
    <3>2. Loading' /\ Batches'
      BY <3>1 DEF Loading, Batches, TxHandling
    <3> QED BY <1>6, <2>5, <3>1, <3>2
  <2> QED BY <1>7, <2>6, <2>7, <2>8
<1>8. CASE TxTry \/ TxWrite \/ TxWriteError \/ TxExit
  <2>1. /\ ~TxHandling /\ ~TxHandling' /\ bug' = ""
        /\ ptr' => ptr
        /\ txpc # "copied" /\ txpc' # "copied"
    BY <1>4, <1>8 DEF TxTry, TxWrite, TxWriteError, TxExit, AtWrite, TxHandling, ForceComplete,
       slotVars
  <2>2. Away' \subseteq Away
    <3>1. ~TxCopy
      BY <1>8, <2>1 DEF TxCopy, TxHandling
    <3>2. [Next]_vars
      BY DEF Next
    <3> QED BY <1>1, <3>1, <3>2, AwayStep
  <2>3. Still => Still'
    BY <2>1, <2>2 DEF Still
  <2>4. Batches'
    <3>1. CASE TxTry
      BY <3>1 DEF Batches, TxTry
    <3>2. CASE TxWrite \/ TxWriteError
      BY <3>2 DEF Batches, TxWrite, TxWriteError
    <3>3. CASE TxExit
      BY <1>4, <3>3 DEF Batches, TxExit
    <3> QED BY <1>8, <3>1, <3>2, <3>3
  <2>5. Resting'
    BY <1>2, <1>4, <2>3 DEF Resting, Called
  <2>6. \/ UNCHANGED <<cmd, done, ptr, len>>
        \/ cmd # FFFF /\ cmd' = FFFF /\ done' /\ ~ptr' /\ len' = len
    BY <1>8 DEF TxTry, TxWrite, TxWriteError, TxExit, ForceComplete, slotVars
  <2>7. Parting'
    <3>1. CASE UNCHANGED <<cmd, done, ptr, len>>
      BY <1>2, <1>4, <2>3, <3>1 DEF Parting, Called
    <3>2. CASE cmd # FFFF /\ done'
      BY <1>2, <1>4, <2>3, <3>2 DEF Parting, Called
    <3> QED BY <2>6, <3>1, <3>2
  <2>8. Waiting' /\ Loading'
    <3>1. CASE UNCHANGED <<cmd, done, ptr, len>>
      <4>1. Waiting'
        BY <1>2, <1>4, <2>1, <3>1 DEF Waiting, InSlot, InHandler, Called
      <4>2. Loading'
        BY <1>2, <1>4, <2>1, <2>2, <3>1 DEF Loading, Called, TxHandling
      <4> QED BY <4>1, <4>2
    <3>2. CASE cmd # FFFF /\ cmd' = FFFF /\ done' /\ ~ptr'
      <4>1. Called /\ pc[mux] = "wait" => rxpc = "idle"
        BY <1>4, <3>2 DEF Waiting, InSlot, InHandler
      <4> QED BY <1>2, <2>1, <3>2, <4>1 DEF Waiting, Loading, Called
    <3> QED BY <2>6, <3>1, <3>2
  <2> QED BY <1>6, <2>1, <2>4, <2>5, <2>7, <2>8
<1> QED BY <1>7, <1>8 DEF TxStep

\* The steps of sdio_rx: the response that comes is that of the task that waits,
\* and the slot describes it.
LEMMA RxPlaced ==
  ASSUME IInv, JInv, Placed, RxStep PROVE Placed'
<1>1. SendTypes /\ ThreadTypes /\ Flags
  BY TypesSplit DEF IInv
<1>2. /\ UNCHANGED <<pc, my, mux, issued, orphans, ptr, len, txpc, data, batch, tried, fw>>
      /\ bug' = bug /\ TxHandling' = TxHandling
  <2>1. UNCHANGED <<pc, my, mux, issued, orphans, ptr, len, txpc, data, batch, tried, fw, bug>>
    BY DEF RxStep, RxTake, RxDone, sendVars, txVars, devVars, history
  <2> QED BY <2>1 DEF TxHandling
<1>3. SUFFICES ASSUME orphans = {}
               PROVE  /\ Resting' /\ Parting' /\ Waiting' /\ Loading' /\ Batches' /\ Unspoilt'
                      /\ bug' = ""
  BY <1>2 DEF Placed
<1>4. Resting /\ Parting /\ Waiting /\ Loading /\ Batches /\ Unspoilt /\ bug = ""
  BY <1>3 DEF Placed
<1>5. Away' \subseteq Away
  <2>1. ~TxCopy
    BY DEF RxStep, RxTake, RxDone, TxCopy, txVars, Running
  <2>2. [Next]_vars
    BY DEF Next
  <2> QED BY <1>1, <2>1, <2>2, AwayStep
<1>6. Batches'
  BY <1>2, <1>4 DEF Batches
<1>7. CASE RxTake
  <2>1. cnf # <<>> /\ txpc # "exited" /\ rxpc = "idle" /\ cmd' = FFFF /\ done' = done
    BY <1>7 DEF RxTake, TakenMark
  <2>2. Head(cnf) \in Away /\ Head(cnf) \in 1..Len(issued) /\ issued[Head(cnf)] # FFFF
    BY <2>1, AnsweredIssued
  <2>3. Head(cnf) = my[mux] /\ Called /\ pc[mux] = "wait" /\ ~ptr /\ ~TxHandling
    BY <1>3, <1>4, <2>1, <2>2, AwayCurrent DEF Resting, Still, Loading
  <2>4. Called' /\ pc'[mux'] = "wait" /\ Resting' /\ Parting' /\ Loading'
    BY <1>2, <2>3 DEF Called, Resting, Parting, Loading
  <2>5. CASE done
    <3>1. cmd = FFFF
      BY <1>4, <2>3, <2>5 DEF Waiting
    <3>2. rxpc' = "idle" /\ ignored' = ignored \cup {Head(cnf)}
      BY <1>7, <2>1, <2>2, <3>1 DEF RxTake
    <3>3. Waiting' /\ Unspoilt'
      BY <1>2, <1>4, <2>1, <2>2, <2>3, <2>4, <2>5, <3>2 DEF Waiting, Unspoilt
    <3> QED BY <1>2, <1>4, <1>6, <2>4, <3>3
  <2>6. CASE ~done
    <3>1. cmd = issued[my[mux]]
      BY <1>4, <2>1, <2>3, <2>6 DEF Waiting, InSlot, InHandler
    <3>2. rxpc' = "confirm" /\ ignored' = ignored
      BY <1>7, <2>3, <3>1 DEF RxTake
    <3>3. Waiting' /\ Unspoilt'
      BY <1>2, <1>4, <2>1, <2>3, <2>4, <2>6, <3>2 DEF Waiting, InHandler, Unspoilt
    <3> QED BY <1>2, <1>4, <1>6, <2>4, <3>3
  <2> QED BY <2>5, <2>6
<1>8. CASE RxDone
  <2>1. /\ rxpc = "confirm" /\ rxpc' = "idle" /\ done' /\ UNCHANGED <<cmd, ignored, cnf>>
    BY <1>8 DEF RxDone, devVars
  <2>2. Called /\ pc[mux] \in {"wait", "lastchance"}
    BY <1>1, <1>4, <2>1 DEF Resting, JInv, OneCall, Called, SendTypes
  <2>3. cmd = FFFF /\ ~ptr /\ ~TxHandling
    BY <1>1, <1>4, <2>1, <2>2, Current DEF Parting, Waiting, InSlot, InHandler, Still, JInv
  <2>4. Resting'
    BY <1>2, <2>2 DEF Resting, Called
  <2>5. Parting' /\ Waiting' /\ Loading'
    BY <1>2, <1>4, <1>5, <2>1, <2>3 DEF Parting, Waiting, Loading, Still, Called
  <2>6. Unspoilt'
    BY <1>2, <1>4, <2>1, <2>2 DEF Unspoilt, Called
  <2> QED BY <1>2, <1>4, <1>6, <2>4, <2>5, <2>6
<1> QED BY <1>7, <1>8 DEF RxStep

LEMMA PlacedStep == ASSUME IInv, JInv, Placed, [Next]_vars PROVE Placed'
<1>1. CASE \E t \in Tasks : TaskStep(t)
  BY <1>1, CallsPlaced
<1>2. CASE TxStep \/ TxExit
  BY <1>2, TxPlaced
<1>3. CASE RxStep
  BY <1>3, RxPlaced
<1>4. CASE DevStep \/ Finished \/ UNCHANGED vars
  <2>1. /\ UNCHANGED <<pc, my, mux, issued, orphans, ignored, bug>> /\ UNCHANGED slotVars
        /\ UNCHANGED <<txpc, data, batch, tried, rxpc>>
    BY <1>4 DEF DevStep, DevAnswer, DevAnswerTwice, Finished, vars, sendVars, rxVars, txVars,
       history
  <2>2. UNCHANGED <<fw, cnf>> \/ fw # <<>>
    BY <1>4 DEF DevStep, DevAnswer, DevAnswerTwice, Finished, vars, devVars
  <2>3. Away' \subseteq Away
    <3>1. SendTypes /\ ThreadTypes
      BY TypesSplit DEF IInv
    <3>2. ~TxCopy \/ UNCHANGED <<fw, cnf>>
      BY <1>4, <2>1 DEF TxCopy, DevStep, DevAnswer, DevAnswerTwice, Finished, vars, devVars
    <3> QED BY <2>1, <3>1, <3>2, AwayStep DEF Away
  <2>4. ASSUME orphans = {}, Placed PROVE Resting' /\ Parting' /\ Waiting' /\ Loading'
    <3>1. Resting /\ Parting /\ Waiting /\ Loading
      BY <2>4 DEF Placed
    <3>2. Resting' /\ Parting' /\ Waiting'
      BY <2>1, <2>3, <3>1
         DEF Resting, Parting, Waiting, InSlot, InHandler, Still, Called, TxHandling, slotVars
    <3>3. Loading'
      BY <2>1, <2>2, <2>3, <3>1 DEF Loading, Called, TxHandling, slotVars
    <3> QED BY <3>2, <3>3
  <2>5. (orphans = {} /\ Placed) => Batches' /\ Unspoilt' /\ bug' = ""
    BY <2>1 DEF Placed, Batches, Unspoilt, Called, slotVars
  <2> QED BY <2>1, <2>4, <2>5 DEF Placed
<1> QED BY <1>1, <1>2, <1>3, <1>4 DEF Next

THEOREM OnePlace == Spec => []Placed
<1>1. Init => Placed
  <2>1. ASSUME Init
        PROVE  /\ mux = Nobody /\ rxpc = "idle" /\ batch = <<>> /\ fw = <<>> /\ cnf = <<>> /\ ~ptr
               /\ txpc = "idle" /\ ~tried /\ ignored = {} /\ bug = ""
    BY <2>1 DEF Init
  <2>2. ASSUME Init PROVE Still /\ ~Called
    BY <2>1, <2>2, NoElements DEF Still, Away, TxHandling, Called
  <2> QED BY <2>1, <2>2
          DEF Placed, Resting, Parting, Waiting, Loading, Batches, Unspoilt, Still
<1>2. IInv /\ JInv /\ Placed /\ [Next]_vars => Placed'
  BY PlacedStep
<1> QED BY <1>1, <1>2, Invariant, Holders, PTL DEF Spec

\* No response of a command that is waited for is rejected, before a task has left
\* an answer behind.
THEOREM Accepted == Spec => []ConfirmAccepted
<1>1. IInv /\ JInv /\ Placed => ConfirmAccepted
  BY Caller DEF JInv, Placed, Unspoilt, ConfirmAccepted
<1> QED BY <1>1, Invariant, Holders, OnePlace, PTL

\* sdio_tx copies the command it was given, whole, before a task has left an
\* answer behind.
THEOREM Copies == Spec => []CopiesTheCommand
<1>1. ASSUME IInv, JInv, Placed, orphans = {} PROVE CopiesTheCommand
  <2>1. txpc \in {"got", "copied"} => ptr /\ buf = data
    BY <1>1 DEF Placed, Loading, TxHandling, JInv, OneCall
  <2>2. ASSUME ~tried, NEW i \in DOMAIN batch
        PROVE  \E t \in Tasks : my[t] = batch[i] /\ pc[t] # "idle"
    <3>1. batch[i] \in Elements(batch)
      BY DEF Elements
    <3>2. batch[i] \in Away
      BY <1>1, <2>2, <3>1, NoElements DEF Placed, Batches, Away
    <3>3. Held(batch[i])
      BY <1>1, <3>2 DEF JInv, AwayHeld
    <3> QED BY <1>1, <3>3, Current DEF JInv, Held
  <2> QED BY <2>1, <2>2 DEF CopiesTheCommand
<1>2. orphans # {} => CopiesTheCommand
  BY DEF CopiesTheCommand
<1>3. IInv /\ JInv /\ Placed => CopiesTheCommand
  BY <1>1, <1>2
<1> QED BY <1>3, Invariant, Holders, OnePlace, PTL

\* No BUG_ON of the channel fires before a task has left an answer behind: the race
\* of the timer with the handler, forced completions and repeated answers are not
\* enough.
THEOREM NoBugFires == Spec => []NoBug
<1>1. Placed => NoBug
  BY DEF Placed, NoBug
<1> QED BY <1>1, OnePlace, PTL
=============================================================================

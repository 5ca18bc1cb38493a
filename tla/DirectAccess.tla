----------------------------- MODULE DirectAccess --------------------------
(***************************************************************************)
(* The direct access to the chip's registers (hwio_sdio.c):                 *)
(* atbm_direct_read_reg_32 and atbm_direct_write_reg_32 put the CONFIG      *)
(* register in access mode, use the AHB window and put CONFIG back.  The    *)
(* caller is atbm_core_probe (main.c), which reads and writes two registers *)
(* to raise the chip's interrupt and looks at no result.                    *)
(*                                                                          *)
(* A register is the set of its bits that are one.  What the other threads  *)
(* do to CONFIG meanwhile is in RxPath.                                     *)
(***************************************************************************)
EXTENDS Naturals, Sequences

CONSTANTS
  MaxFails,  \* bound: bus operations that fail
  Slow,      \* the chip may keep the prefetch bit set
  Polls      \* the reads of CONFIG that wait for it (20)

ASSUME DirectAccessAssumption ==
  MaxFails \in Nat /\ Slow \in BOOLEAN /\ Polls \in Nat \ {0}

VARIABLES
  accessPc,      \* the step of the access, or "call" and "end" between accesses
  call,    \* the access the probe is at
  orig,    \* orig_config_data
  ret,     \* "ok" or "error"
  polls,   \* i
  val32,   \* the probe's variable
  config,  \* the CONFIG register
  window,  \* the value fetched for the data port
  reg,     \* the chip's registers
  fails    \* bus operations that failed

accessVars == <<orig, ret, polls>>
chipVars == <<config, window, reg>>
directVars == <<accessPc, call, accessVars, val32, chipVars, fails>>

Bits == {"irq", "other"}
Registers == {"status", "interrupt"}
AccessMode == "ACCESS_MODE"
Prefetch == "AHB_PRFETCH"
First == [status |-> {"other"}, interrupt |-> {"other"}]
Unknown == {}

\* The accesses atbm_core_probe makes: what, where, the bits set in between.
Calls ==
  << [op |-> "read", at |-> "status", or |-> {}],
     [op |-> "write", at |-> "status", or |-> {}],
     [op |-> "read", at |-> "interrupt", or |-> {"irq"}],
     [op |-> "write", at |-> "interrupt", or |-> {}] >>
Now == Calls[call]

AccessInit ==
  /\ accessPc = "call" /\ call = 1 /\ orig = {} /\ ret = "ok" /\ polls = 0
  /\ val32 = {} /\ config = {} /\ window = Unknown /\ reg = First /\ fails = 0

-----------------------------------------------------------------------------
(* A bus operation succeeds, or fails before or after it reached the chip. *)

Succeeds == ret' = "ok" /\ UNCHANGED fails
AccessFails == fails < MaxFails /\ fails' = fails + 1 /\ ret' = "error"

\* CONFIG is written with c, and the access goes on at ok or at bad.
WriteConfig(from, c, ok, bad) ==
  /\ accessPc = from
  /\ \/ Succeeds /\ config' = c /\ accessPc' = ok
     \/ AccessFails /\ config' \in {config, c} /\ accessPc' = bad
  /\ UNCHANGED <<call, orig, polls, val32, window, reg>>

Step(from, ok, bad) ==
  /\ accessPc = from
  /\ \/ Succeeds /\ accessPc' = ok
     \/ AccessFails /\ accessPc' = bad

\* The first read of CONFIG; after a failure there is nothing to put back.
ReadConfig ==
  /\ Step("call", "mode", "end")
  /\ orig' = IF accessPc' = "mode" THEN config ELSE {}
  /\ UNCHANGED <<call, polls, val32, chipVars>>

SetMode == WriteConfig("mode", config \cup {AccessMode}, "address", "restore")

\* atbm_indirect_read and atbm_ahb_write begin with the address.
Address ==
  /\ Step("address", IF Now.op = "read" THEN "config" ELSE "data", "restore")
  /\ polls' = 0
  /\ UNCHANGED <<call, orig, val32, chipVars>>

\* CONFIG is read for the prefetch bit and written with it.
ReadAgain ==
  /\ Step("config", "prefetch", "restore")
  /\ UNCHANGED <<call, orig, polls, val32, chipVars>>
SetPrefetch == WriteConfig("prefetch", config \cup {Prefetch}, "poll", "restore")

\* The reads of CONFIG are at their end.
Polled(n) == n + 1 = Polls

Poll ==
  /\ \/ /\ accessPc = "poll" /\ Succeeds
        /\ \/ /\ config' = config \ {Prefetch} /\ window' = reg[Now.at]
              /\ accessPc' = "data" /\ UNCHANGED polls
           \/ /\ Slow /\ UNCHANGED <<config, window>>
              /\ IF Polled(polls)
                 THEN accessPc' = "restore" /\ UNCHANGED polls
                 ELSE accessPc' = "poll" /\ polls' = (polls + 1) % Polls
     \/ accessPc = "poll" /\ AccessFails /\ accessPc' = "restore" /\ UNCHANGED <<polls, config, window>>
  /\ UNCHANGED <<call, orig, val32, reg>>

\* The data port: val32 gets what was fetched, or the register gets val32.
Data ==
  /\ accessPc = "data" /\ accessPc' = "restore"
  /\ \/ /\ Succeeds
        /\ IF Now.op = "read"
           THEN val32' = window /\ UNCHANGED reg
           ELSE reg' = [reg EXCEPT ![Now.at] = val32] /\ UNCHANGED val32
     \/ /\ AccessFails /\ UNCHANGED val32
        /\ IF Now.op = "read"
           THEN UNCHANGED reg
           ELSE reg' \in {reg, [reg EXCEPT ![Now.at] = val32]}
  /\ UNCHANGED <<call, orig, polls, config, window>>

\* `out`: a failure to put CONFIG back goes to `out` again.
AfterFailure == "restore"

\* The result of the access is that of this write.
Restore == WriteConfig("restore", orig, "end", AfterFailure)

Raised(v) == v \cup Now.or

\* The next access of the probe.
NextCall ==
  /\ accessPc = "end" /\ val32' = Raised(val32)
  /\ IF call < Len(Calls) THEN accessPc' = "call" /\ call' = call + 1
                          ELSE accessPc' = "over" /\ UNCHANGED call
  /\ UNCHANGED <<accessVars, chipVars, fails>>

AccessNext ==
  \/ ReadConfig
  \/ SetMode
  \/ Address
  \/ ReadAgain
  \/ SetPrefetch
  \/ Poll
  \/ Data
  \/ Restore
  \/ NextCall

AccessSpec == AccessInit /\ [][AccessNext]_directVars

-----------------------------------------------------------------------------
\* The variables have their types.
AccessTypeOK ==
  /\ accessPc \in {"call", "mode", "address", "config", "prefetch", "poll", "data",
             "restore", "end", "over"}
  /\ call \in 1 .. Len(Calls) /\ ret \in {"ok", "error"} /\ polls \in 0 .. Polls - 1
  /\ {orig, config} \subseteq SUBSET {AccessMode, Prefetch}
  /\ {val32, window} \subseteq SUBSET Bits
  /\ reg \in [Registers -> SUBSET Bits] /\ fails \in 0 .. MaxFails

\* Between two accesses CONFIG is as it was, whichever operations failed and
\* whether or not a failed one reached the chip: the data port of the frames
\* does not work in access mode.
ModeLeft == accessPc \in {"call", "end", "over"} => config = {}

\* Once begun, the accesses of the probe come to an end, though a failed restore
\* is tried again without limit and the chip may never say that it has fetched
\* the value.
Ends == accessPc # "call" ~> accessPc = "over"
=============================================================================

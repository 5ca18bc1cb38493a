------------------------------ MODULE EchoList ------------------------------
(***************************************************************************)
(* The sysfs commands of module_fs.c.  A write to atbm_cmd runs a command,  *)
(* which writes its answer into a buffer of its own and is put on           *)
(* atbm_cmd_echo_ready_list; a read of atbm_cmd prints the answers and       *)
(* empties the list.  enable_echo sets how many answers wait (num_echo, -1  *)
(* for any number), and whether the other commands answer at all.           *)
(*                                                                          *)
(* Each operation runs under atbm_modulefs_lock.  The text of an answer is  *)
(* abstracted to the fact that there is a buffer.                           *)
(***************************************************************************)
EXTENDS Integers, Sequences

CONSTANTS
  Plain,    \* commands other than the two that follow
  Parsing,  \* those of them that take parameters, echo=enable among them
  Enable,   \* the command enable_echo
  Disable,  \* the command disable_echo
  EchoLimits    \* the values of num_echo that are written

Cmds == Plain \union {Enable, Disable}

ASSUME EchoListAssumption ==
  /\ EchoLimits \subseteq Nat /\ Parsing \subseteq Plain
  /\ Enable # Disable /\ {Enable, Disable} \intersect Plain = {}

VARIABLES
  list,            \* atbm_cmd_echo_ready_list
  ready_list_num,
  echo_ready,      \* of each command
  show_buff,       \* the commands whose echo.show_buff is allocated
  enable_echo, num_echo,
  warned           \* a WARN_ON fired

setVars == <<enable_echo, num_echo>>
echoVars == <<list, ready_list_num, echo_ready, show_buff, setVars, warned>>

EchoInit ==
  /\ list = <<>> /\ ready_list_num = 0
  /\ echo_ready = [c \in Cmds |-> FALSE] /\ show_buff = {}
  /\ enable_echo = TRUE /\ num_echo = -1 /\ warned = FALSE

On(c) == \E i \in 1..Len(list) : list[i] = c

\* list_del
Place(c) == CHOOSE i \in 1..Len(list) : list[i] = c
Without(c) == [j \in 1..Len(list) - 1 |-> IF j < Place(c) THEN list[j] ELSE list[j + 1]]

-----------------------------------------------------------------------------

Left == ready_list_num - 1

Kept(c) == show_buff \ {c}

\* atbm_store_cmd_echo_done and atbm_store_cmd_deinit_show
Done(c) ==
  /\ IF echo_ready[c]
     THEN /\ list' = Without(c) /\ ready_list_num' = Left
          /\ warned' = (warned \/ ready_list_num' < 0)
     ELSE /\ UNCHANGED <<list, ready_list_num>>
          /\ warned' = (warned \/ On(c))
  /\ echo_ready' = [echo_ready EXCEPT ![c] = FALSE]
  /\ show_buff' = Kept(c)

\* num_echo is the one that the command itself may have set.
Room == num_echo' = -1 \/ num_echo' > ready_list_num

\* atbm_store_cmd_echo_ready
ReadyAgain(c) ==
  /\ echo_ready[c]
  /\ warned' = (warned \/ ~On(c)) /\ show_buff' = show_buff \union {c}
  /\ UNCHANGED <<list, ready_list_num, echo_ready>>

ReadyAdded(c) ==
  /\ ~echo_ready[c] /\ (Room \/ list = <<>>)
  /\ list' = Append(list, c) /\ ready_list_num' = ready_list_num + 1
  /\ echo_ready' = [echo_ready EXCEPT ![c] = TRUE]
  /\ show_buff' = show_buff \union {c}
  /\ warned' = (warned \/ (~Room /\ num_echo' # 0))

Marked(c) == [echo_ready EXCEPT ![c] = TRUE, ![Head(list)] = FALSE]

\* The oldest answer makes room: atbm_store_cmd_echo_done for it, then the new one.
ReadyInstead(c) ==
  /\ ~echo_ready[c] /\ ~Room /\ list # <<>>
  /\ list' = Append(Tail(list), c) /\ ready_list_num' = Left + 1
  /\ echo_ready' = Marked(c)
  /\ show_buff' = Kept(Head(list)) \union {c}
  /\ warned' = (warned \/ (~echo_ready[Head(list)]) \/ Left < 0)

Ready(c) == ReadyAgain(c) \/ ReadyAdded(c) \/ ReadyInstead(c)

-----------------------------------------------------------------------------
(* atbm_module_decode_common_store; a command that finds no memory for its  *)
(* buffer changes nothing                                                  *)

StorePlain(c) ==
  /\ UNCHANGED setVars
  /\ \/ (enable_echo \/ c \in Parsing) /\ Ready(c)
     \/ Done(c)

\* Without the parameter num_echo it is -1.
Chosen == EchoLimits \union {-1}

\* Wrong parameters still enable the echo.
StoreEnable ==
  /\ enable_echo' = TRUE
  /\ \/ num_echo' \in Chosen /\ (Ready(Enable) \/ Done(Enable))
     \/ UNCHANGED num_echo /\ Done(Enable)

StoreDisable ==
  \/ enable_echo' = FALSE /\ UNCHANGED num_echo /\ Ready(Disable)
  \/ UNCHANGED setVars /\ Done(Disable)

\* atbm_module_cmd_show: the first of the list, again and again.
ShowAll ==
  /\ list' = <<>> /\ ready_list_num' = ready_list_num - Len(list)
  /\ echo_ready' = [c \in Cmds |-> echo_ready[c] /\ ~On(c)]
  /\ show_buff' = {c \in show_buff : ~On(c)}
  /\ warned' = (warned \/ ready_list_num' < 0)
  /\ UNCHANGED setVars

EchoNext == (\E c \in Plain : StorePlain(c)) \/ StoreEnable \/ StoreDisable \/ ShowAll

EchoSpec == EchoInit /\ [][EchoNext]_echoVars

-----------------------------------------------------------------------------

\* The variables hold values of their types.
EchoTypeOK ==
  /\ list \in Seq(Cmds) /\ ready_list_num \in Int
  /\ echo_ready \in [Cmds -> BOOLEAN] /\ show_buff \subseteq Cmds
  /\ enable_echo \in BOOLEAN /\ num_echo \in Nat \union {-1} /\ warned \in BOOLEAN

\* No WARN_ON of the list fires: a command is marked ready exactly when it is on
\* the list, is there once, and ready_list_num is the length of the list, however
\* answers are repeated, replaced, refused and read (module_fs.c:1159, 1164, 1179,
\* 1197).
Listed ==
  /\ ~warned
  /\ \A c \in Cmds : echo_ready[c] <=> On(c)
  /\ \A i, j \in 1..Len(list) : list[i] = list[j] => i = j
  /\ ready_list_num = Len(list)

\* A command has a buffer exactly while its answer waits: an answer that waits is
\* never printed from a buffer that was freed, and a command that failed or made
\* room leaves none behind.
BufferKept == \A c \in Cmds : c \in show_buff <=> On(c)

\* The list grows only while it is shorter than the limit; it does not shrink
\* when a smaller limit is set.
Limited ==
  [][Len(list') > Len(list) => num_echo' = -1 \/ Len(list') <= num_echo' \/ Len(list') = 1]_echoVars
=============================================================================

--------------------------- MODULE CommandService ---------------------------
(***************************************************************************)
(* What the HACommand module of the firmware promises to the user          *)
(* interface (firmware/include/ha_command.h): at most one command is in    *)
(* flight, a command that was accepted is answered exactly once, and the   *)
(* answers come in the order of the commands.  Nothing is said here of     *)
(* queues, flags, mutexes or threads.                                      *)
(***************************************************************************)
EXTENDS Naturals

CONSTANTS
  Entities,  \* the Home Assistant entities a command can name
  NoCmd      \* no command is in flight

VARIABLES
  pending,   \* the command in flight, or NoCmd
  answered   \* how many commands have been answered

serviceVars == <<pending, answered>>

Command == [id : Nat, entity : Entities]

Init ==
  /\ pending = NoCmd
  /\ answered = 0

\* A command is taken in; it is the next one after those already answered.
Accept(e) ==
  /\ pending = NoCmd
  /\ pending' = [id |-> answered + 1, entity |-> e]
  /\ UNCHANGED answered

\* The result of the command in flight reaches the user interface.
Answer ==
  /\ pending # NoCmd
  /\ answered' = answered + 1
  /\ pending' = NoCmd

Next == Answer \/ \E e \in Entities : Accept(e)

\* Every accepted command is eventually answered.
Spec == Init /\ [][Next]_serviceVars /\ WF_serviceVars(Answer)

SafeSpec == Init /\ [][Next]_serviceVars
=============================================================================

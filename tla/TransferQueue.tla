--------------------------- MODULE TransferQueue ---------------------------
(***************************************************************************)
(* What the transfer queue promises its user: tasks start in the order they *)
(* were asked for, never more than Limit at a time and never fewer than     *)
(* could run; a task that waits can be withdrawn, one that runs can only be *)
(* told to stop and frees its slot when it ends, and what is over stays so. *)
(*                                                                          *)
(* SftpTransfers, with its workers, its pool of clients and a tab that      *)
(* connects and closes, is the code and is shown to implement this module.  *)
(***************************************************************************)
EXTENDS Naturals, FiniteSets

CONSTANTS
  Tasks,  \* numbered in the order they are asked for
  Limit   \* tasks that run at a time

VARIABLES
  arrived,  \* the number of the last task
  waiting,  \* the tasks that wait for a slot
  running,  \* the tasks that have one
  told,     \* those that were told to stop while they ran
  over      \* those that have ended or were withdrawn

vars == <<arrived, waiting, running, told, over>>

Init ==
  /\ arrived = 0
  /\ waiting = {}
  /\ running = {}
  /\ told = {}
  /\ over = {}

\* Slots go to the oldest of W, until W or the slots are used up.
Admit(W, R) ==
  \E S \in SUBSET W :
    /\ \A i \in S, j \in W \ S : i < j
    /\ Cardinality(R \cup S) <= Limit
    /\ W \ S # {} => Cardinality(R \cup S) = Limit
    /\ running' = R \cup S
    /\ waiting' = W \ S

Arrive ==
  \E n \in Tasks :
    LET new == arrived + 1 .. arrived + n
    IN /\ new \subseteq Tasks
       /\ arrived' = arrived + n
       /\ Admit(waiting \cup new, running)
       /\ UNCHANGED <<told, over>>

Withdraw(i) ==
  /\ i \in waiting
  /\ over' = over \cup {i}
  /\ Admit(waiting \ {i}, running)
  /\ UNCHANGED <<arrived, told>>

Tell(i) ==
  /\ i \in running
  /\ told' = told \cup {i}
  /\ UNCHANGED <<arrived, waiting, running, over>>

End(i) ==
  /\ i \in running
  /\ over' = over \cup {i}
  /\ Admit(waiting, running \ {i})
  /\ UNCHANGED <<arrived, told>>

\* The user gives up everything at once.
Abort ==
  /\ over' = over \cup waiting
  /\ waiting' = {}
  /\ told' = told \cup running
  /\ UNCHANGED <<arrived, running>>

Next ==
  \/ Arrive \/ Abort
  \/ \E i \in Tasks : Withdraw(i) \/ Tell(i) \/ End(i)

Spec == Init /\ [][Next]_vars

=============================================================================

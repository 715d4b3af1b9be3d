-------------------------- MODULE ControlRegister --------------------------
(***************************************************************************)
(* What the control path of the Race Control Tower promises, whatever      *)
(* happens between a DevKit and the simulator: a register that holds for   *)
(* each vehicle the control in force.  The controls of one DevKit enter    *)
(* the register in the order it sent them, each of them whole, and the     *)
(* simulator only ever reads the whole register.  A simulator that         *)
(* connects has read nothing yet.                                          *)
(***************************************************************************)
EXTENDS Naturals

CONSTANTS Vehicle

VARIABLES
    register,  \* the control in force for each vehicle: who sent it, and its number
    seen       \* the register as the connected simulator last read it

Entry == [by : Vehicle \cup {0}, id : Nat]
Empty == [v \in Vehicle |-> [by |-> 0, id |-> 0]]

Init == register = Empty /\ seen = Empty

(* A control of d, later than all of d's in force, replaces some entries.  *)
Write(d) ==
    /\ seen' = seen
    /\ register' \in [Vehicle -> Entry]
    /\ \A v \in Vehicle : register'[v] # register[v] =>
         /\ register'[v].by = d
         /\ \A u \in Vehicle : register[u].by = d => register[u].id < register'[v].id
         /\ \A u \in Vehicle :
              register'[u] # register[u] => register'[u].id = register'[v].id

Read == seen' = register /\ register' = register

NewReader == seen' = Empty /\ register' = register

Next == \/ Read \/ NewReader
        \/ \E d \in Vehicle : Write(d)

Spec == Init /\ [][Next]_<<register, seen>>
=============================================================================

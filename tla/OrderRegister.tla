-------------------------- MODULE OrderRegister --------------------------
(***************************************************************************)
(* What the creation of birthday orders promises of a year, whoever        *)
(* creates them and however many try at once: one order at most for an     *)
(* employee, under a reference that was never given out before, and from   *)
(* then on only a person's request changes or deletes it.  Numbers may be  *)
(* spent on nothing.                                                       *)
(***************************************************************************)
EXTENDS Naturals

CONSTANTS
  Employees,  \* whom orders are for
  NoOrder     \* an employee without an order

VARIABLES
  orders,  \* the order of each employee, under its reference
  given    \* every reference number ever given out

Init ==
  /\ orders = [e \in Employees |-> NoOrder]
  /\ given = {}

\* One number, new to the register, is given out.
GiveOut(n) == n \in Nat \ given /\ given' = given \cup {n}

\* A scan orders the default, an administrator what was asked for.
Create(e) ==
  /\ orders[e] = NoOrder
  /\ \E n \in given' \ given :
       /\ GiveOut(n)
       /\ \E o \in {[ref |-> n, quantity |-> "default", manual |-> FALSE],
                    [ref |-> n, quantity |-> "asked", manual |-> TRUE]} :
            orders' = [orders EXCEPT ![e] = o]

\* A person asks for an order that exists: it keeps its reference.
Override(e) ==
  /\ orders[e] # NoOrder
  /\ \E n \in given' \ given : GiveOut(n)
  /\ orders' = [orders EXCEPT ![e] = [ref |-> @.ref, quantity |-> "asked", manual |-> TRUE]]

\* A scan asks for one that exists.
Spend ==
  /\ \E n \in given' \ given : GiveOut(n)
  /\ UNCHANGED orders

Delete(e) ==
  /\ orders[e] # NoOrder
  /\ orders' = [orders EXCEPT ![e] = NoOrder]
  /\ UNCHANGED given

Next == Spend \/ \E e \in Employees : Create(e) \/ Override(e) \/ Delete(e)

Spec == Init /\ [][Next]_<<orders, given>>
=============================================================================

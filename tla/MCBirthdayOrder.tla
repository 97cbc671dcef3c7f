-------------------------- MODULE MCBirthdayOrder --------------------------
(* TLC instances of BirthdayOrder.                                         *)
EXTENDS BirthdayOrder, TLC

Symmetry == Permutations(Requests) \cup Permutations(Suppliers)

\* The order the scan creates for an ordinary employee.
OrdinaryInit ==
  /\ Init
  /\ order = [NoRow EXCEPT !.status = "PENDING_VERIFICATION", !.supplier = CHOOSE s \in Suppliers : TRUE]
  /\ autoRelease

\* Two requests at a time multiply the states, so the concurrent instances
\* leave out the edits; the serial instance has them all.
ConcurrentSteady == \E r \in Requests : Load(r) \/ Move(r)
ConcurrentNext == ConcurrentSteady \/ \E r \in Requests : Abort(r)

ConcurrentSpec == OrdinaryInit /\ [][ConcurrentNext]_vars

\* Requests die anywhere but between the commits of the portal's update, so
\* that an order nobody can close by hand is closed after all.
Struck(r) == Abort(r) /\ req[r].pc \notin {"stamping", "stamped", "closing"}

StruckSpec ==
  /\ OrdinaryInit
  /\ [][ConcurrentSteady \/ \E r \in Requests : Struck(r)]_vars
  /\ \A r \in Requests : WF_vars(Move(r))
=============================================================================

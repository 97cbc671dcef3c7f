------------------------- MODULE BirthdayDetection -------------------------
(***************************************************************************)
(* How birthday orders come to exist: the detection scan (the scheduler's  *)
(* and the administrator's run the same code, possibly at the same time)   *)
(* and the manual creation of an order.  All orders of one occurrence year *)
(* take their reference number from one row of order_sequences, and at     *)
(* most one order may exist for an employee and year.                      *)
(*                                                                         *)
(* A step is what one database statement or commit does on PostgreSQL at   *)
(* READ COMMITTED: SELECT ... FOR UPDATE and an INSERT under a unique key  *)
(* wait for the transaction that holds the row, readers see what is        *)
(* committed, and a transaction that fails takes back all it did.          *)
(***************************************************************************)
EXTENDS Naturals

CONSTANTS
  Employees,  \* the employees people-api knows
  Scans,      \* scan requests that may run at the same time
  Admins,     \* manual creations that may run at the same time
  Nobody,     \* nobody holds the sequence row
  NoEmployee, \* a session that works for no employee
  MaxSeq      \* bound: nobody starts once the next number is MaxSeq

Workers == Scans \cup Admins

ASSUME WorkerAssumption == Scans \cap Admins = {} /\ Nobody \notin Workers

ASSUME EmployeeAssumption == NoEmployee \notin Employees

ASSUME SeqAssumption == MaxSeq \in Nat

VARIABLES
  orders,   \* the committed order of each employee for the year
  nextSeq,  \* order_sequences.next_seq of the year, 0 while it has no row
  lock,     \* who holds the sequence row, by lock or by uncommitted insert
  sess,     \* the sessions: progress and what they hold uncommitted
  runs      \* the scan_runs row of each scan's last run

vars == <<orders, nextSeq, lock, sess, runs>>

\* ref is the number in order_reference; quantity is the default or what an
\* administrator asked for, manual is is_manual_override.
Order == [ref : Nat, quantity : {"default", "asked"}, manual : BOOLEAN]

NoOrder == [ref |-> 0, quantity |-> "default", manual |-> FALSE]

\* How far a session has come; the comment names what it does next.
Progress ==
  { "idle",        \* not running
    "listing",     \* scan: ask people-api for the employees
    "scanning",    \* scan: take the next employee
    "sequencing",  \* read the sequence row for update
    "founding",    \* insert the sequence row of the year
    "creating",    \* insert the order
    "committing" } \* commit

\* A session that works for an employee is in a transaction.
Working == {"sequencing", "founding", "creating", "committing"}

Session ==
  { q \in [ pc       : Progress,
            employee : Employees \cup {NoEmployee},
            todo     : SUBSET Employees,   \* scan: who is left on the list
            ref      : Nat,                \* the number it took
            created  : BOOLEAN ] :         \* it inserted the order itself
      q.pc \in Working => q.employee \in Employees }

IdleSession ==
  [pc |-> "idle", employee |-> NoEmployee, todo |-> {}, ref |-> 0, created |-> FALSE]

\* The row of a scan: NONE before the first run.
Run == [status : {"NONE", "COMPLETED", "DEFERRED_SOURCE_UNAVAILABLE"}, finished : BOOLEAN]

\* Orders, counter, sessions and scan rows hold only what the service knows.
TypeOK ==
  /\ orders \in [Employees -> Order]
  /\ nextSeq \in Nat
  /\ lock \in Workers \cup {Nobody}
  /\ sess \in [Workers -> Session]
  /\ runs \in [Scans -> Run]

Init ==
  /\ orders = [e \in Employees |-> NoOrder]
  /\ nextSeq = 0
  /\ lock = Nobody
  /\ sess = [w \in Workers |-> IdleSession]
  /\ runs = [s \in Scans |-> [status |-> "NONE", finished |-> FALSE]]

-----------------------------------------------------------------------------
(* Starting and ending.                                                    *)

\* The scan's row is committed before it does anything; its status column
\* has the default COMPLETED.
StartScan(s) ==
  /\ sess[s].pc = "idle"
  /\ nextSeq < MaxSeq
  /\ sess' = [sess EXCEPT ![s].pc = "listing"]
  /\ runs' = [runs EXCEPT ![s] = [status |-> "COMPLETED", finished |-> FALSE]]
  /\ UNCHANGED <<orders, nextSeq, lock>>

\* people-api is down: the run is deferred and touches nothing.
Defer(s) ==
  /\ sess[s].pc = "listing"
  /\ sess' = [sess EXCEPT ![s] = IdleSession]
  /\ runs' = [runs EXCEPT ![s] = [status |-> "DEFERRED_SOURCE_UNAVAILABLE", finished |-> TRUE]]
  /\ UNCHANGED <<orders, nextSeq, lock>>

\* The active employees; those outside the scan window and the ineligible
\* ones are skipped, which leaves any subset of them to create orders for.
ListEmployees(s) ==
  /\ sess[s].pc = "listing"
  /\ \E due \in SUBSET Employees :
       sess' = [sess EXCEPT ![s].pc = "scanning", ![s].todo = due]
  /\ UNCHANGED <<orders, nextSeq, lock, runs>>

NextEmployee(s) ==
  /\ sess[s].pc = "scanning"
  /\ \E e \in sess[s].todo :
       sess' = [sess EXCEPT ![s].pc = "sequencing", ![s].employee = e, ![s].todo = @ \ {e}]
  /\ UNCHANGED <<orders, nextSeq, lock, runs>>

FinishScan(s) ==
  /\ sess[s].pc = "scanning"
  /\ sess[s].todo = {}
  /\ sess' = [sess EXCEPT ![s] = IdleSession]
  /\ runs' = [runs EXCEPT ![s] = [status |-> "COMPLETED", finished |-> TRUE]]
  /\ UNCHANGED <<orders, nextSeq, lock>>

\* create_order answers 409 when it sees an order, and goes on when not.
RequestOrder(a) ==
  /\ sess[a].pc = "idle"
  /\ nextSeq < MaxSeq
  /\ \E e \in Employees :
       /\ orders[e] = NoOrder
       /\ sess' = [sess EXCEPT ![a].pc = "sequencing", ![a].employee = e]
  /\ UNCHANGED <<orders, nextSeq, lock, runs>>

-----------------------------------------------------------------------------
(* Taking a number (order_sequence_service).                               *)

TakeNumber(w, n) ==
  /\ lock' = w
  /\ sess' = [sess EXCEPT ![w].pc = "creating", ![w].ref = n]
  /\ UNCHANGED <<orders, nextSeq, runs>>

ReadUnlocked(w) ==  \* mutant: the row is read without FOR UPDATE
  /\ sess[w].pc = "sequencing"
  /\ nextSeq # 0
  /\ TakeNumber(w, nextSeq)

\* FOR UPDATE waits for whoever holds the row, then reads what it committed.
LockYear(w) ==
  /\ sess[w].pc = "sequencing"
  /\ nextSeq # 0
  /\ lock = Nobody
  /\ TakeNumber(w, nextSeq)

\* The first order of a year finds no row, nor sees an uncommitted one.
MissYear(w) ==
  /\ sess[w].pc = "sequencing"
  /\ nextSeq = 0
  /\ sess' = [sess EXCEPT ![w].pc = "founding"]
  /\ UNCHANGED <<orders, nextSeq, lock, runs>>

\* The insert waits for a rival one, and takes over if that was rolled back.
FoundYear(w) ==
  /\ sess[w].pc = "founding"
  /\ lock = Nobody
  /\ nextSeq = 0
  /\ TakeNumber(w, 1)

\* The rival's insert was committed: IntegrityError, rollback, and again.
RetryYear(w) ==
  /\ sess[w].pc = "founding"
  /\ lock = Nobody
  /\ nextSeq # 0
  /\ sess' = [sess EXCEPT ![w].pc = "sequencing"]
  /\ UNCHANGED <<orders, nextSeq, lock, runs>>

-----------------------------------------------------------------------------
(* Creating the order (order_service.create_or_get_order), and the commit. *)

CreateOrGet(w) ==
  /\ sess[w].pc = "creating"
  /\ sess' = [sess EXCEPT ![w].pc = "committing",
                          ![w].created = orders[sess[w].employee] = NoOrder]
  /\ UNCHANGED <<orders, nextSeq, lock, runs>>

\* The session's next state after its transaction: a scan goes on.
AfterTransaction(w) ==
  IF w \in Scans THEN [IdleSession EXCEPT !.pc = "scanning", !.todo = sess[w].todo]
  ELSE IdleSession

Unlock(w) == lock' = IF lock = w THEN Nobody ELSE lock

OverwriteAlways(w) ==  \* mutant: the scan writes the row it found, too
  LET e == sess[w].employee IN
  orders' = [orders EXCEPT ![e] =
    [ref |-> sess[w].ref, quantity |-> IF w \in Scans THEN "default" ELSE "asked",
     manual |-> w \in Admins]]

\* What the transaction makes of the employee's order.  A manual creation
\* ignores whether it created the order: it writes quantity and override on
\* the row it was given, and fails if that row was deleted meanwhile.
WriteOrder(w) ==
  LET e == sess[w].employee IN
  \/ /\ sess[w].created
     /\ orders' = [orders EXCEPT ![e] =
          [ref |-> sess[w].ref, quantity |-> IF w \in Scans THEN "default" ELSE "asked",
           manual |-> w \in Admins]]
  \/ ~sess[w].created /\ w \in Scans /\ UNCHANGED orders
  \/ /\ ~sess[w].created /\ w \in Admins
     /\ orders[e] # NoOrder
     /\ orders' = [orders EXCEPT ![e].quantity = "asked", ![e].manual = TRUE]

\* The number is spent even when the order existed.
CommitOrder(w) ==
  /\ sess[w].pc = "committing"
  /\ WriteOrder(w)
  /\ nextSeq' = sess[w].ref + 1
  /\ Unlock(w)
  /\ sess' = [sess EXCEPT ![w] = AfterTransaction(w)]
  /\ UNCHANGED runs

FailLocked(w) ==  \* mutant: no rollback before the next employee
  /\ sess[w].pc \in Working
  /\ sess' = [sess EXCEPT ![w] = AfterTransaction(w)]
  /\ UNCHANGED <<orders, nextSeq, lock, runs>>

\* Any statement or the commit raises: the transaction is rolled back, a scan
\* records the exception and goes on, a manual creation answers 500.
Fail(w) ==
  /\ sess[w].pc \in Working
  /\ Unlock(w)
  /\ sess' = [sess EXCEPT ![w] = AfterTransaction(w)]
  /\ UNCHANGED <<orders, nextSeq, runs>>

\* The process dies: the database rolls back, the scan's row stays as it is.
Crash(w) ==
  /\ sess[w].pc # "idle"
  /\ Unlock(w)
  /\ sess' = [sess EXCEPT ![w] = IdleSession]
  /\ UNCHANGED <<orders, nextSeq, runs>>

\* Staff hard-delete an order that was never acted on.
DeleteOrder(e) ==
  /\ orders[e] # NoOrder
  /\ orders' = [orders EXCEPT ![e] = NoOrder]
  /\ UNCHANGED <<nextSeq, lock, sess, runs>>

-----------------------------------------------------------------------------

\* What a session gets by waiting for the sequence row ...
Acquire(w) == LockYear(w) \/ FoundYear(w) \/ RetryYear(w)

\* ... what it does without waiting for anybody ...
Proceed(w) ==
  \/ w \in Scans /\ (Defer(w) \/ ListEmployees(w) \/ NextEmployee(w) \/ FinishScan(w))
  \/ MissYear(w) \/ CreateOrGet(w)

\* ... and how it is answered when it commits; a session that waits is not.
EndTransaction(w) == sess[w].pc = "committing" /\ (CommitOrder(w) \/ Fail(w))

Next ==
  \/ \E s \in Scans : StartScan(s)
  \/ \E a \in Admins : RequestOrder(a)
  \/ \E w \in Workers : Acquire(w) \/ Proceed(w) \/ CommitOrder(w) \/ Fail(w) \/ Crash(w)
  \/ \E e \in Employees : DeleteOrder(e)

Spec == Init /\ [][Next]_vars

\* A running request is eventually given its next step, a commit an answer,
\* and a waiting session its turn: PostgreSQL queues those that wait for a
\* row.  Nothing makes a waiting session give up.
FairSpec ==
  /\ Spec
  /\ \A w \in Workers :
       WF_vars(Proceed(w)) /\ WF_vars(EndTransaction(w)) /\ SF_vars(Acquire(w))

-----------------------------------------------------------------------------
(* Properties.                                                             *)

\* Two orders never share a reference, and no number is given out again, not
\* even that of an order since deleted: whatever is committed is below the
\* counter, whoever raced for the number or died with it.
ReferencesAreUnique ==
  \A e, f \in Employees :
    orders[e] # NoOrder =>
      /\ 0 < orders[e].ref /\ orders[e].ref < nextSeq
      /\ e # f => orders[f].ref # orders[e].ref

\* The sequence row orders the creators: only its holder has a number, the one
\* the next commit spends, and knows whether the employee has an order.
HolderHasTheNumber ==
  \A w \in Workers :
    sess[w].pc \in {"creating", "committing"} =>
      /\ lock = w
      /\ sess[w].ref = IF nextSeq = 0 THEN 1 ELSE nextSeq
      /\ sess[w].pc = "committing" /\ sess[w].created => orders[sess[w].employee] = NoOrder

\* A session that waits does so for somebody who is at work: the row is never
\* held by a session that is past its transaction.
HolderIsAtWork ==
  lock # Nobody => sess[lock].pc \in {"creating", "committing"}

\* What get_next_order_reference and the commit after it rest on together.
SeqInv == TypeOK /\ ReferencesAreUnique /\ HolderHasTheNumber /\ HolderIsAtWork

\* A scan run again, or twice at the same time, leaves every order it finds as
\* it is: what people entered survives detection.
ScansKeepOrders ==
  [][ \A s \in Scans, e \in Employees :
        sess'[s] # sess[s] /\ orders[e] # NoOrder => orders'[e] = orders[e] ]_vars

\* The numbers given out so far: those below the counter, once it has a row.
Given == IF nextSeq = 0 THEN {} ELSE 1..(nextSeq - 1)

Register == INSTANCE OrderRegister WITH given <- Given

\* The sessions that race for numbers and employees, fail and die keep what
\* the creation of orders promises: no reference is given out twice, not even
\* that of an order since deleted, and no scan touches an order that exists.
ImplementsRegister == Register!Spec

\* Every scan comes to an end, whoever else creates orders, fails or dies.
ScansEnd == \A s \in Scans : sess[s].pc # "idle" ~> sess[s].pc = "idle"
=============================================================================

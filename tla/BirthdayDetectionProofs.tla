---------------------- MODULE BirthdayDetectionProofs ----------------------
(***************************************************************************)
(* Theorems about BirthdayDetection, for any employees and any number of   *)
(* scans and manual creations at the same time.                            *)
(***************************************************************************)
EXTENDS BirthdayDetection, TLAPS

-----------------------------------------------------------------------------
(* Lemmas.                                                                 *)

\* A session that ends, or goes on to the next employee, is typed and holds
\* no number.
LEMMA AfterTransactionType ==
  ASSUME TypeOK, NEW w \in Workers
  PROVE  /\ AfterTransaction(w) \in Session
         /\ IdleSession \in Session
         /\ AfterTransaction(w).pc \in {"idle", "scanning"}
         /\ IdleSession.pc = "idle"
BY DEF TypeOK, AfterTransaction, IdleSession, Session, Progress, Working

\* Only the session of w changes, and it is left without a number: what the
\* others hold is undisturbed, and the row is released if w had it.
LEMMA ReleaseStep ==
  ASSUME SeqInv, NEW w \in Workers, NEW new \in Session, new.pc \notin {"creating", "committing"},
         sess' = [sess EXCEPT ![w] = new], Unlock(w),
         UNCHANGED <<orders, nextSeq>>, runs' \in [Scans -> Run]
  PROVE  SeqInv'
<1>1. TypeOK'
  BY DEF SeqInv, TypeOK, Unlock
<1>2. /\ sess'[w] = new
      /\ \A v \in Workers : v # w => sess'[v] = sess[v]
  BY DEF SeqInv, TypeOK
<1>3. HolderHasTheNumber'
  BY <1>2 DEF SeqInv, HolderHasTheNumber, Unlock
<1>4. HolderIsAtWork'
  BY <1>2 DEF SeqInv, HolderIsAtWork, Unlock, TypeOK
<1>5. ReferencesAreUnique'
  BY DEF SeqInv, ReferencesAreUnique
<1> QED
  BY <1>1, <1>3, <1>4, <1>5 DEF SeqInv

\* A session that has no number yet, and gets none, holds no row either.
LEMMA UnlockedStep ==
  ASSUME SeqInv, NEW w \in Workers, NEW new \in Session, new.pc \notin {"creating", "committing"},
         sess[w].pc \notin {"creating", "committing"},
         sess' = [sess EXCEPT ![w] = new],
         UNCHANGED <<orders, nextSeq, lock>>, runs' \in [Scans -> Run]
  PROVE  SeqInv'
<1>1. lock # w
  BY WorkerAssumption DEF SeqInv, HolderIsAtWork
<1>2. Unlock(w)
  BY <1>1 DEF Unlock
<1> QED
  BY <1>2, ReleaseStep

\* Whoever takes the number of a free row is its only holder.
LEMMA TakeStep ==
  ASSUME SeqInv, NEW w \in Workers, NEW n \in Nat, TakeNumber(w, n), lock = Nobody,
         n = IF nextSeq = 0 THEN 1 ELSE nextSeq,
         sess[w].pc \in Working
  PROVE  SeqInv'
<1>1. /\ sess'[w] = [sess[w] EXCEPT !.pc = "creating", !.ref = n]
      /\ \A v \in Workers : v # w => sess'[v] = sess[v]
  BY DEF SeqInv, TypeOK, TakeNumber
<1>2. /\ sess'[w].pc = "creating"
      /\ sess'[w].ref = n
      /\ sess'[w] \in Session
  <2>1. sess[w] \in Session
    BY DEF SeqInv, TypeOK
  <2> QED
    BY <1>1, <2>1 DEF Session, Progress, Working
<1>3. TypeOK'
  BY <1>1, <1>2 DEF SeqInv, TypeOK, TakeNumber
<1>4. HolderHasTheNumber'
  <2>1. \A v \in Workers : sess[v].pc \notin {"creating", "committing"}
    BY WorkerAssumption DEF SeqInv, HolderHasTheNumber
  <2> QED
    BY <1>1, <1>2, <2>1 DEF HolderHasTheNumber, TakeNumber
<1>5. HolderIsAtWork'
  BY <1>2 DEF HolderIsAtWork, TakeNumber
<1>6. ReferencesAreUnique'
  BY DEF SeqInv, ReferencesAreUnique, TakeNumber
<1> QED
  BY <1>3, <1>4, <1>5, <1>6 DEF SeqInv

\* A commit by the holder of the row: the number it spends is above all that
\* were given out, and its employee has no order if it inserted one.
LEMMA CommitStep ==
  ASSUME SeqInv, NEW w \in Workers, CommitOrder(w)
  PROVE  SeqInv'
<1> DEFINE e == sess[w].employee
<1>1. /\ sess[w] \in Session
      /\ e \in Employees
      /\ lock = w
      /\ sess[w].ref = IF nextSeq = 0 THEN 1 ELSE nextSeq
      /\ sess[w].created => orders[e] = NoOrder
  BY DEF SeqInv, TypeOK, HolderHasTheNumber, CommitOrder, Session, Working
<1>2. /\ nextSeq' = sess[w].ref + 1
      /\ lock' = Nobody
      /\ sess' = [sess EXCEPT ![w] = AfterTransaction(w)]
      /\ runs' = runs
  BY <1>1 DEF CommitOrder, Unlock
<1>3. /\ nextSeq \in Nat /\ sess[w].ref \in Nat
      /\ nextSeq' \in Nat
      /\ 0 < sess[w].ref /\ sess[w].ref < nextSeq' /\ nextSeq <= sess[w].ref
  BY <1>1, <1>2 DEF SeqInv, TypeOK, Session
<1>4. /\ orders' \in [Employees -> Order]
      /\ \A f \in Employees : f # e => orders'[f] = orders[f]
      /\ \/ orders'[e].ref = sess[w].ref
         \/ orders[e] # NoOrder /\ orders'[e].ref = orders[e].ref
         \/ orders'[e] = orders[e]
  <2>1. orders \in [Employees -> Order] /\ w \in Scans \cup Admins
    BY DEF SeqInv, TypeOK, Workers
  <2>2. CASE sess[w].created
    <3> DEFINE new == [ref |-> sess[w].ref, quantity |-> IF w \in Scans THEN "default" ELSE "asked",
                       manual |-> w \in Admins]
    <3>1. orders' = [orders EXCEPT ![e] = new]
      BY <2>2 DEF CommitOrder, WriteOrder
    <3>2. new \in Order /\ new.ref = sess[w].ref
      BY <1>3 DEF Order
    <3> HIDE DEF new
    <3> QED
      BY <1>1, <2>1, <3>1, <3>2
  <2>3. CASE ~sess[w].created /\ UNCHANGED orders
    BY <2>1, <2>3
  <2>4. CASE /\ orders[e] # NoOrder
             /\ orders' = [orders EXCEPT ![e].quantity = "asked", ![e].manual = TRUE]
    <3>1. orders[e] \in Order
      BY <1>1, <2>1
    <3>2. orders' = [orders EXCEPT ![e] = [orders[e] EXCEPT !.quantity = "asked", !.manual = TRUE]]
      BY <1>1, <2>1, <2>4
    <3>3. [orders[e] EXCEPT !.quantity = "asked", !.manual = TRUE] \in Order
      BY <3>1 DEF Order
    <3>4. [orders[e] EXCEPT !.quantity = "asked", !.manual = TRUE].ref = orders[e].ref
      BY <3>1 DEF Order
    <3> QED
      BY <1>1, <2>1, <2>4, <3>2, <3>3, <3>4
  <2> QED
    BY <2>2, <2>3, <2>4 DEF CommitOrder, WriteOrder
<1>5. TypeOK'
  BY <1>2, <1>3, <1>4, AfterTransactionType DEF SeqInv, TypeOK
<1>6. \A v \in Workers : sess'[v].pc \notin {"creating", "committing"}
  <2>1. \A v \in Workers : v # w => sess[v].pc \notin {"creating", "committing"}
    BY <1>1 DEF SeqInv, HolderHasTheNumber
  <2> QED
    BY <1>2, <2>1, AfterTransactionType DEF SeqInv, TypeOK
<1>7. HolderHasTheNumber' /\ HolderIsAtWork'
  BY <1>2, <1>6 DEF HolderHasTheNumber, HolderIsAtWork
<1>8. ReferencesAreUnique'
  <2>1. \A f \in Employees : orders[f].ref \in Nat /\ orders'[f].ref \in Nat
    BY <1>4 DEF SeqInv, TypeOK, Order
  <2>2. \A f \in Employees : orders[f].ref = 0 \/ (0 < orders[f].ref /\ orders[f].ref < nextSeq)
    BY DEF SeqInv, ReferencesAreUnique, NoOrder
  <2>3. \A f \in Employees : f # e => orders'[f].ref # sess[w].ref /\ orders'[f].ref < nextSeq'
    BY <1>3, <1>4, <2>1, <2>2
  <2>4. \A f \in Employees : orders'[f] # NoOrder => 0 < orders'[f].ref /\ orders'[f].ref < nextSeq'
    <3>1. \A f \in Employees : orders[f] # NoOrder => 0 < orders[f].ref /\ orders[f].ref < nextSeq'
      BY <1>3, <2>1 DEF SeqInv, ReferencesAreUnique
    <3> QED
      BY <1>1, <1>3, <1>4, <3>1
  <2>5. ASSUME NEW f \in Employees, NEW g \in Employees, orders'[f] # NoOrder, f # g
        PROVE  orders'[g].ref # orders'[f].ref
    <3>1. orders[f] # NoOrder => orders[g].ref # orders[f].ref
      BY <2>5 DEF SeqInv, ReferencesAreUnique
    <3>2. CASE f = e
      <4>1. CASE orders'[e].ref = sess[w].ref
        BY <2>3, <2>5, <3>2, <4>1
      <4>2. CASE orders[e] # NoOrder /\ orders'[e].ref = orders[e].ref
        BY <1>4, <2>5, <3>1, <3>2, <4>2
      <4>3. CASE orders'[e] = orders[e]
        BY <1>4, <2>5, <3>1, <3>2, <4>3
      <4> QED
        BY <1>4, <4>1, <4>2, <4>3
    <3>3. CASE g = e
      <4>1. CASE orders'[e].ref = sess[w].ref
        BY <2>3, <2>5, <3>3, <4>1
      <4>2. CASE orders'[e].ref = orders[e].ref
        BY <1>4, <2>5, <3>1, <3>3, <4>2
      <4> QED
        BY <1>4, <4>1, <4>2
    <3>4. CASE f # e /\ g # e
      BY <1>4, <2>5, <3>1, <3>4
    <3> QED
      BY <3>2, <3>3, <3>4
  <2> QED
    BY <2>4, <2>5 DEF ReferencesAreUnique
<1> QED
  BY <1>5, <1>7, <1>8 DEF SeqInv

\* What the types say of one session.
LEMMA SessionFields ==
  ASSUME SeqInv, NEW w \in Workers
  PROVE  /\ sess \in [Workers -> Session]
         /\ sess[w].employee \in Employees \cup {NoEmployee}
         /\ sess[w].todo \subseteq Employees
         /\ sess[w].pc \in Working => sess[w].employee \in Employees
<1>1. sess \in [Workers -> Session]
  BY DEF SeqInv, TypeOK
<1>2. sess[w] \in Session
  BY <1>1
<1> QED
  BY <1>1, <1>2 DEF Session

\* A session that moves on without a number disturbs nobody.
LEMMA MoveStep ==
  ASSUME SeqInv, NEW w \in Workers, NEW pc \in {"listing", "scanning", "sequencing", "founding"},
         NEW e \in Employees \cup {NoEmployee}, NEW todo \in SUBSET Employees,
         pc \in Working => e \in Employees,
         sess[w].pc \notin {"creating", "committing"},
         sess' = [sess EXCEPT ![w].pc = pc, ![w].employee = e, ![w].todo = todo],
         UNCHANGED <<orders, nextSeq, lock>>, runs' \in [Scans -> Run]
  PROVE  SeqInv'
<1> DEFINE new == [sess[w] EXCEPT !.pc = pc, !.employee = e, !.todo = todo]
<1>1. sess[w] \in Session /\ sess \in [Workers -> Session]
  BY DEF SeqInv, TypeOK
<1>2. new \in Session /\ new.pc = pc
  BY <1>1 DEF Session, Progress
<1>3. sess' = [sess EXCEPT ![w] = new]
  BY <1>1
<1> HIDE DEF new
<1> QED
  BY <1>2, <1>3, UnlockedStep

\* Starting a scan or a manual creation keeps the invariant.
LEMMA StartStep ==
  ASSUME SeqInv
  PROVE  /\ \A s \in Scans : StartScan(s) => SeqInv'
         /\ \A a \in Admins : RequestOrder(a) => SeqInv'
<1>1. ASSUME NEW s \in Scans, StartScan(s)
      PROVE  SeqInv'
  <2>1. s \in Workers
    BY DEF Workers
  <2>2. sess' = [sess EXCEPT ![s].pc = "listing", ![s].employee = sess[s].employee,
                             ![s].todo = sess[s].todo]
    BY <1>1, <2>1, SessionFields DEF StartScan, Session
  <2>3. runs' \in [Scans -> Run]
    BY <1>1 DEF SeqInv, TypeOK, StartScan, Run
  <2>4. sess[s].employee \in Employees \cup {NoEmployee} /\ sess[s].todo \in SUBSET Employees
    BY <2>1, SessionFields
  <2>5. sess[s].pc = "idle" /\ UNCHANGED <<orders, nextSeq, lock>>
    BY <1>1 DEF StartScan
  <2> QED
    BY <2>1, <2>2, <2>3, <2>4, <2>5, MoveStep DEF Working
<1>2. ASSUME NEW a \in Admins, RequestOrder(a)
      PROVE  SeqInv'
  <2>1. a \in Workers
    BY DEF Workers
  <2>2. PICK e \in Employees : sess' = [sess EXCEPT ![a].pc = "sequencing", ![a].employee = e]
    BY <1>2 DEF RequestOrder
  <2>3. sess' = [sess EXCEPT ![a].pc = "sequencing", ![a].employee = e, ![a].todo = sess[a].todo]
    BY <2>1, <2>2, SessionFields DEF Session
  <2>4. runs' \in [Scans -> Run]
    BY <1>2 DEF SeqInv, TypeOK, RequestOrder
  <2>5. sess[a].todo \in SUBSET Employees
    BY <2>1, SessionFields
  <2>6. sess[a].pc = "idle" /\ UNCHANGED <<orders, nextSeq, lock>>
    BY <1>2 DEF RequestOrder
  <2> QED
    BY <2>1, <2>3, <2>4, <2>5, <2>6, MoveStep
<1> QED
  BY <1>1, <1>2

\* So does every step that waits for the sequence row.
LEMMA AcquireStep ==
  ASSUME SeqInv, NEW w \in Workers, Acquire(w)
  PROVE  SeqInv'
<1>1. CASE LockYear(w)
  BY <1>1, TakeStep DEF LockYear, Working, SeqInv, TypeOK
<1>2. CASE FoundYear(w)
  BY <1>2, TakeStep DEF FoundYear, Working
<1>3. CASE RetryYear(w)
  <2>1. sess' = [sess EXCEPT ![w].pc = "sequencing", ![w].employee = sess[w].employee,
                             ![w].todo = sess[w].todo]
    BY <1>3, SessionFields DEF RetryYear, Session
  <2>2. sess[w].employee \in Employees
    BY <1>3, SessionFields DEF RetryYear, Working
  <2>3. runs' \in [Scans -> Run]
    BY <1>3 DEF SeqInv, TypeOK, RetryYear
  <2>4. sess[w].todo \in SUBSET Employees
    BY SessionFields
  <2>5. sess[w].pc = "founding" /\ UNCHANGED <<orders, nextSeq, lock>>
    BY <1>3 DEF RetryYear
  <2> QED
    BY <2>1, <2>2, <2>3, <2>4, <2>5, MoveStep
<1> QED
  BY <1>1, <1>2, <1>3 DEF Acquire

\* So does everything a scan does between two employees.
LEMMA ScanStep ==
  ASSUME SeqInv, NEW s \in Scans, Defer(s) \/ FinishScan(s) \/ ListEmployees(s) \/ NextEmployee(s)
  PROVE  SeqInv'
<1>1. s \in Workers
  BY DEF Workers
<1>2. CASE Defer(s) \/ FinishScan(s)
  <2>1. /\ sess' = [sess EXCEPT ![s] = IdleSession]
        /\ UNCHANGED <<orders, nextSeq, lock>>
        /\ sess[s].pc \notin {"creating", "committing"}
    BY <1>2 DEF Defer, FinishScan
  <2>2. runs' \in [Scans -> Run]
    <3>1. runs \in [Scans -> Run]
      BY DEF SeqInv, TypeOK
    <3>2. CASE Defer(s)
      BY <3>1, <3>2 DEF Defer, Run
    <3>3. CASE FinishScan(s)
      BY <3>1, <3>3 DEF FinishScan, Run
    <3> QED
      BY <1>2, <3>2, <3>3
  <2>3. TypeOK
    BY DEF SeqInv
  <2> QED
    BY <1>1, <2>1, <2>2, <2>3, AfterTransactionType, UnlockedStep
<1>3. CASE ListEmployees(s)
  <2>1. PICK due \in SUBSET Employees : sess' = [sess EXCEPT ![s].pc = "scanning", ![s].todo = due]
    BY <1>3 DEF ListEmployees
  <2>2. sess' = [sess EXCEPT ![s].pc = "scanning", ![s].employee = sess[s].employee, ![s].todo = due]
    BY <1>1, <2>1, SessionFields DEF Session
  <2>3. runs' \in [Scans -> Run]
    BY <1>3 DEF SeqInv, TypeOK, ListEmployees
  <2>4. sess[s].employee \in Employees \cup {NoEmployee}
    BY <1>1, SessionFields
  <2>5. sess[s].pc = "listing" /\ UNCHANGED <<orders, nextSeq, lock>>
    BY <1>3 DEF ListEmployees
  <2> QED
    BY <1>1, <2>2, <2>3, <2>4, <2>5, MoveStep DEF Working
<1>4. CASE NextEmployee(s)
  <2>1. PICK e \in sess[s].todo :
          sess' = [sess EXCEPT ![s].pc = "sequencing", ![s].employee = e, ![s].todo = @ \ {e}]
    BY <1>4 DEF NextEmployee
  <2> DEFINE todo == sess[s].todo \ {e}
  <2>2. sess' = [sess EXCEPT ![s].pc = "sequencing", ![s].employee = e, ![s].todo = todo]
    BY <1>1, <2>1, SessionFields DEF Session
  <2>3. e \in Employees /\ todo \in SUBSET Employees
    BY <1>1, SessionFields
  <2>4. runs' \in [Scans -> Run]
    BY <1>4 DEF SeqInv, TypeOK, NextEmployee
  <2> HIDE DEF todo
  <2> QED
    BY <1>1, <1>4, <2>2, <2>3, <2>4, MoveStep DEF NextEmployee
<1> QED
  BY <1>2, <1>3, <1>4

\* So does the insert of the order: its session still holds the row.
LEMMA CreateStep ==
  ASSUME SeqInv, NEW w \in Workers, CreateOrGet(w)
  PROVE  SeqInv'
<1> DEFINE found == orders[sess[w].employee] = NoOrder
           new == [sess[w] EXCEPT !.pc = "committing", !.created = found]
<1>1. sess[w] \in Session /\ sess \in [Workers -> Session]
  BY DEF SeqInv, TypeOK
<1>2. /\ sess'[w] = new
      /\ \A v \in Workers : v # w => sess'[v] = sess[v]
      /\ sess' = [sess EXCEPT ![w] = new]
  BY <1>1 DEF CreateOrGet
<1>3. sess[w].employee \in Employees
  BY <1>1 DEF CreateOrGet, Session, Working
<1>4. /\ new.pc = "committing"
      /\ new.ref = sess[w].ref
      /\ new.employee = sess[w].employee
      /\ new.created => orders[sess[w].employee] = NoOrder
      /\ new \in Session
  BY <1>1, <1>3 DEF Session, Progress
<1> HIDE DEF new
<1>5. TypeOK'
  BY <1>1, <1>2, <1>4 DEF SeqInv, TypeOK, CreateOrGet
<1>6. HolderHasTheNumber'
  <2>1. orders' = orders /\ nextSeq' = nextSeq /\ lock' = lock /\ sess[w].pc = "creating"
    BY DEF CreateOrGet
  <2> QED
    BY <1>2, <1>4, <2>1 DEF SeqInv, HolderHasTheNumber
<1>7. HolderIsAtWork'
  BY <1>2, <1>4, WorkerAssumption DEF SeqInv, TypeOK, HolderIsAtWork, CreateOrGet
<1>8. ReferencesAreUnique'
  BY DEF SeqInv, ReferencesAreUnique, CreateOrGet
<1> QED
  BY <1>5, <1>6, <1>7, <1>8 DEF SeqInv

\* SeqInv is inductive.
LEMMA SeqStep ==
  ASSUME SeqInv, [Next]_vars
  PROVE  SeqInv'
<1>1. CASE UNCHANGED vars
  BY <1>1 DEF vars, SeqInv, TypeOK, ReferencesAreUnique, HolderHasTheNumber, HolderIsAtWork
<1>2. ASSUME NEW w \in Workers, MissYear(w)
      PROVE  SeqInv'
  <2>1. sess' = [sess EXCEPT ![w].pc = "founding", ![w].employee = sess[w].employee,
                             ![w].todo = sess[w].todo]
    BY <1>2, SessionFields DEF MissYear, Session
  <2>2. sess[w].employee \in Employees
    BY <1>2, SessionFields DEF MissYear, Working
  <2>3. runs' \in [Scans -> Run]
    BY <1>2 DEF SeqInv, TypeOK, MissYear
  <2>4. sess[w].todo \in SUBSET Employees
    BY SessionFields
  <2>5. sess[w].pc = "sequencing" /\ UNCHANGED <<orders, nextSeq, lock>>
    BY <1>2 DEF MissYear
  <2> QED
    BY <2>1, <2>2, <2>3, <2>4, <2>5, MoveStep
<1>3. ASSUME NEW w \in Workers, Fail(w)
      PROVE  SeqInv'
  BY <1>3, AfterTransactionType, ReleaseStep DEF Fail, SeqInv, TypeOK
<1>4. ASSUME NEW w \in Workers, Crash(w)
      PROVE  SeqInv'
  BY <1>4, AfterTransactionType, ReleaseStep DEF Crash, SeqInv, TypeOK
<1>5. ASSUME NEW e \in Employees, DeleteOrder(e)
      PROVE  SeqInv'
  <2>1. /\ orders' \in [Employees -> Order]
        /\ orders'[e] = NoOrder
        /\ \A f \in Employees : f # e => orders'[f] = orders[f]
    BY <1>5 DEF SeqInv, TypeOK, DeleteOrder, Order, NoOrder
  <2>2. TypeOK'
    BY <1>5, <2>1 DEF SeqInv, TypeOK, DeleteOrder
  <2>3. HolderHasTheNumber' /\ HolderIsAtWork'
    <3>1. \A f \in Employees : orders[f] = NoOrder => orders'[f] = NoOrder
      BY <2>1
    <3>2. \A w \in Workers : sess[w].pc = "committing" => sess[w].employee \in Employees
      BY SessionFields DEF Working
    <3> QED
      BY <1>5, <3>1, <3>2 DEF SeqInv, HolderHasTheNumber, HolderIsAtWork, DeleteOrder
  <2>4. ReferencesAreUnique'
    <3>1. NoOrder.ref = 0
      BY DEF NoOrder
    <3> QED
      BY <1>5, <2>1, <3>1 DEF SeqInv, TypeOK, Order, ReferencesAreUnique, DeleteOrder
  <2> QED
    BY <2>2, <2>3, <2>4 DEF SeqInv
<1>6. ASSUME NEW w \in Workers, Proceed(w)
      PROVE  SeqInv'
  BY <1>2, <1>6, ScanStep, CreateStep DEF Proceed
<1>7. ASSUME NEW w \in Workers, Acquire(w) \/ CommitOrder(w)
      PROVE  SeqInv'
  BY <1>7, AcquireStep, CommitStep
<1> QED
  BY <1>1, <1>3, <1>4, <1>5, <1>6, <1>7, StartStep DEF Next

\* Before the first order there is nothing to collide with.
LEMMA SeqInit ==
  ASSUME Init
  PROVE  SeqInv
BY DEF Init, SeqInv, TypeOK, ReferencesAreUnique, HolderHasTheNumber, HolderIsAtWork, NoOrder, Order,
       IdleSession, Session, Progress, Working, Run

\* The inductive invariant: the sequence row serialises the creators.
THEOREM SequenceInvariant == Spec => []SeqInv
<1>1. Init => SeqInv
  BY SeqInit
<1>2. SeqInv /\ [Next]_vars => SeqInv'
  BY SeqStep
<1> QED
  BY <1>1, <1>2, PTL DEF Spec

\* Two orders never share a reference, whoever creates, fails, dies or deletes.
THEOREM UniqueReferences == Spec => []ReferencesAreUnique
<1>1. SeqInv => ReferencesAreUnique
  BY DEF SeqInv
<1> QED
  BY <1>1, SequenceInvariant, PTL

-----------------------------------------------------------------------------
(* What a scan does to the orders it finds.                                *)

\* A step that changes a scan's session is the scan's own, and only its commit
\* writes orders: the one it found missing while it held the sequence row.
LEMMA ScanLeavesOrders ==
  ASSUME SeqInv, Next, NEW s \in Scans, NEW e \in Employees, sess'[s] # sess[s], orders[e] # NoOrder
  PROVE  orders'[e] = orders[e]
<1>1. /\ s \in Workers /\ s \notin Admins
      /\ orders \in [Employees -> Order] /\ sess \in [Workers -> Session]
  BY WorkerAssumption DEF Workers, SeqInv, TypeOK
<1>2. ASSUME NEW w \in Workers, CommitOrder(w)
      PROVE  orders'[e] = orders[e]
  <2>1. w = s
    BY <1>1, <1>2 DEF CommitOrder
  <2>2. CASE sess[s].created
    <3>1. /\ sess[s] \in Session /\ sess[s].pc = "committing"
          /\ orders[sess[s].employee] = NoOrder
      BY <1>1, <1>2, <2>1, <2>2 DEF CommitOrder, SeqInv, HolderHasTheNumber
    <3>2. e # sess[s].employee
      BY <3>1
    <3> DEFINE new == [ref |-> sess[s].ref,
                       quantity |-> IF s \in Scans THEN "default" ELSE "asked",
                       manual |-> s \in Admins]
    <3>3. orders' = [orders EXCEPT ![sess[s].employee] = new]
      BY <1>2, <2>1, <2>2 DEF CommitOrder, WriteOrder
    <3> HIDE DEF new
    <3> QED
      BY <1>1, <3>2, <3>3
  <2>3. CASE ~sess[s].created
    BY <1>1, <1>2, <2>1, <2>3 DEF CommitOrder, WriteOrder
  <2> QED
    BY <2>2, <2>3
<1>3. ASSUME NEW f \in Employees, DeleteOrder(f)
      PROVE  FALSE
  BY <1>3 DEF DeleteOrder
<1>4. ASSUME NEW w \in Workers, Acquire(w) \/ Proceed(w) \/ Fail(w) \/ Crash(w)
      PROVE  orders' = orders
  BY <1>4 DEF Acquire, LockYear, FoundYear, RetryYear, TakeNumber, Proceed, Defer, ListEmployees,
              NextEmployee, FinishScan, MissYear, CreateOrGet, Fail, Crash
<1>5. (\E t \in Scans : StartScan(t)) \/ (\E a \in Admins : RequestOrder(a)) => orders' = orders
  BY DEF StartScan, RequestOrder
<1> QED
  BY <1>2, <1>3, <1>4, <1>5 DEF Next

\* A scan run again, next to another or to a manual creation, overwrites no
\* order, deleted and re-created ones included.
THEOREM ScansOverwriteNothing == Spec => ScansKeepOrders
<1> DEFINE Kept == \A s \in Scans, e \in Employees :
                     sess'[s] # sess[s] /\ orders[e] # NoOrder => orders'[e] = orders[e]
<1>1. SeqInv /\ [Next]_vars => [Kept]_vars
  BY ScanLeavesOrders
<1> QED
  BY <1>1, SequenceInvariant, PTL DEF Spec, ScansKeepOrders

-----------------------------------------------------------------------------
(* The creation of orders implements the register of the year.             *)

\* A step that writes neither orders nor the counter gives nothing out.
LEMMA QuietSteps ==
  ASSUME NEW w \in Workers, Acquire(w) \/ Proceed(w) \/ Fail(w) \/ Crash(w)
  PROVE  UNCHANGED <<orders, nextSeq>>
BY DEF Acquire, LockYear, FoundYear, RetryYear, TakeNumber, Proceed, Defer, ListEmployees,
       NextEmployee, FinishScan, MissYear, CreateOrGet, Fail, Crash

\* The number a commit spends is the one number it gives out.
LEMMA CommitGivesOut ==
  ASSUME SeqInv, NEW w \in Workers, CommitOrder(w)
  PROVE  /\ sess[w].ref \in Nat /\ sess[w].ref \notin Given
         /\ Given' = Given \cup {sess[w].ref}
<1>1. /\ sess[w] \in Session /\ nextSeq \in Nat
      /\ sess[w].ref = IF nextSeq = 0 THEN 1 ELSE nextSeq
      /\ nextSeq' = sess[w].ref + 1
  BY DEF SeqInv, TypeOK, HolderHasTheNumber, CommitOrder
<1>2. sess[w].ref \in Nat \ {0}
  BY <1>1
<1>3. Given' = 1..sess[w].ref
  BY <1>1, <1>2 DEF Given
<1>4. CASE nextSeq = 0
  BY <1>1, <1>3, <1>4 DEF Given
<1>5. CASE nextSeq # 0
  <2>1. Given = 1..(nextSeq - 1) /\ sess[w].ref = nextSeq
    BY <1>1, <1>5 DEF Given
  <2> QED
    BY <1>1, <1>3, <1>5, <2>1
<1> QED
  BY <1>4, <1>5

\* What a person's request makes of an order that exists.
LEMMA Overridden ==
  ASSUME NEW o \in Order
  PROVE  [o EXCEPT !.quantity = "asked", !.manual = TRUE]
           = [ref |-> o.ref, quantity |-> "asked", manual |-> TRUE]
<1> DEFINE p == [o EXCEPT !.quantity = "asked", !.manual = TRUE]
           q == [ref |-> o.ref, quantity |-> "asked", manual |-> TRUE]
<1>1. p \in Order /\ p.ref = o.ref /\ p.quantity = "asked" /\ p.manual = TRUE
  BY DEF Order
<1>2. q \in Order /\ q.ref = o.ref /\ q.quantity = "asked" /\ q.manual = TRUE
  BY DEF Order
<1>3. \A x, y \in Order :
        x.ref = y.ref /\ x.quantity = y.quantity /\ x.manual = y.manual => x = y
  BY DEF Order
<1> HIDE DEF p, q
<1>4. p = q
  BY <1>1, <1>2, <1>3
<1> QED
  BY <1>4 DEF p, q

\* A commit enters an order under its number, or spends the number on one
\* that exists, which only a person's request then changes.
LEMMA CommitIsRegistered ==
  ASSUME SeqInv, NEW w \in Workers, CommitOrder(w)
  PROVE  Register!Next
<1> DEFINE e == sess[w].employee
           n == sess[w].ref
<1>1. /\ e \in Employees /\ orders \in [Employees -> Order]
      /\ sess[w].pc = "committing"
      /\ sess[w].created => orders[e] = NoOrder
  BY DEF SeqInv, TypeOK, HolderHasTheNumber, CommitOrder, Session, Working
<1>2. n \in Given' \ Given /\ Register!GiveOut(n)
  BY CommitGivesOut DEF Register!GiveOut
<1>3. CASE sess[w].created
  <2> DEFINE scans == [ref |-> n, quantity |-> "default", manual |-> FALSE]
             asks == [ref |-> n, quantity |-> "asked", manual |-> TRUE]
  <2>1. \/ w \in Scans /\ w \notin Admins
        \/ w \notin Scans /\ w \in Admins
    BY WorkerAssumption DEF Workers
  <2>2. orders' = [orders EXCEPT ![e] =
          [ref |-> n, quantity |-> IF w \in Scans THEN "default" ELSE "asked", manual |-> w \in Admins]]
    BY <1>3 DEF CommitOrder, WriteOrder
  <2>3. \/ orders' = [orders EXCEPT ![e] = scans]
        \/ orders' = [orders EXCEPT ![e] = asks]
    <3>1. CASE w \in Scans /\ w \notin Admins
      <4>1. (w \in Admins) = FALSE
        BY <3>1
      <4> QED  BY <2>2, <3>1, <4>1
    <3>2. CASE w \notin Scans /\ w \in Admins
      <4>1. (w \in Admins) = TRUE
        BY <3>2
      <4> QED  BY <2>2, <3>2, <4>1
    <3> QED  BY <2>1, <3>1, <3>2
  <2>4. \E o \in {scans, asks} : orders' = [orders EXCEPT ![e] = o]
    BY <2>3
  <2>5. Register!Create(e)
    BY <1>1, <1>2, <1>3, <2>4 DEF Register!Create
  <2> QED
    BY <1>1, <2>5 DEF Register!Next
<1>4. CASE ~sess[w].created /\ UNCHANGED orders
  BY <1>2, <1>4 DEF Register!Next, Register!Spend
<1>5. CASE /\ orders[e] # NoOrder
           /\ orders' = [orders EXCEPT ![e].quantity = "asked", ![e].manual = TRUE]
  <2>1. orders[e] \in Order
    BY <1>1
  <2>2. orders' = [orders EXCEPT ![e] = [orders[e] EXCEPT !.quantity = "asked", !.manual = TRUE]]
    BY <1>1, <1>5
  <2>3. [orders[e] EXCEPT !.quantity = "asked", !.manual = TRUE]
          = [ref |-> orders[e].ref, quantity |-> "asked", manual |-> TRUE]
    BY <2>1, Overridden
  <2>4. orders' = [orders EXCEPT ![e] = [ref |-> orders[e].ref, quantity |-> "asked", manual |-> TRUE]]
    BY <2>2, <2>3
  <2>5. Register!Override(e)
    BY <1>1, <1>2, <1>5, <2>4 DEF Register!Override
  <2> QED
    BY <1>1, <2>5 DEF Register!Next
<1> QED
  BY <1>3, <1>4, <1>5 DEF CommitOrder, WriteOrder

\* Every step of the sessions is a step of the register or none of its
\* business.
LEMMA RegisterStep ==
  ASSUME SeqInv, [Next]_vars
  PROVE  [Register!Next]_<<orders, Given>>
<1>1. UNCHANGED <<orders, nextSeq>> => UNCHANGED <<orders, Given>>
  BY DEF Given
<1>2. ASSUME NEW e \in Employees, DeleteOrder(e)
      PROVE  Register!Next
  BY <1>1, <1>2 DEF DeleteOrder, Register!Next, Register!Delete, Given
<1>3. (\E s \in Scans : StartScan(s)) \/ (\E a \in Admins : RequestOrder(a))
        => UNCHANGED <<orders, nextSeq>>
  BY DEF StartScan, RequestOrder
<1>4. UNCHANGED vars => UNCHANGED <<orders, nextSeq>>
  BY DEF vars
<1> QED
  BY <1>1, <1>2, <1>3, <1>4, QuietSteps, CommitIsRegistered DEF Next

\* However many scans and manual creations race, fail and die, together they
\* implement the register: one order for an employee, under a reference that
\* nobody ever gets again.
THEOREM RegisterIsKept == Spec => ImplementsRegister
<1>1. Init => Register!Init
  BY DEF Init, Register!Init, Given
<1>2. SeqInv /\ [Next]_vars => [Register!Next]_<<orders, Given>>
  BY RegisterStep
<1> QED
  BY <1>1, <1>2, SequenceInvariant, PTL DEF Spec, ImplementsRegister, Register!Spec

-----------------------------------------------------------------------------
(* A scan runs out of things to do.                                        *)

\* How far a scan is with its employee; whoever has lost the race to found
\* the year is further than whoever has not run it, as the year has its row.
Stage(s) ==
  IF sess[s].pc = "sequencing" THEN (IF nextSeq = 0 THEN 1 ELSE 3)
  ELSE [founding |-> 2, creating |-> 4, committing |-> 5, scanning |-> 6][sess[s].pc]

\* No step of a scan that has its list leads back: it ends the scan, takes an
\* employee off the list, or gets further with the one in hand, and what other
\* sessions do never sets it back.
ScansAdvance ==
  [][ \A s \in Scans :
        sess[s].pc \notin {"idle", "listing"} /\ sess'[s].pc # "idle" =>
          \/ sess'[s].todo \subseteq sess[s].todo /\ sess'[s].todo # sess[s].todo
          \/ sess'[s].todo = sess[s].todo /\ Stage(s)' > Stage(s)
          \/ sess'[s] = sess[s] /\ Stage(s)' >= Stage(s) ]_vars

\* The stages in numbers.
LEMMA Stages ==
  ASSUME NEW p \in Progress, NEW n \in Nat
  PROVE  LET stage == IF p = "sequencing" THEN (IF n = 0 THEN 1 ELSE 3)
                      ELSE [founding |-> 2, creating |-> 4, committing |-> 5, scanning |-> 6][p]
         IN  /\ p = "sequencing" /\ n = 0 => stage = 1
             /\ p = "founding" => stage = 2
             /\ p = "sequencing" /\ n # 0 => stage = 3
             /\ p = "creating" => stage = 4
             /\ p = "committing" => stage = 5
             /\ p = "scanning" => stage = 6
OBVIOUS

\* A step of session v that is not the scan's leaves it where it is.
LEMMA OthersDoNotSetBack ==
  ASSUME SeqInv, NEW s \in Scans, sess[s].pc \notin {"idle", "listing"},
         sess'[s] = sess[s], nextSeq' \in Nat, nextSeq # 0 => nextSeq' # 0
  PROVE  Stage(s)' >= Stage(s)
<1>1. sess[s] \in Session /\ sess[s].pc \in Progress /\ nextSeq \in Nat
  BY DEF SeqInv, TypeOK, Workers, Session
<1> DEFINE p == sess[s].pc
<1>2. p \in {"scanning", "sequencing", "founding", "creating", "committing"}
  BY <1>1 DEF Progress
<1>3. /\ p = "sequencing" => Stage(s) = IF nextSeq = 0 THEN 1 ELSE 3
      /\ p = "sequencing" => Stage(s)' = IF nextSeq' = 0 THEN 1 ELSE 3
      /\ p # "sequencing" =>
           /\ Stage(s) = [founding |-> 2, creating |-> 4, committing |-> 5, scanning |-> 6][p]
           /\ Stage(s)' = Stage(s)
  BY DEF Stage
<1>4. CASE p = "sequencing"
  BY <1>3, <1>4
<1>5. CASE p # "sequencing"
  <2>1. Stage(s) \in Nat
    BY <1>2, <1>3, <1>5
  <2> QED
    BY <1>3, <1>5, <2>1
<1> QED
  BY <1>4, <1>5

\* The counter never loses its row.
LEMMA CounterStays ==
  ASSUME SeqInv, [Next]_vars
  PROVE  nextSeq' \in Nat /\ (nextSeq # 0 => nextSeq' # 0)
<1>1. SeqInv'
  BY SeqStep
<1>2. nextSeq' \in Nat
  BY <1>1 DEF SeqInv, TypeOK
<1>3. ASSUME NEW w \in Workers, CommitOrder(w) PROVE nextSeq' # 0
  <2>1. sess[w] \in Session /\ nextSeq' = sess[w].ref + 1
    BY <1>3 DEF SeqInv, TypeOK, CommitOrder
  <2> QED
    BY <2>1 DEF Session
<1>4. (\E s \in Scans : StartScan(s)) \/ (\E a \in Admins : RequestOrder(a))
        \/ (\E e \in Employees : DeleteOrder(e)) \/ UNCHANGED vars => nextSeq' = nextSeq
  BY DEF StartScan, RequestOrder, DeleteOrder, vars
<1> QED
  BY <1>2, <1>3, <1>4, QuietSteps DEF Next

\* A session that gives up its transaction has nothing left of the employee.
LEMMA ScanGoesOn ==
  ASSUME SeqInv, NEW s \in Scans, sess' = [sess EXCEPT ![s] = AfterTransaction(s)]
  PROVE  sess'[s].pc = "scanning" /\ sess'[s].todo = sess[s].todo
<1>1. sess'[s] = [IdleSession EXCEPT !.pc = "scanning", !.todo = sess[s].todo]
  BY DEF SeqInv, TypeOK, Workers, AfterTransaction
<1> QED
  BY <1>1 DEF IdleSession

\* What a step of scan s does to its own session.
LEMMA OwnStepAdvances ==
  ASSUME SeqInv, NEW s \in Scans, sess[s].pc \notin {"idle", "listing"}, sess'[s].pc # "idle",
         nextSeq' \in Nat, nextSeq # 0 => nextSeq' # 0,
         Acquire(s) \/ Proceed(s) \/ CommitOrder(s) \/ Fail(s) \/ Crash(s)
  PROVE  \/ sess'[s].todo \subseteq sess[s].todo /\ sess'[s].todo # sess[s].todo
         \/ sess'[s].todo = sess[s].todo /\ Stage(s)' > Stage(s)
<1> DEFINE p == sess[s].pc
           q == sess'[s].pc
<1>1. /\ sess \in [Workers -> Session] /\ s \in Workers /\ sess[s] \in Session
      /\ p \in Progress /\ nextSeq \in Nat
  BY DEF SeqInv, TypeOK, Workers, Session
<1>2. /\ p = "sequencing" /\ nextSeq = 0 => Stage(s) = 1
      /\ p = "founding" => Stage(s) = 2
      /\ p = "sequencing" /\ nextSeq # 0 => Stage(s) = 3
      /\ p = "creating" => Stage(s) = 4
      /\ p = "committing" => Stage(s) = 5
  BY <1>1, Stages DEF Stage
<1>3. /\ q = "founding" => Stage(s)' = 2
      /\ q = "sequencing" /\ nextSeq' # 0 => Stage(s)' = 3
      /\ q = "creating" => Stage(s)' = 4
      /\ q = "committing" => Stage(s)' = 5
      /\ q = "scanning" => Stage(s)' = 6
  <2>1. q \in {"sequencing", "founding", "creating", "committing", "scanning"} => q \in Progress
    BY DEF Progress
  <2> QED
    BY <2>1, Stages DEF Stage
<1>4. p \in Working => Stage(s) \in 1..5
  BY <1>1, <1>2 DEF Working
<1>5. CASE LockYear(s)
  <2>1. p = "sequencing" /\ nextSeq # 0 /\ q = "creating" /\ sess'[s].todo = sess[s].todo
    BY <1>1, <1>5 DEF LockYear, TakeNumber, Session
  <2> QED  BY <1>2, <1>3, <2>1
<1>6. CASE FoundYear(s)
  <2>1. p = "founding" /\ q = "creating" /\ sess'[s].todo = sess[s].todo
    BY <1>1, <1>6 DEF FoundYear, TakeNumber, Session
  <2> QED  BY <1>2, <1>3, <2>1
<1>7. CASE RetryYear(s)
  <2>1. p = "founding" /\ q = "sequencing" /\ nextSeq' # 0 /\ sess'[s].todo = sess[s].todo
    BY <1>1, <1>7 DEF RetryYear, Session
  <2> QED  BY <1>2, <1>3, <2>1
<1>8. CASE MissYear(s)
  <2>1. p = "sequencing" /\ nextSeq = 0 /\ q = "founding" /\ sess'[s].todo = sess[s].todo
    BY <1>1, <1>8 DEF MissYear, Session
  <2> QED  BY <1>2, <1>3, <2>1
<1>9. CASE CreateOrGet(s)
  <2>1. p = "creating" /\ q = "committing" /\ sess'[s].todo = sess[s].todo
    BY <1>1, <1>9 DEF CreateOrGet, Session
  <2> QED  BY <1>2, <1>3, <2>1
<1>10. CASE CommitOrder(s) \/ Fail(s)
  <2>1. p \in Working /\ sess' = [sess EXCEPT ![s] = AfterTransaction(s)]
    BY <1>10 DEF CommitOrder, Fail, Working
  <2>2. q = "scanning" /\ sess'[s].todo = sess[s].todo
    BY <2>1, ScanGoesOn
  <2> QED  BY <1>3, <1>4, <2>1, <2>2
<1>11. CASE NextEmployee(s)
  <2>1. PICK e \in sess[s].todo :
          sess' = [sess EXCEPT ![s].pc = "sequencing", ![s].employee = e, ![s].todo = @ \ {e}]
    BY <1>11 DEF NextEmployee
  <2>2. sess'[s].todo = sess[s].todo \ {e}
    BY <1>1, <2>1 DEF Session
  <2> QED  BY <2>1, <2>2
<1>12. CASE Crash(s) \/ FinishScan(s)
  <2>1. q = "idle"
    BY <1>1, <1>12 DEF Crash, FinishScan, IdleSession
  <2> QED  BY <2>1
<1>13. ~ListEmployees(s) /\ ~Defer(s)
  BY DEF ListEmployees, Defer
<1> QED
  BY <1>5, <1>6, <1>7, <1>8, <1>9, <1>10, <1>11, <1>12, <1>13 DEF Acquire, Proceed

\* A step of another session leaves the scan's alone.
LEMMA OthersLeaveSession ==
  ASSUME SeqInv, [Next]_vars, NEW s \in Scans, sess[s].pc \notin {"idle", "listing"},
         ~(Acquire(s) \/ Proceed(s) \/ CommitOrder(s) \/ Fail(s) \/ Crash(s))
  PROVE  sess'[s] = sess[s]
<1>1. sess \in [Workers -> Session] /\ s \in Workers
  BY DEF SeqInv, TypeOK, Workers
<1>2. ASSUME NEW w \in Workers, w # s, Acquire(w) \/ Proceed(w)
      PROVE  sess'[s] = sess[s]
  BY <1>1, <1>2 DEF Acquire, LockYear, FoundYear, RetryYear, TakeNumber, Proceed, Defer,
       ListEmployees, NextEmployee, FinishScan, MissYear, CreateOrGet
<1>3. ASSUME NEW w \in Workers, w # s, CommitOrder(w) \/ Fail(w) \/ Crash(w)
      PROVE  sess'[s] = sess[s]
  BY <1>1, <1>3 DEF CommitOrder, Fail, Crash
<1>4. ASSUME NEW t \in Scans, StartScan(t)
      PROVE  sess'[s] = sess[s]
  <2>1. t # s
    BY <1>4 DEF StartScan
  <2> QED  BY <1>1, <1>4, <2>1 DEF StartScan
<1>5. ASSUME NEW a \in Admins, RequestOrder(a)
      PROVE  sess'[s] = sess[s]
  <2>1. a # s
    BY <1>5 DEF RequestOrder
  <2> QED  BY <1>1, <1>5, <2>1 DEF RequestOrder
<1>6. (\E e \in Employees : DeleteOrder(e)) \/ UNCHANGED vars => sess' = sess
  BY DEF DeleteOrder, vars
<1> QED
  BY <1>2, <1>3, <1>4, <1>5, <1>6 DEF Next

\* A scan runs out of things to do: with every step of its own it has fewer
\* employees left or is further with the one in hand, and no failure, retry or
\* race leads back, so that only waiting could keep it from its end.
THEOREM ScansNeverGoBack == Spec => ScansAdvance
<1>1. ASSUME SeqInv, [Next]_vars, NEW s \in Scans,
             sess[s].pc \notin {"idle", "listing"}, sess'[s].pc # "idle"
      PROVE  \/ sess'[s].todo \subseteq sess[s].todo /\ sess'[s].todo # sess[s].todo
             \/ sess'[s].todo = sess[s].todo /\ Stage(s)' > Stage(s)
             \/ sess'[s] = sess[s] /\ Stage(s)' >= Stage(s)
  <2>1. nextSeq' \in Nat /\ (nextSeq # 0 => nextSeq' # 0)
    BY <1>1, CounterStays
  <2>2. CASE Acquire(s) \/ Proceed(s) \/ CommitOrder(s) \/ Fail(s) \/ Crash(s)
    BY <1>1, <2>1, <2>2, OwnStepAdvances
  <2>3. CASE ~(Acquire(s) \/ Proceed(s) \/ CommitOrder(s) \/ Fail(s) \/ Crash(s))
    <3>1. sess'[s] = sess[s]
      BY <1>1, <2>3, OthersLeaveSession
    <3> QED  BY <1>1, <2>1, <3>1, OthersDoNotSetBack
  <2> QED
    BY <2>2, <2>3
<1>2. SeqInv /\ [Next]_vars =>
        [\A s \in Scans :
           sess[s].pc \notin {"idle", "listing"} /\ sess'[s].pc # "idle" =>
             \/ sess'[s].todo \subseteq sess[s].todo /\ sess'[s].todo # sess[s].todo
             \/ sess'[s].todo = sess[s].todo /\ Stage(s)' > Stage(s)
             \/ sess'[s] = sess[s] /\ Stage(s)' >= Stage(s)]_vars
  BY <1>1
<1> QED
  BY <1>2, SequenceInvariant, PTL DEF Spec, ScansAdvance
=============================================================================

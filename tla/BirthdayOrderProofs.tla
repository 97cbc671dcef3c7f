------------------------ MODULE BirthdayOrderProofs ------------------------
(***************************************************************************)
(* Theorems about BirthdayOrder, for any number of requests in flight, any *)
(* suppliers and any bound on the mail attempts.                           *)
(***************************************************************************)
EXTENDS BirthdayOrder, FiniteSetTheorems, TLAPS

-----------------------------------------------------------------------------
(* Lemmas about the tables and the row.                                    *)

\* The status table leads from statuses to statuses.
LEMMA AllowedAreStatuses ==
  ASSUME NEW from, NEW to, <<from, to>> \in AllowedTransitions
  PROVE  from \in Statuses /\ to \in Statuses
BY DEF AllowedTransitions, Statuses, Internal, SupplierVisible, SupplierHeld

\* A supplier moves an order only from and to statuses in which it holds the
\* order, and never completes it.
LEMMA DrivableAreHeld ==
  ASSUME NEW from, NEW to, <<from, to>> \in SupplierDrivable
  PROVE  from \in SupplierHeld /\ to \in SupplierHeld /\ to # "COMPLETED"
BY DEF SupplierDrivable, SupplierHeld

\* A column that is written takes its old or its new value.
LEMMA MergeType ==
  ASSUME NEW old \in Row, NEW new \in Row, order \in Row
  PROVE  Merge(old, new) \in Row
BY DEF Merge, Written, Row

\* What a commit can do to the columns the safety properties read.
LEMMA MergeEffect ==
  ASSUME NEW old, NEW new
  PROVE  /\ Merge(old, new).status = order.status \/ Merge(old, new).status = new.status
         /\ new.status = old.status => Merge(old, new).status = order.status
         /\ Merge(old, new).retries = order.retries \/ Merge(old, new).retries = new.retries
         /\ new.retries = old.retries => Merge(old, new).retries = order.retries
         /\ Merge(old, new).stamps = order.stamps \cup new.stamps
BY DEF Merge, Written

-----------------------------------------------------------------------------
(* Type correctness.                                                       *)

\* A request that goes on keeps its type ...
LEMMA GotoType ==
  ASSUME TypeOK, NEW r \in Requests, NEW pc \in Progress, NEW snap \in Row, Goto(r, pc, snap),
         pc = "stamping" => snap.status \in DOMAIN StageStamp
  PROVE  req' \in [Requests -> Request]
BY DEF TypeOK, Goto, Request

\* ... one that ends too ...
LEMMA FinishType ==
  ASSUME TypeOK, NEW r \in Requests, Finish(r)
  PROVE  req' \in [Requests -> Request]
<1>1. NoRow \in Row
  BY AddressAssumption, QuantityAssumption DEF NoRow, Row, Stamps
<1>2. IdleRequest \in Request
  BY <1>1 DEF IdleRequest, Request, Progress
<1> QED
  BY <1>2 DEF TypeOK, Finish

\* ... and a committed row is a row.
LEMMA CommitType ==
  ASSUME TypeOK, NEW r \in Requests, NEW new \in Row, Commit(r, new)
  PROVE  order' \in Row
<1>1. req[r].snap \in Row
  BY DEF TypeOK, Request
<1> QED
  BY <1>1, MergeType DEF TypeOK, Commit

\* The status of a row can be set to any status.
LEMMA StatusType ==
  ASSUME NEW o \in Row, NEW st \in Statuses
  PROVE  [o EXCEPT !.status = st] \in Row
BY DEF Row

\* A move along the table leaves a row.
LEMMA TransitionType ==
  ASSUME TypeOK, NEW r \in Requests, NEW to, Transition(r, to)
  PROVE  /\ order' \in Row
         /\ to \in Statuses
         /\ [req[r].snap EXCEPT !.status = to] \in Row
<1>1. to \in Statuses
  BY AllowedAreStatuses DEF Transition
<1>2. req[r].snap \in Row
  BY DEF TypeOK, Request
<1>3. [req[r].snap EXCEPT !.status = to] \in Row
  BY <1>1, <1>2, StatusType
<1> QED
  BY <1>1, <1>3, CommitType DEF Transition

\* The other columns a commit may set are typed as well.
LEMMA ColumnTypes ==
  ASSUME NEW o \in Row
  PROVE  /\ \A a \in AddressStatuses : [o EXCEPT !.address = a] \in Row
         /\ [o EXCEPT !.corrected = TRUE] \in Row
         /\ \A su \in Suppliers \cup {NoSupplier}, q \in Quantities, d \in BOOLEAN :
              [o EXCEPT !.supplier = su, !.quantity = q, !.details = d] \in Row
         /\ \A s \in Stamps : [o EXCEPT !.stamps = @ \cup {s}] \in Row
         /\ \A st \in Statuses, s \in Stamps :
              [o EXCEPT !.status = st, !.stamps = @ \cup {s}] \in Row
         /\ \A st \in Statuses :
              [o EXCEPT !.status = st, !.retries = @ + 1] \in Row
         /\ \A st \in Statuses, by \in {"nobody", "user"}, s \in Stamps :
              [o EXCEPT !.status = st, !.releasedBy = by, !.stamps = @ \cup {s}] \in Row
<1>1. \A a \in AddressStatuses : [o EXCEPT !.address = a] \in Row
  BY DEF Row
<1>2. [o EXCEPT !.corrected = TRUE] \in Row
  BY DEF Row
<1>3. \A su \in Suppliers \cup {NoSupplier}, q \in Quantities, d \in BOOLEAN :
        [o EXCEPT !.supplier = su, !.quantity = q, !.details = d] \in Row
  BY DEF Row
<1>4. \A s \in Stamps : [o EXCEPT !.stamps = @ \cup {s}] \in Row
  BY DEF Row
<1>5. \A st \in Statuses, s \in Stamps :
        [o EXCEPT !.status = st, !.stamps = @ \cup {s}] \in Row
  BY DEF Row
<1>6. \A st \in Statuses : [o EXCEPT !.status = st, !.retries = @ + 1] \in Row
  <2>1. o.retries + 1 \in Nat
    BY DEF Row
  <2> QED
    BY <2>1 DEF Row
<1>7. \A st \in Statuses, by \in {"nobody", "user"}, s \in Stamps :
        [o EXCEPT !.status = st, !.releasedBy = by, !.stamps = @ \cup {s}] \in Row
  BY DEF Row
<1> QED
  BY <1>1, <1>2, <1>3, <1>4, <1>5, <1>6, <1>7

\* Every step of one request that is neither a transition nor a refresh.
LEMMA RequestTypeStep ==
  ASSUME TypeOK, NEW r \in Requests, Serve(r)
  PROVE  TypeOK'
<1>0. /\ req[r].snap \in Row
      /\ req \in [Requests -> Request]
      /\ order \in Row
      /\ comms \in [sent : Nat, failed : Nat]
      /\ mails \in Nat
      /\ autoRelease \in BOOLEAN
      /\ NoRow \in Row
  BY AddressAssumption, QuantityAssumption DEF TypeOK, Request, NoRow, Row, Stamps
<1>1. CASE Answer(r) \/ RowVanished(r)
  BY <1>0, <1>1, FinishType DEF TypeOK, Answer, RowVanished
<1>2. CASE Hold(r) \/ Release(r) \/ Cancel(r) \/ CannotFulfil(r) \/ Park(r)
  <2>1. PICK to : Transition(r, to) /\ Finish(r)
    BY <1>2 DEF Hold, Release, Cancel, CannotFulfil, Park
  <2> QED
    BY <1>0, <2>1, TransitionType, FinishType DEF TypeOK, Transition
<1>3. CASE SupplierUpdate(r)
  <2>1. PICK to \in Statuses :
          /\ Transition(r, to)
          /\ \/ to \in DOMAIN StageStamp /\ Goto(r, "stamping", [req[r].snap EXCEPT !.status = to])
             \/ Finish(r)
    BY <1>3 DEF SupplierUpdate
  <2>2. /\ [req[r].snap EXCEPT !.status = to] \in Row
        /\ [req[r].snap EXCEPT !.status = to].status = to
        /\ "stamping" \in Progress
    BY <1>0, <2>1, TransitionType DEF Progress, Row
  <2> QED
    BY <1>0, <2>1, <2>2, TransitionType, FinishType, GotoType DEF TypeOK, Transition
<1>4. CASE CheckDeletable(r)
  <2>1. "deleting" \in Progress
    BY DEF Progress
  <2> QED
    BY <1>0, <1>4, <2>1, GotoType DEF TypeOK, CheckDeletable
<1>5. CASE DeleteOrder(r)
  BY <1>0, <1>5, FinishType DEF TypeOK, DeleteOrder
<1>6. ASSUME NEW byHuman \in BOOLEAN, NEW copy \in Row, CallMail(r, byHuman, copy)
      PROVE  TypeOK'
  <2>1. [pc |-> "mailing", human |-> byHuman, snap |-> copy] \in Request
    BY <1>6 DEF Request, Progress
  <2> QED
    BY <1>0, <1>6, <2>1 DEF TypeOK, CallMail
<1>7. CASE SendToSupplier(r) \/ AutoRelease(r)
  BY <1>0, <1>6, <1>7 DEF SendToSupplier, AutoRelease
<1>8. CASE ConfirmRelease(r)
  <2>1. [req[r].snap EXCEPT !.stamps = @ \cup {"review_confirmed_at"}] \in Row
    BY <1>0, ColumnTypes DEF Stamps
  <2> QED
    BY <1>6, <1>8, <2>1 DEF ConfirmRelease
<1>9. CASE MailAccepted(r) \/ MailFailed(r)
  <2>1. "mailed" \in Progress /\ "bounced" \in Progress
    BY DEF Progress
  <2> QED
    BY <1>0, <1>9, <2>1, GotoType DEF TypeOK, MailAccepted, MailFailed
<1>10. CASE RecordSent(r)
  <2>1. order' \in Row
    <3>1. ASSUME NEW by \in {"nobody", "user"}
          PROVE  [req[r].snap EXCEPT !.status = "SENT_TO_SUPPLIER", !.releasedBy = by,
                                     !.stamps = @ \cup {"released_at"}] \in Row
      BY <1>0, <3>1, ColumnTypes DEF Statuses, SupplierVisible, SupplierHeld, Stamps
    <3> QED
      BY <1>10, <3>1, CommitType DEF RecordSent
  <2> QED
    BY <1>0, <1>10, <2>1, FinishType DEF TypeOK, RecordSent
<1>11. CASE RecordFailed(r)
  <2>1. order' \in Row
    BY <1>0, <1>11, CommitType, ColumnTypes DEF RecordFailed, Statuses, Internal
  <2> QED
    BY <1>0, <1>11, <2>1, FinishType DEF TypeOK, RecordFailed
<1>12. CASE MarkVerified(r)
  <2>1. order' \in Row
    BY <1>0, <1>12, CommitType, ColumnTypes, AddressAssumption DEF MarkVerified
  <2>2. "verified" \in Progress
    BY DEF Progress
  <2> QED
    BY <1>0, <1>12, <2>1, <2>2, GotoType DEF TypeOK, MarkVerified
<1>13. CASE Refresh(r, "verified", "judging") \/ Refresh(r, "stamped", "closing")
  <2>1. "judging" \in Progress /\ "closing" \in Progress
    BY DEF Progress
  <2> QED
    BY <1>0, <1>13, <2>1, GotoType DEF TypeOK, Refresh
<1>14. CASE VerdictRefused(r)
  BY <1>0, <1>14, FinishType DEF TypeOK, VerdictRefused
<1>15. CASE StampStage(r)
  <2>1. StageStamp[req[r].snap.status] \in Stamps
    BY <1>0, <1>15 DEF StampStage, Request, StageStamp, Stamps
  <2>2. order' \in Row
    BY <1>0, <1>15, <2>1, ColumnTypes DEF StampStage
  <2>3. "stamped" \in Progress
    BY DEF Progress
  <2> QED
    BY <1>0, <1>15, <2>2, <2>3, GotoType, FinishType DEF TypeOK, StampStage
<1>16. CASE AutoComplete(r)
  <2>1. order' \in Row
    BY <1>0, <1>16, CommitType, ColumnTypes
       DEF AutoComplete, Statuses, SupplierVisible, SupplierHeld, Stamps
  <2> QED
    BY <1>0, <1>16, <2>1, FinishType DEF TypeOK, AutoComplete
<1>17. CASE Edit(r)
  <2>1. order' \in Row
    BY <1>0, <1>17, CommitType, ColumnTypes
       DEF Edit, SetAddressStatus, CorrectAddress, UpdateOrder
  <2> QED
    BY <1>0, <1>17, <2>1, FinishType
       DEF TypeOK, Edit, SetAddressStatus, CorrectAddress, UpdateOrder
<1> QED
  BY <1>1, <1>2, <1>3, <1>4, <1>5, <1>7, <1>8, <1>9, <1>10, <1>11, <1>12, <1>13, <1>14,
     <1>15, <1>16, <1>17 DEF Serve, Move

\* Every step of the system keeps the types.
LEMMA TypeStep ==
  ASSUME TypeOK, [Next]_vars
  PROVE  TypeOK'
<1>1. CASE UNCHANGED vars
  BY <1>1 DEF TypeOK, vars
<1>2. ASSUME NEW r \in Requests, Load(r) \/ SetAutoRelease(r)
      PROVE  TypeOK'
  <2>1. "loaded" \in Progress
    BY DEF Progress
  <2> QED
    BY <1>2, <2>1, GotoType DEF TypeOK, Load, SetAutoRelease
<1>3. ASSUME NEW r \in Requests, Abort(r)
      PROVE  TypeOK'
  BY <1>3, FinishType DEF TypeOK, Abort
<1> QED
  BY <1>1, <1>2, <1>3, RequestTypeStep DEF Next, Steady

\* The orders that detection and manual creation insert are typed.
LEMMA TypeInit ==
  ASSUME Init
  PROVE  TypeOK
<1>1. NoRow \in Row
  BY AddressAssumption, QuantityAssumption DEF NoRow, Row, Stamps
<1>2. order \in Row
  <2>1. PICK st \in {"PENDING_VERIFICATION", "ON_HOLD", "REQUIRES_ATTENTION"}, sn \in BOOLEAN,
             q \in Quantities, d \in BOOLEAN, su \in Suppliers \cup {NoSupplier} :
          order = [NoRow EXCEPT !.status = st, !.shortNotice = sn, !.quantity = q,
                                !.details = d, !.supplier = su]
    BY DEF Init
  <2>2. st \in Statuses
    BY DEF Statuses, Internal
  <2> QED
    BY <1>1, <2>1, <2>2 DEF Row
<1>3. IdleRequest \in Request
  BY <1>1 DEF IdleRequest, Request, Progress
<1> QED
  BY <1>2, <1>3 DEF Init, TypeOK

\* Every state of the system is typed: the row only ever holds the statuses
\* and timestamp columns the service knows, however requests interleave.
THEOREM TypeCorrect == Spec => []TypeOK
<1>1. Init => TypeOK
  BY TypeInit
<1>2. TypeOK /\ [Next]_vars => TypeOK'
  BY TypeStep
<1> QED
  BY <1>1, <1>2, PTL DEF Spec

-----------------------------------------------------------------------------
(* Safety.  A step is judged by what it does to the records (Monotone) and *)
(* by what it leaves its own request resting on.                           *)

\* No mail, communication or timestamp is taken back.
Monotone ==
  /\ order.status # Gone
  /\ mails' >= mails
  /\ comms'.sent >= comms.sent
  /\ comms'.failed >= comms.failed
  /\ order.stamps \subseteq order'.stamps

\* What the step of one request owes the others.
Sound ==
  /\ Monotone
  /\ HeldIsOnRecord'
  /\ CompletedWasDelivered'
  /\ NoPhantomRetries'

\* On record stays on record.
LEMMA RecordedStays ==
  ASSUME TypeOK, TypeOK', Monotone, Recorded
  PROVE  Recorded'
BY DEF TypeOK, Monotone, Recorded

\* A sound step leaves the other requests resting on what they rested on.
LEMMA OthersRest ==
  ASSUME OrderInv, TypeOK', Sound, NEW r \in Requests, RestsOnRecord(r)',
         \A q \in Requests : q # r => req'[q] = req[q]
  PROVE  OrderInv'
<1>1. ASSUME NEW q \in Requests, q # r
      PROVE  RestsOnRecord(q)'
  <2>1. req'[q] = req[q] /\ RestsOnRecord(q)
    BY <1>1 DEF OrderInv, RequestsRestOnRecord
  <2>2. Recorded => Recorded'
    BY RecordedStays DEF OrderInv, Sound
  <2>3. mails > 0 => mails' > 0
    BY DEF OrderInv, TypeOK, Sound, Monotone
  <2>4. req[q].snap.retries <= comms.failed => req[q].snap.retries <= comms'.failed
    BY DEF OrderInv, TypeOK, Request, Row, Sound, Monotone
  <2> QED
    BY <2>1, <2>2, <2>3, <2>4 DEF RestsOnRecord, Sound, Monotone
<1> QED
  BY <1>1 DEF OrderInv, Sound, RequestsRestOnRecord

\* A request that ends rests on nothing.
LEMMA FinishRests ==
  ASSUME TypeOK, NEW r \in Requests, Finish(r)
  PROVE  /\ RestsOnRecord(r)'
         /\ \A q \in Requests : q # r => req'[q] = req[q]
<1>1. req'[r] = IdleRequest
  BY DEF TypeOK, Finish
<1>2. /\ req'[r].pc = "idle"
      /\ req'[r].snap.status \notin SupplierHeld
  BY <1>1 DEF IdleRequest, NoRow, Gone, SupplierHeld
<1> QED
  BY <1>2 DEF TypeOK, Finish, RestsOnRecord

\* A request that goes on has the progress and the copy it went on with.
LEMMA GotoEffect ==
  ASSUME TypeOK, NEW r \in Requests, NEW pc, NEW snap, Goto(r, pc, snap)
  PROVE  /\ req'[r].pc = pc
         /\ req'[r].snap = snap
         /\ \A q \in Requests : q # r => req'[q] = req[q]
<1>1. req'[r] = [req[r] EXCEPT !.pc = pc, !.snap = snap]
  BY DEF TypeOK, Goto
<1> QED
  BY <1>1 DEF TypeOK, Request, Goto

\* A commit is sound when the columns it writes are: the other columns keep
\* what is committed, so a stale copy does no harm through them.
LEMMA CommitSound ==
  ASSUME OrderInv, TypeOK', NEW r \in Requests, NEW new \in Row, Commit(r, new),
         mails' >= mails, comms'.sent >= comms.sent, comms'.failed >= comms.failed,
         new.status # req[r].snap.status /\ new.status \in SupplierHeld => Recorded',
         new.status # req[r].snap.status /\ new.status = "COMPLETED"
           => {"delivered_at", "completed_at"} \subseteq order'.stamps,
         new.retries # req[r].snap.retries => new.retries <= comms'.failed
  PROVE  Sound
<1> DEFINE old == req[r].snap
<1>1. /\ order.status # Gone
      /\ order' = Merge(old, new)
  BY DEF Commit
<1>2. Monotone
  BY <1>1, MergeEffect DEF Monotone
<1>3. CASE order'.status = order.status
  <2>1. HeldIsOnRecord' /\ CompletedWasDelivered'
    BY <1>2, <1>3, RecordedStays DEF OrderInv, HeldIsOnRecord, CompletedWasDelivered, Monotone
  <2>2. NoPhantomRetries'
    <3>1. order'.retries = order.retries \/ order'.retries <= comms'.failed
      BY <1>1, MergeEffect
    <3> QED
      BY <1>1, <3>1 DEF OrderInv, NoPhantomRetries, TypeOK, Row
  <2> QED
    BY <1>2, <2>1, <2>2 DEF Sound
<1>4. CASE order'.status # order.status
  <2>1. order'.status = new.status /\ new.status # old.status
    BY <1>1, <1>4, MergeEffect
  <2>2. HeldIsOnRecord' /\ CompletedWasDelivered'
    BY <2>1 DEF HeldIsOnRecord, CompletedWasDelivered
  <2>3. NoPhantomRetries'
    <3>1. order'.retries = order.retries \/ order'.retries <= comms'.failed
      BY <1>1, MergeEffect
    <3> QED
      BY <1>1, <3>1 DEF OrderInv, NoPhantomRetries, TypeOK, Row
  <2> QED
    BY <1>2, <2>2, <2>3 DEF Sound
<1> QED
  BY <1>3, <1>4

\* A step that leaves row, mails and communications alone is sound.
LEMMA QuietSound ==
  ASSUME OrderInv, TypeOK', order.status # Gone, UNCHANGED <<order, comms>>, mails' >= mails
  PROVE  Sound
<1>1. comms.sent >= comms.sent /\ comms.failed >= comms.failed
  BY DEF OrderInv, TypeOK
<1>2. Monotone
  BY <1>1 DEF Monotone
<1>3. Recorded => Recorded'
  <2>1. mails > 0 => mails' > 0
    BY DEF OrderInv, TypeOK
  <2> QED
    BY <2>1 DEF Recorded
<1> QED
  BY <1>2, <1>3 DEF OrderInv, Sound, HeldIsOnRecord, CompletedWasDelivered, NoPhantomRetries

\* A transition is sound when it gives the supplier nothing it did not hold.
LEMMA TransitionSound ==
  ASSUME OrderInv, TypeOK', NEW r \in Requests, NEW to, Transition(r, to),
         to # "COMPLETED",
         to \in SupplierHeld => req[r].snap.status \in SupplierHeld
  PROVE  Sound
<1> DEFINE new == [req[r].snap EXCEPT !.status = to]
<1>1. /\ new \in Row
      /\ new.status = to
      /\ new.retries = req[r].snap.retries
  <2>1. req[r].snap \in Row
    BY DEF OrderInv, TypeOK, Request
  <2> QED
    BY <2>1, TransitionType DEF OrderInv, Row
<1>2. Commit(r, new) /\ UNCHANGED <<comms, mails>>
  BY DEF Transition
<1>3. to \in SupplierHeld => Recorded'
  <2>1. to \in SupplierHeld => Recorded
    BY <1>2 DEF OrderInv, RequestsRestOnRecord, RestsOnRecord, Commit
  <2>2. order.stamps \subseteq order'.stamps
    BY <1>2, MergeEffect DEF Commit
  <2> QED
    BY <1>2, <2>1, <2>2 DEF Recorded
<1>4. mails' >= mails /\ comms'.sent >= comms.sent /\ comms'.failed >= comms.failed
  BY <1>2 DEF OrderInv, TypeOK
<1> HIDE DEF new
<1> QED
  BY <1>1, <1>2, <1>3, <1>4, CommitSound

\* Once the row is gone nothing is owed any more.
LEMMA GoneIsSafe ==
  ASSUME TypeOK', order'.status = Gone
  PROVE  OrderInv'
BY DEF OrderInv, HeldIsOnRecord, CompletedWasDelivered, NoPhantomRetries, RequestsRestOnRecord,
       RestsOnRecord, Gone, SupplierHeld

\* A request that only goes on, with the copy it has, rests on what it did.
LEMMA QuietGoto ==
  ASSUME OrderInv, TypeOK', NEW r \in Requests, req[r].pc # "idle",
         UNCHANGED <<order, comms>>, mails' >= mails,
         \A q \in Requests : q # r => req'[q] = req[q],
         req'[r].snap.status = req[r].snap.status,
         req'[r].snap.retries = req[r].snap.retries,
         req'[r].pc \notin {"stamped", "closing"},
         req'[r].pc = "mailed" => mails' > 0
  PROVE  OrderInv'
<1>1. CASE order.status = Gone
  BY <1>1, GoneIsSafe
<1>2. CASE order.status # Gone
  <2>1. Sound
    BY <1>2, QuietSound
  <2>2. Recorded => Recorded'
    BY <2>1, RecordedStays DEF OrderInv, Sound
  <2>3. RestsOnRecord(r)'
    BY <1>2, <2>2 DEF OrderInv, RequestsRestOnRecord, RestsOnRecord
  <2> QED
    BY <2>1, <2>3, OthersRest
<1> QED
  BY <1>1, <1>2

\* Every step of a running request keeps the invariant.
LEMMA RequestStep ==
  ASSUME OrderInv, NEW r \in Requests, Serve(r)
  PROVE  OrderInv'
<1>1. TypeOK' /\ TypeOK
  BY RequestTypeStep DEF OrderInv
<1>2. /\ req[r].snap \in Row
      /\ RestsOnRecord(r)
      /\ mails \in Nat
      /\ comms \in [sent : Nat, failed : Nat]
  BY <1>1 DEF OrderInv, RequestsRestOnRecord, TypeOK, Request
<1>3. ASSUME Finish(r), Sound
      PROVE  OrderInv'
  BY <1>1, <1>3, FinishRests, OthersRest
<1>4. CASE Answer(r) \/ VerdictRefused(r) \/ RowVanished(r)
  <2>1. UNCHANGED <<order, comms, mails>> /\ Finish(r)
    BY <1>4 DEF Answer, VerdictRefused, RowVanished
  <2>2. CASE order.status = Gone
    BY <1>1, <2>1, <2>2, GoneIsSafe
  <2>3. CASE order.status # Gone
    BY <1>1, <1>2, <1>3, <2>1, <2>3, QuietSound
  <2> QED
    BY <2>2, <2>3
<1>5. CASE Hold(r) \/ Release(r) \/ Cancel(r) \/ Park(r) \/ CannotFulfil(r)
  <2>1. PICK to : /\ Transition(r, to)
                  /\ Finish(r)
                  /\ to # "COMPLETED"
                  /\ to \in SupplierHeld => req[r].snap.status \in SupplierHeld
    <3>1. CASE Hold(r) \/ Release(r) \/ Cancel(r)
      BY <3>1 DEF Hold, Release, Cancel, SupplierHeld
    <3>2. CASE Park(r)
      BY <3>2 DEF Park, Verdict, SupplierHeld
    <3>3. CASE CannotFulfil(r)
      BY <3>3 DEF CannotFulfil, SupplierActionable, SupplierHeld
    <3> QED
      BY <1>5, <3>1, <3>2, <3>3
  <2> QED
    BY <1>1, <1>3, <2>1, TransitionSound
<1>6. CASE SupplierUpdate(r)
  <2>1. PICK to \in Statuses :
          /\ <<req[r].snap.status, to>> \in SupplierDrivable
          /\ Transition(r, to)
          /\ \/ Goto(r, "stamping", [req[r].snap EXCEPT !.status = to])
             \/ Finish(r)
    BY <1>6 DEF SupplierUpdate
  <2>2. Sound
    BY <1>1, <2>1, DrivableAreHeld, TransitionSound
  <2>3. CASE Goto(r, "stamping", [req[r].snap EXCEPT !.status = to])
    <3>1. /\ req'[r].pc = "stamping"
          /\ req'[r].snap.retries = req[r].snap.retries
          /\ \A q \in Requests : q # r => req'[q] = req[q]
      BY <1>1, <1>2, <2>3, GotoEffect DEF Row
    <3>2. Recorded'
      <4>1. Recorded
        BY <1>2, <2>1, <2>2, DrivableAreHeld DEF RestsOnRecord, Sound, Monotone
      <4> QED
        BY <1>1, <2>2, <4>1, RecordedStays DEF Sound
    <3>3. req[r].snap.retries <= comms'.failed
      <4>1. req[r].pc # "idle" /\ order.status # Gone
        BY <1>6, <2>2 DEF SupplierUpdate, Sound, Monotone
      <4>2. comms' = comms
        BY <2>1 DEF Transition
      <4> QED
        BY <1>2, <4>1, <4>2 DEF RestsOnRecord
    <3> QED
      BY <1>1, <2>2, <3>1, <3>2, <3>3, OthersRest DEF RestsOnRecord
  <2> QED
    BY <1>3, <2>1, <2>2, <2>3
<1>7. CASE CheckDeletable(r)
  <2>1. mails' >= mails
    BY <1>2, <1>7 DEF CheckDeletable
  <2> QED
    BY <1>1, <1>7, <2>1, GotoEffect, QuietGoto DEF CheckDeletable
<1>8. CASE DeleteOrder(r)
  BY <1>1, <1>8, GoneIsSafe DEF DeleteOrder, NoRow
<1>9. ASSUME NEW byHuman, NEW copy, CallMail(r, byHuman, copy), req[r].pc # "idle",
             copy.status = req[r].snap.status, copy.retries = req[r].snap.retries
      PROVE  OrderInv'
  <2>1. /\ req'[r] = [pc |-> "mailing", human |-> byHuman, snap |-> copy]
        /\ \A q \in Requests : q # r => req'[q] = req[q]
    BY <1>1, <1>9 DEF CallMail, TypeOK
  <2>2. req'[r].pc = "mailing" /\ req'[r].snap = copy
    BY <2>1
  <2>3. UNCHANGED <<order, comms>> /\ mails' >= mails
    BY <1>2, <1>9 DEF CallMail
  <2> QED
    BY <1>1, <1>9, <2>1, <2>2, <2>3, QuietGoto
<1>10. CASE SendToSupplier(r) \/ AutoRelease(r)
  BY <1>9, <1>10 DEF SendToSupplier, AutoRelease
<1>11. CASE ConfirmRelease(r)
  <2> DEFINE copy == [req[r].snap EXCEPT !.stamps = @ \cup {"review_confirmed_at"}]
  <2>1. copy.status = req[r].snap.status /\ copy.retries = req[r].snap.retries
    BY <1>2 DEF Row
  <2>2. CallMail(r, TRUE, copy) /\ req[r].pc # "idle"
    BY <1>11 DEF ConfirmRelease
  <2> HIDE DEF copy
  <2> QED
    BY <1>9, <2>1, <2>2
<1>12. CASE MailAccepted(r)
  <2>1. mails' >= mails /\ mails' > 0
    BY <1>2, <1>12 DEF MailAccepted
  <2> QED
    BY <1>1, <1>12, <2>1, GotoEffect, QuietGoto DEF MailAccepted
<1>13. CASE MailFailed(r)
  <2>1. mails' >= mails
    BY <1>2, <1>13 DEF MailFailed
  <2> QED
    BY <1>1, <1>13, <2>1, GotoEffect, QuietGoto DEF MailFailed
<1>14. CASE RecordSent(r)
  <2> DEFINE new == [req[r].snap EXCEPT !.status = "SENT_TO_SUPPLIER",
                                        !.releasedBy = IF req[r].human THEN "user" ELSE "nobody",
                                        !.stamps = @ \cup {"released_at"}]
  <2>1. /\ new \in Row
        /\ new.status = "SENT_TO_SUPPLIER"
        /\ new.retries = req[r].snap.retries
        /\ "released_at" \in new.stamps
    <3>1. ASSUME NEW by \in {"nobody", "user"}
          PROVE  [req[r].snap EXCEPT !.status = "SENT_TO_SUPPLIER", !.releasedBy = by,
                                     !.stamps = @ \cup {"released_at"}] \in Row
      BY <1>2, <3>1, ColumnTypes DEF Statuses, SupplierVisible, SupplierHeld, Stamps
    <3> QED
      BY <1>2, <3>1 DEF Row
  <2>2. Commit(r, new) /\ Finish(r) /\ UNCHANGED mails /\ comms' = [comms EXCEPT !.sent = @ + 1]
    BY <1>14 DEF RecordSent
  <2>3. /\ mails' >= mails
        /\ comms'.sent >= comms.sent
        /\ comms'.sent > 0
        /\ comms'.failed >= comms.failed
    BY <1>2, <2>2
  <2> HIDE DEF new
  <2>4. Recorded'
    <3>1. "released_at" \in order'.stamps
      BY <2>1, <2>2, MergeEffect DEF Commit
    <3>2. mails > 0
      BY <1>2, <1>14 DEF RestsOnRecord, RecordSent, Commit
    <3> QED
      BY <2>2, <2>3, <3>1, <3>2 DEF Recorded
  <2>5. Sound
    BY <1>1, <2>1, <2>2, <2>3, <2>4, CommitSound
  <2> QED
    BY <1>3, <2>2, <2>5
<1>15. CASE RecordFailed(r)
  <2> DEFINE new == [req[r].snap EXCEPT !.status = "REQUIRES_ATTENTION", !.retries = @ + 1]
  <2>1. /\ new \in Row
        /\ new.status = "REQUIRES_ATTENTION"
        /\ new.retries = req[r].snap.retries + 1
    <3>1. "REQUIRES_ATTENTION" \in Statuses
      BY DEF Statuses, Internal
    <3>2. new \in Row
      BY <1>2, <3>1, ColumnTypes
    <3> QED
      BY <1>2, <3>2 DEF Row
  <2>2. Commit(r, new) /\ Finish(r) /\ UNCHANGED mails /\ comms' = [comms EXCEPT !.failed = @ + 1]
    BY <1>15 DEF RecordFailed
  <2>3. req[r].snap.retries <= comms.failed
    BY <1>2, <1>15 DEF RestsOnRecord, RecordFailed, Commit
  <2>4. req[r].snap.retries \in Nat
    BY <1>2 DEF Row
  <2>5. /\ mails' >= mails
        /\ comms'.sent >= comms.sent
        /\ comms'.failed >= comms.failed
        /\ new.retries <= comms'.failed
    BY <1>2, <2>1, <2>2, <2>3, <2>4
  <2> HIDE DEF new
  <2>6. Sound
    BY <1>1, <2>1, <2>2, <2>5, CommitSound DEF SupplierHeld
  <2> QED
    BY <1>3, <2>2, <2>6
<1>16. CASE MarkVerified(r)
  <2> DEFINE new == [req[r].snap EXCEPT !.address = "VERIFIED"]
  <2>1. /\ new \in Row
        /\ new.status = req[r].snap.status
        /\ new.retries = req[r].snap.retries
    BY <1>2, AddressAssumption DEF Row
  <2>2. Commit(r, new) /\ Goto(r, "verified", req[r].snap) /\ UNCHANGED <<mails, comms>>
    BY <1>16 DEF MarkVerified
  <2>3. /\ mails' >= mails
        /\ comms'.sent >= comms.sent
        /\ comms'.failed >= comms.failed
    BY <1>2, <2>2
  <2> HIDE DEF new
  <2>4. Sound
    BY <1>1, <2>1, <2>2, <2>3, CommitSound
  <2>5. RestsOnRecord(r)'
    <3>1. Recorded => Recorded'
      BY <1>1, <2>4, RecordedStays DEF Sound
    <3>2. req'[r].pc = "verified" /\ req'[r].snap = req[r].snap
      BY <1>1, <2>2, GotoEffect
    <3>3. req[r].snap.retries <= comms'.failed
      BY <1>2, <1>16, <2>2 DEF RestsOnRecord, Commit, MarkVerified
    <3> QED
      BY <1>2, <2>4, <3>1, <3>2, <3>3 DEF RestsOnRecord, Sound, Monotone
  <2> QED
    BY <1>1, <2>2, <2>4, <2>5, GotoEffect, OthersRest
<1>17. CASE Refresh(r, "verified", "judging") \/ Refresh(r, "stamped", "closing")
  <2>1. /\ UNCHANGED <<order, comms, mails>>
        /\ order.status # Gone
        /\ \/ Goto(r, "judging", order)
           \/ req[r].pc = "stamped" /\ Goto(r, "closing", order)
    BY <1>17 DEF Refresh
  <2>2. Sound
    BY <1>1, <1>2, <2>1, QuietSound
  <2>3. RestsOnRecord(r)'
    <3>1. order.status \in SupplierHeld => Recorded'
      BY <2>1 DEF OrderInv, HeldIsOnRecord, Recorded
    <3>2. order.retries <= comms'.failed
      BY <2>1 DEF OrderInv, NoPhantomRetries
    <3>3. req'[r].snap = order /\ req'[r].pc \in {"judging", "closing"}
      BY <1>1, <2>1, GotoEffect
    <3>4. req'[r].pc = "closing" => "delivered_at" \in order'.stamps
      BY <1>1, <1>2, <2>1, GotoEffect DEF RestsOnRecord
    <3> QED
      BY <3>1, <3>2, <3>3, <3>4 DEF RestsOnRecord
  <2> QED
    BY <1>1, <2>1, <2>2, <2>3, GotoEffect, OthersRest
<1>18. CASE StampStage(r)
  <2> DEFINE stamp == StageStamp[req[r].snap.status]
  <2>1. /\ order.status # Gone
        /\ order' = [order EXCEPT !.stamps = @ \cup {stamp}]
        /\ UNCHANGED <<comms, mails>>
        /\ IF req[r].snap.status = "DELIVERED" THEN Goto(r, "stamped", req[r].snap) ELSE Finish(r)
    BY <1>18 DEF StampStage
  <2>2. /\ order'.status = order.status
        /\ order'.retries = order.retries
        /\ order'.stamps = order.stamps \cup {stamp}
    BY <1>1, <2>1 DEF TypeOK, Row
  <2>3. Sound
    <3>1. Monotone
      BY <1>2, <2>1, <2>2 DEF Monotone
    <3>2. HeldIsOnRecord'
      BY <1>1, <2>2, <3>1, RecordedStays DEF OrderInv, HeldIsOnRecord
    <3> QED
      BY <2>1, <2>2, <3>1, <3>2 DEF OrderInv, Sound, CompletedWasDelivered, NoPhantomRetries
  <2>4. CASE Finish(r)
    BY <1>3, <2>3, <2>4
  <2>5. CASE Goto(r, "stamped", req[r].snap) /\ req[r].snap.status = "DELIVERED"
    <3>1. req'[r].pc = "stamped" /\ req'[r].snap = req[r].snap
      BY <1>1, <2>5, GotoEffect
    <3>2. stamp = "delivered_at"
      BY <2>5 DEF StageStamp
    <3>3. Recorded => Recorded'
      BY <1>1, <2>3, RecordedStays DEF Sound
    <3>4. req[r].snap.retries <= comms'.failed
      BY <1>2, <1>18, <2>1 DEF RestsOnRecord, StampStage
    <3>5. RestsOnRecord(r)'
      BY <1>2, <2>1, <2>2, <3>1, <3>2, <3>3, <3>4 DEF RestsOnRecord
    <3> QED
      BY <1>1, <2>3, <2>5, <3>5, GotoEffect, OthersRest
  <2> QED
    BY <2>1, <2>4, <2>5
<1>19. CASE AutoComplete(r)
  <2>1. UNCHANGED <<comms, mails>> /\ Finish(r) /\ req[r].pc = "closing"
    BY <1>19 DEF AutoComplete
  <2>2. CASE UNCHANGED order
    <3>1. CASE order.status = Gone
      BY <1>1, <2>2, <3>1, GoneIsSafe
    <3>2. CASE order.status # Gone
      BY <1>1, <1>2, <1>3, <2>1, <2>2, <3>2, QuietSound
    <3> QED
      BY <3>1, <3>2
  <2>3. CASE req[r].snap.status = "DELIVERED"
             /\ Commit(r, [req[r].snap EXCEPT !.status = "COMPLETED",
                                              !.stamps = @ \cup {"completed_at"}])
    <3> DEFINE new == [req[r].snap EXCEPT !.status = "COMPLETED",
                                          !.stamps = @ \cup {"completed_at"}]
    <3>1. "COMPLETED" \in Statuses /\ "completed_at" \in Stamps
      BY DEF Statuses, SupplierVisible, SupplierHeld, Stamps
    <3>2. new \in Row
      BY <1>2, <3>1, ColumnTypes
    <3>3. /\ new.status = "COMPLETED"
          /\ new.retries = req[r].snap.retries
          /\ "completed_at" \in new.stamps
      BY <1>2, <3>2 DEF Row
    <3>4. Commit(r, new)
      BY <2>3
    <3> HIDE DEF new
    <3>5. order' = Merge(req[r].snap, new) /\ order'.stamps = order.stamps \cup new.stamps
      BY <3>4, MergeEffect DEF Commit
    <3>6. Recorded /\ "delivered_at" \in order.stamps
      BY <1>2, <2>1, <2>3 DEF RestsOnRecord, Commit, SupplierHeld
    <3>7. Recorded'
      BY <2>1, <3>5, <3>6 DEF Recorded
    <3>8. mails' >= mails /\ comms'.sent >= comms.sent /\ comms'.failed >= comms.failed
      BY <1>2, <2>1
    <3>9. Sound
      BY <1>1, <3>2, <3>3, <3>4, <3>5, <3>6, <3>7, <3>8, CommitSound
    <3> QED
      BY <1>3, <2>1, <3>9
  <2> QED
    BY <1>19, <2>2, <2>3 DEF AutoComplete
<1>20. CASE Edit(r)
  <2>1. UNCHANGED <<comms, mails>> /\ Finish(r)
    BY <1>20 DEF Edit, SetAddressStatus, CorrectAddress, UpdateOrder
  <2>2. mails' >= mails /\ comms'.sent >= comms.sent /\ comms'.failed >= comms.failed
    BY <1>2, <2>1
  <2>3. ASSUME NEW new \in Row, Commit(r, new),
               new.status = req[r].snap.status, new.retries = req[r].snap.retries
        PROVE  OrderInv'
    BY <1>1, <1>3, <2>1, <2>2, <2>3, CommitSound
  <2>4. CASE SetAddressStatus(r)
    <3>1. PICK a \in AddressStatuses : Commit(r, [req[r].snap EXCEPT !.address = a])
      BY <2>4 DEF SetAddressStatus
    <3> DEFINE new == [req[r].snap EXCEPT !.address = a]
    <3>2. new \in Row /\ new.status = req[r].snap.status /\ new.retries = req[r].snap.retries
      <4>1. new \in Row
        BY <1>2, ColumnTypes
      <4> QED
        BY <1>2, <4>1 DEF Row
    <3>3. Commit(r, new)
      BY <3>1
    <3> HIDE DEF new
    <3> QED
      BY <2>3, <3>2, <3>3
  <2>5. CASE CorrectAddress(r)
    <3> DEFINE new == [req[r].snap EXCEPT !.corrected = TRUE]
    <3>1. new \in Row /\ new.status = req[r].snap.status /\ new.retries = req[r].snap.retries
      <4>1. new \in Row
        BY <1>2, ColumnTypes
      <4> QED
        BY <1>2, <4>1 DEF Row
    <3>2. Commit(r, new)
      BY <2>5 DEF CorrectAddress
    <3> HIDE DEF new
    <3> QED
      BY <2>3, <3>1, <3>2
  <2>6. CASE UpdateOrder(r)
    <3>1. PICK su \in Suppliers \cup {NoSupplier}, q \in Quantities, d \in BOOLEAN :
            Commit(r, [req[r].snap EXCEPT !.supplier = su, !.quantity = q, !.details = d])
      BY <2>6 DEF UpdateOrder
    <3> DEFINE new == [req[r].snap EXCEPT !.supplier = su, !.quantity = q, !.details = d]
    <3>2. new \in Row /\ new.status = req[r].snap.status /\ new.retries = req[r].snap.retries
      <4>1. new \in Row
        BY <1>2, ColumnTypes
      <4> QED
        BY <1>2, <4>1 DEF Row
    <3>3. Commit(r, new)
      BY <3>1
    <3> HIDE DEF new
    <3> QED
      BY <2>3, <3>2, <3>3
  <2> QED
    BY <1>20, <2>4, <2>5, <2>6 DEF Edit
<1> QED
  BY <1>4, <1>5, <1>6, <1>7, <1>8, <1>10, <1>11, <1>12, <1>13, <1>14, <1>15, <1>16, <1>17,
     <1>18, <1>19, <1>20 DEF Serve, Move

\* OrderInv is inductive: every step of the system keeps it.
LEMMA OrderStep ==
  ASSUME OrderInv, [Next]_vars
  PROVE  OrderInv'
<1>1. TypeOK /\ TypeOK'
  BY TypeStep DEF OrderInv
<1>2. CASE UNCHANGED vars
  BY <1>2 DEF vars, OrderInv, TypeOK, HeldIsOnRecord, Recorded, CompletedWasDelivered,
              NoPhantomRetries, RequestsRestOnRecord, RestsOnRecord
<1>3. ASSUME NEW r \in Requests, Load(r)
      PROVE  OrderInv'
  <2>1. order.status # Gone /\ UNCHANGED <<order, comms, mails>> /\ Goto(r, "loaded", order)
    BY <1>3 DEF Load
  <2>2. mails' >= mails
    BY <1>1, <2>1 DEF TypeOK
  <2>3. Sound
    BY <1>1, <2>1, <2>2, QuietSound
  <2>4. req'[r].snap = order /\ req'[r].pc = "loaded"
    BY <1>1, <2>1, GotoEffect
  <2>5. RestsOnRecord(r)'
    BY <2>1, <2>4 DEF RestsOnRecord, OrderInv, HeldIsOnRecord, Recorded, NoPhantomRetries
  <2> QED
    BY <1>1, <2>1, <2>3, <2>5, GotoEffect, OthersRest
<1>4. ASSUME NEW r \in Requests, SetAutoRelease(r)
      PROVE  OrderInv'
  BY <1>1, <1>4 DEF SetAutoRelease, OrderInv, HeldIsOnRecord, Recorded, CompletedWasDelivered,
                    NoPhantomRetries, RequestsRestOnRecord, RestsOnRecord
<1>5. ASSUME NEW r \in Requests, Abort(r)
      PROVE  OrderInv'
  <2>1. UNCHANGED <<order, comms, mails>> /\ Finish(r)
    BY <1>5 DEF Abort
  <2>2. CASE order.status = Gone
    BY <1>1, <2>1, <2>2, GoneIsSafe
  <2>3. CASE order.status # Gone
    <3>1. mails' >= mails
      BY <1>1, <2>1 DEF TypeOK
    <3>2. Sound
      BY <1>1, <2>1, <2>3, <3>1, QuietSound
    <3> QED
      BY <1>1, <2>1, <3>2, FinishRests, OthersRest
  <2> QED
    BY <2>2, <2>3
<1> QED
  BY <1>2, <1>3, <1>4, <1>5, RequestStep DEF Next, Steady

\* New orders are in a status no supplier sees, with nothing on record.
LEMMA OrderInit ==
  ASSUME Init
  PROVE  OrderInv
<1>1. TypeOK
  BY TypeInit
<1>2. order.status \in Internal /\ order.retries = 0
  BY DEF Init, NoRow, Internal
<1>3. \A r \in Requests : req[r] = IdleRequest
  BY DEF Init
<1>4. HeldIsOnRecord /\ CompletedWasDelivered
  BY <1>2 DEF HeldIsOnRecord, CompletedWasDelivered, Internal, SupplierHeld
<1>5. NoPhantomRetries
  BY <1>2 DEF NoPhantomRetries, Init
<1>6. RequestsRestOnRecord
  BY <1>3 DEF RequestsRestOnRecord, RestsOnRecord, IdleRequest, NoRow, Gone, SupplierHeld
<1> QED
  BY <1>1, <1>4, <1>5, <1>6 DEF OrderInv

\* The inductive invariant holds in every state of the system.
THEOREM OrderInvariant == Spec => []OrderInv
<1>1. Init => OrderInv
  BY OrderInit
<1>2. OrderInv /\ [Next]_vars => OrderInv'
  BY OrderStep
<1> QED
  BY <1>1, <1>2, PTL DEF Spec

\* However requests interleave and wherever they die, an order the supplier
\* holds was mailed, and the mail and the release are on record.
THEOREM HeldOrdersAreOnRecord == Spec => []HeldIsOnRecord
<1>1. OrderInv => HeldIsOnRecord
  BY DEF OrderInv
<1> QED
  BY <1>1, OrderInvariant, PTL

\* No interleaving of requests completes an order that was not delivered.
THEOREM CompletionNeedsDelivery == Spec => []CompletedWasDelivered
<1>1. OrderInv => CompletedWasDelivered
  BY DEF OrderInv
<1> QED
  BY <1>1, OrderInvariant, PTL

\* Concurrent failures never count a retry that is not on record.
THEOREM RetriesAreRecorded == Spec => []NoPhantomRetries
<1>1. OrderInv => NoPhantomRetries
  BY DEF OrderInv
<1> QED
  BY <1>1, OrderInvariant, PTL

-----------------------------------------------------------------------------
(* Mails.                                                                  *)

\* The requests whose mail went out and is not yet on record.
Mailed == {r \in Requests : req[r].pc = "mailed"}

\* Only finitely many requests are under way, and each has a mail of its own.
MailInv ==
  /\ TypeOK
  /\ IsFiniteSet(Mailed)
  /\ SentIsMailed

\* A step of a request but those that send and record a mail adds none to record.
LEMMA OtherMailStep ==
  ASSUME TypeOK, NEW r \in Requests,
         Load(r) \/ SetAutoRelease(r) \/ Serve(r) \/ Abort(r),
         ~MailAccepted(r), ~RecordSent(r)
  PROVE  /\ \A q \in Requests : req'[q].pc = "mailed" => req[q].pc = "mailed"
         /\ comms'.sent <= comms.sent /\ mails' >= mails
<1>1. /\ req \in [Requests -> Request] /\ mails \in Nat /\ comms \in [sent : Nat, failed : Nat]
      /\ comms.sent \in Nat
  BY DEF TypeOK
<1>2. \/ UNCHANGED req
      \/ Finish(r)
      \/ \E pc \in Progress \ {"mailed"} : \E snap : Goto(r, pc, snap)
      \/ \E human, snap : req' = [req EXCEPT ![r] = [pc |-> "mailing", human |-> human, snap |-> snap]]
  <2>1. CASE Load(r) \/ SetAutoRelease(r) \/ Abort(r) \/ Answer(r) \/ RowVanished(r) \/ Hold(r)
             \/ Release(r) \/ Cancel(r) \/ DeleteOrder(r) \/ Park(r) \/ CannotFulfil(r) \/ Edit(r)
             \/ VerdictRefused(r) \/ RecordFailed(r) \/ AutoComplete(r)
    BY <2>1 DEF Load, SetAutoRelease, Abort, Answer, RowVanished, Hold, Release, Cancel, DeleteOrder,
      Park, CannotFulfil, Edit, SetAddressStatus, CorrectAddress, UpdateOrder, VerdictRefused,
      RecordFailed, AutoComplete, Progress
  <2>2. CASE CheckDeletable(r) \/ MailFailed(r) \/ MarkVerified(r) \/ Refresh(r, "verified", "judging")
             \/ Refresh(r, "stamped", "closing")
    BY <2>2 DEF CheckDeletable, MailFailed, MarkVerified, Refresh, Progress
  <2>3. CASE SupplierUpdate(r) \/ StampStage(r)
    BY <2>3 DEF SupplierUpdate, StampStage, Progress
  <2>4. CASE SendToSupplier(r) \/ ConfirmRelease(r) \/ AutoRelease(r)
    BY <2>4 DEF SendToSupplier, ConfirmRelease, AutoRelease, CallMail
  <2> QED  BY <2>1, <2>2, <2>3, <2>4 DEF Serve, Move
<1>3. \A q \in Requests : req'[q].pc = "mailed" => req[q].pc = "mailed"
  <2>1. CASE Finish(r)
    BY <1>1, <2>1 DEF Finish, IdleRequest
  <2>2. ASSUME NEW pc \in Progress \ {"mailed"}, NEW snap, Goto(r, pc, snap)
        PROVE  \A q \in Requests : req'[q].pc = "mailed" => req[q].pc = "mailed"
    <3>1. /\ req'[r].pc = pc
          /\ \A q \in Requests : q # r => req'[q] = req[q]
      BY <2>2, GotoEffect
    <3> QED  BY <3>1
  <2>3. ASSUME NEW human, NEW snap,
               req' = [req EXCEPT ![r] = [pc |-> "mailing", human |-> human, snap |-> snap]]
        PROVE  \A q \in Requests : req'[q].pc = "mailed" => req[q].pc = "mailed"
    BY <1>1, <2>3
  <2> QED  BY <1>2, <2>1, <2>2, <2>3
<1>4. comms'.sent \in {0, comms.sent} /\ mails' >= mails
  <2>1. CASE UNCHANGED <<comms, mails>>
    BY <1>1, <2>1
  <2>2. CASE MailFailed(r)
    BY <1>1, <2>2 DEF MailFailed
  <2>3. CASE RecordFailed(r)
    BY <1>1, <2>3 DEF RecordFailed
  <2>4. CASE DeleteOrder(r)
    BY <1>1, <2>4 DEF DeleteOrder
  <2>5. CASE Edit(r)
    BY <2>1, <2>5 DEF Edit, SetAddressStatus, CorrectAddress, UpdateOrder
  <2>6. CASE Load(r) \/ SetAutoRelease(r) \/ Abort(r) \/ Answer(r) \/ RowVanished(r) \/ Hold(r)
             \/ Release(r) \/ Cancel(r) \/ Park(r) \/ CannotFulfil(r) \/ VerdictRefused(r)
             \/ AutoComplete(r) \/ CheckDeletable(r) \/ MarkVerified(r)
             \/ Refresh(r, "verified", "judging") \/ Refresh(r, "stamped", "closing")
    BY <2>1, <2>6 DEF Load, SetAutoRelease, Abort, Answer, RowVanished, Hold, Release, Cancel, Park,
      CannotFulfil, VerdictRefused, AutoComplete, CheckDeletable, MarkVerified, Refresh, Transition
  <2>7. CASE SupplierUpdate(r) \/ StampStage(r)
    BY <2>1, <2>7 DEF SupplierUpdate, StampStage, Transition
  <2>8. CASE SendToSupplier(r) \/ ConfirmRelease(r) \/ AutoRelease(r)
    BY <2>1, <2>8 DEF SendToSupplier, ConfirmRelease, AutoRelease, CallMail
  <2> QED  BY <2>2, <2>3, <2>4, <2>5, <2>6, <2>7, <2>8 DEF Serve, Move
<1> QED  BY <1>1, <1>3, <1>4

\* Every step keeps to one mail a record.
LEMMA MailStep ==
  ASSUME MailInv, [Next]_vars
  PROVE  MailInv'
<1>1. /\ TypeOK /\ TypeOK' /\ IsFiniteSet(Mailed) /\ Cardinality(Mailed) \in Nat
      /\ comms.sent + Cardinality(Mailed) <= mails
  BY TypeStep, FS_CardinalityType DEF MailInv, SentIsMailed, Mailed
<1>2. /\ req \in [Requests -> Request] /\ mails \in Nat /\ comms \in [sent : Nat, failed : Nat]
      /\ comms.sent \in Nat /\ mails' \in Nat /\ comms'.sent \in Nat
  BY <1>1 DEF TypeOK
<1>3. SUFFICES IsFiniteSet(Mailed') /\ comms'.sent + Cardinality(Mailed') <= mails'
  BY <1>1 DEF MailInv, SentIsMailed, Mailed
<1>4. ASSUME Mailed' \subseteq Mailed, comms'.sent <= comms.sent, mails' >= mails
      PROVE  IsFiniteSet(Mailed') /\ comms'.sent + Cardinality(Mailed') <= mails'
  <2>1. /\ IsFiniteSet(Mailed') /\ Cardinality(Mailed') \in Nat
        /\ Cardinality(Mailed') <= Cardinality(Mailed)
    BY <1>1, <1>4, FS_Subset, FS_CardinalityType
  <2> QED  BY <1>1, <1>2, <1>4, <2>1
<1>5. ASSUME NEW r \in Requests, MailAccepted(r)
      PROVE  IsFiniteSet(Mailed') /\ comms'.sent + Cardinality(Mailed') <= mails'
  <2>1. /\ mails' = mails + 1 /\ comms' = comms /\ req[r].pc = "mailing"
        /\ Goto(r, "mailed", req[r].snap)
    BY <1>5 DEF MailAccepted
  <2>2. req'[r].pc = "mailed" /\ \A q \in Requests : q # r => req'[q] = req[q]
    BY <1>1, <2>1, GotoEffect
  <2>3. r \notin Mailed /\ Mailed' = Mailed \cup {r}
    BY <2>1, <2>2 DEF Mailed
  <2>4. IsFiniteSet(Mailed') /\ Cardinality(Mailed') = Cardinality(Mailed) + 1
    BY <1>1, <2>3, FS_AddElement
  <2> QED  BY <1>1, <1>2, <2>1, <2>4
<1>6. ASSUME NEW r \in Requests, RecordSent(r)
      PROVE  IsFiniteSet(Mailed') /\ comms'.sent + Cardinality(Mailed') <= mails'
  <2>1. /\ mails' = mails /\ comms' = [comms EXCEPT !.sent = @ + 1] /\ req[r].pc = "mailed"
        /\ req' = [req EXCEPT ![r] = IdleRequest]
    BY <1>6 DEF RecordSent, Finish
  <2>2. r \in Mailed /\ Mailed' = Mailed \ {r}
    BY <1>2, <2>1 DEF Mailed, IdleRequest
  <2>3. IsFiniteSet(Mailed') /\ Cardinality(Mailed') = Cardinality(Mailed) - 1
    BY <1>1, <2>2, FS_RemoveElement
  <2>4. comms'.sent = comms.sent + 1
    BY <1>2, <2>1
  <2> QED  BY <1>1, <1>2, <2>1, <2>3, <2>4
<1>7. CASE UNCHANGED vars
  <2>1. Mailed' = Mailed /\ comms' = comms /\ mails' = mails
    BY <1>7 DEF vars, Mailed
  <2> QED  BY <1>2, <1>4, <2>1
<1>8. ASSUME NEW r \in Requests, Load(r) \/ SetAutoRelease(r) \/ Serve(r) \/ Abort(r),
             ~MailAccepted(r), ~RecordSent(r)
      PROVE  IsFiniteSet(Mailed') /\ comms'.sent + Cardinality(Mailed') <= mails'
  <2>1. /\ \A q \in Requests : req'[q].pc = "mailed" => req[q].pc = "mailed"
        /\ comms'.sent <= comms.sent /\ mails' >= mails
    BY <1>1, <1>8, OtherMailStep
  <2>2. Mailed' \subseteq Mailed
    BY <2>1 DEF Mailed
  <2> QED  BY <1>4, <2>1, <2>2
<1> QED  BY <1>5, <1>6, <1>7, <1>8 DEF Next, Steady

\* No communication is recorded as sent, or about to be, without a mail of its
\* own, however many requests send the same order.
THEOREM EveryRecordIsAMail == Spec => []SentIsMailed
<1>1. Init => MailInv
  <2> SUFFICES ASSUME Init PROVE MailInv
    OBVIOUS
  <2>1. Mailed = {}
    BY DEF Mailed, Init, IdleRequest
  <2>2. IsFiniteSet({}) /\ Cardinality({}) = 0
    BY FS_EmptySet
  <2>3. SentIsMailed
    BY <2>1, <2>2 DEF SentIsMailed, Mailed, Init
  <2> QED  BY <2>1, <2>2, <2>3, TypeInit DEF MailInv
<1>2. MailInv /\ [Next]_vars => MailInv'
  BY MailStep
<1>3. MailInv => SentIsMailed
  BY DEF MailInv
<1> QED  BY <1>1, <1>2, <1>3, PTL DEF Spec

-----------------------------------------------------------------------------
(* Timestamps of the fulfilment stages.                                    *)

\* Each stage of that status has its timestamp, or a request about to write it.
Stamped(status) ==
  \A st \in StagesUpTo(status) :
    \/ StageStamp[st] \in order.stamps
    \/ \E r \in Requests : req[r].pc = "stamping" /\ req[r].snap.status = st

\* That holds of the row, and of every copy of it: a stale copy puts the order
\* back only to stages it had passed.
StampInv ==
  /\ TypeOK
  /\ order.status # Gone =>
       /\ Stamped(order.status)
       /\ \A r \in Requests : Stamped(req[r].snap.status)

\* Requests may die, but not between the commits of a portal update.
UpdatesSurvive == Steady \/ \E r \in Requests : Abort(r) /\ req[r].pc # "stamping"

\* The stages by status.
LEMMA Stages ==
  /\ StagesUpTo("CONFIRMED") = {"CONFIRMED"}
  /\ StagesUpTo("PREPARING") = {"CONFIRMED", "PREPARING"}
  /\ StagesUpTo("OUT_FOR_DELIVERY") = {"CONFIRMED", "PREPARING", "OUT_FOR_DELIVERY"}
  /\ StagesUpTo("DELIVERED") = DOMAIN StageStamp
  /\ StagesUpTo("COMPLETED") = DOMAIN StageStamp
  /\ \A st : st \notin DOMAIN StageStamp \cup {"COMPLETED"} => StagesUpTo(st) = {}
  /\ DOMAIN StageStamp = {"CONFIRMED", "PREPARING", "OUT_FOR_DELIVERY", "DELIVERED"}
<1>1. DOMAIN StageStamp = {"CONFIRMED", "PREPARING", "OUT_FOR_DELIVERY", "DELIVERED"}
  BY DEF StageStamp
<1>2. ASSUME NEW st
      PROVE  /\ st = "CONFIRMED" => StagesUpTo(st) = {"CONFIRMED"}
             /\ st = "PREPARING" => StagesUpTo(st) = {"CONFIRMED", "PREPARING"}
             /\ st = "OUT_FOR_DELIVERY" => StagesUpTo(st) = {"CONFIRMED", "PREPARING", "OUT_FOR_DELIVERY"}
             /\ st \in {"DELIVERED", "COMPLETED"} => StagesUpTo(st) = DOMAIN StageStamp
             /\ st \notin DOMAIN StageStamp \cup {"COMPLETED"} => StagesUpTo(st) = {}
  <2> DEFINE a == st = "CONFIRMED"
             b == st = "PREPARING"
             c == st = "OUT_FOR_DELIVERY"
             d == st \in {"DELIVERED", "COMPLETED"}
             A == {"CONFIRMED"}
             B == {"CONFIRMED", "PREPARING"}
             C == {"CONFIRMED", "PREPARING", "OUT_FOR_DELIVERY"}
  <2>1. StagesUpTo(st) = CASE a -> A [] b -> B [] c -> C [] d -> DOMAIN StageStamp [] OTHER -> {}
    BY DEF StagesUpTo
  <2>2. /\ a => ~b /\ ~c /\ ~d
        /\ b => ~a /\ ~c /\ ~d
        /\ c => ~a /\ ~b /\ ~d
        /\ d => ~a /\ ~b /\ ~c
        /\ st \notin DOMAIN StageStamp \cup {"COMPLETED"} => ~a /\ ~b /\ ~c /\ ~d
    BY <1>1
  <2> HIDE DEF a, b, c, d, A, B, C
  <2>3. a => StagesUpTo(st) = A
    BY <2>1, <2>2, Zenon
  <2>4. b => StagesUpTo(st) = B
    BY <2>1, <2>2, Zenon
  <2>5. c => StagesUpTo(st) = C
    BY <2>1, <2>2, Zenon
  <2>6. d => StagesUpTo(st) = DOMAIN StageStamp
    BY <2>1, <2>2, Zenon
  <2>7. ~a /\ ~b /\ ~c /\ ~d => StagesUpTo(st) = {}
    BY <2>1, Zenon
  <2> QED  BY <2>2, <2>3, <2>4, <2>5, <2>6, <2>7 DEF a, b, c, d, A, B, C
<1> QED  BY <1>1, <1>2

\* A step of one request keeps the stages stamped if it takes no timestamp back,
\* stamps before it stops stamping, and puts row and copy only into stages that
\* the row or the copy had passed, or that it is about to stamp.
LEMMA StampKept ==
  ASSUME StampInv, TypeOK', NEW r \in Requests, order.status # Gone,
         order.stamps \subseteq order'.stamps,
         \A q \in Requests : q # r => req'[q] = req[q],
         req[r].pc = "stamping" => StageStamp[req[r].snap.status] \in order'.stamps,
         \A to \in {order'.status, req'[r].snap.status} : \A st \in StagesUpTo(to) :
           \/ st \in StagesUpTo(order.status)
           \/ st \in StagesUpTo(req[r].snap.status)
           \/ StageStamp[st] \in order'.stamps
           \/ req'[r].pc = "stamping" /\ req'[r].snap.status = st
  PROVE  StampInv'
<1> DEFINE Now(st) ==
      \/ StageStamp[st] \in order'.stamps
      \/ \E q \in Requests : req'[q].pc = "stamping" /\ req'[q].snap.status = st
<1>1. ASSUME NEW status, Stamped(status), NEW st \in StagesUpTo(status)
      PROVE  Now(st)
  <2>1. CASE StageStamp[st] \in order.stamps
    BY <2>1
  <2>2. ASSUME NEW q \in Requests, req[q].pc = "stamping", req[q].snap.status = st
        PROVE  Now(st)
    <3>1. CASE q = r
      BY <2>2, <3>1
    <3>2. CASE q # r
      BY <2>2, <3>2
    <3> QED  BY <3>1, <3>2
  <2> QED  BY <1>1, <2>1, <2>2 DEF Stamped
<1>2. ASSUME NEW to \in {order'.status, req'[r].snap.status}, NEW st \in StagesUpTo(to)
      PROVE  Now(st)
  BY <1>1, <1>2 DEF StampInv
<1>3. ASSUME NEW q \in Requests, NEW st \in StagesUpTo(req'[q].snap.status)
      PROVE  Now(st)
  <2>1. CASE q = r
    BY <1>2, <1>3, <2>1
  <2>2. CASE q # r
    BY <1>1, <1>3, <2>2 DEF StampInv
  <2> QED  BY <2>1, <2>2
<1>4. Stamped(order.status)'
  BY <1>2 DEF Stamped
<1>5. \A q \in Requests : Stamped(req[q].snap.status)'
  BY <1>3 DEF Stamped
<1> QED  BY <1>4, <1>5 DEF StampInv

\* The steps that leave the row as it is.
LEMMA QuietStamps ==
  ASSUME StampInv, TypeOK', NEW r \in Requests, order.status # Gone, order' = order,
         req[r].pc # "stamping",
         \A q \in Requests : q # r => req'[q] = req[q],
         req'[r].snap.status \in {Gone, order.status, req[r].snap.status}
  PROVE  StampInv'
<1>1. StagesUpTo(Gone) = {}
  BY Stages DEF Gone
<1> QED  BY <1>1, StampKept

\* A commit that leads to no later stage than its copy's.
LEMMA CommitStamps ==
  ASSUME StampInv, TypeOK', NEW r \in Requests, NEW new, Commit(r, new),
         req[r].pc # "stamping",
         \A q \in Requests : q # r => req'[q] = req[q],
         StagesUpTo(new.status) \subseteq StagesUpTo(req[r].snap.status),
         req'[r].snap.status \in {Gone, req[r].snap.status}
  PROVE  StampInv'
<1>1. /\ order.status # Gone /\ order.stamps \subseteq order'.stamps
      /\ order'.status \in {order.status, new.status}
  BY MergeEffect DEF Commit
<1>2. StagesUpTo(Gone) = {}
  BY Stages DEF Gone
<1> QED  BY <1>1, <1>2, StampKept

\* Every step but a death while stamping keeps the stages stamped.
LEMMA StampStep ==
  ASSUME StampInv, [UpdatesSurvive]_vars
  PROVE  StampInv'
<1>1. TypeOK /\ TypeOK'
  BY TypeStep DEF StampInv, UpdatesSurvive, Next
<1>2. CASE UNCHANGED vars
  BY <1>2 DEF vars, StampInv, Stamped, TypeOK
<1>3. ASSUME NEW r \in Requests, SetAutoRelease(r)
      PROVE  StampInv'
  BY <1>1, <1>3 DEF SetAutoRelease, StampInv, Stamped
<1>4. CASE order.status = Gone /\ order'.status = Gone
  BY <1>1, <1>4 DEF StampInv
<1>5. CASE order'.status = Gone
  BY <1>1, <1>5 DEF StampInv
<1>6. ASSUME NEW r \in Requests, Load(r) \/ Serve(r) \/ (Abort(r) /\ req[r].pc # "stamping"),
             order'.status # Gone
      PROVE  StampInv'
  <2>1. /\ req[r].snap \in Row /\ req \in [Requests -> Request] /\ order \in Row
    BY <1>1 DEF TypeOK, Request
  <2>2. ASSUME Finish(r)
        PROVE  /\ req'[r].pc = "idle" /\ req'[r].snap.status = Gone
               /\ \A q \in Requests : q # r => req'[q] = req[q]
    BY <2>1, <2>2 DEF Finish, IdleRequest, NoRow
  <2>3. CASE Load(r) \/ Refresh(r, "verified", "judging") \/ Refresh(r, "stamped", "closing")
    <3>1. PICK pc : Goto(r, pc, order)
      BY <2>3 DEF Load, Refresh
    <3>2. order' = order /\ order.status # Gone /\ req[r].pc # "stamping"
      BY <2>3 DEF Load, Refresh
    <3>3. req'[r].snap = order /\ \A q \in Requests : q # r => req'[q] = req[q]
      BY <1>1, <3>1, GotoEffect
    <3> QED  BY <1>1, <3>2, <3>3, QuietStamps
  <2>4. CASE Answer(r) \/ RowVanished(r) \/ (Abort(r) /\ req[r].pc # "stamping") \/ VerdictRefused(r)
    <3>1. Finish(r) /\ order' = order /\ order.status # Gone /\ req[r].pc # "stamping"
      BY <1>6, <2>4 DEF Answer, RowVanished, Abort, VerdictRefused
    <3> QED  BY <1>1, <2>2, <3>1, QuietStamps
  <2>5. CASE CheckDeletable(r) \/ MailAccepted(r) \/ MailFailed(r)
    <3>1. PICK pc : Goto(r, pc, req[r].snap)
      BY <2>5 DEF CheckDeletable, MailAccepted, MailFailed
    <3>2. order' = order /\ order.status # Gone /\ req[r].pc # "stamping"
      BY <1>6, <2>5 DEF CheckDeletable, MailAccepted, MailFailed
    <3>3. req'[r].snap = req[r].snap /\ \A q \in Requests : q # r => req'[q] = req[q]
      BY <1>1, <3>1, GotoEffect
    <3> QED  BY <1>1, <3>2, <3>3, QuietStamps
  <2>6. ASSUME NEW byHuman, NEW copy, CallMail(r, byHuman, copy), req[r].pc # "stamping",
               copy.status = req[r].snap.status
        PROVE  StampInv'
    <3>1. /\ req' = [req EXCEPT ![r] = [pc |-> "mailing", human |-> byHuman, snap |-> copy]]
          /\ order' = order
      BY <2>6 DEF CallMail
    <3>2. req'[r].snap = copy /\ \A q \in Requests : q # r => req'[q] = req[q]
      BY <2>1, <3>1
    <3>3. order.status # Gone
      BY <1>6, <3>1
    <3> QED  BY <1>1, <2>6, <3>1, <3>2, <3>3, QuietStamps
  <2>7. CASE SendToSupplier(r) \/ AutoRelease(r)
    BY <2>6, <2>7 DEF SendToSupplier, AutoRelease
  <2>8. CASE ConfirmRelease(r)
    <3> DEFINE copy == [req[r].snap EXCEPT !.stamps = @ \cup {"review_confirmed_at"}]
    <3>1. copy.status = req[r].snap.status
      BY <2>1 DEF Row
    <3>2. CallMail(r, TRUE, copy) /\ req[r].pc # "stamping"
      BY <2>8 DEF ConfirmRelease
    <3> HIDE DEF copy
    <3> QED  BY <2>6, <3>1, <3>2
  <2>9. ASSUME NEW new, Commit(r, new), Finish(r), req[r].pc # "stamping",
               StagesUpTo(new.status) \subseteq StagesUpTo(req[r].snap.status)
        PROVE  StampInv'
    BY <1>1, <2>2, <2>9, CommitStamps
  <2>10. CASE Hold(r) \/ Release(r) \/ Cancel(r) \/ Park(r) \/ CannotFulfil(r)
    <3>1. PICK to : /\ Transition(r, to) /\ Finish(r) /\ req[r].pc # "stamping"
                    /\ to \in Internal \cup {"CANCELLED", "UNABLE_TO_FULFIL"}
      BY <2>10 DEF Hold, Release, Cancel, Park, CannotFulfil, Verdict, Internal
    <3>2. StagesUpTo(to) = {}
      BY <3>1, Stages DEF Internal
    <3> DEFINE new == [req[r].snap EXCEPT !.status = to]
    <3>3. new.status = to /\ Commit(r, new)
      BY <2>1, <3>1 DEF Transition, Row
    <3> HIDE DEF new
    <3> QED  BY <2>9, <3>1, <3>2, <3>3
  <2>11. CASE RecordSent(r)
    <3> DEFINE new == [req[r].snap EXCEPT !.status = "SENT_TO_SUPPLIER",
                                          !.releasedBy = IF req[r].human THEN "user" ELSE "nobody",
                                          !.stamps = @ \cup {"released_at"}]
    <3>1. new.status = "SENT_TO_SUPPLIER" /\ Commit(r, new) /\ Finish(r) /\ req[r].pc # "stamping"
      BY <2>1, <2>11 DEF RecordSent, Row
    <3>2. StagesUpTo("SENT_TO_SUPPLIER") = {}
      BY Stages
    <3> HIDE DEF new
    <3> QED  BY <2>9, <3>1, <3>2
  <2>12. CASE RecordFailed(r)
    <3> DEFINE new == [req[r].snap EXCEPT !.status = "REQUIRES_ATTENTION", !.retries = @ + 1]
    <3>1. new.status = "REQUIRES_ATTENTION" /\ Commit(r, new) /\ Finish(r) /\ req[r].pc # "stamping"
      BY <2>1, <2>12 DEF RecordFailed, Row
    <3>2. StagesUpTo("REQUIRES_ATTENTION") = {}
      BY Stages
    <3> HIDE DEF new
    <3> QED  BY <2>9, <3>1, <3>2
  <2>13. CASE Edit(r)
    <3>1. PICK new : /\ Commit(r, new) /\ Finish(r) /\ req[r].pc # "stamping"
                     /\ new.status = req[r].snap.status
      <4>1. CASE SetAddressStatus(r)
        <5>1. PICK a : Commit(r, [req[r].snap EXCEPT !.address = a])
          BY <4>1 DEF SetAddressStatus
        <5>2. [req[r].snap EXCEPT !.address = a].status = req[r].snap.status
          BY <2>1 DEF Row
        <5> QED  BY <4>1, <5>1, <5>2 DEF SetAddressStatus
      <4>2. CASE CorrectAddress(r)
        <5>1. [req[r].snap EXCEPT !.corrected = TRUE].status = req[r].snap.status
          BY <2>1 DEF Row
        <5> QED  BY <4>2, <5>1 DEF CorrectAddress
      <4>3. CASE UpdateOrder(r)
        <5>1. PICK su, q, d :
                Commit(r, [req[r].snap EXCEPT !.supplier = su, !.quantity = q, !.details = d])
          BY <4>3 DEF UpdateOrder
        <5>2. [req[r].snap EXCEPT !.supplier = su, !.quantity = q, !.details = d].status
                = req[r].snap.status
          BY <2>1 DEF Row
        <5> QED  BY <4>3, <5>1, <5>2 DEF UpdateOrder
      <4> QED  BY <2>13, <4>1, <4>2, <4>3 DEF Edit
    <3> QED  BY <2>9, <3>1
  <2>14. CASE MarkVerified(r)
    <3> DEFINE new == [req[r].snap EXCEPT !.address = "VERIFIED"]
    <3>1. /\ Commit(r, new) /\ Goto(r, "verified", req[r].snap) /\ req[r].pc # "stamping"
          /\ new.status = req[r].snap.status
      BY <2>1, <2>14 DEF MarkVerified, Row
    <3>2. req'[r].snap = req[r].snap /\ \A q \in Requests : q # r => req'[q] = req[q]
      BY <1>1, <3>1, GotoEffect
    <3> HIDE DEF new
    <3> QED  BY <1>1, <3>1, <3>2, CommitStamps
  <2>15. CASE AutoComplete(r)
    <3>1. Finish(r) /\ req[r].pc = "closing"
      BY <2>15 DEF AutoComplete
    <3>2. CASE order' = order
      <4>1. order.status # Gone
        BY <1>6, <3>2
      <4> QED  BY <1>1, <2>2, <3>1, <3>2, <4>1, QuietStamps
    <3>3. CASE order' # order
      <4> DEFINE new == [req[r].snap EXCEPT !.status = "COMPLETED", !.stamps = @ \cup {"completed_at"}]
      <4>1. /\ new.status = "COMPLETED" /\ Commit(r, new) /\ req[r].snap.status = "DELIVERED"
        BY <2>1, <2>15, <3>3 DEF AutoComplete, Row
      <4> HIDE DEF new
      <4> QED  BY <2>9, <3>1, <4>1, Stages
    <3> QED  BY <3>2, <3>3
  <2>16. CASE StampStage(r)
    <3> DEFINE stamp == StageStamp[req[r].snap.status]
    <3>1. /\ order.status # Gone /\ order' = [order EXCEPT !.stamps = @ \cup {stamp}]
          /\ Finish(r) \/ Goto(r, "stamped", req[r].snap)
      BY <2>16 DEF StampStage
    <3>2. order'.status = order.status /\ order'.stamps = order.stamps \cup {stamp}
      BY <2>1, <3>1 DEF Row
    <3>3. /\ \A q \in Requests : q # r => req'[q] = req[q]
          /\ req'[r].snap.status \in {Gone, req[r].snap.status}
      <4>1. CASE Finish(r)
        BY <2>2, <4>1
      <4>2. CASE Goto(r, "stamped", req[r].snap)
        BY <1>1, <4>2, GotoEffect
      <4> QED  BY <3>1, <4>1, <4>2
    <3>4. StagesUpTo(Gone) = {}
      BY Stages DEF Gone
    <3> QED  BY <1>1, <3>1, <3>2, <3>3, <3>4, StampKept
  <2>17. CASE SupplierUpdate(r)
    <3>1. PICK to \in Statuses :
            /\ <<req[r].snap.status, to>> \in SupplierDrivable
            /\ Transition(r, to)
            /\ IF to \in DOMAIN StageStamp
               THEN Goto(r, "stamping", [req[r].snap EXCEPT !.status = to])
               ELSE Finish(r)
      BY <2>17 DEF SupplierUpdate
    <3> DEFINE new == [req[r].snap EXCEPT !.status = to]
    <3>2. new.status = to /\ Commit(r, new) /\ req[r].pc # "stamping"
      BY <2>1, <2>17, <3>1 DEF Transition, Row, SupplierUpdate
    <3>3. CASE to \notin DOMAIN StageStamp
      <4>1. StagesUpTo(to) = {}
        BY <3>1, <3>3, Stages DEF SupplierDrivable
      <4> HIDE DEF new
      <4> QED  BY <2>9, <3>1, <3>2, <3>3, <4>1
    <3>4. CASE to \in DOMAIN StageStamp
      <4>1. Goto(r, "stamping", new)
        BY <3>1, <3>4
      <4>2. StagesUpTo(to) \subseteq StagesUpTo(req[r].snap.status) \cup {to}
        BY <3>1, <3>4, Stages DEF SupplierDrivable
      <4> HIDE DEF new
      <4>3. /\ req'[r].pc = "stamping" /\ req'[r].snap.status = to
            /\ \A q \in Requests : q # r => req'[q] = req[q]
        BY <1>1, <3>2, <4>1, GotoEffect
      <4>4. /\ order.status # Gone /\ order.stamps \subseteq order'.stamps
            /\ order'.status \in {order.status, to}
        BY <3>2, MergeEffect DEF Commit
      <4> QED  BY <1>1, <3>2, <4>2, <4>3, <4>4, StampKept
    <3> QED  BY <3>3, <3>4
  <2>18. CASE DeleteOrder(r)
    BY <1>6, <2>18 DEF DeleteOrder, NoRow
  <2> QED
    BY <1>6, <2>3, <2>4, <2>5, <2>7, <2>8, <2>10, <2>11, <2>12, <2>13, <2>14, <2>15, <2>16, <2>17,
       <2>18 DEF Serve, Move
<1> QED
  BY <1>2, <1>3, <1>5, <1>6 DEF UpdatesSurvive, Steady

\* Unless a portal update dies between its commits, every stage an order has
\* passed has its timestamp or is about to get it, whatever stale copies write.
THEOREM StagesLeaveTimestamps == Init /\ [][UpdatesSurvive]_vars => []FulfilmentIsStamped
<1>1. Init => StampInv
  <2> SUFFICES ASSUME Init PROVE StampInv
    OBVIOUS
  <2>1. order.status \in Internal /\ \A r \in Requests : req[r].snap.status = Gone
    BY DEF Init, NoRow, Internal, IdleRequest
  <2>2. StagesUpTo(Gone) = {} /\ \A st \in Internal : StagesUpTo(st) = {}
    BY Stages DEF Gone, Internal
  <2> QED  BY <2>1, <2>2, TypeInit DEF StampInv, Stamped
<1>2. StampInv /\ [UpdatesSurvive]_vars => StampInv'
  BY StampStep
<1>3. StampInv => FulfilmentIsStamped
  <2>1. StagesUpTo(Gone) = {}
    BY Stages DEF Gone
  <2> QED  BY <2>1 DEF StampInv, Stamped, FulfilmentIsStamped
<1> QED  BY <1>1, <1>2, <1>3, PTL

-----------------------------------------------------------------------------
(* Nobody closes a delivered order by hand: the portal's update has to.    *)

\* The request is on its way to auto_complete for a delivery it reported.
Attends(r) ==
  req[r].pc \in {"stamping", "stamped", "closing"} /\ req[r].snap.status = "DELIVERED"

\* An order that is DELIVERED has a request that will close it.
DeliveryIsAttended ==
  order.status = "DELIVERED" => \E r \in Requests : Attends(r)

\* Requests may die, but not once they have moved the order for the supplier.
PortalUpdatesEnd ==
  Steady \/ \E r \in Requests : Abort(r) /\ req[r].pc \notin {"stamping", "stamped", "closing"}

\* A step of r that leaves a delivered order delivered, or delivers it, leaves
\* it attended if r still attends it where it did or begins to.
LEMMA StillAttended ==
  ASSUME DeliveryIsAttended, NEW r \in Requests,
         \A q \in Requests : q # r => req'[q] = req[q],
         order'.status = "DELIVERED" =>
           \/ Attends(r)'
           \/ order.status = "DELIVERED" /\ ~Attends(r)
  PROVE  DeliveryIsAttended'
BY DEF DeliveryIsAttended, Attends

\* Only the supplier's own update commits DELIVERED; any other commit leaves
\* the status as it finds it or sets another.
LEMMA CommitDelivers ==
  ASSUME NEW r \in Requests, NEW new, Commit(r, new),
         new.status = req[r].snap.status \/ new.status # "DELIVERED"
  PROVE  order'.status = "DELIVERED" => order.status = "DELIVERED"
BY MergeEffect DEF Commit

\* Every step of a request keeps a delivered order attended.
LEMMA AttendStep ==
  ASSUME TypeOK, DeliveryIsAttended, NEW r \in Requests, Serve(r)
  PROVE  DeliveryIsAttended'
<1>1. /\ req \in [Requests -> Request] /\ req[r] \in Request /\ req[r].snap \in Row
      /\ order \in Row
  BY DEF TypeOK, Request
<1>2. \A pc, snap : Goto(r, pc, snap) =>
        /\ \A q \in Requests : q # r => req'[q] = req[q]
        /\ req'[r].pc = pc /\ req'[r].snap = snap
  BY <1>1, GotoEffect DEF TypeOK
<1>3. Finish(r) => \A q \in Requests : q # r => req'[q] = req[q]
  BY <1>1 DEF Finish
<1>4. ASSUME NEW to, Transition(r, to), Finish(r), req[r].pc \in {"loaded", "judging"},
             to # "DELIVERED"
      PROVE  DeliveryIsAttended'
  <2>1. [req[r].snap EXCEPT !.status = to].status = to
    BY <1>1 DEF Row
  <2>2. order'.status = "DELIVERED" => order.status = "DELIVERED"
    BY <1>4, <2>1, CommitDelivers DEF Transition
  <2> QED  BY <1>3, <1>4, <2>2, StillAttended DEF Attends
<1>5. CASE Hold(r) \/ Release(r) \/ Cancel(r) \/ CannotFulfil(r)
  BY <1>4, <1>5 DEF Hold, Release, Cancel, CannotFulfil
<1>6. CASE Park(r)
  <2>1. PICK c \in BOOLEAN : Transition(r, Verdict(req[r].snap, c))
    BY <1>6 DEF Park
  <2>2. Verdict(req[r].snap, c) # "DELIVERED"
    BY DEF Verdict
  <2> QED  BY <1>4, <1>6, <2>1, <2>2 DEF Park
<1>7. CASE SupplierUpdate(r)
  <2>1. PICK to \in Statuses :
          /\ Transition(r, to)
          /\ IF to \in DOMAIN StageStamp
             THEN Goto(r, "stamping", [req[r].snap EXCEPT !.status = to])
             ELSE Finish(r)
    BY <1>7 DEF SupplierUpdate
  <2>2. [req[r].snap EXCEPT !.status = to].status = to
    BY <1>1 DEF Row
  <2>3. CASE to = "DELIVERED"
    <3>1. Goto(r, "stamping", [req[r].snap EXCEPT !.status = to])
      BY <2>1, <2>3 DEF StageStamp
    <3>2. Attends(r)'
      BY <1>2, <2>2, <2>3, <3>1 DEF Attends
    <3> QED  BY <1>2, <3>1, <3>2, StillAttended
  <2>4. CASE to # "DELIVERED"
    <3>1. order'.status = "DELIVERED" => order.status = "DELIVERED"
      BY <2>1, <2>2, <2>4, CommitDelivers DEF Transition
    <3>2. req[r].pc = "loaded"
      BY <1>7 DEF SupplierUpdate
    <3>3. \A q \in Requests : q # r => req'[q] = req[q]
      BY <1>2, <1>3, <2>1
    <3> QED  BY <3>1, <3>2, <3>3, StillAttended DEF Attends
  <2> QED  BY <2>3, <2>4
<1>8. CASE StampStage(r)
  <2>1. order'.status = order.status
    BY <1>1, <1>8 DEF StampStage, Row
  <2>2. CASE req[r].snap.status = "DELIVERED"
    <3>1. Goto(r, "stamped", req[r].snap)
      BY <1>8, <2>2 DEF StampStage
    <3>2. Attends(r)'
      BY <1>2, <2>2, <3>1 DEF Attends
    <3> QED  BY <1>2, <3>1, <3>2, StillAttended
  <2>3. CASE req[r].snap.status # "DELIVERED"
    <3>1. Finish(r) /\ ~Attends(r)
      BY <1>8, <2>3 DEF StampStage, Attends
    <3> QED  BY <1>3, <2>1, <3>1, StillAttended
  <2> QED  BY <2>2, <2>3
<1>9. CASE Refresh(r, "stamped", "closing")
  <2>1. Goto(r, "closing", order) /\ order' = order
    BY <1>9 DEF Refresh
  <2>2. order'.status = "DELIVERED" => Attends(r)'
    BY <1>2, <2>1 DEF Attends
  <2> QED  BY <1>2, <2>1, <2>2, StillAttended
<1>10. CASE AutoComplete(r)
  <2>1. CASE req[r].snap.status = "DELIVERED"
    <3> DEFINE new == [req[r].snap EXCEPT !.status = "COMPLETED", !.stamps = @ \cup {"completed_at"}]
    <3>1. Commit(r, new)
      BY <1>10, <2>1 DEF AutoComplete
    <3>2. new.status = "COMPLETED"
      BY <1>1 DEF Row
    <3> HIDE DEF new
    <3>3. order'.status = "COMPLETED"
      BY <2>1, <3>1, <3>2 DEF Commit, Merge, Written
    <3> QED  BY <3>3 DEF DeliveryIsAttended
  <2>2. CASE req[r].snap.status # "DELIVERED"
    <3>1. order' = order /\ Finish(r) /\ ~Attends(r)
      BY <1>10, <2>2 DEF AutoComplete, Attends
    <3> QED  BY <1>3, <3>1, StillAttended
  <2> QED  BY <2>1, <2>2
<1>11. CASE DeleteOrder(r) \/ RowVanished(r)
  <2>1. order'.status = Gone
    BY <1>11 DEF DeleteOrder, RowVanished, NoRow
  <2> QED  BY <2>1 DEF DeliveryIsAttended, Gone
<1>12. CASE Answer(r) \/ VerdictRefused(r)
  <2>1. order' = order /\ Finish(r) /\ ~Attends(r)
    BY <1>12 DEF Answer, VerdictRefused, Attends
  <2> QED  BY <1>3, <2>1, StillAttended
<1>13. CASE CheckDeletable(r) \/ MailAccepted(r) \/ MailFailed(r) \/ Refresh(r, "verified", "judging")
  <2>1. order' = order /\ ~Attends(r) /\ \E pc, snap : Goto(r, pc, snap)
    BY <1>13 DEF CheckDeletable, MailAccepted, MailFailed, Refresh, Attends
  <2> QED  BY <1>2, <2>1, StillAttended
<1>14. CASE SendToSupplier(r) \/ ConfirmRelease(r) \/ AutoRelease(r)
  <2>1. order' = order /\ ~Attends(r) /\ \E q : req' = [req EXCEPT ![r] = q]
    BY <1>14 DEF SendToSupplier, ConfirmRelease, AutoRelease, CallMail, Attends
  <2> QED  BY <1>1, <2>1, StillAttended
<1>15. ASSUME NEW new, Commit(r, new), ~Attends(r),
              new.status = req[r].snap.status \/ new.status # "DELIVERED",
              Finish(r) \/ \E pc, snap : Goto(r, pc, snap)
       PROVE  DeliveryIsAttended'
  BY <1>2, <1>3, <1>15, CommitDelivers, StillAttended
<1>16. CASE RecordSent(r)
  <2>1. PICK by \in {"nobody", "user"} :
          Commit(r, [req[r].snap EXCEPT !.status = "SENT_TO_SUPPLIER", !.releasedBy = by,
                                        !.stamps = @ \cup {"released_at"}])
    BY <1>16 DEF RecordSent
  <2>2. [req[r].snap EXCEPT !.status = "SENT_TO_SUPPLIER", !.releasedBy = by,
                            !.stamps = @ \cup {"released_at"}].status = "SENT_TO_SUPPLIER"
    BY <1>1 DEF Row
  <2> QED  BY <1>15, <1>16, <2>1, <2>2 DEF RecordSent, Attends
<1>17. CASE RecordFailed(r)
  <2>1. [req[r].snap EXCEPT !.status = "REQUIRES_ATTENTION", !.retries = @ + 1].status
          = "REQUIRES_ATTENTION"
    BY <1>1 DEF Row
  <2> QED  BY <1>15, <1>17, <2>1 DEF RecordFailed, Attends
<1>18. CASE MarkVerified(r)
  <2>1. [req[r].snap EXCEPT !.address = "VERIFIED"].status = req[r].snap.status
    BY <1>1 DEF Row
  <2> QED  BY <1>15, <1>18, <2>1 DEF MarkVerified, Attends
<1>19. CASE Edit(r)
  <2>1. CASE SetAddressStatus(r)
    <3>1. PICK a \in AddressStatuses : Commit(r, [req[r].snap EXCEPT !.address = a])
      BY <2>1 DEF SetAddressStatus
    <3>2. [req[r].snap EXCEPT !.address = a].status = req[r].snap.status
      BY <1>1 DEF Row
    <3> QED  BY <1>15, <2>1, <3>1, <3>2 DEF SetAddressStatus, Attends
  <2>2. CASE CorrectAddress(r)
    <3>1. [req[r].snap EXCEPT !.corrected = TRUE].status = req[r].snap.status
      BY <1>1 DEF Row
    <3> QED  BY <1>15, <2>2, <3>1 DEF CorrectAddress, Attends
  <2>3. CASE UpdateOrder(r)
    <3>1. PICK s \in Suppliers \cup {NoSupplier}, q \in Quantities, d \in BOOLEAN :
            Commit(r, [req[r].snap EXCEPT !.supplier = s, !.quantity = q, !.details = d])
      BY <2>3 DEF UpdateOrder
    <3>2. [req[r].snap EXCEPT !.supplier = s, !.quantity = q, !.details = d].status
            = req[r].snap.status
      BY <1>1 DEF Row
    <3> QED  BY <1>15, <2>3, <3>1, <3>2 DEF UpdateOrder, Attends
  <2> QED  BY <1>19, <2>1, <2>2, <2>3 DEF Edit
<1> QED
  BY <1>5, <1>6, <1>7, <1>8, <1>9, <1>10, <1>11, <1>12, <1>13, <1>14, <1>16, <1>17, <1>18, <1>19
     DEF Serve, Move

\* Unless a portal update dies between its commits, a delivered order never
\* waits for somebody to close it: the request that will is under way, however
\* often stale copies overwrite the status in between.
THEOREM DeliveriesAreAttended == Init /\ [][PortalUpdatesEnd]_vars => []DeliveryIsAttended
<1>1. Init => TypeOK /\ DeliveryIsAttended
  <2>1. Init => DeliveryIsAttended
    BY DEF Init, NoRow, DeliveryIsAttended
  <2> QED  BY <2>1, TypeInit
<1>2. TypeOK /\ DeliveryIsAttended /\ [PortalUpdatesEnd]_vars => TypeOK' /\ DeliveryIsAttended'
  <2> SUFFICES ASSUME TypeOK, DeliveryIsAttended, [PortalUpdatesEnd]_vars
               PROVE  TypeOK' /\ DeliveryIsAttended'
    OBVIOUS
  <2>1. TypeOK'
    BY TypeStep DEF PortalUpdatesEnd, Next
  <2>2. CASE UNCHANGED vars
    BY <2>1, <2>2 DEF vars, DeliveryIsAttended, Attends
  <2>3. ASSUME NEW r \in Requests, SetAutoRelease(r)
        PROVE  DeliveryIsAttended'
    BY <2>3 DEF SetAutoRelease, DeliveryIsAttended, Attends
  <2>4. ASSUME NEW r \in Requests, Load(r)
        PROVE  DeliveryIsAttended'
    <3>1. order' = order /\ ~Attends(r) /\ Goto(r, "loaded", order)
      BY <2>4 DEF Load, Attends
    <3>2. \A q \in Requests : q # r => req'[q] = req[q]
      BY <3>1, GotoEffect
    <3> QED  BY <3>1, <3>2, StillAttended
  <2>5. ASSUME NEW r \in Requests, Abort(r), req[r].pc \notin {"stamping", "stamped", "closing"}
        PROVE  DeliveryIsAttended'
    <3>1. order' = order /\ ~Attends(r) /\ Finish(r)
      BY <2>5 DEF Abort, Attends
    <3>2. \A q \in Requests : q # r => req'[q] = req[q]
      BY <3>1 DEF Finish, TypeOK
    <3> QED  BY <3>1, <3>2, StillAttended
  <2> QED  BY <2>1, <2>2, <2>3, <2>4, <2>5, AttendStep DEF PortalUpdatesEnd, Steady
<1> QED  BY <1>1, <1>2, PTL

-----------------------------------------------------------------------------
(* One request at a time.  Then the copy a request decides on is the row,  *)
(* and every commit is a move of the status table, or a recorded mail.     *)

OneAtATime == \A q, r \in Requests : q = r

\* An order that the system may send on its own.
Standard == Ready(order) /\ ~Flagged(order, FALSE) /\ autoRelease

\* What the one request in flight knows of the row.
Knows(r) ==
  req[r].pc # "idle" =>
    /\ order.status # Gone
    /\ req[r].snap.status = order.status
    /\ req[r].pc \in {"loaded", "deleting", "judging", "closing"} => req[r].snap = order
    /\ req[r].pc = "deleting" => order.status = "PENDING_VERIFICATION" /\ comms.sent = 0
    /\ req[r].pc \in {"mailing", "mailed", "bounced"} =>
         /\ order.status \in Sendable
         /\ req[r].snap.releasedBy = order.releasedBy
         /\ req[r].human \/ Standard

SerialInv == TypeOK /\ \A r \in Requests : Knows(r)

\* What a step does to the status and to the record of the mails.
Stays == order'.status = order.status /\ comms'.sent = comms.sent

Moves ==
  /\ <<order.status, order'.status>> \in AllowedTransitions
  /\ order'.status # "SENT_TO_SUPPLIER"
  /\ comms'.sent = comms.sent

Sends ==
  /\ order.status \in Sendable
  /\ order'.status = "SENT_TO_SUPPLIER"
  /\ comms'.sent > 0
  /\ order'.releasedBy = "nobody" => Standard

Deletes ==
  /\ order.status = "PENDING_VERIFICATION"
  /\ order'.status = Gone
  /\ comms.sent = 0 /\ comms'.sent = 0

Lawful == Stays \/ Moves \/ Sends \/ Deletes

\* A request that has read the row's status writes the status it decides on.
LEMMA FreshMerge ==
  ASSUME NEW old, NEW new, old.status = order.status
  PROVE  Merge(old, new).status = new.status
BY DEF Merge, Written

\* A request that ends leaves nobody in flight ...
LEMMA AloneAndDone ==
  ASSUME OneAtATime, TypeOK, TypeOK', NEW r \in Requests, Finish(r)
  PROVE  SerialInv'
<1>1. req'[r].pc = "idle" /\ \A q \in Requests : q = r
  BY DEF OneAtATime, TypeOK, Finish, IdleRequest
<1> QED  BY <1>1 DEF SerialInv, Knows

\* ... and so does one that ends in a move along the table.
LEMMA TableCommit ==
  ASSUME OneAtATime, SerialInv, TypeOK', NEW r \in Requests, req[r].pc # "idle",
         NEW to, to # "SENT_TO_SUPPLIER", Transition(r, to)
  PROVE  Moves /\ order'.status = to /\ (Finish(r) => SerialInv')
<1>1. /\ req[r].snap \in Row /\ req[r].snap.status = order.status
  BY DEF SerialInv, TypeOK, Request, Knows
<1> DEFINE new == [req[r].snap EXCEPT !.status = to]
<1>2. new.status = to /\ Commit(r, new) /\ comms' = comms
  BY <1>1 DEF Transition, Row
<1>3. <<order.status, to>> \in AllowedTransitions
  BY <1>1 DEF Transition
<1> HIDE DEF new
<1>4. order'.status = to
  BY <1>1, <1>2, FreshMerge DEF Commit
<1> QED  BY <1>2, <1>3, <1>4, AloneAndDone DEF Moves, SerialInv

\* A commit that leaves the status alone.
LEMMA SameStatus ==
  ASSUME SerialInv, NEW r \in Requests, req[r].pc # "idle", NEW new, Commit(r, new),
         new.status = req[r].snap.status
  PROVE  order'.status = order.status
BY FreshMerge DEF SerialInv, Knows, Commit

\* Every step of the only request is lawful and leaves it knowing the row.
LEMMA SerialServe ==
  ASSUME OneAtATime, SerialInv, TypeOK', NEW r \in Requests, Serve(r)
  PROVE  SerialInv' /\ Lawful
<1>1. /\ TypeOK /\ Knows(r) /\ \A q \in Requests : q = r
      /\ req[r].snap \in Row /\ req \in [Requests -> Request] /\ order \in Row
  BY DEF OneAtATime, SerialInv, TypeOK, Request
<1>2. ASSUME Knows(r)'
      PROVE  SerialInv'
  BY <1>1, <1>2 DEF SerialInv
<1>3. CASE Answer(r) \/ RowVanished(r) \/ VerdictRefused(r)
  <2>1. Finish(r) /\ Stays
    BY <1>3 DEF Answer, RowVanished, VerdictRefused, Stays
  <2> QED  BY <1>1, <2>1, AloneAndDone DEF Lawful
<1>4. CASE Hold(r) \/ Release(r) \/ Cancel(r) \/ Park(r) \/ CannotFulfil(r)
  <2>1. PICK to : /\ Transition(r, to) /\ Finish(r) /\ req[r].pc # "idle"
                  /\ to # "SENT_TO_SUPPLIER"
    BY <1>4 DEF Hold, Release, Cancel, Park, CannotFulfil
  <2> QED  BY <2>1, TableCommit DEF Lawful
<1>5. CASE Refresh(r, "verified", "judging") \/ Refresh(r, "stamped", "closing")
  <2>1. PICK pc \in {"judging", "closing"} : Goto(r, pc, order)
    BY <1>5 DEF Refresh
  <2>2. order.status # Gone /\ UNCHANGED <<order, comms, autoRelease>>
    BY <1>5 DEF Refresh
  <2>3. req'[r].pc = pc /\ req'[r].snap = order
    BY <1>1, <2>1, GotoEffect
  <2>4. Knows(r)'
    BY <2>2, <2>3 DEF Knows
  <2> QED  BY <1>2, <2>2, <2>4 DEF Lawful, Stays
<1>6. CASE CheckDeletable(r)
  <2>1. /\ Goto(r, "deleting", req[r].snap) /\ comms.sent = 0
        /\ order.status = "PENDING_VERIFICATION" /\ req[r].snap = order
        /\ UNCHANGED <<order, comms>>
    BY <1>1, <1>6 DEF CheckDeletable, Knows
  <2>2. req'[r].pc = "deleting" /\ req'[r].snap = req[r].snap
    BY <1>1, <2>1, GotoEffect
  <2>3. Knows(r)'
    BY <2>1, <2>2 DEF Knows, Gone
  <2> QED  BY <1>2, <2>1, <2>3 DEF Lawful, Stays
<1>7. CASE DeleteOrder(r)
  <2>1. Finish(r) /\ Deletes
    BY <1>1, <1>7 DEF DeleteOrder, Knows, Deletes, NoRow
  <2> QED  BY <1>1, <2>1, AloneAndDone DEF Lawful
<1>8. CASE MailAccepted(r) \/ MailFailed(r)
  <2>1. PICK pc \in {"mailed", "bounced"} : Goto(r, pc, req[r].snap)
    BY <1>8 DEF MailAccepted, MailFailed
  <2>2. req[r].pc = "mailing" /\ UNCHANGED <<order, comms, autoRelease>>
    BY <1>8 DEF MailAccepted, MailFailed
  <2>3. req'[r].pc = pc /\ req'[r].snap = req[r].snap
    BY <1>1, <2>1, GotoEffect
  <2>4. req'[r].human = req[r].human
    BY <1>1, <2>1 DEF Goto, Request
  <2>5. Knows(r)'
    BY <1>1, <2>2, <2>3, <2>4 DEF Knows, Standard, Ready, Flagged
  <2> QED  BY <1>2, <2>2, <2>5 DEF Lawful, Stays
<1>9. ASSUME NEW byHuman, NEW copy, CallMail(r, byHuman, copy),
             req[r].pc \in {"loaded", "judging"},
             copy.status = req[r].snap.status, copy.releasedBy = req[r].snap.releasedBy,
             byHuman \/ Standard
      PROVE  SerialInv' /\ Lawful
  <2>1. /\ req' = [req EXCEPT ![r] = [pc |-> "mailing", human |-> byHuman, snap |-> copy]]
        /\ UNCHANGED <<order, comms, autoRelease>> /\ copy.status \in Sendable
    BY <1>9 DEF CallMail, MaySend
  <2>2. req'[r].pc = "mailing" /\ req'[r].snap = copy /\ req'[r].human = byHuman
    BY <1>1, <2>1
  <2>3. order.status # Gone /\ req[r].snap = order
    BY <1>1, <1>9 DEF Knows
  <2>4. Knows(r)'
    BY <1>9, <2>1, <2>2, <2>3 DEF Knows, Standard, Ready, Flagged
  <2> QED  BY <1>2, <2>1, <2>4 DEF Lawful, Stays
<1>10. CASE SendToSupplier(r)
  BY <1>9, <1>10 DEF SendToSupplier
<1>11. CASE ConfirmRelease(r)
  <2> DEFINE copy == [req[r].snap EXCEPT !.stamps = @ \cup {"review_confirmed_at"}]
  <2>1. copy.status = req[r].snap.status /\ copy.releasedBy = req[r].snap.releasedBy
    BY <1>1 DEF Row
  <2>2. CallMail(r, TRUE, copy) /\ req[r].pc = "loaded"
    BY <1>11 DEF ConfirmRelease
  <2> HIDE DEF copy
  <2> QED  BY <1>9, <2>1, <2>2
<1>12. CASE AutoRelease(r)
  <2>1. /\ CallMail(r, FALSE, req[r].snap) /\ req[r].pc = "judging"
        /\ Verdict(req[r].snap, FALSE) = "SENT_TO_SUPPLIER" /\ req[r].snap = order
    BY <1>1, <1>12 DEF AutoRelease, Knows
  <2>2. Standard
    BY <2>1 DEF Verdict, Standard
  <2> QED  BY <1>9, <2>1, <2>2
<1>13. CASE RecordSent(r)
  <2> DEFINE by == IF req[r].human THEN "user" ELSE "nobody"
             new == [req[r].snap EXCEPT !.status = "SENT_TO_SUPPLIER", !.releasedBy = by,
                                        !.stamps = @ \cup {"released_at"}]
  <2>1. /\ Finish(r) /\ Commit(r, new) /\ comms' = [comms EXCEPT !.sent = @ + 1]
        /\ new.status = "SENT_TO_SUPPLIER" /\ new.releasedBy = by
    BY <1>1, <1>13 DEF RecordSent, Row
  <2>2. /\ order.status \in Sendable /\ req[r].snap.status = order.status
        /\ req[r].snap.releasedBy = order.releasedBy
        /\ req[r].human \/ Standard
    BY <1>1, <1>13 DEF RecordSent, Knows
  <2>3. comms'.sent > 0
    BY <1>1, <2>1 DEF TypeOK
  <2> HIDE DEF new
  <2>4. order'.status = "SENT_TO_SUPPLIER"
    BY <2>1, <2>2, FreshMerge DEF Commit
  <2>5. order'.releasedBy = by
    BY <2>1, <2>2 DEF Commit, Merge, Written
  <2> QED  BY <1>1, <2>1, <2>2, <2>3, <2>4, <2>5, AloneAndDone DEF Lawful, Sends
<1>14. CASE RecordFailed(r)
  <2> DEFINE new == [req[r].snap EXCEPT !.status = "REQUIRES_ATTENTION", !.retries = @ + 1]
  <2>1. /\ Finish(r) /\ Commit(r, new) /\ comms'.sent = comms.sent
        /\ new.status = "REQUIRES_ATTENTION"
    BY <1>1, <1>14 DEF RecordFailed, Row, TypeOK
  <2>2. order.status \in Sendable /\ req[r].snap.status = order.status
    BY <1>1, <1>14 DEF RecordFailed, Knows
  <2> HIDE DEF new
  <2>3. order'.status = "REQUIRES_ATTENTION"
    BY <2>1, <2>2, FreshMerge DEF Commit
  <2>4. <<order.status, order'.status>> \in AllowedTransitions
    BY <2>2, <2>3 DEF Sendable, AllowedTransitions
  <2> QED  BY <1>1, <2>1, <2>3, <2>4, AloneAndDone DEF Lawful, Moves
<1>15. CASE MarkVerified(r)
  <2> DEFINE new == [req[r].snap EXCEPT !.address = "VERIFIED"]
  <2>1. /\ Commit(r, new) /\ Goto(r, "verified", req[r].snap) /\ req[r].pc = "loaded"
        /\ new.status = req[r].snap.status /\ comms' = comms
    BY <1>1, <1>15 DEF MarkVerified, Row
  <2> HIDE DEF new
  <2>2. order'.status = order.status
    BY <2>1, SameStatus
  <2>3. req'[r].pc = "verified" /\ req'[r].snap = req[r].snap
    BY <1>1, <2>1, GotoEffect
  <2>4. Knows(r)'
    BY <1>1, <2>1, <2>2, <2>3 DEF Knows
  <2> QED  BY <1>2, <2>1, <2>2, <2>4 DEF Lawful, Stays
<1>16. CASE SupplierUpdate(r)
  <2>1. PICK to \in Statuses :
          /\ <<req[r].snap.status, to>> \in SupplierDrivable
          /\ Transition(r, to)
          /\ IF to \in DOMAIN StageStamp
             THEN Goto(r, "stamping", [req[r].snap EXCEPT !.status = to])
             ELSE Finish(r)
    BY <1>16 DEF SupplierUpdate
  <2>2. to \notin {"SENT_TO_SUPPLIER", Gone} /\ req[r].pc # "idle"
    BY <1>16, <2>1 DEF SupplierDrivable, SupplierUpdate, Gone
  <2>3. Moves /\ order'.status = to /\ (Finish(r) => SerialInv')
    BY <2>1, <2>2, TableCommit
  <2>4. CASE Goto(r, "stamping", [req[r].snap EXCEPT !.status = to])
    <3> DEFINE new == [req[r].snap EXCEPT !.status = to]
    <3>1. new.status = to
      BY <1>1 DEF Row
    <3>2. Goto(r, "stamping", new)
      BY <2>4
    <3> HIDE DEF new
    <3>3. req'[r].pc = "stamping" /\ req'[r].snap.status = to
      BY <1>1, <3>1, <3>2, GotoEffect
    <3>4. Knows(r)'
      BY <2>2, <2>3, <3>3 DEF Knows
    <3> QED  BY <1>2, <2>3, <3>4 DEF Lawful
  <2> QED  BY <2>1, <2>3, <2>4 DEF Lawful
<1>17. CASE StampStage(r)
  <2>1. /\ order'.status = order.status /\ comms' = comms /\ req[r].pc = "stamping"
        /\ Finish(r) \/ Goto(r, "stamped", req[r].snap)
    BY <1>1, <1>17 DEF StampStage, Row
  <2>2. CASE Goto(r, "stamped", req[r].snap)
    <3>1. req'[r].pc = "stamped" /\ req'[r].snap = req[r].snap
      BY <1>1, <2>2, GotoEffect
    <3>2. Knows(r)'
      BY <1>1, <2>1, <3>1 DEF Knows
    <3> QED  BY <1>2, <2>1, <3>2 DEF Lawful, Stays
  <2> QED  BY <1>1, <2>1, <2>2, AloneAndDone DEF Lawful, Stays
<1>18. CASE AutoComplete(r)
  <2>1. Finish(r) /\ comms' = comms /\ req[r].snap = order
    BY <1>1, <1>18 DEF AutoComplete, Knows
  <2>2. CASE order' = order
    BY <1>1, <2>1, <2>2, AloneAndDone DEF Lawful, Stays
  <2>3. CASE order' # order
    <3> DEFINE new == [req[r].snap EXCEPT !.status = "COMPLETED", !.stamps = @ \cup {"completed_at"}]
    <3>1. new.status = "COMPLETED" /\ Commit(r, new) /\ order.status = "DELIVERED"
      BY <1>1, <1>18, <2>1, <2>3 DEF AutoComplete, Row
    <3> HIDE DEF new
    <3>2. order'.status = "COMPLETED"
      BY <2>1, <3>1, FreshMerge DEF Commit
    <3>3. <<order.status, order'.status>> \in AllowedTransitions
      BY <3>1, <3>2 DEF AllowedTransitions
    <3> QED  BY <1>1, <2>1, <3>2, <3>3, AloneAndDone DEF Lawful, Moves
  <2> QED  BY <2>2, <2>3
<1>19. CASE Edit(r)
  <2>1. PICK new : /\ Commit(r, new) /\ Finish(r) /\ req[r].pc # "idle" /\ comms' = comms
                   /\ new.status = req[r].snap.status
    <3>1. CASE SetAddressStatus(r)
      <4>1. PICK a : Commit(r, [req[r].snap EXCEPT !.address = a])
        BY <3>1 DEF SetAddressStatus
      <4>2. [req[r].snap EXCEPT !.address = a].status = req[r].snap.status
        BY <1>1 DEF Row
      <4> QED  BY <3>1, <4>1, <4>2 DEF SetAddressStatus
    <3>2. CASE CorrectAddress(r)
      <4>1. [req[r].snap EXCEPT !.corrected = TRUE].status = req[r].snap.status
        BY <1>1 DEF Row
      <4> QED  BY <3>2, <4>1 DEF CorrectAddress
    <3>3. CASE UpdateOrder(r)
      <4>1. PICK su, q, d :
              Commit(r, [req[r].snap EXCEPT !.supplier = su, !.quantity = q, !.details = d])
        BY <3>3 DEF UpdateOrder
      <4>2. [req[r].snap EXCEPT !.supplier = su, !.quantity = q, !.details = d].status
              = req[r].snap.status
        BY <1>1 DEF Row
      <4> QED  BY <3>3, <4>1, <4>2 DEF UpdateOrder
    <3> QED  BY <1>19, <3>1, <3>2, <3>3 DEF Edit
  <2>2. order'.status = order.status
    BY <2>1, SameStatus
  <2> QED  BY <1>1, <2>1, <2>2, AloneAndDone DEF Lawful, Stays
<1> QED
  BY <1>3, <1>4, <1>5, <1>6, <1>7, <1>8, <1>10, <1>11, <1>12, <1>13, <1>14, <1>15, <1>16, <1>17,
     <1>18, <1>19 DEF Serve, Move

\* So is every step of the service, deaths and the switch included.
LEMMA SerialStep ==
  ASSUME OneAtATime, SerialInv, [Next]_vars
  PROVE  SerialInv' /\ Lawful
<1>1. TypeOK /\ TypeOK'
  BY TypeStep DEF SerialInv
<1>2. CASE UNCHANGED vars
  BY <1>2 DEF vars, SerialInv, TypeOK, Knows, Standard, Ready, Flagged, Lawful, Stays
<1>3. ASSUME NEW r \in Requests, Load(r)
      PROVE  SerialInv' /\ Lawful
  <2>1. Goto(r, "loaded", order) /\ order.status # Gone /\ UNCHANGED <<order, comms>>
    BY <1>3 DEF Load
  <2>2. req'[r].pc = "loaded" /\ req'[r].snap = order
    BY <1>1, <2>1, GotoEffect
  <2>3. Knows(r)' /\ \A q \in Requests : q = r
    BY <2>1, <2>2 DEF Knows, OneAtATime
  <2> QED  BY <1>1, <2>1, <2>3 DEF SerialInv, Lawful, Stays
<1>4. ASSUME NEW r \in Requests, SetAutoRelease(r)
      PROVE  SerialInv' /\ Lawful
  <2>1. req'[r].pc = "idle" /\ \A q \in Requests : q = r
    BY <1>4 DEF SetAutoRelease, OneAtATime
  <2> QED  BY <1>1, <1>4, <2>1 DEF SetAutoRelease, SerialInv, Knows, Lawful, Stays
<1>5. ASSUME NEW r \in Requests, Abort(r)
      PROVE  SerialInv' /\ Lawful
  BY <1>1, <1>5, AloneAndDone DEF Abort, Lawful, Stays
<1> QED
  BY <1>1, <1>2, <1>3, <1>4, <1>5, SerialServe DEF Next, Steady

\* Nothing is in flight when the order is inserted.
LEMMA SerialInit ==
  ASSUME Init
  PROVE  SerialInv
<1>1. \A r \in Requests : req[r].pc = "idle"
  BY DEF Init, IdleRequest
<1> QED  BY <1>1, TypeInit DEF SerialInv, Knows

\* One request at a time, the status changes only along ALLOWED_TRANSITIONS,
\* although _send and the delete route never consult the table.
THEOREM TableIsFollowed == ASSUME OneAtATime PROVE Spec => FollowsTable
<1> DEFINE Follows ==
      \/ order'.status = order.status
      \/ <<order.status, order'.status>> \in AllowedTransitions
      \/ order.status = "PENDING_VERIFICATION" /\ order'.status = Gone
<1>1. Init => SerialInv
  BY SerialInit
<1>2. SerialInv /\ [Next]_vars => SerialInv'
  BY SerialStep
<1>3. SerialInv /\ [Next]_vars => [Follows]_vars
  <2> SUFFICES ASSUME SerialInv, [Next]_vars PROVE Follows
    OBVIOUS
  <2>1. CASE Sends
    BY <2>1 DEF Sends, Sendable, AllowedTransitions
  <2> QED  BY <2>1, SerialStep DEF Lawful, Stays, Moves, Deletes
<1> QED  BY <1>1, <1>2, <1>3, PTL DEF Spec, FollowsTable

\* An order that goes out without a user's name on it was verified, assigned
\* and standard in that moment, and auto-release was switched on.
THEOREM AutoReleasesAreStandard == ASSUME OneAtATime PROVE Spec => AutoReleaseIsStandard
<1> DEFINE Approved ==
      order.status # "SENT_TO_SUPPLIER" /\ order'.status = "SENT_TO_SUPPLIER"
          /\ order'.releasedBy = "nobody"
        => Ready(order) /\ ~Flagged(order, FALSE) /\ autoRelease
<1>1. Init => SerialInv
  BY SerialInit
<1>2. SerialInv /\ [Next]_vars => SerialInv'
  BY SerialStep
<1>3. SerialInv /\ [Next]_vars => [Approved]_vars
  BY SerialStep DEF Lawful, Stays, Moves, Sends, Deletes, Standard, Gone
<1> QED  BY <1>1, <1>2, <1>3, PTL DEF Spec, AutoReleaseIsStandard

-----------------------------------------------------------------------------
(* The contract.                                                           *)

\* The phase of each status.
LEMMA Phases ==
  ASSUME NEW st \in Statuses \cup {Gone}
  PROVE  /\ st \in Internal => Phase(st) = "internal"
         /\ st \in {"SENT_TO_SUPPLIER", "CHANGE_REQUESTED"} => Phase(st) = "offered"
         /\ st \in {"CONFIRMED", "PREPARING", "OUT_FOR_DELIVERY", "DELIVERED"}
              => Phase(st) = "committed"
         /\ st = "UNABLE_TO_FULFIL" => Phase(st) = "declined"
         /\ st = "COMPLETED" => Phase(st) = "completed"
         /\ st = "CANCELLED" => Phase(st) = "cancelled"
         /\ st = Gone => Phase(st) = "gone"
<1> DEFINE a == st \in Internal
           b == st \in {"SENT_TO_SUPPLIER", "CHANGE_REQUESTED"}
           c == st \in {"CONFIRMED", "PREPARING", "OUT_FOR_DELIVERY", "DELIVERED"}
           d == st = "UNABLE_TO_FULFIL"
           e == st = "COMPLETED"
           f == st = "CANCELLED"
           g == st = Gone
<1>1. Phase(st) = CASE a -> "internal" [] b -> "offered" [] c -> "committed" [] d -> "declined"
                    [] e -> "completed" [] f -> "cancelled" [] g -> "gone"
  BY DEF Phase
<1>2. /\ a => ~b /\ ~c /\ ~d /\ ~e /\ ~f /\ ~g
      /\ b => ~c /\ ~d /\ ~e /\ ~f /\ ~g
      /\ c => ~d /\ ~e /\ ~f /\ ~g
      /\ d => ~e /\ ~f /\ ~g
      /\ e => ~f /\ ~g
      /\ f => ~g
  BY DEF Internal, Gone
<1> HIDE DEF a, b, c, d, e, f, g
<1>3. a => Phase(st) = "internal"
  BY <1>1, <1>2, Zenon
<1>4. b => Phase(st) = "offered"
  BY <1>1, <1>2, Zenon
<1>5. c => Phase(st) = "committed"
  BY <1>1, <1>2, Zenon
<1>6. d => Phase(st) = "declined"
  BY <1>1, <1>2, Zenon
<1>7. e => Phase(st) = "completed"
  BY <1>1, <1>2, Zenon
<1>8. f => Phase(st) = "cancelled"
  BY <1>1, <1>2, Zenon
<1>9. g => Phase(st) = "gone"
  BY <1>1, <1>2, Zenon
<1> QED  BY <1>3, <1>4, <1>5, <1>6, <1>7, <1>8, <1>9 DEF a, b, c, d, e, f, g

\* A move of the status table is a move of the contract, or within a phase.
LEMMA MovesKeepContract ==
  ASSUME Moves, TypeOK, TypeOK'
  PROVE  [Contract!Next]_<<Phase(order.status), comms.sent > 0>>
<1> DEFINE from == order.status
           to == order'.status
<1>1. from \in Statuses /\ to \in Statuses /\ from \in Statuses \cup {Gone} /\ to \in Statuses \cup {Gone}
  BY AllowedAreStatuses DEF Moves
<1>2. UNCHANGED (comms.sent > 0)
  BY DEF Moves
<1>3. <<from, to>> \in AllowedTransitions /\ to # "SENT_TO_SUPPLIER"
  BY DEF Moves
<1>4. CASE from \in Internal
  <2>1. to \in Internal \cup {"CANCELLED"}
    BY <1>3, <1>4 DEF AllowedTransitions, Internal
  <2>2. Phase(from) = "internal" /\ Phase(to) \in {"internal", "cancelled"}
    BY <1>1, <1>4, <2>1, Phases
  <2> QED  BY <1>2, <2>2 DEF Contract!Next, Contract!Cancel
<1>5. CASE from \in {"SENT_TO_SUPPLIER", "CHANGE_REQUESTED"}
  <2>1. to \in Internal \cup {"CANCELLED", "CHANGE_REQUESTED", "CONFIRMED", "UNABLE_TO_FULFIL"}
    BY <1>3, <1>5 DEF AllowedTransitions, Internal
  <2>2. /\ Phase(from) = "offered"
        /\ Phase(to) \in {"internal", "cancelled", "offered", "committed", "declined"}
    BY <1>1, <1>5, <2>1, Phases
  <2> QED
    BY <1>2, <2>2 DEF Contract!Next, Contract!Recall, Contract!Cancel, Contract!Commit, Contract!Decline
<1>6. CASE from \in {"CONFIRMED", "PREPARING", "OUT_FOR_DELIVERY", "DELIVERED"}
  <2>1. to \in Internal \cup {"CANCELLED", "PREPARING", "OUT_FOR_DELIVERY", "DELIVERED",
                              "COMPLETED", "UNABLE_TO_FULFIL"}
    BY <1>3, <1>6 DEF AllowedTransitions, Internal
  <2>2. /\ Phase(from) = "committed"
        /\ Phase(to) \in {"internal", "cancelled", "committed", "completed", "declined"}
    BY <1>1, <1>6, <2>1, Phases
  <2> QED
    BY <1>2, <2>2 DEF Contract!Next, Contract!Recall, Contract!Cancel, Contract!Complete, Contract!Decline
<1>7. CASE from = "UNABLE_TO_FULFIL"
  <2>1. to \in Internal
    BY <1>3, <1>7 DEF AllowedTransitions, Internal
  <2>2. Phase(from) = "declined" /\ Phase(to) = "internal"
    BY <1>1, <1>7, <2>1, Phases
  <2> QED  BY <1>2, <2>2 DEF Contract!Next, Contract!Recall
<1>8. from \notin {"COMPLETED", "CANCELLED"}
  BY <1>3 DEF AllowedTransitions
<1> QED
  BY <1>1, <1>4, <1>5, <1>6, <1>7, <1>8 DEF Statuses, SupplierVisible, SupplierHeld

\* Every lawful step is a step of the contract or invisible to it.
LEMMA ContractStep ==
  ASSUME OneAtATime, SerialInv, [Next]_vars
  PROVE  [Contract!Next]_<<Phase(order.status), comms.sent > 0>>
<1>1. TypeOK /\ TypeOK' /\ Lawful
  BY SerialStep, TypeStep DEF SerialInv
<1>2. CASE Stays
  BY <1>2 DEF Stays
<1>3. CASE Moves
  BY <1>1, <1>3, MovesKeepContract
<1>4. CASE Sends
  <2>1. order.status \in Internal /\ "SENT_TO_SUPPLIER" \in Statuses /\ order.status \in Statuses \cup {Gone}
    BY <1>4 DEF Sends, Sendable, Internal, Statuses, SupplierVisible, SupplierHeld
  <2>2. Phase(order.status) = "internal" /\ Phase(order'.status) = "offered" /\ comms'.sent > 0
    BY <1>4, <2>1, Phases DEF Sends
  <2> QED  BY <2>2 DEF Contract!Next, Contract!Offer
<1>5. CASE Deletes
  <2>1. "PENDING_VERIFICATION" \in Internal /\ "PENDING_VERIFICATION" \in Statuses \cup {Gone}
    BY DEF Internal, Statuses
  <2>2. Phase(order.status) = "internal" /\ Phase(order'.status) = "gone"
    BY <1>5, <2>1, Phases DEF Deletes
  <2>3. ~(comms.sent > 0) /\ UNCHANGED (comms.sent > 0)
    BY <1>5 DEF Deletes
  <2> QED  BY <2>2, <2>3 DEF Contract!Next, Contract!Discard
<1> QED  BY <1>1, <1>2, <1>3, <1>4, <1>5 DEF Lawful

\* One request at a time, the service implements the contract: every commit,
\* and every death between two commits, is a step of it or a stutter.
THEOREM OrderKeepsContract == ASSUME OneAtATime PROVE Spec => ImplementsContract
<1>1. Init => SerialInv
  BY SerialInit
<1>2. SerialInv /\ [Next]_vars => SerialInv'
  BY SerialStep
<1>3. Init => Contract!Init
  <2> SUFFICES ASSUME Init PROVE Contract!Init
    OBVIOUS
  <2>1. order.status \in Internal /\ order.status \in Statuses \cup {Gone} /\ comms.sent = 0
    BY DEF Init, NoRow, Internal, Statuses
  <2>2. Phase(order.status) = "internal"
    BY <2>1, Phases
  <2> QED  BY <2>1, <2>2 DEF Contract!Init
<1>4. SerialInv /\ [Next]_vars => [Contract!Next]_<<Phase(order.status), comms.sent > 0>>
  BY ContractStep
<1> QED  BY <1>1, <1>2, <1>3, <1>4, PTL DEF Spec, ImplementsContract, Contract!Spec
=============================================================================

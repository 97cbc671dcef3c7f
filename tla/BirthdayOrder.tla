--------------------------- MODULE BirthdayOrder ---------------------------
(***************************************************************************)
(* The life of one birthday cake order in birthday-api, from the row that  *)
(* detection or manual creation inserts until it is completed, cancelled   *)
(* or deleted.                                                             *)
(*                                                                         *)
(* The row is changed by HTTP requests that FastAPI runs in a thread pool, *)
(* each with a database session of its own.  A request reads the row,      *)
(* decides on the copy it read (snap), and commits; there is no version    *)
(* column and no row lock, and SQLAlchemy's UPDATE writes only the columns *)
(* the request changed.  Reading and committing are therefore two steps    *)
(* here, and a handler that commits several times is one action per        *)
(* commit.  Which handler a request runs is chosen when it acts: until     *)
(* then all handlers have done the same, loaded the row.                   *)
(***************************************************************************)
EXTENDS Naturals, FiniteSets

CONSTANTS
  Requests,         \* the requests that can be in flight at the same time
  Suppliers,        \* suppliers, all of them ACTIVE
  NoSupplier,       \* supplier_id IS NULL
  AddressStatuses,  \* values of address_verification_status
  Quantities,       \* values of quantity: "default", "changed", "invalid"
  MaxAttempts       \* bound: no new mail call once so many mails or failures are counted

ASSUME SupplierAssumption == NoSupplier \notin Suppliers

ASSUME AddressAssumption == {"NOT_CHECKED", "VERIFIED"} \subseteq AddressStatuses

\* The code tells apart the configured default, another number, and one below 1.
ASSUME QuantityAssumption ==
  "default" \in Quantities /\ Quantities \subseteq {"default", "changed", "invalid"}

ASSUME BoundAssumption == MaxAttempts \in Nat

VARIABLES
  order,        \* the row of birthday_orders, as committed
  comms,        \* rows of supplier_communications, counted by outcome
  mails,        \* mails the supplier's mailbox really received
  autoRelease,  \* birthday_detection_configs.auto_release_enabled
  req           \* the requests in flight: progress and copy of the row

vars == <<order, comms, mails, autoRelease, req>>

-----------------------------------------------------------------------------
(* Statuses and the tables over them.                                      *)

Internal == {"PENDING_VERIFICATION", "REQUIRES_REVIEW", "REQUIRES_ATTENTION", "ON_HOLD"}

\* The supplier has been given the order (CANCELLED apart, which is visible
\* to the portal as a tombstone whatever happened before).
SupplierHeld ==
  {"SENT_TO_SUPPLIER", "CHANGE_REQUESTED", "CONFIRMED", "PREPARING",
   "OUT_FOR_DELIVERY", "DELIVERED", "COMPLETED", "UNABLE_TO_FULFIL"}

SupplierVisible == SupplierHeld \cup {"CANCELLED"}

Statuses == Internal \cup SupplierVisible

\* The row after a hard delete: reads find nothing, updates match no row.
Gone == "GONE"

AllowedTransitions ==
  UNION { {"PENDING_VERIFICATION"} \X
            {"REQUIRES_REVIEW", "SENT_TO_SUPPLIER", "ON_HOLD", "REQUIRES_ATTENTION", "CANCELLED"},
          {"REQUIRES_REVIEW"} \X
            {"SENT_TO_SUPPLIER", "ON_HOLD", "REQUIRES_ATTENTION", "CANCELLED"},
          {"REQUIRES_ATTENTION"} \X
            {"PENDING_VERIFICATION", "SENT_TO_SUPPLIER", "ON_HOLD", "CANCELLED", "REQUIRES_ATTENTION"},
          {"ON_HOLD"} \X
            {"PENDING_VERIFICATION", "REQUIRES_REVIEW", "SENT_TO_SUPPLIER", "CANCELLED"},
          {"SENT_TO_SUPPLIER"} \X
            {"CONFIRMED", "CHANGE_REQUESTED", "UNABLE_TO_FULFIL", "ON_HOLD",
             "REQUIRES_ATTENTION", "CANCELLED"},
          {"CHANGE_REQUESTED"} \X {"SENT_TO_SUPPLIER", "CANCELLED"},
          {"CONFIRMED"} \X {"PREPARING", "UNABLE_TO_FULFIL", "CANCELLED"},
          {"PREPARING"} \X {"OUT_FOR_DELIVERY", "UNABLE_TO_FULFIL", "CANCELLED"},
          {"OUT_FOR_DELIVERY"} \X {"DELIVERED", "REQUIRES_ATTENTION", "CANCELLED"},
          {"DELIVERED"} \X {"COMPLETED"},
          {"UNABLE_TO_FULFIL"} \X {"REQUIRES_ATTENTION"} }

SupplierDrivable ==
  UNION { {"SENT_TO_SUPPLIER"} \X {"CONFIRMED", "CHANGE_REQUESTED", "UNABLE_TO_FULFIL"},
          {"CONFIRMED"} \X {"PREPARING"},
          {"PREPARING"} \X {"OUT_FOR_DELIVERY"},
          {"OUT_FOR_DELIVERY"} \X {"DELIVERED"} }

SupplierActionable ==
  {"SENT_TO_SUPPLIER", "CHANGE_REQUESTED", "CONFIRMED", "PREPARING", "OUT_FOR_DELIVERY"}

Sendable == {"PENDING_VERIFICATION", "REQUIRES_REVIEW", "REQUIRES_ATTENTION"}

\* The timestamp a portal status update leaves beside the status.
StageStamp == [CONFIRMED |-> "accepted_at", PREPARING |-> "preparing_at",
               OUT_FOR_DELIVERY |-> "out_for_delivery_at", DELIVERED |-> "delivered_at"]

Stamps == {"released_at", "review_confirmed_at", "accepted_at", "preparing_at",
           "out_for_delivery_at", "delivered_at", "completed_at"}

-----------------------------------------------------------------------------
(* The row and the requests.                                               *)

\* stamps holds the timestamp columns that are set; no code ever clears one.
Row ==
  [ status       : Statuses \cup {Gone},
    address      : AddressStatuses,               \* address_verification_status
    corrected    : BOOLEAN,                       \* delivery_address_source = MANUAL_CORRECTION
    shortNotice  : BOOLEAN,                       \* lead_time_class is SHORT_NOTICE or URGENT
    quantity     : Quantities,
    details      : BOOLEAN,                       \* delivery_date and office_location are filled in
    supplier     : Suppliers \cup {NoSupplier},
    retries      : Nat,                           \* retry_count
    releasedBy   : {"nobody", "user"},            \* released_by is NULL or not
    stamps       : SUBSET Stamps ]

NoRow ==
  [ status |-> Gone, address |-> "NOT_CHECKED", corrected |-> FALSE, shortNotice |-> FALSE,
    quantity |-> "default", details |-> TRUE, supplier |-> NoSupplier, retries |-> 0,
    releasedBy |-> "nobody", stamps |-> {} ]

\* How far a request has come; the comment names what it does next.
Progress ==
  { "idle",      \* not running
    "loaded",    \* run a handler on the row it loaded
    "deleting",  \* delete: the row, having seen no communication
    "verified",  \* verify: refresh the row after committing VERIFIED
    "judging",   \* verify: readiness, flags, release
    "mailing",   \* _send: the call to the mail service is out
    "mailed",    \* _send: record the success and release
    "bounced",   \* _send: record the failure
    "stamping",  \* portal: set the timestamp of the stage just committed
    "stamped",   \* portal: refresh the row after the stamp of DELIVERED
    "closing" }  \* portal: auto_complete

\* A request only ever stamps a stage that has a timestamp.
Request ==
  { q \in [pc : Progress, human : BOOLEAN, snap : Row] :
      q.pc = "stamping" => q.snap.status \in DOMAIN StageStamp }

IdleRequest == [pc |-> "idle", human |-> FALSE, snap |-> NoRow]

\* The row and the requests hold only what the service knows.
TypeOK ==
  /\ order \in Row
  /\ comms \in [sent : Nat, failed : Nat]
  /\ mails \in Nat
  /\ autoRelease \in BOOLEAN
  /\ req \in [Requests -> Request]

\* detection_service and create_order insert orders that are waiting for
\* verification, on hold (too early) or in the exception queue.
Init ==
  /\ \E st \in {"PENDING_VERIFICATION", "ON_HOLD", "REQUIRES_ATTENTION"},
        sn \in BOOLEAN, q \in Quantities, d \in BOOLEAN, s \in Suppliers \cup {NoSupplier} :
       order = [NoRow EXCEPT !.status = st, !.shortNotice = sn, !.quantity = q,
                             !.details = d, !.supplier = s]
  /\ comms = [sent |-> 0, failed |-> 0]
  /\ mails = 0
  /\ autoRelease \in BOOLEAN
  /\ req = [r \in Requests |-> IdleRequest]

-----------------------------------------------------------------------------
(* Sessions: what a read, a commit and the end of a request do.            *)

\* A column is written when the request's object differs from what it
\* loaded, and keeps what is committed by then when it does not.
Written(loaded, new, committed) == IF new = loaded THEN committed ELSE new

\* What a commit of the object new makes of the row, for a request that
\* loaded it as old.
Merge(old, new) ==
  [ status      |-> Written(old.status, new.status, order.status),
    address     |-> Written(old.address, new.address, order.address),
    corrected   |-> Written(old.corrected, new.corrected, order.corrected),
    shortNotice |-> order.shortNotice,
    quantity    |-> Written(old.quantity, new.quantity, order.quantity),
    details     |-> Written(old.details, new.details, order.details),
    supplier    |-> Written(old.supplier, new.supplier, order.supplier),
    retries     |-> Written(old.retries, new.retries, order.retries),
    releasedBy  |-> Written(old.releasedBy, new.releasedBy, order.releasedBy),
    stamps      |-> order.stamps \cup new.stamps ]

\* An UPDATE of a deleted row matches nothing and fails the commit.
Commit(r, new) ==
  /\ order.status # Gone
  /\ order' = Merge(req[r].snap, new)

Goto(r, pc, snap) == req' = [req EXCEPT ![r].pc = pc, ![r].snap = snap]

Finish(r) == req' = [req EXCEPT ![r] = IdleRequest]

\* A request arrives and loads the row (get_by_id, get_for_supplier).
Load(r) ==
  /\ req[r].pc = "idle"
  /\ order.status # Gone
  /\ Goto(r, "loaded", order)
  /\ UNCHANGED <<order, comms, mails, autoRelease>>

\* db.refresh after a commit: the copy is the row as it now is.
Refresh(r, from, to) ==
  /\ req[r].pc = from
  /\ order.status # Gone
  /\ Goto(r, to, order)
  /\ UNCHANGED <<order, comms, mails, autoRelease>>

\* A read-only request, or one the handler answers with 4xx.
Answer(r) ==
  /\ req[r].pc = "loaded"
  /\ Finish(r)
  /\ UNCHANGED <<order, comms, mails, autoRelease>>

\* The row was deleted under the request: 404 on refresh, or a failed commit.
RowVanished(r) ==
  /\ req[r].pc # "idle"
  /\ order.status = Gone
  /\ Finish(r)
  /\ UNCHANGED <<order, comms, mails, autoRelease>>

\* The process dies, or the database connection does, between two commits;
\* nothing resumes the request and its uncommitted changes are rolled back.
Abort(r) ==
  /\ req[r].pc # "idle"
  /\ Finish(r)
  /\ UNCHANGED <<order, comms, mails, autoRelease>>

-----------------------------------------------------------------------------
(* Staff requests of one commit (routes/orders.py).                        *)

\* order_status_service.transition by a handler that does nothing else.
Transition(r, to) ==
  /\ <<req[r].snap.status, to>> \in AllowedTransitions
  /\ Commit(r, [req[r].snap EXCEPT !.status = to])
  /\ UNCHANGED <<comms, mails, autoRelease>>

HoldAnytime(r) ==  \* mutant: the table is not consulted
  /\ req[r].pc = "loaded"
  /\ Commit(r, [req[r].snap EXCEPT !.status = "ON_HOLD"])
  /\ Finish(r)
  /\ UNCHANGED <<comms, mails, autoRelease>>

Hold(r) == req[r].pc = "loaded" /\ Transition(r, "ON_HOLD") /\ Finish(r)

Release(r) == req[r].pc = "loaded" /\ Transition(r, "PENDING_VERIFICATION") /\ Finish(r)

Cancel(r) == req[r].pc = "loaded" /\ Transition(r, "CANCELLED") /\ Finish(r)

SetAddressStatus(r) ==
  /\ req[r].pc = "loaded"
  /\ \E a \in AddressStatuses : Commit(r, [req[r].snap EXCEPT !.address = a])
  /\ Finish(r)
  /\ UNCHANGED <<comms, mails, autoRelease>>

CorrectAddress(r) ==
  /\ req[r].pc = "loaded"
  /\ Commit(r, [req[r].snap EXCEPT !.corrected = TRUE])
  /\ Finish(r)
  /\ UNCHANGED <<comms, mails, autoRelease>>

\* PATCH of the order, in any status: supplier (or none), quantity, and the
\* delivery date and office, which it can also empty.
UpdateOrder(r) ==
  /\ req[r].pc = "loaded"
  /\ \E s \in Suppliers \cup {NoSupplier}, q \in Quantities, d \in BOOLEAN :
       Commit(r, [req[r].snap EXCEPT !.supplier = s, !.quantity = q, !.details = d])
  /\ Finish(r)
  /\ UNCHANGED <<comms, mails, autoRelease>>

CheckStatusOnly(r) ==  \* mutant: the communications are not looked up
  /\ req[r].pc = "loaded"
  /\ req[r].snap.status = "PENDING_VERIFICATION"
  /\ Goto(r, "deleting", req[r].snap)
  /\ UNCHANGED <<order, comms, mails, autoRelease>>

\* Hard delete, of an order that was never acted on.  The communications are
\* looked up before the audit call and deleted with the row after it.
CheckDeletable(r) ==
  /\ req[r].pc = "loaded"
  /\ req[r].snap.status = "PENDING_VERIFICATION"
  /\ comms.sent = 0 /\ comms.failed = 0
  /\ Goto(r, "deleting", req[r].snap)
  /\ UNCHANGED <<order, comms, mails, autoRelease>>

DeleteOrder(r) ==
  /\ req[r].pc = "deleting"
  /\ order.status # Gone
  /\ order' = NoRow
  /\ comms' = [sent |-> 0, failed |-> 0]
  /\ Finish(r)
  /\ UNCHANGED <<mails, autoRelease>>

\* PATCH of the detection config.
SetAutoRelease(r) ==
  /\ req[r].pc = "idle"
  /\ autoRelease' \in BOOLEAN
  /\ UNCHANGED <<order, comms, mails, req>>

-----------------------------------------------------------------------------
(* Sending to the supplier (order_email_service._send).                    *)

MaySend(o) ==
  /\ o.supplier # NoSupplier
  /\ o.status \in Sendable
  /\ o.address = "VERIFIED"

CallMail(r, byHuman, copy) ==
  /\ MaySend(copy)
  /\ mails < MaxAttempts /\ comms.failed < MaxAttempts
  /\ req' = [req EXCEPT ![r] = [pc |-> "mailing", human |-> byHuman, snap |-> copy]]
  /\ UNCHANGED <<order, comms, mails, autoRelease>>

\* send-to-supplier and resend.
SendToSupplier(r) == req[r].pc = "loaded" /\ CallMail(r, TRUE, req[r].snap)

\* One-click release of a flagged order; the review stamp is committed with
\* whatever the send commits, its failure included.
ConfirmRelease(r) ==
  /\ req[r].pc = "loaded"
  /\ req[r].snap.status = "REQUIRES_REVIEW"
  /\ CallMail(r, TRUE, [req[r].snap EXCEPT !.stamps = @ \cup {"review_confirmed_at"}])

MailAccepted(r) ==
  /\ req[r].pc = "mailing"
  /\ mails' = mails + 1
  /\ Goto(r, "mailed", req[r].snap)
  /\ UNCHANGED <<order, comms, autoRelease>>

MailFailureIgnored(r) ==  \* mutant: result.sent is not looked at
  /\ req[r].pc = "mailing"
  /\ mails' \in {mails, mails + 1}
  /\ Goto(r, "mailed", req[r].snap)
  /\ UNCHANGED <<order, comms, autoRelease>>

\* The client raises or answers sent=False.  A call that timed out may have
\* sent the mail all the same.
MailFailed(r) ==
  /\ req[r].pc = "mailing"
  /\ mails' \in {mails, mails + 1}
  /\ Goto(r, "bounced", req[r].snap)
  /\ UNCHANGED <<order, comms, autoRelease>>

\* The SENT communication, released_at/by and the status are one commit.  The
\* EMAIL_SENT event that a second commit adds is not modelled.
RecordSent(r) ==
  /\ req[r].pc = "mailed"
  /\ Commit(r, [req[r].snap EXCEPT !.status = "SENT_TO_SUPPLIER",
                                   !.releasedBy = IF req[r].human THEN "user" ELSE "nobody",
                                   !.stamps = @ \cup {"released_at"}])
  /\ comms' = [comms EXCEPT !.sent = @ + 1]
  /\ Finish(r)
  /\ UNCHANGED <<mails, autoRelease>>

\* So are the FAILED communication, retry_count and REQUIRES_ATTENTION.
RecordFailed(r) ==
  /\ req[r].pc = "bounced"
  /\ Commit(r, [req[r].snap EXCEPT !.status = "REQUIRES_ATTENTION",
                                   !.retries = @ + 1])
  /\ comms' = [comms EXCEPT !.failed = @ + 1]
  /\ Finish(r)
  /\ UNCHANGED <<mails, autoRelease>>

-----------------------------------------------------------------------------
(* Verify: the one routine human checkpoint (verify_and_release).          *)

Ready(o) ==
  o.address = "VERIFIED" /\ o.supplier # NoSupplier /\ o.details /\ o.quantity # "invalid"

Flagged(o, correctedNow) ==
  correctedNow \/ o.corrected \/ o.shortNotice \/ o.quantity # "default"

\* VERIFIED is committed on its own, before anything is decided.
MarkVerified(r) ==
  /\ req[r].pc = "loaded"
  /\ Commit(r, [req[r].snap EXCEPT !.address = "VERIFIED"])
  /\ Goto(r, "verified", req[r].snap)
  /\ UNCHANGED <<comms, mails, autoRelease>>

VerdictUnpaused(o, correctedNow) ==  \* mutant: the auto-release switch is ignored
  IF ~Ready(o) THEN "REQUIRES_ATTENTION"
  ELSE IF Flagged(o, correctedNow) THEN "REQUIRES_REVIEW"
  ELSE "SENT_TO_SUPPLIER"

\* What the readiness check and the flags make of the order.
Verdict(o, correctedNow) ==
  IF ~Ready(o) THEN "REQUIRES_ATTENTION"
  ELSE IF Flagged(o, correctedNow) \/ ~autoRelease THEN "REQUIRES_REVIEW"
  ELSE "SENT_TO_SUPPLIER"

Park(r) ==
  /\ req[r].pc = "judging"
  /\ \E c \in BOOLEAN :
       /\ Verdict(req[r].snap, c) # "SENT_TO_SUPPLIER"
       /\ Transition(r, Verdict(req[r].snap, c))
  /\ Finish(r)

AutoRelease(r) ==
  /\ req[r].pc = "judging"
  /\ Verdict(req[r].snap, FALSE) = "SENT_TO_SUPPLIER"
  /\ CallMail(r, FALSE, req[r].snap)

\* The table or _send refuses the verdict in the order's status: the route
\* catches neither exception and VERIFIED stays committed.
VerdictRefused(r) ==
  /\ req[r].pc = "judging"
  /\ \E c \in BOOLEAN :
       IF Verdict(req[r].snap, c) = "SENT_TO_SUPPLIER"
       THEN ~MaySend(req[r].snap)
       ELSE <<req[r].snap.status, Verdict(req[r].snap, c)>> \notin AllowedTransitions
  /\ Finish(r)
  /\ UNCHANGED <<order, comms, mails, autoRelease>>

-----------------------------------------------------------------------------
(* The supplier portal (routes/portal.py), for the order's own supplier.   *)

Scoped(o) == o.supplier # NoSupplier /\ o.status \in SupplierVisible

SupplierUpdateUnstamped(r) ==  \* mutant: the stage's timestamp is forgotten
  /\ req[r].pc = "loaded"
  /\ Scoped(req[r].snap)
  /\ \E to \in Statuses :
       /\ <<req[r].snap.status, to>> \in SupplierDrivable
       /\ Transition(r, to)
  /\ Finish(r)

\* accept and the status update: the status is committed first.
SupplierUpdate(r) ==
  /\ req[r].pc = "loaded"
  /\ Scoped(req[r].snap)
  /\ \E to \in Statuses :
       /\ <<req[r].snap.status, to>> \in SupplierDrivable
       /\ Transition(r, to)
       /\ IF to \in DOMAIN StageStamp
          THEN Goto(r, "stamping", [req[r].snap EXCEPT !.status = to])
          ELSE Finish(r)

StampStageAndStop(r) ==  \* mutant: nobody completes the order
  /\ req[r].pc = "stamping"
  /\ order.status # Gone
  /\ order' = [order EXCEPT !.stamps = @ \cup {StageStamp[req[r].snap.status]}]
  /\ Finish(r)
  /\ UNCHANGED <<comms, mails, autoRelease>>

CompleteUnstamped(r) ==  \* mutant: a delivery is closed before it is stamped
  /\ req[r].pc = "stamping"
  /\ order.status # Gone
  /\ IF req[r].snap.status = "DELIVERED"
     THEN Goto(r, "stamped", req[r].snap) /\ UNCHANGED order
     ELSE /\ Finish(r)
          /\ order' = [order EXCEPT !.stamps = @ \cup {StageStamp[req[r].snap.status]}]
  /\ UNCHANGED <<comms, mails, autoRelease>>

\* The stage's timestamp is a commit of its own; DELIVERED goes on.
StampStage(r) ==
  /\ req[r].pc = "stamping"
  /\ order.status # Gone
  /\ order' = [order EXCEPT !.stamps = @ \cup {StageStamp[req[r].snap.status]}]
  /\ IF req[r].snap.status = "DELIVERED" THEN Goto(r, "stamped", req[r].snap) ELSE Finish(r)
  /\ UNCHANGED <<comms, mails, autoRelease>>

\* auto_complete, on the refreshed row.
AutoComplete(r) ==
  /\ req[r].pc = "closing"
  /\ IF req[r].snap.status = "DELIVERED"
     THEN Commit(r, [req[r].snap EXCEPT !.status = "COMPLETED",
                                        !.stamps = @ \cup {"completed_at"}])
     ELSE UNCHANGED order
  /\ Finish(r)
  /\ UNCHANGED <<comms, mails, autoRelease>>

\* An issue of type CANNOT_FULFIL; where the table refuses, it is only filed.
CannotFulfil(r) ==
  /\ req[r].pc = "loaded"
  /\ Scoped(req[r].snap)
  /\ req[r].snap.status \in SupplierActionable
  /\ Transition(r, "UNABLE_TO_FULFIL")
  /\ Finish(r)

-----------------------------------------------------------------------------

\* The steps of a running request that move the order along...
Move(r) ==
  \/ Answer(r) \/ RowVanished(r)
  \/ Hold(r) \/ Release(r) \/ Cancel(r) \/ CheckDeletable(r) \/ DeleteOrder(r)
  \/ SendToSupplier(r) \/ ConfirmRelease(r)
  \/ MailAccepted(r) \/ MailFailed(r) \/ RecordSent(r) \/ RecordFailed(r)
  \/ MarkVerified(r) \/ Refresh(r, "verified", "judging")
  \/ Park(r) \/ AutoRelease(r) \/ VerdictRefused(r)
  \/ SupplierUpdate(r) \/ StampStage(r)
  \/ Refresh(r, "stamped", "closing") \/ AutoComplete(r) \/ CannotFulfil(r)

\* ... and those that edit it.
Edit(r) == SetAddressStatus(r) \/ CorrectAddress(r) \/ UpdateOrder(r)

Serve(r) == Move(r) \/ Edit(r)

Steady == \E r \in Requests : Load(r) \/ SetAutoRelease(r) \/ Serve(r)

Next == Steady \/ \E r \in Requests : Abort(r)

Spec == Init /\ [][Next]_vars

\* Nothing dies, and a running request is eventually given its next step:
\* its thread is scheduled and its calls return.  Nobody has to send one.
SteadySpec == Init /\ [][Steady]_vars /\ \A r \in Requests : WF_vars(Serve(r))

-----------------------------------------------------------------------------
(* Properties.                                                             *)

\* A mail to a supplier that went out and that the order records.
Recorded == mails > 0 /\ comms.sent > 0 /\ "released_at" \in order.stamps

\* However requests interleave and wherever they die, an order the supplier
\* holds was mailed to a supplier first, and the mail is on record: _send
\* records the communication in the commit that releases the order.
HeldIsOnRecord == order.status \in SupplierHeld => Recorded

\* Only a delivery completes an order: COMPLETED is never reached past the
\* delivery timestamp, whatever overwrote the status in between.
CompletedWasDelivered ==
  order.status = "COMPLETED" => {"delivered_at", "completed_at"} \subseteq order.stamps

\* The record claims no mail that nobody received: each sent communication,
\* and each one about to be recorded, is a mail of its own, even when two
\* requests send the same order at the same time.
SentIsMailed == comms.sent + Cardinality({r \in Requests : req[r].pc = "mailed"}) <= mails

\* Concurrent failures may lose an increment of retry_count, since each writes
\* the number it read plus one, but never count a failure that is not recorded.
NoPhantomRetries == order.status # Gone => order.retries <= comms.failed

\* All hold because of what every request in flight may rest on: a status it
\* read from a supplier's hands was on record when it read it, and no commit
\* takes a record or a timestamp back while the row exists.
RestsOnRecord(r) ==
  order.status # Gone =>
    /\ req[r].snap.status \in SupplierHeld => Recorded
    /\ req[r].pc = "mailed" => mails > 0
    /\ req[r].pc \in {"stamped", "closing"} => "delivered_at" \in order.stamps
    /\ req[r].pc # "idle" => req[r].snap.retries <= comms.failed

RequestsRestOnRecord == \A r \in Requests : RestsOnRecord(r)

\* What the record promises, with what every copy of it in flight may claim.
OrderInv ==
  /\ TypeOK
  /\ HeldIsOnRecord
  /\ CompletedWasDelivered
  /\ NoPhantomRetries
  /\ RequestsRestOnRecord

\* The fulfilment stages an order with that status has passed.
StagesUpTo(st) ==
  CASE st = "CONFIRMED" -> {"CONFIRMED"}
    [] st = "PREPARING" -> {"CONFIRMED", "PREPARING"}
    [] st = "OUT_FOR_DELIVERY" -> {"CONFIRMED", "PREPARING", "OUT_FOR_DELIVERY"}
    [] st \in {"DELIVERED", "COMPLETED"} -> DOMAIN StageStamp
    [] OTHER -> {}

\* Unless a portal update dies between its commits, each fulfilment stage the
\* order has passed has left its timestamp, or the update is about to write it.
FulfilmentIsStamped ==
  \A st \in StagesUpTo(order.status) :
    \/ StageStamp[st] \in order.stamps
    \/ \E r \in Requests : req[r].pc = "stamping" /\ req[r].snap.status = st

\* A delivered order completes by itself, unless the portal update that
\* delivered it dies: no user action exists for it.
DeliveredCompletes == (order.status = "DELIVERED") ~> (order.status # "DELIVERED")

\* One request at a time, the status changes only along ALLOWED_TRANSITIONS,
\* and a row disappears only while it waits for verification.
FollowsTable ==
  [][ \/ order'.status = order.status
      \/ <<order.status, order'.status>> \in AllowedTransitions
      \/ order.status = "PENDING_VERIFICATION" /\ order'.status = Gone ]_vars

\* Verification is the approval: an order the system releases on its own is
\* standard, verified and assigned when it goes out.
AutoReleaseIsStandard ==
  [][ order.status # "SENT_TO_SUPPLIER" /\ order'.status = "SENT_TO_SUPPLIER"
        /\ order'.releasedBy = "nobody"
      => /\ Ready(order) /\ ~Flagged(order, FALSE) /\ autoRelease ]_vars

\* The phase of the contract each status stands for.
Phase(st) ==
  CASE st \in Internal -> "internal"
    [] st \in {"SENT_TO_SUPPLIER", "CHANGE_REQUESTED"} -> "offered"
    [] st \in {"CONFIRMED", "PREPARING", "OUT_FOR_DELIVERY", "DELIVERED"} -> "committed"
    [] st = "UNABLE_TO_FULFIL" -> "declined"
    [] st = "COMPLETED" -> "completed"
    [] st = "CANCELLED" -> "cancelled"
    [] st = Gone -> "gone"

Contract == INSTANCE OrderContract WITH phase <- Phase(order.status), told <- comms.sent > 0

\* One request at a time, the order keeps its contract across commits and
\* deaths: no supplier before a recorded mail, no fulfilment that skips the
\* offer, no deletion of what a supplier was told about.
ImplementsContract == Contract!Spec

\* CANCELLED and COMPLETED are terminal.
TerminalIsFinal ==
  [][order.status \in {"CANCELLED", "COMPLETED"} => order'.status = order.status]_vars
=============================================================================

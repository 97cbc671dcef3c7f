------------------------- MODULE MCBirthdayCalendar -------------------------
(* TLC instance of BirthdayCalendar.                                       *)
EXTENDS BirthdayCalendar, TLC

CONSTANTS e1

\* What BambooHR may say of the employee: a leap-day or year-end birthday, an
\* impossible one or none, a later start, an end, no longer active.
Employee == [active |-> TRUE, birthday |-> LeapPosition, hired |-> 0, left |-> NoDate,
             mail |-> TRUE, office |-> "office"]

Facts ==
  {Employee,
   [Employee EXCEPT !.birthday = YearLength, !.left = 8],
   [Employee EXCEPT !.birthday = 1, !.mail = FALSE, !.hired = 2],
   [Employee EXCEPT !.birthday = YearLength + 1],
   [Employee EXCEPT !.birthday = NoBirthday],
   [Employee EXCEPT !.active = FALSE, !.left = 3]}

\* The instance looks at the system from four sides: administrators arrange
\* suppliers; they keep the users of one supplier; rival runs copy the
\* directory; and the calendar runs, over one sync at a time and suppliers
\* arranged before.
VARIABLE side

CONSTANTS r1, s1, s2, k1, k2

Sold(default) == [active |-> TRUE, default |-> default]

Trades(default) == [active |-> TRUE, default |-> default, lead |-> 1]

\* One supplier without a default among its cakes; one for the office beside
\* the default one.
Arrangement ==
  \/ /\ supplier = (s1 :> Trades(FALSE) @@ s2 :> Absent)
     /\ cake = [i \in Suppliers \X Cakes |-> IF i[1] = s1 THEN Sold(FALSE) ELSE Absent]
     /\ location = [o \in Places |-> NoSupplier]
     /\ admin = [w \in Admins |-> NoRequest] /\ edits = 0 /\ overlapped = FALSE
  \/ /\ supplier = (s1 :> Trades(TRUE) @@ s2 :> Trades(FALSE))
     /\ cake = [i \in Suppliers \X Cakes |-> IF i = <<s2, k1>> THEN Sold(TRUE) ELSE Absent]
     /\ location = [o \in Places |-> s2]
     /\ admin = [w \in Admins |-> NoRequest] /\ edits = 0 /\ overlapped = FALSE

CalendarOpening ==
  /\ PeopleInit
  /\ CalendarInit
  /\ PortalInit
  /\ \/ side \in {"suppliers", "directory"} /\ SuppliersInit
     \/ side = "calendar" /\ Arrangement
     \/ side = "portal" /\ Arrangement /\ supplier[s2] = Absent

Quiet == \A r \in Runs : task[r] = IdleTask

CalendarNext ==
  /\ \/ side = "suppliers" /\ SuppliersNext /\ UNCHANGED <<people, portal, birthday>>
     \/ side = "portal" /\ PortalNext /\ UNCHANGED <<people, birthday>>
     \/ side = "directory" /\ People
     \/ /\ side = "calendar"
        /\ \/ /\ People /\ scan = IdleScan
              /\ \A r \in Runs \ {r1} : task'[r] = IdleTask
           \/ Quiet /\ (Scanning \/ NextDay \/ \E n \in Lookaheads : SetLookahead(n))
  /\ UNCHANGED side

CalendarSpec ==
  CalendarOpening /\ [][CalendarNext]_<<vars, side>> /\ PeopleFairness /\ WF_vars(EndScan)
=============================================================================

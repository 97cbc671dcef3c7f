-------------------------- MODULE BirthdayCalendar --------------------------
(***************************************************************************)
(* Which birthday gets a cake order, and when (birthday-api): the daily    *)
(* scan takes the employee directory, computes each employee's next        *)
(* birthday, and creates the order of those that come within the           *)
(* lookahead, one per employee and calendar year.  Days are numbered from  *)
(* the first one; a year has YearLength calendar positions, of which the   *)
(* leap day is one that exists only in leap years.                         *)
(***************************************************************************)
EXTENDS PeopleDirectory, SupplierPortal

CONSTANTS
  YearLength,       \* positions of the calendar
  LeapPosition,     \* that of 29 February
  LastYear, LeapYears,
  Lookaheads,       \* values of window_lookahead_days that occur
  FirstDays,        \* the day it starts
  LastDay           \* bound: the last day, some year before the last

ASSUME CalendarAssumption ==
  /\ YearLength \in Nat /\ LeapPosition \in 1 .. YearLength - 1
  /\ LastYear \in Nat \ {0} /\ LeapYears \subseteq 1 .. LastYear
  /\ Lookaheads \subseteq Nat /\ Lookaheads # {}

VARIABLES
  today,
  lookahead,  \* window_lookahead_days of the configuration
  scan,       \* the scan that runs
  order,      \* the birthday_orders, one per employee and year
  promised,   \* the first day that no scan has looked ahead to, for an employee
  corrected   \* employees whose row has changed its birthday

birthday == <<today, lookahead, scan, order, promised, corrected>>
vars == <<people, suppliers, portal, birthday>>

-----------------------------------------------------------------------------
\* The calendar

Years == 1 .. LastYear

LengthOf(y) == IF y \in LeapYears THEN YearLength ELSE YearLength - 1

\* The first day of each year.
StartOf[y \in Years] == IF y = 1 THEN 0 ELSE StartOf[y - 1] + LengthOf(y - 1)

Days == 0 .. StartOf[LastYear] + LengthOf(LastYear) - 1

YearOf(d) == CHOOSE y \in Years : StartOf[y] <= d /\ d < StartOf[y] + LengthOf(y)

ASSUME DayAssumption ==
  LastDay \in Days /\ YearOf(LastDay) < LastYear /\ FirstDays \subseteq 0 .. LastDay

\* A birthday such as 31 April is accepted by the parser and in no year.
Possible(b) == b \in 1 .. YearLength

\* Mutant: without a leap day the birthday is the day before it.
DayInFebruary(b, y) ==
  StartOf[y] + b - (IF b >= LeapPosition /\ y \notin LeapYears THEN 2 ELSE 1)

\* _occurrence_for_year: without a leap day, its birthday is the day after.
DayIn(b, y) == StartOf[y] + b - (IF b > LeapPosition /\ y \notin LeapYears THEN 2 ELSE 1)

\* compute_next_birthday_occurrence.
NextOccurrence(b, d) ==
  IF DayIn(b, YearOf(d)) < d THEN DayIn(b, YearOf(d) + 1) ELSE DayIn(b, YearOf(d))

\* Mutant: the year the order is for is that of the scan.
YearOfScan(occurrence, d) == YearOf(d)

\* The year the order is for is that of the occurrence.
OccurrenceYear(occurrence, d) == YearOf(occurrence)

\* Mutant: the last day of the window is left out.
InsideWindow(occurrence, d, ahead) == occurrence - d < ahead

\* is_within_scan_window: an occurrence is never before the day of the scan,
\* so the lookback decides nothing.
InWindow(occurrence, d, ahead) == occurrence - d <= ahead

-----------------------------------------------------------------------------
\* Orders

Order ==
  [date : Days, status : {"PENDING_VERIFICATION", "ON_HOLD", "REQUIRES_ATTENTION"},
   supplier : Suppliers \cup {NoSupplier}, cake : Cakes \cup {NoCake}]

IdleScan == [at |-> "idle"]

Scan ==
  [at : {"scanning"}, day : Days, ahead : Lookaheads, rows : [Staff -> Fact \cup {None}],
   left : SUBSET Staff]

TypeOK ==
  /\ PeopleTypeOK
  /\ SuppliersTypeOK
  /\ PortalTypeOK
  /\ today \in Days
  /\ lookahead \in Lookaheads
  /\ scan \in Scan \cup {IdleScan}
  /\ order \in [Staff \X Years -> Order \cup {None}]
  /\ promised \in [Staff -> Nat]
  /\ corrected \subseteq Staff

\* Every row is of its type, and every office leads to one supplier and one cake
\* (resolve_supplier_for_office, resolve_default_catalogue_item).
SupplyInv == TypeOK /\ ResolutionIsDetermined

\* compute_eligibility: everyone in the directory is active there and has a
\* birthday, so the dates decide.
Eligible(f, occurrence) ==
  /\ f.active
  /\ f.hired # NoDate /\ f.hired <= occurrence
  /\ f.left = NoDate \/ f.left >= occurrence

\* determine_initial_status.
InitialStatus(f, s, c, days) ==
  IF \/ ~f.mail
     \/ s = NoSupplier
     \/ c = NoCake /\ \E i \in Cakes : cake[<<s, i>>] # Absent
  THEN "REQUIRES_ATTENTION"
  ELSE IF days >= supplier[s].lead THEN "PENDING_VERIFICATION" ELSE "ON_HOLD"

\* The orders the scan may create for an employee.
Orders(f, occurrence, d) ==
  UNION {{[date |-> occurrence, status |-> InitialStatus(f, s, c, occurrence - d),
           supplier |-> s, cake |-> c] :
            c \in IF s = NoSupplier THEN {NoCake} ELSE DefaultCakes(s)} :
         s \in Resolved(f.office)}

-----------------------------------------------------------------------------
\* The daily scan

\* run_daily_scan takes the directory; when people-api is unreachable it
\* leaves all as it is.
StartScan ==
  /\ scan = IdleScan
  /\ scan' = [at |-> "scanning", day |-> today, ahead |-> lookahead, rows |-> directory,
              left |-> {e \in Staff : directory[e] # None}]
  /\ UNCHANGED <<people, suppliers, portal, today, lookahead, order, promised, corrected>>

\* Nobody is dropped from a scan before its turn.
Done(e) == scan' = [scan EXCEPT !.left = @ \ {e}]

\* How far a scan looks ahead for somebody: to the end of its window, but not
\* beyond the next birthday.
Horizon(occurrence, d, ahead) == IF occurrence < d + ahead THEN occurrence ELSE d + ahead

\* One employee, to the commit.  The scan looked ahead for the employee as the
\* directory has it, if it still has it so.
ScanEmployee(e) ==
  LET f == scan.rows[e]
      occurrence == NextOccurrence(f.birthday, scan.day)
      key == <<e, OccurrenceYear(occurrence, scan.day)>>
      seen == Horizon(occurrence, scan.day, scan.ahead)
  IN  /\ scan # IdleScan
      /\ e \in scan.left
      /\ Possible(f.birthday)
      /\ IF /\ InWindow(occurrence, scan.day, scan.ahead)
            /\ Eligible(f, occurrence)
            /\ order[key] = None
         THEN \E o \in Orders(f, occurrence, scan.day) : order' = [order EXCEPT ![key] = o]
         ELSE UNCHANGED order
      /\ promised' = [promised EXCEPT ![e] =
           IF directory[e] = f /\ seen >= @ THEN seen + 1 ELSE @]
      /\ Done(e)
      /\ UNCHANGED <<people, suppliers, portal, today, lookahead, corrected>>

\* An impossible date, or the database: the others go on.
SkipEmployee(e) ==
  /\ scan # IdleScan
  /\ e \in scan.left
  /\ Done(e)
  /\ UNCHANGED <<people, suppliers, portal, today, lookahead, order, promised, corrected>>

\* The last employee is done, or the process dies.
EndScan ==
  /\ scan # IdleScan
  /\ scan' = IdleScan
  /\ UNCHANGED <<people, suppliers, portal, today, lookahead, order, promised, corrected>>

\* update_config.
SetLookahead(n) ==
  /\ n # lookahead
  /\ lookahead' = n
  /\ UNCHANGED <<people, suppliers, portal, today, scan, order, promised, corrected>>

NextDay ==
  /\ today < LastDay
  /\ today' = today + 1
  /\ UNCHANGED <<people, suppliers, portal, lookahead, scan, order, promised, corrected>>

-----------------------------------------------------------------------------
\* The directory of upcoming birthdays, computed when it is asked for

\* list_upcoming_birthdays: whose birthday comes within so many days.
Upcoming(days) ==
  {e \in Staff : /\ directory[e] # None
                /\ Possible(directory[e].birthday)
                /\ InWindow(NextOccurrence(directory[e].birthday, today), today, days)}

\* Mutant: the order of this calendar year.
OrderOfTheYear(e) == order[<<e, YearOf(today)>>]

\* The order shown with that birthday, found by the year of its occurrence.
ListedOrder(e) == order[<<e, YearOf(NextOccurrence(directory[e].birthday, today))>>]

-----------------------------------------------------------------------------

CalendarInit ==
  /\ today \in FirstDays
  /\ lookahead \in Lookaheads
  /\ scan = IdleScan
  /\ order = [k \in Staff \X Years |-> None]
  /\ promised = [e \in Staff |-> 0]
  /\ corrected = {}

Init == PeopleInit /\ SuppliersInit /\ PortalInit /\ CalendarInit

\* A row that changes takes back what scans have looked at.
People ==
  /\ PeopleNext
  /\ promised' = [e \in Staff |-> IF directory'[e] = directory[e] THEN promised[e] ELSE 0]
  /\ corrected' = corrected \cup
       {e \in Staff : directory[e] # None /\ directory'[e].birthday # directory[e].birthday}
  /\ UNCHANGED <<suppliers, portal, today, lookahead, scan, order>>

Administration ==
  \/ SuppliersNext /\ UNCHANGED <<people, portal, birthday>>
  \/ PortalNext /\ UNCHANGED <<people, birthday>>
  \/ \E n \in Lookaheads : SetLookahead(n)

Scanning ==
  \/ StartScan \/ EndScan
  \/ \E e \in Staff : ScanEmployee(e) \/ SkipEmployee(e)

Next == People \/ Administration \/ Scanning \/ NextDay

Spec == Init /\ [][Next]_vars /\ PeopleFairness

-----------------------------------------------------------------------------

\* The birthday b is celebrated on day d: it is its position in the calendar,
\* or the day after a leap day that the year does not have.
Celebrated(b, d) ==
  LET y == YearOf(d)
      position == d - StartOf[y] + 1
  IN  IF y \in LeapYears \/ position < LeapPosition THEN position = b
      ELSE position + 1 = b \/ (position = LeapPosition /\ b = LeapPosition)

\* Across year ends and leap days, the scan's date is the first day from the
\* scan on when the birthday is celebrated (compute_next_birthday_occurrence).
OccurrencesAreNext ==
  \A b \in 1 .. YearLength :
    LET next == NextOccurrence(b, today)
    IN  /\ next >= today /\ Celebrated(b, next)
        /\ \A d \in today .. next - 1 : ~Celebrated(b, d)

\* However long the outages and wherever scans stop, whoever was scanned with
\* the row the directory still has, within the lookahead of the birthday, has
\* the order when the day of the birthday is over ("naturally catches up").
NobodyIsMissed ==
  [][\A e \in Staff :
       /\ today' > today /\ promised[e] > today
       /\ directory[e] # None
       /\ Possible(directory[e].birthday) /\ Celebrated(directory[e].birthday, today)
       /\ Eligible(directory[e], today)
       => order[<<e, YearOf(today)>>] # None]_vars

\* Unless the birthday was corrected in between, two orders of an employee are
\* a year apart, also where a scan looks into the next year ("no duplicates
\* (idempotent on (employee_id, birthday_year))").
OneCakeABirthday ==
  \A e \in Staff \ corrected : \A y, z \in Years :
    y < z /\ order[<<e, y>>] # None /\ order[<<e, z>>] # None
      => order[<<e, z>>].date - order[<<e, y>>].date >= YearLength - 1

\* Unless the birthday was corrected, the directory shows with a birthday the
\* order for that day, never that of the one a year before or after
\* (list_upcoming_birthdays, "rolling into next year").
DirectoryShowsItsOrder ==
  \A e \in Upcoming(YearLength) \ corrected :
    ListedOrder(e) # None =>
      ListedOrder(e).date = NextOccurrence(directory[e].birthday, today)
=============================================================================

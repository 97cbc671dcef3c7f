----------------------- MODULE BirthdayCalendarProofs -----------------------
(***************************************************************************)
(* Theorems on BirthdayCalendar and what it is built on, PeopleDirectory,  *)
(* BirthdaySuppliers and SupplierPortal: for any calendar, staff,          *)
(* suppliers and users, any lookahead and any bounds.                      *)
(***************************************************************************)
EXTENDS BirthdayCalendar, Integers, FiniteSetTheorems, WellFoundedInduction, TLAPS

\* The default suppliers other than s, or the default cakes of s other than c.
OtherDefaults(r) ==
  IF r.op = "supplier" THEN Defaults(supplier) \ {r.on} ELSE Defaults(CakesOf(r.on)) \ {r.of}

\* What a request on suppliers keeps true: rows are not deleted, and only a
\* request that clears the other defaults makes its row a default.
RequestTrue(r) ==
  r # NoRequest =>
    /\ r.asDefault => r.copy.default
    /\ r.loaded = Absent \/ (r.copy.default /\ ~r.loaded.default) => r.asDefault = r.copy.default
    /\ r.op = "supplier" =>
         /\ r.loaded # Absent => supplier[r.on] # Absent
         /\ \A s \in r.others : s # r.on /\ supplier[s] # Absent
    /\ r.op = "cake" =>
         /\ r.loaded # Absent => cake[<<r.on, r.of>>] # Absent
         /\ \A c \in r.others : c # r.of /\ cake[<<r.on, c>>] # Absent

\* Unless two requests that set a default overlapped, one that sets one has
\* read all the others, and there is one default at most.
DefaultsAreSingle ==
  ~overlapped =>
    /\ \A s, t \in Defaults(supplier) : s = t
    /\ \A s \in Suppliers : \A c, d \in Defaults(CakesOf(s)) : c = d
    /\ \A w \in Admins :
         admin[w] # NoRequest /\ admin[w].asDefault => OtherDefaults(admin[w]) \subseteq admin[w].others

\* The inductive invariant of the suppliers.
SuppliersInv ==
  /\ SuppliersTypeOK
  /\ \A w \in Admins : RequestTrue(admin[w])
  /\ DefaultsAreSingle

\* The inductive invariant of the portal: tokens are of users there are, and
\* whoever is off is not active.
PortalInv ==
  /\ PortalTypeOK
  /\ \A w \in Admins :
       form[w] # NoForm /\ form[w].loaded # Absent => contact[form[w].on] # Absent
  /\ signedIn \subseteq Registered
  /\ \A u \in off : contact[u] # Absent /\ ~contact[u].active

-----------------------------------------------------------------------------

\* A scan works on rows of people still in the directory, with the birthday
\* it still has for them unless that was corrected.
ScanTrue ==
  scan # IdleScan =>
    /\ scan.day <= today
    /\ \A e \in scan.left : scan.rows[e] # None
    /\ \A e \in Staff : scan.rows[e] # None =>
         /\ directory[e] # None
         /\ e \in corrected \/ directory[e].birthday = scan.rows[e].birthday

\* An order is for its employee's birthday in its year.
OrdersTrue ==
  \A e \in Staff \ corrected : \A y \in Years :
    order[<<e, y>>] # None =>
      /\ directory[e] # None
      /\ Possible(directory[e].birthday)
      /\ order[<<e, y>>].date = DayIn(directory[e].birthday, y)

\* Somebody whose birthday is before the promised day has the order for it.
PromisesKept ==
  \A e \in Staff : \A d \in Days :
    /\ today <= d /\ d < promised[e]
    /\ directory[e] # None
    /\ Possible(directory[e].birthday) /\ Celebrated(directory[e].birthday, d)
    /\ Eligible(directory[e], d)
    => order[<<e, YearOf(d)>>] # None

\* The inductive invariant of the whole.
CalendarInv ==
  /\ TypeOK
  /\ SuppliersInv
  /\ PortalInv
  /\ today <= LastDay
  /\ ScanTrue
  /\ OrdersTrue
  /\ PromisesKept

-----------------------------------------------------------------------------
\* The calendar

\* Every set of numbers has a least one; this stands in for induction.
LEMMA LeastNumber ==
  ASSUME NEW T \in SUBSET Nat, T # {}
  PROVE  \E n \in T : \A m \in T : n <= m
<1> DEFINE R == OpToRel(<, Nat)
<1>1. R = {ss \in Nat \X Nat : ss[1] < ss[2]}
  BY DEF OpToRel
<1>2. IsWellFoundedOn(R, Nat)
  BY NatLessThanWellFounded
<1> HIDE DEF R
<1>3. PICK n \in T : \A m \in T : <<m, n>> \notin R
  BY <1>2, WFMin
<1>4. \A m \in T : ~(m < n)
  BY <1>1, <1>3
<1> QED  BY <1>4

\* A set of numbers up to b has a greatest one.
LEMMA GreatestNumber ==
  ASSUME NEW b \in Nat, NEW T \in SUBSET (0 .. b), T # {}
  PROVE  \E n \in T : \A m \in T : m <= n
<1> DEFINE U == {b - n : n \in T}
<1>1. U \in SUBSET Nat
  <2>1. \A n \in T : b - n \in Nat
    OBVIOUS
  <2> QED  BY <2>1
<1>2. PICK k \in U : \A l \in U : k <= l
  <2>1. U # {}
    OBVIOUS
  <2> HIDE DEF U
  <2> QED  BY <1>1, <2>1, LeastNumber
<1>3. PICK n \in T : k = b - n
  OBVIOUS
<1>4. \A m \in T : b - n <= b - m
  BY <1>2, <1>3
<1> QED  BY <1>4

\* What the recursive definition of StartOf means.
StartsAt(f, n) ==
  f = [y \in 1 .. n |-> IF y = 1 THEN 0 ELSE f[y - 1] + LengthOf(y - 1)]

\* A year has one of two lengths, and a day at least.
LEMMA LengthType ==
  ASSUME NEW y
  PROVE  LengthOf(y) \in {YearLength - 1, YearLength} /\ LengthOf(y) \in Nat /\ LengthOf(y) >= 1
  BY CalendarAssumption DEF LengthOf

\* Years can be counted up to any.
LEMMA StartsExist ==
  ASSUME NEW n \in Nat \ {0}
  PROVE  \E f : StartsAt(f, n)
<1> DEFINE T == {m \in Nat \ {0} : ~\E f : StartsAt(f, m)}
<1> SUFFICES T = {}
  OBVIOUS
<1> SUFFICES ASSUME T # {} PROVE FALSE
  OBVIOUS
<1>1. PICK m \in T : \A k \in T : m <= k
  BY LeastNumber
<1>2. CASE m = 1
  <2>1. StartsAt([y \in 1 .. 1 |-> 0], 1)
    BY DEF StartsAt
  <2> QED  BY <1>2, <2>1
<1>3. CASE m # 1
  <2>1. m - 1 \in Nat \ {0} /\ m - 1 \notin T
    BY <1>1, <1>3
  <2>2. PICK f : StartsAt(f, m - 1)
    BY <2>1
  <2> DEFINE g == [y \in 1 .. m |-> IF y = 1 THEN 0 ELSE f[y - 1] + LengthOf(y - 1)]
  <2>3. \A y \in 1 .. m - 1 : g[y] = f[y]
    BY <2>1, <2>2 DEF StartsAt
  <2>4. \A y \in 1 .. m : g[y] = IF y = 1 THEN 0 ELSE g[y - 1] + LengthOf(y - 1)
    <3> TAKE y \in 1 .. m
    <3>1. y # 1 => y - 1 \in 1 .. m - 1
      OBVIOUS
    <3>2. y # 1 => g[y - 1] = f[y - 1]
      BY <2>3, <3>1
    <3> QED  BY <3>2
  <2>5. g = [y \in 1 .. m |-> g[y]]
    OBVIOUS
  <2> HIDE DEF g
  <2>6. g = [y \in 1 .. m |-> IF y = 1 THEN 0 ELSE g[y - 1] + LengthOf(y - 1)]
    BY <2>4, <2>5
  <2>7. StartsAt(g, m)
    BY <2>6 DEF StartsAt
  <2> QED  BY <2>7
<1> QED  BY <1>2, <1>3

\* The recursive function StartOf exists and satisfies its equation.
LEMMA StartsOfYears ==
  \A y \in Years : StartOf[y] = IF y = 1 THEN 0 ELSE StartOf[y - 1] + LengthOf(y - 1)
<1>1. \E f : StartsAt(f, LastYear)
  BY StartsExist, CalendarAssumption
<1>2. StartOf = CHOOSE f : StartsAt(f, LastYear)
  BY DEF StartOf, StartsAt, Years
<1>3. StartsAt(StartOf, LastYear)
  BY <1>1, <1>2
<1>4. \A f : StartsAt(f, LastYear) =>
        \A y \in Years : f[y] = IF y = 1 THEN 0 ELSE f[y - 1] + LengthOf(y - 1)
  BY DEF StartsAt, Years
<1> QED  BY <1>3, <1>4

\* A year begins when the one before is over.
LEMMA NextYear ==
  ASSUME NEW y \in Years, y + 1 \in Years
  PROVE  StartOf[y + 1] = StartOf[y] + LengthOf(y)
<1>1. y + 1 # 1 /\ (y + 1) - 1 = y
  BY DEF Years
<1> QED  BY <1>1, StartsOfYears

\* Every year begins on some day.
LEMMA StartType ==
  ASSUME NEW y \in Years
  PROVE  StartOf[y] \in Nat
<1> DEFINE T == {x \in Years : StartOf[x] \notin Nat}
<1> SUFFICES ASSUME T # {} PROVE FALSE
  OBVIOUS
<1>1. T \in SUBSET Nat
  BY CalendarAssumption DEF Years
<1> HIDE DEF T
<1>2. PICK x \in T : \A z \in T : x <= z
  BY <1>1, LeastNumber
<1> USE DEF T
<1>3. CASE x = 1
  BY <1>2, <1>3, StartsOfYears
<1>4. CASE x # 1
  <2>1. x - 1 \in Years /\ x - 1 \in Nat /\ x \in Nat /\ ~(x <= x - 1)
    BY <1>2, <1>4, CalendarAssumption DEF Years
  <2>2. StartOf[x - 1] \in Nat
    BY <1>2, <2>1
  <2>3. StartOf[x] = StartOf[x - 1] + LengthOf(x - 1)
    BY <1>2, <1>4, StartsOfYears
  <2> QED  BY <1>2, <2>2, <2>3, LengthType
<1> QED  BY <1>3, <1>4

\* Years do not overlap.
LEMMA YearsApart ==
  ASSUME NEW y \in Years, NEW z \in Years, y < z
  PROVE  StartOf[y] + LengthOf(y) <= StartOf[z]
<1> DEFINE T == {x \in Years : y < x /\ ~(StartOf[y] + LengthOf(y) <= StartOf[x])}
<1> SUFFICES ASSUME T # {} PROVE FALSE
  OBVIOUS
<1>1. T \in SUBSET Nat
  BY CalendarAssumption DEF Years
<1> HIDE DEF T
<1>2. PICK x \in T : \A k \in T : x <= k
  BY <1>1, LeastNumber
<1> USE DEF T
<1>3. x \in Years /\ y < x /\ x - 1 \in Years /\ x \in Nat /\ y \in Nat /\ x = (x - 1) + 1
  BY <1>2, CalendarAssumption DEF Years
<1>4. StartOf[x] = StartOf[x - 1] + LengthOf(x - 1)
  BY <1>3, NextYear
<1>5. StartOf[y] \in Nat /\ StartOf[x - 1] \in Nat /\ LengthOf(y) \in Nat /\ LengthOf(x - 1) \in Nat
  BY <1>3, StartType, LengthType
<1>6. CASE x - 1 = y
  BY <1>2, <1>4, <1>5, <1>6
<1>7. CASE x - 1 # y
  <2>1. y < x - 1 /\ x - 1 \notin T
    BY <1>2, <1>3, <1>7
  <2>2. StartOf[y] + LengthOf(y) <= StartOf[x - 1]
    BY <1>3, <2>1
  <2> QED  BY <1>2, <1>4, <1>5, <2>2
<1> QED  BY <1>6, <1>7

\* A day of the calendar is in exactly one year.
InYear(d, y) == StartOf[y] <= d /\ d < StartOf[y] + LengthOf(y)

\* A day lies in one year.
LEMMA OneYear ==
  ASSUME NEW d \in Int, NEW y \in Years, InYear(d, y)
  PROVE  YearOf(d) = y
<1>1. \A z \in Years : InYear(d, z) => z = y
  <2> SUFFICES ASSUME NEW z \in Years, InYear(d, z), z # y PROVE FALSE
    OBVIOUS
  <2>1. z < y \/ y < z
    BY CalendarAssumption DEF Years
  <2>2. /\ StartOf[y] \in Nat /\ StartOf[z] \in Nat /\ LengthOf(y) \in Nat /\ LengthOf(z) \in Nat
    BY StartType, LengthType
  <2> QED  BY <2>1, <2>2, YearsApart DEF InYear
<1>2. YearOf(d) = CHOOSE z \in Years : InYear(d, z)
  BY DEF YearOf, InYear
<1> QED  BY <1>1, <1>2

\* Every day of the calendar lies in a year, the one YearOf chooses.
LEMMA DayHasYear ==
  ASSUME NEW d \in Days
  PROVE  d \in Nat /\ YearOf(d) \in Years /\ InYear(d, YearOf(d))
<1> DEFINE T == {y \in Years : StartOf[y] <= d}
<1>1. LastYear \in Years /\ 1 \in Years /\ StartOf[1] = 0
  BY CalendarAssumption, StartsOfYears DEF Years
<1>2. StartOf[LastYear] \in Nat /\ LengthOf(LastYear) \in Nat
  BY <1>1, StartType, LengthType
<1>3. d \in Nat /\ d < StartOf[LastYear] + LengthOf(LastYear)
  BY <1>2 DEF Days
<1>4. T \in SUBSET (0 .. LastYear) /\ T # {}
  BY <1>1, <1>3, CalendarAssumption DEF Years
<1> HIDE DEF T
<1>5. PICK y \in T : \A z \in T : z <= y
  BY <1>4, GreatestNumber, CalendarAssumption
<1> USE DEF T
<1>6. InYear(d, y)
  <2>1. CASE y = LastYear
    BY <1>3, <1>5, <2>1 DEF InYear
  <2>2. CASE y # LastYear
    <3>1. y + 1 \in Years /\ ~(y + 1 <= y)
      BY <1>5, <2>2, CalendarAssumption DEF Years
    <3>2. ~(StartOf[y + 1] <= d)
      BY <1>5, <3>1
    <3>3. StartOf[y + 1] = StartOf[y] + LengthOf(y) /\ StartOf[y] \in Nat /\ LengthOf(y) \in Nat
      BY <1>5, <3>1, NextYear, StartType, LengthType
    <3> QED  BY <1>3, <1>5, <3>2, <3>3 DEF InYear
  <2> QED  BY <2>1, <2>2
<1>7. YearOf(d) = y
  BY <1>3, <1>5, <1>6, OneYear
<1> QED  BY <1>3, <1>5, <1>6, <1>7

\* A birthday falls into the year it is asked for.
LEMMA DayInYear ==
  ASSUME NEW b \in 1 .. YearLength, NEW y \in Years
  PROVE  DayIn(b, y) \in Nat /\ InYear(DayIn(b, y), y) /\ YearOf(DayIn(b, y)) = y
<1>1. StartOf[y] \in Nat
  BY StartType
<1>2. LengthOf(y) = IF y \in LeapYears THEN YearLength ELSE YearLength - 1
  BY DEF LengthOf
<1>3. b \in Nat /\ YearLength \in Nat /\ LeapPosition \in Nat /\ 1 <= LeapPosition /\ LeapPosition <= YearLength - 1
  BY CalendarAssumption
<1>4. DayIn(b, y) \in Nat /\ InYear(DayIn(b, y), y)
  BY <1>1, <1>2, <1>3 DEF DayIn, InYear
<1> QED  BY <1>4, OneYear

\* It is celebrated on that day and on no other of the year.
LEMMA CelebratedOnce ==
  ASSUME NEW b \in 1 .. YearLength, NEW d \in Int, NEW y \in Years, InYear(d, y)
  PROVE  Celebrated(b, d) <=> d = DayIn(b, y)
<1>1. YearOf(d) = y /\ StartOf[y] \in Nat
  BY OneYear, StartType
<1>2. b \in Nat /\ YearLength \in Nat /\ LeapPosition \in Nat /\ 1 <= LeapPosition /\ LeapPosition <= YearLength - 1
  BY CalendarAssumption
<1>3. Celebrated(b, d) <=>
        IF y \in LeapYears \/ d - StartOf[y] + 1 < LeapPosition THEN d - StartOf[y] + 1 = b
        ELSE d - StartOf[y] + 2 = b \/ (d - StartOf[y] + 1 = LeapPosition /\ b = LeapPosition)
  BY <1>1 DEF Celebrated
<1>4. DayIn(b, y) = IF b > LeapPosition /\ y \notin LeapYears THEN StartOf[y] + b - 2 ELSE StartOf[y] + b - 1
  BY DEF DayIn
<1> QED  BY <1>1, <1>2, <1>3, <1>4

\* A birthday is celebrated a year later at the earliest.
LEMMA BirthdaysApart ==
  ASSUME NEW b \in 1 .. YearLength, NEW y \in Years, NEW z \in Years, y < z
  PROVE  DayIn(b, z) - DayIn(b, y) >= YearLength - 1
<1>1. y \in Nat /\ z \in Nat /\ y + 1 \in Years
  BY CalendarAssumption DEF Years
<1>2. /\ StartOf[y] \in Nat /\ StartOf[y + 1] \in Nat /\ StartOf[z] \in Nat
      /\ StartOf[y + 1] = StartOf[y] + LengthOf(y)
  BY <1>1, StartType, NextYear
<1>3. /\ b \in Nat /\ YearLength \in Nat /\ LeapPosition \in Nat
      /\ 1 <= LeapPosition /\ LeapPosition <= YearLength - 1
  BY CalendarAssumption
<1>4. \A x \in Years :
        /\ DayIn(b, x) = IF b > LeapPosition /\ x \notin LeapYears THEN StartOf[x] + b - 2 ELSE StartOf[x] + b - 1
        /\ LengthOf(x) = IF x \in LeapYears THEN YearLength ELSE YearLength - 1
  BY DEF DayIn, LengthOf
<1>5. CASE z = y + 1
  BY <1>1, <1>2, <1>3, <1>4, <1>5
<1>6. CASE z # y + 1
  <2>1. y + 1 < z
    BY <1>1, <1>6
  <2>2. StartOf[y + 1] + LengthOf(y + 1) <= StartOf[z]
    BY <1>1, <2>1, YearsApart
  <2> QED  BY <1>1, <1>2, <1>3, <1>4, <2>2
<1> QED  BY <1>5, <1>6

\* The days the model reaches are in the calendar, and so is the year after.
LEMMA TodayInCalendar ==
  ASSUME NEW d \in 0 .. LastDay
  PROVE  d \in Days /\ YearOf(d) \in Years /\ YearOf(d) + 1 \in Years
<1>1. LastDay \in Nat /\ YearOf(LastDay) \in Years /\ InYear(LastDay, YearOf(LastDay))
  BY DayHasYear, DayAssumption
<1>2. d \in Days
  <2>1. StartOf[LastYear] \in Nat /\ LengthOf(LastYear) \in Nat
    BY StartType, LengthType, CalendarAssumption DEF Years
  <2> QED  BY <1>1, <2>1, DayAssumption DEF Days
<1>3. d \in Nat /\ YearOf(d) \in Years /\ InYear(d, YearOf(d))
  BY <1>2, DayHasYear
<1>4. YearOf(d) <= YearOf(LastDay)
  <2> SUFFICES ASSUME YearOf(LastDay) < YearOf(d) PROVE FALSE
    BY <1>1, <1>3, CalendarAssumption DEF Years
  <2>1. StartOf[YearOf(LastDay)] + LengthOf(YearOf(LastDay)) <= StartOf[YearOf(d)]
    BY <1>1, <1>3, YearsApart
  <2>2. /\ StartOf[YearOf(LastDay)] \in Nat /\ StartOf[YearOf(d)] \in Nat
        /\ LengthOf(YearOf(LastDay)) \in Nat
    BY <1>1, <1>3, StartType, LengthType
  <2> QED  BY <1>1, <1>3, <2>1, <2>2 DEF InYear
<1> QED  BY <1>1, <1>2, <1>3, <1>4, CalendarAssumption, DayAssumption DEF Years

\* compute_next_birthday_occurrence: the next day from d on that is one.
LEMMA NextIsNext ==
  ASSUME NEW b \in 1 .. YearLength, NEW d \in 0 .. LastDay
  PROVE  LET next == NextOccurrence(b, d)
         IN  /\ next \in Days /\ next \in Nat /\ d <= next
             /\ YearOf(next) \in {YearOf(d), YearOf(d) + 1}
             /\ next = DayIn(b, YearOf(next)) /\ Celebrated(b, next)
             /\ \A c \in d .. next - 1 : ~Celebrated(b, c)
<1> DEFINE y == YearOf(d)
           next == NextOccurrence(b, d)
<1>1. /\ d \in Nat /\ d \in Days /\ y \in Years /\ y + 1 \in Years /\ y \in Nat /\ y < y + 1
      /\ StartOf[y] <= d /\ d < StartOf[y] + LengthOf(y)
  BY TodayInCalendar, DayHasYear, CalendarAssumption DEF InYear, Years
<1>2. next = IF DayIn(b, y) < d THEN DayIn(b, y + 1) ELSE DayIn(b, y)
  BY DEF NextOccurrence
<1>3. \A x \in {y, y + 1} : /\ x \in Years /\ DayIn(b, x) \in Nat /\ YearOf(DayIn(b, x)) = x
                           /\ StartOf[x] <= DayIn(b, x) /\ DayIn(b, x) < StartOf[x] + LengthOf(x)
                           /\ StartOf[x] \in Nat /\ LengthOf(x) \in Nat
  BY <1>1, DayInYear, StartType, LengthType DEF InYear
<1>4. StartOf[y + 1] = StartOf[y] + LengthOf(y)
  BY <1>1, NextYear
<1>5. \A x \in {y, y + 1}, c \in Int :
        StartOf[x] <= c /\ c < StartOf[x] + LengthOf(x) => (Celebrated(b, c) <=> c = DayIn(b, x))
  BY <1>3, CelebratedOnce DEF InYear
<1> HIDE DEF next
<1>6. d <= next /\ next \in Nat /\ YearOf(next) \in {y, y + 1} /\ next = DayIn(b, YearOf(next))
  BY <1>1, <1>2, <1>3, <1>4
<1>7. Celebrated(b, next)
  BY <1>3, <1>5, <1>6
<1>8. ASSUME NEW c \in d .. next - 1
      PROVE  ~Celebrated(b, c)
  <2>1. c \in Int /\ d <= c /\ c < next
    BY <1>1, <1>6
  <2>2. CASE c < StartOf[y] + LengthOf(y)
    BY <1>1, <1>2, <1>3, <1>5, <2>1, <2>2
  <2>3. CASE ~(c < StartOf[y] + LengthOf(y))
    <3>1. next = DayIn(b, y + 1)
      BY <1>2, <1>3, <2>1, <2>3
    <3> QED  BY <1>3, <1>4, <1>5, <2>1, <2>3, <3>1
  <2> QED  BY <2>2, <2>3
<1>9. next \in Days
  <2>1. CASE YearOf(next) = LastYear
    BY <1>3, <1>6, <2>1 DEF Days
  <2>2. CASE YearOf(next) # LastYear
    <3>1. YearOf(next) \in Years /\ LastYear \in Years /\ YearOf(next) < LastYear
      BY <1>3, <1>6, <2>2, CalendarAssumption DEF Years
    <3>2. /\ StartOf[YearOf(next)] + LengthOf(YearOf(next)) <= StartOf[LastYear]
          /\ StartOf[LastYear] \in Nat /\ LengthOf(LastYear) \in Nat
      BY <3>1, YearsApart, StartType, LengthType
    <3> QED  BY <1>3, <1>6, <3>2 DEF Days
  <2> QED  BY <2>1, <2>2
<1> QED  BY <1>6, <1>7, <1>8, <1>9 DEF next

\* The scan's dates are right, across year ends and leap days, for every
\* birthday (compute_next_birthday_occurrence).
LEMMA DatesAreRight ==
  ASSUME today \in 0 .. LastDay
  PROVE  OccurrencesAreNext
<1> SUFFICES ASSUME NEW b \in 1 .. YearLength
             PROVE  LET next == NextOccurrence(b, today)
                    IN  /\ next >= today /\ Celebrated(b, next)
                        /\ \A d \in today .. next - 1 : ~Celebrated(b, d)
  BY DEF OccurrencesAreNext
<1> DEFINE next == NextOccurrence(b, today)
<1>1. /\ next \in Nat /\ today <= next /\ Celebrated(b, next)
      /\ \A d \in today .. next - 1 : ~Celebrated(b, d)
  BY NextIsNext
<1> HIDE DEF next
<1>2. next >= today
  BY <1>1
<1> QED  BY <1>1, <1>2 DEF next

-----------------------------------------------------------------------------
\* The directory

\* The mark of a missing row is no row.
LEMMA NoneIsNoFact == None \notin Fact
  BY DEF None, Fact

\* An UPDATE of some columns leaves a row.
LEMMA WrittenFact ==
  ASSUME NEW row \in Fact, NEW loaded \in Fact, NEW copy \in Fact
  PROVE  Written(row, loaded, copy) \in Fact
<1>1. /\ DOMAIN row = {"active", "birthday", "hired", "left", "mail", "office"}
  BY DEF Fact
<1> QED  BY <1>1 DEF Written, Fact

\* Tasks by what they do.
LEMMA TaskType ==
  ASSUME NEW t \in Task
  PROVE  /\ t.at = "loading" => t.list \in [Staff -> Fact \cup {None}]
         /\ t.at = "writing" => /\ t.list \in [Staff -> Fact \cup {None}]
                                /\ t.loaded \in [Staff -> Fact \cup {None}]
  BY DEF Task, IdleTask

\* The directory stays of its type and loses nobody.
LEMMA PeopleStep ==
  ASSUME PeopleTypeOK, PeopleNext
  PROVE  /\ PeopleTypeOK'
         /\ \A e \in Staff : directory[e] # None => directory'[e] # None
<1>1. /\ hr \in [Staff -> Fact \cup {None}] /\ directory \in [Staff -> Fact \cup {None}]
      /\ run \in [Runs -> Active \cup {"NONE", "SUCCEEDED", "FAILED"}]
      /\ task \in [Runs -> Task] /\ changes \in 0 .. MaxChanges /\ MaxChanges \in Nat
  BY ChangesAssumption DEF PeopleTypeOK
<1>2. ASSUME NEW e \in Staff, NEW f \in FactChoices, ChangeFact(e, f)
      PROVE  PeopleTypeOK' /\ directory' = directory
  <2>1. changes' \in 0 .. MaxChanges
    BY <1>1, <1>2 DEF ChangeFact
  <2>2. hr' \in [Staff -> Fact \cup {None}]
    BY <1>1, <1>2, FactAssumption DEF ChangeFact
  <2> QED  BY <1>1, <1>2, <2>1, <2>2 DEF ChangeFact, PeopleTypeOK
<1>3. ASSUME NEW r \in Runs, NEW t \in Task, Goto(r, t), UNCHANGED <<hr, directory, changes>>,
             run' \in [Runs -> Active \cup {"NONE", "SUCCEEDED", "FAILED"}]
      PROVE  PeopleTypeOK' /\ directory' = directory
  BY <1>1, <1>3 DEF Goto, PeopleTypeOK
<1>4. /\ IdleTask \in Task
      /\ \A a \in {"creating", "queued", "listing", "succeeding", "failing"} : [at |-> a] \in Task
  BY DEF Task
<1>5. \A r \in Runs, s \in Active \cup {"SUCCEEDED", "FAILED"} :
        [run EXCEPT ![r] = s] \in [Runs -> Active \cup {"NONE", "SUCCEEDED", "FAILED"}]
  BY <1>1
<1>6. ASSUME NEW r \in Runs, RequestSync(r) \/ CreateRun(r) \/ StartRun(r) \/ FailSync(r)
                             \/ FinishRun(r) \/ Die(r)
      PROVE  PeopleTypeOK' /\ directory' = directory
  <2>1. CASE RequestSync(r)
    BY <1>1, <1>3, <1>4, <2>1 DEF RequestSync
  <2>2. CASE CreateRun(r)
    BY <1>3, <1>4, <1>5, <2>2 DEF CreateRun, Active
  <2>3. CASE StartRun(r)
    BY <1>3, <1>4, <1>5, <2>3 DEF StartRun, Active
  <2>4. CASE FailSync(r)
    BY <1>1, <1>3, <1>4, <2>4 DEF FailSync
  <2>5. CASE FinishRun(r)
    BY <1>3, <1>4, <1>5, <2>5 DEF FinishRun
  <2>6. CASE Die(r)
    BY <1>1, <1>3, <1>4, <2>6 DEF Die
  <2> QED  BY <1>6, <2>1, <2>2, <2>3, <2>4, <2>5, <2>6
<1>7. ASSUME NEW r \in Runs, ListActive(r)
      PROVE  PeopleTypeOK' /\ directory' = directory
  <2> DEFINE list == [e \in Staff |-> IF Listable(hr[e]) THEN hr[e] ELSE None]
             t == [at |-> "loading", list |-> list]
  <2>1. list \in [Staff -> Fact \cup {None}]
    BY <1>1
  <2>2. Goto(r, t) /\ UNCHANGED <<hr, directory, run, changes>>
    BY <1>7 DEF ListActive
  <2> HIDE DEF list
  <2>3. t \in Task
    BY <2>1 DEF Task
  <2> QED  BY <1>1, <1>3, <2>2, <2>3
<1>8. ASSUME NEW r \in Runs, LoadRows(r)
      PROVE  PeopleTypeOK' /\ directory' = directory
  <2> DEFINE t == [at |-> "writing", list |-> task[r].list, loaded |-> directory]
  <2>1. Goto(r, t) /\ UNCHANGED <<hr, directory, run, changes>> /\ task[r].at = "loading"
    BY <1>8 DEF LoadRows
  <2>2. task[r].list \in [Staff -> Fact \cup {None}]
    BY <1>1, <2>1, TaskType
  <2>3. t \in Task
    BY <1>1, <2>2 DEF Task
  <2> QED  BY <1>1, <1>3, <2>1, <2>3
<1>9. ASSUME NEW r \in Runs, CommitSync(r)
      PROVE  PeopleTypeOK' /\ \A e \in Staff : directory[e] # None => directory'[e] # None
  <2> DEFINE t == task[r]
  <2>1. /\ ~Collides(r) /\ directory' = [e \in Staff |-> Upserted(t, e)]
        /\ Goto(r, [at |-> "succeeding"]) /\ UNCHANGED <<hr, run, changes>>
        /\ t.list \in [Staff -> Fact \cup {None}] /\ t.loaded \in [Staff -> Fact \cup {None}]
    BY <1>1, <1>9, TaskType DEF CommitSync
  <2>2. ASSUME NEW e \in Staff
        PROVE  /\ Upserted(t, e) \in Fact \cup {None}
               /\ directory[e] # None => Upserted(t, e) # None
    <3>1. CASE t.list[e] = None
      <4>1. Upserted(t, e) = directory[e]
        BY <3>1, Zenon DEF Upserted
      <4> QED  BY <1>1, <4>1
    <3>2. CASE t.list[e] # None /\ directory[e] = None
      <4>1. Upserted(t, e) = t.list[e]
        BY <3>2, Zenon DEF Upserted
      <4> QED  BY <2>1, <3>2, <4>1
    <3>3. CASE t.list[e] # None /\ directory[e] # None
      <4>1. Upserted(t, e) = Written(directory[e], t.loaded[e], t.list[e])
        BY <3>3, Zenon DEF Upserted
      <4>2. t.loaded[e] # None
        BY <2>1, <3>3 DEF Collides
      <4>3. directory[e] \in Fact /\ t.loaded[e] \in Fact /\ t.list[e] \in Fact
        BY <1>1, <2>1, <3>3, <4>2
      <4>4. Upserted(t, e) \in Fact
        BY <4>1, <4>3, WrittenFact
      <4> QED  BY <4>4, NoneIsNoFact
    <3> QED  BY <3>1, <3>2, <3>3
  <2>3. directory' \in [Staff -> Fact \cup {None}]
    BY <2>1, <2>2
  <2>4. task' \in [Runs -> Task]
    BY <1>1, <1>4, <2>1 DEF Goto
  <2> QED  BY <1>1, <2>1, <2>2, <2>3, <2>4 DEF PeopleTypeOK
<1> QED  BY <1>2, <1>6, <1>7, <1>8, <1>9 DEF PeopleNext, Sync, Work

-----------------------------------------------------------------------------
\* The suppliers

\* A row that is there differs from one that is not, and so do requests.
LEMMA AbsentIsNoRow ==
  /\ Absent \notin Supplier /\ Absent \notin Cake /\ Absent \notin Contact
  /\ NoRequest \notin Request /\ NoRequest.op = "none" /\ NoForm \notin Form
<1>1. \A x \in Supplier : "active" \in DOMAIN x
  BY DEF Supplier
<1>2. \A x \in Cake : "active" \in DOMAIN x
  BY DEF Cake
<1>3. \A x \in Contact : "active" \in DOMAIN x
  BY DEF Contact
<1>4. "active" \notin DOMAIN Absent
  BY DEF Absent
<1>5. \A r \in Request : r.op # "none"
  BY DEF Request
<1>6. \A f \in Form : "copy" \in DOMAIN f
  BY DEF Form
<1>7. "copy" \notin DOMAIN NoForm
  BY DEF NoForm
<1> QED  BY <1>1, <1>2, <1>3, <1>4, <1>5, <1>6, <1>7 DEF NoRequest

\* Requests by what they are about.
LEMMA RequestType ==
  ASSUME NEW r \in Request
  PROVE  /\ r.op = "supplier" =>
              /\ r.on \in Suppliers /\ r.loaded \in Supplier \cup {Absent} /\ r.copy \in Supplier
              /\ r.others \subseteq Suppliers /\ r.asDefault \in BOOLEAN
         /\ r.op = "cake" =>
              /\ r.on \in Suppliers /\ r.of \in Cakes /\ r.loaded \in Cake \cup {Absent}
              /\ r.copy \in Cake /\ r.others \subseteq Cakes /\ r.asDefault \in BOOLEAN
  BY DEF Request

\* What is a default.
LEMMA DefaultRows ==
  ASSUME SuppliersTypeOK
  PROVE  /\ Defaults(supplier) = {s \in Suppliers : supplier[s] # Absent /\ supplier[s].default}
         /\ \A s : Defaults(CakesOf(s)) = {c \in Cakes : cake[<<s, c>>] # Absent /\ cake[<<s, c>>].default}
  BY DEF SuppliersTypeOK, Defaults, CakesOf

\* The flushed row: a row, and a default only if it was one or the request
\* clears the others.
LEMMA FlushedSupplier ==
  ASSUME NEW row \in Supplier \cup {Absent}, NEW r, r.copy \in Supplier,
         r.loaded \in Supplier \cup {Absent}, r.loaded # Absent => row # Absent,
         r.loaded = Absent \/ (r.copy.default /\ ~r.loaded.default) => r.asDefault = r.copy.default
  PROVE  /\ Flush(row, r) \in Supplier
         /\ Flush(row, r).default => r.asDefault \/ (row # Absent /\ row.default)
<1>1. CASE r.loaded = Absent
  BY <1>1 DEF Flush, Supplier
<1>2. CASE r.loaded # Absent
  <2>1. row \in Supplier /\ r.loaded \in Supplier /\ row # Absent
    BY <1>2
  <2>2. DOMAIN row = {"active", "default", "lead"}
    BY <2>1 DEF Supplier
  <2> DEFINE n == [c \in DOMAIN row |-> IF r.copy[c] # r.loaded[c] THEN r.copy[c] ELSE row[c]]
  <2>3. Flush(row, r) = n
    BY <1>2 DEF Flush
  <2>4. n \in Supplier
    BY <2>1, <2>2 DEF Supplier
  <2>5. n.default = IF r.copy.default # r.loaded.default THEN r.copy.default ELSE row.default
    BY <2>2
  <2>6. r.copy.default \in BOOLEAN /\ r.loaded.default \in BOOLEAN
    BY <2>1 DEF Supplier
  <2> HIDE DEF n
  <2> QED  BY <2>1, <2>3, <2>4, <2>5, <2>6
<1> QED  BY <1>1, <1>2

\* The same of a cake.
LEMMA FlushedCake ==
  ASSUME NEW row \in Cake \cup {Absent}, NEW r, r.copy \in Cake,
         r.loaded \in Cake \cup {Absent}, r.loaded # Absent => row # Absent,
         r.loaded = Absent \/ (r.copy.default /\ ~r.loaded.default) => r.asDefault = r.copy.default
  PROVE  /\ Flush(row, r) \in Cake
         /\ Flush(row, r).default => r.asDefault \/ (row # Absent /\ row.default)
<1>1. CASE r.loaded = Absent
  BY <1>1 DEF Flush, Cake
<1>2. CASE r.loaded # Absent
  <2>1. row \in Cake /\ r.loaded \in Cake /\ row # Absent
    BY <1>2
  <2>2. DOMAIN row = {"active", "default"}
    BY <2>1 DEF Cake
  <2> DEFINE n == [c \in DOMAIN row |-> IF r.copy[c] # r.loaded[c] THEN r.copy[c] ELSE row[c]]
  <2>3. Flush(row, r) = n
    BY <1>2 DEF Flush
  <2>4. n \in Cake
    BY <2>1, <2>2 DEF Cake
  <2>5. n.default = IF r.copy.default # r.loaded.default THEN r.copy.default ELSE row.default
    BY <2>2
  <2>6. r.copy.default \in BOOLEAN /\ r.loaded.default \in BOOLEAN
    BY <2>1 DEF Cake
  <2> HIDE DEF n
  <2> QED  BY <2>1, <2>3, <2>4, <2>5, <2>6
<1> QED  BY <1>1, <1>2

\* What a request has read as the other defaults.
ReadsDefaults(r) == r # NoRequest /\ r.asDefault => OtherDefaults(r) \subseteq r.others

\* Steps that leave the rows alone: requests begin and end.
LEMMA RequestsStep ==
  ASSUME SuppliersInv, SuppliersTypeOK', UNCHANGED <<supplier, cake, overlapped>>,
         \A w \in Admins : \/ admin'[w] = admin[w]
                           \/ RequestTrue(admin'[w]) /\ ReadsDefaults(admin'[w])
  PROVE  SuppliersInv'
<1>1. \A w \in Admins : RequestTrue(admin'[w])
  BY DEF SuppliersInv
<1>2. \A w \in Admins : RequestTrue(admin[w])'
  BY <1>1 DEF RequestTrue
<1>3. /\ Defaults(supplier)' = Defaults(supplier)
      /\ \A s : Defaults(CakesOf(s))' = Defaults(CakesOf(s))
  BY DEF Defaults, CakesOf
<1>4. \A r : OtherDefaults(r)' = OtherDefaults(r)
  BY <1>3 DEF OtherDefaults
<1>5. DefaultsAreSingle'
  <2> SUFFICES ASSUME ~overlapped PROVE DefaultsAreSingle'
    BY DEF DefaultsAreSingle
  <2>1. ASSUME NEW w \in Admins, admin'[w] # NoRequest, admin'[w].asDefault
        PROVE  OtherDefaults(admin'[w]) \subseteq admin'[w].others
    BY <2>1 DEF SuppliersInv, DefaultsAreSingle, ReadsDefaults
  <2>2. ASSUME NEW w \in Admins, admin'[w] # NoRequest, admin'[w].asDefault
        PROVE  OtherDefaults(admin[w])' \subseteq admin'[w].others
    BY <2>1, <2>2, <1>3 DEF OtherDefaults
  <2> QED  BY <1>3, <2>2 DEF SuppliersInv, DefaultsAreSingle
<1> QED  BY <1>2, <1>5 DEF SuppliersInv

\* Requests, up to the clearing of the other defaults.
LEMMA EditSteps ==
  ASSUME SuppliersInv, NEW w \in Admins, NEW s \in Suppliers, NEW asDefault \in BOOLEAN
  PROVE  /\ \A copy \in Supplier : EditSupplier(w, s, copy, asDefault) => SuppliersInv'
         /\ \A c \in Cakes, copy \in Cake : EditCake(w, s, c, copy, asDefault) => SuppliersInv'
<1>1. SuppliersTypeOK /\ MaxEdits \in Nat
  BY EditsAssumption DEF SuppliersInv
<1>2. ASSUME NEW r \in Request, RequestTrue(r), ReadsDefaults(r), Enter(w, r)
      PROVE  SuppliersInv'
  <2>1. /\ admin' = [admin EXCEPT ![w] = r] /\ edits' \in 0 .. MaxEdits
        /\ UNCHANGED <<supplier, cake, location, overlapped>>
    BY <1>1, <1>2 DEF Enter, SuppliersTypeOK
  <2>2. SuppliersTypeOK'
    BY <1>1, <2>1 DEF SuppliersTypeOK
  <2>3. \A v \in Admins : admin'[v] = IF v = w THEN r ELSE admin[v]
    BY <1>1, <2>1 DEF SuppliersTypeOK
  <2> QED  BY <1>2, <2>1, <2>2, <2>3, RequestsStep
<1>3. ASSUME NEW copy \in Supplier, EditSupplier(w, s, copy, asDefault)
      PROVE  SuppliersInv'
  <2> DEFINE others == Others(supplier, s, asDefault)
             r == [op |-> "supplier", on |-> s, loaded |-> supplier[s], copy |-> copy,
                   others |-> others, asDefault |-> asDefault]
  <2>1. /\ asDefault => copy.default
        /\ supplier[s] = Absent \/ (copy.default /\ ~supplier[s].default) => asDefault = copy.default
        /\ Enter(w, r)
    BY <1>3 DEF EditSupplier
  <2>2. others = IF asDefault THEN Defaults(supplier) \ {s} ELSE {}
    BY DEF Others
  <2>3. others \in SUBSET Suppliers /\ \A t \in others : t # s /\ supplier[t] # Absent
    BY <1>1, <2>2, DefaultRows
  <2>4. supplier[s] \in Supplier \cup {Absent}
    BY <1>1 DEF SuppliersTypeOK
  <2> HIDE DEF others
  <2>5. r \in Request
    BY <2>3, <2>4 DEF Request
  <2>6. /\ r.op = "supplier" /\ r.on = s /\ r.loaded = supplier[s] /\ r.copy = copy
        /\ r.others = others /\ r.asDefault = asDefault
    OBVIOUS
  <2> HIDE DEF r
  <2>7. RequestTrue(r)
    BY <2>1, <2>3, <2>6 DEF RequestTrue
  <2>8. ReadsDefaults(r)
    BY <2>2, <2>6 DEF ReadsDefaults, OtherDefaults
  <2> QED  BY <1>2, <2>1, <2>5, <2>7, <2>8
<1>4. ASSUME NEW c \in Cakes, NEW copy \in Cake, EditCake(w, s, c, copy, asDefault)
      PROVE  SuppliersInv'
  <2> DEFINE others == Others(CakesOf(s), c, asDefault)
             r == [op |-> "cake", on |-> s, of |-> c, loaded |-> cake[<<s, c>>], copy |-> copy,
                   others |-> others, asDefault |-> asDefault]
  <2>1. /\ asDefault => copy.default
        /\ cake[<<s, c>>] = Absent \/ (copy.default /\ ~cake[<<s, c>>].default)
             => asDefault = copy.default
        /\ Enter(w, r)
    BY <1>4 DEF EditCake
  <2>2. others = IF asDefault THEN Defaults(CakesOf(s)) \ {c} ELSE {}
    BY DEF Others
  <2>3. others \in SUBSET Cakes /\ \A d \in others : d # c /\ cake[<<s, d>>] # Absent
    BY <1>1, <2>2, DefaultRows
  <2>4. cake[<<s, c>>] \in Cake \cup {Absent}
    BY <1>1 DEF SuppliersTypeOK
  <2> HIDE DEF others
  <2>5. r \in Request
    BY <2>3, <2>4 DEF Request
  <2>6. /\ r.op = "cake" /\ r.on = s /\ r.of = c /\ r.loaded = cake[<<s, c>>] /\ r.copy = copy
        /\ r.others = others /\ r.asDefault = asDefault
    OBVIOUS
  <2> HIDE DEF r
  <2>7. RequestTrue(r)
    BY <2>1, <2>3, <2>6 DEF RequestTrue
  <2>8. ReadsDefaults(r)
    BY <2>2, <2>6 DEF ReadsDefaults, OtherDefaults
  <2> QED  BY <1>2, <2>1, <2>5, <2>7, <2>8
<1> QED  BY <1>3, <1>4

\* No rival: nobody else who sets a default there is under way.
LEMMA NoRival ==
  ASSUME NEW w \in Admins, ~Rivals(w), admin[w].asDefault, NEW v \in Admins \ {w},
         admin[v].asDefault, admin[v].op = admin[w].op
  PROVE  admin[w].op = "cake" /\ admin[v].on # admin[w].on
  BY DEF Rivals

\* The commit of a supplier.
LEMMA CommitSupplierStep ==
  ASSUME SuppliersInv, NEW w \in Admins, CommitSupplier(w)
  PROVE  SuppliersInv'
<1> DEFINE r == admin[w]
           n == Flush(supplier[r.on], r)
<1>1. /\ SuppliersTypeOK /\ r \in Request /\ RequestTrue(r) /\ r # NoRequest /\ r.op = "supplier"
      /\ supplier \in [Suppliers -> Supplier \cup {Absent}]
      /\ admin \in [Admins -> Request \cup {NoRequest}]
  BY AbsentIsNoRow DEF CommitSupplier, SuppliersInv, SuppliersTypeOK
<1>2. /\ r.on \in Suppliers /\ r.loaded \in Supplier \cup {Absent} /\ r.copy \in Supplier
      /\ r.others \subseteq Suppliers /\ r.asDefault \in BOOLEAN
  BY <1>1, RequestType
<1>3. /\ r.loaded = Absent \/ (r.copy.default /\ ~r.loaded.default) => r.asDefault = r.copy.default
      /\ r.loaded # Absent => supplier[r.on] # Absent
      /\ \A s \in r.others : s # r.on /\ supplier[s] # Absent
  BY <1>1 DEF RequestTrue
<1>4. /\ overlapped' = (overlapped \/ Rivals(w)) /\ overlapped \in BOOLEAN
      /\ admin' = [admin EXCEPT ![w] = NoRequest]
      /\ UNCHANGED <<cake, location, edits>>
  BY <1>1 DEF CommitSupplier, Leave, SuppliersTypeOK
<1>5. supplier' = [s \in Suppliers |->
           CASE s = r.on     -> Flush(supplier[s], r)
             [] s \in r.others -> [supplier[s] EXCEPT !.default = FALSE]
             [] OTHER        -> supplier[s]]
  BY DEF CommitSupplier
<1>6. supplier[r.on] \in Supplier \cup {Absent}
  BY <1>1, <1>2
<1> HIDE DEF r
<1>7. /\ n \in Supplier
      /\ n.default => r.asDefault \/ (supplier[r.on] # Absent /\ supplier[r.on].default)
  BY <1>2, <1>3, <1>6, FlushedSupplier
<1> HIDE DEF n
<1>8. ASSUME NEW s \in Suppliers
      PROVE  /\ s = r.on => supplier'[s] = n
             /\ s # r.on /\ s \in r.others => supplier'[s] = [supplier[s] EXCEPT !.default = FALSE]
             /\ s # r.on /\ s \notin r.others => supplier'[s] = supplier[s]
  <2>1. supplier'[s] =
           CASE s = r.on     -> Flush(supplier[s], r)
             [] s \in r.others -> [supplier[s] EXCEPT !.default = FALSE]
             [] OTHER        -> supplier[s]
    BY <1>5
  <2>2. CASE s = r.on
    BY <1>3, <2>1, <2>2, Zenon DEF n
  <2>3. CASE s # r.on /\ s \in r.others
    BY <2>1, <2>3, Zenon
  <2>4. CASE s # r.on /\ s \notin r.others
    BY <2>1, <2>4, Zenon
  <2> QED  BY <2>2, <2>3, <2>4
<1>9. ASSUME NEW s \in Suppliers
      PROVE  /\ supplier'[s] \in Supplier \cup {Absent}
             /\ supplier[s] # Absent => supplier'[s] # Absent
             /\ s # r.on => (supplier'[s] # Absent /\ supplier'[s].default <=>
                              s \notin r.others /\ supplier[s] # Absent /\ supplier[s].default)
  <2>1. CASE s = r.on
    BY <1>7, <1>8, <2>1, AbsentIsNoRow
  <2>2. CASE s # r.on /\ s \in r.others
    <3>1. supplier[s] \in Supplier
      BY <1>1, <1>3, <2>2
    <3>2. [supplier[s] EXCEPT !.default = FALSE] \in Supplier
          /\ ~[supplier[s] EXCEPT !.default = FALSE].default
      BY <3>1 DEF Supplier
    <3>3. supplier'[s] \in Supplier /\ ~supplier'[s].default
      BY <1>8, <2>2, <3>2
    <3> QED  BY <2>2, <3>3, AbsentIsNoRow
  <2>3. CASE s # r.on /\ s \notin r.others
    BY <1>1, <1>8, <2>3
  <2> QED  BY <2>1, <2>2, <2>3
<1>10. SuppliersTypeOK'
  <2>1. supplier' \in [Suppliers -> Supplier \cup {Absent}]
    <3>1. supplier' = [s \in Suppliers |-> supplier'[s]]
      BY <1>5
    <3> QED  BY <1>9, <3>1
  <2> QED  BY <1>1, <1>4, <2>1 DEF SuppliersTypeOK
<1>11. \A v \in Admins : admin'[v] = IF v = w THEN NoRequest ELSE admin[v]
  BY <1>1, <1>4
<1>12. ASSUME NEW v \in Admins
       PROVE  RequestTrue(admin[v])'
  <2>1. CASE v = w
    BY <1>11, <2>1 DEF RequestTrue
  <2>2. CASE v # w /\ admin[v] # NoRequest
    <3>1. admin'[v] = admin[v] /\ admin[v] \in Request /\ RequestTrue(admin[v])
      BY <1>1, <1>11, <2>2 DEF SuppliersInv
    <3>2. admin[v].op = "supplier" => admin[v].on \in Suppliers /\ admin[v].others \subseteq Suppliers
      BY <3>1, RequestType
    <3> QED  BY <1>4, <1>9, <2>2, <3>1, <3>2 DEF RequestTrue
  <2>3. CASE v # w /\ admin[v] = NoRequest
    BY <1>11, <2>3 DEF RequestTrue
  <2> QED  BY <2>1, <2>2, <2>3
<1>13. DefaultsAreSingle'
  <2> SUFFICES ASSUME ~overlapped, ~Rivals(w) PROVE DefaultsAreSingle'
    BY <1>4 DEF DefaultsAreSingle
  <2> DEFINE D == Defaults(supplier)
  <2>1. /\ \A s, t \in D : s = t
        /\ \A v \in Admins : admin[v] # NoRequest /\ admin[v].asDefault
                               => OtherDefaults(admin[v]) \subseteq admin[v].others
    BY DEF SuppliersInv, DefaultsAreSingle
  <2>2. /\ D = {s \in Suppliers : supplier[s] # Absent /\ supplier[s].default}
        /\ D' = {s \in Suppliers : supplier'[s] # Absent /\ supplier'[s].default}
    <3>1. SuppliersTypeOK' => DOMAIN supplier' = Suppliers
      BY DEF SuppliersTypeOK
    <3> QED  BY <1>1, <1>10, <3>1, DefaultRows DEF Defaults
  <2>3. r.asDefault => D' \subseteq {r.on}
    <3>1. r.asDefault => D \ {r.on} \subseteq r.others
      BY <1>1, <2>1 DEF OtherDefaults, r
    <3> HIDE DEF D
    <3> QED  BY <1>9, <2>2, <3>1
  <2>4. ~r.asDefault => D' \subseteq D
    <3>1. r.on \in D' /\ ~r.asDefault => r.on \in D
      BY <1>2, <1>7, <1>8, <2>2
    <3> HIDE DEF D
    <3> QED  BY <1>9, <2>2, <3>1
  <2>5. \A s : Defaults(CakesOf(s))' = Defaults(CakesOf(s))
    BY <1>4 DEF Defaults, CakesOf
  <2>6. ASSUME NEW v \in Admins, admin'[v] # NoRequest, admin'[v].asDefault
        PROVE  OtherDefaults(admin[v])' \subseteq admin'[v].others
    <3>1. v # w /\ admin'[v] = admin[v] /\ OtherDefaults(admin[v]) \subseteq admin[v].others
      BY <1>11, <2>1, <2>6
    <3>2. CASE admin[v].op = "supplier"
      <4>1. ~r.asDefault
        BY <1>1, <2>6, <3>1, <3>2, NoRival DEF r
      <4> QED  BY <2>4, <3>1, <3>2, <4>1 DEF OtherDefaults
    <3>3. CASE admin[v].op # "supplier"
      BY <2>5, <3>1, <3>3 DEF OtherDefaults
    <3> QED  BY <3>2, <3>3
  <2>7. \A s, t \in D' : s = t
    <3> HIDE DEF D
    <3> QED  BY <1>2, <2>1, <2>3, <2>4
  <2>8. \A s \in Suppliers : \A c, d \in Defaults(CakesOf(s))' : c = d
    BY <2>5 DEF SuppliersInv, DefaultsAreSingle
  <2> QED  BY <2>6, <2>7, <2>8 DEF DefaultsAreSingle
<1> QED  BY <1>10, <1>12, <1>13 DEF SuppliersInv

\* The commit of a cake.
LEMMA CommitCakeStep ==
  ASSUME SuppliersInv, NEW w \in Admins, CommitCake(w)
  PROVE  SuppliersInv'
<1> DEFINE r == admin[w]
           k == <<r.on, r.of>>
           n == Flush(cake[k], r)
<1>1. /\ SuppliersTypeOK /\ r \in Request /\ RequestTrue(r) /\ r # NoRequest /\ r.op = "cake"
      /\ cake \in [Suppliers \X Cakes -> Cake \cup {Absent}]
      /\ admin \in [Admins -> Request \cup {NoRequest}]
  BY AbsentIsNoRow DEF CommitCake, SuppliersInv, SuppliersTypeOK
<1>2. /\ r.on \in Suppliers /\ r.of \in Cakes /\ r.loaded \in Cake \cup {Absent} /\ r.copy \in Cake
      /\ r.others \subseteq Cakes /\ r.asDefault \in BOOLEAN
  BY <1>1, RequestType
<1>3. /\ r.loaded = Absent \/ (r.copy.default /\ ~r.loaded.default) => r.asDefault = r.copy.default
      /\ r.loaded # Absent => cake[k] # Absent
      /\ \A c \in r.others : c # r.of /\ cake[<<r.on, c>>] # Absent
  BY <1>1 DEF RequestTrue
<1>4. /\ overlapped' = (overlapped \/ Rivals(w)) /\ overlapped \in BOOLEAN
      /\ admin' = [admin EXCEPT ![w] = NoRequest]
      /\ UNCHANGED <<supplier, location, edits>>
  BY <1>1 DEF CommitCake, Leave, SuppliersTypeOK
<1>5. cake' = [i \in Suppliers \X Cakes |->
           CASE i = <<r.on, r.of>> -> Flush(cake[i], r)
             [] i[1] = r.on /\ i[2] \in r.others -> [cake[i] EXCEPT !.default = FALSE]
             [] OTHER -> cake[i]]
  BY DEF CommitCake
<1>6. k \in Suppliers \X Cakes /\ cake[k] \in Cake \cup {Absent}
  BY <1>1, <1>2
<1> HIDE DEF r
<1>7. /\ n \in Cake
      /\ n.default => r.asDefault \/ (cake[k] # Absent /\ cake[k].default)
  BY <1>2, <1>3, <1>6, FlushedCake
<1> HIDE DEF n
<1>8. ASSUME NEW s \in Suppliers, NEW c \in Cakes
      PROVE  /\ s = r.on /\ c = r.of => cake'[<<s, c>>] = n
             /\ s = r.on /\ c # r.of /\ c \in r.others =>
                  cake'[<<s, c>>] = [cake[<<s, c>>] EXCEPT !.default = FALSE]
             /\ ~(s = r.on /\ (c = r.of \/ c \in r.others)) => cake'[<<s, c>>] = cake[<<s, c>>]
  <2> DEFINE i == <<s, c>>
  <2>1. i \in Suppliers \X Cakes /\ i[1] = s /\ i[2] = c /\ (i = <<r.on, r.of>> <=> s = r.on /\ c = r.of)
    OBVIOUS
  <2> HIDE DEF i
  <2>2. cake'[i] =
           CASE i = <<r.on, r.of>> -> Flush(cake[i], r)
             [] i[1] = r.on /\ i[2] \in r.others -> [cake[i] EXCEPT !.default = FALSE]
             [] OTHER -> cake[i]
    BY <1>5, <2>1
  <2>3. CASE i = <<r.on, r.of>>
    <3>1. ~(i[1] = r.on /\ i[2] \in r.others)
      BY <1>3, <2>1, <2>3
    <3>2. cake'[i] = Flush(cake[i], r)
      BY <2>2, <2>3, <3>1, Zenon
    <3> QED  BY <2>1, <2>3, <3>2 DEF n, i
  <2>4. CASE i # <<r.on, r.of>> /\ i[1] = r.on /\ i[2] \in r.others
    <3>1. cake'[i] = [cake[i] EXCEPT !.default = FALSE]
      BY <2>2, <2>4, Zenon
    <3> QED  BY <2>1, <2>4, <3>1 DEF i
  <2>5. CASE i # <<r.on, r.of>> /\ ~(i[1] = r.on /\ i[2] \in r.others)
    <3>1. cake'[i] = cake[i]
      BY <2>2, <2>5, Zenon
    <3> QED  BY <2>1, <2>5, <3>1 DEF i
  <2> QED  BY <2>3, <2>4, <2>5
<1>9. ASSUME NEW s \in Suppliers, NEW c \in Cakes
      PROVE  /\ cake'[<<s, c>>] \in Cake \cup {Absent}
             /\ cake[<<s, c>>] # Absent => cake'[<<s, c>>] # Absent
             /\ ~(s = r.on /\ c = r.of) =>
                  (cake'[<<s, c>>] # Absent /\ cake'[<<s, c>>].default <=>
                     ~(s = r.on /\ c \in r.others) /\ cake[<<s, c>>] # Absent /\ cake[<<s, c>>].default)
  <2>1. CASE s = r.on /\ c = r.of
    BY <1>7, <1>8, <2>1, AbsentIsNoRow
  <2>2. CASE s = r.on /\ c # r.of /\ c \in r.others
    <3>1. cake[<<s, c>>] \in Cake
      BY <1>1, <1>3, <2>2
    <3> DEFINE m == [cake[<<s, c>>] EXCEPT !.default = FALSE]
    <3>2. m \in Cake /\ ~m.default
      BY <3>1 DEF Cake
    <3>3. cake'[<<s, c>>] = m
      BY <1>8, <2>2
    <3> HIDE DEF m
    <3> QED  BY <2>2, <3>2, <3>3, AbsentIsNoRow
  <2>3. CASE ~(s = r.on /\ (c = r.of \/ c \in r.others))
    BY <1>1, <1>8, <2>3
  <2> QED  BY <2>1, <2>2, <2>3
<1>10. SuppliersTypeOK'
  <2>1. cake' \in [Suppliers \X Cakes -> Cake \cup {Absent}]
    <3>1. cake' = [i \in Suppliers \X Cakes |-> cake'[i]]
      BY <1>5
    <3>2. \A i \in Suppliers \X Cakes : cake'[i] \in Cake \cup {Absent}
      <4> TAKE i \in Suppliers \X Cakes
      <4>1. PICK s \in Suppliers, c \in Cakes : i = <<s, c>>
        OBVIOUS
      <4> QED  BY <1>9, <4>1
    <3> QED  BY <3>1, <3>2
  <2> QED  BY <1>1, <1>4, <2>1 DEF SuppliersTypeOK
<1>11. \A v \in Admins : admin'[v] = IF v = w THEN NoRequest ELSE admin[v]
  BY <1>1, <1>4
<1>12. ASSUME NEW v \in Admins
       PROVE  RequestTrue(admin[v])'
  <2>1. CASE v = w
    BY <1>11, <2>1 DEF RequestTrue
  <2>2. CASE v # w /\ admin[v] # NoRequest
    <3>1. admin'[v] = admin[v] /\ admin[v] \in Request /\ RequestTrue(admin[v])
      BY <1>1, <1>11, <2>2 DEF SuppliersInv
    <3>2. admin[v].op = "cake" =>
            admin[v].on \in Suppliers /\ admin[v].of \in Cakes /\ admin[v].others \subseteq Cakes
      BY <3>1, RequestType
    <3> QED  BY <1>4, <1>9, <2>2, <3>1, <3>2 DEF RequestTrue
  <2>3. CASE v # w /\ admin[v] = NoRequest
    BY <1>11, <2>3 DEF RequestTrue
  <2> QED  BY <2>1, <2>2, <2>3
<1>13. DefaultsAreSingle'
  <2> SUFFICES ASSUME ~overlapped, ~Rivals(w) PROVE DefaultsAreSingle'
    BY <1>4 DEF DefaultsAreSingle
  <2> DEFINE D(s) == {c \in Cakes : cake[<<s, c>>] # Absent /\ cake[<<s, c>>].default}
             E(s) == {c \in Cakes : cake'[<<s, c>>] # Absent /\ cake'[<<s, c>>].default}
  <2>1. \A s : Defaults(CakesOf(s)) = D(s) /\ Defaults(CakesOf(s))' = E(s)
    BY DEF Defaults, CakesOf
  <2>2. /\ \A s \in Suppliers : \A c, d \in D(s) : c = d
        /\ \A v \in Admins : admin[v] # NoRequest /\ admin[v].asDefault
                               => OtherDefaults(admin[v]) \subseteq admin[v].others
    BY <2>1 DEF SuppliersInv, DefaultsAreSingle
  <2>3. ASSUME NEW s \in Suppliers, s # r.on
        PROVE  E(s) = D(s)
    BY <1>9, <2>3
  <2>4. ASSUME r.asDefault
        PROVE  E(r.on) \subseteq {r.of}
    <3>1. OtherDefaults(r) = D(r.on) \ {r.of}
      BY <1>1, <2>1 DEF OtherDefaults
    <3>2. D(r.on) \ {r.of} \subseteq r.others
      BY <1>1, <2>2, <2>4, <3>1 DEF r
    <3> QED  BY <1>2, <1>9, <3>2
  <2>5. ASSUME ~r.asDefault
        PROVE  E(r.on) \subseteq D(r.on)
    <3>1. r.of \in E(r.on) => r.of \in D(r.on)
      BY <1>2, <1>7, <1>8, <2>5
    <3> QED  BY <1>2, <1>9, <3>1
  <2>6. Defaults(supplier)' = Defaults(supplier)
    BY <1>4 DEF Defaults
  <2>7. ASSUME NEW v \in Admins, admin'[v] # NoRequest, admin'[v].asDefault
        PROVE  OtherDefaults(admin[v])' \subseteq admin'[v].others
    <3>1. v # w /\ admin'[v] = admin[v] /\ OtherDefaults(admin[v]) \subseteq admin[v].others
      BY <1>11, <2>2, <2>7
    <3>2. CASE admin[v].op = "supplier"
      BY <2>6, <3>1, <3>2 DEF OtherDefaults
    <3>3. CASE admin[v].op # "supplier"
      <4> DEFINE a == admin[v]
      <4>1. a \in Request /\ a.op = "cake" /\ a.on \in Suppliers
        BY <1>1, <2>7, <3>1, <3>3, RequestType, AbsentIsNoRow DEF Request
      <4>2. a.on = r.on => ~r.asDefault
        BY <1>1, <2>7, <3>1, <4>1, NoRival DEF r
      <4>3. OtherDefaults(a) = D(a.on) \ {a.of} /\ OtherDefaults(admin[v])' = E(a.on) \ {a.of}
        <5>1. OtherDefaults(a) = D(a.on) \ {a.of}
          BY <2>1, <4>1 DEF OtherDefaults
        <5>2. PICK b : b = admin[v]
          OBVIOUS
        <5>3. OtherDefaults(admin[v])' = Defaults(CakesOf(b.on))' \ {b.of}
          BY <3>1, <4>1, <5>2 DEF OtherDefaults, CakesOf, Defaults
        <5> QED  BY <2>1, <5>1, <5>2, <5>3
      <4>4. E(a.on) \subseteq D(a.on)
        <5>1. CASE a.on = r.on
          BY <2>5, <4>2, <5>1
        <5>2. CASE a.on # r.on
          BY <2>3, <4>1, <5>2
        <5> QED  BY <5>1, <5>2
      <4> HIDE DEF D, E
      <4> QED  BY <3>1, <4>3, <4>4
    <3> QED  BY <3>2, <3>3
  <2>8. ASSUME NEW s \in Suppliers, NEW c \in E(s), NEW d \in E(s)
        PROVE  c = d
    <3> HIDE DEF D, E
    <3>1. CASE s = r.on /\ r.asDefault
      BY <2>4, <2>8, <3>1
    <3>2. CASE s = r.on /\ ~r.asDefault
      BY <2>2, <2>5, <2>8, <3>2
    <3>3. CASE s # r.on
      BY <2>2, <2>3, <2>8, <3>3
    <3> QED  BY <1>2, <3>1, <3>2, <3>3
  <2>9. \A s, t \in Defaults(supplier)' : s = t
    BY <2>6 DEF SuppliersInv, DefaultsAreSingle
  <2>10. \A s \in Suppliers : \A c, d \in Defaults(CakesOf(s))' : c = d
    <3> HIDE DEF D, E
    <3> QED  BY <2>1, <2>8
  <2> QED  BY <2>7, <2>9, <2>10 DEF DefaultsAreSingle
<1> QED  BY <1>10, <1>12, <1>13 DEF SuppliersInv

\* The rows of suppliers are what the invariant says of them whatever the
\* administrators do.
LEMMA SuppliersStep ==
  ASSUME SuppliersInv, SuppliersNext \/ UNCHANGED suppliers
  PROVE  SuppliersInv'
<1>1. SuppliersTypeOK /\ MaxEdits \in Nat
  BY EditsAssumption DEF SuppliersInv
<1>2. CASE UNCHANGED suppliers
  <2>1. SuppliersTypeOK' /\ UNCHANGED <<supplier, cake, overlapped>> /\ admin' = admin
    BY <1>1, <1>2 DEF suppliers, SuppliersTypeOK
  <2> QED  BY <2>1, RequestsStep
<1>3. ASSUME NEW w \in Admins, Drop(w)
      PROVE  SuppliersInv'
  <2>1. /\ admin' = [admin EXCEPT ![w] = NoRequest]
        /\ UNCHANGED <<supplier, cake, location, edits, overlapped>>
    BY <1>3 DEF Drop, Leave
  <2>2. SuppliersTypeOK'
    BY <1>1, <2>1 DEF SuppliersTypeOK
  <2>3. \A v \in Admins : admin'[v] = admin[v] \/ admin'[v] = NoRequest
    BY <1>1, <2>1 DEF SuppliersTypeOK
  <2> QED  BY <2>1, <2>2, <2>3, RequestsStep DEF RequestTrue, ReadsDefaults
<1>4. ASSUME NEW s \in Suppliers, NEW o \in Places, AddLocation(s, o)
      PROVE  SuppliersInv'
  <2>1. /\ location' = [location EXCEPT ![o] = s] /\ edits' \in 0 .. MaxEdits
        /\ UNCHANGED <<supplier, cake, overlapped, admin>>
    BY <1>1, <1>4 DEF AddLocation, SuppliersTypeOK
  <2>2. SuppliersTypeOK'
    BY <1>1, <2>1 DEF SuppliersTypeOK
  <2> QED  BY <2>1, <2>2, RequestsStep
<1> QED
  BY <1>2, <1>3, <1>4, EditSteps, CommitSupplierStep, CommitCakeStep DEF SuppliersNext

\* A set without two different elements has one at most.
LEMMA AtMostOne ==
  ASSUME NEW S, \A x, y \in S : x = y
  PROVE  IsFiniteSet(S) /\ Cardinality(S) <= 1 /\ (S # {} => Cardinality(S) = 1)
<1>1. CASE S = {}
  BY <1>1, FS_EmptySet
<1>2. CASE S # {}
  <2>1. PICK x : S = {x}
    BY <1>2
  <2>2. IsFiniteSet(S) /\ Cardinality(S) = 1
    BY <2>1, FS_Singleton, Zenon
  <2> QED  BY <1>2, <2>2
<1> QED  BY <1>1, <1>2

\* Whom an office leads to: suppliers there are, or none.
LEMMA ResolvedType ==
  ASSUME SuppliersTypeOK, NEW o
  PROVE  /\ Resolved(o) \subseteq Suppliers \cup {NoSupplier}
         /\ \A s \in Suppliers : DefaultCakes(s) \subseteq Cakes \cup {NoCake}
<1>1. ActiveSuppliers \subseteq Suppliers
  BY DEF ActiveSuppliers
<1>2. Resolved(o) \subseteq Suppliers \cup {NoSupplier}
  <2> DEFINE here     == {s \in ActiveSuppliers : o \in Places /\ location[o] = s}
             defaults == {s \in ActiveSuppliers : supplier[s].default}
             only     == Cardinality(ActiveSuppliers) = 1
  <2>1. Resolved(o) = CASE only -> ActiveSuppliers
                        [] ~only /\ here # {} -> here
                        [] ~only /\ here = {} /\ defaults # {} -> defaults
                        [] OTHER -> {NoSupplier}
    BY DEF Resolved
  <2>2. here \subseteq ActiveSuppliers /\ defaults \subseteq ActiveSuppliers
    OBVIOUS
  <2> HIDE DEF here, defaults, only
  <2>3. Resolved(o) \in {ActiveSuppliers, here, defaults, {NoSupplier}}
    BY <2>1, Zenon
  <2> QED  BY <1>1, <2>2, <2>3
<1>3. ASSUME NEW s \in Suppliers
      PROVE  DefaultCakes(s) \subseteq Cakes \cup {NoCake}
  <2> DEFINE offered  == {c \in Cakes : cake[<<s, c>>] # Absent /\ cake[<<s, c>>].active}
             defaults == {c \in offered : cake[<<s, c>>].default}
             one      == Cardinality(defaults) = 1
             only     == Cardinality(offered) = 1
  <2>1. DefaultCakes(s) = CASE one -> defaults [] ~one /\ only -> offered [] OTHER -> {NoCake}
    BY DEF DefaultCakes
  <2>2. offered \subseteq Cakes /\ defaults \subseteq Cakes
    OBVIOUS
  <2> HIDE DEF offered, defaults, one, only
  <2>3. DefaultCakes(s) \in {defaults, offered, {NoCake}}
    BY <2>1, Zenon
  <2> QED  BY <2>2, <2>3
<1> QED  BY <1>2, <1>3

\* One default at most is one resolution: an office has one supplier, and the
\* default is one.
LEMMA SinglesAreDetermined ==
  ASSUME SuppliersInv
  PROVE  ResolutionIsDetermined
<1> SUFFICES ASSUME ~overlapped
             PROVE  /\ \A o \in Places : Cardinality(Resolved(o)) = 1
                    /\ \A s \in Suppliers : Cardinality(Defaults(CakesOf(s))) <= 1
  BY DEF ResolutionIsDetermined
<1>1. /\ \A s, t \in Defaults(supplier) : s = t
      /\ \A s \in Suppliers : \A c, d \in Defaults(CakesOf(s)) : c = d
  BY DEF SuppliersInv, DefaultsAreSingle
<1>2. ASSUME NEW s \in Suppliers
      PROVE  Cardinality(Defaults(CakesOf(s))) <= 1
  BY <1>1, AtMostOne
<1>3. ASSUME NEW o \in Places
      PROVE  Cardinality(Resolved(o)) = 1
  <2> DEFINE here     == {s \in ActiveSuppliers : o \in Places /\ location[o] = s}
             defaults == {s \in ActiveSuppliers : supplier[s].default}
             only     == Cardinality(ActiveSuppliers) = 1
  <2>1. Resolved(o) = CASE only -> ActiveSuppliers
                        [] ~only /\ here # {} -> here
                        [] ~only /\ here = {} /\ defaults # {} -> defaults
                        [] OTHER -> {NoSupplier}
    BY DEF Resolved
  <2>2. \A s, t \in here : s = t
    OBVIOUS
  <2>3. \A s, t \in defaults : s = t
    BY <1>1, DefaultRows DEF SuppliersInv, ActiveSuppliers
  <2>4. /\ here # {} => Cardinality(here) = 1
        /\ defaults # {} => Cardinality(defaults) = 1
    <3> HIDE DEF here, defaults
    <3> QED  BY <2>2, <2>3, AtMostOne
  <2>5. Cardinality({NoSupplier}) = 1
    BY FS_Singleton
  <2>6. CASE only
    BY <2>1, <2>6
  <2>7. CASE ~only
    <3> HIDE DEF here, defaults, only
    <3>1. \/ here # {} /\ Resolved(o) = here
          \/ defaults # {} /\ Resolved(o) = defaults
          \/ Resolved(o) = {NoSupplier}
      BY <2>1, <2>7, Zenon
    <3> QED  BY <2>4, <2>5, <3>1
  <2> QED  BY <2>6, <2>7
<1> QED  BY <1>2, <1>3

-----------------------------------------------------------------------------
\* The supplier portal

\* The saved row: a row of a contact, active as the request asked for or, if
\* it did not ask, as it was.
LEMMA SavedContact ==
  ASSUME NEW u \in Contacts, NEW f \in Form, contact[u] \in Contact \cup {Absent},
         f.loaded # Absent => contact[u] # Absent
  PROVE  /\ Saved(u, f) \in Contact
         /\ f.loaded = Absent => Saved(u, f).active = f.copy.active
         /\ f.loaded # Absent => Saved(u, f).active =
              IF f.copy.active # f.loaded.active THEN f.copy.active ELSE contact[u].active
<1>1. f.copy \in Contact /\ f.loaded \in Contact \cup {Absent}
  BY DEF Form
<1>2. CASE f.loaded = Absent
  BY <1>1, <1>2 DEF Saved
<1>3. CASE f.loaded # Absent
  <2>1. contact[u] \in Contact /\ f.loaded \in Contact
    BY <1>1, <1>3
  <2>2. DOMAIN f.copy = {"supplier", "active", "mail", "oid"}
    BY <1>1 DEF Contact
  <2> DEFINE n == [c \in DOMAIN f.copy |-> IF f.copy[c] # f.loaded[c] THEN f.copy[c] ELSE contact[u][c]]
  <2>3. Saved(u, f) = n
    BY <1>3 DEF Saved
  <2>4. n \in Contact
    BY <1>1, <2>1, <2>2 DEF Contact
  <2>5. n.active = IF f.copy.active # f.loaded.active THEN f.copy.active ELSE contact[u].active
    BY <2>2
  <2> HIDE DEF n
  <2> QED  BY <1>3, <2>3, <2>4, <2>5
<1> QED  BY <1>2, <1>3

\* An administrator opens a form on a row as it is.
LEMMA OpenStep ==
  ASSUME SuppliersInv, PortalInv, NEW w \in Admins, NEW u \in Contacts, NEW copy \in Contact,
         Open(w, u, copy)
  PROVE  SuppliersInv' /\ PortalInv'
<1>1. SuppliersTypeOK /\ PortalTypeOK /\ MaxEdits \in Nat
  BY EditsAssumption DEF SuppliersInv, PortalInv
<1> DEFINE f == [on |-> u, loaded |-> contact[u], copy |-> copy]
<1>2. /\ form' = [form EXCEPT ![w] = f] /\ edits' \in 0 .. MaxEdits
      /\ UNCHANGED <<supplier, cake, location, admin, overlapped, contact, signedIn, visit, off>>
  BY <1>1 DEF Open, SuppliersTypeOK
<1>3. SuppliersInv'
  <2>1. SuppliersTypeOK'
    BY <1>1, <1>2 DEF SuppliersTypeOK
  <2> QED  BY <1>2, <2>1, RequestsStep
<1>4. f \in Form
  BY <1>1 DEF PortalTypeOK, Form
<1>5. PortalTypeOK'
  BY <1>1, <1>2, <1>4 DEF PortalTypeOK
<1>6. f.on = u /\ f.loaded = contact[u]
  OBVIOUS
<1> HIDE DEF f
<1>7. \A v \in Admins : form'[v] = IF v = w THEN f ELSE form[v]
  BY <1>1, <1>2 DEF PortalTypeOK
<1>8. \A v \in Admins :
        form'[v] # NoForm /\ form'[v].loaded # Absent => contact[form'[v].on] # Absent
  BY <1>6, <1>7 DEF PortalInv
<1>9. PortalInv'
  BY <1>2, <1>5, <1>8 DEF PortalInv, Registered
<1> QED  BY <1>3, <1>9

\* An administrator's request saves its row.
LEMMA CommitContactStep ==
  ASSUME PortalInv, NEW w \in Admins, CommitContact(w)
  PROVE  PortalInv'
<1> DEFINE f == form[w]
           u == f.on
<1>1. /\ PortalTypeOK /\ f \in Form /\ f # NoForm
  BY DEF PortalInv, PortalTypeOK, CommitContact
<1>2. /\ contact \in [Contacts -> Contact \cup {Absent}] /\ off \subseteq Contacts
      /\ form \in [Admins -> Form \cup {NoForm}] /\ signedIn \subseteq Contacts
  BY <1>1 DEF PortalTypeOK
<1>3. u \in Contacts /\ f.copy \in Contact /\ f.loaded \in Contact \cup {Absent}
  BY <1>1 DEF Form
<1>4. f.loaded # Absent => contact[u] # Absent
  BY <1>1 DEF PortalInv
<1>5. /\ contact' = [contact EXCEPT ![u] = Saved(u, f)]
      /\ off' = CASE f.loaded # Absent /\ f.copy.active = f.loaded.active -> off
                  [] f.copy.active /\ (f.loaded = Absent \/ ~f.loaded.active) -> off \ {u}
                  [] OTHER -> off \cup {u}
      /\ form' = [form EXCEPT ![w] = NoForm]
      /\ UNCHANGED <<signedIn, visit>>
      /\ f.loaded = Absent => contact[u] = Absent
  BY DEF CommitContact, Close
<1>6. contact[u] \in Contact \cup {Absent}
  BY <1>2, <1>3
<1> HIDE DEF f
<1>7. /\ Saved(u, f) \in Contact
      /\ f.loaded = Absent => Saved(u, f).active = f.copy.active
      /\ f.loaded # Absent => Saved(u, f).active =
           IF f.copy.active # f.loaded.active THEN f.copy.active ELSE contact[u].active
  BY <1>1, <1>3, <1>4, <1>6, SavedContact
<1>8. PICK n : n = Saved(u, f)
  OBVIOUS
<1>9. /\ n \in Contact /\ n # Absent
      /\ \A v \in Contacts : contact'[v] = IF v = u THEN n ELSE contact[v]
  BY <1>2, <1>3, <1>5, <1>7, <1>8, AbsentIsNoRow
<1> DEFINE same == f.loaded # Absent /\ f.copy.active = f.loaded.active
           on   == f.copy.active /\ (f.loaded = Absent \/ ~f.loaded.active)
<1>10. /\ same => off' = off
       /\ ~same /\ on => off' = off \ {u}
       /\ ~same /\ ~on => off' = off \cup {u}
  <2>1. off' = CASE same -> off [] on -> off \ {u} [] OTHER -> off \cup {u}
    BY <1>5
  <2>2. ~(same /\ on)
    OBVIOUS
  <2> HIDE DEF same, on
  <2>3. same => off' = off
    BY <2>1, <2>2, Zenon
  <2>4. ~same /\ on => off' = off \ {u}
    BY <2>1, Zenon
  <2>5. ~same /\ ~on => off' = off \cup {u}
    BY <2>1, Zenon
  <2> QED  BY <2>3, <2>4, <2>5
<1>11. PortalTypeOK'
  <2>1. off' \subseteq Contacts
    BY <1>2, <1>3, <1>10
  <2>2. contact' \in [Contacts -> Contact \cup {Absent}]
    BY <1>2, <1>3, <1>5, <1>7
  <2> QED  BY <1>1, <1>5, <2>1, <2>2 DEF PortalTypeOK
<1>12. \A v \in Admins :
         form'[v] # NoForm /\ form'[v].loaded # Absent => contact'[form'[v].on] # Absent
  <2> SUFFICES ASSUME NEW v \in Admins, form'[v] # NoForm, form'[v].loaded # Absent
               PROVE  contact'[form'[v].on] # Absent
    OBVIOUS
  <2>1. form'[v] = form[v] /\ form[v] \in Form
    BY <1>2, <1>5
  <2>2. form[v].on \in Contacts /\ contact[form[v].on] # Absent
    BY <2>1 DEF PortalInv, Form
  <2> QED  BY <1>9, <2>1, <2>2
<1>13. signedIn' \subseteq Registered'
  BY <1>2, <1>5, <1>9 DEF PortalInv, Registered
<1>14. ASSUME NEW v \in off'
       PROVE  contact'[v] # Absent /\ ~contact'[v].active
  <2>1. \A x \in off : contact[x] # Absent /\ ~contact[x].active
    BY DEF PortalInv
  <2>2. CASE v # u
    <3>1. v \in off
      BY <1>10, <1>14, <2>2
    <3> QED  BY <1>2, <1>9, <2>1, <2>2, <3>1
  <2>3. CASE v = u /\ same
    <3>1. u \in off /\ ~contact[u].active
      BY <1>10, <1>14, <2>1, <2>3
    <3> QED  BY <1>3, <1>7, <1>8, <1>9, <2>3, <3>1
  <2>4. CASE v = u /\ ~same
    <3>1. ~on
      BY <1>10, <1>14, <2>4
    <3>2. ~f.copy.active
      <4>1. f.copy.active \in BOOLEAN /\ (f.loaded # Absent => f.loaded.active \in BOOLEAN)
        BY <1>3 DEF Contact
      <4> QED  BY <2>4, <3>1, <4>1
    <3>3. ~n.active
      BY <1>7, <1>8, <2>4, <3>2
    <3> QED  BY <1>3, <1>9, <2>4, <3>3
  <2> QED  BY <2>2, <2>3, <2>4
<1> QED  BY <1>11, <1>12, <1>13, <1>14 DEF PortalInv

\* The other steps of the portal.
LEMMA PortalStep ==
  ASSUME SuppliersInv, PortalInv, PortalNext
  PROVE  SuppliersInv' /\ PortalInv'
<1>1. PortalTypeOK
  BY DEF PortalInv
<1>2. ASSUME NEW w \in Admins, NEW u \in Contacts, NEW s \in Suppliers, NEW mail \in Mails,
             NEW active \in BOOLEAN, CreateContact(w, u, s, mail, active)
      PROVE  SuppliersInv' /\ PortalInv'
  <2> DEFINE copy == [supplier |-> s, active |-> active, mail |-> mail, oid |-> NoIdentity]
  <2>1. copy \in Contact
    BY DEF Contact
  <2>2. Open(w, u, copy)
    BY <1>2 DEF CreateContact
  <2> HIDE DEF copy
  <2> QED  BY <2>1, <2>2, OpenStep
<1>3. ASSUME NEW w \in Admins, NEW u \in Contacts, NEW copy \in Contact, UpdateContact(w, u, copy)
      PROVE  SuppliersInv' /\ PortalInv'
  BY <1>3, OpenStep DEF UpdateContact
<1>4. UNCHANGED suppliers => SuppliersInv'
  BY SuppliersStep
<1>5. ASSUME NEW w \in Admins, CommitContact(w)
      PROVE  SuppliersInv' /\ PortalInv'
  BY <1>4, <1>5, CommitContactStep DEF CommitContact, Close
<1>6. ASSUME NEW w \in Admins, DropContact(w)
      PROVE  SuppliersInv' /\ PortalInv'
  <2>1. /\ form' = [form EXCEPT ![w] = NoForm]
        /\ UNCHANGED <<suppliers, contact, signedIn, visit, off>>
    BY <1>6 DEF DropContact, Close
  <2>2. PortalTypeOK'
    BY <1>1, <2>1 DEF PortalTypeOK
  <2>3. \A v \in Admins : form'[v] = form[v] \/ form'[v] = NoForm
    BY <1>1, <2>1 DEF PortalTypeOK
  <2> QED  BY <1>4, <2>1, <2>2, <2>3 DEF PortalInv, Registered
<1>7. ASSUME NEW u \in Contacts, SignIn(u) \/ ExpireToken(u) \/ Visit(u) \/ Respond(u)
      PROVE  SuppliersInv' /\ PortalInv'
  <2>1. /\ UNCHANGED <<suppliers, contact, form, off>>
        /\ signedIn' \subseteq signedIn \cup {v \in Contacts : contact[v] # Absent}
    BY <1>7 DEF SignIn, ExpireToken, Visit, Respond
  <2>2. visit' \in [Contacts -> Suppliers \cup {NoSupplier}]
    <3>1. Visit(u) => contact[u].supplier \in Suppliers
      <4> SUFFICES ASSUME Visit(u) PROVE contact[u] \in Contact
        BY DEF Contact
      <4> QED  BY <1>1 DEF Visit, InScope, PortalInv, PortalTypeOK, Registered
    <3> QED  BY <1>1, <1>7, <3>1 DEF SignIn, ExpireToken, Visit, Respond, PortalTypeOK
  <2>3. PortalTypeOK'
    BY <1>1, <2>1, <2>2 DEF PortalTypeOK
  <2> QED  BY <1>4, <2>1, <2>3 DEF PortalInv, Registered
<1> QED
  BY <1>2, <1>3, <1>5, <1>6, <1>7 DEF PortalNext

\* Whoever is off is not active, and begins no request of the portal.
LEMMA OffIsOut ==
  ASSUME PortalInv, [PortalNext]_portal, NEW u \in off, visit'[u] # visit[u]
  PROVE  visit'[u] = NoSupplier
<1>1. visit \in [Contacts -> Suppliers \cup {NoSupplier}] /\ u \in Contacts /\ ~contact[u].active
  BY DEF PortalInv, PortalTypeOK
<1>2. ASSUME NEW v \in Contacts, Visit(v) \/ Respond(v)
      PROVE  visit'[u] = NoSupplier
  BY <1>1, <1>2 DEF Visit, Respond, InScope
<1>3. ~UNCHANGED visit
  OBVIOUS
<1> QED
  BY <1>2, <1>3 DEF portal, PortalNext, CreateContact, UpdateContact, Open, CommitContact,
    DropContact, Close, SignIn, ExpireToken

-----------------------------------------------------------------------------
\* The calendar and its orders

\* An order a scan makes is for the date it computed.
LEMMA OrdersType ==
  ASSUME SuppliersTypeOK, NEW f, NEW d, NEW occurrence \in Days
  PROVE  \A o \in Orders(f, occurrence, d) : o \in Order /\ o.date = occurrence
<1> DEFINE cakes(s) == IF s = NoSupplier THEN {NoCake} ELSE DefaultCakes(s)
           o(s, c) == [date |-> occurrence, status |-> InitialStatus(f, s, c, occurrence - d),
                       supplier |-> s, cake |-> c]
<1>1. ASSUME NEW x \in Orders(f, occurrence, d)
      PROVE  \E s \in Resolved(f.office) : \E c \in cakes(s) : x = o(s, c)
  BY DEF Orders
<1>2. ASSUME NEW s \in Resolved(f.office), NEW c \in cakes(s)
      PROVE  s \in Suppliers \cup {NoSupplier} /\ c \in Cakes \cup {NoCake}
  BY ResolvedType
<1>3. \A s, c : InitialStatus(f, s, c, occurrence - d)
                  \in {"PENDING_VERIFICATION", "ON_HOLD", "REQUIRES_ATTENTION"}
  BY DEF InitialStatus
<1>4. ASSUME NEW s \in Suppliers \cup {NoSupplier}, NEW c \in Cakes \cup {NoCake}
      PROVE  o(s, c) \in Order /\ o(s, c).date = occurrence
  BY <1>3 DEF Order
<1> HIDE DEF o, cakes
<1> QED  BY <1>1, <1>2, <1>4

\* A missing order is no order, and an idle scan none that runs.
LEMMA RowsDiffer == None \notin Order /\ IdleScan \notin Scan
<1>1. \A o \in Order : "date" \in DOMAIN o
  BY DEF Order
<1>2. "date" \notin DOMAIN None
  BY DEF None
<1>3. \A s \in Scan : "day" \in DOMAIN s
  BY DEF Scan
<1>4. "day" \notin DOMAIN IdleScan
  BY DEF IdleScan
<1> QED  BY <1>1, <1>2, <1>3, <1>4

\* It holds at first.
LEMMA CalendarStarts == Init => CalendarInv
<1> SUFFICES ASSUME Init PROVE CalendarInv
  OBVIOUS
<1>1. PeopleTypeOK
  <2>1. IdleTask \in Task
    BY DEF Task
  <2> QED  BY <2>1, ChangesAssumption DEF Init, PeopleInit, PeopleTypeOK
<1>2. SuppliersTypeOK
  <2>1. /\ supplier = [s \in Suppliers |-> Absent] /\ cake = [i \in Suppliers \X Cakes |-> Absent]
        /\ location = [o \in Places |-> NoSupplier] /\ admin = [w \in Admins |-> NoRequest]
        /\ edits = 0 /\ overlapped = FALSE
    BY DEF Init, SuppliersInit
  <2>2. edits \in 0 .. MaxEdits
    BY <2>1, EditsAssumption
  <2>3. cake \in [Suppliers \X Cakes -> Cake \cup {Absent}]
    BY <2>1, Zenon
  <2> QED  BY <2>1, <2>2, <2>3 DEF SuppliersTypeOK
<1>3. SuppliersInv
  <2>1. /\ supplier = [s \in Suppliers |-> Absent] /\ cake = [i \in Suppliers \X Cakes |-> Absent]
        /\ \A w \in Admins : admin[w] = NoRequest
    BY DEF Init, SuppliersInit
  <2>2. Defaults(supplier) = {} /\ \A s \in Suppliers : Defaults(CakesOf(s)) = {}
    BY <1>2, <2>1, DefaultRows
  <2> QED  BY <1>2, <2>1, <2>2 DEF SuppliersInv, RequestTrue, DefaultsAreSingle
<1>4. PortalInv
  BY DEF Init, PortalInit, PortalInv, PortalTypeOK
<1>5. today \in 0 .. LastDay /\ today \in Days /\ LastDay \in Nat /\ today \in Nat
  BY DayAssumption, DayHasYear, TodayInCalendar DEF Init, CalendarInit
<1>6. TypeOK
  BY <1>1, <1>2, <1>4, <1>5 DEF Init, CalendarInit, TypeOK, PortalInv
<1>7. PromisesKept
  <2>1. \A d \in Days : d \in Nat
    BY DayHasYear
  <2> QED  BY <1>5, <2>1 DEF Init, CalendarInit, PromisesKept
<1> QED
  BY <1>3, <1>4, <1>5, <1>6, <1>7 DEF Init, CalendarInit, CalendarInv, ScanTrue, OrdersTrue

\* The directory moves.
LEMMA PeopleKeep ==
  ASSUME CalendarInv, People
  PROVE  CalendarInv'
<1>1. /\ PeopleTypeOK'
      /\ \A e \in Staff : directory[e] # None => directory'[e] # None
  BY PeopleStep DEF CalendarInv, TypeOK, People
<1>2. /\ promised' = [e \in Staff |-> IF directory'[e] = directory[e] THEN promised[e] ELSE 0]
      /\ corrected' = corrected \cup
           {e \in Staff : directory[e] # None /\ directory'[e].birthday # directory[e].birthday}
      /\ UNCHANGED <<suppliers, portal, today, lookahead, scan, order>>
  BY DEF People
<1>3. TypeOK /\ SuppliersInv /\ PortalInv /\ today <= LastDay
  BY DEF CalendarInv
<1>4. SuppliersInv'
  BY <1>2, <1>3, SuppliersStep
<1>5. PortalInv'
  BY <1>2, <1>3 DEF portal, PortalInv, PortalTypeOK, Registered
<1>6. TypeOK'
  BY <1>1, <1>2, <1>3, <1>4, <1>5 DEF TypeOK, SuppliersInv, PortalInv
<1>7. \A e \in Staff : e \notin corrected' =>
        /\ e \notin corrected
        /\ directory[e] # None => directory'[e].birthday = directory[e].birthday
  BY <1>2
<1>8. ScanTrue'
  BY <1>1, <1>2, <1>7 DEF CalendarInv, ScanTrue
<1>9. OrdersTrue'
  BY <1>1, <1>2, <1>7 DEF CalendarInv, OrdersTrue
<1>10. PromisesKept'
  <2> SUFFICES ASSUME NEW e \in Staff, NEW d \in Days, today <= d, d < promised'[e],
                      directory'[e] # None, Possible(directory'[e].birthday),
                      Celebrated(directory'[e].birthday, d), Eligible(directory'[e], d)
               PROVE  order[<<e, YearOf(d)>>] # None
    BY <1>2 DEF PromisesKept
  <2>1. today \in Nat /\ d \in Nat
    BY <1>3, DayHasYear DEF TypeOK
  <2>2. promised'[e] # 0
    BY <2>1
  <2>3. directory'[e] = directory[e] /\ promised'[e] = promised[e]
    BY <1>2, <2>2
  <2> QED  BY <2>3 DEF CalendarInv, PromisesKept
<1> QED
  BY <1>2, <1>3, <1>4, <1>5, <1>6, <1>8, <1>9, <1>10 DEF CalendarInv

\* Administrators work.
LEMMA AdministrationKeeps ==
  ASSUME CalendarInv, Administration
  PROVE  CalendarInv'
<1>1. TypeOK /\ SuppliersInv /\ PortalInv /\ today <= LastDay
  BY DEF CalendarInv
<1>2. UNCHANGED people => PeopleTypeOK'
  BY <1>1 DEF people, PeopleTypeOK, TypeOK
<1>3. UNCHANGED portal => PortalInv'
  BY <1>1 DEF portal, PortalInv, PortalTypeOK, Registered
<1>4. /\ SuppliersInv' /\ PortalInv' /\ UNCHANGED people
      /\ UNCHANGED <<today, scan, order, promised, corrected>> /\ lookahead' \in Lookaheads
  <2>1. CASE SuppliersNext /\ UNCHANGED <<people, portal, birthday>>
    BY <1>1, <1>3, <2>1, SuppliersStep DEF birthday, TypeOK
  <2>2. CASE PortalNext /\ UNCHANGED <<people, birthday>>
    BY <1>1, <2>2, PortalStep DEF birthday, TypeOK
  <2>3. ASSUME NEW n \in Lookaheads, SetLookahead(n)
        PROVE  /\ SuppliersInv' /\ PortalInv' /\ UNCHANGED people
               /\ UNCHANGED <<today, scan, order, promised, corrected>> /\ lookahead' \in Lookaheads
    BY <1>1, <1>3, <2>3, SuppliersStep DEF SetLookahead
  <2> QED  BY <2>1, <2>2, <2>3 DEF Administration
<1>5. TypeOK'
  BY <1>1, <1>2, <1>4 DEF TypeOK, SuppliersInv, PortalInv
<1>6. directory' = directory
  BY <1>4 DEF people
<1> QED
  BY <1>1, <1>4, <1>5, <1>6 DEF CalendarInv, ScanTrue, OrdersTrue, PromisesKept

\* A day passes, a scan starts, passes over somebody or ends.
LEMMA OthersKeep ==
  ASSUME CalendarInv,
         NextDay \/ StartScan \/ EndScan \/ (\E e \in Staff : SkipEmployee(e)) \/ UNCHANGED vars
  PROVE  CalendarInv'
<1>1. TypeOK /\ SuppliersInv /\ PortalInv /\ today <= LastDay
  BY DEF CalendarInv
<1>2. UNCHANGED <<people, suppliers, portal, lookahead, order, promised, corrected>>
  BY DEF NextDay, StartScan, EndScan, SkipEmployee, vars, birthday
<1>3. PeopleTypeOK' /\ SuppliersInv' /\ PortalInv' /\ directory' = directory
  BY <1>1, <1>2, SuppliersStep
  DEF people, portal, PeopleTypeOK, TypeOK, PortalInv, PortalTypeOK, Registered
<1>4. today \in Nat /\ today \in Days /\ LastDay \in Nat
  BY <1>1, DayHasYear, DayAssumption DEF TypeOK
<1>5. today <= today' /\ today' <= LastDay /\ today' \in Days /\ today' \in Nat
  <2>1. today' \in Nat /\ today <= today' /\ today' <= LastDay
    BY <1>1, <1>4 DEF NextDay, StartScan, EndScan, SkipEmployee, vars, birthday
  <2> QED  BY <1>4, <2>1, TodayInCalendar
<1>6. scan' \in Scan \cup {IdleScan} /\ ScanTrue'
  <2>1. CASE UNCHANGED scan
    <3>1. scan # IdleScan => scan.day \in Nat
      BY <1>1, DayHasYear DEF TypeOK, Scan
    <3> QED  BY <1>1, <1>2, <1>3, <1>4, <1>5, <2>1, <3>1 DEF TypeOK, CalendarInv, ScanTrue
  <2>2. CASE StartScan
    <3> DEFINE n == [at |-> "scanning", day |-> today, ahead |-> lookahead, rows |-> directory,
                     left |-> {e \in Staff : directory[e] # None}]
    <3>1. scan' = n /\ today' = today
      BY <2>2 DEF StartScan
    <3>2. n \in Scan
      BY <1>1, <1>4 DEF Scan, TypeOK, PeopleTypeOK
    <3>3. /\ n.day = today /\ n.rows = directory
          /\ n.left = {e \in Staff : directory[e] # None}
      OBVIOUS
    <3> HIDE DEF n
    <3> QED  BY <1>3, <1>4, <3>1, <3>2, <3>3 DEF ScanTrue
  <2>3. CASE EndScan
    BY <2>3 DEF EndScan, ScanTrue
  <2>4. ASSUME NEW e \in Staff, SkipEmployee(e)
        PROVE  scan' \in Scan \cup {IdleScan} /\ ScanTrue'
    <3>1. scan \in Scan /\ scan # IdleScan /\ scan' = [scan EXCEPT !.left = @ \ {e}]
      BY <1>1, <2>4 DEF SkipEmployee, Done, TypeOK
    <3>2. /\ scan' \in Scan /\ scan'.day = scan.day /\ scan'.rows = scan.rows
          /\ scan'.left \subseteq scan.left
      BY <3>1 DEF Scan
    <3>3. today' = today
      BY <2>4 DEF SkipEmployee
    <3> QED  BY <1>2, <1>3, <3>1, <3>2, <3>3 DEF CalendarInv, ScanTrue
  <2>5. NextDay \/ UNCHANGED vars => UNCHANGED scan
    BY DEF NextDay, vars, birthday
  <2> QED  BY <2>1, <2>2, <2>3, <2>4, <2>5
<1>7. TypeOK'
  BY <1>1, <1>2, <1>3, <1>5, <1>6 DEF TypeOK, SuppliersInv, PortalInv
<1>8. OrdersTrue'
  BY <1>2, <1>3 DEF CalendarInv, OrdersTrue
<1>9. PromisesKept'
  <2> SUFFICES ASSUME NEW e \in Staff, NEW d \in Days, today' <= d
               PROVE  today <= d
    BY <1>2, <1>3 DEF CalendarInv, PromisesKept
  <2> QED  BY <1>4, <1>5, DayHasYear
<1> QED
  BY <1>3, <1>5, <1>6, <1>7, <1>8, <1>9 DEF CalendarInv

\* A scan takes an employee: it writes no order but that of the birthday it
\* computed, and writes over none.
LEMMA ScanWrites ==
  ASSUME CalendarInv, NEW e \in Staff, ScanEmployee(e)
  PROVE  \E f \in Fact : \E next \in Days :
           /\ f = scan.rows[e] /\ next = NextOccurrence(f.birthday, scan.day)
           /\ scan # IdleScan /\ e \in scan.left /\ Possible(f.birthday)
           /\ scan.day \in 0 .. LastDay /\ scan.day <= today /\ scan.ahead \in Nat
           /\ YearOf(next) \in Years /\ next = DayIn(f.birthday, YearOf(next))
           /\ order' \in [Staff \X Years -> Order \cup {None}]
           /\ \A k \in Staff \X Years :
                order'[k] # order[k] =>
                  k = <<e, YearOf(next)>> /\ order[k] = None /\ order'[k].date = next
           /\ InWindow(next, scan.day, scan.ahead) /\ Eligible(f, next)
                => order'[<<e, YearOf(next)>>] # None
           /\ \A d \in Staff \ {e} : promised'[d] = promised[d]
           /\ promised'[e] # promised[e] =>
                /\ directory[e] = f
                /\ promised'[e] = Horizon(next, scan.day, scan.ahead) + 1
           /\ promised' \in [Staff -> Nat]
<1>1. /\ TypeOK /\ SuppliersTypeOK /\ today <= LastDay /\ scan # IdleScan /\ scan \in Scan
      /\ e \in scan.left /\ Possible(scan.rows[e].birthday) /\ scan.day <= today
      /\ scan.rows[e] # None
  BY DEF CalendarInv, ScanEmployee, TypeOK, ScanTrue
<1>2. PICK f : f = scan.rows[e]
  OBVIOUS
<1>3. PICK next : next = NextOccurrence(f.birthday, scan.day)
  OBVIOUS
<1>4. /\ f \in Fact /\ f.birthday \in 1 .. YearLength /\ scan.ahead \in Nat
      /\ scan.day \in Days
  BY <1>1, <1>2, CalendarAssumption DEF Scan, Possible
<1>5. scan.day \in 0 .. LastDay /\ scan.day \in Nat /\ today \in Nat /\ LastDay \in Nat
  BY <1>1, <1>4, DayHasYear, DayAssumption DEF TypeOK
<1>6. /\ next \in Days /\ next \in Nat /\ scan.day <= next
      /\ YearOf(next) \in {YearOf(scan.day), YearOf(scan.day) + 1}
      /\ next = DayIn(f.birthday, YearOf(next))
  BY <1>3, <1>4, <1>5, NextIsNext
<1>7. YearOf(next) \in Years
  BY <1>5, <1>6, TodayInCalendar
<1> DEFINE key == <<e, YearOf(next)>>
           seen == Horizon(next, scan.day, scan.ahead)
<1>8. /\ IF InWindow(next, scan.day, scan.ahead) /\ Eligible(f, next) /\ order[key] = None
         THEN \E o \in Orders(f, next, scan.day) : order' = [order EXCEPT ![key] = o]
         ELSE UNCHANGED order
      /\ promised' = [promised EXCEPT ![e] =
           IF directory[e] = f /\ seen >= @ THEN seen + 1 ELSE @]
  BY <1>2, <1>3 DEF ScanEmployee, OccurrenceYear
<1>9. key \in Staff \X Years /\ order \in [Staff \X Years -> Order \cup {None}]
      /\ promised \in [Staff -> Nat]
  BY <1>1, <1>7 DEF TypeOK
<1>10. seen \in Nat
  BY <1>4, <1>5, <1>6 DEF Horizon
<1> HIDE DEF key, seen
<1>11. /\ order' \in [Staff \X Years -> Order \cup {None}]
       /\ \A k \in Staff \X Years :
            order'[k] # order[k] => k = key /\ order[k] = None /\ order'[k].date = next
       /\ InWindow(next, scan.day, scan.ahead) /\ Eligible(f, next) => order'[key] # None
  <2>1. CASE InWindow(next, scan.day, scan.ahead) /\ Eligible(f, next) /\ order[key] = None
    <3>1. PICK o \in Orders(f, next, scan.day) : order' = [order EXCEPT ![key] = o]
      BY <1>8, <2>1
    <3>2. o \in Order /\ o.date = next /\ o # None
      BY <1>1, <1>6, OrdersType, RowsDiffer
    <3> QED  BY <1>9, <2>1, <3>1, <3>2
  <2>2. CASE ~(InWindow(next, scan.day, scan.ahead) /\ Eligible(f, next) /\ order[key] = None)
    BY <1>8, <1>9, <2>2
  <2> QED  BY <2>1, <2>2
<1>12. /\ promised' \in [Staff -> Nat]
       /\ \A d \in Staff \ {e} : promised'[d] = promised[d]
       /\ promised'[e] # promised[e] => directory[e] = f /\ promised'[e] = seen + 1
  BY <1>8, <1>9, <1>10
<1> QED
  BY <1>1, <1>2, <1>3, <1>4, <1>5, <1>6, <1>7, <1>11, <1>12 DEF key, seen

\* A scan keeps the invariant.
LEMMA ScanKeeps ==
  ASSUME CalendarInv, NEW e \in Staff, ScanEmployee(e)
  PROVE  CalendarInv'
<1>1. /\ TypeOK /\ SuppliersInv /\ PortalInv /\ today <= LastDay /\ scan \in Scan \cup {IdleScan}
  BY DEF CalendarInv, TypeOK
<1>2. PICK f \in Fact, next \in Days :
        /\ f = scan.rows[e] /\ next = NextOccurrence(f.birthday, scan.day)
        /\ scan # IdleScan /\ e \in scan.left /\ Possible(f.birthday)
        /\ scan.day \in 0 .. LastDay /\ scan.day <= today /\ scan.ahead \in Nat
        /\ YearOf(next) \in Years /\ next = DayIn(f.birthday, YearOf(next))
        /\ order' \in [Staff \X Years -> Order \cup {None}]
        /\ \A k \in Staff \X Years :
             order'[k] # order[k] =>
               k = <<e, YearOf(next)>> /\ order[k] = None /\ order'[k].date = next
        /\ InWindow(next, scan.day, scan.ahead) /\ Eligible(f, next)
             => order'[<<e, YearOf(next)>>] # None
        /\ \A d \in Staff \ {e} : promised'[d] = promised[d]
        /\ promised'[e] # promised[e] =>
             /\ directory[e] = f
             /\ promised'[e] = Horizon(next, scan.day, scan.ahead) + 1
        /\ promised' \in [Staff -> Nat]
  BY ScanWrites
<1>3. /\ UNCHANGED <<people, suppliers, portal, today, lookahead, corrected>>
      /\ scan' = [scan EXCEPT !.left = @ \ {e}]
  BY DEF ScanEmployee, Done
<1>4. PeopleTypeOK' /\ SuppliersInv' /\ PortalInv' /\ directory' = directory
  BY <1>1, <1>3, SuppliersStep
  DEF people, portal, PeopleTypeOK, TypeOK, PortalInv, PortalTypeOK, Registered
<1>5. /\ scan' \in Scan /\ scan'.day = scan.day /\ scan'.rows = scan.rows
      /\ scan'.left \subseteq scan.left
  BY <1>1, <1>2, <1>3 DEF Scan
<1>6. ScanTrue'
  BY <1>2, <1>3, <1>4, <1>5 DEF CalendarInv, ScanTrue
<1>7. TypeOK'
  BY <1>1, <1>2, <1>3, <1>4, <1>5 DEF TypeOK, SuppliersInv, PortalInv
<1>8. \A k \in Staff \X Years : order[k] # None => order'[k] # None
  BY <1>2
<1>9. OrdersTrue'
  <2> SUFFICES ASSUME NEW s \in Staff \ corrected, NEW y \in Years, order'[<<s, y>>] # None
               PROVE  /\ directory[s] # None
                      /\ Possible(directory[s].birthday)
                      /\ order'[<<s, y>>].date = DayIn(directory[s].birthday, y)
    BY <1>3, <1>4 DEF OrdersTrue
  <2>1. CASE order'[<<s, y>>] = order[<<s, y>>]
    BY <2>1 DEF CalendarInv, OrdersTrue
  <2>2. CASE order'[<<s, y>>] # order[<<s, y>>]
    <3>1. s = e /\ y = YearOf(next) /\ order'[<<s, y>>].date = next
      BY <1>2, <2>2
    <3>2. f # None
      BY NoneIsNoFact
    <3>3. directory[e] # None /\ directory[e].birthday = f.birthday
      BY <1>2, <3>1, <3>2 DEF CalendarInv, ScanTrue
    <3> QED  BY <1>2, <3>1, <3>3
  <2> QED  BY <2>1, <2>2
<1>10. PromisesKept'
  <2> SUFFICES ASSUME NEW s \in Staff, NEW d \in Days, today <= d, d < promised'[s],
                      directory[s] # None, Possible(directory[s].birthday),
                      Celebrated(directory[s].birthday, d), Eligible(directory[s], d)
               PROVE  order'[<<s, YearOf(d)>>] # None
    BY <1>3, <1>4 DEF PromisesKept
  <2>1. d \in Nat /\ YearOf(d) \in Years /\ next \in Nat /\ today \in Nat
    BY <1>1, DayHasYear DEF TypeOK
  <2>2. CASE promised'[s] = promised[s]
    <3>1. order[<<s, YearOf(d)>>] # None
      BY <2>2 DEF CalendarInv, PromisesKept
    <3> QED  BY <1>8, <2>1, <3>1
  <2>3. CASE promised'[s] # promised[s]
    <3>1. s = e /\ directory[e] = f /\ promised'[e] = Horizon(next, scan.day, scan.ahead) + 1
      BY <1>2, <2>3
    <3>2. scan.day \in Nat /\ scan.day <= d
      BY <1>2, <2>1, DayAssumption
    <3>3. d <= next /\ d <= scan.day + scan.ahead
      BY <1>2, <2>1, <3>1, <3>2 DEF Horizon
    <3>4. \A c \in scan.day .. next - 1 : ~Celebrated(f.birthday, c)
      BY <1>2, NextIsNext DEF Possible
    <3>5. d = next
      BY <2>1, <3>1, <3>2, <3>3, <3>4
    <3>6. InWindow(next, scan.day, scan.ahead)
      BY <1>2, <2>1, <3>2, <3>3, <3>5 DEF InWindow
    <3> QED  BY <1>2, <3>1, <3>5, <3>6
  <2> QED  BY <2>2, <2>3
<1> QED
  BY <1>1, <1>3, <1>4, <1>6, <1>7, <1>9, <1>10 DEF CalendarInv

\* The directory, the suppliers, the portal and the scans keep the inductive
\* invariant, in whatever order they work.
THEOREM CalendarInvariant == Spec => []CalendarInv
<1>1. Init => CalendarInv
  BY CalendarStarts
<1>2. CalendarInv /\ [Next]_vars => CalendarInv'
  BY PeopleKeep, AdministrationKeeps, ScanKeeps, OthersKeep DEF Next, Scanning
<1> QED  BY <1>1, <1>2, PTL DEF Spec

-----------------------------------------------------------------------------
\* What it is for

\* compute_next_birthday_occurrence: for any calendar and on any of its days,
\* the date is the first on which the birthday is celebrated.
THEOREM DatesAreNext == Spec => []OccurrencesAreNext
<1>1. CalendarInv => OccurrencesAreNext
  <2> SUFFICES ASSUME CalendarInv PROVE today \in 0 .. LastDay
    BY DatesAreRight
  <2>1. today \in Nat /\ today <= LastDay /\ LastDay \in Nat
    BY DayHasYear, DayAssumption DEF CalendarInv, TypeOK
  <2> QED  BY <2>1
<1> QED  BY <1>1, CalendarInvariant, PTL

\* resolve_supplier_for_office, clear_default_except: unless two requests that
\* set a default overlapped, the rows lead to one supplier and one cake.
THEOREM SupplyIsDetermined == Spec => []SupplyInv
<1>1. CalendarInv => SupplyInv
  BY SinglesAreDetermined DEF CalendarInv, SupplyInv
<1> QED  BY <1>1, CalendarInvariant, PTL

\* run_daily_scan, keyed by the year of the occurrence: two orders of somebody
\* whose birthday was not corrected are a year apart.
THEOREM OneCakeAYear == Spec => []OneCakeABirthday
<1>1. CalendarInv => OneCakeABirthday
  <2> SUFFICES ASSUME CalendarInv, NEW e \in Staff \ corrected, NEW y \in Years, NEW z \in Years,
                      y < z, order[<<e, y>>] # None, order[<<e, z>>] # None
               PROVE  order[<<e, z>>].date - order[<<e, y>>].date >= YearLength - 1
    BY DEF OneCakeABirthday
  <2>1. /\ Possible(directory[e].birthday)
        /\ order[<<e, y>>].date = DayIn(directory[e].birthday, y)
        /\ order[<<e, z>>].date = DayIn(directory[e].birthday, z)
    BY DEF CalendarInv, OrdersTrue
  <2> QED  BY <2>1, BirthdaysApart DEF Possible
<1> QED  BY <1>1, CalendarInvariant, PTL

\* list_upcoming_birthdays finds by the year of the occurrence the order that
\* is for that occurrence.
THEOREM ListingIsRight == Spec => []DirectoryShowsItsOrder
<1>1. CalendarInv => DirectoryShowsItsOrder
  <2> SUFFICES ASSUME CalendarInv, NEW e \in Upcoming(YearLength) \ corrected, ListedOrder(e) # None
               PROVE  ListedOrder(e).date = NextOccurrence(directory[e].birthday, today)
    BY DEF DirectoryShowsItsOrder
  <2>1. e \in Staff \ corrected /\ Possible(directory[e].birthday)
    BY DEF Upcoming
  <2>2. today \in 0 .. LastDay
    <3>1. today \in Nat /\ today <= LastDay /\ LastDay \in Nat
      BY DayHasYear, DayAssumption DEF CalendarInv, TypeOK
    <3> QED  BY <3>1
  <2>3. PICK next : next = NextOccurrence(directory[e].birthday, today)
    OBVIOUS
  <2>4. next \in Days /\ next = DayIn(directory[e].birthday, YearOf(next))
    BY <2>1, <2>2, <2>3, NextIsNext DEF Possible
  <2>5. ListedOrder(e) = order[<<e, YearOf(next)>>]
    BY <2>3 DEF ListedOrder
  <2>6. YearOf(next) \in Years
    BY <2>4, DayHasYear
  <2>7. ListedOrder(e).date = DayIn(directory[e].birthday, YearOf(next))
    BY <2>1, <2>5, <2>6 DEF CalendarInv, OrdersTrue
  <2> QED  BY <2>3, <2>4, <2>7
<1> QED  BY <1>1, CalendarInvariant, PTL

\* run_daily_scan, "naturally catches up": no birthday that a scan has looked
\* ahead to passes without its order, whatever failed, stopped or was edited.
THEOREM CatchesUp == Spec => NobodyIsMissed
<1> DEFINE Kept ==
      \A e \in Staff :
        /\ today' > today /\ promised[e] > today
        /\ directory[e] # None
        /\ Possible(directory[e].birthday) /\ Celebrated(directory[e].birthday, today)
        /\ Eligible(directory[e], today)
        => order[<<e, YearOf(today)>>] # None
<1>1. CalendarInv => Kept
  <2> SUFFICES ASSUME CalendarInv, NEW e \in Staff,
                      promised[e] > today, directory[e] # None,
                      Possible(directory[e].birthday), Celebrated(directory[e].birthday, today),
                      Eligible(directory[e], today)
               PROVE  order[<<e, YearOf(today)>>] # None
    OBVIOUS
  <2>1. today \in Days /\ today \in Nat /\ promised[e] \in Nat
    BY DayHasYear DEF CalendarInv, TypeOK
  <2> QED  BY <2>1 DEF CalendarInv, PromisesKept
<1>2. CalendarInv /\ [Next]_vars => [Kept]_vars
  BY <1>1
<1> HIDE DEF Kept
<1>3. Spec => [][Kept]_vars
  BY <1>2, CalendarInvariant, PTL DEF Spec
<1> QED  BY <1>3 DEF NobodyIsMissed, Kept

\* get_supplier_scope looks the row up again: whoever was deactivated begins no
\* request of the portal until somebody activates them, whatever token they
\* hold and whatever edits of the row were under way.
THEOREM DeactivatedAreOut == Spec => DeactivatedStayOut
<1> DEFINE Out == \A u \in off : visit'[u] # visit[u] => visit'[u] = NoSupplier
<1>1. CalendarInv /\ [Next]_vars => [Out]_portal
  <2> SUFFICES ASSUME CalendarInv, [Next]_vars PROVE [Out]_portal
    OBVIOUS
  <2>1. [PortalNext]_portal
    BY DEF Next, People, Administration, Scanning, SetLookahead, StartScan, EndScan,
      ScanEmployee, SkipEmployee, NextDay, vars, portal
  <2> QED  BY <2>1, OffIsOut DEF CalendarInv
<1> HIDE DEF Out
<1>2. Spec => [][Out]_portal
  BY <1>1, CalendarInvariant, PTL DEF Spec
<1> QED  BY <1>2 DEF DeactivatedStayOut, Out

-----------------------------------------------------------------------------
\* What DirectoryCatchesUp says, but for its fairness

\* The row is what BambooHR says, and no run that is still to commit has listed
\* the employee as somebody else.
UpToDate(e) ==
  /\ directory[e] = hr[e]
  /\ \A r \in Runs : task[r].at \in {"loading", "writing"} => task[r].list[e] \in {None, hr[e]}

\* It stays what BambooHR says until BambooHR says otherwise.
StaysUpToDate == [][\A e \in Staff : UpToDate(e) /\ hr'[e] = hr[e] => UpToDate(e)']_vars

\* An UPDATE to what the row is leaves it, whatever copy it compares with.
LEMMA WrittenSame ==
  ASSUME NEW row \in Fact, NEW loaded
  PROVE  Written(row, loaded, row) = row
<1>1. DOMAIN row = {"active", "birthday", "hired", "left", "mail", "office"}
  BY DEF Fact
<1>2. Written(row, loaded, row) =
        [active |-> row.active, birthday |-> row.birthday, hired |-> row.hired,
         left |-> row.left, mail |-> row.mail, office |-> row.office]
  BY <1>1 DEF Written
<1>3. row = [active |-> row.active, birthday |-> row.birthday, hired |-> row.hired,
             left |-> row.left, mail |-> row.mail, office |-> row.office]
  BY DEF Fact
<1> QED  BY <1>2, <1>3

\* Runs that overlap, fail and die write nothing else than they listed, and
\* list nothing else than BambooHR says.
LEMMA SyncsAgree ==
  ASSUME PeopleTypeOK, PeopleNext, NEW e \in Staff, UpToDate(e), hr'[e] = hr[e]
  PROVE  UpToDate(e)'
<1>1. /\ hr[e] \in Fact \cup {None} /\ directory \in [Staff -> Fact \cup {None}]
      /\ task \in [Runs -> Task]
  BY DEF PeopleTypeOK
<1>2. ASSUME NEW r \in Runs, NEW t, Goto(r, t), directory'[e] = directory[e],
             t.at \in {"loading", "writing"} => t.list[e] \in {None, hr[e]}
      PROVE  UpToDate(e)'
  <2>1. \A s \in Runs : task'[s] = IF s = r THEN t ELSE task[s]
    BY <1>1, <1>2 DEF Goto
  <2> QED  BY <1>2, <2>1 DEF UpToDate
<1>3. CASE \E x \in Staff, f \in FactChoices : ChangeFact(x, f)
  BY <1>3 DEF ChangeFact, UpToDate
<1>4. ASSUME NEW r \in Runs, RequestSync(r) \/ CreateRun(r) \/ StartRun(r) \/ FailSync(r)
                             \/ FinishRun(r) \/ Die(r)
      PROVE  UpToDate(e)'
  <2>1. \E a \in {"creating", "queued", "listing", "failing", "idle"} : Goto(r, [at |-> a])
    BY <1>4 DEF RequestSync, CreateRun, StartRun, FailSync, FinishRun, Die, IdleTask
  <2>2. directory' = directory
    BY <1>4 DEF RequestSync, CreateRun, StartRun, FailSync, FinishRun, Die
  <2>3. PICK a \in {"creating", "queued", "listing", "failing", "idle"} : Goto(r, [at |-> a])
    BY <2>1
  <2>4. [at |-> a].at \notin {"loading", "writing"}
    OBVIOUS
  <2> QED  BY <1>2, <2>2, <2>3, <2>4
<1>5. ASSUME NEW r \in Runs, ListActive(r)
      PROVE  UpToDate(e)'
  <2> DEFINE list == [x \in Staff |-> IF Listable(hr[x]) THEN hr[x] ELSE None]
             t == [at |-> "loading", list |-> list]
  <2>1. Goto(r, t) /\ directory' = directory /\ t.list[e] \in {None, hr[e]}
    BY <1>5 DEF ListActive
  <2> HIDE DEF t
  <2> QED  BY <1>2, <2>1
<1>6. ASSUME NEW r \in Runs, LoadRows(r)
      PROVE  UpToDate(e)'
  <2> DEFINE t == [at |-> "writing", list |-> task[r].list, loaded |-> directory]
  <2>1. Goto(r, t) /\ directory' = directory /\ task[r].at = "loading" /\ t.list = task[r].list
    BY <1>6 DEF LoadRows
  <2>2. t.list[e] \in {None, hr[e]}
    BY <2>1 DEF UpToDate
  <2> HIDE DEF t
  <2> QED  BY <1>2, <2>1, <2>2
<1>7. ASSUME NEW r \in Runs, CommitSync(r)
      PROVE  UpToDate(e)'
  <2>1. /\ directory'[e] = Upserted(task[r], e) /\ Goto(r, [at |-> "succeeding"])
        /\ task[r].list[e] \in {None, hr[e]}
    BY <1>7 DEF CommitSync, UpToDate
  <2>2. Upserted(task[r], e) = directory[e]
    <3>1. CASE task[r].list[e] = None
      BY <3>1, Zenon DEF Upserted
    <3>2. CASE task[r].list[e] # None
      <4>1. task[r].list[e] = directory[e] /\ directory[e] \in Fact
        BY <1>1, <2>1, <3>2 DEF UpToDate
      <4>2. directory[e] # None
        BY <3>2, <4>1
      <4>3. Upserted(task[r], e) = Written(directory[e], task[r].loaded[e], task[r].list[e])
        BY <3>2, <4>2, Zenon DEF Upserted
      <4> QED  BY <4>1, <4>3, WrittenSame
    <3> QED  BY <3>1, <3>2
  <2>3. [at |-> "succeeding"].at \notin {"loading", "writing"}
    OBVIOUS
  <2> QED  BY <1>2, <2>1, <2>2, <2>3
<1> QED  BY <1>3, <1>4, <1>5, <1>6, <1>7 DEF PeopleNext, Sync, Work

\* list_active_employees, upsert: once a row is BambooHR's and no older list is
\* left, overlapping runs, failures and deaths leave it so.
THEOREM RowsStayUpToDate == Spec => StaysUpToDate
<1> DEFINE Stays == \A e \in Staff : UpToDate(e) /\ hr'[e] = hr[e] => UpToDate(e)'
<1>1. CalendarInv /\ [Next]_vars => Stays
  <2> SUFFICES ASSUME CalendarInv, [Next]_vars, NEW e \in Staff, UpToDate(e), hr'[e] = hr[e]
               PROVE  UpToDate(e)'
    OBVIOUS
  <2>1. CASE People
    BY <2>1, SyncsAgree DEF CalendarInv, TypeOK, People
  <2>2. CASE UNCHANGED people
    BY <2>2 DEF people, UpToDate
  <2> QED
    BY <2>1, <2>2 DEF Next, Administration, SetLookahead, Scanning, StartScan, EndScan, ScanEmployee,
                      SkipEmployee, NextDay, vars
<1>2. CalendarInv /\ [Next]_vars => [Stays]_vars
  BY <1>1
<1> HIDE DEF Stays
<1>3. Spec => [][Stays]_vars
  BY <1>2, CalendarInvariant, PTL DEF Spec
<1> QED  BY <1>3 DEF StaysUpToDate, Stays
=============================================================================

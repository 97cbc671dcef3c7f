CONSTANTS
  e1 = e1
  r1 = r1
  s1 = s1
  s2 = s2
  k1 = k1
  k2 = k2
  Staff = {e1}
  Birthdays = {1, 2, 3, 4, 5}
  Dates = {0, 2, 3, 8}
  NoDate = NoDate
  Offices = {"office"}
  FactChoices <- Facts
  Runs = {r1, r2}
  MaxChanges = 2
  Suppliers = {s1, s2}
  NoSupplier = NoSupplier
  Cakes = {k1, k2}
  NoCake = NoCake
  Places = {"office"}
  Admins = {a1, a2}
  LeadTimes = {1}
  Contacts = {u1, u2}
  Mails = {m1, m2}
  Identities = {g1}
  NoIdentity = NoIdentity
  MaxEdits = 3
  YearLength = 4
  LeapPosition = 2
  LastYear = 4
  LeapYears = {2}
  Lookaheads = {1, 2}
  FirstDays = {0}
  LastDay = 5
SPECIFICATION CalendarSpec
INVARIANTS
  OccurrencesAreNext
  OneCakeABirthday
  SupplyInv
  DirectoryShowsItsOrder
PROPERTIES
  NobodyIsMissed
  DirectoryCatchesUp
  DeactivatedStayOut
CHECK_DEADLOCK FALSE

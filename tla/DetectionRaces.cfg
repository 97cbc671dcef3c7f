CONSTANTS
  Employees = {e1, e2}
  Scans = {s1, s2}
  Admins = {a1}
  Nobody = Nobody
  NoEmployee = NoEmployee
  MaxSeq = 3
SPECIFICATION FairSpec
INVARIANTS
  SeqInv
PROPERTIES
  ImplementsRegister
  ScansKeepOrders
  ScansEnd
CHECK_DEADLOCK FALSE

CONSTANTS
  sa = sa
  pa = pa
  pu = pu
  team = team
  w1 = w1
  Users = {sa, pa, pu}
  Identities = {o1, o2}
  NoIdentity = NoIdentity
  Workers = {w1, w2}
  Seed <- SuperAndAdmin
  Claims <- NoModules
  MaxEdits = 3
  MaxSessions = 2
  Groups = {}
  SystemGroups = {}
  Clients = {}
  AllClients = AllClients
  LocalClients = {c9}
  Numbered <- ForeignNumbers
  NoScope = NoScope
  RoleChoices = {}
  MaxRows = 0
SPECIFICATION AccountsOnly
SYMMETRY Symmetry
INVARIANTS
  LockoutNeedsCrossing
  AdmissionByAdministrators
PROPERTIES
  AccessChangesOnRequest
CHECK_DEADLOCK FALSE

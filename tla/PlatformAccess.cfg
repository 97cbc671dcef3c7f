CONSTANTS
  sa = sa
  pa = pa
  pu = pu
  team = team
  w1 = w1
  Users = {sa, pu}
  Identities = {o1}
  NoIdentity = NoIdentity
  Workers = {w1, w2}
  Seed <- SuperAndUser
  Claims <- ModuleClaims
  MaxEdits = 3
  MaxSessions = 2
  Groups = {team, system}
  SystemGroups = {system}
  Clients = {c1}
  AllClients = AllClients
  LocalClients = {c9}
  Numbered <- ForeignNumbers
  NoScope = NoScope
  RoleChoices = {"TA_MEMBER"}
  MaxRows = 3
SPECIFICATION AccessSpec
INVARIANTS
  AccessInv
  UntornClaimsAreEntitled
  PagesExplainAccess
PROPERTIES
  SessionsAreEntitled
  RevocationTakesEffect
CHECK_DEADLOCK FALSE

CONSTANTS
  c1 = c1
  c2 = c2
  ann = ann
  bob = bob
  Links = {g1, g2}
  Clients = {c1, c2}
  Staff = {ann, bob}
  Portfolio <- Portfolios
  Workers = {w1, w2}
  Sources = {s1, s2}
  MinExpiry = 1
  DefaultExpiry = 1
  MaxExpiry = 2
  Window = 2
  SourceLimit = 1
  GlobalLimit = 2
  MaxTime = 2
  MaxRequests = 5
SPECIFICATION Spec
SYMMETRY Symmetry
INVARIANTS
  LinkInv
  UsesAreRedemptions
  
PROPERTIES
  RevokedForGood
  ExpiryMovesForward
CHECK_DEADLOCK FALSE

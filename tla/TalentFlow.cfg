CONSTANTS
  p1 = p1
  k1 = k1
  o1 = o1
  c1 = c1
  c2 = c2
  w1 = w1
  w2 = w2
  Postings = {p1}
  Clients = {c1, c2}
  NoClient = NoClient
  People = {k1}
  Candidacies = {o1}
  PersonOf <- OnePerson
  PostingOf <- OnePosting
  Workers = {w1, w2}
  TagChoices <- TagLists
  StageChoices = {"SCREENING", "DEPLOYED"}
  DecisionChoices = {"APPROVED", "REJECTED"}
  MaxChanges = 2
  MaxRequests = 2
SPECIFICATION TalentSpec
INVARIANTS
  MappingInv
  RejectedStaysOut
PROPERTIES
  RequestsAreVerified
  ShownByStaff
  TagLossTakesEffect
CHECK_DEADLOCK FALSE

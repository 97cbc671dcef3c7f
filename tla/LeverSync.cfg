CONSTANTS
  Opportunities = {o1}
  Linked = {o1}
  LeverStages = {"New lead", "Offer"}
  Runs = {r1, r2}
  Hooks = {h1, h2}
  MaxChanges = 2
SPECIFICATION Spec
SYMMETRY Symmetry
INVARIANTS
  SyncInv
PROPERTIES
  EventsApplyOnce
  SuccessIsComplete
CHECK_DEADLOCK FALSE

CONSTANTS
  Opportunities = {o1}
  Linked = {o1}
  LeverStages = {"New lead", "Offer"}
  Runs = {r1, r2}
  Hooks = {h1}
  MaxChanges = 2
SPECIFICATION FairSpec
PROPERTIES
  Reconciles
CHECK_DEADLOCK FALSE

CONSTANTS
  Requests = {r1, r2}
  Suppliers = {s1}
  NoSupplier = NoSupplier
  AddressStatuses = {"NOT_CHECKED", "VERIFIED"}
  Quantities = {"default"}
  MaxAttempts = 1
SPECIFICATION ConcurrentSpec
SYMMETRY Symmetry
PROPERTIES
  TerminalIsFinal
CHECK_DEADLOCK FALSE

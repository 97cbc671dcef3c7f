CONSTANTS
  Requests = {r1, r2}
  Suppliers = {s1}
  NoSupplier = NoSupplier
  AddressStatuses = {"NOT_CHECKED", "VERIFIED"}
  Quantities = {"default"}
  MaxAttempts = 1
SPECIFICATION StruckSpec
INVARIANTS
  OrderInv
  SentIsMailed
  FulfilmentIsStamped
PROPERTIES
  DeliveredCompletes
CHECK_DEADLOCK FALSE

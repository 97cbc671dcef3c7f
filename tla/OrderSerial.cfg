CONSTANTS
  Requests = {r1}
  Suppliers = {s1}
  NoSupplier = NoSupplier
  AddressStatuses = {"NOT_CHECKED", "VERIFIED"}
  Quantities = {"default", "changed", "invalid"}
  MaxAttempts = 2
SPECIFICATION Spec
PROPERTIES
  FollowsTable
  AutoReleaseIsStandard
  ImplementsContract

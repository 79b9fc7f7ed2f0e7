CONSTANTS
  Tenant = "alice"
  PermissionsProtocol = "permissions"
  None = None
  Scenarios <- MCScenarios
  Limits <- MCLimits
INIT NodeInit
NEXT NodeNext
INVARIANTS
  RevocationSticks  DeliveryFollowsAccess 
CHECK_DEADLOCK FALSE

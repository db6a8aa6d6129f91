\* Three requests in two organizations.
CONSTANTS
  Null = Null
  Orgs = {o1, o2}
  Requests = {r1, r2, r3}
  Refs = {k1, k2}
  MaxAttempts = 2
SPECIFICATION Spec
SYMMETRY Symmetric
INVARIANTS IInv Deduplicated FailuresHaveReasons TransactionalOutbox
PROPERTIES ImplementsRegister LinksAndDeletionsStick
CHECK_DEADLOCK FALSE

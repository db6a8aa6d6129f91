\* A rule with two endpoints, events of two organizations.
CONSTANTS
  m1 = m1
  m2 = m2
  r1 = r1
  p1 = p1
  p2 = p2
  o1 = o1
  o2 = o2
  Null = Null
  Orgs = {o1, o2}
  Endpoints = {p1, p2}
  Rules = {r1}
  OrgOf <- MCOrgOf
  Fields <- MCFields
  Lists <- MCLists
  Dispatchers = {d1}
  Events = {m1, m2}
  Filters <- MCFilters
  MaxCopies = 1
  MaxEdits = 5
  MaxFailures = 1
SPECIFICATION FairSpec
INVARIANTS IInv LostWithReason NeverRepeated
PROPERTIES OffStaysSilent Notified
CHECK_DEADLOCK FALSE

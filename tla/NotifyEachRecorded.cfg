\* A rule or an endpoint is deleted while its POST is under way.
CONSTANTS
  m1 = m1
  m2 = m2
  r1 = r1
  p1 = p1
  p2 = p2
  o1 = o1
  o2 = o2
  Null = Null
  Orgs = {o1, o2}
  Endpoints = {p1, p2}
  Rules = {r1}
  OrgOf <- MCOrgOf
  Fields <- MCFields
  Lists <- MCLists
  Dispatchers = {d1}
  Events = {m1, m2}
  Filters <- CreateOnly
  MaxCopies = 1
  MaxEdits = 4
  MaxFailures = 0
SPECIFICATION Spec
INVARIANT EachPairRecorded
CHECK_DEADLOCK FALSE

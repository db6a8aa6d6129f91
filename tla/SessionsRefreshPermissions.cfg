\* The instance of MCSessions.
CONSTANTS
  o1 = o1
  o2 = o2
  f1 = f1
  f2 = f2
  r1 = r1
  r2 = r2
  r3 = r3
  Null = Null
  Seed = seed
  Requests = {r1, r2, r3}
  Orgs = {o1, o2}
  Profiles = {f1, f2}
  OrgOf <- MCOrgOf
  Passwords = {w1}
  Ops <- MCOps
  MaxDeaths = 1
SPECIFICATION Spec
INVARIANTS AccessCarriesPermissions
CHECK_DEADLOCK FALSE

\* Two processes, two organizations and batches of one, one websocket client.
CONSTANTS
  e1 = e1
  e2 = e2
  o1 = o1
  o2 = o2
  Null = Null
  Events = {e1, e2}
  Orgs = {o1, o2}
  OrgOf <- MCOrgOf
  Processes = {p1, p2}
  Clients = {c1}
  BatchSize = 1
  MaxFailures = 2
SPECIFICATION FairSpec
INVARIANTS IInv ResentOnlyIfLost RealTimeOrder
PROPERTIES ConnectedClientHears ImplementsFeed
CHECK_DEADLOCK FALSE

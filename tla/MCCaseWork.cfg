\* Three requests of one kind of traffic, all their interleavings.
CONSTANTS
  c1 = c1
  c2 = c2
  t1 = t1
  t2 = t2
  t3 = t3
  f1 = f1
  o1 = o1
  o2 = o2
  u1 = u1
  u2 = u2
  k1 = k1
  k2 = k2
  v1 = v1
  v2 = v2
  vLong = vLong
  r1 = r1
  r2 = r2
  r3 = r3
  Null = Null
  Requests = {r1, r2, r3}
  Cases = {c1, c2}
  Tasks = {t1, t2, t3}
  Files = {f1}
  Observables = {o1, o2}
  FirstCase = c1
  FirstIndex <- MCFirstIndex
  FirstKey = k1
  FirstValue = v1
  FirstShares <- MCFirstShares
  Keys = {k1, k2}
  Values = {v1, v2, vLong}
  Stored <- MCStored
  Users = {u1, u2}
  AuditedIds = 1
  Traffic <- MCTraffic
SPECIFICATION Spec
INVARIANTS IInv ClosedIsDated InfectedIsQuarantined ReorderIsKept PlacementFollowsAudit
INVARIANTS ImportsDoNotRepeat NothingJoinsADeletedCase OutsidersAreInvited ErrorsHaveReasons
CHECK_DEADLOCK FALSE
SYMMETRY MCSymmetry

\* Two organizations, up to four calls that are made together.
CONSTANTS
  r1 = r1
  r2 = r2
  r3 = r3
  r4 = r4
  n1 = n1
  n2 = n2
  n3 = n3
  n4 = n4
  n5 = n5
  o1 = o1
  o2 = o2
  u1 = u1
  u2 = u2
  u3 = u3
  u4 = u4
  p1 = p1
  p2 = p2
  p3 = p3
  p4 = p4
  m1 = m1
  m2 = m2
  m3 = m3
  m4 = m4
  k1 = k1
  f1 = f1
  s1 = s1
  w1 = w1
  w2 = w2
  t1 = t1
  x1 = x1
  q1 = q1
  c1 = c1
  c2 = c2
  c3 = c3
  y1 = y1
  g1 = g1
  d1 = d1
  a1 = a1
  l1 = l1
  i1 = i1
  h1 = h1
  h2 = h2
  b1 = b1
  b2 = b2
  b3 = b3
  z1 = z1
  v1 = v1
  e1 = e1
  e2 = e2
  j1 = j1
  rule = rule
  endpoint = endpoint
  delivery = delivery
  ix1 = ix1
  ix2 = ix2
  Null = Null
  Requests = {r1, r2, r3, r4}
  First = {o1, o2, u1, u2, u3, u4, p1, p2, p3, p4, m1, m2, m3, m4, k1, f1, s1, w1, w2, t1,
    x1, q1, c1, c2, c3, y1, g1, d1, a1, l1, i1, h1, h2, b1, b2, b3, z1, v1, e1, e2, j1,
    rule, endpoint, delivery}
  FirstRow <- MCFirstRow
  Names = {n1, n2, n3, n4, n5}
  States <- MCStates
  MaxRows = 3
  MaxNumber = 5
  Start = 3
  Traffic <- MCTraffic
  TemplateTasks = 1
  Workers = {ix1, ix2}
  Window = 2
  Batch = 1
  MaxLost = 1
SPECIFICATION MCSpec
INVARIANTS IInv AnswersAreConfined NothingIsMissed OverwritesNeedOverlap AnswersAreTrue
PROPERTY Indexed
CHECK_DEADLOCK FALSE

\* Two promotions of one alert that overlap.
CONSTANTS
  Null = Null
  Orgs = {o1}
  Requests = {r1, r2, r3}
  Refs = {k1}
  MaxAttempts = 3
SPECIFICATION Spec
INVARIANT OnePromotionPerAlert
CHECK_DEADLOCK FALSE

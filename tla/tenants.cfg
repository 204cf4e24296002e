\* One tenant buys, leaves, is deleted; its team; Stripe's events.
SPECIFICATION FairSpec
CONSTANTS
  Sid = {1, 2}
  u1 = u1
  u2 = u2
  u3 = u3
  User = {u1, u2, u3}
  Owner = u1
  h1 = h1
  h2 = h2
  Call = {h1, h2}
  Limits <- MCLimits
  NoSid = 0
  NoUser = NoUser
INVARIANTS TypeOK PlansAgree ChargedForPlan TeamWithinPlans
PROPERTIES CancellationReaches
CHECK_DEADLOCK FALSE

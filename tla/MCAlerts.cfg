CONSTANTS
  i1 = i1
  i2 = i2
  c1 = c1
  u1 = u1
  u2 = u2
  d1 = d1
  Inst = {i1, i2}
  Reconcilers = {i2}
  Puts = {c1, u1, u2}
  Deletes = {d1}
  RevOf <- Revisions
  RuleOf <- Rules
  Scenarios <- All
  Nobody = Nobody
  NoCmd = NoCmd
SPECIFICATION FairSpec
INVARIANTS TypeOK ChainWhole StatusEarned CommandsOnce ProjectionHonest
PROPERTIES HeadAdvances CaughtUp Projected
CHECK_DEADLOCK FALSE

CONSTANTS
  i1 = i1
  i2 = i2
  a = a
  b = b
  o1 = o1
  o2 = o2
  Inst = {i1, i2}
  Maintainers = {i1, i2}
  Walkers = {i2}
  Subscribers = {i2}
  Queriers = {i1}
  Warm = {i1}
  Initial = {a, b}
  Output = {o1, o2}
  Block = {a, b, o1, o2}
  InitLevel <- Levels
  Aging = {a}
  FANOUT = 2
  MAXLEVEL = 1
  GRACEZERO = TRUE
  MAXFAULTS = 1
  MAXLOSSES = 1
  NoBlock = NoBlock
SPECIFICATION Spec
INVARIANTS TypeOK NoLoss SingleCopy NoFork
CHECK_DEADLOCK FALSE

CONSTANTS
  i1 = i1
  i2 = i2
  a = a
  b = b
  o1 = o1
  o2 = o2
  Inst = {i1, i2}
  Maintainers = {i1}
  Walkers = {i1, i2}
  Subscribers = {}
  Queriers = {i2}
  Warm = {i1}
  Initial = {a, b}
  Output = {o1}
  Block = {a, b, o1}
  InitLevel <- Levels
  Aging = {a}
  FANOUT = 2
  MAXLEVEL = 1
  GRACEZERO = FALSE
  MAXFAULTS = 1
  MAXLOSSES = 0
  NoBlock = NoBlock
SPECIFICATION FairSpec
PROPERTIES Converged Reclaimed
CHECK_DEADLOCK FALSE

CONSTANTS
  i1 = i1
  i2 = i2
  boom = boom
  Inst = {i1, i2}
  Nobody = Nobody
  Block = {1, 2, 3, 4, 5}
  Poison = {1}
  RowsOf <- Rows
  Issue = {boom}
  Unreadable = Unreadable
  Scenarios <- All
SPECIFICATION FairSpec
INVARIANTS CountedOnce Rebuildable
PROPERTIES EventuallyServed

------------------------------ MODULE MCErrors ------------------------------
(* Block 1 cannot be processed; block 4 is the compaction of 2 and 3, which  *)
(* have an event in common, with different bodies; block 5 has only the      *)
(* second body, and only collides when it is folded after block 2.           *)
EXTENDS Errors

CONSTANTS i1, i2, boom

early  == [event |-> 2, body |-> 1, at |-> 2, issue |-> boom]
clash  == [event |-> 2, body |-> 2, at |-> 2, issue |-> boom]
tied   == [event |-> 1, body |-> 1, at |-> 2, issue |-> boom]
opaque == [event |-> 3, body |-> 1, at |-> 1, issue |-> Unreadable]

Rows == <<<<>>, <<early, opaque>>, <<clash, tied>>, <<early, opaque, clash, tied>>, <<clash>>>>

Scenario(start, later, blocks_per_pass, rows_per_page, spare) ==
  [blocks |-> start, coming |-> later, max_blocks |-> blocks_per_pass,
   page_rows |-> rows_per_page, budget |-> spare]
Merged    == [inputs |-> {2, 3}, output |-> 4]
Backdated == [inputs |-> {}, output |-> 2]
Later     == [inputs |-> {}, output |-> 5]

Blocked   == Scenario({1, 2}, {}, 1, 1, 1)
Paged     == Scenario({3}, {Backdated}, 1, 2, 1)
Compacted == Scenario({2, 3}, {Merged}, 2, 4, 1)
Collided  == Scenario({2}, {Later}, 2, 2, 1)
Failover  == Scenario({2, 5}, {}, 2, 2, 2)
All == {Blocked, Paged, Compacted, Collided, Failover}
=============================================================================

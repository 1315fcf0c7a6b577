------------------------------ MODULE MCMaint ------------------------------
(* Maintenance over a bucket of two small blocks: see the cfg files.         *)
EXTENDS Maintenance

CONSTANTS i1, i2, a, b, o1, o2

Levels == [x \in Initial |-> 0]
=============================================================================

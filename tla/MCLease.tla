------------------------------ MODULE MCLease ------------------------------
(***************************************************************************)
(* The lease for TLC: two instances that can each hold it once, so that a  *)
(* key is acquired, kept alive or lost, and acquired by the peer.          *)
(***************************************************************************)
EXTENDS Lease
=============================================================================

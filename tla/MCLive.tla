------------------------------- MODULE MCLive -------------------------------
(* LiveMerge with frames of one schema.                                    *)
EXTENDS LiveMerge

MCNewSchema == {}
=============================================================================

------------------------------ MODULE MCIngest ------------------------------
(* IngestPipeline with a third frame of another schema.                    *)
EXTENDS IngestPipeline

MCNewSchema == {3}
=============================================================================

-------------------------- MODULE MCUploadPipeline --------------------------
(* Values for model checking UploadPipeline.                               *)
EXTENDS UploadPipelineInv

\* Two chunks of sales rows: one of them can fail after another was written.
MCChunks == [t \in Table |-> IF t = "sales" THEN 2 ELSE 1]

MCOneChunk == [t \in Table |-> 1]

=============================================================================

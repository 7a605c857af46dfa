--------------------------- MODULE MCRagPipeline ---------------------------
(* Two files, one of them with two batches of chunks, beside an old document. *)
EXTENDS RagPipeline

MCFiles == {"report", "note"}
MCKinds == {"pdf", "unsupported"}
MCBatches == [f \in MCFiles |-> IF f = "report" THEN 2 ELSE 1]
=============================================================================

------------------------ MODULE MCBatchedProtocol ------------------------
(* Two batches of three candidates; one batch and two regions for the ids. *)
EXTENDS BatchedProtocol
=============================================================================

----------------------- MODULE MCCompletionProtocol -----------------------
(* Runs of five evaluations over three workers: slots are used again.      *)
EXTENDS CompletionProtocol
=============================================================================

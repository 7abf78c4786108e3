--------------------------- MODULE MCWorkerPool ---------------------------
(* A pool small enough to enumerate: two workers share three dispatches.    *)
EXTENDS WorkerPool

MCValues == {1}
MCCosts == {1, 2}
=============================================================================

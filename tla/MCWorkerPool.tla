---------------------------- MODULE MCWorkerPool ----------------------------
(***************************************************************************)
(* Three workers and five connections through a work channel of capacity *)
(* 2, so the accept loop blocks on a full channel while workers are busy. *)
(***************************************************************************)
EXTENDS WorkerPool

CONSTANTS w1, w2, w3, k1, k2, k3, k4, k5

MCConns == <<k1, k2, k3, k4, k5>>
=============================================================================

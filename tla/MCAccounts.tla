----------------------------- MODULE MCAccounts -----------------------------
(* Model values for TLC.                                                    *)
EXTENDS EmbeddingWorker

CONSTANTS a, u1, ea, e1, l1, l2, w1, w2
=============================================================================

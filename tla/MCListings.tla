----------------------------- MODULE MCListings -----------------------------
(* Model values for TLC.                                                    *)
EXTENDS Listings

CONSTANTS l1, t1, p1, v1, v2, w1, w2, w3
=============================================================================

----------------------------- MODULE MCInitBatch -----------------------------
(***************************************************************************)
(* Batches for InitBatch.                                                  *)
(***************************************************************************)
EXTENDS InitBatch

CONSTANTS p1, p2, p3

\* A batch of three in one order, and one of two in the other.
MCBatches == {<<p1, p2, p3>>, <<p3, p1>>}
=============================================================================

--------------------------- MODULE MCFetchBatch ---------------------------
(***************************************************************************)
(* Model values and lists of pools for FetchBatch.                         *)
(***************************************************************************)
EXTENDS FetchBatch, TLC

CONSTANTS c1, c2, p1, p2, p3

\* Initialize: two calls that meet at p1; p2 has an unknown factory.
OverlappingAddrs == (c1 :> <<p1, p2>>) @@ (c2 :> <<p3, p1>>)

\* getReserves: three pools, so that slots are reused, and a call of two that may hang.
ReservesAddrs == (c1 :> <<p1, p2, p3>>) @@ (c2 :> <<p3, p1>>)
=============================================================================

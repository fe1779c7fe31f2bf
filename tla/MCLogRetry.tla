------------------------------ MODULE MCLogRetry ------------------------------
(***************************************************************************)
(* Configured values for LogRetry, with an int of three bits.              *)
(***************************************************************************)
EXTENDS LogRetry

\* One, two and three attempts, the overflow, and two negative values.
Retries == {-4, -1, 0, 1, 2, 3}
===============================================================================

----------------------------- MODULE MCRefcount -----------------------------
(* Refcount on two addresses with an int of at most 3, two threads that    *)
(* begin requests, and clients that may hold more than an int counts.      *)
EXTENDS Refcount

CONSTANTS d1, d2, t1, t2

MCData == {d1, d2}
MCThreads == {t1, t2}
MCIntMax == 3
MCMaxHeld == 5
=============================================================================

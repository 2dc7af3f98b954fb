----------------------------- MODULE MCCapacity -----------------------------
(* One real runner against a pool for a small cap; two clusters share the queue *)
EXTENDS Capacity

CONSTANTS r1

MCRunners == {r1}
=============================================================================

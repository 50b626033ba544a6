----------------------------- MODULE MCDelivery -----------------------------
EXTENDS Delivery, TLC

CONSTANTS r1, r2, u1, i1, t1, t2

Symmetry == Permutations({t1, t2})
=============================================================================

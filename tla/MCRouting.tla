----------------------------- MODULE MCRouting -----------------------------
\* Small instances of Routing.
EXTENDS Routing, TLC

CONSTANTS v1, v2, a1, a2

OneVerify     == {v1}
TwoVerifies   == {v1, v2}
OneAssociate  == {a1}
TwoAssociates == {a1, a2}

Symmetry == Permutations({v1, v2}) \cup Permutations({a1, a2})
=============================================================================

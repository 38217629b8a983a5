----------------------------- MODULE MCEarnings -----------------------------
\* Small instances of Earnings.
EXTENDS Earnings, TLC

CONSTANTS v1, v2, v3, a1, a2

TwoVerifies   == {v1, v2}
ThreeVerifies == {v1, v2, v3}
OneAssociate  == {a1}
TwoAssociates == {a1, a2}

\* Odd prices, so that conversions and shares leave remainders; the second
\* configuration lowers the SLA price and drops an asset.
Usual   == [sla |-> 7, grace |-> 6, assets |-> {"USDC", "EURC"}]
Cheaper == [sla |-> 3, grace |-> 0, assets |-> {"EURC"}]
TwoConfigs == {Usual, Cheaper}

\* With RateScale 10: 1.3 and 0.7 dollars a euro.
TwoRates       == {13, 7}
TwoCommissions == {2, 5}

Symmetry == Permutations(Verifies) \cup Permutations(Associates)
=============================================================================

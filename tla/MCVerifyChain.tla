--------------------------- MODULE MCVerifyChain ---------------------------
(***************************************************************************)
(* Small instances of VerifyChain for TLC.                                 *)
(***************************************************************************)
EXTENDS VerifyChain, TLC

CONSTANTS v1, v2, v3, w1, t1, t2

TwoVerifies   == {v1, v2}
ThreeVerifies == {v1, v2, v3}
OneWallet     == {w1}
TwoTxs        == {t1, t2}

\* A quote with a grace window and one without.
BothTerms  == {[sla |-> 1, grace |-> 2], [sla |-> 1, grace |-> Null]}
ShortTerms == {[sla |-> 1, grace |-> Null]}

Symmetry ==
    Permutations(Verifies) \cup Permutations(Wallets) \cup Permutations(Txs)
=============================================================================

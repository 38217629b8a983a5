---------------------------- MODULE MCAdmission ----------------------------
\* A small instance of Admission.
EXTENDS Admission

CONSTANTS r1, r2, r3, w1, w2

ThreeRequests == {r1, r2, r3}
TwoWallets    == {w1, w2}
=============================================================================

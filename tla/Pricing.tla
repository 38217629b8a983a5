------------------------------- MODULE Pricing -------------------------------
(***************************************************************************)
(* The arithmetic of contract v3: basis prices in cents of euro, converted *)
(* at a reference rate, rounded up to the cent, expressed in a token's     *)
(* smallest unit; and the responder's share of an unlock.                  *)
(*                                                                         *)
(* Amounts are integers: cents, or atomic units where a name says so.  A   *)
(* rate is an integer in units of 1 / RateScale.  Decimals of 2 and more   *)
(* only (with fewer, build_terms raises); Decimal's 28 digits are not      *)
(* reached by the amounts load_config is given.                            *)
(***************************************************************************)
EXTENDS Integers

CONSTANTS
    RateScale,     \* 10^8: rates have eight decimals
    AtomicPerCent  \* 10^4: the tokens have six decimals

ASSUME ScalesAssumption ==
    RateScale \in Nat \ {0} /\ AtomicPerCent \in Nat \ {0}

CeilDiv(a, b) == (a + b - 1) \div b

\* Rounded down; for comparison.
Convert_Down(cents, rate) == (cents * rate) \div RateScale

\* Rounded up to the cent.
Convert(cents, rate) == CeilDiv(cents * rate, RateScale)

ToAtomic(cents) == cents * AtomicPerCent

\* The responder's share of an unlock price, in atomic units.
Share(unlock, commission, sla) == (unlock * commission) \div sla
=============================================================================

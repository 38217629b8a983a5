--------------------------- MODULE PrepaidAnswers ---------------------------
(***************************************************************************)
(* What the core promises for an entry payment, without rows, journals,    *)
(* credits or clocks: a recorded payment buys one answer.  Its request     *)
(* waits in the human queue; if nobody answers, the wallet is owed another *)
(* place in the queue for the same money, as often as that happens; once   *)
(* answered, the payment is spent.  No other transition exists, and a      *)
(* wallet has one paid request in the queue at a time.                     *)
(***************************************************************************)
EXTENDS FiniteSets

CONSTANTS
    Payments,  \* the entry payments that may be made
    Wallets,
    NoWallet

VARIABLES
    token,     \* what has become of each payment
    owner      \* the wallet on whose request it was recorded

TypeOK ==
    /\ token \in [Payments -> {"unpaid", "queued", "owed", "spent"}]
    /\ owner \in [Payments -> Wallets \cup {NoWallet}]

Init ==
    /\ token = [p \in Payments |-> "unpaid"]
    /\ owner = [p \in Payments |-> NoWallet]

QueueFree(w) == \A p \in Payments : owner[p] = w => token[p] # "queued"

\* The payment is recorded and its request enters the human queue.
Record(p, w) ==
    /\ token[p] = "unpaid"
    /\ QueueFree(w)
    /\ token' = [token EXCEPT ![p] = "queued"]
    /\ owner' = [owner EXCEPT ![p] = w]

\* A human answers.
Spend(p) ==
    /\ token[p] = "queued"
    /\ token' = [token EXCEPT ![p] = "spent"]
    /\ UNCHANGED owner

\* Nobody answered these in time.
Lapse(S) ==
    /\ S # {}
    /\ \A p \in S : token[p] = "queued"
    /\ token' = [p \in Payments |-> IF p \in S THEN "owed" ELSE token[p]]
    /\ UNCHANGED owner

\* The wallet asks again, with the place it is owed.
Requeue(p) ==
    /\ token[p] = "owed"
    /\ QueueFree(owner[p])
    /\ token' = [token EXCEPT ![p] = "queued"]
    /\ UNCHANGED owner

Next ==
    \/ \E p \in Payments, w \in Wallets : Record(p, w)
    \/ \E p \in Payments : Spend(p) \/ Requeue(p)
    \/ \E S \in SUBSET Payments : Lapse(S)

Spec == Init /\ [][Next]_<<token, owner>>
=============================================================================

-------------------------- MODULE AtomicAdmission --------------------------
(***************************************************************************)
(* What the core promises about admissions, without statements, locks,     *)
(* connections or clocks: each one is a single step on the books, taken    *)
(* while the wallet has nothing live, and funded by a payment, by a free   *)
(* use that is left or by a credit nobody else has used.  A chain that     *)
(* expires unanswered gives back exactly what it was funded with.          *)
(***************************************************************************)
EXTENDS Integers, FiniteSets

CONSTANTS
    Rows,          \* the chains that may be admitted
    Wallets,
    Null,
    FreeTierCount  \* free uses of a wallet

VARIABLES
    status,        \* of each row; "none" until it is admitted
    owner,         \* the wallet it was admitted for
    source,        \* what funds it
    freeUse,       \* rows that hold a free use
    granted,       \* rows whose expiry minted a credit
    usedBy         \* the row each of those credits funds

books == <<status, owner, source, freeUse, granted, usedBy>>

Init ==
    /\ status = [r \in Rows |-> "none"]
    /\ owner = [r \in Rows |-> Null]
    /\ source = [r \in Rows |-> "none"]
    /\ freeUse = {} /\ granted = {}
    /\ usedBy = [r \in Rows |-> Null]

Waiting == {r \in Rows : status[r] = "admission_pending"}
Queued  == {r \in Rows : status[r] = "pending"}

Active(w)      == {r \in Waiting \cup Queued : owner[r] = w}
FreeUsed(w)    == {r \in freeUse : owner[r] = w}
OpenCredits(w) == {c \in granted : owner[c] = w /\ usedBy[c] = Null}

\* The row appears, with the wallet it belongs to and what it rests on.
Insert(r, w, st, from) ==
    /\ status[r] = "none"
    /\ Active(w) = {}
    /\ status' = [status EXCEPT ![r] = st]
    /\ owner' = [owner EXCEPT ![r] = w]
    /\ source' = [source EXCEPT ![r] = from]

AdmitPaid(r, w) ==
    /\ Insert(r, w, "admission_pending", "x402")
    /\ UNCHANGED <<freeUse, granted, usedBy>>

AdmitFree(r, w) ==
    /\ Cardinality(FreeUsed(w)) < FreeTierCount
    /\ Insert(r, w, "pending", "initial_free")
    /\ freeUse' = freeUse \cup {r}
    /\ UNCHANGED <<granted, usedBy>>

AdmitOnCredit(r, w, c) ==
    /\ c \in OpenCredits(w)
    /\ Insert(r, w, "pending", "failure_credit")
    /\ usedBy' = [usedBy EXCEPT ![c] = r]
    /\ UNCHANGED <<freeUse, granted>>

\* The entry payment of a waiting row arrives.
Settle(r) ==
    /\ r \in Waiting
    /\ status' = [status EXCEPT ![r] = "pending"]
    /\ UNCHANGED <<owner, source, freeUse, granted, usedBy>>

Answer(r) ==
    /\ r \in Queued
    /\ status' = [status EXCEPT ![r] = "answered"]
    /\ UNCHANGED <<owner, source, freeUse, granted, usedBy>>

\* The payment of some never came, and nobody answered others in time: a paid
\* chain of these leaves a credit, any other hands back its entitlement.
Lapse(unpaid, late) ==
    /\ unpaid \cup late # {}
    /\ status' = [r \in Rows |-> IF r \in unpaid THEN "failed"
                                 ELSE IF r \in late THEN "expired" ELSE status[r]]
    /\ granted' = granted \cup {r \in late : source[r] = "x402"}
    /\ freeUse' = freeUse \ late
    /\ usedBy' = [c \in Rows |-> IF usedBy[c] \in late THEN Null ELSE usedBy[c]]
    /\ UNCHANGED <<owner, source>>

Next ==
    \/ \E r \in Rows, w \in Wallets :
        \/ AdmitPaid(r, w)
        \/ AdmitFree(r, w)
        \/ \E c \in Rows : AdmitOnCredit(r, w, c)
    \/ \E r \in Rows : Settle(r) \/ Answer(r)
    \/ \E unpaid \in SUBSET Waiting, late \in SUBSET Queued : Lapse(unpaid, late)

Spec == Init /\ [][Next]_books
=============================================================================

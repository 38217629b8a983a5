------------------------------ MODULE PaidGates ------------------------------
(***************************************************************************)
(* What verify-api and the core agree on about the two payments of a       *)
(* chain, without requests, captures, reports or journals.  A payment is   *)
(* charged only for a gate it is due at; the core lets it through later,   *)
(* if it still can: the entry while its chain waits for it, the unlock     *)
(* while the answer is still hidden.  What is charged and never comes      *)
(* through stands here as it does in the code: for the entry there is one  *)
(* charge per chain, for the unlock there may be more.                     *)
(***************************************************************************)
CONSTANTS
    Chains,
    Txs,    \* settlements that may happen
    Null

VARIABLES
    status, source,    \* of each chain
    payFor, payKind,   \* the gate each settlement was charged for
    entryTx, unlockTx, \* the settlement that opened a chain's gates
    unlocked           \* chains whose answer is released

rows    == <<status, source>>
charges == <<payFor, payKind>>
opened  == <<entryTx, unlockTx, unlocked>>
gates   == <<rows, charges, opened>>

Init ==
    /\ status = [c \in Chains |-> "none"]
    /\ source = [c \in Chains |-> "none"]
    /\ payFor = [t \in Txs |-> Null]
    /\ payKind = [t \in Txs |-> "none"]
    /\ entryTx = [c \in Chains |-> Null]
    /\ unlockTx = [c \in Chains |-> Null]
    /\ unlocked = {}

\* A chain waits for its entry payment, or is funded without one.
Admit(c, src) ==
    /\ status[c] = "none"
    /\ status' = [status EXCEPT ![c] =
          IF src = "x402" THEN "admission_pending" ELSE "pending"]
    /\ source' = [source EXCEPT ![c] = src]
    /\ UNCHANGED <<charges, opened>>

Due(c, kind) ==
    \/ kind = "entry" /\ source[c] = "x402"
    \/ kind = "unlock" /\ status[c] = "answered" /\ source[c] # "free"

\* Several settle at once when verify-api stops while it waits for them.
Charge ==
    /\ UNCHANGED <<rows, opened>>
    /\ payFor' # payFor
    /\ payFor' \in [Txs -> Chains \cup {Null}]
    /\ payKind' \in [Txs -> {"none", "entry", "unlock"}]
    /\ \A t \in Txs :
          \/ payFor'[t] = payFor[t] /\ payKind'[t] = payKind[t]
          \/ payFor[t] = Null /\ payFor'[t] \in Chains /\ Due(payFor'[t], payKind'[t])
    /\ \A t, u \in Txs :
          /\ payFor[t] = Null /\ payKind'[t] = "entry" /\ payKind'[u] = "entry"
          /\ payFor'[t] = payFor'[u]
          => t = u

OpenEntry(c) ==
    /\ status[c] = "admission_pending" /\ entryTx[c] = Null
    /\ status' = [status EXCEPT ![c] = "pending"]
    /\ \E t \in Txs :
          /\ payFor[t] = c /\ payKind[t] = "entry"
          /\ entryTx' = [entryTx EXCEPT ![c] = t]
    /\ UNCHANGED <<source, charges, unlockTx, unlocked>>

OpenUnlock(c) ==
    /\ status[c] = "answered" /\ c \notin unlocked /\ unlockTx[c] = Null
    /\ unlocked' = unlocked \cup {c}
    /\ \E t \in Txs :
          /\ payFor[t] = c /\ payKind[t] = "unlock"
          /\ unlockTx' = [unlockTx EXCEPT ![c] = t]
    /\ UNCHANGED <<rows, charges, entryTx>>

\* The second gate of a free chain costs nothing.
OpenFree(c) ==
    /\ status[c] = "answered" /\ c \notin unlocked /\ source[c] = "free"
    /\ unlocked' = unlocked \cup {c}
    /\ UNCHANGED <<rows, charges, entryTx, unlockTx>>

Answer(c) ==
    /\ status[c] = "pending"
    /\ status' = [status EXCEPT ![c] = "answered"]
    /\ UNCHANGED <<source, charges, opened>>

Waiting == {c \in Chains : status[c] = "admission_pending"}
Queued  == {c \in Chains : status[c] = "pending"}

\* Some were not paid in time, others not answered in time.
Lapse(unpaid, late) ==
    /\ unpaid \cup late # {}
    /\ status' = [c \in Chains |-> IF c \in unpaid THEN "failed"
                                   ELSE IF c \in late THEN "expired" ELSE status[c]]
    /\ UNCHANGED <<source, charges, opened>>

Next ==
    \/ \E c \in Chains :
        \/ \E src \in {"x402", "credit", "free"} : Admit(c, src)
        \/ OpenEntry(c) \/ OpenUnlock(c) \/ OpenFree(c) \/ Answer(c)
    \/ Charge
    \/ \E unpaid \in SUBSET Waiting, late \in SUBSET Queued : Lapse(unpaid, late)

Spec == Init /\ [][Next]_gates
=============================================================================

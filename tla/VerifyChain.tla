---------------------------- MODULE VerifyChain ----------------------------
(***************************************************************************)
(* The life of a verify chain in the Verifi core: admission, settlement    *)
(* journal, human answer, expiry, entitlements and the unlock gate.        *)
(*                                                                         *)
(* One action per database transaction of core/api/server.py and           *)
(* core/windows.py.  The columns of the verifies table are functions on    *)
(* Verifies (the row ids), those of settlement_journal functions on Txs    *)
(* (one settled x402 transaction pays one gate of one chain), and a        *)
(* failure_credit row is named by its source_verify_id, which is unique.   *)
(* An operator named Op_Variant is a faulty variant of Op that the system   *)
(* must not have; no action uses it.                                       *)
(* Who the answering associate is lives in Routing; the requests that are  *)
(* still on their way to create_verify's transaction live in Admission.    *)
(***************************************************************************)
EXTENDS Integers, FiniteSets

CONSTANTS
    Verifies,      \* ids of verify rows; bounds how many chains are created
    Wallets,       \* requesting agents (agent_id)
    Txs,           \* settled x402 transactions
    Terms,         \* quotes a chain can bind: the seconds of its windows
    Null,          \* SQL NULL
    FreeTierCount, \* instances.free_tier_count
    AbandonAfter,  \* the 10 minutes an admission may wait for its settlement
    V2Window,      \* expires_at default of rows without v3 terms
    MaxAttempts,   \* SETTLEMENT_MAX_ATTEMPTS
    LastCreate,    \* bound: no request is sent after this time
    MaxTime,       \* bound: after this the clock runs only towards a deadline
    MaxCrashes     \* bound: core restarts

(***************************************************************************)
(* load_config refuses other windows: a grace window is either absent or   *)
(* longer than the SLA window.                                             *)
(***************************************************************************)
ASSUME TermsAssumption ==
    \A q \in Terms : /\ q.sla \in Nat \ {0}
                     /\ q.grace # Null => q.grace \in Nat /\ q.grace > q.sla

ASSUME NullAssumption ==
    /\ Null \notin Verifies /\ Null \notin Wallets /\ Null \notin Txs
    /\ Null \notin Terms /\ Null \notin Nat

ASSUME BoundsAssumption ==
    /\ FreeTierCount \in Nat /\ AbandonAfter \in Nat /\ V2Window \in Nat
    /\ MaxAttempts \in Nat \ {0} /\ LastCreate \in Nat /\ MaxTime \in Nat
    /\ MaxCrashes \in Nat

ASSUME FiniteAssumption == IsFiniteSet(Verifies) /\ IsFiniteSet(Txs)

VARIABLES
    now,            \* the database clock
    status, agent, entrySource, terms, createdAt, admittedAt, respondedAt,
    appliedWindow, resultUnlocked, paymentTx, unlockTx,
    granted,        \* chains whose expiry minted a failure_credit
    creditUsedBy,   \* consumed_by_verify_id of those credits
    freeUsedBy,     \* consumed_by_verify_id of each wallet's initial_free rows
    payFor, payKind,\* what a transaction that settled on chain paid for
    journal,        \* state of the transaction's settlement_journal row
    attempts,       \* and the row's failed reconciliations
    reporting,      \* transactions record_payment has journaled, not yet applied
    batch,          \* rows the reconciliation pass has selected
    crashes

rowVars     == <<status, agent, entrySource, terms, createdAt, admittedAt,
                 respondedAt, appliedWindow>>
gateVars    == <<resultUnlocked, paymentTx, unlockTx>>
creditVars  == <<granted, creditUsedBy, freeUsedBy>>
payVars     == <<payFor, payKind>>
journalVars == <<journal, attempts>>
coreVars    == <<reporting, batch, crashes>>
vars == <<now, rowVars, gateVars, creditVars, payVars, journalVars, coreVars>>

FreeNumbers == 1..FreeTierCount
Live        == {"admission_pending", "pending"}
\* accepted, rejected and refined differ only in the text shown: "answered".
Final       == {"answered", "expired", "failed"}

RowTypes ==
    /\ status \in [Verifies -> {"none"} \cup Live \cup Final]
    /\ agent \in [Verifies -> Wallets \cup {Null}]
    /\ entrySource \in [Verifies -> {"none", "x402", "initial_free", "failure_credit"}]
    /\ terms \in [Verifies -> Terms \cup {Null}]
    /\ createdAt \in [Verifies -> Nat]
    /\ admittedAt \in [Verifies -> Nat]
    /\ respondedAt \in [Verifies -> Nat]
    /\ appliedWindow \in [Verifies -> {"none", "sla", "grace"}]

GateTypes ==
    /\ resultUnlocked \in [Verifies -> BOOLEAN]
    /\ paymentTx \in [Verifies -> Txs \cup {Null}]
    /\ unlockTx \in [Verifies -> Txs \cup {Null}]

CreditTypes ==
    /\ granted \subseteq Verifies
    /\ creditUsedBy \in [Verifies -> Verifies \cup {Null}]
    /\ freeUsedBy \in [Wallets -> [FreeNumbers -> Verifies \cup {Null}]]

JournalTypes ==
    /\ payFor \in [Txs -> Verifies \cup {Null}]
    /\ payKind \in [Txs -> {"none", "entry", "unlock"}]
    /\ journal \in [Txs -> {"none", "unapplied", "applied"}]
    /\ attempts \in [Txs -> Nat]

TypeOK ==
    /\ RowTypes /\ GateTypes /\ CreditTypes /\ JournalTypes
    /\ now \in Nat
    /\ reporting \subseteq Txs
    /\ batch \subseteq Txs
    /\ crashes \in Nat

Init ==
    /\ now = 0
    /\ status = [v \in Verifies |-> "none"]
    /\ agent = [v \in Verifies |-> Null]
    /\ entrySource = [v \in Verifies |-> "none"]
    /\ terms = [v \in Verifies |-> Null]
    /\ createdAt = [v \in Verifies |-> 0]
    /\ admittedAt = [v \in Verifies |-> 0]
    /\ respondedAt = [v \in Verifies |-> 0]
    /\ appliedWindow = [v \in Verifies |-> "none"]
    /\ resultUnlocked = [v \in Verifies |-> FALSE]
    /\ paymentTx = [v \in Verifies |-> Null]
    /\ unlockTx = [v \in Verifies |-> Null]
    /\ granted = {}
    /\ creditUsedBy = [v \in Verifies |-> Null]
    /\ freeUsedBy = [w \in Wallets |-> [n \in FreeNumbers |-> Null]]
    /\ payFor = [t \in Txs |-> Null]
    /\ payKind = [t \in Txs |-> "none"]
    /\ journal = [t \in Txs |-> "none"]
    /\ attempts = [t \in Txs |-> 0]
    /\ reporting = {}
    /\ batch = {}
    /\ crashes = 0

-----------------------------------------------------------------------------
(***************************************************************************)
(* Deadlines.  _admit_v3 computes them once, at the admission that sets    *)
(* admittedAt and terms, so they are functions of those two columns.       *)
(***************************************************************************)

SlaDeadline(v) == admittedAt[v] + terms[v].sla

HasGrace(v) == terms[v].grace # Null

GraceDeadline(v) == admittedAt[v] + terms[v].grace

ExpiresAt(v) ==
    IF terms[v] = Null THEN createdAt[v] + V2Window
    ELSE IF HasGrace(v) THEN GraceDeadline(v)
    ELSE SlaDeadline(v)

WindowAt(v) ==
    IF terms[v] = Null THEN "none"
    ELSE IF now <= SlaDeadline(v) THEN "sla"
    ELSE IF HasGrace(v) /\ now <= GraceDeadline(v) THEN "grace"
    ELSE "none"

-----------------------------------------------------------------------------
(***************************************************************************)
(* create_verify: the admission transaction, under the wallet's advisory   *)
(* lock.  The checks before it only refuse and are in Admission.           *)
(***************************************************************************)

ActiveChains(w) == {v \in Verifies : agent[v] = w /\ status[v] \in Live}

OpenCredits_IgnoreUse(w) == {c \in granted : agent[c] = w}

OpenCredits(w) == {c \in granted : agent[c] = w /\ creditUsedBy[c] = Null}

FreeUnused(w) == {n \in FreeNumbers : freeUsedBy[w][n] = Null}

InsertRow(v, w, source, st, q) ==
    /\ now <= LastCreate
    /\ status[v] = "none"
    /\ ActiveChains(w) = {}
    /\ status' = [status EXCEPT ![v] = st]
    /\ agent' = [agent EXCEPT ![v] = w]
    /\ entrySource' = [entrySource EXCEPT ![v] = source]
    /\ terms' = [terms EXCEPT ![v] = q]
    /\ createdAt' = [createdAt EXCEPT ![v] = now]
    /\ UNCHANGED <<now, respondedAt, appliedWindow, gateVars, payVars, journalVars, coreVars>>

\* x402: the row binds the quote its payment matched and waits for settlement.
CreatePaid(v, w, q) ==
    /\ InsertRow(v, w, "x402", "admission_pending", q)
    /\ UNCHANGED <<admittedAt, creditVars>>

\* initial_free: the lowest released or unminted free_use_number is taken.
\* (A released row and one never minted are alike: both lack a consumer.)
CreateFree(v, w) ==
    /\ FreeUnused(w) # {}
    /\ InsertRow(v, w, "initial_free", "pending", Null)
    /\ admittedAt' = [admittedAt EXCEPT ![v] = now]
    /\ \E n \in FreeUnused(w) :
        /\ \A m \in FreeUnused(w) : n <= m
        /\ freeUsedBy' = [freeUsedBy EXCEPT ![w][n] = v]
    /\ UNCHANGED <<granted, creditUsedBy>>

\* failure_credit: the oldest open credit is consumed.  With a free number left
\* this branch is reached when the platform's daily free budget is spent.
CreateOnCredit(v, w, q) ==
    /\ InsertRow(v, w, "failure_credit", "pending", q)
    /\ admittedAt' = [admittedAt EXCEPT ![v] = now]
    /\ \E c \in OpenCredits(w) :
        /\ \A d \in OpenCredits(w) : respondedAt[c] <= respondedAt[d]
        /\ creditUsedBy' = [creditUsedBy EXCEPT ![c] = v]
    /\ UNCHANGED <<granted, freeUsedBy>>

Create ==
    \E v \in Verifies, w \in Wallets :
        \/ \E q \in Terms : CreatePaid(v, w, q)
        \/ CreateFree(v, w)
        \/ \E q \in Terms : CreateOnCredit(v, w, q)

-----------------------------------------------------------------------------
(***************************************************************************)
(* Settlements.  The x402 facilitator settles after the handler that       *)
(* created the row, or checked the answer, has returned: an entry at most  *)
(* once per chain, an unlock whenever a check that passed earlier allowed  *)
(* it.  verify-api then reports the transaction, possibly more than once.  *)
(***************************************************************************)

Settle(t, v, kind) ==
    /\ payFor[t] = Null
    /\ \/ /\ kind = "entry"
          /\ entrySource[v] = "x402"
          /\ \A u \in Txs : ~(payFor[u] = v /\ payKind[u] = "entry")
       \/ /\ kind = "unlock"
          /\ status[v] = "answered"
          /\ entrySource[v] # "initial_free"
    /\ payFor' = [payFor EXCEPT ![t] = v]
    /\ payKind' = [payKind EXCEPT ![t] = kind]
    /\ UNCHANGED <<now, rowVars, gateVars, creditVars, journalVars, coreVars>>

EntryApplicable_AnyStatus(t) ==
    LET v == payFor[t] IN
    paymentTx[v] = t \/ (paymentTx[v] = Null /\ entrySource[v] = "x402")

EntryApplicable(t) ==
    LET v == payFor[t] IN
    \/ paymentTx[v] = t
    \/ /\ paymentTx[v] = Null
       /\ status[v] = "admission_pending"
       /\ entrySource[v] = "x402"

UnlockApplicable(t) ==
    LET v == payFor[t] IN
    \/ unlockTx[v] = t
    \/ /\ unlockTx[v] = Null
       /\ status[v] = "answered"
       /\ ~resultUnlocked[v]
       /\ entrySource[v] # "initial_free"
       /\ appliedWindow[v] # "none"

ApplyEntry(t) ==
    LET v == payFor[t] IN
    /\ EntryApplicable(t)
    /\ IF paymentTx[v] = t
       THEN UNCHANGED <<status, admittedAt, paymentTx>>
       ELSE /\ status' = [status EXCEPT ![v] = "pending"]
            /\ admittedAt' = [admittedAt EXCEPT ![v] = now]
            /\ paymentTx' = [paymentTx EXCEPT ![v] = t]
    /\ UNCHANGED <<resultUnlocked, unlockTx>>

ApplyUnlock(t) ==
    LET v == payFor[t] IN
    /\ UnlockApplicable(t)
    /\ resultUnlocked' = [resultUnlocked EXCEPT ![v] = TRUE]
    /\ unlockTx' = [unlockTx EXCEPT ![v] = t]
    /\ UNCHANGED <<status, admittedAt, paymentTx>>

\* _apply_settlement together with the UPDATE that marks the row applied.
ApplySettlement(t) ==
    /\ \/ payKind[t] = "entry" /\ ApplyEntry(t)
       \/ payKind[t] = "unlock" /\ ApplyUnlock(t)
    /\ journal' = [journal EXCEPT ![t] = "applied"]
    /\ UNCHANGED <<now, agent, entrySource, terms, createdAt, respondedAt,
                   appliedWindow, creditVars, payVars>>

JournalReport_Resets(t) ==
    /\ payFor[t] # Null
    /\ t \notin reporting
    /\ reporting' = reporting \cup {t}
    /\ journal' = [journal EXCEPT ![t] = "unapplied"]
    /\ UNCHANGED <<now, rowVars, gateVars, creditVars, payVars, attempts, batch, crashes>>

\* record_payment, first statement: journaled durably, ON CONFLICT DO NOTHING.
JournalReport(t) ==
    /\ payFor[t] # Null
    /\ t \notin reporting
    /\ reporting' = reporting \cup {t}
    /\ journal' = [journal EXCEPT ![t] = IF @ = "none" THEN "unapplied" ELSE @]
    /\ UNCHANGED <<now, rowVars, gateVars, creditVars, payVars, attempts, batch, crashes>>

\* record_payment, second transaction.
ApplyReport(t) ==
    /\ t \in reporting
    /\ ApplySettlement(t)
    /\ reporting' = reporting \ {t}
    /\ UNCHANGED <<attempts, batch, crashes>>

\* The second transaction rolls back: a 409, or a fault such as an exception
\* out of the Telegram call that _route_admitted_verify makes inside it.
ReportFails(t) ==
    /\ t \in reporting
    /\ reporting' = reporting \ {t}
    /\ UNCHANGED <<now, rowVars, gateVars, creditVars, payVars, journalVars, batch, crashes>>

\* _reconcile_settlements_once: the SELECT, then one transaction per row.
SelectUnapplied ==
    /\ batch = {}
    /\ batch' = {t \in Txs : journal[t] = "unapplied" /\ attempts[t] < MaxAttempts}
    /\ batch' # {}
    /\ UNCHANGED <<now, rowVars, gateVars, creditVars, payVars, journalVars, reporting, crashes>>

Reconcile(t) ==
    /\ t \in batch
    /\ ApplySettlement(t)
    /\ batch' = batch \ {t}
    /\ UNCHANGED <<attempts, reporting, crashes>>

ReconcileFails_Uncounted(t) ==
    /\ t \in batch
    /\ batch' = batch \ {t}
    /\ UNCHANGED <<now, rowVars, gateVars, creditVars, payVars, journalVars, reporting, crashes>>

ReconcileFails(t) ==
    /\ t \in batch
    /\ attempts' = [attempts EXCEPT ![t] = @ + 1]
    /\ batch' = batch \ {t}
    /\ UNCHANGED <<now, rowVars, gateVars, creditVars, payVars, journal, reporting, crashes>>

\* A core restart forgets the requests and the pass in flight, nothing else.
CoreCrash ==
    /\ crashes < MaxCrashes
    /\ crashes' = crashes + 1
    /\ reporting' = {}
    /\ batch' = {}
    /\ UNCHANGED <<now, rowVars, gateVars, creditVars, payVars, journalVars>>

-----------------------------------------------------------------------------
(***************************************************************************)
(* Answer, expiry and the free unlock.                                     *)
(***************************************************************************)

Answerable_IgnoreDeadline(v) == status[v] = "pending"

Answerable_ThroughExpiry(v) == status[v] \in {"pending", "expired"}

Answerable(v) == status[v] = "pending" /\ now <= ExpiresAt(v)

Answer(v) ==
    /\ Answerable(v)
    /\ status' = [status EXCEPT ![v] = "answered"]
    /\ respondedAt' = [respondedAt EXCEPT ![v] = now]
    /\ appliedWindow' = [appliedWindow EXCEPT ![v] = WindowAt(v)]
    /\ UNCHANGED <<now, agent, entrySource, terms, createdAt, admittedAt,
                   gateVars, creditVars, payVars, journalVars, coreVars>>

Abandoned_Never == {}

Abandoned ==
    {v \in Verifies : status[v] = "admission_pending" /\ createdAt[v] + AbandonAfter < now}

Overdue == {v \in Verifies : status[v] = "pending" /\ ExpiresAt(v) < now}

\* An x402 chain that nobody answered earns its wallet one entry credit.
CreditEarners == {v \in Overdue : entrySource[v] = "x402"}

\* Any other chain hands its entitlement back instead.
Released_Nothing == {}

Released == Overdue \ CreditEarners

StatusAfterPass(v) ==
    IF v \in Abandoned THEN "failed"
    ELSE IF v \in Overdue THEN "expired" ELSE status[v]

\* _expire_stale_once: one transaction for every stale chain.
ExpireStale ==
    /\ Abandoned \cup Overdue # {}
    /\ status' = [v \in Verifies |-> StatusAfterPass(v)]
    /\ respondedAt' = [v \in Verifies |-> IF v \in Abandoned \cup Overdue
                                          THEN now ELSE respondedAt[v]]
    /\ granted' = granted \cup CreditEarners
    /\ creditUsedBy' = [c \in Verifies |-> IF creditUsedBy[c] \in Released
                                           THEN Null ELSE creditUsedBy[c]]
    /\ freeUsedBy' = [w \in Wallets |-> [n \in FreeNumbers |->
                        IF freeUsedBy[w][n] \in Released THEN Null ELSE freeUsedBy[w][n]]]
    /\ UNCHANGED <<now, agent, entrySource, terms, createdAt, admittedAt, appliedWindow,
                   gateVars, payVars, journalVars, coreVars>>

UnlockFree_AnySource(v) ==
    /\ status[v] = "answered"
    /\ ~resultUnlocked[v]
    /\ resultUnlocked' = [resultUnlocked EXCEPT ![v] = TRUE]
    /\ UNCHANGED <<now, rowVars, paymentTx, unlockTx, creditVars, payVars, journalVars, coreVars>>

\* entitlement_unlock: the second gate of a full-free chain.
UnlockFree(v) ==
    /\ entrySource[v] = "initial_free"
    /\ status[v] = "answered"
    /\ ~resultUnlocked[v]
    /\ resultUnlocked' = [resultUnlocked EXCEPT ![v] = TRUE]
    /\ UNCHANGED <<now, rowVars, paymentTx, unlockTx, creditVars, payVars, journalVars, coreVars>>

\* Some live chain has a deadline the clock has not passed.
DeadlineAhead ==
    \E v \in Verifies :
        \/ status[v] = "admission_pending" /\ now <= createdAt[v] + AbandonAfter
        \/ status[v] = "pending" /\ now <= ExpiresAt(v)

\* Bounded: past MaxTime the clock only runs while a deadline lies ahead.
Tick ==
    /\ now < MaxTime \/ DeadlineAhead
    /\ now' = now + 1
    /\ UNCHANGED <<rowVars, gateVars, creditVars, payVars, journalVars, coreVars>>

-----------------------------------------------------------------------------

ChainStep(v) == Answer(v) \/ UnlockFree(v)

TxStep(t) ==
    \/ \E v \in Verifies, kind \in {"entry", "unlock"} : Settle(t, v, kind)
    \/ JournalReport(t)
    \/ ApplyReport(t)
    \/ ReportFails(t)
    \/ Reconcile(t)
    \/ ReconcileFails(t)

Next ==
    \/ Create
    \/ \E v \in Verifies : ChainStep(v)
    \/ \E t \in Txs : TxStep(t)
    \/ SelectUnapplied
    \/ CoreCrash
    \/ ExpireStale
    \/ Tick

Spec == Init /\ [][Next]_vars

\* The clock runs and the core's two loops run; nothing else is owed: no agent
\* need pay, no associate need answer, no report need arrive.
Fairness ==
    /\ WF_vars(Tick)
    /\ WF_vars(ExpireStale)
    /\ WF_vars(SelectUnapplied)
    /\ \A t \in Txs : WF_vars(Reconcile(t) \/ ReconcileFails(t))

FairSpec == Spec /\ Fairness

-----------------------------------------------------------------------------
(***************************************************************************)
(* Properties.                                                             *)
(***************************************************************************)

Admitted == {v \in Verifies : status[v] \in {"pending", "answered"}}

PaidEntry(v) ==
    LET t == paymentTx[v] IN
    /\ t # Null
    /\ payFor[t] = v
    /\ payKind[t] = "entry"
    /\ journal[t] = "applied"

\* A wallet never has two chains on their way to, or in, the human queue,
\* whatever mix of paid, free and credit admissions it sends and however late
\* the settlements of earlier ones arrive (create_verify, lines 852-874).
OneActivePerWallet ==
    \A u, v \in Verifies :
        status[u] \in Live /\ status[v] \in Live /\ agent[u] = agent[v] => u = v

\* Every chain a human is asked or has answered rests on a settled entry
\* payment, on an unanswered paid chain of the same wallet, or on one of the
\* wallet's free numbers; two chains never rest on the same credit.
AdmissionsArePaid ==
    \A v \in Admitted :
        \/ entrySource[v] = "x402" /\ PaidEntry(v) /\ v \notin granted
        \/ /\ entrySource[v] = "failure_credit"
           /\ \E c \in granted :
                /\ creditUsedBy[c] = v
                /\ agent[c] = agent[v]
                /\ status[c] = "expired" /\ entrySource[c] = "x402" /\ PaidEntry(c)
                /\ \A d \in granted : creditUsedBy[d] = v => d = c
        \/ /\ entrySource[v] = "initial_free"
           /\ \E n \in FreeNumbers : freeUsedBy[agent[v]][n] = v

\* Conservation: per wallet, the entry payments recorded equal the paid chains
\* now queued or answered plus the credits still open.  Expiry therefore
\* neither loses a payment nor mints a second admission from it, however often
\* a chain funded by a credit expires again (_expire_stale_once).
PaymentsConserved ==
    \A w \in Wallets :
        Cardinality({t \in Txs : /\ journal[t] = "applied"
                                 /\ payKind[t] = "entry"
                                 /\ agent[payFor[t]] = w})
        = Cardinality({v \in Admitted : agent[v] = w /\ entrySource[v] # "initial_free"})
          + Cardinality(OpenCredits(w))

\* A journal row is marked applied exactly when its transaction stands on the
\* gate it paid for, so a replay by record_payment or by the reconciliation
\* pass, in any order and across a crash, never advances a gate twice.
JournalMatchesGates ==
    \A t \in Txs :
        LET onEntry == \E v \in Verifies : paymentTx[v] = t
            onUnlock == \E v \in Verifies : unlockTx[v] = t
        IN
        /\ journal[t] = "applied" <=> onEntry \/ onUnlock
        /\ onEntry => paymentTx[payFor[t]] = t /\ payKind[t] = "entry"
        /\ onUnlock => unlockTx[payFor[t]] = t /\ payKind[t] = "unlock"

\* A wallet never holds more free chains than its allowance, although a free
\* number returns to it whenever its chain expires unanswered and another chain
\* takes it while the first row is still there to be answered.
FreeAllowanceKept ==
    \A w \in Wallets :
        Cardinality({v \in Admitted : agent[v] = w /\ entrySource[v] = "initial_free"})
        <= FreeTierCount

\* A result is released only for an answered chain, against the unlock payment
\* of that chain or the second gate of a full-free one.
ReleasedOnlyWhenPaid ==
    \A v \in Verifies : resultUnlocked[v] =>
        /\ status[v] = "answered"
        /\ IF entrySource[v] = "initial_free" THEN unlockTx[v] = Null
           ELSE unlockTx[v] # Null /\ payFor[unlockTx[v]] = v

\* The unlock price follows from the instant of the answer alone: an answered
\* v3 chain always has a window (the assertion of core/windows.py is never
\* reached), the window is the one the instant lies in, boundaries included,
\* and no answer lies after the last one.
AnswersArePriced ==
    \A v \in Verifies : status[v] = "answered" /\ terms[v] # Null =>
        IF respondedAt[v] <= SlaDeadline(v) THEN appliedWindow[v] = "sla"
        ELSE /\ appliedWindow[v] = "grace"
             /\ HasGrace(v)
             /\ respondedAt[v] <= GraceDeadline(v)

\* Once a chain is answered, expired or failed nothing that settles later, no
\* second answer and no later expiry pass changes its outcome, its price, its
\* terms or the moment it was decided; a released result stays released.
DecidedOnce ==
    [][\A v \in Verifies :
        /\ status[v] \in Final =>
            /\ status'[v] = status[v]
            /\ respondedAt'[v] = respondedAt[v]
            /\ appliedWindow'[v] = appliedWindow[v]
            /\ terms'[v] = terms[v]
            /\ admittedAt'[v] = admittedAt[v]
            /\ v \in granted <=> v \in granted'
        /\ resultUnlocked[v] => resultUnlocked'[v]]_vars

\* Every request that reaches the core leaves it: a chain waiting for its
\* settlement or for a human is eventually admitted, answered, expired or
\* failed, with no associate and no agent obliged to act.
ChainsResolve ==
    \A v \in Verifies : status[v] \in Live ~> status[v] \in Final

\* Every journaled settlement is eventually applied or has used up the
\* attempts after which it is flagged for manual reconciliation.
JournalDrains ==
    \A t \in Txs : journal[t] = "unapplied" ~>
        (journal[t] = "applied" \/ attempts[t] >= MaxAttempts)

\* record_payment's docstring: "the reconciliation loop finishes the job from
\* the journal, so a settled payment is never lost" (lines 1280-1282).  Stated
\* for an entry that was journaled while its chain still waited for it.
SettledEntryNeverLost ==
    \A t \in Txs :
        (/\ journal[t] = "unapplied"
         /\ payKind[t] = "entry"
         /\ status[payFor[t]] = "admission_pending") ~> journal[t] = "applied"

\* What the code keeps of that promise: an entry that settled has its chain
\* queued or answered, or has become the credit of that chain's expiry, or its
\* chain still waits for it; what it bought is gone only with a chain the
\* ten-minute sweep has failed (lines 276-303 and 1175-1341).
SettledEntriesPlaced ==
    \A t \in Txs : payKind[t] = "entry" =>
        LET v == payFor[t] IN
        IF journal[t] = "applied"
        THEN paymentTx[v] = t /\ (v \in Admitted \/ v \in granted)
        ELSE paymentTx[v] = Null /\ status[v] \in {"admission_pending", "failed"}

-----------------------------------------------------------------------------
(***************************************************************************)
(* The inductive invariant behind the theorems of VerifyChainProofs.       *)
(***************************************************************************)

\* What a row's columns say about each other.
RowsSound ==
    \A v \in Verifies :
        /\ status[v] = "none" => agent[v] = Null /\ entrySource[v] = "none"
        /\ status[v] # "none" => agent[v] \in Wallets /\ entrySource[v] # "none"
        /\ entrySource[v] \in {"x402", "failure_credit"} <=> terms[v] # Null
        /\ status[v] \in {"admission_pending", "failed"} =>
               entrySource[v] = "x402" /\ paymentTx[v] = Null
        /\ entrySource[v] = "x402" /\ paymentTx[v] = Null =>
               status[v] \in {"admission_pending", "failed"}
        /\ paymentTx[v] # Null => entrySource[v] = "x402"

\* A gate stands on a journaled payment made for it.
GatesSound ==
    \A v \in Verifies :
        /\ paymentTx[v] # Null => PaidEntry(v)
        /\ unlockTx[v] # Null =>
               /\ payFor[unlockTx[v]] = v
               /\ payKind[unlockTx[v]] = "unlock"
               /\ journal[unlockTx[v]] = "applied"
               /\ resultUnlocked[v]
               /\ entrySource[v] # "initial_free"
        /\ resultUnlocked[v] =>
               /\ status[v] = "answered"
               /\ entrySource[v] # "initial_free" => unlockTx[v] # Null

\* And an applied payment stands on its gate.
JournalSound ==
    \A t \in Txs :
        /\ payFor[t] = Null => payKind[t] = "none" /\ journal[t] = "none"
        /\ payFor[t] # Null => payKind[t] # "none"
        /\ t \in reporting \cup batch => journal[t] # "none"
        /\ journal[t] = "applied" /\ payKind[t] = "entry" => paymentTx[payFor[t]] = t
        /\ journal[t] = "applied" /\ payKind[t] = "unlock" => unlockTx[payFor[t]] = t

\* Credits are minted by expired paid chains, by each of them, and fund at most
\* one chain at a time, which is live or answered.
CreditsSound ==
    /\ \A c \in Verifies :
        c \in granted <=> status[c] = "expired" /\ entrySource[c] = "x402"
    /\ \A c \in Verifies : creditUsedBy[c] # Null =>
        /\ c \in granted
        /\ creditUsedBy[c] \in Admitted
        /\ entrySource[creditUsedBy[c]] = "failure_credit"
        /\ agent[creditUsedBy[c]] = agent[c]
    /\ \A c, d \in Verifies :
        creditUsedBy[c] # Null /\ creditUsedBy[c] = creditUsedBy[d] => c = d
    /\ \A v \in Admitted : entrySource[v] = "failure_credit" =>
        \E c \in Verifies : creditUsedBy[c] = v

FreeNumbersSound ==
    /\ \A w \in Wallets, n \in FreeNumbers : freeUsedBy[w][n] # Null =>
        /\ freeUsedBy[w][n] \in Admitted
        /\ entrySource[freeUsedBy[w][n]] = "initial_free"
        /\ agent[freeUsedBy[w][n]] = w
    /\ \A v \in Admitted : entrySource[v] = "initial_free" =>
        \E n \in FreeNumbers : freeUsedBy[agent[v]][n] = v

\* The facilitator settles the entry of a paid chain, once.
EntriesSound ==
    /\ \A t \in Txs : payKind[t] = "entry" => entrySource[payFor[t]] = "x402"
    /\ \A t, u \in Txs :
        payKind[t] = "entry" /\ payKind[u] = "entry" /\ payFor[t] = payFor[u] => t = u

IndInv ==
    /\ TypeOK
    /\ RowsSound
    /\ GatesSound
    /\ JournalSound
    /\ CreditsSound
    /\ FreeNumbersSound
    /\ OneActivePerWallet
    /\ AnswersArePriced

-----------------------------------------------------------------------------
(***************************************************************************)
(* The refinement of PrepaidAnswers.  A payment's token follows the chain  *)
(* it admitted and, once that chain has expired, the chain its credit is   *)
(* funding at the moment.                                                  *)
(***************************************************************************)

Recorded(t) == journal[t] = "applied" /\ payKind[t] = "entry"

\* The chain that holds the place bought with t, or Null while it is owed.
Holder(t) == IF payFor[t] \in granted THEN creditUsedBy[payFor[t]] ELSE payFor[t]

TokenOf(t) ==
    IF ~Recorded(t) THEN "unpaid"
    ELSE IF Holder(t) = Null THEN "owed"
    ELSE IF status[Holder(t)] = "pending" THEN "queued"
    ELSE IF status[Holder(t)] = "answered" THEN "spent"
    ELSE "lost"

OwnerOf(t) == IF Recorded(t) THEN agent[payFor[t]] ELSE Null

Prepaid == INSTANCE PrepaidAnswers WITH
    Payments <- Txs,
    NoWallet <- Null,
    token <- [t \in Txs |-> TokenOf(t)],
    owner <- [t \in Txs |-> OwnerOf(t)]

\* An entry payment buys exactly one answer: every step of the core is a step
\* of PrepaidAnswers or leaves every payment as it was.
PaymentBuysOneAnswer == Prepaid!Spec

-----------------------------------------------------------------------------
(***************************************************************************)
(* The refinement of AtomicAdmission, which Admission implements too: the  *)
(* Create of this module and the concurrent requests of that one change    *)
(* the books in the same way.                                              *)
(***************************************************************************)

FreeHolders ==
    {v \in Verifies : \E w \in Wallets, n \in FreeNumbers : freeUsedBy[w][n] = v}

Books == INSTANCE AtomicAdmission WITH
    Rows <- Verifies,
    owner <- agent,
    source <- entrySource,
    freeUse <- FreeHolders,
    usedBy <- creditUsedBy

\* Reconciliation, crashes and the pass over all stale chains at once leave an
\* admission what it was: one step on the books.
AdmitsAtomically == Books!Spec

-----------------------------------------------------------------------------
(***************************************************************************)
(* The refinement of PaidGates, which PaymentGate implements too: Settle   *)
(* of this module and the requests of that one charge for the same gates.  *)
(***************************************************************************)

SourceOf(v) ==
    IF entrySource[v] = "initial_free" THEN "free"
    ELSE IF entrySource[v] = "failure_credit" THEN "credit" ELSE entrySource[v]

Gates == INSTANCE PaidGates WITH
    Chains <- Verifies,
    source <- [v \in Verifies |-> SourceOf(v)],
    entryTx <- paymentTx,
    unlocked <- {v \in Verifies : resultUnlocked[v]}

\* However reports and the reconciliation come to it, the core opens a gate for
\* the payment charged for it, once, and for none else.
OpensPaidGates == Gates!Spec
=============================================================================

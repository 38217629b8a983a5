------------------------------ MODULE Admission ------------------------------
(***************************************************************************)
(* create_verify at the grain of its SQL statements.                       *)
(*                                                                         *)
(* VerifyChain takes an admission in one step.  Here every request is a    *)
(* process of its own: it reads the queue and the wallet's chains before   *)
(* its transaction, waits for a pooled connection and for the wallet's     *)
(* advisory lock, and decides from what is committed at each statement.    *)
(* Settlements, answers and expiry run in between and take no wallet lock. *)
(* A request's row has the request's id.  The instance lookup and the      *)
(* callback check before the cap only refuse, and are left out.            *)
(* An operator named Op_Variant is a faulty variant of Op that the system   *)
(* must not have; no action uses it.                                       *)
(***************************************************************************)
EXTENDS Integers, FiniteSets

CONSTANTS
    Requests,        \* POST /internal/verifies calls; bounds the run
    Wallets,
    Null,
    FreeTierCount,   \* instances.free_tier_count
    FreeDailyMax,    \* FREE_DAILY_MAX, 0 for no cap
    MaxPendingTotal, \* MAX_PENDING_TOTAL
    Connections      \* max_size of the connection pool

ASSUME ParametersAssumption ==
    /\ FreeTierCount \in Nat /\ FreeDailyMax \in Nat
    /\ MaxPendingTotal \in Nat /\ Connections \in Nat \ {0}
    /\ IsFiniteSet(Requests)

ASSUME NullAssumption == Null \notin Requests /\ Null \notin Wallets

VARIABLES
    pc,         \* the statement each request runs next
    wallet,     \* agent_id
    mode,       \* admission_mode
    quoted,     \* whether the current quote could be read
    taken,      \* entry_source the open transaction has decided on
    credit,     \* the credit it has consumed, by its source row
    lock,       \* holder of each wallet's advisory lock
    row,        \* committed status of the request's row
    source,     \* committed entry_source
    freeUse,    \* rows that hold an initial_free entitlement
    spentToday, \* those of them whose consumed_at is today
    granted,    \* rows whose expiry minted a failure_credit
    usedBy      \* consumed_by_verify_id of those credits

request == <<pc, wallet, mode, quoted, taken, credit>>
ledger  == <<freeUse, spentToday, granted, usedBy>>
vars    == <<request, lock, row, source, ledger>>

\* In a transaction, holding a connection; the last five also hold the lock.
Locked    == {"recheck", "free", "budget", "credit", "route", "commit"}
InTx      == {"lock"} \cup Locked
Inserted  == Locked \ {"recheck"}
InFlight  == {"cap", "early", "terms", "begin"} \cup InTx
Live      == {"admission_pending", "pending"}
Sources   == {"none", "x402", "initial_free", "failure_credit"}

TypeOK ==
    /\ pc \in [Requests -> {"idle", "done", "refused"} \cup InFlight]
    /\ wallet \in [Requests -> Wallets \cup {Null}]
    /\ mode \in [Requests -> {"none", "x402", "entitlement"}]
    /\ quoted \in [Requests -> BOOLEAN]
    /\ taken \in [Requests -> Sources]
    /\ credit \in [Requests -> Requests \cup {Null}]
    /\ lock \in [Wallets -> Requests \cup {Null}]
    /\ row \in [Requests -> {"none", "answered", "expired", "failed"} \cup Live]
    /\ source \in [Requests -> Sources]
    /\ freeUse \subseteq Requests /\ spentToday \subseteq freeUse
    /\ granted \subseteq Requests
    /\ usedBy \in [Requests -> Requests \cup {Null}]

Init ==
    /\ pc = [r \in Requests |-> "idle"]
    /\ wallet = [r \in Requests |-> Null]
    /\ mode = [r \in Requests |-> "none"]
    /\ quoted = [r \in Requests |-> FALSE]
    /\ taken = [r \in Requests |-> "none"]
    /\ credit = [r \in Requests |-> Null]
    /\ lock = [w \in Wallets |-> Null]
    /\ row = [r \in Requests |-> "none"]
    /\ source = [r \in Requests |-> "none"]
    /\ freeUse = {} /\ spentToday = {} /\ granted = {}
    /\ usedBy = [r \in Requests |-> Null]

-----------------------------------------------------------------------------
(***************************************************************************)
(* What a statement reads: committed rows only.                            *)
(***************************************************************************)

LiveRows == {r \in Requests : row[r] \in Live}

ActiveOf(w) == {r \in LiveRows : wallet[r] = w}

FreeUsed(w) == {r \in freeUse : wallet[r] = w}

BudgetOpen_OneMore == FreeDailyMax = 0 \/ Cardinality(spentToday) <= FreeDailyMax

BudgetOpen == FreeDailyMax = 0 \/ Cardinality(spentToday) < FreeDailyMax

OpenCredits(w) == {c \in granted : wallet[c] = w /\ usedBy[c] = Null}

\* The transactions under way, each on a connection of its own.
OpenTx == {r \in Requests : pc[r] \in InTx}

ConnectionFree == Cardinality(OpenTx) < Connections

-----------------------------------------------------------------------------
(***************************************************************************)
(* One request.                                                            *)
(***************************************************************************)

Goto(r, place) == pc' = [pc EXCEPT ![r] = place]

Arrive(r, w, m) ==
    /\ pc[r] = "idle"
    /\ Goto(r, "cap")
    /\ wallet' = [wallet EXCEPT ![r] = w]
    /\ mode' = [mode EXCEPT ![r] = m]
    /\ UNCHANGED <<quoted, taken, credit, lock, row, source, ledger>>

\* The queue's hard cap, counted before the transaction begins.
CheckCap(r) ==
    /\ pc[r] = "cap" /\ ConnectionFree
    /\ Goto(r, IF Cardinality(LiveRows) >= MaxPendingTotal THEN "refused" ELSE "early")
    /\ UNCHANGED <<wallet, mode, quoted, taken, credit, lock, row, source, ledger>>

CheckEarly(r) ==
    /\ pc[r] = "early" /\ ConnectionFree
    /\ Goto(r, IF ActiveOf(wallet[r]) = {} THEN "terms" ELSE "refused")
    /\ UNCHANGED <<wallet, mode, quoted, taken, credit, lock, row, source, ledger>>

\* A paid request is refused unless the quote it paid against is known; for an
\* entitlement an unavailable quote matters only once a credit is wanted.
ResolveTerms(r) ==
    /\ pc[r] = "terms" /\ ConnectionFree
    /\ \E known \in BOOLEAN :
        /\ quoted' = [quoted EXCEPT ![r] = known]
        /\ Goto(r, IF mode[r] = "x402" /\ ~known THEN "refused" ELSE "begin")
    /\ UNCHANGED <<wallet, mode, taken, credit, lock, row, source, ledger>>

Begin(r) ==
    /\ pc[r] = "begin" /\ ConnectionFree
    /\ Goto(r, "lock")
    /\ UNCHANGED <<wallet, mode, quoted, taken, credit, lock, row, source, ledger>>

TakeLock_Shared(r) ==
    /\ pc[r] = "lock"
    /\ lock' = [lock EXCEPT ![wallet[r]] = r]
    /\ Goto(r, "recheck")
    /\ UNCHANGED <<wallet, mode, quoted, taken, credit, row, source, ledger>>

TakeLock(r) ==
    /\ pc[r] = "lock"
    /\ lock[wallet[r]] = Null
    /\ lock' = [lock EXCEPT ![wallet[r]] = r]
    /\ Goto(r, "recheck")
    /\ UNCHANGED <<wallet, mode, quoted, taken, credit, row, source, ledger>>

\* Rollback: the row, the entitlement and the lock of the transaction are gone.
Abort_KeepsLock(r) ==
    /\ Goto(r, "refused")
    /\ taken' = [taken EXCEPT ![r] = "none"]
    /\ credit' = [credit EXCEPT ![r] = Null]
    /\ UNCHANGED <<wallet, mode, quoted, lock, row, source, ledger>>

Abort(r) ==
    /\ Goto(r, "refused")
    /\ taken' = [taken EXCEPT ![r] = "none"]
    /\ credit' = [credit EXCEPT ![r] = Null]
    /\ lock' = [lock EXCEPT ![wallet[r]] = Null]
    /\ UNCHANGED <<wallet, mode, quoted, row, source, ledger>>

\* The second count, under the lock, and the INSERT nobody else can see yet.
Recheck_Trusting(r) ==
    /\ pc[r] = "recheck"
    /\ taken' = [taken EXCEPT ![r] = IF mode[r] = "x402" THEN "x402" ELSE "none"]
    /\ Goto(r, IF mode[r] = "x402" THEN "commit" ELSE "free")
    /\ UNCHANGED <<wallet, mode, quoted, credit, lock, row, source, ledger>>

Recheck(r) ==
    /\ pc[r] = "recheck"
    /\ IF ActiveOf(wallet[r]) # {} THEN Abort(r)
       ELSE /\ taken' = [taken EXCEPT ![r] = IF mode[r] = "x402" THEN "x402" ELSE "none"]
            /\ Goto(r, IF mode[r] = "x402" THEN "commit" ELSE "free")
            /\ UNCHANGED <<wallet, mode, quoted, credit, lock, row, source, ledger>>

CountFree(r) ==
    /\ pc[r] = "free"
    /\ Goto(r, IF Cardinality(FreeUsed(wallet[r])) < FreeTierCount THEN "budget" ELSE "credit")
    /\ UNCHANGED <<wallet, mode, quoted, taken, credit, lock, row, source, ledger>>

\* The daily budget is read here; the free use it allows counts from the commit.
CountBudget(r) ==
    /\ pc[r] = "budget"
    /\ IF BudgetOpen
       THEN taken' = [taken EXCEPT ![r] = "initial_free"] /\ Goto(r, "route")
       ELSE Goto(r, "credit") /\ UNCHANGED taken
    /\ UNCHANGED <<wallet, mode, quoted, credit, lock, row, source, ledger>>

TakeCredit(r) ==
    /\ pc[r] = "credit"
    /\ IF OpenCredits(wallet[r]) = {} \/ ~quoted[r] THEN Abort(r)
       ELSE /\ \E c \in OpenCredits(wallet[r]) : credit' = [credit EXCEPT ![r] = c]
            /\ taken' = [taken EXCEPT ![r] = "failure_credit"]
            /\ Goto(r, "route")
            /\ UNCHANGED <<wallet, mode, quoted, lock, row, source, ledger>>

\* Associate chosen and card sent, still inside the transaction: an exception
\* out of the Telegram call rolls the admission back.
Route(r) ==
    /\ pc[r] = "route"
    /\ \/ Goto(r, "commit")
          /\ UNCHANGED <<wallet, mode, quoted, taken, credit, lock, row, source, ledger>>
       \/ Abort(r)

Commit(r) ==
    /\ pc[r] = "commit"
    /\ Goto(r, "done")
    /\ row' = [row EXCEPT ![r] = IF taken[r] = "x402" THEN "admission_pending" ELSE "pending"]
    /\ source' = [source EXCEPT ![r] = taken[r]]
    /\ freeUse' = IF taken[r] = "initial_free" THEN freeUse \cup {r} ELSE freeUse
    /\ spentToday' = IF taken[r] = "initial_free" THEN spentToday \cup {r} ELSE spentToday
    /\ usedBy' = [c \in Requests |-> IF c = credit[r] THEN r ELSE usedBy[c]]
    /\ lock' = [lock EXCEPT ![wallet[r]] = Null]
    /\ UNCHANGED <<wallet, mode, quoted, taken, credit, granted>>

Step(r) ==
    \/ CheckCap(r) \/ CheckEarly(r) \/ ResolveTerms(r) \/ Begin(r) \/ TakeLock(r)
    \/ Recheck(r) \/ CountFree(r) \/ CountBudget(r) \/ TakeCredit(r) \/ Route(r) \/ Commit(r)

-----------------------------------------------------------------------------
(***************************************************************************)
(* What goes on meanwhile, each in one transaction of its own.             *)
(***************************************************************************)

Settled(r) ==
    /\ row[r] = "admission_pending"
    /\ row' = [row EXCEPT ![r] = "pending"]
    /\ UNCHANGED <<request, lock, source, ledger>>

Answered(r) ==
    /\ row[r] = "pending"
    /\ row' = [row EXCEPT ![r] = "answered"]
    /\ UNCHANGED <<request, lock, source, ledger>>

Abandoned(r) ==
    /\ row[r] = "admission_pending"
    /\ row' = [row EXCEPT ![r] = "failed"]
    /\ UNCHANGED <<request, lock, source, ledger>>

\* Expiry mints a credit from a paid chain and releases what funded another.
Expired(r) ==
    /\ row[r] = "pending"
    /\ row' = [row EXCEPT ![r] = "expired"]
    /\ granted' = IF source[r] = "x402" THEN granted \cup {r} ELSE granted
    /\ freeUse' = freeUse \ {r}
    /\ spentToday' = spentToday \ {r}
    /\ usedBy' = [c \in Requests |-> IF usedBy[c] = r THEN Null ELSE usedBy[c]]
    /\ UNCHANGED <<request, lock, source>>

Midnight ==
    /\ spentToday # {}
    /\ spentToday' = {}
    /\ UNCHANGED <<request, lock, row, source, freeUse, granted, usedBy>>

\* A restart drops every request in flight; PostgreSQL rolls back and unlocks.
\* With none in flight a restart changes nothing here.
Crash ==
    /\ \E r \in Requests : pc[r] \in InFlight
    /\ pc' = [r \in Requests |-> IF pc[r] \in InFlight THEN "refused" ELSE pc[r]]
    /\ taken' = [r \in Requests |-> IF pc[r] \in InFlight THEN "none" ELSE taken[r]]
    /\ credit' = [r \in Requests |-> IF pc[r] \in InFlight THEN Null ELSE credit[r]]
    /\ lock' = [w \in Wallets |-> Null]
    /\ UNCHANGED <<wallet, mode, quoted, row, source, ledger>>

Meanwhile(r) == Settled(r) \/ Answered(r) \/ Abandoned(r) \/ Expired(r)

Next ==
    \/ \E r \in Requests, w \in Wallets, m \in {"x402", "entitlement"} : Arrive(r, w, m)
    \/ \E r \in Requests : Step(r) \/ Meanwhile(r)
    \/ Midnight
    \/ Crash

Spec == Init /\ [][Next]_vars

\* A request that can take its next step takes it: queries return, the pool
\* and the lock queue are first come first served, Telegram calls time out.
FairSpec == Spec /\ \A r \in Requests : WF_vars(Step(r))

-----------------------------------------------------------------------------
(***************************************************************************)
(* Properties.                                                             *)
(***************************************************************************)

\* The first count is stale by the time the row is inserted; with the advisory
\* lock and the second count no interleaving of requests, settlements and
\* expiries gives a wallet two live chains (lines 852-874).
OneActivePerWallet ==
    \A q, r \in LiveRows : wallet[q] = wallet[r] => q = r

\* The day's free budget is platform-wide but counted under a wallet's lock, so
\* wallets may take its last place together.  What is spent in a day still stays
\* below the budget plus the pool: every use beyond it had counted while the
\* transactions that overtook it held their connections (lines 926-936).
BudgetNearlyKept ==
    FreeDailyMax > 0 => Cardinality(spentToday) < FreeDailyMax + Connections

\* However many requests compete for them, every chain in or past the queue rests
\* on a payment, on a free use within its wallet's allowance or on a credit of the
\* wallet that funds no other chain (lines 907-1053, and the release at expiry).
EntitlementsSound ==
    /\ \A w \in Wallets : Cardinality(FreeUsed(w)) <= FreeTierCount
    /\ \A c, d \in Requests : usedBy[c] # Null /\ usedBy[c] = usedBy[d] => c = d
    /\ \A r \in Requests : row[r] \in {"pending", "answered"} =>
        \/ source[r] = "x402"
        \/ source[r] = "initial_free" /\ r \in freeUse
        \/ /\ source[r] = "failure_credit"
           /\ \E c \in granted : usedBy[c] = r /\ wallet[c] = wallet[r]

\* What a request waits for, a connection of the pool or the lock of its wallet.
CanGo(r) ==
    \/ pc[r] \in {"cap", "early", "terms", "begin"} /\ ConnectionFree
    \/ pc[r] = "lock" /\ lock[wallet[r]] = Null
    \/ pc[r] \in Locked

\* A transaction that waits for a wallet's lock keeps its connection, and the
\* holder of a lock might need one: waiting never closes a circle.  The lock is
\* with a request of the same wallet that can go on, and where the pool is
\* exhausted one of those that exhausted it can (database.py:12-19, lines 852-856).
WaitingEndsSomewhere ==
    \A r \in Requests :
        /\ pc[r] \in InFlight \ InTx => CanGo(r) \/ \E q \in OpenTx : CanGo(q)
        /\ pc[r] = "lock" =>
              \/ CanGo(r)
              \/ LET q == lock[wallet[r]]
                 IN  q \in OpenTx /\ wallet[q] = wallet[r] /\ CanGo(q)

\* No request waits for ever, although transactions hold a connection of the
\* pool while they wait for a wallet lock and for Telegram.
RequestsEnd == \A r \in Requests : pc[r] \in InFlight ~> pc[r] \in {"done", "refused"}

-----------------------------------------------------------------------------
(***************************************************************************)
(* The inductive invariant behind the theorems of AdmissionProofs.         *)
(***************************************************************************)

\* A request past the lock holds it, and past the second count its wallet has
\* no live row: nobody else can commit one.
LockProtects ==
    \A r \in Requests :
        /\ pc[r] # "idle" => wallet[r] \in Wallets
        /\ pc[r] # "done" => row[r] = "none"
        /\ pc[r] \in Locked => lock[wallet[r]] = r
        /\ pc[r] \in Inserted => ActiveOf(wallet[r]) = {}

\* A lock is with a request of that wallet that is past it.
LocksHeld ==
    \A w \in Wallets : lock[w] # Null => pc[lock[w]] \in Locked /\ wallet[lock[w]] = w

\* Until it commits, nobody else can spend the credit a request has taken.
CreditHeld ==
    /\ \A c \in granted : row[c] = "expired"
    /\ \A r \in Requests :
        /\ pc[r] \notin {"route", "commit", "done"} => credit[r] = Null /\ taken[r] = "none"
        /\ pc[r] \in {"route", "commit"} /\ (credit[r] # Null \/ taken[r] = "failure_credit") =>
               credit[r] \in OpenCredits(wallet[r])

\* Nor use up the allowance it counted.
AllowanceHeld ==
    /\ \A r \in freeUse : pc[r] = "done"
    /\ \A r \in Requests :
        pc[r] = "budget" \/ (pc[r] \in {"route", "commit"} /\ taken[r] = "initial_free") =>
            Cardinality(FreeUsed(wallet[r])) < FreeTierCount

\* What a request commits rests on one of the three ways to fund an admission.
CommitsFunded ==
    \A r \in Requests :
        /\ pc[r] = "done" => row[r] # "none"
        /\ pc[r] \in {"route", "commit"} =>
               /\ taken[r] # "none"
               /\ credit[r] # Null <=> taken[r] = "failure_credit"

\* An entitlement in use is held by a chain that is in or past the queue; one
\* that waits for its settlement holds none.
UsesHeld ==
    /\ \A r \in Requests : row[r] = "admission_pending" => source[r] = "x402"
    /\ \A r \in freeUse : row[r] \in {"pending", "answered"}
    /\ \A c \in Requests : usedBy[c] # Null =>
           c \in granted /\ row[usedBy[c]] \in {"pending", "answered"}

\* The transactions that count on a free place of the day.
FreeTaken == {r \in OpenTx : pc[r] \in {"route", "commit"} /\ taken[r] = "initial_free"}

\* A use that was counted on is in a transaction until it is in the books.
BudgetHeld ==
    /\ Cardinality(OpenTx) <= Connections
    /\ FreeDailyMax > 0 =>
           Cardinality(spentToday) + Cardinality(FreeTaken) < FreeDailyMax + Connections

IndInv ==
    /\ TypeOK
    /\ OneActivePerWallet
    /\ LockProtects
    /\ CreditHeld
    /\ AllowanceHeld

-----------------------------------------------------------------------------
(***************************************************************************)
(* The refinement of AtomicAdmission.  A request is admitted when it       *)
(* commits; until then its row and its wallet are nobody's business.       *)
(***************************************************************************)

OwnerOf(r) == IF row[r] = "none" THEN Null ELSE wallet[r]

Books == INSTANCE AtomicAdmission WITH
    Rows <- Requests,
    status <- row,
    owner <- [r \in Requests |-> OwnerOf(r)]

\* Whatever interleaves with the statements of a request, what each of them
\* read still holds at the commit: the wallet has no live chain, and the free
\* use or the credit is its own and unspent.  An admission is one step on the
\* books, the daily budget alone excepted (lines 852-1100).
AdmitsAtomically == Books!Spec
=============================================================================

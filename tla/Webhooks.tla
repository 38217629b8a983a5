------------------------------ MODULE Webhooks ------------------------------
(***************************************************************************)
(* The delivery loop of core/webhooks.py: it wakes the agent of a chain    *)
(* that is ready or has failed, by a POST to the URL the agent left.       *)
(*                                                                         *)
(* One pass selects due rows and handles them one after the other, each in *)
(* a few statements that commit on their own.  Between the POST and its    *)
(* record the core may stop or the database refuse, and the POST happened  *)
(* all the same. One core process runs one loop, so a row's fetched count  *)
(* is still its count when the pass comes to it. Only chains with a        *)
(* callback_url are modelled, and of the body only that it is sent: what   *)
(* it says follows from columns that no longer change. audit() never       *)
(* raises and changes nothing here.                                        *)
(* An operator named Op_Variant is a faulty variant of Op that no action   *)
(* uses.                                                                   *)
(***************************************************************************)
EXTENDS Integers, FiniteSets

CONSTANTS
    Chains,    \* rows of verifies with a callback_url
    Null,
    Backoff,   \* RETRY_BACKOFF_S: ticks to wait after so many attempts
    BatchLimit,\* LIMIT of the SELECT
    MaxFaults  \* bound: restarts of the core and statements the database refuses

MaxAttempts == 3

ASSUME ChainsAssumption ==
    IsFiniteSet(Chains) /\ Null \notin Chains

ASSUME BackoffAssumption ==
    Backoff \in [0..MaxAttempts - 1 -> Nat] /\ Backoff[0] = 0 /\ Backoff[1] <= Backoff[2]

ASSUME BoundsAssumption == BatchLimit \in Nat \ {0} /\ MaxFaults \in Nat

VARIABLES
    raising,   \* chains whose URL raises: its port is no number, its host no name
    decided,   \* chains whose status is final
    delivered, \* callback_delivered
    attempts,  \* callback_attempts
    waited,    \* ticks since callback_last_attempt, up to LongEnough
    batch,     \* fetched rows the pass has not come to
    at,        \* the statement the pass is about to make
    chain,     \* for this row
    outcome,   \* with this answer
    posts,     \* POSTs sent (history)
    unrecorded,\* POSTs whose record was lost (history)
    faults

row  == <<raising, decided, delivered, attempts, waited>>
pass == <<batch, at, chain, outcome>>
seen == <<posts, unrecorded>>
vars == <<row, pass, seen, faults>>

\* Past the longest backoff more waiting changes nothing.
LongEnough == Backoff[2] + 1

TypeOK ==
    /\ raising \subseteq Chains
    /\ decided \subseteq Chains
    /\ delivered \subseteq Chains
    /\ attempts \in [Chains -> 0..MaxAttempts]
    /\ waited \in [Chains -> 0..LongEnough]
    /\ batch \subseteq Chains
    /\ at \in {"sleep", "next", "post", "record", "exhaust"}
    /\ chain \in Chains \cup {Null}
    /\ outcome \in {"none", "ok", "failed", "refused"}
    /\ posts \in [Chains -> Nat]
    /\ unrecorded \in [Chains -> Nat]
    /\ faults \in Nat

Init ==
    /\ raising \in SUBSET Chains
    /\ decided = {} /\ delivered = {}
    /\ attempts = [c \in Chains |-> 0]
    /\ waited = [c \in Chains |-> 0]
    /\ batch = {} /\ at = "sleep" /\ chain = Null /\ outcome = "none"
    /\ posts = [c \in Chains |-> 0]
    /\ unrecorded = [c \in Chains |-> 0]
    /\ faults = 0

-----------------------------------------------------------------------------
(***************************************************************************)
(* The pass.                                                               *)
(***************************************************************************)

Due_NoBackoff(c) == c \in decided /\ c \notin delivered /\ attempts[c] < MaxAttempts

\* A row never tried has no callback_last_attempt; the comparison is strict.
Due(c) ==
    /\ c \in decided /\ c \notin delivered
    /\ attempts[c] < MaxAttempts
    /\ attempts[c] > 0 => waited[c] > Backoff[attempts[c]]

\* The SELECT has no order: any rows that are due, as many as there are places.
Fetch ==
    LET due == {c \in Chains : Due(c)} IN
    /\ at = "sleep"
    /\ \E rows \in SUBSET due :
        /\ rows # {}
        /\ rows = due \/ Cardinality(rows) = BatchLimit
        /\ Cardinality(rows) <= BatchLimit
        /\ batch' = rows
    /\ at' = "next"
    /\ UNCHANGED <<row, chain, outcome, seen, faults>>

\* The pass is over, and nothing of it is kept.
EndPass == batch' = {} /\ at' = "sleep" /\ chain' = Null /\ outcome' = "none"

\* The row is done; the pass goes on to the next one or sleeps.
NextRow ==
    /\ at' = IF batch = {} THEN "sleep" ELSE "next"
    /\ chain' = Null /\ outcome' = "none"
    /\ UNCHANGED batch

\* _resolve_pinned.  A host that resolves to nothing, or to an address that is
\* not public, is refused; both may change with the name service.
Resolve(c) ==
    /\ at = "next" /\ c \in batch \ raising
    /\ batch' = batch \ {c} /\ chain' = c
    /\ \/ at' = "post" /\ outcome' = "none"
       \/ at' = "record" /\ outcome' = "refused"
    /\ UNCHANGED <<row, seen, faults>>

\* An exception out of a row, by its URL or by a fault of the moment, ends the
\* pass uncounted: this row and the rows after it wait for another pass.
Raise(c) ==
    /\ at = "next" /\ c \in batch
    /\ \/ c \in raising /\ UNCHANGED faults
       \/ faults < MaxFaults /\ faults' = faults + 1
    /\ EndPass
    /\ UNCHANGED <<row, seen>>

\* Any 2xx is a delivery; another status, a timeout or a broken connection is
\* not, even if the agent has read the body.
Post ==
    /\ at = "post"
    /\ posts' = [posts EXCEPT ![chain] = @ + 1]
    /\ outcome' \in {"ok", "failed"}
    /\ at' = "record"
    /\ UNCHANGED <<row, batch, chain, unrecorded, faults>>

Final(n) == outcome \in {"ok", "refused"} \/ n >= MaxAttempts

Record_Forgets ==
    /\ at = "record"
    /\ delivered' = IF outcome = "ok" THEN delivered \cup {chain} ELSE delivered
    /\ waited' = [waited EXCEPT ![chain] = 0]
    /\ NextRow
    /\ UNCHANGED <<raising, decided, attempts, seen, faults>>

Record_RefusalsUncounted ==
    /\ at = "record"
    /\ delivered' = IF outcome = "ok" THEN delivered \cup {chain} ELSE delivered
    /\ attempts' = [attempts EXCEPT ![chain] = IF outcome = "refused" THEN @ ELSE @ + 1]
    /\ waited' = [waited EXCEPT ![chain] = 0]
    /\ NextRow
    /\ UNCHANGED <<raising, decided, seen, faults>>

\* The attempt, the delivery and the time, in one UPDATE.
Record ==
    LET n == attempts[chain] + 1 IN
    /\ at = "record"
    /\ delivered' = IF outcome = "ok" THEN delivered \cup {chain} ELSE delivered
    /\ attempts' = [attempts EXCEPT ![chain] = n]
    /\ waited' = [waited EXCEPT ![chain] = 0]
    /\ IF Final(n) /\ outcome # "ok"
       THEN at' = "exhaust" /\ UNCHANGED <<batch, chain, outcome>>
       ELSE NextRow
    /\ UNCHANGED <<raising, decided, seen, faults>>

\* After the audit, a second UPDATE stops the retries.
Exhaust ==
    /\ at = "exhaust"
    /\ attempts' = [attempts EXCEPT ![chain] = MaxAttempts]
    /\ NextRow
    /\ UNCHANGED <<raising, decided, delivered, waited, seen, faults>>

\* The core stops, or the database refuses a statement and the exception ends
\* the pass.  Nothing in memory survives; a POST not yet recorded never will be.
Fail ==
    /\ at # "sleep"
    /\ faults < MaxFaults
    /\ faults' = faults + 1
    /\ unrecorded' = IF at = "record" /\ outcome # "refused"
                     THEN [unrecorded EXCEPT ![chain] = @ + 1] ELSE unrecorded
    /\ EndPass
    /\ UNCHANGED <<row, posts>>

-----------------------------------------------------------------------------

\* Answer, expiry or abandonment, in the core and the bot.
Decide(c) ==
    /\ c \notin decided
    /\ decided' = decided \cup {c}
    /\ UNCHANGED <<raising, delivered, attempts, waited, pass, seen, faults>>

\* Time passes, also while the pass waits for an agent's server.
Tick ==
    /\ waited' = [c \in Chains |-> IF attempts[c] > 0 /\ waited[c] < LongEnough
                                  THEN waited[c] + 1 ELSE waited[c]]
    /\ waited' # waited
    /\ UNCHANGED <<raising, decided, delivered, attempts, pass, seen, faults>>

PassStep ==
    \/ \E c \in Chains : Resolve(c) \/ Raise(c)
    \/ Post
    \/ Record
    \/ Exhaust

Next ==
    \/ Fetch
    \/ PassStep
    \/ Fail
    \/ \E c \in Chains : Decide(c)
    \/ Tick

Spec == Init /\ [][Next]_vars

\* The loop sleeps and runs for ever, a POST ends within its timeout and time
\* goes on.  Nothing is assumed of the agent's server or of the row order.
FairSpec == Spec /\ WF_vars(Fetch) /\ WF_vars(PassStep) /\ WF_vars(Tick)

-----------------------------------------------------------------------------
(***************************************************************************)
(* Properties.                                                             *)
(***************************************************************************)

Settled(c) == c \in delivered \/ attempts[c] = MaxAttempts

\* docs/API.md promises up to three delivery attempts.  A POST beyond them is
\* always the repetition of one whose record was lost between lines 153 and
\* 164: the count and the two updates admit no other.
RepeatsNeedFault ==
    \A c \in Chains : posts[c] <= MaxAttempts + unrecorded[c]

\* An agent is woken only about a chain that is decided, that has neither been
\* delivered nor given up, and, after an attempt that was recorded, only past
\* its backoff, although all of this was read before the rows of the pass that
\* came first.
WakesInTurn ==
    [][\A c \in Chains : posts'[c] # posts[c] =>
        /\ c \in decided /\ ~Settled(c)
        /\ attempts[c] = 1 => waited[c] > Backoff[1]
        /\ attempts[c] = 2 => waited[c] > Backoff[2]]_vars

\* With finitely many faults every callback of a decided chain is delivered or
\* given up, in whichever order the passes and the faults take its rows
\* ("At-least-once, 3 attempts with backoff", line 5), while no decided chain has a
\* URL that raises.  Such a row is never counted and ends every pass that comes to it,
\* so it may keep the rows behind it waiting for ever.
CallbacksEnd ==
    \A c \in Chains : c \in decided ~> Settled(c) \/ decided \cap raising # {}

-----------------------------------------------------------------------------
(***************************************************************************)
(* The inductive invariant behind the theorems of CoreProcessProofs.       *)
(***************************************************************************)

\* What a pass has read stays true until it comes to the row: only the pass
\* itself writes callback columns, and waiting only adds to what is due.
BatchStaysDue ==
    /\ at = "sleep" => batch = {}
    /\ \A c \in batch : Due(c)
    /\ at \in {"post", "record", "exhaust"} => chain \in Chains \ batch
    /\ at \in {"post", "record"} => Due(chain)

\* Every POST is an attempt counted, one in hand, or one whose record was lost.
PostsCounted ==
    \A c \in Chains :
        posts[c] <= attempts[c] + unrecorded[c] +
            (IF at = "record" /\ outcome # "refused" /\ chain = c THEN 1 ELSE 0)

IndInv == TypeOK /\ BatchStaysDue /\ PostsCounted
=============================================================================

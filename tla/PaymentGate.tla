----------------------------- MODULE PaymentGate -----------------------------
(***************************************************************************)
(* The requests one wallet sends through verify-api: preflight, x402 gate, *)
(* handler, settlement by the facilitator, and the capture that reports    *)
(* the settlement to the core.                                             *)
(*                                                                         *)
(* verify-api keeps no table; each request is a process that calls the     *)
(* core and the facilitator, either of which may fail, answer late or do   *)
(* its work and have its answer lost.  The chain an entry request creates  *)
(* has the request's id.  The core is reduced to what its answers tell     *)
(* apart (its own guarantees are in VerifyChain), the facilitator and the  *)
(* payment middleware are external: they settle an authorization only      *)
(* after the handler has answered below 400.                               *)
(* The cold probes of /verify-unlock, which are always refused, are left   *)
(* out.  An operator named Op_Variant is a faulty variant of Op that the   *)
(* system must not have; no action uses it.                                *)
(***************************************************************************)
EXTENDS Integers, FiniteSets

CONSTANTS
    MaxRequests, \* bound: requests sent
    MaxQuotes,   \* bound: quotes issued
    MaxAttempts, \* attempts of one capture: 8 in the code
    MaxRestarts  \* bound: verify-api restarts

ASSUME BoundsAssumption ==
    /\ MaxRequests \in Nat \ {0} /\ MaxQuotes \in Nat \ {0}
    /\ MaxAttempts \in Nat \ {0} /\ MaxRestarts \in Nat

\* Requests are numbered as they arrive.
Requests == 1..MaxRequests

Null == 0

NotStarted == MaxAttempts + 1

VARIABLES
    pc,       \* where each request is
    kind,     \* POST /verify or POST /verify-unlock
    target,   \* the chain it names
    signed,   \* the quote an entry's payment is signed for
    gone,     \* requests whose client had hung up when their hooks were set
    read,     \* requests whose caller has been given the human result
    header,   \* requests whose response names its transaction in PAYMENT-RESPONSE
    capture,  \* attempts each capture has left, NotStarted before its start
    alerted,  \* requests a settlement alert was sent for
    charged,  \* authorizations settled on chain
    latest,   \* the newest quote
    valid,    \* quotes that can still be paid against
    status, source, bound, entryPaid, unlockTx, unlocked,  \* rows of the core
    held,     \* open entitlements of the wallet, by kind
    journal,  \* settlements the core has journaled
    restarts

request == <<pc, kind, target, signed, gone, read>>
hook    == <<header, capture, alerted>>
quotes  == <<latest, valid>>
rows    == <<status, source, bound, entryPaid, unlockTx, unlocked, held, journal>>
vars    == <<request, hook, charged, quotes, rows, restarts>>

Entitlements == {"credit", "free"}

TypeOK ==
    /\ pc \in [Requests -> {"idle", "preflight", "gate", "x402", "entitlement",
                            "free", "settle", "done", "refused"}]
    /\ kind \in [Requests -> {"none", "entry", "unlock"}]
    /\ target \in [Requests -> Requests \cup {Null}]
    /\ signed \in [Requests -> 0..MaxQuotes]
    /\ gone \subseteq Requests /\ read \subseteq Requests
    /\ header \subseteq charged /\ alerted \subseteq Requests
    /\ capture \in [Requests -> 0..MaxAttempts \cup {NotStarted}]
    /\ charged \subseteq Requests
    /\ latest \in 1..MaxQuotes /\ valid \subseteq 1..latest
    /\ status \in [Requests -> {"none", "admission_pending", "pending", "answered",
                                "expired", "failed"}]
    /\ source \in [Requests -> {"none", "x402"} \cup Entitlements]
    /\ bound \in [Requests -> 0..MaxQuotes]
    /\ entryPaid \subseteq Requests /\ unlocked \subseteq Requests
    /\ unlockTx \in [Requests -> Requests \cup {Null}]
    /\ held \in [Entitlements -> Nat]
    /\ journal \subseteq Requests
    /\ restarts \in Nat

Init ==
    /\ pc = [r \in Requests |-> "idle"]
    /\ kind = [r \in Requests |-> "none"]
    /\ target = [r \in Requests |-> Null]
    /\ signed = [r \in Requests |-> 0]
    /\ gone = {} /\ read = {} /\ header = {} /\ alerted = {} /\ charged = {}
    /\ capture = [r \in Requests |-> NotStarted]
    /\ latest = 1 /\ valid = {1}
    /\ status = [r \in Requests |-> "none"]
    /\ source = [r \in Requests |-> "none"]
    /\ bound = [r \in Requests |-> 0]
    /\ entryPaid = {} /\ unlocked = {} /\ journal = {}
    /\ unlockTx = [r \in Requests |-> Null]
    /\ \E n \in 0..1 : held = [k \in Entitlements |-> IF k = "free" THEN n ELSE 0]
    /\ restarts = 0

-----------------------------------------------------------------------------

Goto(r, place) == pc' = [pc EXCEPT ![r] = place]

Chains == {c \in Requests : status[c] # "none"}

Active == \E c \in Chains : status[c] \in {"admission_pending", "pending"}

\* /internal/quota: entitlement_admission_available.
Entitled == \E k \in Entitlements : held[k] > 0

\* A client asks, with a payment; one without goes the way of a payment that
\* is refused.
Arrive(r) ==
    /\ pc[r] = "idle" /\ \A q \in 1..(r - 1) : pc[q] # "idle"
    /\ Goto(r, "preflight")
    /\ \/ /\ kind' = [kind EXCEPT ![r] = "entry"]
          /\ target' = [target EXCEPT ![r] = r]
          /\ \E q \in 1..latest : signed' = [signed EXCEPT ![r] = q]
       \/ /\ kind' = [kind EXCEPT ![r] = "unlock"]
          /\ \E c \in Chains : target' = [target EXCEPT ![r] = c]
          /\ UNCHANGED signed
    /\ UNCHANGED <<gone, read, hook, charged, quotes, rows, restarts>>

\* Any core call may fail or be refused: the caller gets an error, or no answer
\* where the handler throws, and nothing is settled.
Refuse(r) ==
    /\ pc[r] \in {"preflight", "gate", "free"}
    /\ Goto(r, "refused")
    /\ UNCHANGED <<kind, target, signed, gone, read, hook, charged, quotes, rows, restarts>>

\* The wallet proves itself by signing a payment for a quote still valid.
Proven(r) == signed[r] \in valid

\* An entitled wallet that proves itself skips the gate and its payment is not
\* settled.
PreflightEntry(r) ==
    /\ pc[r] = "preflight" /\ kind[r] = "entry"
    /\ ~Active
    /\ \/ /\ Entitled /\ Proven(r)
          /\ Goto(r, "entitlement")
       \/ Goto(r, "gate")
    /\ UNCHANGED <<kind, target, signed, gone, read, hook, charged, quotes, rows, restarts>>

Completed_WhenAnswered(c) == status[c] = "answered"

Completed(c) == status[c] = "answered" /\ c \in unlocked

Ready(c) == status[c] = "answered" /\ c \notin unlocked

\* A completed chain is shown again; a ready one goes on to its gate.
PreflightUnlock(r) ==
    /\ pc[r] = "preflight" /\ kind[r] = "unlock"
    /\ \/ /\ Completed(target[r])
          /\ read' = read \cup {r}
          /\ Goto(r, "done")
       \/ /\ Ready(target[r])
          /\ Goto(r, IF source[target[r]] = "free" THEN "free" ELSE "gate")
          /\ UNCHANGED read
    /\ UNCHANGED <<kind, target, signed, gone, hook, charged, quotes, rows, restarts>>

\* The call to entitlement-unlock; its answer may be lost.
UnlockFree(r) ==
    /\ pc[r] = "free"
    /\ unlocked' = unlocked \cup {target[r]}
    /\ \/ Goto(r, "done") /\ read' = read \cup {r}
       \/ Goto(r, "refused") /\ UNCHANGED read
    /\ UNCHANGED <<kind, target, signed, gone, hook, charged, quotes, status, source, bound,
                   entryPaid, unlockTx, held, journal, restarts>>

\* The payment matches a requirement built from its own quote while that is
\* valid; otherwise the caller gets a 402 with fresh terms (Refuse).
GateEntry(r) ==
    /\ pc[r] = "gate" /\ kind[r] = "entry"
    /\ signed[r] \in valid
    /\ Goto(r, "x402")
    /\ UNCHANGED <<kind, target, signed, gone, read, hook, charged, quotes, rows, restarts>>

\* Hooks on finish and close start the capture.  A connection that is closed
\* when they are set emits neither (node's http, external).
SetHooks(r) == gone' \in {gone, gone \cup {r}}

\* The payment is verified; the unlock's handler builds the body.
GateUnlock(r) ==
    /\ pc[r] = "gate" /\ kind[r] = "unlock"
    /\ SetHooks(r)
    /\ Goto(r, "settle")
    /\ UNCHANGED <<kind, target, signed, read, hook, charged, quotes, rows, restarts>>

-----------------------------------------------------------------------------
(***************************************************************************)
(* handleVerify.                                                           *)
(***************************************************************************)

PaidQuote_Current(r) == latest

PaidQuote(r) == signed[r]

InsertRow(r, st, src, q) ==
    /\ status' = [status EXCEPT ![r] = st]
    /\ source' = [source EXCEPT ![r] = src]
    /\ bound' = [bound EXCEPT ![r] = q]
    /\ UNCHANGED <<entryPaid, unlockTx, unlocked, journal>>

\* The row is inserted; the answer arrives, or is lost and nothing is settled.
Admit(r) ==
    /\ pc[r] \in {"x402", "entitlement"}
    /\ ~Active
    /\ \/ /\ pc[r] = "x402"
          /\ InsertRow(r, "admission_pending", "x402", PaidQuote(r))
          /\ UNCHANGED held
          /\ \/ Goto(r, "settle") /\ SetHooks(r)
             \/ Goto(r, "refused") /\ UNCHANGED gone
       \/ /\ pc[r] = "entitlement"
          /\ \E k \in Entitlements :
                /\ held[k] > 0
                /\ held' = [held EXCEPT ![k] = @ - 1]
                /\ InsertRow(r, "pending", k, IF k = "credit" THEN latest ELSE 0)
          /\ Goto(r, "done") \/ Goto(r, "refused")
          /\ UNCHANGED gone
    /\ UNCHANGED <<kind, target, signed, read, hook, charged, quotes, restarts>>

RefuseAdmission_Settles(r) ==
    /\ pc[r] \in {"x402", "entitlement"}
    /\ Goto(r, IF pc[r] = "x402" THEN "settle" ELSE "refused")
    /\ UNCHANGED <<kind, target, signed, gone, read, hook, charged, quotes, rows, restarts>>

\* Whatever the core refuses is answered with a 4xx or 5xx of the handler.
RefuseAdmission(r) ==
    /\ pc[r] \in {"x402", "entitlement"}
    /\ Goto(r, "refused")
    /\ UNCHANGED <<kind, target, signed, gone, read, hook, charged, quotes, rows, restarts>>

-----------------------------------------------------------------------------
(***************************************************************************)
(* Settlement and capture.                                                 *)
(***************************************************************************)

Connected(r) == capture[r] = NotStarted /\ r \notin gone

\* The client hangs up while its payment is being settled.
Close(r) ==
    /\ pc[r] = "settle" /\ Connected(r)
    /\ capture' = [capture EXCEPT ![r] = MaxAttempts]
    /\ UNCHANGED <<request, header, alerted, charged, quotes, rows, restarts>>

Finish(r) == IF Connected(r) THEN [capture EXCEPT ![r] = MaxAttempts] ELSE capture

\* The facilitator settles and says so; or settles but its answer is lost; or
\* does not settle.  Only the first releases the body, and only it puts a
\* transaction in the header: that is the x402 middleware's part (external).
\* recordSettlementOnFinish takes any transaction named there for a settlement.
Settle(r) ==
    /\ pc[r] = "settle"
    /\ capture' = Finish(r)
    /\ \/ /\ charged' = charged \cup {r}
          /\ header' = header \cup {r}
          /\ read' = IF kind[r] = "unlock" /\ Connected(r) THEN read \cup {r} ELSE read
          /\ Goto(r, "done")
       \/ /\ charged' \in {charged, charged \cup {r}}
          /\ Goto(r, "refused")
          /\ UNCHANGED <<header, read>>
    /\ UNCHANGED <<kind, target, signed, gone, alerted, quotes, rows, restarts>>

EntryApplicable(r) == r \in entryPaid \/ (status[r] = "admission_pending" /\ source[r] = "x402")

UnlockApplicable(r) ==
    \/ unlockTx[target[r]] = r
    \/ unlockTx[target[r]] = Null /\ Ready(target[r]) /\ source[target[r]] # "free"

Applicable(r) == IF kind[r] = "entry" THEN EntryApplicable(r) ELSE UnlockApplicable(r)

\* _apply_settlement.
Apply(r) ==
    IF kind[r] = "entry"
    THEN /\ entryPaid' = entryPaid \cup {r}
         /\ status' = [status EXCEPT ![r] = IF @ = "admission_pending" THEN "pending" ELSE @]
         /\ UNCHANGED <<source, bound, unlockTx, unlocked, held>>
    ELSE /\ unlockTx' = [unlockTx EXCEPT ![target[r]] = r]
         /\ unlocked' = unlocked \cup {target[r]}
         /\ UNCHANGED <<status, source, bound, entryPaid, held>>

Applied(r) == r \in entryPaid \/ \E c \in Requests : unlockTx[c] = r

\* record_payment, reached by a capture that has a transaction to report.
Record(r) ==
    /\ r \in header
    /\ journal' = journal \cup {r}
    /\ \/ Applicable(r) /\ Apply(r)
       \/ UNCHANGED <<status, source, bound, entryPaid, unlockTx, unlocked, held>>

\* A failed attempt; the last one sends an alert, once.
Miss(r) ==
    /\ capture' = [capture EXCEPT ![r] = @ - 1]
    /\ alerted' = IF capture[r] = 1 THEN alerted \cup {r} ELSE alerted

Capturing(r) == capture[r] \in 1..MaxAttempts

Reported(r) == capture' = [capture EXCEPT ![r] = 0] /\ UNCHANGED alerted

Attempt_AnyAnswer(r) ==
    /\ Capturing(r)
    /\ \/ Record(r) /\ Reported(r)
       \/ UNCHANGED rows /\ Miss(r)
       \/ UNCHANGED rows /\ r \in header /\ Reported(r)
    /\ UNCHANGED <<request, header, charged, quotes, restarts>>

\* One attempt: the report is applied and the 200 seen; or it is refused, or
\* lost before or after it is applied, or there is nothing to report yet.
Attempt(r) ==
    /\ Capturing(r)
    /\ \/ Record(r) /\ Applied(r)' /\ Reported(r)
       \/ Record(r) /\ Miss(r)
       \/ UNCHANGED rows /\ Miss(r)
    /\ UNCHANGED <<request, header, charged, quotes, restarts>>

\* A restart of verify-api forgets its requests and its captures; settlements
\* it was waiting for may still happen.
Restart ==
    /\ restarts < MaxRestarts
    /\ restarts' = restarts + 1
    /\ pc' = [r \in Requests |-> IF pc[r] \in {"idle", "done"} THEN pc[r] ELSE "refused"]
    /\ capture' = [r \in Requests |->
          IF capture[r] = NotStarted /\ pc[r] # "settle" THEN NotStarted ELSE 0]
    /\ \E late \in SUBSET {r \in Requests : pc[r] = "settle"} : charged' = charged \cup late
    /\ UNCHANGED <<kind, target, signed, gone, read, header, alerted, quotes, rows>>

-----------------------------------------------------------------------------
(***************************************************************************)
(* The core meanwhile.                                                     *)
(***************************************************************************)

\* A new quote; old ones remain payable for a while.
Requote ==
    /\ latest < MaxQuotes
    /\ latest' = latest + 1
    /\ valid' \in {keep \cup {latest + 1} : keep \in SUBSET valid}
    /\ UNCHANGED <<request, hook, charged, rows, restarts>>

\* The reconciliation loop finishes a journaled settlement.
Reconcile(r) ==
    /\ r \in journal /\ ~Applied(r) /\ Applicable(r)
    /\ Apply(r)
    /\ UNCHANGED <<request, hook, charged, quotes, journal, restarts>>

Become(c, st) == status' = [status EXCEPT ![c] = st]

HumanAnswers(c) ==
    /\ status[c] = "pending" /\ Become(c, "answered")
    /\ UNCHANGED <<request, hook, charged, quotes, source, bound, entryPaid, unlockTx,
                   unlocked, held, journal, restarts>>

Abandon(c) ==
    /\ status[c] = "admission_pending" /\ Become(c, "failed")
    /\ UNCHANGED <<request, hook, charged, quotes, source, bound, entryPaid, unlockTx,
                   unlocked, held, journal, restarts>>

\* The entitlement comes back; a paid chain mints a credit.
Expire(c) ==
    /\ status[c] = "pending" /\ Become(c, "expired")
    /\ held' = [held EXCEPT ![IF source[c] = "free" THEN "free" ELSE "credit"] = @ + 1]
    /\ UNCHANGED <<request, hook, charged, quotes, source, bound, entryPaid, unlockTx,
                   unlocked, journal, restarts>>

-----------------------------------------------------------------------------

RequestStep(r) ==
    \/ Arrive(r) \/ Refuse(r) \/ PreflightEntry(r) \/ PreflightUnlock(r) \/ UnlockFree(r)
    \/ GateEntry(r) \/ GateUnlock(r) \/ Admit(r) \/ RefuseAdmission(r) \/ Close(r)

CoreStep(r) == Reconcile(r) \/ HumanAnswers(r) \/ Abandon(r) \/ Expire(r)

Next ==
    \/ \E r \in Requests : RequestStep(r) \/ Settle(r) \/ Attempt(r) \/ CoreStep(r)
    \/ Requote
    \/ Restart

Spec == Init /\ [][Next]_vars

-----------------------------------------------------------------------------
(***************************************************************************)
(* Properties.                                                             *)
(***************************************************************************)

\* What VerifyChain takes from this side: an entry is charged only after the
\* core has the row it pays for, bound to the quote the payment was signed
\* for, and an unlock only for an answered chain that is not a free one.
\* (Answers below 400 are what lets the middleware settle: app.js:158-196 and
\* 375-397, verify.js:388-489.)
SettlesAsCoreExpects ==
    [][\A r \in charged' \ charged :
        \/ kind[r] = "entry" /\ source[r] = "x402" /\ bound[r] = signed[r]
        \/ /\ kind[r] = "unlock" /\ status[target[r]] = "answered"
           /\ source[target[r]] # "free"]_vars

\* A result leaves verify-api with a settlement of the request that asked for
\* it or for a chain the core has released (the body x402 buffers until it has
\* settled, app.js:391-396, and the completed and free answers, 232-253).
ReadOnlyWhenPaid == \A r \in read : r \in charged \/ target[r] \in unlocked

\* The core's paid gates and its journal rest on settlements that happened,
\* each of a request for that gate of that chain, and an entry on the quote the
\* chain is bound to, whatever was lost, repeated or late (verify.js:319-377,
\* server.py:1175-1341).
GatesRestOnCharges ==
    /\ journal \subseteq charged
    /\ \A c \in entryPaid : kind[c] = "entry" /\ c \in charged /\ bound[c] = signed[c]
    /\ \A c \in Requests : unlockTx[c] # Null =>
          /\ unlockTx[c] \in charged
          /\ kind[unlockTx[c]] = "unlock" /\ target[unlockTx[c]] = c

Lost(r) == restarts > 0 /\ capture[r] = 0

\* A settlement is in the journal, or a capture is still trying to put it there,
\* or an alert was sent for it, or a restart lost its capture; except for the
\* captures that never start (AbortLosesNoRecord; verify.js:319-377).
ChargesAreFollowed ==
    \A r \in charged \ journal :
        Capturing(r) \/ r \in alerted \/ Lost(r) \/ (r \in gone /\ capture[r] = NotStarted)

-----------------------------------------------------------------------------
(***************************************************************************)
(* The inductive invariant behind the properties above.                    *)
(***************************************************************************)

\* A request's kind and target are fixed when it arrives; only an entry has a
\* row, and only once it has been to the core.
RequestsSound ==
    \A r \in Requests :
        /\ kind[r] = "none" <=> pc[r] = "idle"
        /\ kind[r] = "entry" => target[r] = r
        /\ kind[r] = "unlock" => target[r] \in Chains
        /\ status[r] = "none" <=> source[r] = "none"
        /\ status[r] # "none" =>
              kind[r] = "entry" /\ pc[r] \in {"settle", "done", "refused"}
        /\ pc[r] \in {"x402", "entitlement"} => kind[r] = "entry"
        /\ r \in read => kind[r] = "unlock"

UnlockDue(r) == status[target[r]] = "answered" /\ source[target[r]] # "free"

\* What a request may be charged for is there before it is settled, and stays.
ChargesDue ==
    \A r \in Requests :
        /\ pc[r] \in {"gate", "settle"} /\ kind[r] = "unlock" => UnlockDue(r)
        /\ (pc[r] = "settle" \/ r \in charged) /\ kind[r] = "entry" =>
              source[r] = "x402" /\ bound[r] = signed[r]
        /\ pc[r] = "settle" \/ r \in charged => kind[r] # "none"
        /\ pc[r] = "free" => kind[r] = "unlock"

\* A capture that has ended was heard, alarmed or lost; one that has not
\* started belongs to no charge, but for clients gone too early.
CapturesSound ==
    \A r \in Requests :
        /\ capture[r] = 0 => r \in journal \/ r \in alerted \/ Lost(r)
        /\ r \in charged /\ capture[r] = NotStarted => r \in gone

\* What the refinement of PaidGates needs besides: a free release is due when it
\* is called for, and a gate that a settlement opened stays open.
GatesSound ==
    /\ \A r \in Requests : pc[r] = "free" =>
          status[target[r]] = "answered" /\ source[target[r]] = "free"
    /\ \A c \in entryPaid : status[c] \notin {"none", "admission_pending"}
    /\ \A c \in Requests : unlockTx[c] # Null => c \in unlocked

IndInv ==
    /\ TypeOK
    /\ RequestsSound
    /\ ChargesDue
    /\ CapturesSound
    /\ GatesRestOnCharges
    /\ ReadOnlyWhenPaid

-----------------------------------------------------------------------------

\* Contradicted (docs/API.md:308, "A `completed` chain returns its result again
\* without a further charge"): after a caller was shown a chain as completed,
\* no request for it is sent to the payment gate.  app.js:232 looks at the core's
\* row, which the capture of the first payment has yet to reach.
CompletedNotChargedAgain ==
    [][\A r \in Requests : kind[r] = "unlock" /\ pc[r] = "preflight" /\ pc'[r] = "gate" =>
          \A q \in read : target[q] # target[r]]_vars

\* Contradicted (verify.js:317, "so an aborted client connection cannot lose the
\* ledger record"): no settlement is left without record, capture or alert.  A
\* client that hangs up while the core creates its chain does so before the hooks
\* are set (verify.js:462), and they never fire.
AbortLosesNoRecord == \A r \in charged \ journal : Capturing(r) \/ r \in alerted \/ Lost(r)

-----------------------------------------------------------------------------
(***************************************************************************)
(* The refinement of PaidGates, which VerifyChain implements too.  A       *)
(* request that was charged is the settlement of the gate it asked for.    *)
(***************************************************************************)

Gates == INSTANCE PaidGates WITH
    Chains <- Requests,
    Txs <- Requests,
    payFor <- [r \in Requests |-> IF r \in charged THEN target[r] ELSE Null],
    payKind <- [r \in Requests |-> IF r \in charged THEN kind[r] ELSE "none"],
    entryTx <- [c \in Requests |-> IF c \in entryPaid THEN c ELSE Null]

\* Whatever is refused, fails, is lost or restarted between a preflight and the
\* report of its payment, the facilitator charges what is due at a gate of the
\* core, and the core opens that gate for it or none (app.js:158-253 and 375-397,
\* verify.js:319-489, server.py:1175-1341).
OpensPaidGates == Gates!Spec
=============================================================================

-------------------------- MODULE PaymentGateProofs --------------------------
(***************************************************************************)
(* Charges, gates and results of verify-api, for any number of requests,   *)
(* quotes, attempts and restarts.                                          *)
(*                                                                         *)
(* The argument: what a request may be charged for is in the core before   *)
(* the request reaches settlement, and nothing the core does meanwhile     *)
(* takes it away (ChargesDue); so a settlement, however late it is heard   *)
(* of, stands on the gate it was made for.                                 *)
(***************************************************************************)
EXTENDS PaymentGate, TLAPS

LEMMA Constants ==
  /\ Null \notin Requests
  /\ NotStarted \notin 0..MaxAttempts
  /\ MaxAttempts \in 1..MaxAttempts
  BY BoundsAssumption DEF Null, NotStarted, Requests

THEOREM InitInv == Init => IndInv
  BY BoundsAssumption, Constants
  DEF Init, IndInv, TypeOK, RequestsSound, ChargesDue, CapturesSound, GatesRestOnCharges,
      ReadOnlyWhenPaid, Entitlements

\* The steps of a request before it settles that leave the core alone.
LEMMA ArriveStep ==
  ASSUME IndInv, NEW r \in Requests, Arrive(r) PROVE IndInv'
<1>1. /\ pc[r] = "idle" /\ kind[r] = "none" /\ status[r] = "none" /\ r \notin read
      /\ r \notin charged
  BY DEF Arrive, IndInv, RequestsSound, ChargesDue
<1>2. UNCHANGED <<gone, read, hook, charged, quotes, rows, restarts>>
  BY DEF Arrive
<1>3. TypeOK'
  BY <1>2, BoundsAssumption
  DEF Arrive, Goto, IndInv, TypeOK, Chains, hook, quotes, rows
<1>4. RequestsSound'
  BY <1>1, <1>2 DEF Arrive, Goto, IndInv, TypeOK, RequestsSound, Chains, rows
<1>5. ChargesDue'
  BY <1>1, <1>2 DEF Arrive, Goto, IndInv, TypeOK, ChargesDue, UnlockDue, rows
<1>6. CapturesSound'
  BY <1>2 DEF IndInv, CapturesSound, Lost, hook, rows
<1>7. GatesRestOnCharges'
  BY <1>1, <1>2 DEF Arrive, IndInv, TypeOK, GatesRestOnCharges, rows
<1>8. ReadOnlyWhenPaid'
  BY <1>1, <1>2 DEF Arrive, IndInv, TypeOK, ReadOnlyWhenPaid, rows
<1> QED BY <1>3, <1>4, <1>5, <1>6, <1>7, <1>8 DEF IndInv

LEMMA MoveStep ==
  ASSUME IndInv, NEW r \in Requests,
         Refuse(r) \/ PreflightEntry(r) \/ PreflightUnlock(r) \/ GateEntry(r) \/ GateUnlock(r)
         \/ RefuseAdmission(r)
  PROVE  IndInv'
<1>1. /\ UNCHANGED <<kind, target, signed, hook, charged, quotes, rows, restarts>>
      /\ pc[r] \in {"preflight", "gate", "free", "x402", "entitlement"}
      /\ gone' \in {gone, gone \cup {r}}
      /\ read' = read \/ (read' = read \cup {r} /\ kind[r] = "unlock" /\ target[r] \in unlocked)
      /\ \E p \in {"gate", "x402", "entitlement", "free", "settle", "done", "refused"} :
            /\ pc' = [pc EXCEPT ![r] = p]
            /\ p \in {"x402", "entitlement"} => kind[r] = "entry"
            /\ p \in {"gate", "settle"} /\ kind[r] = "unlock" => UnlockDue(r)
            /\ p = "settle" => kind[r] = "unlock"
            /\ p = "free" => kind[r] = "unlock"
  <2>1. CASE Refuse(r)
    BY <2>1 DEF Refuse, Goto
  <2>2. CASE PreflightEntry(r)
    BY <2>2 DEF PreflightEntry, Goto
  <2>3. CASE PreflightUnlock(r)
    BY <2>3 DEF PreflightUnlock, Goto, Completed, Ready, UnlockDue
  <2>4. CASE GateEntry(r)
    BY <2>4 DEF GateEntry, Goto
  <2>5. CASE GateUnlock(r)
    BY <2>5 DEF GateUnlock, SetHooks, Goto, IndInv, ChargesDue
  <2>6. CASE RefuseAdmission(r)
    BY <2>6 DEF RefuseAdmission, Goto
  <2> QED BY <2>1, <2>2, <2>3, <2>4, <2>5, <2>6
<1>2. status[r] = "none" /\ kind[r] # "none"
  BY <1>1 DEF IndInv, RequestsSound
<1>3. TypeOK'
  BY <1>1 DEF IndInv, TypeOK, hook, quotes, rows
<1>4. RequestsSound'
  BY <1>1, <1>2 DEF IndInv, TypeOK, RequestsSound, Chains, rows
<1>5. ChargesDue'
  BY <1>1, <1>2 DEF IndInv, TypeOK, ChargesDue, UnlockDue, rows
<1>6. CapturesSound'
  BY <1>1 DEF IndInv, CapturesSound, Lost, hook, rows
<1>7. GatesRestOnCharges' /\ ReadOnlyWhenPaid'
  BY <1>1 DEF IndInv, GatesRestOnCharges, ReadOnlyWhenPaid, rows
<1> QED BY <1>3, <1>4, <1>5, <1>6, <1>7 DEF IndInv

LEMMA UnlockFreeStep ==
  ASSUME IndInv, NEW r \in Requests, UnlockFree(r) PROVE IndInv'
<1>1. kind[r] = "unlock" /\ target[r] \in Requests /\ status[r] = "none"
  BY DEF UnlockFree, IndInv, ChargesDue, RequestsSound, Chains
<1>2. TypeOK'
  BY <1>1 DEF UnlockFree, Goto, IndInv, TypeOK, hook, quotes
<1>3. RequestsSound'
  BY <1>1 DEF UnlockFree, Goto, IndInv, TypeOK, RequestsSound, Chains
<1>4. ChargesDue'
  BY <1>1 DEF UnlockFree, Goto, IndInv, TypeOK, ChargesDue, UnlockDue
<1>5. CapturesSound' /\ GatesRestOnCharges' /\ ReadOnlyWhenPaid'
  BY DEF UnlockFree, IndInv, CapturesSound, Lost, hook, GatesRestOnCharges, ReadOnlyWhenPaid
<1> QED BY <1>2, <1>3, <1>4, <1>5 DEF IndInv

\* An admission inserts the request's own row, so that nothing that rests on
\* another row is disturbed.
LEMMA AdmitStep ==
  ASSUME IndInv, NEW r \in Requests, Admit(r) PROVE IndInv'
<1>1. /\ kind[r] = "entry" /\ target[r] = r /\ status[r] = "none" /\ r \notin charged
      /\ r \notin entryPaid
  <2>1. kind[r] = "entry" /\ target[r] = r /\ status[r] = "none" /\ source[r] = "none"
    BY DEF Admit, IndInv, RequestsSound
  <2>2. r \notin charged
    BY <2>1 DEF IndInv, ChargesDue
  <2> QED BY <2>1, <2>2 DEF IndInv, GatesRestOnCharges
<1>2. /\ UNCHANGED <<kind, target, signed, read, hook, charged, quotes, restarts, entryPaid,
                     unlockTx, unlocked, journal>>
      /\ gone' \in {gone, gone \cup {r}}
      /\ held' \in [Entitlements -> Nat]
      /\ \E st \in {"admission_pending", "pending"} : status' = [status EXCEPT ![r] = st]
      /\ \E s \in {"x402"} \cup Entitlements, q \in 0..MaxQuotes,
            p \in {"settle", "done", "refused"} :
            /\ source' = [source EXCEPT ![r] = s]
            /\ bound' = [bound EXCEPT ![r] = q]
            /\ pc' = [pc EXCEPT ![r] = p]
            /\ p = "settle" => s = "x402" /\ q = signed[r]
  <2>1. CASE pc[r] = "x402"
    BY <2>1 DEF Admit, InsertRow, SetHooks, Goto, PaidQuote, IndInv, TypeOK
  <2>2. CASE pc[r] = "entitlement"
    <3>1. PICK k \in Entitlements :
            /\ held[k] > 0 /\ held' = [held EXCEPT ![k] = @ - 1]
            /\ InsertRow(r, "pending", k, IF k = "credit" THEN latest ELSE 0)
      BY <2>2 DEF Admit
    <3>2. held' \in [Entitlements -> Nat]
      BY <3>1 DEF IndInv, TypeOK
    <3>3. (IF k = "credit" THEN latest ELSE 0) \in 0..MaxQuotes
      BY BoundsAssumption DEF IndInv, TypeOK
    <3> QED BY <2>2, <3>1, <3>2, <3>3 DEF Admit, InsertRow, Goto
  <2> QED BY <2>1, <2>2 DEF Admit
<1>3. TypeOK'
  BY <1>2 DEF IndInv, TypeOK, hook, quotes, Entitlements
<1>4. RequestsSound'
  BY <1>1, <1>2 DEF IndInv, TypeOK, RequestsSound, Chains, Entitlements
<1>5. ChargesDue'
  <2>1. \A q \in Requests : UnlockDue(q) /\ kind[q] = "unlock" => UnlockDue(q)'
    BY <1>1, <1>2 DEF IndInv, TypeOK, RequestsSound, Chains, UnlockDue
  <2> QED BY <1>1, <1>2, <2>1 DEF IndInv, TypeOK, ChargesDue
<1>6. CapturesSound' /\ ReadOnlyWhenPaid'
  BY <1>2 DEF IndInv, CapturesSound, Lost, hook, ReadOnlyWhenPaid
<1>7. GatesRestOnCharges'
  BY <1>1, <1>2 DEF IndInv, TypeOK, GatesRestOnCharges
<1> QED BY <1>3, <1>4, <1>5, <1>6, <1>7 DEF IndInv

LEMMA CloseStep ==
  ASSUME IndInv, NEW r \in Requests, Close(r) PROVE IndInv'
<1>1. TypeOK' /\ CapturesSound'
  BY Constants, BoundsAssumption
  DEF Close, request, quotes, rows, IndInv, TypeOK, CapturesSound, Lost
<1>2. UNCHANGED <<request, charged, quotes, rows, restarts>>
  BY DEF Close
<1>3. RequestsSound' /\ ChargesDue'
  BY <1>2 DEF IndInv, RequestsSound, ChargesDue, UnlockDue, Chains, request, rows
<1>4. GatesRestOnCharges' /\ ReadOnlyWhenPaid'
  BY <1>2 DEF IndInv, GatesRestOnCharges, ReadOnlyWhenPaid, request, rows
<1> QED BY <1>1, <1>3, <1>4 DEF IndInv

\* A settlement finds what it pays for (ChargesDue) and starts a capture,
\* unless the client was gone too early or has already started it.
LEMMA SettleStep ==
  ASSUME IndInv, NEW r \in Requests, Settle(r) PROVE IndInv'
<1>1. /\ UNCHANGED <<kind, target, signed, gone, alerted, quotes, rows, restarts>>
      /\ pc[r] = "settle" /\ kind[r] \in {"entry", "unlock"}
      /\ capture' = Finish(r)
      /\ charged' \in {charged, charged \cup {r}}
      /\ header' \in {header, header \cup {r}} /\ header' \subseteq charged'
      /\ \/ read' = read
         \/ read' = read \cup {r} /\ kind[r] = "unlock" /\ charged' = charged \cup {r}
      /\ \E p \in {"done", "refused"} : pc' = [pc EXCEPT ![r] = p]
  BY DEF Settle, Goto, IndInv, TypeOK, ChargesDue
<1>2. /\ capture' \in [Requests -> 0..MaxAttempts \cup {NotStarted}]
      /\ \A q \in Requests : capture'[q] = 0 => capture[q] = 0
      /\ \A q \in Requests \ {r} : capture'[q] = capture[q]
      /\ capture'[r] = NotStarted => r \in gone
  BY <1>1, Constants, BoundsAssumption DEF Finish, Connected, IndInv, TypeOK
<1>3. TypeOK'
  <2>1. UNCHANGED <<kind, target, signed, gone, alerted, latest, valid, status, source, bound,
                    entryPaid, unlockTx, unlocked, held, journal, restarts>>
    BY <1>1 DEF quotes, rows
  <2>2. /\ pc' \in [Requests -> {"idle", "preflight", "gate", "x402", "entitlement",
                                 "free", "settle", "done", "refused"}]
        /\ charged' \subseteq Requests /\ header' \subseteq charged' /\ read' \subseteq Requests
    BY <1>1 DEF IndInv, TypeOK
  <2> QED BY <1>2, <2>1, <2>2 DEF IndInv, TypeOK
<1>4. RequestsSound'
  BY <1>1 DEF IndInv, TypeOK, RequestsSound, Chains, rows
<1>5. ChargesDue'
  BY <1>1 DEF IndInv, TypeOK, ChargesDue, UnlockDue, rows
<1>6. CapturesSound'
  BY <1>1, <1>2 DEF IndInv, TypeOK, CapturesSound, Lost, rows
<1>7. GatesRestOnCharges' /\ ReadOnlyWhenPaid'
  BY <1>1 DEF IndInv, GatesRestOnCharges, ReadOnlyWhenPaid, rows
<1> QED BY <1>3, <1>4, <1>5, <1>6, <1>7 DEF IndInv

\* Applying a settlement that happened puts it on its own gate.
LEMMA ApplyKeeps ==
  ASSUME IndInv, NEW r \in Requests, r \in charged,
         UNCHANGED <<request, charged, header, quotes, restarts>>,
         journal' \in {journal, journal \cup {r}},
         (Applicable(r) /\ Apply(r))
           \/ UNCHANGED <<status, source, bound, entryPaid, unlockTx, unlocked, held>>,
         capture' \in [Requests -> 0..MaxAttempts \cup {NotStarted}],
         alerted' \subseteq Requests
  PROVE  TypeOK' /\ RequestsSound' /\ ChargesDue' /\ GatesRestOnCharges' /\ ReadOnlyWhenPaid'
<1>1. CASE UNCHANGED <<status, source, bound, entryPaid, unlockTx, unlocked, held>>
  <2>1. TypeOK'
    BY <1>1 DEF IndInv, TypeOK, request, quotes
  <2>2. RequestsSound' /\ ChargesDue'
    BY <1>1 DEF IndInv, RequestsSound, ChargesDue, UnlockDue, Chains, request
  <2>3. GatesRestOnCharges' /\ ReadOnlyWhenPaid'
    BY <1>1 DEF IndInv, GatesRestOnCharges, ReadOnlyWhenPaid, request
  <2> QED BY <2>1, <2>2, <2>3
<1>2. CASE Applicable(r) /\ Apply(r) /\ kind[r] = "entry"
  <2>1. /\ source[r] = "x402" /\ bound[r] = signed[r]
        /\ entryPaid' = entryPaid \cup {r}
        /\ status' = [status EXCEPT ![r] = IF @ = "admission_pending" THEN "pending" ELSE @]
        /\ UNCHANGED <<source, bound, unlockTx, unlocked, held>>
    BY <1>2 DEF Apply, IndInv, ChargesDue
  <2>2. TypeOK'
    BY <2>1 DEF IndInv, TypeOK, request, quotes
  <2>3. RequestsSound'
    BY <2>1 DEF IndInv, TypeOK, RequestsSound, Chains, request
  <2>4. ChargesDue'
    <3>1. \A q \in Requests : kind[q] = "unlock" => target[q] \in Requests
      BY DEF IndInv, RequestsSound, Chains
    <3> QED BY <2>1, <3>1 DEF IndInv, TypeOK, ChargesDue, UnlockDue, request
  <2>5. GatesRestOnCharges' /\ ReadOnlyWhenPaid'
    BY <1>2, <2>1 DEF IndInv, GatesRestOnCharges, ReadOnlyWhenPaid, request
  <2> QED BY <2>2, <2>3, <2>4, <2>5
<1>3. CASE Applicable(r) /\ Apply(r) /\ kind[r] # "entry"
  <2>1. kind[r] = "unlock" /\ target[r] \in Requests
    BY <1>3 DEF IndInv, TypeOK, ChargesDue, RequestsSound, Chains
  <2>2. /\ unlockTx' = [unlockTx EXCEPT ![target[r]] = r]
        /\ unlocked' = unlocked \cup {target[r]}
        /\ UNCHANGED <<status, source, bound, entryPaid, held>>
    BY <1>3 DEF Apply
  <2>3. TypeOK'
    BY <2>1, <2>2 DEF IndInv, TypeOK, request, quotes
  <2>4. RequestsSound' /\ ChargesDue'
    BY <2>2 DEF IndInv, RequestsSound, ChargesDue, UnlockDue, Chains, request
  <2>5. GatesRestOnCharges' /\ ReadOnlyWhenPaid'
    BY <2>1, <2>2 DEF IndInv, TypeOK, GatesRestOnCharges, ReadOnlyWhenPaid, request
  <2> QED BY <2>3, <2>4, <2>5
<1> QED BY <1>1, <1>2, <1>3

\* An attempt counts down and ends in a heard or an alarmed settlement.
LEMMA AttemptStep ==
  ASSUME IndInv, NEW r \in Requests, Attempt(r) PROVE IndInv'
<1>1. /\ UNCHANGED <<request, header, charged, quotes, restarts>>
      /\ capture[r] \in 1..MaxAttempts
      /\ \/ /\ r \in charged /\ journal' = journal \cup {r}
            /\ \/ Applicable(r) /\ Apply(r)
               \/ UNCHANGED <<status, source, bound, entryPaid, unlockTx, unlocked, held>>
         \/ UNCHANGED rows
  BY DEF Attempt, Record, Capturing, IndInv, TypeOK
<1>2. /\ \/ capture' = [capture EXCEPT ![r] = 0] /\ alerted' = alerted /\ journal' = journal \cup {r}
         \/ /\ capture' = [capture EXCEPT ![r] = @ - 1]
            /\ alerted' = IF capture[r] = 1 THEN alerted \cup {r} ELSE alerted
            /\ journal \subseteq journal'
  BY DEF Attempt, Record, Reported, Miss, rows
<1>3. /\ capture' \in [Requests -> 0..MaxAttempts \cup {NotStarted}]
      /\ alerted' \subseteq Requests
      /\ \A q \in Requests \ {r} : capture'[q] = capture[q]
      /\ capture'[r] \in 0..MaxAttempts
      /\ capture'[r] = 0 => r \in journal' \/ r \in alerted'
      /\ alerted \subseteq alerted'
  BY <1>1, <1>2, BoundsAssumption DEF IndInv, TypeOK
<1>4. CapturesSound'
  BY <1>1, <1>2, <1>3, Constants DEF IndInv, CapturesSound, Lost, request
<1>5. TypeOK' /\ RequestsSound' /\ ChargesDue' /\ GatesRestOnCharges' /\ ReadOnlyWhenPaid'
  <2>1. CASE UNCHANGED rows
    <3>1. TypeOK'
      BY <1>1, <1>3, <2>1 DEF IndInv, TypeOK, request, quotes, rows
    <3>2. RequestsSound' /\ ChargesDue'
      BY <1>1, <2>1 DEF IndInv, RequestsSound, ChargesDue, UnlockDue, Chains, request, rows
    <3>3. GatesRestOnCharges' /\ ReadOnlyWhenPaid'
      BY <1>1, <2>1 DEF IndInv, GatesRestOnCharges, ReadOnlyWhenPaid, request, rows
    <3> QED BY <3>1, <3>2, <3>3
  <2>2. CASE ~UNCHANGED rows
    BY <1>1, <1>3, <2>2, ApplyKeeps
  <2> QED BY <2>1, <2>2
<1> QED BY <1>4, <1>5 DEF IndInv

LEMMA RestartStep ==
  ASSUME IndInv, Restart PROVE IndInv'
<1>1. /\ UNCHANGED <<kind, target, signed, gone, read, header, alerted, quotes, rows>>
      /\ restarts' \in Nat /\ restarts' > 0
      /\ charged \subseteq charged' /\ charged' \subseteq Requests
      /\ \A r \in charged' : r \in charged \/ pc[r] = "settle"
      /\ pc' \in [Requests -> {"idle", "done", "refused"}]
      /\ \A r \in Requests : pc[r] = "idle" <=> pc'[r] = "idle"
      /\ capture' \in [Requests -> {0, NotStarted}]
      /\ \A r \in Requests : capture'[r] = NotStarted => capture[r] = NotStarted /\ pc[r] # "settle"
  <2>1. PICK late \in SUBSET {r \in Requests : pc[r] = "settle"} : charged' = charged \cup late
    BY DEF Restart
  <2>2. /\ charged \subseteq charged' /\ charged' \subseteq Requests
        /\ \A r \in charged' : r \in charged \/ pc[r] = "settle"
    BY <2>1 DEF IndInv, TypeOK
  <2>3. /\ pc' \in [Requests -> {"idle", "done", "refused"}]
        /\ \A r \in Requests : pc[r] = "idle" <=> pc'[r] = "idle"
    BY DEF Restart, IndInv, TypeOK
  <2>4. /\ capture' \in [Requests -> {0, NotStarted}]
        /\ \A r \in Requests :
              capture'[r] = NotStarted => capture[r] = NotStarted /\ pc[r] # "settle"
    BY Constants DEF Restart
  <2>5. /\ UNCHANGED <<kind, target, signed, gone, read, header, alerted, quotes, rows>>
        /\ restarts' \in Nat /\ restarts' > 0
    BY DEF Restart, IndInv, TypeOK
  <2> QED BY <2>2, <2>3, <2>4, <2>5
<1>2. TypeOK'
  BY <1>1, BoundsAssumption DEF IndInv, TypeOK, quotes, rows
<1>3. RequestsSound'
  BY <1>1 DEF IndInv, RequestsSound, Chains, rows
<1>4. ChargesDue'
  BY <1>1 DEF IndInv, ChargesDue, UnlockDue, rows
<1>5. CapturesSound'
  BY <1>1, Constants DEF IndInv, CapturesSound, Lost, rows
<1>6. GatesRestOnCharges' /\ ReadOnlyWhenPaid'
  BY <1>1 DEF IndInv, GatesRestOnCharges, ReadOnlyWhenPaid, rows
<1> QED BY <1>2, <1>3, <1>4, <1>5, <1>6 DEF IndInv

LEMMA RequoteStep ==
  ASSUME IndInv, Requote PROVE IndInv'
<1>1. latest' \in 1..MaxQuotes /\ valid' \subseteq 1..latest'
  <2>1. PICK keep \in SUBSET valid : valid' = keep \cup {latest + 1}
    BY DEF Requote
  <2>2. latest \in 1..MaxQuotes /\ latest < MaxQuotes /\ latest' = latest + 1
    BY DEF Requote, IndInv, TypeOK
  <2>3. latest' \in 1..MaxQuotes /\ latest + 1 \in 1..latest'
    BY <2>2, BoundsAssumption
  <2>4. 1..latest \subseteq 1..latest'
    BY <2>2, BoundsAssumption
  <2> QED BY <2>1, <2>3, <2>4 DEF IndInv, TypeOK
<1>2. UNCHANGED <<request, hook, charged, rows, restarts>>
  BY DEF Requote
<1>3. TypeOK'
  BY <1>1, <1>2 DEF IndInv, TypeOK, request, hook, rows
<1>4. RequestsSound' /\ ChargesDue' /\ CapturesSound'
  BY <1>2 DEF IndInv, RequestsSound, ChargesDue, CapturesSound, Lost, UnlockDue, Chains,
              request, hook, rows
<1>5. GatesRestOnCharges' /\ ReadOnlyWhenPaid'
  BY <1>2 DEF IndInv, GatesRestOnCharges, ReadOnlyWhenPaid, request, rows
<1> QED BY <1>3, <1>4, <1>5 DEF IndInv

LEMMA ReconcileStep ==
  ASSUME IndInv, NEW r \in Requests, Reconcile(r) PROVE IndInv'
<1>1. /\ r \in charged /\ UNCHANGED <<request, hook, charged, quotes, journal, restarts>>
      /\ Applicable(r) /\ Apply(r)
  BY DEF Reconcile, IndInv, GatesRestOnCharges
<1>2. TypeOK' /\ RequestsSound' /\ ChargesDue' /\ GatesRestOnCharges' /\ ReadOnlyWhenPaid'
  BY <1>1, ApplyKeeps DEF hook, IndInv, TypeOK
<1>3. CapturesSound'
  BY <1>1 DEF IndInv, CapturesSound, Lost, request, hook
<1> QED BY <1>2, <1>3 DEF IndInv

\* Answer, abandonment and expiry move only chains that are not yet answered.
LEMMA DecideStep ==
  ASSUME IndInv, NEW c \in Requests, HumanAnswers(c) \/ Abandon(c) \/ Expire(c) PROVE IndInv'
<1>1. /\ status[c] \in {"admission_pending", "pending"}
      /\ \E st \in {"answered", "failed", "expired"} : status' = [status EXCEPT ![c] = st]
      /\ UNCHANGED <<request, hook, charged, quotes, source, bound, entryPaid, unlockTx,
                     unlocked, journal, restarts>>
  BY DEF HumanAnswers, Abandon, Expire, Become
<1>2. held' \in [Entitlements -> Nat]
  BY DEF HumanAnswers, Abandon, Expire, Entitlements, IndInv, TypeOK
<1>3. TypeOK'
  BY <1>1, <1>2 DEF IndInv, TypeOK, request, hook, quotes
<1>4. RequestsSound'
  BY <1>1 DEF IndInv, TypeOK, RequestsSound, Chains, request
<1>5. ChargesDue'
  <2>1. \A q \in Requests : kind[q] = "unlock" => target[q] \in Requests
    BY DEF IndInv, RequestsSound, Chains
  <2> QED BY <1>1, <2>1 DEF IndInv, TypeOK, ChargesDue, UnlockDue, request
<1>6. CapturesSound' /\ GatesRestOnCharges' /\ ReadOnlyWhenPaid'
  BY <1>1 DEF IndInv, CapturesSound, Lost, GatesRestOnCharges, ReadOnlyWhenPaid, request, hook
<1> QED BY <1>3, <1>4, <1>5, <1>6 DEF IndInv

LEMMA StutterStep ==
  ASSUME IndInv, UNCHANGED vars PROVE IndInv'
<1>1. UNCHANGED <<request, hook, charged, quotes, rows, restarts>>
  BY DEF vars
<1>2. TypeOK'
  BY <1>1 DEF IndInv, TypeOK, request, hook, quotes, rows
<1>3. RequestsSound' /\ ChargesDue' /\ CapturesSound'
  BY <1>1 DEF IndInv, RequestsSound, ChargesDue, CapturesSound, Lost, UnlockDue, Chains,
              request, hook, rows
<1>4. GatesRestOnCharges' /\ ReadOnlyWhenPaid'
  BY <1>1 DEF IndInv, GatesRestOnCharges, ReadOnlyWhenPaid, request, rows
<1> QED BY <1>2, <1>3, <1>4 DEF IndInv

LEMMA NextInv == IndInv /\ [Next]_vars => IndInv'
<1> SUFFICES ASSUME IndInv, [Next]_vars PROVE IndInv'
  OBVIOUS
<1>1. ASSUME NEW r \in Requests, RequestStep(r) PROVE IndInv'
  BY <1>1, ArriveStep, MoveStep, UnlockFreeStep, AdmitStep, CloseStep DEF RequestStep
<1>2. ASSUME NEW r \in Requests, CoreStep(r) PROVE IndInv'
  BY <1>2, ReconcileStep, DecideStep DEF CoreStep
<1> QED BY <1>1, <1>2, SettleStep, AttemptStep, RestartStep, RequoteStep, StutterStep DEF Next

\* In every reachable state the charges are due and the captures account for
\* them.
THEOREM InvCorrect == Spec => []IndInv
  BY InitInv, NextInv, PTL DEF Spec

\* Type correctness of the request model.
THEOREM TypeCorrect == Spec => []TypeOK
<1>1. IndInv => TypeOK BY DEF IndInv
<1> QED BY <1>1, InvCorrect, PTL

\* The core's gates and its journal rest on settlements made for them.
THEOREM GatesCorrect == Spec => []GatesRestOnCharges
<1>1. IndInv => GatesRestOnCharges BY DEF IndInv
<1> QED BY <1>1, InvCorrect, PTL

\* A result is shown only to a caller who paid or of a released chain.
THEOREM ReadPaid == Spec => []ReadOnlyWhenPaid
<1>1. IndInv => ReadOnlyWhenPaid BY DEF IndInv
<1> QED BY <1>1, InvCorrect, PTL

\* No settlement is dropped silently but for clients gone before the hooks.
THEOREM ChargesFollowed == Spec => []ChargesAreFollowed
<1>1. IndInv => ChargesAreFollowed
  BY BoundsAssumption DEF IndInv, TypeOK, CapturesSound, ChargesAreFollowed, Capturing
<1> QED BY <1>1, InvCorrect, PTL

\* Whatever is charged is in the core as VerifyChain expects it.
THEOREM SettlesExpected == Spec => SettlesAsCoreExpects
<1>1. ASSUME IndInv, Next, NEW r \in charged' \ charged
      PROVE  \/ kind[r] = "entry" /\ source[r] = "x402" /\ bound[r] = signed[r]
             \/ kind[r] = "unlock" /\ UnlockDue(r)
  <2>1. r \in Requests /\ pc[r] = "settle"
    <3>1. CASE Restart
      BY <1>1, <3>1 DEF Restart
    <3>2. CASE ~Restart
      <4>1. CASE \E q \in Requests : Settle(q)
        BY <1>1, <4>1 DEF Settle
      <4>2. CASE ~\E q \in Requests : Settle(q)
        <5>1. charged' = charged
          BY <1>1, <3>2, <4>2
          DEF Next, RequestStep, CoreStep, Arrive, Refuse, PreflightEntry, PreflightUnlock,
              UnlockFree, GateEntry, GateUnlock, Admit, RefuseAdmission, Close, Attempt,
              Reconcile, HumanAnswers, Abandon, Expire, Requote
        <5> QED BY <1>1, <5>1
      <4> QED BY <4>1, <4>2
    <3> QED BY <3>1, <3>2
  <2> QED BY <1>1, <2>1 DEF IndInv, TypeOK, ChargesDue
<1>2. IndInv /\ [Next]_vars => [\A r \in charged' \ charged :
        \/ kind[r] = "entry" /\ source[r] = "x402" /\ bound[r] = signed[r]
        \/ /\ kind[r] = "unlock" /\ status[target[r]] = "answered"
           /\ source[target[r]] # "free"]_vars
  BY <1>1 DEF UnlockDue
<1> QED BY <1>2, InvCorrect, PTL DEF Spec, SettlesAsCoreExpects

(***************************************************************************)
(* The refinement of PaidGates.                                            *)
(***************************************************************************)

\* What a report or a repair does to the core's gates.
LEMMA ApplyGates ==
  ASSUME IndInv, GatesSound, NEW r \in charged,
         UNCHANGED <<request, charged>>,
         (Applicable(r) /\ Apply(r)) \/ UNCHANGED <<status, source, entryPaid, unlockTx, unlocked>>
  PROVE  GatesSound' /\ [Gates!Next]_(Gates!gates)
<1>1. r \in Requests /\ kind[r] \in {"entry", "unlock"}
  BY DEF IndInv, TypeOK, ChargesDue
<1>2. UNCHANGED <<pc, kind, target, charged>>
  BY DEF request
<1>3. CASE UNCHANGED <<status, source, entryPaid, unlockTx, unlocked>>
  <2>1. GatesSound'
    BY <1>2, <1>3 DEF GatesSound
  <2>2. UNCHANGED Gates!gates
    BY <1>2, <1>3 DEF Gates!gates, Gates!rows, Gates!charges, Gates!opened
  <2> QED BY <2>1, <2>2
<1>4. CASE Applicable(r) /\ Apply(r) /\ kind[r] = "entry"
  <2>1. /\ entryPaid' = entryPaid \cup {r}
        /\ status' = [status EXCEPT ![r] = IF @ = "admission_pending" THEN "pending" ELSE @]
        /\ UNCHANGED <<source, unlockTx, unlocked>>
        /\ r \in entryPaid \/ status[r] = "admission_pending"
        /\ status \in [Requests -> {"none", "admission_pending", "pending", "answered",
                                    "expired", "failed"}]
    BY <1>4 DEF Apply, Applicable, EntryApplicable, IndInv, TypeOK
  <2>2. GatesSound'
    <3>1. \A q \in Requests : status[q] = "answered" => status'[q] = "answered"
      BY <2>1
    <3>2. \A q \in Requests : pc[q] = "free" => target[q] \in Requests
      BY DEF IndInv, ChargesDue, RequestsSound, Chains
    <3> QED BY <1>1, <1>2, <2>1, <3>1, <3>2 DEF GatesSound, IndInv, TypeOK
  <2>3. CASE r \in entryPaid
    <3>1. entryPaid' = entryPaid /\ status' = status
      BY <2>1, <2>3 DEF GatesSound
    <3> QED BY <1>2, <2>1, <2>2, <3>1 DEF Gates!gates, Gates!rows, Gates!charges, Gates!opened
  <2>4. CASE r \notin entryPaid
    <3>1. target[r] = r
      BY <1>1, <1>4 DEF IndInv, RequestsSound
    <3>2. [c \in Requests |-> IF c \in entryPaid THEN c ELSE Null]'
            = [[c \in Requests |-> IF c \in entryPaid THEN c ELSE Null] EXCEPT ![r] = r]
      BY <1>1, <2>1
    <3>3. Gates!OpenEntry(r)
      BY <1>1, <1>2, <1>4, <2>1, <2>4, <3>1, <3>2 DEF Gates!OpenEntry, Gates!charges
    <3> QED BY <1>1, <2>2, <3>3 DEF Gates!Next
  <2> QED BY <2>3, <2>4
<1>5. CASE Applicable(r) /\ Apply(r) /\ kind[r] = "unlock"
  <2>1. PICK c \in Requests : c = target[r]
    BY <1>1, <1>5 DEF IndInv, RequestsSound, Chains
  <2>2. /\ unlockTx' = [unlockTx EXCEPT ![c] = r]
        /\ unlocked' = unlocked \cup {c}
        /\ UNCHANGED <<status, source, entryPaid>>
        /\ unlockTx[c] = r \/ (unlockTx[c] = Null /\ status[c] = "answered" /\ c \notin unlocked)
    BY <1>5, <2>1 DEF Apply, Applicable, UnlockApplicable, Ready
  <2>3. GatesSound'
    BY <1>2, <2>1, <2>2 DEF GatesSound, IndInv, TypeOK
  <2>4. CASE unlockTx[c] = r
    <3>1. unlockTx' = unlockTx /\ unlocked' = unlocked
      BY <1>1, <2>1, <2>2, <2>4, Constants DEF GatesSound, IndInv, TypeOK
    <3> QED BY <1>2, <2>2, <2>3, <3>1 DEF Gates!gates, Gates!rows, Gates!charges, Gates!opened
  <2>5. CASE unlockTx[c] # r
    <3>1. Gates!OpenUnlock(c)
      BY <1>1, <1>2, <1>5, <2>1, <2>2, <2>5 DEF Gates!OpenUnlock, Gates!rows, Gates!charges
    <3> QED BY <2>1, <2>3, <3>1 DEF Gates!Next
  <2> QED BY <2>4, <2>5
<1> QED BY <1>1, <1>3, <1>4, <1>5

\* Whoever settles, and however many at once, is charged for a gate that is due.
LEMMA ChargeOpens ==
  ASSUME IndInv, NEW late \in SUBSET {r \in Requests : pc[r] = "settle"},
         charged' = charged \cup late,
         UNCHANGED <<kind, target, rows>>
  PROVE  [Gates!Next]_(Gates!gates)
<1>1. UNCHANGED <<status, source, entryPaid, unlockTx, unlocked>>
  BY DEF rows
<1>2. CASE charged' = charged
  BY <1>1, <1>2 DEF Gates!gates, Gates!rows, Gates!charges, Gates!opened
<1>3. CASE charged' # charged
  <2> DEFINE pf == [r \in Requests |-> IF r \in charged THEN target[r] ELSE Null]
             pk == [r \in Requests |-> IF r \in charged THEN kind[r] ELSE "none"]
  <2>1. \A r \in Requests :
           /\ pf[r] = IF r \in charged THEN target[r] ELSE Null
           /\ pk[r] = IF r \in charged THEN kind[r] ELSE "none"
           /\ pf'[r] = IF r \in charged' THEN target[r] ELSE Null
           /\ pk'[r] = IF r \in charged' THEN kind[r] ELSE "none"
    OBVIOUS
  <2>2. \A r \in charged' :
           /\ r \in Requests /\ target[r] \in Requests /\ kind[r] \in {"entry", "unlock"}
           /\ kind[r] = "entry" => target[r] = r
           /\ r \notin charged => Gates!Due(target[r], kind[r])
    <3>1. TAKE r \in charged'
    <3>2. r \in Requests /\ (r \in charged \/ pc[r] = "settle")
      BY DEF IndInv, TypeOK
    <3>3. kind[r] \in {"entry", "unlock"}
      BY <3>2 DEF IndInv, TypeOK, ChargesDue
    <3>4. /\ target[r] \in Requests
          /\ kind[r] = "entry" => target[r] = r
      BY <3>2, <3>3 DEF IndInv, RequestsSound, Chains
    <3>5. r \notin charged => Gates!Due(target[r], kind[r])
      BY <3>2, <3>3, <3>4 DEF IndInv, ChargesDue, UnlockDue, Gates!Due
    <3> QED BY <3>2, <3>3, <3>4, <3>5
  <2>3. pf' # pf
    <3>1. PICK r \in charged' : r \notin charged
      BY <1>3
    <3> QED BY <2>1, <2>2, <3>1, Constants
  <2>4. /\ pf' \in [Requests -> Requests \cup {Null}]
        /\ pk' \in [Requests -> {"none", "entry", "unlock"}]
    BY <2>2
  <2>5. ASSUME NEW r \in Requests
        PROVE  \/ pf'[r] = pf[r] /\ pk'[r] = pk[r]
               \/ pf[r] = Null /\ pf'[r] \in Requests /\ Gates!Due(pf'[r], pk'[r])
    <3>1. CASE r \in charged \/ r \notin charged'
      BY <2>1, <3>1
    <3>2. CASE r \notin charged /\ r \in charged'
      <4>1. PICK c \in Requests, k \in {"entry", "unlock"} :
               c = target[r] /\ k = kind[r] /\ Gates!Due(target[r], kind[r])
        BY <2>2, <3>2
      <4>2. pf[r] = Null /\ pf'[r] = target[r] /\ pk'[r] = kind[r]
        BY <2>1, <3>2
      <4> HIDE DEF pf, pk
      <4> QED BY <4>1, <4>2
    <3> QED BY <3>1, <3>2
  <2>6. ASSUME NEW r \in Requests, NEW q \in Requests,
               pf[r] = Null, pk'[r] = "entry", pk'[q] = "entry", pf'[r] = pf'[q]
        PROVE  r = q
    BY <2>1, <2>2, <2>6
  <2>7. UNCHANGED <<Gates!rows, Gates!opened>>
    BY <1>1 DEF Gates!rows, Gates!opened
  <2>8. Gates!Charge
    BY <2>3, <2>4, <2>5, <2>6, <2>7 DEF Gates!Charge
  <2> QED BY <2>8 DEF Gates!Next
<1> QED BY <1>2, <1>3

\* A request moves without its charge being made or the core's rows changing.
LEMMA MoveOpens ==
  ASSUME IndInv, NEW r \in Requests,
         \/ Arrive(r) \/ Refuse(r) \/ PreflightEntry(r) \/ PreflightUnlock(r) \/ GateEntry(r)
         \/ GateUnlock(r) \/ RefuseAdmission(r) \/ Close(r)
  PROVE  UNCHANGED Gates!gates
<1>1. UNCHANGED <<charged, rows>>
  BY DEF Arrive, Refuse, PreflightEntry, PreflightUnlock, GateEntry, GateUnlock,
         RefuseAdmission, Close
<1>2. \A q \in charged : kind'[q] = kind[q] /\ target'[q] = target[q]
  <2>1. CASE Arrive(r)
    <3>1. r \notin charged
      BY <2>1 DEF Arrive, IndInv, RequestsSound, ChargesDue
    <3> QED BY <2>1, <3>1 DEF Arrive, IndInv, TypeOK
  <2>2. CASE ~Arrive(r)
    BY <2>2 DEF Refuse, PreflightEntry, PreflightUnlock, GateEntry, GateUnlock,
                RefuseAdmission, Close, request
  <2> QED BY <2>1, <2>2
<1> QED BY <1>1, <1>2 DEF rows, Gates!gates, Gates!rows, Gates!charges, Gates!opened

LEMMA AdmitOpens ==
  ASSUME IndInv, GatesSound, NEW r \in Requests, Admit(r)
  PROVE  GatesSound' /\ Gates!Next
<1>1. /\ status[r] = "none" /\ kind[r] = "entry" /\ r \notin entryPaid
      /\ UNCHANGED <<kind, target, charged, entryPaid, unlockTx, unlocked>>
      /\ \E p \in {"settle", "done", "refused"} : pc' = [pc EXCEPT ![r] = p]
  <2>1. kind[r] = "entry" /\ status[r] = "none"
    BY DEF Admit, IndInv, RequestsSound
  <2> QED BY <2>1 DEF Admit, InsertRow, Goto, GatesSound
<1>2. \E src \in {"x402", "credit", "free"}, st \in {"admission_pending", "pending"} :
         /\ st = IF src = "x402" THEN "admission_pending" ELSE "pending"
         /\ status' = [status EXCEPT ![r] = st]
         /\ source' = [source EXCEPT ![r] = src]
  BY DEF Admit, InsertRow, Entitlements
<1>3. GatesSound'
  <2>1. ASSUME NEW q \in Requests, pc'[q] = "free"
        PROVE  status'[target'[q]] = "answered" /\ source'[target'[q]] = "free"
    <3>1. pc[q] = "free" /\ q # r
      BY <1>1, <2>1 DEF IndInv, TypeOK
    <3>2. target[q] # r /\ target[q] \in Requests
      BY <1>1, <3>1 DEF GatesSound, IndInv, RequestsSound, ChargesDue, Chains
    <3> QED BY <1>1, <1>2, <3>1, <3>2 DEF GatesSound, IndInv, TypeOK
  <2>2. \A c \in entryPaid' : status'[c] \notin {"none", "admission_pending"}
    BY <1>1, <1>2 DEF GatesSound, IndInv, TypeOK
  <2> QED BY <1>1, <2>1, <2>2 DEF GatesSound
<1>4. \E src \in {"x402", "credit", "free"} : Gates!Admit(r, src)
  BY <1>1, <1>2 DEF Gates!Admit, Gates!charges, Gates!opened
<1> QED BY <1>3, <1>4 DEF Gates!Next

LEMMA FreeOpens ==
  ASSUME IndInv, GatesSound, NEW r \in Requests, UnlockFree(r)
  PROVE  GatesSound' /\ [Gates!Next]_(Gates!gates)
<1>1. PICK c \in Requests : c = target[r]
  BY DEF UnlockFree, IndInv, ChargesDue, RequestsSound, Chains
<1>2. /\ status[c] = "answered" /\ source[c] = "free" /\ unlocked' = unlocked \cup {c}
      /\ UNCHANGED <<kind, target, charged, status, source, entryPaid, unlockTx>>
      /\ \E p \in {"done", "refused"} : pc' = [pc EXCEPT ![r] = p]
  BY <1>1 DEF UnlockFree, Goto, GatesSound
<1>3. GatesSound'
  BY <1>2 DEF GatesSound, IndInv, TypeOK
<1>4. CASE c \in unlocked
  <2>1. unlocked' = unlocked
    BY <1>2, <1>4
  <2> QED BY <1>2, <1>3, <2>1 DEF Gates!gates, Gates!rows, Gates!charges, Gates!opened
<1>5. CASE c \notin unlocked
  <2>1. Gates!OpenFree(c)
    BY <1>2, <1>5 DEF Gates!OpenFree, Gates!rows, Gates!charges
  <2> QED BY <1>1, <1>3, <2>1 DEF Gates!Next
<1> QED BY <1>4, <1>5

LEMMA DecideOpens ==
  ASSUME IndInv, GatesSound, NEW c \in Requests, HumanAnswers(c) \/ Abandon(c) \/ Expire(c)
  PROVE  GatesSound' /\ Gates!Next
<1>1. /\ UNCHANGED <<pc, kind, target, charged, source, entryPaid, unlockTx, unlocked>>
      /\ status[c] \in {"admission_pending", "pending"}
      /\ \E st \in {"answered", "failed", "expired"} : status' = [status EXCEPT ![c] = st]
      /\ status \in [Requests -> {"none", "admission_pending", "pending", "answered",
                                  "expired", "failed"}]
  BY DEF HumanAnswers, Abandon, Expire, Become, request, IndInv, TypeOK
<1>2. GatesSound'
  <2>1. \A q \in Requests : status[q] = "answered" => status'[q] = "answered"
    BY <1>1
  <2>2. \A q \in Requests : pc[q] = "free" => target[q] \in Requests
    BY DEF IndInv, ChargesDue, RequestsSound, Chains
  <2>3. entryPaid \subseteq Requests
    BY DEF IndInv, TypeOK
  <2> QED BY <1>1, <2>1, <2>2, <2>3 DEF GatesSound
<1>3. CASE HumanAnswers(c)
  <2>1. Gates!Answer(c)
    BY <1>1, <1>3 DEF HumanAnswers, Become, Gates!Answer, Gates!charges, Gates!opened
  <2> QED BY <1>2, <2>1 DEF Gates!Next
<1>4. CASE Abandon(c)
  <2>1. status' = [d \in Requests |-> IF d \in {c} THEN "failed"
                                      ELSE IF d \in {} THEN "expired" ELSE status[d]]
    BY <1>1, <1>4 DEF Abandon, Become
  <2>2. Gates!Lapse({c}, {}) /\ {c} \in SUBSET Gates!Waiting /\ {} \in SUBSET Gates!Queued
    BY <1>1, <1>4, <2>1 DEF Abandon, Gates!Lapse, Gates!Waiting, Gates!charges, Gates!opened
  <2> QED BY <1>2, <2>2 DEF Gates!Next
<1>5. CASE Expire(c)
  <2>1. status' = [d \in Requests |-> IF d \in {} THEN "failed"
                                      ELSE IF d \in {c} THEN "expired" ELSE status[d]]
    BY <1>1, <1>5 DEF Expire, Become
  <2>2. Gates!Lapse({}, {c}) /\ {} \in SUBSET Gates!Waiting /\ {c} \in SUBSET Gates!Queued
    BY <1>1, <1>5, <2>1 DEF Expire, Gates!Lapse, Gates!Queued, Gates!charges, Gates!opened
  <2> QED BY <1>2, <2>2 DEF Gates!Next
<1> QED BY <1>3, <1>4, <1>5

\* The steps that leave the core's rows alone keep what the refinement needs.
LEMMA SoundFrame ==
  ASSUME GatesSound, UNCHANGED rows,
         \A r \in Requests : pc'[r] = "free" =>
            status[target'[r]] = "answered" /\ source[target'[r]] = "free"
  PROVE  GatesSound'
  BY DEF GatesSound, rows

LEMMA MoveKeepsGates ==
  ASSUME IndInv, GatesSound, NEW r \in Requests,
         \/ Arrive(r) \/ Refuse(r) \/ PreflightEntry(r) \/ PreflightUnlock(r) \/ GateEntry(r)
         \/ GateUnlock(r) \/ RefuseAdmission(r) \/ Close(r) \/ Settle(r)
  PROVE  GatesSound'
<1>1. UNCHANGED rows
  BY DEF Arrive, Refuse, PreflightEntry, PreflightUnlock, GateEntry, GateUnlock,
         RefuseAdmission, Close, Settle
<1>2. ASSUME NEW q \in Requests, pc'[q] = "free"
      PROVE  status[target'[q]] = "answered" /\ source[target'[q]] = "free"
  <2>1. CASE q # r
    <3>1. pc[q] = "free" /\ target'[q] = target[q]
      BY <1>2, <2>1
      DEF Arrive, Refuse, PreflightEntry, PreflightUnlock, GateEntry, GateUnlock,
          RefuseAdmission, Close, Settle, Goto, request, IndInv, TypeOK
    <3> QED BY <3>1 DEF GatesSound
  <2>2. CASE q = r /\ PreflightUnlock(r)
    BY <1>2, <2>2 DEF PreflightUnlock, Goto, Ready, IndInv, TypeOK
  <2>3. CASE q = r /\ Close(r)
    BY <1>2, <2>3 DEF Close, request
  <2>4. CASE q = r /\ ~PreflightUnlock(r) /\ ~Close(r)
    BY <1>2, <2>4
    DEF Arrive, Refuse, PreflightEntry, GateEntry, GateUnlock, RefuseAdmission, Settle, Goto,
        IndInv, TypeOK
  <2> QED BY <2>1, <2>2, <2>3, <2>4
<1> QED BY <1>1, <1>2, SoundFrame

LEMMA InitOpens == Init => GatesSound /\ Gates!Init
  BY DEF Init, GatesSound, Gates!Init

LEMMA StepOpens ==
  ASSUME IndInv, GatesSound, [Next]_vars
  PROVE  GatesSound' /\ [Gates!Next]_(Gates!gates)
<1>1. ASSUME NEW r \in Requests, RequestStep(r)
      PROVE  GatesSound' /\ [Gates!Next]_(Gates!gates)
  BY <1>1, MoveOpens, MoveKeepsGates, AdmitOpens, FreeOpens DEF RequestStep
<1>2. ASSUME NEW r \in Requests, Settle(r)
      PROVE  GatesSound' /\ [Gates!Next]_(Gates!gates)
  <2>1. PICK late \in SUBSET {q \in Requests : pc[q] = "settle"} : charged' = charged \cup late
    <3>1. {r} \in SUBSET {q \in Requests : pc[q] = "settle"}
      BY <1>2 DEF Settle
    <3>2. charged' = charged \cup {r} \/ charged' = charged \cup {}
      BY <1>2 DEF Settle
    <3> QED BY <3>1, <3>2
  <2>2. UNCHANGED <<kind, target, rows>>
    BY <1>2 DEF Settle
  <2> QED BY <1>2, <2>1, <2>2, ChargeOpens, MoveKeepsGates
<1>3. ASSUME NEW r \in Requests, Attempt(r)
      PROVE  GatesSound' /\ [Gates!Next]_(Gates!gates)
  <2>1. UNCHANGED <<request, charged>>
    BY <1>3 DEF Attempt
  <2>2. CASE UNCHANGED rows
    <3>1. UNCHANGED Gates!gates
      BY <2>1, <2>2 DEF request, rows, Gates!gates, Gates!rows, Gates!charges, Gates!opened
    <3>2. GatesSound'
      BY <2>1, <2>2, SoundFrame DEF request, GatesSound
    <3> QED BY <3>1, <3>2
  <2>3. CASE ~UNCHANGED rows
    <3>1. /\ r \in charged
          /\ \/ Applicable(r) /\ Apply(r)
             \/ UNCHANGED <<status, source, entryPaid, unlockTx, unlocked>>
      BY <1>3, <2>3 DEF Attempt, Record, IndInv, TypeOK
    <3> QED BY <2>1, <3>1, ApplyGates
  <2> QED BY <2>2, <2>3
<1>4. ASSUME NEW r \in Requests, CoreStep(r)
      PROVE  GatesSound' /\ [Gates!Next]_(Gates!gates)
  <2>1. CASE Reconcile(r)
    <3>1. r \in charged /\ UNCHANGED <<request, charged>> /\ Applicable(r) /\ Apply(r)
      BY <2>1 DEF Reconcile, IndInv, GatesRestOnCharges
    <3> QED BY <3>1, ApplyGates
  <2>2. CASE HumanAnswers(r) \/ Abandon(r) \/ Expire(r)
    BY <2>2, DecideOpens
  <2> QED BY <1>4, <2>1, <2>2 DEF CoreStep
<1>5. CASE Restart
  <2>1. PICK late \in SUBSET {q \in Requests : pc[q] = "settle"} : charged' = charged \cup late
    BY <1>5 DEF Restart
  <2>2. UNCHANGED <<kind, target, rows>>
    BY <1>5 DEF Restart
  <2>3. \A q \in Requests : pc'[q] # "free"
    BY <1>5 DEF Restart
  <2> QED BY <2>1, <2>2, <2>3, ChargeOpens, SoundFrame
<1>6. CASE Requote \/ UNCHANGED vars
  <2>1. UNCHANGED <<request, charged, rows>>
    BY <1>6 DEF Requote, vars
  <2>2. UNCHANGED Gates!gates
    BY <2>1 DEF request, rows, Gates!gates, Gates!rows, Gates!charges, Gates!opened
  <2>3. GatesSound'
    BY <2>1, SoundFrame DEF request, GatesSound
  <2> QED BY <2>2, <2>3
<1> QED BY <1>1, <1>2, <1>3, <1>4, <1>5, <1>6 DEF Next

(***************************************************************************)
(* What a client pays is what VerifyChain takes its payments to be: both   *)
(* implement PaidGates, so nothing verify-api loses, repeats or forgets    *)
(* opens a gate unpaid or charges for one that is not due.                 *)
(***************************************************************************)
THEOREM GatesOpened == Spec => OpensPaidGates
<1> QED BY InitOpens, StepOpens, InvCorrect, PTL DEF Spec, OpensPaidGates, Gates!Spec
=============================================================================

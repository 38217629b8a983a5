------------------------- MODULE VerifyChainProofs -------------------------
(***************************************************************************)
(* Theorems about VerifyChain, for any number of wallets, chains and       *)
(* payments, any windows and any free allowance.                           *)
(***************************************************************************)
EXTENDS VerifyChain, TLAPS

(***************************************************************************)
(* Type correctness.                                                       *)
(***************************************************************************)

LEMMA WindowAtType ==
    ASSUME NEW v \in Verifies
    PROVE  WindowAt(v) \in {"none", "sla", "grace"}
BY DEF WindowAt

LEMMA InitType == Init => TypeOK
BY DEF Init, TypeOK, RowTypes, GateTypes, CreditTypes, JournalTypes

\* What a step leaves alone keeps its type.
LEMMA SameTypes ==
    /\ RowTypes /\ UNCHANGED rowVars => RowTypes'
    /\ GateTypes /\ UNCHANGED gateVars => GateTypes'
    /\ CreditTypes /\ UNCHANGED creditVars => CreditTypes'
    /\ JournalTypes /\ UNCHANGED <<payVars, journalVars>> => JournalTypes'
<1>1. RowTypes /\ UNCHANGED rowVars => RowTypes'
  BY DEF RowTypes, rowVars
<1>2. GateTypes /\ UNCHANGED gateVars => GateTypes'
  BY DEF GateTypes, gateVars
<1>3. CreditTypes /\ UNCHANGED creditVars => CreditTypes'
  BY DEF CreditTypes, creditVars
<1>4. JournalTypes /\ UNCHANGED <<payVars, journalVars>> => JournalTypes'
  BY DEF JournalTypes, payVars, journalVars
<1> QED BY <1>1, <1>2, <1>3, <1>4

LEMMA InsertRowType ==
    ASSUME TypeOK, NEW v \in Verifies, NEW w \in Wallets,
           NEW source \in {"x402", "initial_free", "failure_credit"},
           NEW st \in Live, NEW q \in Terms \cup {Null},
           InsertRow(v, w, source, st, q),
           admittedAt' \in [Verifies -> Nat]
    PROVE  RowTypes' /\ GateTypes' /\ JournalTypes' /\ now' \in Nat
           /\ reporting' \subseteq Txs /\ batch' \subseteq Txs /\ crashes' \in Nat
<1>1. RowTypes'
  BY DEF InsertRow, TypeOK, RowTypes
<1>2. GateTypes' /\ JournalTypes'
  BY SameTypes DEF InsertRow, TypeOK
<1> QED BY <1>1, <1>2 DEF InsertRow, TypeOK, coreVars

LEMMA CreateType == TypeOK /\ Create => TypeOK'
<1> SUFFICES ASSUME TypeOK, NEW v \in Verifies, NEW w \in Wallets,
                    \/ \E q \in Terms : CreatePaid(v, w, q)
                    \/ CreateFree(v, w)
                    \/ \E q \in Terms : CreateOnCredit(v, w, q)
             PROVE  TypeOK'
  BY DEF Create
<1>1. ASSUME NEW q \in Terms, CreatePaid(v, w, q) PROVE TypeOK'
  <2>1. CreditTypes' /\ admittedAt' \in [Verifies -> Nat]
    BY <1>1, SameTypes DEF CreatePaid, TypeOK, RowTypes
  <2> QED BY <1>1, <2>1, InsertRowType DEF CreatePaid, TypeOK, Live
<1>2. CASE CreateFree(v, w)
  <2>1. CreditTypes' /\ admittedAt' \in [Verifies -> Nat]
    BY <1>2 DEF CreateFree, FreeUnused, TypeOK, RowTypes, CreditTypes
  <2> QED BY <1>2, <2>1, InsertRowType DEF CreateFree, TypeOK, Live
<1>3. ASSUME NEW q \in Terms, CreateOnCredit(v, w, q) PROVE TypeOK'
  <2>1. CreditTypes' /\ admittedAt' \in [Verifies -> Nat]
    BY <1>3 DEF CreateOnCredit, OpenCredits, TypeOK, RowTypes, CreditTypes
  <2> QED BY <1>3, <2>1, InsertRowType DEF CreateOnCredit, TypeOK, Live
<1> QED BY <1>1, <1>2, <1>3

LEMMA ApplyType ==
    ASSUME TypeOK, NEW t \in Txs, ApplySettlement(t), UNCHANGED attempts
    PROVE  RowTypes' /\ GateTypes' /\ CreditTypes' /\ JournalTypes' /\ now' \in Nat
<1>1. CreditTypes' /\ JournalTypes' /\ now' \in Nat
  BY DEF ApplySettlement, TypeOK, CreditTypes, creditVars, JournalTypes, payVars
<1>2. CASE payKind[t] = "entry" /\ ApplyEntry(t)
  BY <1>1, <1>2 DEF ApplySettlement, ApplyEntry, TypeOK, RowTypes, GateTypes, Live
<1>3. CASE payKind[t] = "unlock" /\ ApplyUnlock(t)
  BY <1>1, <1>3 DEF ApplySettlement, ApplyUnlock, TypeOK, RowTypes, GateTypes
<1> QED BY <1>2, <1>3 DEF ApplySettlement

LEMMA TxStepType ==
    ASSUME TypeOK, NEW t \in Txs, TxStep(t)
    PROVE  TypeOK'
<1>1. ASSUME NEW v \in Verifies, NEW kind \in {"entry", "unlock"}, Settle(t, v, kind)
      PROVE  TypeOK'
  <2>1. JournalTypes'
    BY <1>1 DEF Settle, TypeOK, JournalTypes, journalVars
  <2> QED BY <1>1, <2>1, SameTypes DEF Settle, TypeOK, coreVars
<1>2. CASE JournalReport(t)
  <2>1. JournalTypes'
    BY <1>2 DEF JournalReport, TypeOK, JournalTypes, payVars
  <2> QED BY <1>2, <2>1, SameTypes DEF JournalReport, TypeOK
<1>3. CASE ApplyReport(t)
  BY <1>3, ApplyType DEF ApplyReport, TypeOK
<1>4. CASE ReportFails(t)
  BY <1>4, SameTypes DEF ReportFails, TypeOK
<1>5. CASE Reconcile(t)
  BY <1>5, ApplyType DEF Reconcile, TypeOK
<1>6. CASE ReconcileFails(t)
  <2>1. JournalTypes'
    BY <1>6 DEF ReconcileFails, TypeOK, JournalTypes, payVars
  <2> QED BY <1>6, <2>1, SameTypes DEF ReconcileFails, TypeOK
<1> QED BY <1>1, <1>2, <1>3, <1>4, <1>5, <1>6 DEF TxStep

LEMMA ChainStepType ==
    ASSUME TypeOK, NEW v \in Verifies, ChainStep(v)
    PROVE  TypeOK'
<1>1. CASE Answer(v)
  <2>1. RowTypes'
    BY <1>1, WindowAtType DEF Answer, TypeOK, RowTypes, Final
  <2> QED BY <1>1, <2>1, SameTypes DEF Answer, TypeOK, coreVars
<1>2. CASE UnlockFree(v)
  <2>1. GateTypes'
    BY <1>2 DEF UnlockFree, TypeOK, GateTypes
  <2> QED BY <1>2, <2>1, SameTypes DEF UnlockFree, TypeOK, coreVars
<1> QED BY <1>1, <1>2 DEF ChainStep

LEMMA ExpireStaleType == TypeOK /\ ExpireStale => TypeOK'
<1> SUFFICES ASSUME TypeOK, ExpireStale PROVE TypeOK'
  OBVIOUS
<1>1. RowTypes'
  <2>1. \A v \in Verifies : StatusAfterPass(v) \in {"none"} \cup Live \cup Final
    BY DEF StatusAfterPass, TypeOK, RowTypes, Final
  <2> QED BY <2>1 DEF ExpireStale, TypeOK, RowTypes
<1>2. CreditTypes'
  BY DEF ExpireStale, TypeOK, CreditTypes, CreditEarners, Overdue
<1> QED BY <1>1, <1>2, SameTypes DEF ExpireStale, TypeOK, coreVars

LEMMA NextType == TypeOK /\ [Next]_vars => TypeOK'
<1> SUFFICES ASSUME TypeOK, [Next]_vars PROVE TypeOK'
  OBVIOUS
<1>1. CASE Create
  BY <1>1, CreateType
<1>2. ASSUME NEW v \in Verifies, ChainStep(v) PROVE TypeOK'
  BY <1>2, ChainStepType
<1>3. ASSUME NEW t \in Txs, TxStep(t) PROVE TypeOK'
  BY <1>3, TxStepType
<1>4. CASE SelectUnapplied
  BY <1>4, SameTypes DEF SelectUnapplied, TypeOK
<1>5. CASE CoreCrash
  BY <1>5, SameTypes DEF CoreCrash, TypeOK
<1>6. CASE ExpireStale
  BY <1>6, ExpireStaleType
<1>7. CASE Tick
  BY <1>7, SameTypes DEF Tick, TypeOK, coreVars
<1>8. CASE UNCHANGED vars
  BY <1>8, SameTypes DEF vars, TypeOK, coreVars
<1> QED BY <1>1, <1>2, <1>3, <1>4, <1>5, <1>6, <1>7, <1>8 DEF Next

(***************************************************************************)
(* Every reachable state has the types of the schema: the CHECK            *)
(* constraints of verifies, wallet_entitlements and settlement_journal     *)
(* never fire.                                                             *)
(***************************************************************************)
THEOREM TypeCorrect == Spec => []TypeOK
BY InitType, NextType, PTL DEF Spec

(***************************************************************************)
(* The inductive invariant.  One lemma per kind of step, one step of its   *)
(* proof per conjunct the action can disturb.                              *)
(***************************************************************************)

LEMMA InitInv == Init => IndInv
<1> SUFFICES ASSUME Init PROVE IndInv
  OBVIOUS
<1>1. TypeOK
  BY InitType
<1>2. RowsSound /\ GatesSound /\ JournalSound
  BY DEF Init, RowsSound, GatesSound, JournalSound
<1>3. CreditsSound /\ FreeNumbersSound
  BY DEF Init, CreditsSound, FreeNumbersSound, Admitted
<1>4. OneActivePerWallet /\ AnswersArePriced
  BY DEF Init, OneActivePerWallet, AnswersArePriced, Live
<1> QED BY <1>1, <1>2, <1>3, <1>4 DEF IndInv

\* Everything but the types depends on these variables only.
soundVars == <<status, agent, entrySource, terms, admittedAt, respondedAt, appliedWindow,
               gateVars, creditVars, payVars, journal>>

LEMMA FrameInv ==
    ASSUME IndInv, TypeOK', UNCHANGED soundVars,
           reporting' \cup batch' \subseteq {t \in Txs : journal[t] # "none"}
    PROVE  IndInv'
<1> USE DEF soundVars, gateVars, creditVars, payVars
<1>1. RowsSound'
  BY DEF IndInv, RowsSound
<1>2. GatesSound' /\ JournalSound'
  BY DEF IndInv, GatesSound, JournalSound, PaidEntry
<1>3. CreditsSound' /\ FreeNumbersSound'
  BY DEF IndInv, CreditsSound, FreeNumbersSound, Admitted
<1>4. OneActivePerWallet' /\ AnswersArePriced'
  BY DEF IndInv, OneActivePerWallet, AnswersArePriced, SlaDeadline, GraceDeadline, HasGrace
<1> QED BY <1>1, <1>2, <1>3, <1>4 DEF IndInv

\* What inserting a row preserves whatever its source is.
LEMMA InsertRowInv ==
    ASSUME IndInv, NEW v \in Verifies, NEW w \in Wallets,
           NEW source \in {"x402", "initial_free", "failure_credit"},
           NEW st \in Live, NEW q \in Terms \cup {Null},
           InsertRow(v, w, source, st, q),
           st = "admission_pending" <=> source = "x402",
           q = Null <=> source = "initial_free",
           admittedAt' \in [Verifies -> Nat],
           \A u \in Verifies \ {v} : admittedAt'[u] = admittedAt[u]
    PROVE  /\ RowsSound' /\ GatesSound' /\ JournalSound'
           /\ OneActivePerWallet' /\ AnswersArePriced'
<1> USE NullAssumption
<1>1. /\ status[v] = "none" /\ entrySource[v] = "none" /\ agent[v] = Null
      /\ paymentTx[v] = Null /\ unlockTx[v] = Null /\ ~resultUnlocked[v]
  BY DEF InsertRow, IndInv, RowsSound, GatesSound, TypeOK, GateTypes
<1>2. RowsSound'
  BY <1>1 DEF InsertRow, IndInv, TypeOK, RowTypes, RowsSound, gateVars, Live
<1>3. GatesSound'
  BY <1>1 DEF InsertRow, IndInv, TypeOK, RowTypes, GatesSound, PaidEntry, gateVars, payVars,
              journalVars, Live
<1>4. JournalSound'
  BY DEF InsertRow, IndInv, JournalSound, gateVars, payVars, journalVars, coreVars
<1>5. OneActivePerWallet'
  BY <1>1 DEF InsertRow, IndInv, TypeOK, RowTypes, OneActivePerWallet, ActiveChains
<1>6. AnswersArePriced'
  BY <1>1 DEF InsertRow, IndInv, TypeOK, RowTypes, AnswersArePriced, SlaDeadline,
              GraceDeadline, HasGrace, Live
<1> QED BY <1>2, <1>3, <1>4, <1>5, <1>6

LEMMA CreatePaidInv ==
    ASSUME IndInv, NEW v \in Verifies, NEW w \in Wallets, NEW q \in Terms, CreatePaid(v, w, q)
    PROVE  IndInv'
<1> USE NullAssumption
<1>1. TypeOK'
  BY CreateType DEF IndInv, Create
<1>2. admittedAt' = admittedAt /\ InsertRow(v, w, "x402", "admission_pending", q)
  BY DEF CreatePaid
<1>3. RowsSound' /\ GatesSound' /\ JournalSound' /\ OneActivePerWallet' /\ AnswersArePriced'
  BY <1>2, InsertRowInv DEF IndInv, TypeOK, RowTypes, Live
<1>4. status[v] = "none" /\ v \notin Admitted /\ v \notin granted
  BY DEF CreatePaid, InsertRow, IndInv, CreditsSound, Admitted
<1>5. CreditsSound'
  BY <1>4 DEF CreatePaid, InsertRow, IndInv, TypeOK, RowTypes, CreditsSound, creditVars, Admitted
<1>6. FreeNumbersSound'
  BY <1>4 DEF CreatePaid, InsertRow, IndInv, TypeOK, RowTypes, FreeNumbersSound, creditVars, Admitted
<1> QED BY <1>1, <1>3, <1>5, <1>6 DEF IndInv

LEMMA CreateFreeInv ==
    ASSUME IndInv, NEW v \in Verifies, NEW w \in Wallets, CreateFree(v, w)
    PROVE  IndInv'
<1> USE NullAssumption
<1>1. TypeOK'
  BY CreateType DEF IndInv, Create
<1>2. /\ admittedAt' = [admittedAt EXCEPT ![v] = now]
      /\ InsertRow(v, w, "initial_free", "pending", Null)
      /\ UNCHANGED <<granted, creditUsedBy>>
  BY DEF CreateFree
<1>3. RowsSound' /\ GatesSound' /\ JournalSound' /\ OneActivePerWallet' /\ AnswersArePriced'
  BY <1>2, InsertRowInv DEF IndInv, TypeOK, RowTypes, Live
<1>4. status[v] = "none" /\ v \notin Admitted /\ v \notin granted
  BY <1>2 DEF InsertRow, IndInv, CreditsSound, Admitted
<1>5. CreditsSound'
  BY <1>2, <1>4 DEF InsertRow, IndInv, TypeOK, RowTypes, CreditsSound, Admitted
<1>6. FreeNumbersSound'
  <2>1. PICK n \in FreeUnused(w) : freeUsedBy' = [freeUsedBy EXCEPT ![w][n] = v]
    BY DEF CreateFree
  <2>2. n \in FreeNumbers /\ freeUsedBy[w][n] = Null
    BY DEF FreeUnused
  <2>3. /\ freeUsedBy'[w][n] = v
        /\ \A x \in Wallets, m \in FreeNumbers :
               ~(x = w /\ m = n) => freeUsedBy'[x][m] = freeUsedBy[x][m]
    BY <2>1, <2>2 DEF IndInv, TypeOK, CreditTypes
  <2>4. /\ status'[v] = "pending" /\ entrySource'[v] = "initial_free" /\ agent'[v] = w
        /\ \A u \in Verifies \ {v} : /\ status'[u] = status[u]
                                     /\ entrySource'[u] = entrySource[u]
                                     /\ agent'[u] = agent[u]
    BY <1>2 DEF InsertRow, IndInv, TypeOK, RowTypes
  <2>5. \A x \in Wallets, m \in FreeNumbers : freeUsedBy[x][m] # v
    BY <1>4 DEF IndInv, FreeNumbersSound
  <2>6. ASSUME NEW x \in Wallets, NEW m \in FreeNumbers, freeUsedBy'[x][m] # Null
        PROVE  /\ freeUsedBy'[x][m] \in Admitted'
               /\ entrySource'[freeUsedBy'[x][m]] = "initial_free"
               /\ agent'[freeUsedBy'[x][m]] = x
    <3>1. CASE x = w /\ m = n
      BY <2>3, <2>4, <3>1 DEF Admitted
    <3>2. CASE ~(x = w /\ m = n)
      BY <2>3, <2>4, <2>5, <2>6, <3>2 DEF Admitted, IndInv, FreeNumbersSound
    <3> QED BY <3>1, <3>2
  <2>7. ASSUME NEW u \in Admitted', entrySource'[u] = "initial_free"
        PROVE  \E m \in FreeNumbers : freeUsedBy'[agent'[u]][m] = u
    <3>1. CASE u = v
      BY <2>2, <2>3, <2>4, <3>1
    <3>2. CASE u # v
      <4>1. u \in Admitted /\ entrySource[u] = "initial_free" /\ agent'[u] = agent[u]
        BY <2>4, <2>7, <3>2 DEF Admitted
      <4>2. PICK m \in FreeNumbers : freeUsedBy[agent[u]][m] = u
        BY <4>1 DEF IndInv, FreeNumbersSound
      <4>3. agent[u] \in Wallets /\ u # Null
        BY <4>1 DEF Admitted, IndInv, RowsSound
      <4>4. freeUsedBy'[agent[u]][m] = u
        BY <2>2, <2>3, <4>2, <4>3
      <4> QED BY <4>1, <4>4
    <3> QED BY <3>1, <3>2
  <2> QED BY <2>6, <2>7 DEF FreeNumbersSound
<1> QED BY <1>1, <1>3, <1>5, <1>6 DEF IndInv

LEMMA CreateOnCreditInv ==
    ASSUME IndInv, NEW v \in Verifies, NEW w \in Wallets, NEW q \in Terms,
           CreateOnCredit(v, w, q)
    PROVE  IndInv'
<1> USE NullAssumption
<1>1. TypeOK'
  BY CreateType DEF IndInv, Create
<1>2. /\ admittedAt' = [admittedAt EXCEPT ![v] = now]
      /\ InsertRow(v, w, "failure_credit", "pending", q)
      /\ UNCHANGED <<granted, freeUsedBy>>
  BY DEF CreateOnCredit
<1>3. RowsSound' /\ GatesSound' /\ JournalSound' /\ OneActivePerWallet' /\ AnswersArePriced'
  BY <1>2, InsertRowInv DEF IndInv, TypeOK, RowTypes, Live
<1>4. status[v] = "none" /\ v \notin Admitted /\ v \notin granted
  BY <1>2 DEF InsertRow, IndInv, CreditsSound, Admitted
<1>5. /\ status'[v] = "pending" /\ entrySource'[v] = "failure_credit" /\ agent'[v] = w
      /\ \A u \in Verifies \ {v} : /\ status'[u] = status[u]
                                   /\ entrySource'[u] = entrySource[u]
                                   /\ agent'[u] = agent[u]
  BY <1>2 DEF InsertRow, IndInv, TypeOK, RowTypes
<1>6. CreditsSound'
  <2>1. PICK c \in OpenCredits(w) : creditUsedBy' = [creditUsedBy EXCEPT ![c] = v]
    BY DEF CreateOnCredit
  <2>2. c \in granted /\ c \in Verifies /\ agent[c] = w /\ creditUsedBy[c] = Null /\ c # v
    BY <1>4 DEF OpenCredits, IndInv, TypeOK, CreditTypes
  <2>3. creditUsedBy'[c] = v /\ \A d \in Verifies \ {c} : creditUsedBy'[d] = creditUsedBy[d]
    BY <2>1, <2>2 DEF IndInv, TypeOK, CreditTypes
  <2>4. \A d \in Verifies : creditUsedBy[d] # v
    BY <1>4 DEF IndInv, CreditsSound
  <2>5. \A d \in Verifies : d \in granted' <=> status'[d] = "expired" /\ entrySource'[d] = "x402"
    BY <1>2, <1>4, <1>5 DEF IndInv, CreditsSound
  <2>6. \A d \in Verifies : creditUsedBy'[d] # Null =>
          /\ d \in granted'
          /\ creditUsedBy'[d] \in Admitted'
          /\ entrySource'[creditUsedBy'[d]] = "failure_credit"
          /\ agent'[creditUsedBy'[d]] = agent'[d]
    <3> SUFFICES ASSUME NEW d \in Verifies, creditUsedBy'[d] # Null
                 PROVE  /\ d \in granted'
                        /\ creditUsedBy'[d] \in Admitted'
                        /\ entrySource'[creditUsedBy'[d]] = "failure_credit"
                        /\ agent'[creditUsedBy'[d]] = agent'[d]
      OBVIOUS
    <3>1. CASE d = c
      BY <1>2, <1>5, <2>2, <2>3, <3>1 DEF Admitted
    <3>2. CASE d # c
      BY <1>2, <1>4, <1>5, <2>3, <2>4, <3>2 DEF Admitted, IndInv, CreditsSound
    <3> QED BY <3>1, <3>2
  <2>7. \A d, e \in Verifies :
          creditUsedBy'[d] # Null /\ creditUsedBy'[d] = creditUsedBy'[e] => d = e
    BY <2>3, <2>4 DEF IndInv, CreditsSound
  <2>8. \A u \in Admitted' : entrySource'[u] = "failure_credit" =>
          \E d \in Verifies : creditUsedBy'[d] = u
    <3> SUFFICES ASSUME NEW u \in Admitted', entrySource'[u] = "failure_credit"
                 PROVE  \E d \in Verifies : creditUsedBy'[d] = u
      OBVIOUS
    <3>1. CASE u = v
      BY <2>2, <2>3, <3>1
    <3>2. CASE u # v
      <4>1. u \in Admitted /\ entrySource[u] = "failure_credit"
        BY <1>5, <3>2 DEF Admitted
      <4>2. PICK d \in Verifies : creditUsedBy[d] = u
        BY <4>1 DEF IndInv, CreditsSound
      <4>3. d # c /\ u # Null
        BY <2>2, <4>1, <4>2 DEF Admitted
      <4> QED BY <2>3, <4>2, <4>3
    <3> QED BY <3>1, <3>2
  <2> QED BY <2>5, <2>6, <2>7, <2>8 DEF CreditsSound
<1>7. FreeNumbersSound'
  BY <1>2, <1>4, <1>5 DEF IndInv, FreeNumbersSound, Admitted
<1> QED BY <1>1, <1>3, <1>6, <1>7 DEF IndInv

LEMMA SettleInv ==
    ASSUME IndInv, NEW t \in Txs, NEW v \in Verifies, NEW kind \in {"entry", "unlock"},
           Settle(t, v, kind)
    PROVE  IndInv'
<1> USE NullAssumption
<1>1. TypeOK'
  BY TxStepType DEF IndInv, TxStep
<1>2. journal[t] = "none" /\ t \notin reporting /\ t \notin batch
  BY DEF Settle, IndInv, JournalSound
<1>3. \A u \in Txs \ {t} : payFor'[u] = payFor[u] /\ payKind'[u] = payKind[u]
  BY DEF Settle, IndInv, TypeOK, JournalTypes
<1>4. RowsSound'
  BY DEF Settle, IndInv, RowsSound, rowVars, gateVars
<1>5. GatesSound'
  BY <1>2, <1>3 DEF Settle, IndInv, TypeOK, GateTypes, GatesSound, PaidEntry, rowVars, gateVars, journalVars
<1>6. JournalSound'
  BY <1>2, <1>3 DEF Settle, IndInv, TypeOK, JournalTypes, JournalSound, gateVars, journalVars, coreVars
<1>7. CreditsSound' /\ FreeNumbersSound'
  BY DEF Settle, IndInv, CreditsSound, FreeNumbersSound, Admitted, rowVars, creditVars
<1>8. OneActivePerWallet' /\ AnswersArePriced'
  BY DEF Settle, IndInv, OneActivePerWallet, AnswersArePriced, SlaDeadline, GraceDeadline,
         HasGrace, rowVars
<1> QED BY <1>1, <1>4, <1>5, <1>6, <1>7, <1>8 DEF IndInv

LEMMA JournalReportInv ==
    ASSUME IndInv, NEW t \in Txs, JournalReport(t)
    PROVE  IndInv'
<1> USE NullAssumption
<1>1. TypeOK'
  BY TxStepType DEF IndInv, TxStep
<1>2. /\ journal'[t] # "none"
      /\ \A u \in Txs : journal[u] # "none" => journal'[u] = journal[u]
      /\ \A u \in Txs : journal'[u] = "applied" => journal[u] = "applied"
      /\ \A u \in Txs \ {t} : journal'[u] = journal[u]
  BY DEF JournalReport, IndInv, TypeOK, JournalTypes
<1>3. RowsSound'
  BY DEF JournalReport, IndInv, RowsSound, rowVars, gateVars
<1>4. GatesSound'
  BY <1>2 DEF JournalReport, IndInv, TypeOK, GateTypes, GatesSound, PaidEntry, rowVars, gateVars, payVars
<1>5. JournalSound'
  BY <1>2 DEF JournalReport, IndInv, TypeOK, JournalSound, gateVars, payVars
<1>6. CreditsSound' /\ FreeNumbersSound'
  BY DEF JournalReport, IndInv, CreditsSound, FreeNumbersSound, Admitted, rowVars, creditVars
<1>7. OneActivePerWallet' /\ AnswersArePriced'
  BY DEF JournalReport, IndInv, OneActivePerWallet, AnswersArePriced, SlaDeadline,
         GraceDeadline, HasGrace, rowVars
<1> QED BY <1>1, <1>3, <1>4, <1>5, <1>6, <1>7 DEF IndInv

\* _apply_settlement moves one gate, and only forward.
LEMMA ApplySettlementInv ==
    ASSUME IndInv, TypeOK', NEW t \in Txs, ApplySettlement(t), journal[t] # "none",
           UNCHANGED attempts, reporting' \subseteq reporting, batch' \subseteq batch
    PROVE  IndInv'
<1> USE NullAssumption
<1>0. payFor[t] \in Verifies
  BY DEF IndInv, TypeOK, JournalTypes, JournalSound
<1> DEFINE v == payFor[t]
<1>1. /\ journal'[t] = "applied"
      /\ \A u \in Txs \ {t} : journal'[u] = journal[u]
      /\ UNCHANGED <<agent, entrySource, terms, respondedAt, appliedWindow, creditVars, payVars>>
  BY DEF ApplySettlement, IndInv, TypeOK, JournalTypes
<1>2. CASE payKind[t] = "entry" /\ ApplyEntry(t)
  <2>1. CASE paymentTx[v] = t
    <3>1. UNCHANGED <<status, admittedAt, gateVars>> /\ journal[t] = "applied"
      BY <1>0, <1>2, <2>1 DEF ApplyEntry, gateVars, IndInv, GatesSound, PaidEntry
    <3>2. journal' = journal
      BY <1>1, <3>1 DEF IndInv, TypeOK, JournalTypes, ApplySettlement
    <3> QED BY <1>1, <3>1, <3>2, FrameInv DEF soundVars, IndInv, JournalSound, TypeOK
  <2>2. CASE paymentTx[v] # t
    <3>1. /\ paymentTx[v] = Null /\ status[v] = "admission_pending" /\ entrySource[v] = "x402"
          /\ status' = [status EXCEPT ![v] = "pending"]
          /\ admittedAt' = [admittedAt EXCEPT ![v] = now]
          /\ paymentTx' = [paymentTx EXCEPT ![v] = t]
          /\ UNCHANGED <<resultUnlocked, unlockTx>>
      BY <1>2, <2>2 DEF ApplyEntry, EntryApplicable
    <3>2. RowsSound'
      BY <1>0, <1>1, <3>1 DEF IndInv, TypeOK, RowTypes, GateTypes, RowsSound
    <3>3. GatesSound'
      BY <1>0, <1>1, <1>2, <3>1 DEF IndInv, TypeOK, RowTypes, GateTypes, GatesSound, PaidEntry, payVars
    <3>4. JournalSound'
      <4>1. \A u \in Txs \ {t} :
              journal[u] = "applied" /\ payKind[u] = "entry" => payFor[u] # v
        BY <1>0, <3>1 DEF IndInv, JournalSound
      <4> QED BY <1>0, <1>1, <1>2, <3>1, <4>1 DEF IndInv, TypeOK, GateTypes, JournalSound, payVars
    <3>5. CreditsSound' /\ FreeNumbersSound'
      <4>1. v \notin Admitted /\ v \notin granted
        BY <1>0, <3>1 DEF Admitted, IndInv, CreditsSound
      <4>2. /\ Admitted' = Admitted \cup {v}
            /\ \A c \in Verifies : status'[c] = "expired" <=> status[c] = "expired"
        BY <1>0, <3>1 DEF Admitted, IndInv, TypeOK, RowTypes
      <4>3. CreditsSound'
        BY <1>1, <3>1, <4>1, <4>2 DEF IndInv, CreditsSound, creditVars
      <4>4. FreeNumbersSound'
        BY <1>1, <3>1, <4>1, <4>2 DEF IndInv, FreeNumbersSound, creditVars
      <4> QED BY <4>3, <4>4
    <3>6. OneActivePerWallet'
      BY <1>0, <1>1, <3>1 DEF IndInv, TypeOK, RowTypes, OneActivePerWallet, Live
    <3>7. AnswersArePriced'
      BY <1>0, <1>1, <3>1 DEF IndInv, TypeOK, RowTypes, AnswersArePriced, SlaDeadline,
              GraceDeadline, HasGrace
    <3> QED BY <3>2, <3>3, <3>4, <3>5, <3>6, <3>7 DEF IndInv
  <2> QED BY <2>1, <2>2
<1>3. CASE payKind[t] = "unlock" /\ ApplyUnlock(t)
  <2>1. /\ UNCHANGED <<status, admittedAt, paymentTx>>
        /\ resultUnlocked' = [resultUnlocked EXCEPT ![v] = TRUE]
        /\ unlockTx' = [unlockTx EXCEPT ![v] = t]
        /\ status[v] = "answered" /\ entrySource[v] # "initial_free"
        /\ unlockTx[v] \in {t, Null}
    BY <1>0, <1>3 DEF ApplyUnlock, UnlockApplicable, IndInv, GatesSound
  <2>2. RowsSound'
    BY <1>1, <2>1 DEF IndInv, RowsSound
  <2>3. GatesSound'
    BY <1>0, <1>1, <1>3, <2>1 DEF IndInv, TypeOK, GateTypes, GatesSound, PaidEntry, payVars
  <2>4. JournalSound'
    <3>1. \A u \in Txs \ {t} :
            journal[u] = "applied" /\ payKind[u] = "unlock" => payFor[u] # v
      BY <1>0, <2>1 DEF IndInv, JournalSound
    <3> QED BY <1>0, <1>1, <1>3, <2>1, <3>1 DEF IndInv, TypeOK, GateTypes, JournalSound, payVars
  <2>5. CreditsSound' /\ FreeNumbersSound'
    BY <1>1, <2>1 DEF IndInv, CreditsSound, FreeNumbersSound, Admitted, creditVars
  <2>6. OneActivePerWallet' /\ AnswersArePriced'
    BY <1>1, <2>1 DEF IndInv, OneActivePerWallet, AnswersArePriced, SlaDeadline,
            GraceDeadline, HasGrace
  <2> QED BY <2>2, <2>3, <2>4, <2>5, <2>6 DEF IndInv
<1> QED BY <1>2, <1>3 DEF ApplySettlement

LEMMA TxStepInv ==
    ASSUME IndInv, NEW t \in Txs, TxStep(t)
    PROVE  IndInv'
<1>1. TypeOK'
  BY TxStepType DEF IndInv
<1>2. ASSUME NEW v \in Verifies, NEW kind \in {"entry", "unlock"}, Settle(t, v, kind)
      PROVE  IndInv'
  BY <1>2, SettleInv
<1>3. CASE JournalReport(t)
  BY <1>3, JournalReportInv
<1>4. CASE ApplyReport(t)
  BY <1>1, <1>4, ApplySettlementInv DEF ApplyReport, IndInv, JournalSound
<1>5. CASE ReportFails(t)
  BY <1>1, <1>5, FrameInv DEF ReportFails, soundVars, rowVars, journalVars, IndInv, JournalSound, TypeOK
<1>6. CASE Reconcile(t)
  BY <1>1, <1>6, ApplySettlementInv DEF Reconcile, IndInv, JournalSound
<1>7. CASE ReconcileFails(t)
  BY <1>1, <1>7, FrameInv DEF ReconcileFails, soundVars, rowVars, IndInv, JournalSound, TypeOK
<1> QED BY <1>2, <1>3, <1>4, <1>5, <1>6, <1>7 DEF TxStep

\* The windows cover every instant at which an answer is accepted.
LEMMA WindowsCover ==
    ASSUME NEW v \in Verifies, Answerable(v), terms[v] # Null
    PROVE  IF now <= SlaDeadline(v) THEN WindowAt(v) = "sla"
           ELSE /\ WindowAt(v) = "grace"
                /\ HasGrace(v)
                /\ now <= GraceDeadline(v)
BY DEF Answerable, ExpiresAt, WindowAt

LEMMA AnswerInv ==
    ASSUME IndInv, NEW v \in Verifies, Answer(v)
    PROVE  IndInv'
<1>1. TypeOK'
  BY ChainStepType DEF IndInv, ChainStep
<1>2. /\ status[v] = "pending" /\ status'[v] = "answered"
      /\ respondedAt'[v] = now /\ appliedWindow'[v] = WindowAt(v)
      /\ \A u \in Verifies \ {v} : /\ status'[u] = status[u]
                                   /\ respondedAt'[u] = respondedAt[u]
                                   /\ appliedWindow'[u] = appliedWindow[u]
      /\ UNCHANGED <<agent, entrySource, terms, admittedAt, gateVars, creditVars, payVars,
                     journal, reporting, batch>>
  BY DEF Answer, Answerable, IndInv, TypeOK, RowTypes, journalVars, coreVars
<1>3. RowsSound'
  BY <1>2 DEF IndInv, RowsSound, gateVars
<1>4. GatesSound' /\ JournalSound'
  BY <1>2 DEF IndInv, GatesSound, JournalSound, PaidEntry, gateVars, payVars
<1>5. Admitted' = Admitted
  BY <1>2 DEF Admitted
<1>6. CreditsSound' /\ FreeNumbersSound'
  BY <1>2, <1>5 DEF IndInv, CreditsSound, FreeNumbersSound, creditVars
<1>7. OneActivePerWallet'
  BY <1>2 DEF IndInv, OneActivePerWallet, Live
<1>8. AnswersArePriced'
  <2>1. Answerable(v)
    BY DEF Answer
  <2>2. \A u \in Verifies : /\ SlaDeadline(u)' = SlaDeadline(u)
                            /\ GraceDeadline(u)' = GraceDeadline(u)
                            /\ HasGrace(u)' = HasGrace(u)
    BY <1>2 DEF SlaDeadline, GraceDeadline, HasGrace
  <2> QED BY <1>2, <2>1, <2>2, WindowsCover DEF IndInv, AnswersArePriced
<1> QED BY <1>1, <1>3, <1>4, <1>6, <1>7, <1>8 DEF IndInv

LEMMA UnlockFreeInv ==
    ASSUME IndInv, NEW v \in Verifies, UnlockFree(v)
    PROVE  IndInv'
<1>1. TypeOK'
  BY ChainStepType DEF IndInv, ChainStep
<1>2. UNCHANGED <<rowVars, paymentTx, unlockTx, creditVars, payVars, journalVars, coreVars>>
  BY DEF UnlockFree
<1>3. RowsSound' /\ JournalSound'
  BY <1>2 DEF IndInv, RowsSound, JournalSound, rowVars, payVars, journalVars, coreVars
<1>4. GatesSound'
  BY <1>2 DEF UnlockFree, IndInv, TypeOK, GateTypes, GatesSound, PaidEntry, rowVars, payVars,
              journalVars
<1>5. CreditsSound' /\ FreeNumbersSound'
  BY <1>2 DEF IndInv, CreditsSound, FreeNumbersSound, Admitted, rowVars, creditVars
<1>6. OneActivePerWallet' /\ AnswersArePriced'
  BY <1>2 DEF IndInv, OneActivePerWallet, AnswersArePriced, SlaDeadline, GraceDeadline,
              HasGrace, rowVars
<1> QED BY <1>1, <1>3, <1>4, <1>5, <1>6 DEF IndInv

LEMMA ExpireStaleInv ==
    ASSUME IndInv, ExpireStale
    PROVE  IndInv'
<1> USE NullAssumption
<1>1. TypeOK'
  BY ExpireStaleType DEF IndInv
<1>2. /\ UNCHANGED <<agent, entrySource, terms, admittedAt, appliedWindow, gateVars, payVars,
                     journal, reporting, batch>>
      /\ \A v \in Verifies : status'[v] = StatusAfterPass(v)
      /\ \A v \in Verifies : v \notin Abandoned \cup Overdue => respondedAt'[v] = respondedAt[v]
  BY DEF ExpireStale, journalVars, coreVars
<1>3. \A v \in Verifies :
        \/ status[v] = "admission_pending" /\ status'[v] = "failed" /\ v \notin Overdue
        \/ status[v] = "pending" /\ status'[v] = "expired" /\ v \in Overdue
        \/ status'[v] = status[v] /\ v \notin Abandoned \cup Overdue
  BY <1>2 DEF StatusAfterPass, Abandoned, Overdue
<1>4. RowsSound'
  BY <1>2, <1>3 DEF IndInv, RowsSound, gateVars
<1>5. GatesSound' /\ JournalSound'
  BY <1>2, <1>3 DEF IndInv, GatesSound, JournalSound, PaidEntry, gateVars, payVars
<1>6. /\ Admitted' = Admitted \ Overdue
      /\ Overdue \subseteq Admitted
  BY <1>3 DEF Admitted, Overdue
<1>7. CreditsSound'
  <2>1. \A c \in Verifies : c \in granted' <=> status'[c] = "expired" /\ entrySource'[c] = "x402"
    <3>1. granted' = granted \cup {c \in Overdue : entrySource[c] = "x402"}
      BY DEF ExpireStale, CreditEarners
    <3>2. \A c \in Verifies : status'[c] = "expired" <=> status[c] = "expired" \/ c \in Overdue
      BY <1>3 DEF Overdue
    <3> QED BY <1>2, <3>1, <3>2 DEF IndInv, CreditsSound
  <2>2. \A c \in Verifies : creditUsedBy'[c] # Null =>
          creditUsedBy'[c] = creditUsedBy[c] /\ creditUsedBy[c] \notin Released
    BY DEF ExpireStale
  <2>3. \A c \in Verifies : creditUsedBy'[c] # Null =>
          /\ c \in granted'
          /\ creditUsedBy'[c] \in Admitted'
          /\ entrySource'[creditUsedBy'[c]] = "failure_credit"
          /\ agent'[creditUsedBy'[c]] = agent'[c]
    <3> SUFFICES ASSUME NEW c \in Verifies, creditUsedBy'[c] # Null
                 PROVE  /\ c \in granted'
                        /\ creditUsedBy'[c] \in Admitted'
                        /\ entrySource'[creditUsedBy'[c]] = "failure_credit"
                        /\ agent'[creditUsedBy'[c]] = agent'[c]
      OBVIOUS
    <3>1. /\ c \in granted /\ creditUsedBy[c] \in Admitted
          /\ entrySource[creditUsedBy[c]] = "failure_credit"
          /\ agent[creditUsedBy[c]] = agent[c]
      BY <2>2 DEF IndInv, CreditsSound
    <3>2. creditUsedBy[c] \notin Overdue
      BY <2>2, <3>1 DEF Released, CreditEarners
    <3>3. c \in granted'
      BY <3>1 DEF ExpireStale
    <3> QED BY <1>2, <1>6, <2>2, <3>1, <3>2, <3>3
  <2>4. \A c, d \in Verifies :
          creditUsedBy'[c] # Null /\ creditUsedBy'[c] = creditUsedBy'[d] => c = d
    BY <2>2 DEF IndInv, CreditsSound
  <2>5. \A v \in Admitted' : entrySource'[v] = "failure_credit" =>
          \E c \in Verifies : creditUsedBy'[c] = v
    <3> SUFFICES ASSUME NEW v \in Admitted', entrySource'[v] = "failure_credit"
                 PROVE  \E c \in Verifies : creditUsedBy'[c] = v
      OBVIOUS
    <3>1. v \in Admitted /\ v \notin Released /\ entrySource[v] = "failure_credit"
      BY <1>2, <1>6 DEF Released
    <3>2. PICK c \in Verifies : creditUsedBy[c] = v
      BY <3>1 DEF IndInv, CreditsSound
    <3>3. creditUsedBy'[c] = v
      BY <3>1, <3>2 DEF ExpireStale
    <3> QED BY <3>3
  <2> QED BY <2>1, <2>3, <2>4, <2>5 DEF CreditsSound
<1>8. FreeNumbersSound'
  <2>1. \A w \in Wallets, n \in FreeNumbers : freeUsedBy'[w][n] =
          IF freeUsedBy[w][n] \in Released THEN Null ELSE freeUsedBy[w][n]
    BY DEF ExpireStale
  <2>2. ASSUME NEW w \in Wallets, NEW n \in FreeNumbers, freeUsedBy'[w][n] # Null
        PROVE  /\ freeUsedBy'[w][n] \in Admitted'
               /\ entrySource'[freeUsedBy'[w][n]] = "initial_free"
               /\ agent'[freeUsedBy'[w][n]] = w
    <3>1. freeUsedBy'[w][n] = freeUsedBy[w][n] /\ freeUsedBy[w][n] \notin Released
      BY <2>1, <2>2
    <3>2. /\ freeUsedBy[w][n] \in Admitted
          /\ entrySource[freeUsedBy[w][n]] = "initial_free"
          /\ agent[freeUsedBy[w][n]] = w
      BY <2>2, <3>1 DEF IndInv, FreeNumbersSound
    <3>3. freeUsedBy[w][n] \notin Overdue
      BY <3>1, <3>2 DEF Released, CreditEarners
    <3> QED BY <1>2, <1>6, <3>1, <3>2, <3>3
  <2>3. ASSUME NEW v \in Admitted', entrySource'[v] = "initial_free"
        PROVE  \E n \in FreeNumbers : freeUsedBy'[agent'[v]][n] = v
    <3>1. v \in Admitted /\ v \notin Released /\ entrySource[v] = "initial_free"
      BY <1>2, <1>6, <2>3 DEF Released
    <3>2. PICK n \in FreeNumbers : freeUsedBy[agent[v]][n] = v
      BY <3>1 DEF IndInv, FreeNumbersSound
    <3>3. agent[v] \in Wallets
      BY <3>1 DEF Admitted, IndInv, RowsSound
    <3>4. freeUsedBy'[agent[v]][n] = v
      BY <2>1, <3>1, <3>2, <3>3
    <3> QED BY <1>2, <3>4
  <2> QED BY <2>2, <2>3 DEF FreeNumbersSound
<1>9. OneActivePerWallet'
  BY <1>2, <1>3 DEF IndInv, OneActivePerWallet, Live
<1>10. AnswersArePriced'
  BY <1>2, <1>3 DEF IndInv, AnswersArePriced, SlaDeadline, GraceDeadline, HasGrace
<1> QED BY <1>1, <1>4, <1>5, <1>7, <1>8, <1>9, <1>10 DEF IndInv

LEMMA NextInv == IndInv /\ [Next]_vars => IndInv'
<1> SUFFICES ASSUME IndInv, [Next]_vars PROVE IndInv'
  OBVIOUS
<1>0. TypeOK'
  BY NextType DEF IndInv
<1>1. CASE Create
  BY <1>1, CreatePaidInv, CreateFreeInv, CreateOnCreditInv DEF Create
<1>2. ASSUME NEW v \in Verifies, ChainStep(v) PROVE IndInv'
  BY <1>2, AnswerInv, UnlockFreeInv DEF ChainStep
<1>3. ASSUME NEW t \in Txs, TxStep(t) PROVE IndInv'
  BY <1>3, TxStepInv
<1>4. CASE SelectUnapplied
  <2>1. reporting' \cup batch' \subseteq {t \in Txs : journal[t] # "none"}
    BY <1>4 DEF SelectUnapplied, IndInv, TypeOK, JournalSound
  <2> QED BY <1>0, <1>4, <2>1, FrameInv DEF SelectUnapplied, soundVars, rowVars, journalVars
<1>5. CASE CoreCrash
  BY <1>0, <1>5, FrameInv DEF CoreCrash, soundVars, rowVars, journalVars
<1>6. CASE ExpireStale
  BY <1>6, ExpireStaleInv
<1>7. CASE UNCHANGED <<rowVars, gateVars, creditVars, payVars, journalVars, coreVars>>
  <2>1. reporting' \cup batch' \subseteq {t \in Txs : journal[t] # "none"}
    BY <1>7 DEF IndInv, TypeOK, JournalSound, coreVars
  <2> QED BY <1>0, <1>7, <2>1, FrameInv DEF soundVars, rowVars, journalVars
<1> QED BY <1>1, <1>2, <1>3, <1>4, <1>5, <1>6, <1>7 DEF Next, Tick, vars

\* The conjunction the safety theorems below are read off from: rows, gates,
\* journal, credits and free numbers always agree with each other.
THEOREM InvCorrect == Spec => []IndInv
BY InitInv, NextInv, PTL DEF Spec

(***************************************************************************)
(* A wallet never has two chains waiting for settlement or for a human     *)
(* (the advisory lock and the re-check of create_verify).                  *)
(***************************************************************************)
THEOREM OneActive == Spec => []OneActivePerWallet
<1>1. IndInv => OneActivePerWallet
  BY DEF IndInv
<1> QED BY <1>1, InvCorrect, PTL

\* A paid chain that reached the queue has its payment.
LEMMA PaidWhenQueued ==
    ASSUME IndInv, NEW v \in Verifies, entrySource[v] = "x402",
           status[v] \in {"pending", "answered", "expired"}
    PROVE  /\ PaidEntry(v) /\ paymentTx[v] \in Txs
           /\ v \in granted <=> status[v] = "expired"
BY DEF IndInv, TypeOK, GateTypes, RowsSound, GatesSound, CreditsSound

(***************************************************************************)
(* No human is asked or has answered without a payment, an unanswered paid *)
(* chain or a free number behind it, each of which backs one chain only    *)
(* (create_verify, _apply_settlement and _expire_stale_once together).     *)
(***************************************************************************)
THEOREM AdmissionsPaid == Spec => []AdmissionsArePaid
<1>1. IndInv => AdmissionsArePaid
  <2> SUFFICES ASSUME IndInv, NEW v \in Admitted
               PROVE  \/ entrySource[v] = "x402" /\ PaidEntry(v) /\ v \notin granted
                      \/ /\ entrySource[v] = "failure_credit"
                         /\ \E c \in granted :
                              /\ creditUsedBy[c] = v
                              /\ agent[c] = agent[v]
                              /\ status[c] = "expired" /\ entrySource[c] = "x402" /\ PaidEntry(c)
                              /\ \A d \in granted : creditUsedBy[d] = v => d = c
                      \/ /\ entrySource[v] = "initial_free"
                         /\ \E n \in FreeNumbers : freeUsedBy[agent[v]][n] = v
    BY DEF AdmissionsArePaid
  <2>1. v \in Verifies /\ status[v] \in {"pending", "answered"} /\ v # Null
    BY NullAssumption DEF Admitted
  <2>2. entrySource[v] \in {"x402", "initial_free", "failure_credit"}
    BY <2>1 DEF IndInv, TypeOK, RowTypes, RowsSound
  <2>3. CASE entrySource[v] = "x402"
    BY <2>1, <2>3, PaidWhenQueued
  <2>4. CASE entrySource[v] = "failure_credit"
    <3>1. PICK c \in Verifies : creditUsedBy[c] = v
      BY <2>4 DEF IndInv, CreditsSound
    <3>2. c \in granted /\ agent[c] = agent[v] /\ status[c] = "expired" /\ entrySource[c] = "x402"
      BY <2>1, <3>1 DEF IndInv, CreditsSound
    <3>3. PaidEntry(c)
      BY <3>2, PaidWhenQueued
    <3>4. \A d \in granted : creditUsedBy[d] = v => d = c
      BY <2>1, <3>1 DEF IndInv, TypeOK, CreditTypes, CreditsSound
    <3> QED BY <2>4, <3>1, <3>2, <3>3, <3>4
  <2>5. CASE entrySource[v] = "initial_free"
    BY <2>5 DEF IndInv, FreeNumbersSound
  <2> QED BY <2>2, <2>3, <2>4, <2>5
<1> QED BY <1>1, InvCorrect, PTL

(***************************************************************************)
(* Replays: a journal row is applied exactly when its transaction stands   *)
(* on the gate it paid for, after any interleaving of record_payment, the  *)
(* reconciliation pass and restarts.                                       *)
(***************************************************************************)
THEOREM JournalMatches == Spec => []JournalMatchesGates
<1>1. IndInv => JournalMatchesGates
  <2> USE NullAssumption DEF IndInv
  <2> SUFFICES ASSUME IndInv, NEW t \in Txs
               PROVE  /\ journal[t] = "applied" <=>
                           \/ \E v \in Verifies : paymentTx[v] = t
                           \/ \E v \in Verifies : unlockTx[v] = t
                      /\ (\E v \in Verifies : paymentTx[v] = t) =>
                           paymentTx[payFor[t]] = t /\ payKind[t] = "entry"
                      /\ (\E v \in Verifies : unlockTx[v] = t) =>
                           unlockTx[payFor[t]] = t /\ payKind[t] = "unlock"
    BY DEF JournalMatchesGates
  <2>1. ASSUME NEW v \in Verifies, paymentTx[v] = t
        PROVE  journal[t] = "applied" /\ payFor[t] = v /\ payKind[t] = "entry"
    BY <2>1 DEF GatesSound, PaidEntry
  <2>2. ASSUME NEW v \in Verifies, unlockTx[v] = t
        PROVE  journal[t] = "applied" /\ payFor[t] = v /\ payKind[t] = "unlock"
    BY <2>2 DEF GatesSound
  <2>3. ASSUME journal[t] = "applied"
        PROVE  /\ payFor[t] \in Verifies
               /\ paymentTx[payFor[t]] = t \/ unlockTx[payFor[t]] = t
    BY <2>3 DEF JournalSound, TypeOK, JournalTypes
  <2> QED BY <2>1, <2>2, <2>3
<1> QED BY <1>1, InvCorrect, PTL

(***************************************************************************)
(* A result is released against its own unlock payment, or for a chain     *)
(* whose second gate is free (_apply_settlement, entitlement_unlock).      *)
(***************************************************************************)
THEOREM ReleasedPaid == Spec => []ReleasedOnlyWhenPaid
<1>1. IndInv => ReleasedOnlyWhenPaid
  BY DEF IndInv, GatesSound, ReleasedOnlyWhenPaid
<1> QED BY <1>1, InvCorrect, PTL

(***************************************************************************)
(* The unlock price follows from the instant of the answer: the window an  *)
(* answer is given is the one it lies in, whatever the windows' lengths    *)
(* (core/windows.py record_answer).                                        *)
(***************************************************************************)
THEOREM AnswersPriced == Spec => []AnswersArePriced
<1>1. IndInv => AnswersArePriced
  BY DEF IndInv
<1> QED BY <1>1, InvCorrect, PTL

(***************************************************************************)
(* The outcome of a chain is decided once.                                 *)
(***************************************************************************)

\* What a step may do to one chain that has been decided.
Stable(v) ==
    /\ status[v] \in Final =>
        /\ status'[v] = status[v]
        /\ respondedAt'[v] = respondedAt[v]
        /\ appliedWindow'[v] = appliedWindow[v]
        /\ terms'[v] = terms[v]
        /\ admittedAt'[v] = admittedAt[v]
        /\ v \in granted <=> v \in granted'
    /\ resultUnlocked[v] => resultUnlocked'[v]

LEMMA InsertRowStable ==
    ASSUME TypeOK, NEW u \in Verifies, NEW v \in Verifies, NEW w \in Wallets,
           NEW source, NEW st, NEW q,
           InsertRow(v, w, source, st, q), granted' = granted,
           admittedAt' \in {admittedAt, [admittedAt EXCEPT ![v] = now]}
    PROVE  Stable(u)
<1>1. CASE u = v
  BY <1>1 DEF Stable, Final, InsertRow, gateVars
<1>2. CASE u # v
  BY <1>2 DEF Stable, InsertRow, TypeOK, RowTypes, gateVars
<1> QED BY <1>1, <1>2

LEMMA CreateStable ==
    ASSUME TypeOK, NEW u \in Verifies, Create
    PROVE  Stable(u)
<1>1. PICK v \in Verifies, w \in Wallets :
        \/ \E q \in Terms : CreatePaid(v, w, q)
        \/ CreateFree(v, w)
        \/ \E q \in Terms : CreateOnCredit(v, w, q)
  BY DEF Create
<1>2. ASSUME NEW q \in Terms, CreatePaid(v, w, q) PROVE Stable(u)
  BY <1>2, InsertRowStable DEF CreatePaid, creditVars
<1>3. CASE CreateFree(v, w)
  BY <1>3, InsertRowStable DEF CreateFree
<1>4. ASSUME NEW q \in Terms, CreateOnCredit(v, w, q) PROVE Stable(u)
  BY <1>4, InsertRowStable DEF CreateOnCredit
<1> QED BY <1>1, <1>2, <1>3, <1>4

LEMMA ApplySettlementStable ==
    ASSUME IndInv, NEW u \in Verifies, NEW t \in Txs, ApplySettlement(t), journal[t] # "none"
    PROVE  Stable(u)
<1>1. UNCHANGED <<terms, respondedAt, appliedWindow, granted>>
  BY DEF ApplySettlement, creditVars
<1>2. CASE payKind[t] = "entry" /\ ApplyEntry(t)
  <2>1. payFor[t] \in Verifies
    BY DEF IndInv, TypeOK, JournalTypes, JournalSound
  <2> QED BY <1>1, <1>2, <2>1 DEF Stable, Final, ApplyEntry, EntryApplicable, IndInv, TypeOK, RowTypes
<1>3. CASE payKind[t] = "unlock" /\ ApplyUnlock(t)
  BY <1>1, <1>3 DEF Stable, ApplyUnlock, IndInv, TypeOK, GateTypes
<1> QED BY <1>2, <1>3 DEF ApplySettlement

LEMMA StepStable ==
    ASSUME IndInv, [Next]_vars, NEW u \in Verifies
    PROVE  Stable(u)
<1>1. CASE Create
  BY <1>1, CreateStable DEF IndInv
<1>2. ASSUME NEW v \in Verifies, ChainStep(v) PROVE Stable(u)
  <2>1. CASE Answer(v)
    BY <2>1 DEF Answer, Answerable, Stable, Final, IndInv, TypeOK, RowTypes, gateVars, creditVars
  <2>2. CASE UnlockFree(v)
    BY <2>2 DEF UnlockFree, Stable, IndInv, TypeOK, GateTypes, rowVars, creditVars
  <2> QED BY <1>2, <2>1, <2>2 DEF ChainStep
<1>3. ASSUME NEW t \in Txs, TxStep(t) PROVE Stable(u)
  <2>1. CASE ApplyReport(t) \/ Reconcile(t)
    BY <2>1, ApplySettlementStable DEF ApplyReport, Reconcile, IndInv, JournalSound
  <2>2. CASE ~(ApplyReport(t) \/ Reconcile(t))
    <3>1. UNCHANGED <<rowVars, gateVars, creditVars>>
      BY <1>3, <2>2 DEF TxStep, Settle, JournalReport, ReportFails, ReconcileFails
    <3> QED BY <3>1 DEF Stable, rowVars, gateVars, creditVars
  <2> QED BY <2>1, <2>2
<1>4. CASE ExpireStale
  BY <1>4 DEF ExpireStale, StatusAfterPass, Abandoned, Overdue, CreditEarners, Stable, Final, gateVars
<1>5. CASE SelectUnapplied \/ CoreCrash \/ Tick \/ UNCHANGED vars
  <2>1. UNCHANGED <<rowVars, gateVars, creditVars>>
    BY <1>5 DEF SelectUnapplied, CoreCrash, Tick, vars
  <2> QED BY <2>1 DEF Stable, rowVars, gateVars, creditVars
<1> QED BY <1>1, <1>2, <1>3, <1>4, <1>5 DEF Next

(***************************************************************************)
(* No later settlement, answer or expiry pass changes what was decided     *)
(* about a chain, its terms, its deadlines or its credit, nor hides a      *)
(* released result again.                                                  *)
(***************************************************************************)
THEOREM Decided == Spec => DecidedOnce
<1> DEFINE Step == \A v \in Verifies : Stable(v)
<1>1. IndInv /\ [Next]_vars => [Step]_vars
  BY StepStable
<1>2. [Step]_vars => [\A v \in Verifies :
        /\ status[v] \in Final =>
            /\ status'[v] = status[v]
            /\ respondedAt'[v] = respondedAt[v]
            /\ appliedWindow'[v] = appliedWindow[v]
            /\ terms'[v] = terms[v]
            /\ admittedAt'[v] = admittedAt[v]
            /\ v \in granted <=> v \in granted'
        /\ resultUnlocked[v] => resultUnlocked'[v]]_vars
  BY DEF Stable
<1> QED BY <1>1, <1>2, InvCorrect, PTL DEF Spec, DecidedOnce

LEMMA EntriesInit == Init => EntriesSound
  BY DEF Init, EntriesSound

\* Sources are written when a chain is created, charges when they are made.
LEMMA EntriesStep ==
  ASSUME IndInv, EntriesSound, [Next]_vars
  PROVE  EntriesSound'
<1>1. ASSUME UNCHANGED <<entrySource, payVars>> PROVE EntriesSound'
  BY <1>1 DEF EntriesSound, payVars
<1>2. CASE Create
  <2>1. PICK v \in Verifies : \E from : /\ entrySource[v] = "none"
                                        /\ entrySource' = [entrySource EXCEPT ![v] = from]
                                        /\ UNCHANGED payVars
    BY <1>2 DEF Create, CreatePaid, CreateFree, CreateOnCredit, InsertRow, IndInv, TypeOK,
                RowTypes, RowsSound
  <2>2. \A t \in Txs : payKind[t] = "entry" => payFor[t] \in Verifies /\ payFor[t] # v
    BY <2>1, NullAssumption DEF EntriesSound, IndInv, TypeOK, JournalTypes, JournalSound
  <2> QED BY <2>1, <2>2 DEF EntriesSound, IndInv, TypeOK, RowTypes, payVars
<1>3. ASSUME NEW t \in Txs, NEW v \in Verifies, NEW kind \in {"entry", "unlock"},
             Settle(t, v, kind)
      PROVE  EntriesSound'
  <2>1. /\ payFor'[t] = v /\ payKind'[t] = kind /\ UNCHANGED entrySource
        /\ \A u \in Txs \ {t} : payFor'[u] = payFor[u] /\ payKind'[u] = payKind[u]
    BY <1>3 DEF Settle, IndInv, TypeOK, JournalTypes, rowVars
  <2>2. kind = "entry" => /\ entrySource[v] = "x402"
                          /\ \A u \in Txs : ~(payFor[u] = v /\ payKind[u] = "entry")
    BY <1>3 DEF Settle
  <2> QED BY <2>1, <2>2 DEF EntriesSound
<1>4. ASSUME \/ \E v \in Verifies : Answer(v) \/ UnlockFree(v)
             \/ \E t \in Txs : \/ ApplyReport(t) \/ Reconcile(t) \/ JournalReport(t)
                               \/ ReportFails(t) \/ ReconcileFails(t)
             \/ ExpireStale \/ SelectUnapplied \/ CoreCrash \/ Tick \/ UNCHANGED vars
      PROVE  UNCHANGED <<entrySource, payVars>>
  BY <1>4
  DEF Answer, UnlockFree, ApplyReport, Reconcile, ApplySettlement, JournalReport, ReportFails,
      ReconcileFails, ExpireStale, SelectUnapplied, CoreCrash, Tick, vars, rowVars
<1> QED BY <1>1, <1>2, <1>3, <1>4 DEF Next, ChainStep, TxStep

\* An entry that settled is where its payer can be told it is.
THEOREM EntriesPlaced == Spec => []SettledEntriesPlaced
<1>1. ASSUME IndInv, EntriesSound, NEW t \in Txs, payKind[t] = "entry", NEW v, v = payFor[t]
      PROVE  IF journal[t] = "applied"
             THEN paymentTx[v] = t /\ (v \in Admitted \/ v \in granted)
             ELSE paymentTx[v] = Null /\ status[v] \in {"admission_pending", "failed"}
  <2>1. v \in Verifies /\ entrySource[v] = "x402"
    BY <1>1, NullAssumption DEF IndInv, TypeOK, JournalTypes, JournalSound, EntriesSound
  <2>2. CASE journal[t] = "applied"
    <3>1. paymentTx[v] = t /\ t # Null
      BY <1>1, <2>2, NullAssumption DEF IndInv, JournalSound
    <3>2. status[v] \in {"pending", "answered", "expired"}
      BY <1>1, <2>1, <3>1 DEF IndInv, RowsSound, TypeOK, RowTypes, Live, Final
    <3>3. status[v] = "expired" => v \in granted
      BY <1>1, <2>1 DEF IndInv, CreditsSound
    <3> QED BY <2>1, <2>2, <3>1, <3>2, <3>3 DEF Admitted
  <2>3. CASE journal[t] # "applied"
    <3>1. paymentTx[v] = Null
      <4>1. SUFFICES ASSUME paymentTx[v] # Null PROVE FALSE
        OBVIOUS
      <4>2. PICK u \in Txs : u = paymentTx[v]
        BY <1>1, <2>1, <4>1 DEF IndInv, TypeOK, GateTypes
      <4>3. payFor[u] = v /\ payKind[u] = "entry" /\ journal[u] = "applied"
        BY <1>1, <2>1, <4>1, <4>2 DEF IndInv, GatesSound, PaidEntry
      <4> QED BY <1>1, <2>3, <4>3 DEF EntriesSound
    <3> QED BY <1>1, <2>1, <2>3, <3>1 DEF IndInv, RowsSound
  <2> QED BY <2>2, <2>3
<1>2. IndInv /\ EntriesSound => SettledEntriesPlaced
  BY <1>1 DEF SettledEntriesPlaced
<1> QED BY <1>2, EntriesInit, EntriesStep, InvCorrect, PTL DEF Spec
=============================================================================

------------------------ MODULE PrepaidAnswersProofs ------------------------
(***************************************************************************)
(* VerifyChain implements PrepaidAnswers, AtomicAdmission and PaidGates:   *)
(* the proofs of the three refinements, and of the conservation law the    *)
(* tokens of the first make visible.                                       *)
(***************************************************************************)
EXTENDS VerifyChainProofs, FiniteSetTheorems

\* Where the place bought with a recorded payment is.
LEMMA HolderFacts ==
    ASSUME IndInv, NEW t \in Txs, Recorded(t)
    PROVE  /\ payFor[t] \in Verifies /\ paymentTx[payFor[t]] = t
           /\ entrySource[payFor[t]] = "x402"
           /\ payFor[t] \in granted <=> status[payFor[t]] = "expired"
           /\ payFor[t] \notin granted => payFor[t] \in Admitted
           /\ Holder(t) # Null => /\ Holder(t) \in Admitted
                                  /\ entrySource[Holder(t)] # "initial_free"
                                  /\ agent[Holder(t)] = agent[payFor[t]]
           /\ agent[payFor[t]] \in Wallets
           /\ TokenOf(t) = IF Holder(t) = Null THEN "owed"
                           ELSE IF status[Holder(t)] = "pending" THEN "queued" ELSE "spent"
<1> USE NullAssumption
<1>1. payFor[t] \in Verifies /\ paymentTx[payFor[t]] = t
  BY DEF Recorded, IndInv, JournalSound, TypeOK, JournalTypes
<1>2. entrySource[payFor[t]] = "x402"
  BY <1>1 DEF IndInv, RowsSound
<1>3. payFor[t] \in granted <=> status[payFor[t]] = "expired"
  BY <1>1, <1>2 DEF IndInv, CreditsSound
<1>4. status[payFor[t]] \in {"pending", "answered", "expired"} /\ agent[payFor[t]] \in Wallets
  BY <1>1, <1>2 DEF IndInv, TypeOK, RowTypes, RowsSound, Live, Final
<1>5. payFor[t] \notin granted => payFor[t] \in Admitted
  BY <1>1, <1>3, <1>4 DEF Admitted
<1>6. Holder(t) # Null => /\ Holder(t) \in Admitted
                          /\ entrySource[Holder(t)] # "initial_free"
                          /\ agent[Holder(t)] = agent[payFor[t]]
  BY <1>1, <1>2, <1>5 DEF Holder, IndInv, CreditsSound
<1>7. TokenOf(t) = IF Holder(t) = Null THEN "owed"
                   ELSE IF status[Holder(t)] = "pending" THEN "queued" ELSE "spent"
  BY <1>6 DEF TokenOf, Admitted
<1> QED BY <1>1, <1>2, <1>3, <1>4, <1>5, <1>6, <1>7

\* No two payments hold the same place.
LEMMA HolderUnique ==
    ASSUME IndInv, NEW t \in Txs, NEW u \in Txs, Recorded(t), Recorded(u),
           Holder(t) = Holder(u), Holder(t) # Null
    PROVE  t = u
<1>1. /\ payFor[t] \in Verifies /\ paymentTx[payFor[t]] = t /\ entrySource[payFor[t]] = "x402"
      /\ payFor[u] \in Verifies /\ paymentTx[payFor[u]] = u /\ entrySource[payFor[u]] = "x402"
  BY HolderFacts
<1>2. payFor[t] = payFor[u]
  BY <1>1 DEF Holder, IndInv, CreditsSound
<1> QED BY <1>1, <1>2

\* The paid and credit-funded chains in or past the queue are the places.
LEMMA EveryPlaceIsPaid ==
    ASSUME IndInv, NEW v \in Admitted, entrySource[v] # "initial_free"
    PROVE  \E t \in Txs : Recorded(t) /\ Holder(t) = v
<1>1. v \in Verifies /\ status[v] \in {"pending", "answered"} /\ v # Null
  BY NullAssumption DEF Admitted
<1>2. entrySource[v] \in {"x402", "failure_credit"}
  BY <1>1 DEF IndInv, TypeOK, RowTypes, RowsSound
<1>3. CASE entrySource[v] = "x402"
  BY <1>1, <1>3, PaidWhenQueued DEF PaidEntry, Recorded, Holder
<1>4. CASE entrySource[v] = "failure_credit"
  <2>1. PICK c \in Verifies : creditUsedBy[c] = v
    BY <1>4 DEF IndInv, CreditsSound
  <2>2. c \in granted /\ status[c] = "expired" /\ entrySource[c] = "x402"
    BY <1>1, <2>1 DEF IndInv, CreditsSound
  <2> QED BY <2>1, <2>2, PaidWhenQueued DEF PaidEntry, Recorded, Holder
<1> QED BY <1>2, <1>3, <1>4

\* A wallet without a live chain has no paid place in the queue.
LEMMA QueueIsFree ==
    ASSUME IndInv, NEW w \in Wallets,
           \A v \in Verifies : agent[v] = w => status[v] # "pending"
    PROVE  \A t \in Txs : OwnerOf(t) = w => TokenOf(t) # "queued"
<1> SUFFICES ASSUME NEW t \in Txs, OwnerOf(t) = w, TokenOf(t) = "queued"
             PROVE  FALSE
  OBVIOUS
<1>1. Recorded(t)
  BY DEF TokenOf
<1>2. agent[payFor[t]] = w /\ Holder(t) # Null /\ status[Holder(t)] = "pending"
  BY <1>1, HolderFacts DEF OwnerOf
<1>3. Holder(t) \in Verifies /\ agent[Holder(t)] = w
  BY <1>1, <1>2, HolderFacts DEF Admitted
<1> QED BY <1>2, <1>3

-----------------------------------------------------------------------------
(***************************************************************************)
(* Every step of the core is a step of the abstract one or a stutter.      *)
(***************************************************************************)

SameToken(t) == TokenOf(t)' = TokenOf(t) /\ OwnerOf(t)' = OwnerOf(t)

\* A payment whose record, chain, credit and holder are left alone.
LEMMA TokenFrame ==
    ASSUME NEW t \in Txs, Recorded(t)' = Recorded(t),
           Recorded(t) =>
             /\ payFor'[t] = payFor[t]
             /\ agent'[payFor[t]] = agent[payFor[t]]
             /\ payFor[t] \in granted' <=> payFor[t] \in granted
             /\ creditUsedBy'[payFor[t]] = creditUsedBy[payFor[t]]
             /\ Holder(t) # Null => status'[Holder(t)] = status[Holder(t)]
    PROVE  SameToken(t)
<1>1. CASE Recorded(t)
  <2>1. Holder(t)' = Holder(t)
    BY <1>1 DEF Holder
  <2> QED BY <1>1, <2>1 DEF SameToken, TokenOf, OwnerOf
<1>2. CASE ~Recorded(t)
  BY <1>2 DEF SameToken, TokenOf, OwnerOf
<1> QED BY <1>1, <1>2

LEMMA Stutter ==
    ASSUME \A t \in Txs : SameToken(t)
    PROVE  UNCHANGED <<[t \in Txs |-> TokenOf(t)], [t \in Txs |-> OwnerOf(t)]>>
BY DEF SameToken

\* A row that did not exist holds nobody's place.
LEMMA InsertFrame ==
    ASSUME IndInv, NEW v \in Verifies, NEW w \in Wallets, NEW source, NEW st, NEW q,
           InsertRow(v, w, source, st, q), granted' = granted,
           NEW t \in Txs, Recorded(t) => creditUsedBy'[payFor[t]] = creditUsedBy[payFor[t]]
    PROVE  SameToken(t)
<1>1. status[v] = "none" /\ v \notin Admitted /\ v \notin granted
  BY DEF InsertRow, IndInv, CreditsSound, Admitted
<1>2. Recorded(t)' = Recorded(t) /\ payFor'[t] = payFor[t]
  BY DEF InsertRow, Recorded, payVars, journalVars
<1>3. ASSUME Recorded(t) PROVE agent'[payFor[t]] = agent[payFor[t]]
  <2>1. payFor[t] \in Verifies /\ payFor[t] # v
    BY <1>1, <1>3, HolderFacts
  <2> QED BY <2>1 DEF InsertRow, IndInv, TypeOK, RowTypes
<1>4. ASSUME Recorded(t), Holder(t) # Null PROVE status'[Holder(t)] = status[Holder(t)]
  <2>1. Holder(t) \in Verifies /\ Holder(t) # v
    BY <1>1, <1>4, HolderFacts DEF Admitted
  <2> QED BY <2>1 DEF InsertRow, IndInv, TypeOK, RowTypes
<1> QED BY <1>2, <1>3, <1>4, TokenFrame

LEMMA CreditRequeues ==
    ASSUME IndInv, NEW v \in Verifies, NEW w \in Wallets, NEW q \in Terms,
           CreateOnCredit(v, w, q)
    PROVE  \E p \in Txs : Prepaid!Requeue(p)
<1> USE NullAssumption
<1>1. PICK c \in OpenCredits(w) : creditUsedBy' = [creditUsedBy EXCEPT ![c] = v]
  BY DEF CreateOnCredit
<1>2. c \in granted /\ c \in Verifies /\ agent[c] = w /\ creditUsedBy[c] = Null
  BY <1>1 DEF OpenCredits, IndInv, TypeOK, CreditTypes
<1>3. status[c] = "expired" /\ entrySource[c] = "x402"
  BY <1>2 DEF IndInv, CreditsSound
<1>4. PICK p \in Txs : Recorded(p) /\ payFor[p] = c /\ paymentTx[c] = p
  BY <1>2, <1>3, PaidWhenQueued DEF PaidEntry, Recorded
<1>5. InsertRow(v, w, "failure_credit", "pending", q) /\ granted' = granted
  BY DEF CreateOnCredit
<1>6. TokenOf(p) = "owed" /\ OwnerOf(p) = w
  BY <1>2, <1>4 DEF TokenOf, Holder, OwnerOf
<1>7. TokenOf(p)' = "queued" /\ OwnerOf(p)' = w
  <2>1. Recorded(p)' /\ payFor'[p] = c
    BY <1>4, <1>5 DEF InsertRow, Recorded, payVars, journalVars
  <2>2. c # v
    BY <1>3, <1>5 DEF InsertRow
  <2>3. /\ agent'[c] = w /\ status'[v] = "pending" /\ creditUsedBy'[c] = v /\ c \in granted'
    BY <1>1, <1>2, <1>5, <2>2 DEF InsertRow, IndInv, TypeOK, RowTypes, CreditTypes
  <2>4. Holder(p)' = v /\ v # Null
    BY <2>1, <2>3 DEF Holder
  <2> QED BY <2>1, <2>3, <2>4 DEF TokenOf, OwnerOf
<1>8. ASSUME NEW t \in Txs, t # p PROVE SameToken(t)
  <2>1. Recorded(t) => payFor[t] \in Verifies /\ payFor[t] # c
    BY <1>4, <1>8, HolderFacts
  <2>2. Recorded(t) => creditUsedBy'[payFor[t]] = creditUsedBy[payFor[t]]
    BY <1>1, <2>1 DEF IndInv, TypeOK, CreditTypes
  <2> QED BY <1>5, <2>2, InsertFrame
<1>9. \A t \in Txs : OwnerOf(t) = w => TokenOf(t) # "queued"
  <2>1. \A u \in Verifies : agent[u] = w => status[u] # "pending"
    BY <1>5 DEF InsertRow, ActiveChains, Live
  <2> QED BY <2>1, QueueIsFree
<1>10. [t \in Txs |-> TokenOf(t)]' = [[t \in Txs |-> TokenOf(t)] EXCEPT ![p] = "queued"]
  BY <1>4, <1>7, <1>8 DEF SameToken
<1>11. UNCHANGED [t \in Txs |-> OwnerOf(t)]
  BY <1>4, <1>6, <1>7, <1>8 DEF SameToken
<1>12. Prepaid!Requeue(p)
  BY <1>4, <1>6, <1>9, <1>10, <1>11 DEF Prepaid!Requeue, Prepaid!QueueFree
<1> QED BY <1>4, <1>12

LEMMA CreateSteps ==
    ASSUME IndInv, Create
    PROVE  \/ \E p \in Txs : Prepaid!Requeue(p)
           \/ \A t \in Txs : SameToken(t)
<1>1. PICK v \in Verifies, w \in Wallets :
        \/ \E q \in Terms : CreatePaid(v, w, q)
        \/ CreateFree(v, w)
        \/ \E q \in Terms : CreateOnCredit(v, w, q)
  BY DEF Create
<1>2. ASSUME NEW q \in Terms, CreatePaid(v, w, q) PROVE \A t \in Txs : SameToken(t)
  BY <1>2, InsertFrame DEF CreatePaid, creditVars
<1>3. CASE CreateFree(v, w)
  BY <1>3, InsertFrame DEF CreateFree
<1>4. ASSUME NEW q \in Terms, CreateOnCredit(v, w, q) PROVE \E p \in Txs : Prepaid!Requeue(p)
  BY <1>4, CreditRequeues
<1> QED BY <1>1, <1>2, <1>3, <1>4

\* An entry settlement that moves its chain into the queue records a payment;
\* a replay and an unlock change no token.
LEMMA ApplySteps ==
    ASSUME IndInv, IndInv', NEW t \in Txs, ApplySettlement(t), journal[t] # "none"
    PROVE  \/ \E w \in Wallets : Prepaid!Record(t, w)
           \/ \A u \in Txs : SameToken(u)
<1> USE NullAssumption
<1>0. payFor[t] \in Verifies
  BY DEF IndInv, TypeOK, JournalTypes, JournalSound
<1>1. /\ journal'[t] = "applied"
      /\ \A u \in Txs \ {t} : journal'[u] = journal[u]
      /\ UNCHANGED <<agent, creditVars, payVars>>
  BY DEF ApplySettlement, IndInv, TypeOK, JournalTypes
<1>2. \A u \in Txs \ {t} : Recorded(u)' = Recorded(u)
  BY <1>1 DEF Recorded, payVars
<1>3. CASE payKind[t] = "unlock" /\ ApplyUnlock(t)
  <2>1. Recorded(t)' = Recorded(t) /\ status' = status
    BY <1>1, <1>3 DEF Recorded, ApplyUnlock, payVars
  <2> QED BY <1>1, <1>2, <2>1, TokenFrame DEF creditVars, payVars
<1>4. CASE payKind[t] = "entry" /\ ApplyEntry(t) /\ paymentTx[payFor[t]] = t
  <2>1. journal[t] = "applied" /\ status' = status
    BY <1>0, <1>4 DEF ApplyEntry, IndInv, GatesSound, PaidEntry
  <2>2. Recorded(t)' = Recorded(t)
    BY <1>1, <2>1 DEF Recorded, payVars
  <2> QED BY <1>1, <1>2, <2>1, <2>2, TokenFrame DEF creditVars, payVars
<1>5. CASE payKind[t] = "entry" /\ ApplyEntry(t) /\ paymentTx[payFor[t]] # t
  <2>1. PICK v \in Verifies : v = payFor[t]
    BY <1>0
  <2>2. /\ status[v] = "admission_pending" /\ status' = [status EXCEPT ![v] = "pending"]
        /\ paymentTx[v] = Null
    BY <1>5, <2>1 DEF ApplyEntry, EntryApplicable
  <2>3. PICK w \in Wallets : w = agent[v]
    BY <2>2 DEF IndInv, RowsSound
  <2>4. v \notin Admitted /\ v \notin granted
    BY <2>2 DEF Admitted, IndInv, CreditsSound
  <2>5. ~Recorded(t)
    BY <2>1, <2>2 DEF Recorded, IndInv, JournalSound
  <2>6. Recorded(t)' /\ payFor'[t] = v /\ v \notin granted' /\ agent'[v] = w
        /\ status'[v] = "pending"
    BY <1>1, <1>5, <2>1, <2>2, <2>3, <2>4 DEF Recorded, payVars, creditVars, IndInv, TypeOK, RowTypes
  <2>7. TokenOf(t) = "unpaid" /\ OwnerOf(t) = Null
    BY <2>5 DEF TokenOf, OwnerOf
  <2>8. TokenOf(t)' = "queued" /\ OwnerOf(t)' = w
    BY <2>6 DEF TokenOf, Holder, OwnerOf
  <2>9. ASSUME NEW u \in Txs, u # t PROVE SameToken(u)
    <3>1. Recorded(u) /\ Holder(u) # Null => status'[Holder(u)] = status[Holder(u)]
      <4>1. Recorded(u) /\ Holder(u) # Null => Holder(u) \in Verifies /\ Holder(u) # v
        BY <2>4, HolderFacts DEF Admitted
      <4> QED BY <2>2, <4>1 DEF IndInv, TypeOK, RowTypes
    <3> QED BY <1>1, <1>2, <2>9, <3>1, TokenFrame DEF creditVars, payVars
  <2>10. \A x \in Txs : OwnerOf(x) = w => TokenOf(x) # "queued"
    <3>1. \A u \in Verifies : agent[u] = w => status[u] # "pending"
      BY <2>2, <2>3 DEF IndInv, OneActivePerWallet, Live
    <3> QED BY <3>1, QueueIsFree
  <2>11. [x \in Txs |-> TokenOf(x)]' = [[x \in Txs |-> TokenOf(x)] EXCEPT ![t] = "queued"]
    BY <2>8, <2>9 DEF SameToken
  <2>12. [x \in Txs |-> OwnerOf(x)]' = [[x \in Txs |-> OwnerOf(x)] EXCEPT ![t] = w]
    BY <2>8, <2>9 DEF SameToken
  <2>13. Prepaid!Record(t, w)
    BY <2>7, <2>10, <2>11, <2>12 DEF Prepaid!Record, Prepaid!QueueFree
  <2> QED BY <2>13
<1> QED BY <1>3, <1>4, <1>5 DEF ApplySettlement

LEMMA TxSteps ==
    ASSUME IndInv, IndInv', NEW t \in Txs, TxStep(t)
    PROVE  \/ \E w \in Wallets : Prepaid!Record(t, w)
           \/ \A u \in Txs : SameToken(u)
<1>1. CASE ApplyReport(t) \/ Reconcile(t)
  BY <1>1, ApplySteps DEF ApplyReport, Reconcile, IndInv, JournalSound
<1>2. ASSUME NEW v \in Verifies, NEW kind \in {"entry", "unlock"}, Settle(t, v, kind)
      PROVE  \A u \in Txs : SameToken(u)
  <2>1. journal[t] = "none" /\ UNCHANGED <<status, agent, granted, creditUsedBy, journal>>
    BY <1>2 DEF Settle, IndInv, JournalSound, rowVars, creditVars, journalVars
  <2>2. \A u \in Txs \ {t} : payFor'[u] = payFor[u] /\ payKind'[u] = payKind[u]
    BY <1>2 DEF Settle, IndInv, TypeOK, JournalTypes
  <2>3. \A u \in Txs : Recorded(u)' = Recorded(u) /\ (Recorded(u) => u # t)
    BY <2>1, <2>2 DEF Recorded
  <2> QED BY <2>1, <2>2, <2>3, TokenFrame
<1>3. CASE JournalReport(t)
  <2>1. \A u \in Txs : Recorded(u)' = Recorded(u)
    BY <1>3 DEF JournalReport, Recorded, IndInv, TypeOK, JournalTypes, payVars
  <2> QED BY <1>3, <2>1, TokenFrame DEF JournalReport, rowVars, creditVars, payVars
<1>4. CASE ReportFails(t) \/ ReconcileFails(t)
  <2>1. UNCHANGED <<status, agent, granted, creditUsedBy, payVars, journal>>
    BY <1>4 DEF ReportFails, ReconcileFails, rowVars, creditVars, journalVars
  <2>2. \A u \in Txs : Recorded(u)' = Recorded(u)
    BY <2>1 DEF Recorded, payVars
  <2> QED BY <2>1, <2>2, TokenFrame DEF payVars
<1> QED BY <1>1, <1>2, <1>3, <1>4 DEF TxStep

\* The answer spends the payment whose place the chain holds, if any does.
LEMMA AnswerSteps ==
    ASSUME IndInv, NEW v \in Verifies, Answer(v)
    PROVE  \/ \E p \in Txs : Prepaid!Spend(p)
           \/ \A u \in Txs : SameToken(u)
<1> USE NullAssumption
<1>1. status[v] = "pending" /\ status' = [status EXCEPT ![v] = "answered"]
      /\ UNCHANGED <<agent, granted, creditUsedBy, payVars, journal>>
  BY DEF Answer, Answerable, creditVars, journalVars
<1>2. \A u \in Txs : Recorded(u)' = Recorded(u)
  BY <1>1 DEF Recorded, payVars
<1>3. ASSUME NEW u \in Txs, Recorded(u) => Holder(u) # v PROVE SameToken(u)
  <2>1. Recorded(u) /\ Holder(u) # Null => status'[Holder(u)] = status[Holder(u)]
    <3>1. Recorded(u) /\ Holder(u) # Null => Holder(u) \in Verifies
      BY HolderFacts DEF Admitted
    <3> QED BY <1>1, <1>3, <3>1 DEF IndInv, TypeOK, RowTypes
  <2> QED BY <1>1, <1>2, <2>1, TokenFrame DEF payVars
<1>4. CASE \A u \in Txs : Recorded(u) => Holder(u) # v
  BY <1>3, <1>4
<1>5. CASE \E u \in Txs : Recorded(u) /\ Holder(u) = v
  <2>1. PICK p \in Txs : Recorded(p) /\ Holder(p) = v
    BY <1>5
  <2>2. \A u \in Txs : u # p => SameToken(u)
    BY <1>3, <2>1, HolderUnique
  <2>3. TokenOf(p) = "queued"
    BY <1>1, <2>1 DEF TokenOf
  <2>4. Holder(p)' = v /\ status'[v] = "answered" /\ Recorded(p)'
    BY <1>1, <1>2, <2>1 DEF Holder, payVars, IndInv, TypeOK, RowTypes
  <2>5. TokenOf(p)' = "spent" /\ OwnerOf(p)' = OwnerOf(p)
    BY <1>1, <2>1, <2>4 DEF TokenOf, OwnerOf, payVars
  <2>6. [x \in Txs |-> TokenOf(x)]' = [[x \in Txs |-> TokenOf(x)] EXCEPT ![p] = "spent"]
    BY <2>2, <2>5 DEF SameToken
  <2>7. UNCHANGED [x \in Txs |-> OwnerOf(x)]
    BY <2>2, <2>5 DEF SameToken
  <2>8. Prepaid!Spend(p)
    BY <2>3, <2>6, <2>7 DEF Prepaid!Spend
  <2> QED BY <2>8
<1> QED BY <1>4, <1>5

\* An expiry pass lapses every payment whose chain it expires.
LEMMA ExpirySteps ==
    ASSUME IndInv, ExpireStale
    PROVE  \/ \E S \in SUBSET Txs : Prepaid!Lapse(S)
           \/ \A u \in Txs : SameToken(u)
<1> USE NullAssumption
<1> DEFINE S == {t \in Txs : Recorded(t) /\ Holder(t) \in Overdue}
<1>1. /\ UNCHANGED <<agent, entrySource, payVars, journal>>
      /\ \A v \in Verifies : status'[v] = StatusAfterPass(v)
      /\ granted' = granted \cup CreditEarners
      /\ \A c \in Verifies : creditUsedBy'[c] = IF creditUsedBy[c] \in Released
                                                THEN Null ELSE creditUsedBy[c]
  BY DEF ExpireStale, journalVars
<1>2. \A t \in Txs : Recorded(t)' = Recorded(t)
  BY <1>1 DEF Recorded, payVars
<1>3. Overdue \subseteq Verifies /\ \A v \in Overdue : status[v] = "pending"
  BY DEF Overdue
<1>4. ASSUME NEW t \in S PROVE TokenOf(t) = "queued" /\ TokenOf(t)' = "owed" /\ OwnerOf(t)' = OwnerOf(t)
  <2>1. t \in Txs /\ Recorded(t) /\ Holder(t) \in Overdue
    BY <1>4
  <2>2. TokenOf(t) = "queued"
    BY <1>3, <2>1 DEF TokenOf
  <2>3. /\ payFor[t] \in Verifies /\ entrySource[payFor[t]] = "x402"
        /\ payFor[t] \notin granted => payFor[t] = Holder(t)
        /\ payFor[t] \in granted => Holder(t) = creditUsedBy[payFor[t]]
    BY <2>1, HolderFacts DEF Holder
  <2>4. payFor[t] \in granted'
    BY <1>1, <2>1, <2>3 DEF CreditEarners
  <2>5. creditUsedBy'[payFor[t]] = Null
    <3>1. CASE payFor[t] \in granted
      <4>1. entrySource[Holder(t)] = "failure_credit"
        BY <1>3, <2>1, <2>3, <3>1 DEF IndInv, CreditsSound
      <4> QED BY <1>1, <2>1, <2>3, <3>1, <4>1 DEF Released, CreditEarners
    <3>2. CASE payFor[t] \notin granted
      <4>1. creditUsedBy[payFor[t]] = Null
        BY <2>3, <3>2 DEF IndInv, CreditsSound
      <4> QED BY <1>1, <2>3, <4>1
    <3> QED BY <3>1, <3>2
  <2>6. Holder(t)' = Null
    BY <1>1, <2>4, <2>5 DEF Holder, payVars
  <2> QED BY <1>1, <1>2, <2>1, <2>2, <2>6 DEF TokenOf, OwnerOf, payVars
<1>5. ASSUME NEW t \in Txs \ S PROVE SameToken(t)
  <2>1. CASE ~Recorded(t)
    BY <1>2, <2>1, TokenFrame
  <2>2. CASE Recorded(t)
    <3>1. Holder(t) \notin Overdue
      BY <1>5, <2>2
    <3>2. payFor[t] \in Verifies
      BY <2>2, HolderFacts
    <3>3. payFor[t] \in granted' <=> payFor[t] \in granted
      BY <1>1, <3>1 DEF Holder, CreditEarners
    <3>4. creditUsedBy'[payFor[t]] = creditUsedBy[payFor[t]]
      <4>1. payFor[t] \in granted => creditUsedBy[payFor[t]] \notin Released
        BY <3>1 DEF Holder, Released
      <4>2. payFor[t] \notin granted => creditUsedBy[payFor[t]] = Null
        BY <3>2 DEF IndInv, CreditsSound
      <4>3. Null \notin Released
        BY <1>3 DEF Released
      <4> QED BY <1>1, <3>2, <4>1, <4>2, <4>3
    <3>5. Holder(t) # Null => status'[Holder(t)] = status[Holder(t)]
      <4>1. Holder(t) # Null => Holder(t) \in Verifies /\ status[Holder(t)] # "admission_pending"
        BY <2>2, HolderFacts DEF Admitted
      <4> QED BY <1>1, <3>1, <4>1 DEF StatusAfterPass, Abandoned
    <3> QED BY <1>1, <1>2, <3>2, <3>3, <3>4, <3>5, TokenFrame DEF payVars
  <2> QED BY <2>1, <2>2
<1>6. CASE S = {}
  BY <1>5, <1>6
<1>7. CASE S # {}
  <2>1. [x \in Txs |-> TokenOf(x)]' =
          [x \in Txs |-> IF x \in S THEN "owed" ELSE [y \in Txs |-> TokenOf(y)][x]]
    BY <1>4, <1>5 DEF SameToken
  <2>2. UNCHANGED [x \in Txs |-> OwnerOf(x)]
    BY <1>4, <1>5 DEF SameToken
  <2>3. Prepaid!Lapse(S)
    BY <1>4, <1>7, <2>1, <2>2 DEF Prepaid!Lapse
  <2> QED BY <2>3
<1> QED BY <1>6, <1>7

LEMMA StepRefines ==
    ASSUME IndInv, IndInv', [Next]_vars
    PROVE  [Prepaid!Next]_<<[t \in Txs |-> TokenOf(t)], [t \in Txs |-> OwnerOf(t)]>>
<1>1. CASE Create
  BY <1>1, CreateSteps, Stutter DEF Prepaid!Next
<1>2. ASSUME NEW v \in Verifies, Answer(v)
      PROVE  [Prepaid!Next]_<<[t \in Txs |-> TokenOf(t)], [t \in Txs |-> OwnerOf(t)]>>
  BY <1>2, AnswerSteps, Stutter DEF Prepaid!Next
<1>3. ASSUME NEW t \in Txs, TxStep(t)
      PROVE  [Prepaid!Next]_<<[x \in Txs |-> TokenOf(x)], [x \in Txs |-> OwnerOf(x)]>>
  BY <1>3, TxSteps, Stutter DEF Prepaid!Next
<1>4. CASE ExpireStale
  BY <1>4, ExpirySteps, Stutter DEF Prepaid!Next
<1>5. CASE UNCHANGED <<status, agent, granted, creditUsedBy, payFor, payKind, journal>>
  BY <1>5, Stutter DEF SameToken, TokenOf, OwnerOf, Holder, Recorded
<1>6. CASE \/ \E v \in Verifies : UnlockFree(v)
           \/ SelectUnapplied \/ CoreCrash \/ Tick \/ UNCHANGED vars
  <2>1. UNCHANGED <<status, agent, granted, creditUsedBy, payFor, payKind, journal>>
    BY <1>6 DEF UnlockFree, SelectUnapplied, CoreCrash, Tick, vars, rowVars, creditVars,
                payVars, journalVars
  <2> QED BY <1>5, <2>1
<1> QED BY <1>1, <1>2, <1>3, <1>4, <1>6 DEF Next, ChainStep

LEMMA InitRefines == Init => Prepaid!Init
BY DEF Init, Prepaid!Init, TokenOf, OwnerOf, Recorded

(***************************************************************************)
(* Every recorded entry payment buys exactly one answer: the rows, the     *)
(* journal and the credits of the core implement PrepaidAnswers, so no     *)
(* expiry, credit, replay or restart loses a payment or spends it twice.   *)
(***************************************************************************)
THEOREM Refinement == Spec => PaymentBuysOneAnswer
<1>1. IndInv /\ IndInv' /\ [Next]_vars =>
        [Prepaid!Next]_<<[t \in Txs |-> TokenOf(t)], [t \in Txs |-> OwnerOf(t)]>>
  BY StepRefines
<1> QED BY <1>1, InitRefines, InvCorrect, PTL DEF Spec, PaymentBuysOneAnswer, Prepaid!Spec

-----------------------------------------------------------------------------
(***************************************************************************)
(* Counting.                                                               *)
(***************************************************************************)

\* A recorded payment is either an open credit or a place in the queue.
LEMMA PaymentsArePlaces ==
    ASSUME IndInv, NEW w \in Wallets
    PROVE  ExistsBijection(
             {t \in Txs : Recorded(t) /\ agent[payFor[t]] = w},
             {v \in Admitted : agent[v] = w /\ entrySource[v] # "initial_free"} \cup OpenCredits(w))
<1> USE NullAssumption
<1> DEFINE S == {t \in Txs : Recorded(t) /\ agent[payFor[t]] = w}
           A == {v \in Admitted : agent[v] = w /\ entrySource[v] # "initial_free"}
           C == OpenCredits(w)
           place(t) == IF Holder(t) = Null THEN payFor[t] ELSE Holder(t)
           f == [t \in S |-> place(t)]
<1>1. ASSUME NEW t \in S, Holder(t) = Null PROVE place(t) \in C
  BY <1>1, HolderFacts DEF Holder, OpenCredits
<1>2. ASSUME NEW t \in S, Holder(t) # Null PROVE place(t) \in A
  BY <1>2, HolderFacts
<1>3. ASSUME NEW x \in C PROVE x \notin Admitted
  BY <1>3 DEF OpenCredits, Admitted, IndInv, TypeOK, CreditTypes, CreditsSound
<1>4. ASSUME NEW t \in S, NEW u \in S, place(t) = place(u) PROVE t = u
  <2>1. Holder(t) = Null <=> Holder(u) = Null
    BY <1>1, <1>2, <1>3, <1>4
  <2>2. CASE Holder(t) = Null
    BY <1>4, <2>1, <2>2, HolderFacts
  <2>3. CASE Holder(t) # Null
    BY <1>4, <2>1, <2>3, HolderUnique
  <2> QED BY <2>2, <2>3
<1>5. ASSUME NEW x \in A \cup C PROVE \E t \in S : place(t) = x
  <2>1. CASE x \in A
    <3>1. PICK t \in Txs : Recorded(t) /\ Holder(t) = x
      BY <2>1, EveryPlaceIsPaid
    <3>2. x # Null
      BY <2>1 DEF Admitted
    <3>3. agent[payFor[t]] = w
      BY <2>1, <3>1, <3>2, HolderFacts
    <3> QED BY <3>1, <3>2, <3>3
  <2>2. CASE x \in C
    <3>1. x \in Verifies /\ x \in granted /\ agent[x] = w /\ creditUsedBy[x] = Null
      BY <2>2 DEF OpenCredits, IndInv, TypeOK, CreditTypes
    <3>2. status[x] = "expired" /\ entrySource[x] = "x402"
      BY <3>1 DEF IndInv, CreditsSound
    <3>3. PICK t \in Txs : Recorded(t) /\ payFor[t] = x
      BY <3>1, <3>2, PaidWhenQueued DEF PaidEntry, Recorded
    <3> QED BY <3>1, <3>3 DEF Holder
  <2> QED BY <2>1, <2>2
<1>6. f \in [S -> A \cup C]
  BY <1>1, <1>2
<1>7. f \in Injection(S, A \cup C)
  BY <1>4, <1>6 DEF Injection, IsInjective
<1>8. f \in Surjection(S, A \cup C)
  BY <1>5, <1>6 DEF Surjection
<1> QED BY <1>7, <1>8 DEF ExistsBijection, Bijection

(***************************************************************************)
(* Conservation of entry payments, for any number of wallets, payments and *)
(* chains: what a wallet has paid for is what it was given or is owed.     *)
(***************************************************************************)
THEOREM Conserved == Spec => []PaymentsConserved
<1>1. IndInv => PaymentsConserved
  <2> SUFFICES ASSUME IndInv, NEW w \in Wallets
               PROVE  Cardinality({t \in Txs : /\ journal[t] = "applied"
                                               /\ payKind[t] = "entry"
                                               /\ agent[payFor[t]] = w})
                      = Cardinality({v \in Admitted : agent[v] = w /\ entrySource[v] # "initial_free"})
                        + Cardinality(OpenCredits(w))
    BY DEF PaymentsConserved
  <2> DEFINE S == {t \in Txs : Recorded(t) /\ agent[payFor[t]] = w}
             A == {v \in Admitted : agent[v] = w /\ entrySource[v] # "initial_free"}
             C == OpenCredits(w)
  <2>1. IsFiniteSet(S)
    BY FS_Subset, FiniteAssumption
  <2>2. IsFiniteSet(A) /\ IsFiniteSet(C)
    <3>1. A \subseteq Verifies /\ C \subseteq Verifies
      BY DEF Admitted, OpenCredits, IndInv, TypeOK, CreditTypes
    <3> QED BY <3>1, FS_Subset, FiniteAssumption
  <2>3. Cardinality(S) = Cardinality(A \cup C)
    BY <2>1, PaymentsArePlaces, FS_Bijection
  <2>4. A \cap C = {}
    BY DEF OpenCredits, Admitted, IndInv, TypeOK, CreditTypes, CreditsSound
  <2>5. Cardinality(A \cup C) = Cardinality(A) + Cardinality(C)
    <3>1. Cardinality(A \cup C) = Cardinality(A) + Cardinality(C) - Cardinality(A \cap C)
      BY <2>2, FS_Union
    <3>2. Cardinality(A \cap C) = 0
      BY <2>4, FS_EmptySet
    <3>3. Cardinality(A) \in Nat /\ Cardinality(C) \in Nat
      BY <2>2, FS_CardinalityType
    <3> QED BY <3>1, <3>2, <3>3
  <2>6. S = {t \in Txs : /\ journal[t] = "applied"
                         /\ payKind[t] = "entry"
                         /\ agent[payFor[t]] = w}
    BY DEF Recorded
  <2> QED BY <2>3, <2>5, <2>6
<1> QED BY <1>1, InvCorrect, PTL

(***************************************************************************)
(* The free allowance is never exceeded, whatever it is.                   *)
(***************************************************************************)
THEOREM AllowanceKept == Spec => []FreeAllowanceKept
<1>1. IndInv => FreeAllowanceKept
  <2> SUFFICES ASSUME IndInv, NEW w \in Wallets
               PROVE  Cardinality({v \in Admitted : agent[v] = w /\ entrySource[v] = "initial_free"})
                      <= FreeTierCount
    BY DEF FreeAllowanceKept
  <2> DEFINE A == {v \in Admitted : agent[v] = w /\ entrySource[v] = "initial_free"}
             f == [v \in A |-> CHOOSE n \in FreeNumbers : freeUsedBy[w][n] = v]
  <2>1. ASSUME NEW v \in A PROVE f[v] \in FreeNumbers /\ freeUsedBy[w][f[v]] = v
    BY <2>1 DEF IndInv, FreeNumbersSound
  <2>2. f \in Injection(A, FreeNumbers)
    <3>1. f \in [A -> FreeNumbers]
      BY <2>1
    <3>2. ASSUME NEW u \in A, NEW v \in A, f[u] = f[v] PROVE u = v
      <4>1. freeUsedBy[w][f[u]] = u /\ freeUsedBy[w][f[v]] = v
        BY <2>1
      <4> HIDE DEF f
      <4> QED BY <3>2, <4>1
    <3> HIDE DEF f
    <3> QED BY <3>1, <3>2 DEF Injection, IsInjective
  <2>3. IsFiniteSet(FreeNumbers) /\ Cardinality(FreeNumbers) = FreeTierCount
    BY FS_Interval, BoundsAssumption DEF FreeNumbers
  <2> QED BY <2>2, <2>3, FS_Injection
<1> QED BY <1>1, InvCorrect, PTL

-----------------------------------------------------------------------------
(***************************************************************************)
(* The refinement of AtomicAdmission.                                      *)
(***************************************************************************)

\* The instance counts as this module does.
LEMMA SameCount == \A S : Books!Cardinality(S) = Cardinality(S)
  BY DEF Books!Cardinality, Cardinality

\* A wallet with an unused number has used less than its allowance.
LEMMA UnusedLeavesRoom ==
  ASSUME IndInv, NEW w \in Wallets, FreeUnused(w) # {}
  PROVE  Cardinality({v \in FreeHolders : agent[v] = w}) < FreeTierCount
<1>1. PICK m \in FreeNumbers : freeUsedBy[w][m] = Null
  BY DEF FreeUnused
<1> DEFINE A == {v \in FreeHolders : agent[v] = w}
           N == FreeNumbers \ {m}
           f == [v \in A |-> CHOOSE n \in N : freeUsedBy[w][n] = v]
<1>2. ASSUME NEW v \in A PROVE f[v] \in N /\ freeUsedBy[w][f[v]] = v
  <2>1. v \in Verifies /\ v # Null
    BY NullAssumption DEF FreeHolders
  <2>2. PICK x \in Wallets, n \in FreeNumbers : freeUsedBy[x][n] = v
    BY DEF FreeHolders
  <2>3. x = w
    BY <2>1, <2>2 DEF IndInv, FreeNumbersSound
  <2>4. n \in N /\ freeUsedBy[w][n] = v
    BY <1>1, <2>1, <2>2, <2>3
  <2> QED BY <2>4
<1>3. f \in Injection(A, N)
  <2>1. f \in [A -> N]
    BY <1>2
  <2>2. ASSUME NEW u \in A, NEW v \in A, f[u] = f[v] PROVE u = v
    <3>1. freeUsedBy[w][f[u]] = u /\ freeUsedBy[w][f[v]] = v
      BY <1>2
    <3> HIDE DEF f
    <3> QED BY <2>2, <3>1
  <2> HIDE DEF f
  <2> QED BY <2>1, <2>2 DEF Injection, IsInjective
<1>4. IsFiniteSet(FreeNumbers) /\ Cardinality(FreeNumbers) = FreeTierCount
  BY FS_Interval, BoundsAssumption DEF FreeNumbers
<1>5. IsFiniteSet(N) /\ Cardinality(N) = FreeTierCount - 1
  BY <1>1, <1>4, FS_RemoveElement
<1>6. Cardinality(A) <= Cardinality(N) /\ IsFiniteSet(A)
  BY <1>3, <1>5, FS_Injection
<1>7. Cardinality(A) \in Nat
  BY <1>6, FS_CardinalityType
<1> QED BY <1>5, <1>6, <1>7, BoundsAssumption

LEMMA InitAdmits == Init => Books!Init
  BY NullAssumption DEF Init, Books!Init, FreeHolders

\* A creation is the admission, by one of its three ways.
LEMMA CreateAdmits ==
  ASSUME IndInv, Create
  PROVE  Books!Next
<1>1. PICK v \in Verifies, w \in Wallets :
        \/ \E q \in Terms : CreatePaid(v, w, q)
        \/ CreateFree(v, w)
        \/ \E q \in Terms : CreateOnCredit(v, w, q)
  BY DEF Create
<1>2. ASSUME NEW from, NEW st, NEW q, InsertRow(v, w, from, st, q)
      PROVE  Books!Insert(v, w, st, from)
  BY <1>2 DEF InsertRow, ActiveChains, Live, Books!Insert, Books!Active, Books!Waiting,
              Books!Queued
<1>3. ASSUME NEW q \in Terms, CreatePaid(v, w, q) PROVE Books!AdmitPaid(v, w)
  BY <1>2, <1>3 DEF CreatePaid, creditVars, FreeHolders, Books!AdmitPaid
<1>4. ASSUME CreateFree(v, w) PROVE Books!AdmitFree(v, w)
  <2>1. FreeHolders' = FreeHolders \cup {v}
    <3>1. PICK n \in FreeNumbers : /\ freeUsedBy[w][n] = Null
                                   /\ freeUsedBy' = [freeUsedBy EXCEPT ![w][n] = v]
      BY <1>4 DEF CreateFree, FreeUnused
    <3>2. \A x \in Wallets, k \in FreeNumbers :
            freeUsedBy'[x][k] = IF x = w /\ k = n THEN v ELSE freeUsedBy[x][k]
      BY <3>1 DEF IndInv, TypeOK, CreditTypes
    <3> QED BY <3>1, <3>2, NullAssumption DEF FreeHolders
  <2>2. Books!Cardinality(Books!FreeUsed(w)) < FreeTierCount
    BY <1>4, UnusedLeavesRoom, SameCount DEF CreateFree, Books!FreeUsed
  <2> QED BY <1>2, <1>4, <2>1, <2>2 DEF CreateFree, Books!AdmitFree
<1>5. ASSUME NEW q \in Terms, CreateOnCredit(v, w, q)
      PROVE  \E c \in Verifies : Books!AdmitOnCredit(v, w, c)
  <2>1. PICK c \in OpenCredits(w) : creditUsedBy' = [creditUsedBy EXCEPT ![c] = v]
    BY <1>5 DEF CreateOnCredit
  <2>2. c \in Verifies /\ c \in Books!OpenCredits(w)
    BY DEF OpenCredits, Books!OpenCredits, IndInv, TypeOK, CreditTypes
  <2>3. UNCHANGED <<FreeHolders, granted>>
    BY <1>5 DEF CreateOnCredit, FreeHolders
  <2> QED BY <1>2, <1>5, <2>1, <2>2, <2>3 DEF CreateOnCredit, Books!AdmitOnCredit
<1> QED BY <1>1, <1>3, <1>4, <1>5 DEF Books!Next

\* A settlement admits its waiting chain; replays and unlocks change no books.
LEMMA ApplyAdmits ==
  ASSUME IndInv, NEW t \in Txs, ApplySettlement(t), journal[t] # "none"
  PROVE  [Books!Next]_(Books!books)
<1>1. payFor[t] \in Verifies
  BY NullAssumption DEF IndInv, TypeOK, JournalTypes, JournalSound
<1>2. UNCHANGED <<agent, entrySource, granted, creditUsedBy, FreeHolders>>
  BY DEF ApplySettlement, creditVars, FreeHolders
<1>3. CASE UNCHANGED status
  BY <1>2, <1>3 DEF Books!books
<1>4. CASE ~UNCHANGED status
  <2>1. /\ status[payFor[t]] = "admission_pending"
        /\ status' = [status EXCEPT ![payFor[t]] = "pending"]
    BY <1>4 DEF ApplySettlement, ApplyEntry, ApplyUnlock, EntryApplicable
  <2>2. Books!Settle(payFor[t])
    BY <1>1, <1>2, <2>1 DEF Books!Settle, Books!Waiting
  <2> QED BY <1>1, <2>2 DEF Books!Next
<1> QED BY <1>3, <1>4

\* One pass over every stale chain is one Lapse.
LEMMA ExpiryAdmits ==
  ASSUME IndInv, ExpireStale
  PROVE  Books!Next
<1>1. Abandoned \in SUBSET Books!Waiting /\ Overdue \in SUBSET Books!Queued
  BY DEF Abandoned, Overdue, Books!Waiting, Books!Queued
<1>2. \A v \in Overdue : v \in Verifies /\ v # Null
  BY NullAssumption DEF Overdue
<1>3. creditUsedBy' = [c \in Verifies |-> IF creditUsedBy[c] \in Overdue
                                          THEN Null ELSE creditUsedBy[c]]
  <2>1. \A c \in Verifies : creditUsedBy[c] \in Overdue <=> creditUsedBy[c] \in Released
    BY <1>2 DEF Released, CreditEarners, IndInv, CreditsSound
  <2> QED BY <2>1 DEF ExpireStale
<1>4. FreeHolders' = FreeHolders \ Overdue
  <2>1. \A w \in Wallets, n \in FreeNumbers :
          /\ freeUsedBy[w][n] \in Overdue <=> freeUsedBy[w][n] \in Released
          /\ freeUsedBy'[w][n] = IF freeUsedBy[w][n] \in Released THEN Null
                                 ELSE freeUsedBy[w][n]
    BY <1>2 DEF Released, CreditEarners, ExpireStale, IndInv, FreeNumbersSound
  <2> QED BY <2>1, NullAssumption DEF FreeHolders
<1>5. Books!Lapse(Abandoned, Overdue)
  BY <1>3, <1>4 DEF ExpireStale, StatusAfterPass, CreditEarners, Books!Lapse
<1> QED BY <1>1, <1>5 DEF Books!Next

LEMMA StepAdmits ==
  ASSUME IndInv, [Next]_vars
  PROVE  [Books!Next]_(Books!books)
<1>1. ASSUME NEW v \in Verifies, Answer(v) PROVE Books!Next
  <2>1. Books!Answer(v)
    BY <1>1 DEF Answer, Answerable, creditVars, FreeHolders, Books!Answer, Books!Queued
  <2> QED BY <2>1 DEF Books!Next
<1>2. ASSUME NEW t \in Txs, ApplyReport(t) \/ Reconcile(t)
      PROVE  [Books!Next]_(Books!books)
  BY <1>2, ApplyAdmits DEF ApplyReport, Reconcile, IndInv, JournalSound
<1>3. ASSUME \/ \E v \in Verifies : UnlockFree(v)
             \/ \E t \in Txs, v \in Verifies, kind \in {"entry", "unlock"} : Settle(t, v, kind)
             \/ \E t \in Txs : JournalReport(t) \/ ReportFails(t) \/ ReconcileFails(t)
             \/ SelectUnapplied \/ CoreCrash \/ Tick \/ UNCHANGED vars
      PROVE  UNCHANGED Books!books
  <2>1. UNCHANGED <<status, agent, entrySource, granted, creditUsedBy, freeUsedBy>>
    BY <1>3 DEF UnlockFree, Settle, JournalReport, ReportFails, ReconcileFails,
                SelectUnapplied, CoreCrash, Tick, vars, rowVars, creditVars
  <2> QED BY <2>1 DEF Books!books, FreeHolders
<1> QED BY <1>1, <1>2, <1>3, CreateAdmits, ExpiryAdmits DEF Next, ChainStep, TxStep

(***************************************************************************)
(* Every admission of the life cycle is one step on the books, and so is   *)
(* what ends it: the specification that Admission implements under         *)
(* concurrent requests holds of the rest of the core as well.              *)
(***************************************************************************)
THEOREM AsIfAtomic == Spec => AdmitsAtomically
<1> QED BY InitAdmits, StepAdmits, InvCorrect, PTL DEF Spec, AdmitsAtomically, Books!Spec

-----------------------------------------------------------------------------
(***************************************************************************)
(* The refinement of PaidGates.                                            *)
(***************************************************************************)

\* What the gates are made of.
LEMMA GatesFrame ==
  ASSUME UNCHANGED <<status, entrySource, payVars, gateVars>>
  PROVE  UNCHANGED Gates!gates
  BY DEF payVars, gateVars, Gates!gates, Gates!rows, Gates!charges, Gates!opened, SourceOf

LEMMA InitOpens == Init => Gates!Init
  BY DEF Init, Gates!Init, SourceOf

LEMMA CreateOpens ==
  ASSUME IndInv, Create
  PROVE  Gates!Next
<1>1. PICK v \in Verifies, w \in Wallets :
        \/ \E q \in Terms : CreatePaid(v, w, q)
        \/ CreateFree(v, w)
        \/ \E q \in Terms : CreateOnCredit(v, w, q)
  BY DEF Create
<1>2. ASSUME NEW from \in {"x402", "initial_free", "failure_credit"}, NEW q,
             InsertRow(v, w, from, IF from = "x402" THEN "admission_pending" ELSE "pending", q)
      PROVE  \E src \in {"x402", "credit", "free"} : Gates!Admit(v, src)
  <2> DEFINE src == IF from = "initial_free" THEN "free"
                    ELSE IF from = "failure_credit" THEN "credit" ELSE from
  <2>1. UNCHANGED <<payVars, gateVars>>
    BY <1>2 DEF InsertRow
  <2>2. [u \in Verifies |-> SourceOf(u)]' = [[u \in Verifies |-> SourceOf(u)] EXCEPT ![v] = src]
    BY <1>2 DEF InsertRow, SourceOf, IndInv, TypeOK, RowTypes
  <2>3. src \in {"x402", "credit", "free"} /\ (src = "x402" <=> from = "x402")
    OBVIOUS
  <2>4. Gates!Admit(v, src)
    BY <1>2, <2>1, <2>2, <2>3
    DEF InsertRow, Gates!Admit, Gates!charges, Gates!opened, payVars, gateVars
  <2> QED BY <2>3, <2>4
<1>3. ASSUME NEW q \in Terms, CreatePaid(v, w, q)
      PROVE  \E src \in {"x402", "credit", "free"} : Gates!Admit(v, src)
  BY <1>2, <1>3 DEF CreatePaid
<1>4. ASSUME CreateFree(v, w) PROVE \E src \in {"x402", "credit", "free"} : Gates!Admit(v, src)
  BY <1>2, <1>4 DEF CreateFree
<1>5. ASSUME NEW q \in Terms, CreateOnCredit(v, w, q)
      PROVE  \E src \in {"x402", "credit", "free"} : Gates!Admit(v, src)
  BY <1>2, <1>5 DEF CreateOnCredit
<1> QED BY <1>1, <1>3, <1>4, <1>5 DEF Gates!Next

\* The facilitator charges what is due, the entry of a chain once.
LEMMA SettleOpens ==
  ASSUME IndInv, NEW t \in Txs, NEW v \in Verifies, NEW kind \in {"entry", "unlock"},
         Settle(t, v, kind)
  PROVE  Gates!Charge
<1> USE NullAssumption DEF Settle, IndInv, TypeOK, JournalTypes
<1>1. UNCHANGED <<Gates!rows, Gates!opened>>
  BY DEF rowVars, gateVars, Gates!rows, Gates!opened, SourceOf
<1>2. Gates!Due(v, kind)
  BY DEF Gates!Due, SourceOf, RowTypes
<1>3. /\ payFor[t] = Null /\ payFor'[t] = v /\ payKind'[t] = kind
      /\ \A u \in Txs \ {t} : payFor'[u] = payFor[u] /\ payKind'[u] = payKind[u]
  OBVIOUS
<1>4. ASSUME NEW s \in Txs, NEW u \in Txs,
             payFor[s] = Null, payKind'[s] = "entry", payKind'[u] = "entry",
             payFor'[s] = payFor'[u]
      PROVE  s = u
  <2>1. s = t
    BY <1>3, <1>4 DEF JournalSound
  <2>2. kind = "entry" /\ payFor'[u] = v
    BY <1>3, <1>4, <2>1
  <2>3. \A x \in Txs : ~(payFor[x] = v /\ payKind[x] = "entry")
    BY <2>2
  <2> QED BY <1>3, <1>4, <2>1, <2>2, <2>3
<1>5. payFor' # payFor
  BY <1>3
<1>6. \A u \in Txs :
          \/ payFor'[u] = payFor[u] /\ payKind'[u] = payKind[u]
          \/ payFor[u] = Null /\ payFor'[u] \in Verifies /\ Gates!Due(payFor'[u], payKind'[u])
  BY <1>2, <1>3
<1>7. payFor' \in [Txs -> Verifies \cup {Null}] /\ payKind' \in [Txs -> {"none", "entry", "unlock"}]
  OBVIOUS
<1> QED BY ONLY <1>1, <1>4, <1>5, <1>6, <1>7 DEF Gates!Charge

\* A report opens the gate its payment was charged for, the first time.
LEMMA ApplyOpens ==
  ASSUME IndInv, NEW t \in Txs, ApplySettlement(t), journal[t] # "none"
  PROVE  [Gates!Next]_(Gates!gates)
<1>1. PICK v \in Verifies : v = payFor[t]
  BY NullAssumption DEF IndInv, TypeOK, JournalTypes, JournalSound
<1>2. UNCHANGED <<entrySource, payVars>> /\ UNCHANGED [u \in Verifies |-> SourceOf(u)]
  BY DEF ApplySettlement, SourceOf
<1>3. CASE payKind[t] = "entry" /\ ApplyEntry(t)
  <2>1. CASE paymentTx[v] = t
    BY <1>1, <1>2, <1>3, <2>1, GatesFrame DEF ApplyEntry, gateVars
  <2>2. CASE paymentTx[v] # t
    <3>1. Gates!OpenEntry(v)
      BY <1>1, <1>2, <1>3, <2>2
      DEF ApplyEntry, EntryApplicable, Gates!OpenEntry, Gates!charges, payVars
    <3> QED BY <3>1 DEF Gates!Next
  <2> QED BY <2>1, <2>2
<1>4. CASE payKind[t] = "unlock" /\ ApplyUnlock(t)
  <2>1. CASE unlockTx[v] = t
    <3>1. resultUnlocked[v] = TRUE /\ t # Null
      BY <1>1, <2>1, NullAssumption DEF IndInv, GatesSound, TypeOK, GateTypes
    <3>2. UNCHANGED <<status, gateVars>>
      BY <1>1, <1>4, <2>1, <3>1 DEF ApplyUnlock, gateVars, IndInv, TypeOK, GateTypes
    <3> QED BY <1>2, <3>2, GatesFrame
  <2>2. CASE unlockTx[v] # t
    <3>1. {u \in Verifies : resultUnlocked[u]}' = {u \in Verifies : resultUnlocked[u]} \cup {v}
      BY <1>1, <1>4 DEF ApplyUnlock, IndInv, TypeOK, GateTypes
    <3>2. Gates!OpenUnlock(v)
      BY <1>1, <1>2, <1>4, <2>2, <3>1
      DEF ApplyUnlock, UnlockApplicable, Gates!OpenUnlock, Gates!rows, Gates!charges, payVars
    <3> QED BY <3>2 DEF Gates!Next
  <2> QED BY <2>1, <2>2
<1> QED BY <1>3, <1>4 DEF ApplySettlement

LEMMA StepOpens ==
  ASSUME IndInv, [Next]_vars
  PROVE  [Gates!Next]_(Gates!gates)
<1>1. ASSUME NEW v \in Verifies, Answer(v) PROVE Gates!Next
  <2>1. Gates!Answer(v)
    BY <1>1 DEF Answer, Answerable, gateVars, payVars, SourceOf, Gates!Answer, Gates!charges,
                Gates!opened
  <2> QED BY <2>1 DEF Gates!Next
<1>2. ASSUME NEW v \in Verifies, UnlockFree(v) PROVE Gates!Next
  <2>1. {u \in Verifies : resultUnlocked[u]}' = {u \in Verifies : resultUnlocked[u]} \cup {v}
    BY <1>2 DEF UnlockFree, IndInv, TypeOK, GateTypes
  <2>2. Gates!OpenFree(v)
    BY <1>2, <2>1 DEF UnlockFree, rowVars, payVars, SourceOf, Gates!OpenFree, Gates!rows,
                      Gates!charges
  <2> QED BY <2>2 DEF Gates!Next
<1>3. ASSUME NEW t \in Txs, ApplyReport(t) \/ Reconcile(t)
      PROVE  [Gates!Next]_(Gates!gates)
  BY <1>3, ApplyOpens DEF ApplyReport, Reconcile, IndInv, JournalSound
<1>4. ASSUME NEW t \in Txs, NEW v \in Verifies, NEW kind \in {"entry", "unlock"},
             Settle(t, v, kind)
      PROVE  Gates!Next
  BY <1>4, SettleOpens DEF Gates!Next
<1>5. ASSUME ExpireStale PROVE Gates!Next
  <2>1. Abandoned \in SUBSET Gates!Waiting /\ Overdue \in SUBSET Gates!Queued
    BY DEF Abandoned, Overdue, Gates!Waiting, Gates!Queued
  <2>2. Gates!Lapse(Abandoned, Overdue)
    BY <1>5 DEF ExpireStale, StatusAfterPass, gateVars, payVars, SourceOf, Gates!Lapse,
                Gates!charges, Gates!opened
  <2> QED BY <2>1, <2>2 DEF Gates!Next
<1>6. ASSUME \/ \E t \in Txs : JournalReport(t) \/ ReportFails(t) \/ ReconcileFails(t)
             \/ SelectUnapplied \/ CoreCrash \/ Tick \/ UNCHANGED vars
      PROVE  UNCHANGED Gates!gates
  BY <1>6, GatesFrame
  DEF JournalReport, ReportFails, ReconcileFails, SelectUnapplied, CoreCrash, Tick, vars, rowVars
<1> QED BY <1>1, <1>2, <1>3, <1>4, <1>5, <1>6, CreateOpens DEF Next, ChainStep, TxStep

(***************************************************************************)
(* The life cycle opens each gate for the payment charged for it, and what *)
(* it takes of verify-api is what PaymentGate does: both implement the     *)
(* same specification.                                                     *)
(***************************************************************************)
THEOREM GatesOpened == Spec => OpensPaidGates
<1> QED BY InitOpens, StepOpens, InvCorrect, PTL DEF Spec, OpensPaidGates, Gates!Spec
=============================================================================

--------------------------- MODULE AdmissionProofs ---------------------------
(***************************************************************************)
(* One live chain per wallet, and admissions that commit as if they were   *)
(* atomic, for any number of requests and wallets.                         *)
(*                                                                         *)
(* The argument is about the advisory lock: a request past TakeLock holds  *)
(* the lock of its wallet, so between its second count and its commit no   *)
(* other request of the wallet commits, and what runs meanwhile without    *)
(* the lock (settlement, answer, expiry, midnight) only ends live rows,    *)
(* frees allowance and mints or releases credits.  The daily budget has no *)
(* such lock; a request that has counted on a place of it holds one of the *)
(* pool's connections until the place is booked, which bounds the excess.  *)
(***************************************************************************)
EXTENDS Admission, FiniteSetTheorems, TLAPS

THEOREM InitInv == Init => IndInv
  BY ParametersAssumption, NullAssumption
  DEF Init, IndInv, TypeOK, OneActivePerWallet, LiveRows, Live, Sources, LockProtects,
      Locked, Inserted, InTx, InFlight, ActiveOf, CreditHeld, AllowanceHeld

\* What the statements of a request read depends on these columns only.
LEMMA ReadsOnly ==
  ASSUME UNCHANGED <<wallet, row, granted, usedBy, freeUse>>, NEW w
  PROVE  /\ ActiveOf(w)' = ActiveOf(w)
         /\ OpenCredits(w)' = OpenCredits(w)
         /\ FreeUsed(w)' = FreeUsed(w)
         /\ LiveRows' = LiveRows
  BY DEF ActiveOf, OpenCredits, FreeUsed, LiveRows

\* The steps before the lock: nothing is held and nothing is taken.
LEMMA UnlockedSteps ==
  ASSUME IndInv, NEW r \in Requests,
         CheckCap(r) \/ CheckEarly(r) \/ ResolveTerms(r) \/ Begin(r)
  PROVE  IndInv'
<1>1. /\ UNCHANGED <<wallet, mode, taken, credit, lock, row, source, ledger>>
      /\ quoted' \in [Requests -> BOOLEAN]
      /\ pc[r] \in {"cap", "early", "terms", "begin"}
      /\ \E p \in {"early", "terms", "begin", "lock", "refused"} : pc' = [pc EXCEPT ![r] = p]
  BY DEF CheckCap, CheckEarly, ResolveTerms, Begin, Goto, IndInv, TypeOK
<1>2. UNCHANGED <<wallet, row, granted, usedBy, freeUse>>
  BY <1>1 DEF ledger
<1>3. TypeOK' /\ OneActivePerWallet'
  BY <1>1, <1>2, ReadsOnly DEF IndInv, TypeOK, OneActivePerWallet, ledger, InFlight, InTx, Locked
<1>4. LockProtects'
  BY <1>1, <1>2, ReadsOnly DEF IndInv, TypeOK, LockProtects, Locked, Inserted
<1>5. CreditHeld' /\ AllowanceHeld'
  BY <1>1, <1>2, ReadsOnly DEF IndInv, TypeOK, CreditHeld, AllowanceHeld
<1> QED BY <1>3, <1>4, <1>5 DEF IndInv

LEMMA TakeLockStep ==
  ASSUME IndInv, NEW r \in Requests, TakeLock(r) PROVE IndInv'
<1>1. UNCHANGED <<wallet, row, granted, usedBy, freeUse>>
  BY DEF TakeLock, ledger
<1>2. TypeOK' /\ OneActivePerWallet'
  BY <1>1, ReadsOnly
  DEF TakeLock, Goto, IndInv, TypeOK, OneActivePerWallet, ledger, InFlight, InTx, Locked
<1>3. LockProtects'
  BY <1>1, ReadsOnly, NullAssumption
  DEF TakeLock, Goto, IndInv, TypeOK, LockProtects, Locked, Inserted
<1>4. CreditHeld' /\ AllowanceHeld'
  BY <1>1, ReadsOnly DEF TakeLock, Goto, IndInv, TypeOK, CreditHeld, AllowanceHeld
<1> QED BY <1>2, <1>3, <1>4 DEF IndInv

\* A rollback gives up the lock; nobody else of the wallet was behind it.
LEMMA AbortStep ==
  ASSUME IndInv, NEW r \in Requests, pc[r] \in Locked, Abort(r) PROVE IndInv'
<1>1. UNCHANGED <<wallet, row, granted, usedBy, freeUse>>
  BY DEF Abort, ledger
<1>2. TypeOK' /\ OneActivePerWallet'
  BY <1>1, ReadsOnly
  DEF Abort, Goto, IndInv, TypeOK, OneActivePerWallet, ledger, InFlight, InTx, Locked, Sources
<1>3. LockProtects'
  <2>1. \A q \in Requests \ {r} : pc[q] \in Locked => wallet[q] # wallet[r]
    BY DEF IndInv, LockProtects
  <2> QED BY <1>1, <2>1, ReadsOnly
          DEF Abort, Goto, IndInv, TypeOK, LockProtects, Locked, Inserted
<1>4. CreditHeld' /\ AllowanceHeld'
  BY <1>1, ReadsOnly DEF Abort, Goto, IndInv, TypeOK, CreditHeld, AllowanceHeld, Locked
<1> QED BY <1>2, <1>3, <1>4 DEF IndInv

\* The steps under the lock that read and decide, each from what it has read.
LEMMA LockedSteps ==
  ASSUME IndInv, NEW r \in Requests,
         Recheck(r) \/ CountFree(r) \/ CountBudget(r) \/ TakeCredit(r) \/ Route(r)
  PROVE  IndInv'
<1>0. CASE Abort(r)
  <2>1. pc[r] \in Locked
    BY DEF Recheck, CountFree, CountBudget, TakeCredit, Route, Locked
  <2> QED BY <1>0, <2>1, AbortStep
<1>1. CASE ~Abort(r)
  <2>1. /\ UNCHANGED <<wallet, mode, quoted, lock, row, source, ledger>>
        /\ pc[r] \in {"recheck", "free", "budget", "credit", "route"}
        /\ \E p \in {"free", "budget", "credit", "route", "commit"} :
              pc' = [pc EXCEPT ![r] = p]
        /\ \E s \in Sources : taken' = [taken EXCEPT ![r] = s]
        /\ \E c \in Requests \cup {Null} : credit' = [credit EXCEPT ![r] = c]
    <3>1. CASE Recheck(r)
      BY <1>1, <3>1 DEF Recheck, Goto, IndInv, TypeOK, Sources
    <3>2. CASE CountFree(r)
      BY <3>2 DEF CountFree, Goto, IndInv, TypeOK, Sources
    <3>3. CASE CountBudget(r)
      BY <3>3 DEF CountBudget, Goto, IndInv, TypeOK, Sources
    <3>4. CASE TakeCredit(r)
      BY <1>1, <3>4 DEF TakeCredit, Goto, IndInv, TypeOK, Sources, OpenCredits
    <3>5. CASE Route(r)
      BY <1>1, <3>5 DEF Route, Goto, IndInv, TypeOK, Sources
    <3> QED BY <3>1, <3>2, <3>3, <3>4, <3>5
  <2>2. UNCHANGED <<wallet, row, granted, usedBy, freeUse>>
    BY <2>1 DEF ledger
  <2>3. TypeOK' /\ OneActivePerWallet'
    BY <2>1, <2>2, ReadsOnly
    DEF IndInv, TypeOK, OneActivePerWallet, ledger, InFlight, InTx, Locked
  <2>4. LockProtects'
    <3>1. pc[r] \in Locked /\ pc'[r] \in Inserted
      BY <2>1 DEF IndInv, TypeOK, Locked, Inserted
    <3>2. ActiveOf(wallet[r]) = {}
      BY <1>1, <2>1 DEF Recheck, CountFree, CountBudget, TakeCredit, Route, IndInv,
                        LockProtects, Inserted, Locked
    <3> QED BY <2>1, <2>2, <3>1, <3>2, ReadsOnly
            DEF IndInv, TypeOK, LockProtects, Inserted, Locked
  <2>5. CreditHeld'
    <3>1. pc'[r] \in {"route", "commit"} /\ (credit'[r] # Null \/ taken'[r] = "failure_credit")
            => credit'[r] \in OpenCredits(wallet[r])
      <4>1. CASE Recheck(r)
        BY <1>1, <2>1, <4>1 DEF Recheck, Goto, IndInv, TypeOK, CreditHeld
      <4>2. CASE CountFree(r)
        BY <1>1, <2>1, <4>2 DEF CountFree, Goto, IndInv, TypeOK, CreditHeld
      <4>3. CASE CountBudget(r)
        BY <1>1, <2>1, <4>3 DEF CountBudget, Goto, IndInv, TypeOK, CreditHeld
      <4>4. CASE TakeCredit(r)
        BY <1>1, <2>1, <4>4 DEF TakeCredit, Goto, IndInv, TypeOK, CreditHeld
      <4>5. CASE Route(r)
        BY <1>1, <2>1, <4>5 DEF Route, Goto, IndInv, TypeOK, CreditHeld
      <4> QED BY <4>1, <4>2, <4>3, <4>4, <4>5
    <3>2. pc'[r] \notin {"route", "commit", "done"} => credit'[r] = Null /\ taken'[r] = "none"
      <4>1. CASE Recheck(r)
        BY <1>1, <2>1, <4>1 DEF Recheck, Goto, IndInv, TypeOK, CreditHeld
      <4>2. CASE CountFree(r)
        BY <1>1, <2>1, <4>2 DEF CountFree, Goto, IndInv, TypeOK, CreditHeld
      <4>3. CASE CountBudget(r)
        BY <1>1, <2>1, <4>3 DEF CountBudget, Goto, IndInv, TypeOK, CreditHeld
      <4>4. CASE TakeCredit(r)
        BY <1>1, <2>1, <4>4 DEF TakeCredit, Goto, IndInv, TypeOK, CreditHeld
      <4>5. CASE Route(r)
        BY <1>1, <2>1, <4>5 DEF Route, Goto, IndInv, TypeOK, CreditHeld
      <4> QED BY <4>1, <4>2, <4>3, <4>4, <4>5
    <3> QED BY <2>1, <2>2, <3>1, <3>2, ReadsOnly DEF IndInv, TypeOK, CreditHeld
  <2>6. AllowanceHeld'
    <3>1. pc'[r] = "budget" \/ (pc'[r] \in {"route", "commit"} /\ taken'[r] = "initial_free")
            => Cardinality(FreeUsed(wallet[r])) < FreeTierCount
      <4>1. CASE Recheck(r)
        BY <1>1, <2>1, <4>1 DEF Recheck, Goto, IndInv, TypeOK, CreditHeld, AllowanceHeld
      <4>2. CASE CountFree(r)
        BY <1>1, <2>1, <4>2 DEF CountFree, Goto, IndInv, TypeOK, CreditHeld, AllowanceHeld
      <4>3. CASE CountBudget(r)
        BY <1>1, <2>1, <4>3 DEF CountBudget, Goto, IndInv, TypeOK, CreditHeld, AllowanceHeld
      <4>4. CASE TakeCredit(r)
        BY <1>1, <2>1, <4>4 DEF TakeCredit, Goto, IndInv, TypeOK, CreditHeld, AllowanceHeld
      <4>5. CASE Route(r)
        BY <1>1, <2>1, <4>5 DEF Route, Goto, IndInv, TypeOK, CreditHeld, AllowanceHeld
      <4> QED BY <4>1, <4>2, <4>3, <4>4, <4>5
    <3> QED BY <2>1, <2>2, <3>1, ReadsOnly DEF IndInv, TypeOK, AllowanceHeld
  <2> QED BY <2>3, <2>4, <2>5, <2>6 DEF IndInv
<1> QED BY <1>0, <1>1

\* The commit adds one live row to a wallet that had none; the others of the
\* wallet are not behind the lock, so they have counted nothing yet.
LEMMA CommitStep ==
  ASSUME IndInv, NEW r \in Requests, Commit(r) PROVE IndInv'
<1>1. /\ wallet[r] \in Wallets /\ lock[wallet[r]] = r /\ ActiveOf(wallet[r]) = {}
      /\ row[r] = "none" /\ pc[r] = "commit"
  BY DEF Commit, IndInv, LockProtects, Locked, Inserted
<1>2. \A q \in Requests \ {r} : pc[q] \in Locked => wallet[q] # wallet[r]
  BY <1>1 DEF IndInv, LockProtects
<1>3. TypeOK'
  BY <1>1 DEF Commit, Goto, IndInv, TypeOK, Live, Sources
<1>4. OneActivePerWallet'
  BY <1>1 DEF Commit, IndInv, TypeOK, OneActivePerWallet, LiveRows, ActiveOf
<1>5. LockProtects'
  <2> SUFFICES ASSUME NEW q \in Requests
               PROVE  /\ pc'[q] # "idle" => wallet'[q] \in Wallets
                      /\ pc'[q] # "done" => row'[q] = "none"
                      /\ pc'[q] \in Locked => lock'[wallet'[q]] = q
                      /\ pc'[q] \in Inserted => ActiveOf(wallet[q])' = {}
    BY DEF LockProtects, Commit
  <2>1. CASE q = r
    BY <1>1, <2>1 DEF Commit, Goto, IndInv, TypeOK, Locked, Inserted
  <2>2. CASE q # r
    <3>1. pc'[q] \in Inserted => wallet[q] # wallet[r] /\ ActiveOf(wallet[q]) = {}
      BY <1>2, <2>2 DEF Commit, Goto, IndInv, TypeOK, LockProtects, Locked, Inserted
    <3>2. wallet[q] # wallet[r] => ActiveOf(wallet[q])' = ActiveOf(wallet[q])
      BY DEF Commit, ActiveOf, LiveRows, IndInv, TypeOK
    <3> QED BY <1>1, <1>2, <2>2, <3>1, <3>2
            DEF Commit, Goto, IndInv, TypeOK, LockProtects
  <2> QED BY <2>1, <2>2
<1>6. CreditHeld'
  <2>1. credit[r] # Null => credit[r] \in OpenCredits(wallet[r])
    BY <1>1 DEF IndInv, CreditHeld
  <2>2. \A c \in granted' : row'[c] = "expired"
    BY <1>1 DEF Commit, IndInv, TypeOK, CreditHeld
  <2>3. ASSUME NEW q \in Requests,
               pc'[q] \in {"route", "commit"},
               credit'[q] # Null \/ taken'[q] = "failure_credit"
        PROVE  credit'[q] \in OpenCredits(wallet[q])'
    <3>1. q # r /\ pc[q] \in {"route", "commit"} /\ wallet[q] # wallet[r]
      BY <1>2, <2>3 DEF Commit, Goto, IndInv, TypeOK, Locked
    <3>2. credit[q] \in OpenCredits(wallet[q])
      BY <2>3, <3>1 DEF Commit, IndInv, CreditHeld
    <3>3. credit[q] # credit[r]
      BY <2>1, <3>1, <3>2, NullAssumption DEF OpenCredits, IndInv, TypeOK
    <3> QED BY <3>2, <3>3 DEF Commit, OpenCredits, IndInv, TypeOK
  <2> QED BY <2>2, <2>3, <1>1 DEF Commit, Goto, IndInv, TypeOK, CreditHeld
<1>7. AllowanceHeld'
  <2>1. ASSUME NEW q \in Requests,
               pc'[q] = "budget" \/ (pc'[q] \in {"route", "commit"} /\ taken'[q] = "initial_free")
        PROVE  Cardinality(FreeUsed(wallet[q])') < FreeTierCount
    <3>1. q # r /\ wallet[q] # wallet[r]
      BY <1>2, <2>1 DEF Commit, Goto, IndInv, TypeOK, Locked
    <3>2. FreeUsed(wallet[q])' = FreeUsed(wallet[q])
      BY <3>1 DEF Commit, FreeUsed, IndInv, TypeOK
    <3> QED BY <2>1, <3>1, <3>2 DEF Commit, Goto, IndInv, TypeOK, AllowanceHeld
  <2>2. \A q \in freeUse' : pc'[q] = "done"
    BY DEF Commit, Goto, IndInv, TypeOK, AllowanceHeld
  <2> QED BY <2>1, <2>2 DEF AllowanceHeld
<1> QED BY <1>3, <1>4, <1>5, <1>6, <1>7 DEF IndInv

LEMMA ArriveStep ==
  ASSUME IndInv, NEW r \in Requests, NEW w \in Wallets, NEW m \in {"x402", "entitlement"},
         Arrive(r, w, m)
  PROVE  IndInv'
<1>1. row[r] = "none"
  BY DEF Arrive, IndInv, LockProtects
<1>2. \A x \in Wallets : ActiveOf(x)' = ActiveOf(x)
  BY <1>1 DEF Arrive, ActiveOf, LiveRows, Live, IndInv, TypeOK
<1>3. TypeOK'
  BY DEF Arrive, Goto, IndInv, TypeOK, InFlight, ledger
<1>4. OneActivePerWallet'
  BY <1>1 DEF Arrive, IndInv, TypeOK, OneActivePerWallet, LiveRows, Live
<1>5. LockProtects'
  BY <1>1, <1>2 DEF Arrive, Goto, IndInv, TypeOK, LockProtects, Locked, Inserted
<1>6. CreditHeld'
  <2>1. r \notin granted
    BY <1>1 DEF IndInv, CreditHeld
  <2> QED BY <2>1 DEF Arrive, Goto, IndInv, TypeOK, CreditHeld, OpenCredits, ledger
<1>7. AllowanceHeld'
  <2>1. r \notin freeUse
    BY DEF Arrive, IndInv, AllowanceHeld
  <2>2. UNCHANGED freeUse /\ \A q \in freeUse : wallet'[q] = wallet[q] /\ pc'[q] = pc[q]
    BY <2>1 DEF Arrive, Goto, IndInv, TypeOK, ledger
  <2>3. \A x : FreeUsed(x)' = FreeUsed(x)
    BY <2>2 DEF FreeUsed
  <2> QED BY <2>2, <2>3 DEF Arrive, Goto, IndInv, TypeOK, AllowanceHeld
<1> QED BY <1>3, <1>4, <1>5, <1>6, <1>7 DEF IndInv

\* Settlement, answer, abandonment and expiry: a live row stays the same
\* wallet's only one or ends.
LEMMA MeanwhileStep ==
  ASSUME IndInv, NEW r \in Requests, Meanwhile(r) PROVE IndInv'
<1>1. /\ row[r] \in Live
      /\ \E s \in {"pending", "answered", "failed", "expired"} : row' = [row EXCEPT ![r] = s]
      /\ freeUse' \subseteq freeUse /\ spentToday' \subseteq freeUse'
      /\ granted' \subseteq granted \cup {r} /\ granted \subseteq granted'
      /\ r \in granted' /\ r \notin granted => row'[r] = "expired"
      /\ \A c \in Requests : usedBy'[c] = usedBy[c] \/ usedBy'[c] = Null
      /\ usedBy' \in [Requests -> Requests \cup {Null}]
      /\ UNCHANGED <<request, lock, source>>
  BY DEF Meanwhile, Settled, Answered, Abandoned, Expired, ledger, Live, IndInv, TypeOK
<1>2. \A w : ActiveOf(w)' \subseteq ActiveOf(w)
  BY <1>1 DEF ActiveOf, LiveRows, Live, request, IndInv, TypeOK
<1>3. TypeOK'
  <2>1. UNCHANGED <<pc, wallet, mode, quoted, taken, credit, lock, source>>
    BY <1>1 DEF request
  <2>2. row' \in [Requests -> {"none", "answered", "expired", "failed"} \cup Live]
    BY <1>1 DEF IndInv, TypeOK, Live
  <2> QED BY <1>1, <2>1, <2>2 DEF IndInv, TypeOK
<1>4. OneActivePerWallet'
  BY <1>1 DEF IndInv, TypeOK, OneActivePerWallet, LiveRows, Live, request
<1>5. LockProtects'
  BY <1>1, <1>2 DEF IndInv, TypeOK, LockProtects, Live, request
<1>6. CreditHeld'
  <2>1. r \notin granted
    BY <1>1 DEF IndInv, CreditHeld, Live
  <2>2. \A w : OpenCredits(w) \subseteq OpenCredits(w)'
    BY <1>1 DEF OpenCredits, request, IndInv, TypeOK
  <2> QED BY <1>1, <2>1, <2>2 DEF IndInv, TypeOK, CreditHeld, request
<1>7. AllowanceHeld'
  <2>1. ASSUME NEW w PROVE Cardinality(FreeUsed(w)') <= Cardinality(FreeUsed(w))
    <3>1. FreeUsed(w)' \subseteq FreeUsed(w) /\ FreeUsed(w) \subseteq Requests
      BY <1>1 DEF FreeUsed, request, IndInv, TypeOK
    <3>2. IsFiniteSet(FreeUsed(w))
      BY <3>1, ParametersAssumption, FS_Subset
    <3> QED BY <3>1, <3>2, FS_Subset
  <2>2. \A w : Cardinality(FreeUsed(w)) \in Nat /\ Cardinality(FreeUsed(w)') \in Nat
    <3> SUFFICES ASSUME NEW w
                 PROVE  Cardinality(FreeUsed(w)) \in Nat /\ Cardinality(FreeUsed(w)') \in Nat
      OBVIOUS
    <3>1. FreeUsed(w)' \subseteq Requests /\ FreeUsed(w) \subseteq Requests
      BY <1>1 DEF FreeUsed, request, IndInv, TypeOK
    <3> QED BY <3>1, ParametersAssumption, FS_Subset, FS_CardinalityType
  <2>3. UNCHANGED <<pc, taken, wallet>>
    BY <1>1 DEF request
  <2>4. ASSUME NEW q \in Requests, Cardinality(FreeUsed(wallet[q])) < FreeTierCount
        PROVE  Cardinality(FreeUsed(wallet[q])') < FreeTierCount
    <3>1. wallet'[q] = wallet[q]
      BY <2>3
    <3> QED BY <2>1, <2>2, <2>4, <3>1, ParametersAssumption
  <2>5. \A q \in freeUse' : q \in freeUse
    BY <1>1
  <2> QED BY <2>3, <2>4, <2>5 DEF IndInv, AllowanceHeld
<1> QED BY <1>3, <1>4, <1>5, <1>6, <1>7 DEF IndInv

\* A restart: PostgreSQL rolls back what was in flight.
LEMMA CrashStep ==
  ASSUME IndInv, Crash PROVE IndInv'
<1>1. UNCHANGED <<wallet, row, granted, usedBy, freeUse>>
  BY DEF Crash, ledger
<1>2. TypeOK' /\ OneActivePerWallet'
  BY <1>1, ReadsOnly DEF Crash, IndInv, TypeOK, OneActivePerWallet, ledger, Sources
<1>3. LockProtects' /\ CreditHeld' /\ AllowanceHeld'
  BY <1>1, ReadsOnly
  DEF Crash, IndInv, TypeOK, LockProtects, CreditHeld, AllowanceHeld, InFlight, InTx,
      Locked, Inserted
<1> QED BY <1>2, <1>3 DEF IndInv

LEMMA MidnightStep ==
  ASSUME IndInv, Midnight PROVE IndInv'
<1>1. UNCHANGED <<wallet, row, granted, usedBy, freeUse>>
  BY DEF Midnight, request
<1> QED BY <1>1, ReadsOnly
        DEF Midnight, request, IndInv, TypeOK, OneActivePerWallet, LockProtects, CreditHeld,
            AllowanceHeld

LEMMA StutterStep ==
  ASSUME IndInv, UNCHANGED vars PROVE IndInv'
<1>1. UNCHANGED <<wallet, row, granted, usedBy, freeUse>>
  BY DEF vars, request, ledger
<1> QED BY <1>1, ReadsOnly
        DEF vars, request, ledger, IndInv, TypeOK, OneActivePerWallet, LockProtects,
            CreditHeld, AllowanceHeld

LEMMA NextInv == IndInv /\ [Next]_vars => IndInv'
<1> SUFFICES ASSUME IndInv, [Next]_vars PROVE IndInv'
  OBVIOUS
<1>1. ASSUME NEW r \in Requests, Step(r) PROVE IndInv'
  BY <1>1, UnlockedSteps, TakeLockStep, LockedSteps, CommitStep DEF Step
<1> QED BY <1>1, ArriveStep, MeanwhileStep, MidnightStep, CrashStep, StutterStep DEF Next

\* In every reachable state the lock protects what the requests have read.
THEOREM InvCorrect == Spec => []IndInv
  BY InitInv, NextInv, PTL DEF Spec

\* Type correctness of the statement-level model.
THEOREM TypeCorrect == Spec => []TypeOK
<1>1. IndInv => TypeOK BY DEF IndInv
<1> QED BY <1>1, InvCorrect, PTL

\* No interleaving of any number of admissions gives a wallet two live chains.
THEOREM OneActive == Spec => []OneActivePerWallet
<1>1. IndInv => OneActivePerWallet BY DEF IndInv
<1> QED BY <1>1, InvCorrect, PTL

\* Cardinalities of the sets that BudgetHeld counts.
LEMMA BudgetSets ==
  ASSUME TypeOK
  PROVE  /\ IsFiniteSet(OpenTx) /\ IsFiniteSet(FreeTaken) /\ IsFiniteSet(spentToday)
         /\ Cardinality(OpenTx) \in Nat /\ Cardinality(FreeTaken) \in Nat
         /\ Cardinality(spentToday) \in Nat
         /\ Cardinality(FreeTaken) <= Cardinality(OpenTx)
<1>1. OpenTx \subseteq Requests /\ FreeTaken \subseteq OpenTx /\ spentToday \subseteq Requests
  BY DEF TypeOK, OpenTx, FreeTaken
<1>2. IsFiniteSet(OpenTx) /\ IsFiniteSet(spentToday)
  BY <1>1, ParametersAssumption, FS_Subset
<1>3. IsFiniteSet(FreeTaken) /\ Cardinality(FreeTaken) <= Cardinality(OpenTx)
  BY <1>1, <1>2, FS_Subset
<1> QED BY <1>2, <1>3, FS_CardinalityType

\* A step that opens no transaction, takes no place and books none.
LEMMA BudgetShrinks ==
  ASSUME TypeOK, BudgetHeld,
         OpenTx' \subseteq OpenTx, FreeTaken' \subseteq FreeTaken,
         spentToday' \subseteq spentToday
  PROVE  BudgetHeld'
<1>1. /\ Cardinality(OpenTx') \in Nat /\ Cardinality(OpenTx') <= Cardinality(OpenTx)
      /\ Cardinality(FreeTaken') \in Nat /\ Cardinality(FreeTaken') <= Cardinality(FreeTaken)
      /\ Cardinality(spentToday') \in Nat /\ Cardinality(spentToday') <= Cardinality(spentToday)
  BY BudgetSets, FS_Subset, FS_CardinalityType
<1> QED BY <1>1, BudgetSets, ParametersAssumption DEF BudgetHeld

\* The place is taken while the budget read is open, and what other requests
\* have taken since is bounded by the connections they hold.
LEMMA BudgetCounted ==
  ASSUME TypeOK, BudgetHeld, NEW r \in Requests, CountBudget(r)
  PROVE  BudgetHeld'
<1>1. UNCHANGED spentToday
  BY DEF CountBudget, ledger
<1>2. CASE BudgetOpen
  <2>1. OpenTx' = OpenTx
    BY <1>2 DEF CountBudget, Goto, OpenTx, TypeOK, InTx, Locked
  <2>2. FreeTaken' \subseteq OpenTx
    BY <2>1 DEF FreeTaken
  <2>3. Cardinality(FreeTaken') \in Nat /\ Cardinality(FreeTaken') <= Cardinality(OpenTx)
    BY <2>2, BudgetSets, FS_Subset, FS_CardinalityType
  <2>4. FreeDailyMax > 0 => Cardinality(spentToday) < FreeDailyMax
    BY <1>2, ParametersAssumption DEF BudgetOpen
  <2> QED BY <1>1, <2>1, <2>3, <2>4, BudgetSets, ParametersAssumption DEF BudgetHeld
<1>3. CASE ~BudgetOpen
  <2>1. OpenTx' \subseteq OpenTx /\ FreeTaken' \subseteq FreeTaken
    BY <1>3 DEF CountBudget, Goto, OpenTx, FreeTaken, TypeOK, InTx, Locked
  <2> QED BY <1>1, <2>1, BudgetShrinks
<1> QED BY <1>2, <1>3

\* A transaction opens on a free connection only.
LEMMA BudgetBegun ==
  ASSUME TypeOK, BudgetHeld, NEW r \in Requests, Begin(r)
  PROVE  BudgetHeld'
<1>1. OpenTx' \subseteq OpenTx \cup {r} /\ FreeTaken' = FreeTaken /\ UNCHANGED spentToday
  BY DEF Begin, Goto, OpenTx, FreeTaken, TypeOK, InTx, Locked, ledger
<1>2. /\ IsFiniteSet(OpenTx \cup {r}) /\ Cardinality(OpenTx \cup {r}) \in Nat
      /\ Cardinality(OpenTx \cup {r}) <= Cardinality(OpenTx) + 1
  <2>1. /\ IsFiniteSet(OpenTx \cup {r})
        /\ Cardinality(OpenTx \cup {r}) =
              IF r \in OpenTx THEN Cardinality(OpenTx) ELSE Cardinality(OpenTx) + 1
    BY BudgetSets, FS_AddElement, Zenon
  <2> QED BY <2>1, BudgetSets
<1>3. Cardinality(OpenTx') \in Nat /\ Cardinality(OpenTx') <= Cardinality(OpenTx \cup {r})
  BY <1>1, <1>2, FS_Subset, FS_CardinalityType
<1>4. Cardinality(OpenTx) < Connections
  BY DEF Begin, ConnectionFree
<1>5. Cardinality(OpenTx') <= Connections
  BY <1>2, <1>3, <1>4, BudgetSets, ParametersAssumption
<1> QED BY <1>1, <1>5 DEF BudgetHeld

\* At the commit a place that was taken becomes one that is booked.
LEMMA BudgetBooked ==
  ASSUME TypeOK, BudgetHeld, NEW r \in Requests, Commit(r)
  PROVE  BudgetHeld'
<1>1. OpenTx' \subseteq OpenTx
  BY DEF Commit, Goto, OpenTx, TypeOK, InTx, Locked
<1>2. CASE taken[r] = "initial_free"
  <2>1. r \in FreeTaken /\ FreeTaken' = FreeTaken \ {r} /\ spentToday' = spentToday \cup {r}
    BY <1>2 DEF Commit, Goto, OpenTx, FreeTaken, TypeOK, InTx, Locked
  <2>2. Cardinality(FreeTaken') = Cardinality(FreeTaken) - 1
    BY <2>1, BudgetSets, FS_RemoveElement
  <2>3. /\ Cardinality(spentToday') \in Nat
        /\ Cardinality(spentToday') <= Cardinality(spentToday) + 1
    <3>1. Cardinality(spentToday \cup {r}) =
             IF r \in spentToday THEN Cardinality(spentToday) ELSE Cardinality(spentToday) + 1
      BY BudgetSets, FS_AddElement, Zenon
    <3> QED BY <2>1, <3>1, BudgetSets
  <2>4. Cardinality(OpenTx') \in Nat /\ Cardinality(OpenTx') <= Cardinality(OpenTx)
    BY <1>1, BudgetSets, FS_Subset, FS_CardinalityType
  <2> QED BY <2>2, <2>3, <2>4, BudgetSets, ParametersAssumption DEF BudgetHeld
<1>3. CASE taken[r] # "initial_free"
  <2>1. FreeTaken' \subseteq FreeTaken /\ spentToday' = spentToday
    BY <1>3 DEF Commit, Goto, OpenTx, FreeTaken, TypeOK, InTx, Locked
  <2> QED BY <1>1, <2>1, BudgetShrinks
<1> QED BY <1>2, <1>3

\* The rest of a request's statements, and what goes on meanwhile.
LEMMA BudgetOthers ==
  ASSUME IndInv, BudgetHeld, [Next]_vars,
         \A r \in Requests : ~CountBudget(r) /\ ~Begin(r) /\ ~Commit(r)
  PROVE  BudgetHeld'
<1> USE DEF Goto, OpenTx, FreeTaken, TypeOK, InTx, Locked, ledger
<1>t. TypeOK
  BY DEF IndInv
<1>1. ASSUME NEW r \in Requests, NEW w \in Wallets, NEW m \in {"x402", "entitlement"},
             Arrive(r, w, m)
      PROVE  BudgetHeld'
  <2>1. OpenTx' \subseteq OpenTx /\ FreeTaken' \subseteq FreeTaken /\ spentToday' = spentToday
    BY <1>t, <1>1 DEF Arrive
  <2> QED BY <1>t, <2>1, BudgetShrinks
<1>2. ASSUME NEW r \in Requests, CheckCap(r) \/ CheckEarly(r) \/ ResolveTerms(r)
      PROVE  BudgetHeld'
  <2>1. OpenTx' \subseteq OpenTx /\ FreeTaken' \subseteq FreeTaken /\ spentToday' = spentToday
    BY <1>t, <1>2 DEF CheckCap, CheckEarly, ResolveTerms
  <2> QED BY <1>t, <2>1, BudgetShrinks
<1>3. ASSUME NEW r \in Requests, TakeLock(r) \/ CountFree(r)
      PROVE  BudgetHeld'
  <2>1. OpenTx' \subseteq OpenTx /\ FreeTaken' \subseteq FreeTaken /\ spentToday' = spentToday
    BY <1>t, <1>3 DEF TakeLock, CountFree
  <2> QED BY <1>t, <2>1, BudgetShrinks
<1>4. ASSUME NEW r \in Requests, Recheck(r) \/ TakeCredit(r) \/ Route(r)
      PROVE  BudgetHeld'
  <2>1. CASE Abort(r)
    <3>1. OpenTx' \subseteq OpenTx /\ FreeTaken' \subseteq FreeTaken /\ spentToday' = spentToday
      BY <1>t, <2>1 DEF Abort
    <3> QED BY <1>t, <3>1, BudgetShrinks
  <2>2. CASE ~Abort(r)
    <3>1. OpenTx' \subseteq OpenTx /\ FreeTaken' \subseteq FreeTaken /\ spentToday' = spentToday
      <4>1. CASE Recheck(r)
        BY <1>t, <2>2, <4>1 DEF Recheck
      <4>2. CASE TakeCredit(r)
        BY <1>t, <2>2, <4>2 DEF TakeCredit
      <4>3. CASE Route(r)
        BY <1>t, <2>2, <4>3 DEF Route
      <4> QED BY <1>4, <4>1, <4>2, <4>3
    <3> QED BY <1>t, <3>1, BudgetShrinks
  <2> QED BY <2>1, <2>2
<1>5. ASSUME NEW r \in Requests, Meanwhile(r)
      PROVE  BudgetHeld'
  <2>1. UNCHANGED <<pc, taken>> /\ spentToday' \subseteq spentToday
    BY <1>5 DEF Meanwhile, Settled, Answered, Abandoned, Expired, request
  <2>2. OpenTx' \subseteq OpenTx /\ FreeTaken' \subseteq FreeTaken
    BY <2>1
  <2> QED BY <1>t, <2>1, <2>2, BudgetShrinks
<1>6. ASSUME Midnight \/ UNCHANGED vars
      PROVE  BudgetHeld'
  <2>1. UNCHANGED <<pc, taken>> /\ spentToday' \subseteq spentToday
    BY <1>6 DEF Midnight, vars, request
  <2>2. OpenTx' \subseteq OpenTx /\ FreeTaken' \subseteq FreeTaken
    BY <2>1
  <2> QED BY <1>t, <2>1, <2>2, BudgetShrinks
<1>7. ASSUME Crash
      PROVE  BudgetHeld'
  <2>1. OpenTx' \subseteq OpenTx /\ FreeTaken' \subseteq FreeTaken /\ spentToday' = spentToday
    BY <1>t, <1>7 DEF Crash, InFlight
  <2> QED BY <1>t, <2>1, BudgetShrinks
<1> QED BY <1>1, <1>2, <1>3, <1>4, <1>5, <1>6, <1>7 DEF Next, Step

\* Nobody is past the budget's count without a connection of the pool.
LEMMA BudgetInv == Spec => []BudgetHeld
<1>1. Init => BudgetHeld
  <2> SUFFICES ASSUME Init PROVE BudgetHeld
    OBVIOUS
  <2>1. OpenTx = {} /\ FreeTaken = {} /\ spentToday = {}
    BY DEF Init, OpenTx, FreeTaken, InTx, Locked
  <2> QED BY <2>1, FS_EmptySet, ParametersAssumption DEF BudgetHeld
<1>2. IndInv /\ BudgetHeld /\ [Next]_vars => BudgetHeld'
  BY BudgetCounted, BudgetBegun, BudgetBooked, BudgetOthers DEF IndInv
<1> QED BY <1>1, <1>2, InvCorrect, PTL DEF Spec

\* However many wallets ask at once, a day's free uses exceed the budget by
\* fewer than the pool has connections.
THEOREM BudgetKept == Spec => []BudgetNearlyKept
<1>1. IndInv /\ BudgetHeld => BudgetNearlyKept
  BY BudgetSets, ParametersAssumption DEF IndInv, BudgetHeld, BudgetNearlyKept
<1> QED BY <1>1, InvCorrect, BudgetInv, PTL

(***************************************************************************)
(* The refinement of AtomicAdmission.                                      *)
(***************************************************************************)

\* Whatever a request has decided on by the time it routes is consistent.
LEMMA FundedInv == Spec => []CommitsFunded
<1>1. Init => CommitsFunded
  BY DEF Init, CommitsFunded
<1>2. IndInv /\ CommitsFunded /\ [Next]_vars => CommitsFunded'
  <2> SUFFICES ASSUME IndInv, CommitsFunded, [Next]_vars PROVE CommitsFunded'
    OBVIOUS
  <2> USE DEF Goto, CommitsFunded
  <2>t. TypeOK /\ CreditHeld
    BY DEF IndInv
  <2>1. ASSUME NEW r \in Requests, NEW w \in Wallets, NEW m \in {"x402", "entitlement"},
               Arrive(r, w, m)
        PROVE  CommitsFunded'
    BY <2>t, <2>1 DEF Arrive, TypeOK
  <2>2. ASSUME NEW r \in Requests,
               CheckCap(r) \/ CheckEarly(r) \/ ResolveTerms(r) \/ Begin(r) \/ TakeLock(r)
        PROVE  CommitsFunded'
    BY <2>t, <2>2 DEF CheckCap, CheckEarly, ResolveTerms, Begin, TakeLock, TypeOK
  <2>3. ASSUME NEW r \in Requests, Abort(r)
        PROVE  CommitsFunded'
    BY <2>t, <2>3 DEF Abort, TypeOK
  <2>4. ASSUME NEW r \in Requests, Recheck(r), ~Abort(r)
        PROVE  CommitsFunded'
    BY <2>t, <2>4 DEF Recheck, TypeOK, CreditHeld
  <2>5. ASSUME NEW r \in Requests, CountFree(r)
        PROVE  CommitsFunded'
    BY <2>t, <2>5 DEF CountFree, TypeOK
  <2>6. ASSUME NEW r \in Requests, CountBudget(r)
        PROVE  CommitsFunded'
    BY <2>t, <2>6 DEF CountBudget, TypeOK, CreditHeld
  <2>7. ASSUME NEW r \in Requests, TakeCredit(r), ~Abort(r)
        PROVE  CommitsFunded'
    BY <2>t, <2>7, NullAssumption DEF TakeCredit, OpenCredits, TypeOK
  <2>8. ASSUME NEW r \in Requests, Route(r), ~Abort(r)
        PROVE  CommitsFunded'
    BY <2>t, <2>8 DEF Route, TypeOK
  <2>9. ASSUME NEW r \in Requests, Commit(r)
        PROVE  CommitsFunded'
    BY <2>t, <2>9 DEF Commit, TypeOK
  <2>10. ASSUME NEW r \in Requests, Meanwhile(r)
         PROVE  CommitsFunded'
    BY <2>t, <2>10 DEF Meanwhile, Settled, Answered, Abandoned, Expired, request, TypeOK
  <2>11. ASSUME Crash PROVE CommitsFunded'
    BY <2>t, <2>11 DEF Crash, InFlight, InTx, Locked
  <2>12. ASSUME Midnight \/ UNCHANGED vars PROVE CommitsFunded'
    BY <2>12 DEF Midnight, vars, request
  <2> QED
    BY <2>1, <2>2, <2>3, <2>4, <2>5, <2>6, <2>7, <2>8, <2>9, <2>10, <2>11, <2>12 DEF Next, Step
<1> QED BY <1>1, <1>2, InvCorrect, PTL DEF Spec

\* A statement reads in the rows what the books say.
LEMMA SameReads ==
  ASSUME IndInv, CommitsFunded, NEW w \in Wallets
  PROVE  /\ Books!Active(w) = ActiveOf(w)
         /\ Books!FreeUsed(w) = FreeUsed(w)
         /\ Books!OpenCredits(w) = OpenCredits(w)
<1>1. freeUse \subseteq Requests /\ granted \subseteq Requests
  BY DEF IndInv, TypeOK
<1>2. \A r \in freeUse \cup granted : row[r] # "none"
  BY <1>1 DEF IndInv, AllowanceHeld, CreditHeld, CommitsFunded
<1>3. \A r \in Requests : row[r] # "none" => OwnerOf(r) = wallet[r]
  BY DEF OwnerOf
<1>4. Books!Active(w) = ActiveOf(w)
  BY <1>3 DEF Books!Active, Books!Waiting, Books!Queued, ActiveOf, LiveRows, Live
<1>5. Books!FreeUsed(w) = FreeUsed(w) /\ Books!OpenCredits(w) = OpenCredits(w)
  BY <1>1, <1>2, <1>3 DEF Books!FreeUsed, FreeUsed, Books!OpenCredits, OpenCredits
<1> QED BY <1>4, <1>5

\* The instance counts as this module does.
LEMMA SameCount == \A S : Books!Cardinality(S) = Cardinality(S)
  BY DEF Books!Cardinality, Cardinality

LEMMA InitAdmits == Init => Books!Init
  BY DEF Init, Books!Init, OwnerOf

\* A step that leaves the rows and the entitlements alone changes no books.
LEMMA BooksFrame ==
  ASSUME IndInv, UNCHANGED <<row, source, freeUse, granted, usedBy>>,
         \A r \in Requests : row[r] # "none" => wallet'[r] = wallet[r]
  PROVE  UNCHANGED Books!books
<1>1. \A r \in Requests : OwnerOf(r)' = OwnerOf(r)
  BY DEF OwnerOf
<1> QED BY <1>1 DEF Books!books

\* The commit is the admission, by one of its three ways.
LEMMA CommitAdmits ==
  ASSUME IndInv, CommitsFunded, NEW r \in Requests, Commit(r)
  PROVE  Books!Next
<1>1. /\ pc[r] = "commit" /\ wallet[r] \in Wallets /\ row[r] = "none"
      /\ ActiveOf(wallet[r]) = {}
  BY DEF Commit, IndInv, LockProtects, Inserted, Locked
<1> DEFINE st == IF taken[r] = "x402" THEN "admission_pending" ELSE "pending"
<1>2. Books!Insert(r, wallet[r], st, taken[r])
  <2>1. \A q \in Requests : OwnerOf(q)' = IF q = r THEN wallet[r] ELSE OwnerOf(q)
    BY <1>1 DEF Commit, OwnerOf, IndInv, TypeOK
  <2>2. [q \in Requests |-> OwnerOf(q)]'
          = [[q \in Requests |-> OwnerOf(q)] EXCEPT ![r] = wallet[r]]
    BY <2>1
  <2>3. Books!Active(wallet[r]) = {}
    BY <1>1, SameReads
  <2> QED BY <1>1, <2>2, <2>3 DEF Commit, Books!Insert
<1>3. taken[r] \in {"x402", "initial_free", "failure_credit"}
  BY <1>1 DEF CommitsFunded, IndInv, TypeOK, Sources
<1>4. CASE taken[r] = "x402"
  <2>1. credit[r] = Null
    BY <1>1, <1>4 DEF CommitsFunded
  <2>2. UNCHANGED <<freeUse, granted, usedBy>>
    BY <1>4, <2>1, NullAssumption DEF Commit, IndInv, TypeOK
  <2>3. Books!AdmitPaid(r, wallet[r])
    BY <1>2, <1>4, <2>2 DEF Books!AdmitPaid
  <2> QED BY <1>1, <2>3 DEF Books!Next
<1>5. CASE taken[r] = "initial_free"
  <2>1. credit[r] = Null
    BY <1>1, <1>5 DEF CommitsFunded
  <2>2. freeUse' = freeUse \cup {r} /\ UNCHANGED <<granted, usedBy>>
    BY <1>5, <2>1, NullAssumption DEF Commit, IndInv, TypeOK
  <2>3. Books!Cardinality(Books!FreeUsed(wallet[r])) < FreeTierCount
    <3>1. Cardinality(FreeUsed(wallet[r])) < FreeTierCount
      BY <1>1, <1>5 DEF IndInv, AllowanceHeld
    <3> QED BY <1>1, <3>1, SameReads, SameCount
  <2>4. Books!AdmitFree(r, wallet[r])
    BY <1>2, <1>5, <2>2, <2>3 DEF Books!AdmitFree
  <2> QED BY <1>1, <2>4 DEF Books!Next
<1>6. CASE taken[r] = "failure_credit"
  <2>1. credit[r] \in Books!OpenCredits(wallet[r]) /\ credit[r] \in Requests
    BY <1>1, <1>6, SameReads DEF IndInv, CreditHeld, OpenCredits, TypeOK
  <2>2. usedBy' = [usedBy EXCEPT ![credit[r]] = r] /\ UNCHANGED <<freeUse, granted>>
    BY <1>6, <2>1 DEF Commit, IndInv, TypeOK
  <2>3. Books!AdmitOnCredit(r, wallet[r], credit[r])
    BY <1>2, <1>6, <2>1, <2>2 DEF Books!AdmitOnCredit
  <2> QED BY <1>1, <2>1, <2>3 DEF Books!Next
<1> QED BY <1>3, <1>4, <1>5, <1>6

\* What goes on meanwhile is the same step on the books.
LEMMA MeanwhileAdmits ==
  ASSUME IndInv, NEW r \in Requests, Meanwhile(r)
  PROVE  Books!Next
<1>1. /\ row[r] \in Live /\ UNCHANGED <<wallet, source>>
      /\ row' \in [Requests -> {"none", "answered", "expired", "failed"} \cup Live]
      /\ row'[r] # "none" /\ \A q \in Requests \ {r} : row'[q] = row[q]
  BY DEF Meanwhile, Settled, Answered, Abandoned, Expired, request, Live, IndInv, TypeOK
<1>2. UNCHANGED [q \in Requests |-> OwnerOf(q)]
  <2>1. \A q \in Requests : OwnerOf(q)' = OwnerOf(q)
    BY <1>1 DEF OwnerOf, Live
  <2> QED BY <2>1
<1>3. CASE Settled(r)
  <2>1. Books!Settle(r)
    BY <1>2, <1>3 DEF Settled, ledger, Books!Settle, Books!Waiting
  <2> QED BY <2>1 DEF Books!Next
<1>4. CASE Answered(r)
  <2>1. Books!Answer(r)
    BY <1>2, <1>4 DEF Answered, ledger, Books!Answer, Books!Queued
  <2> QED BY <2>1 DEF Books!Next
<1>5. CASE Abandoned(r)
  <2>1. /\ row[r] = "admission_pending" /\ row' = [row EXCEPT ![r] = "failed"]
        /\ UNCHANGED <<source, freeUse, granted, usedBy>>
    BY <1>5 DEF Abandoned, ledger
  <2>2. row' = [q \in Requests |-> IF q \in {r} THEN "failed"
                                   ELSE IF q \in {} THEN "expired" ELSE row[q]]
    BY <2>1 DEF IndInv, TypeOK
  <2>3. usedBy' = [c \in Requests |-> IF usedBy[c] \in {} THEN Null ELSE usedBy[c]]
    BY <2>1 DEF IndInv, TypeOK
  <2>4. Books!Lapse({r}, {})
    BY <1>2, <2>1, <2>2, <2>3 DEF Books!Lapse
  <2> QED BY <2>1, <2>4 DEF Books!Next, Books!Waiting
<1>6. CASE Expired(r)
  <2>1. /\ row[r] = "pending" /\ row' = [row EXCEPT ![r] = "expired"]
        /\ granted' = granted \cup {q \in {r} : source[q] = "x402"}
        /\ freeUse' = freeUse \ {r} /\ UNCHANGED source
    BY <1>6 DEF Expired
  <2>2. row' = [q \in Requests |-> IF q \in {} THEN "failed"
                                   ELSE IF q \in {r} THEN "expired" ELSE row[q]]
    BY <2>1 DEF IndInv, TypeOK
  <2>3. usedBy' = [c \in Requests |-> IF usedBy[c] \in {r} THEN Null ELSE usedBy[c]]
    BY <1>6 DEF Expired
  <2>4. Books!Lapse({}, {r})
    BY <1>2, <2>1, <2>2, <2>3 DEF Books!Lapse
  <2> QED BY <2>1, <2>4 DEF Books!Next, Books!Queued
<1> QED BY <1>3, <1>4, <1>5, <1>6 DEF Meanwhile

\* The other steps of a request, a midnight and a restart.
LEMMA OtherSteps ==
  ASSUME IndInv, [Next]_vars, \A r \in Requests : ~Commit(r) /\ ~Meanwhile(r)
  PROVE  /\ UNCHANGED <<row, source, freeUse, granted, usedBy>>
         /\ \A r \in Requests : row[r] # "none" => wallet'[r] = wallet[r]
<1>1. ASSUME NEW r \in Requests, NEW w \in Wallets, NEW m \in {"x402", "entitlement"},
             Arrive(r, w, m)
      PROVE  /\ UNCHANGED <<row, source, freeUse, granted, usedBy>>
             /\ \A q \in Requests : row[q] # "none" => wallet'[q] = wallet[q]
  <2>1. row[r] = "none"
    BY <1>1 DEF Arrive, IndInv, LockProtects
  <2> QED BY <1>1, <2>1 DEF Arrive, ledger, IndInv, TypeOK
<1>2. ASSUME NEW r \in Requests, Step(r)
      PROVE  UNCHANGED <<wallet, row, source, freeUse, granted, usedBy>>
  BY <1>2 DEF Step, CheckCap, CheckEarly, ResolveTerms, Begin, TakeLock, Recheck, CountFree,
              CountBudget, TakeCredit, Route, Abort, ledger
<1>3. ASSUME Midnight \/ Crash \/ UNCHANGED vars
      PROVE  UNCHANGED <<wallet, row, source, freeUse, granted, usedBy>>
  BY <1>3 DEF Midnight, Crash, vars, request, ledger
<1> QED BY <1>1, <1>2, <1>3 DEF Next

LEMMA StepAdmits ==
  ASSUME IndInv, CommitsFunded, [Next]_vars
  PROVE  [Books!Next]_(Books!books)
<1>1. CASE \E r \in Requests : Commit(r)
  BY <1>1, CommitAdmits
<1>2. CASE \E r \in Requests : Meanwhile(r)
  BY <1>2, MeanwhileAdmits
<1>3. CASE \A r \in Requests : ~Commit(r) /\ ~Meanwhile(r)
  BY <1>3, OtherSteps, BooksFrame
<1> QED BY <1>1, <1>2, <1>3

\* However many requests, wallets, settlements and expiries interleave, on the
\* books every admission is one step.
THEOREM AsIfAtomic == Spec => AdmitsAtomically
<1> QED BY InitAdmits, StepAdmits, InvCorrect, FundedInv, PTL DEF Spec, AdmitsAtomically, Books!Spec

(***************************************************************************)
(* What the admitted chains rest on.                                       *)
(***************************************************************************)

\* A step that leaves the books alone leaves the entitlements sound.
LEMMA EntitlementsFrame ==
  ASSUME IndInv, CommitsFunded, UsesHeld, EntitlementsSound,
         UNCHANGED <<row, source, freeUse, granted, usedBy>>,
         \A r \in Requests : row[r] # "none" => wallet'[r] = wallet[r]
  PROVE  UsesHeld' /\ EntitlementsSound'
<1>1. \A r \in freeUse \cup granted : r \in Requests /\ row[r] # "none"
  BY DEF IndInv, TypeOK, AllowanceHeld, CreditHeld, CommitsFunded
<1>2. \A w \in Wallets : FreeUsed(w)' = FreeUsed(w)
  BY <1>1 DEF FreeUsed
<1>3. \A r \in Requests : row[r] \in {"pending", "answered"} =>
        \A c \in granted : usedBy[c] = r /\ wallet[c] = wallet[r] =>
                           usedBy'[c] = r /\ wallet'[c] = wallet'[r]
  BY <1>1
<1> QED BY <1>2, <1>3 DEF UsesHeld, EntitlementsSound

\* A commit takes a free use its statements have counted, or a credit that was
\* open; no row that exists gains or loses anything by it.
LEMMA EntitlementsCommit ==
  ASSUME IndInv, CommitsFunded, UsesHeld, EntitlementsSound, NEW r \in Requests, Commit(r)
  PROVE  UsesHeld' /\ EntitlementsSound'
<1>1. /\ pc[r] = "commit" /\ row[r] = "none" /\ wallet[r] \in Wallets
      /\ taken[r] \in {"x402", "initial_free", "failure_credit"}
      /\ credit[r] # Null <=> taken[r] = "failure_credit"
      /\ UNCHANGED <<wallet, granted>>
      /\ \A q \in Requests \ {r} : row'[q] = row[q] /\ source'[q] = source[q]
      /\ row'[r] = IF taken[r] = "x402" THEN "admission_pending" ELSE "pending"
      /\ source'[r] = taken[r]
      /\ freeUse' = IF taken[r] = "initial_free" THEN freeUse \cup {r} ELSE freeUse
  BY DEF Commit, IndInv, TypeOK, Sources, LockProtects, CommitsFunded
<1>2. \A c \in Requests : usedBy'[c] = IF c = credit[r] THEN r ELSE usedBy[c]
  BY DEF Commit
<1>3. r # Null /\ r \notin freeUse /\ \A c \in Requests : usedBy[c] # r
  BY <1>1, NullAssumption DEF UsesHeld
<1>4. credit[r] # Null => /\ credit[r] \in Requests /\ credit[r] \in granted
                          /\ wallet[credit[r]] = wallet[r] /\ usedBy[credit[r]] = Null
  BY <1>1 DEF IndInv, CreditHeld, OpenCredits, TypeOK
<1>5. UsesHeld'
  <2>1. \A q \in freeUse' : row'[q] \in {"pending", "answered"}
    BY <1>1, <1>3 DEF UsesHeld, IndInv, TypeOK
  <2>2. \A c \in Requests : usedBy'[c] # Null =>
            c \in granted /\ row'[usedBy'[c]] \in {"pending", "answered"}
    <3> SUFFICES ASSUME NEW c \in Requests, usedBy'[c] # Null
                 PROVE  c \in granted /\ row'[usedBy'[c]] \in {"pending", "answered"}
      OBVIOUS
    <3>1. CASE c = credit[r]
      BY <1>1, <1>2, <1>3, <1>4, <3>1, NullAssumption
    <3>2. CASE c # credit[r]
      BY <1>1, <1>2, <1>3, <3>2 DEF UsesHeld, IndInv, TypeOK
    <3> QED BY <3>1, <3>2
  <2>3. \A q \in Requests : row'[q] = "admission_pending" => source'[q] = "x402"
    BY <1>1 DEF UsesHeld
  <2> QED BY <1>1, <2>1, <2>2, <2>3 DEF UsesHeld
<1>6. ASSUME NEW w \in Wallets
      PROVE  Cardinality(FreeUsed(w)') <= FreeTierCount
  <2>1. CASE taken[r] = "initial_free" /\ wallet[r] = w
    <3>1. FreeUsed(w)' = FreeUsed(w) \cup {r} /\ Cardinality(FreeUsed(w)) < FreeTierCount
      BY <1>1, <2>1 DEF FreeUsed, IndInv, AllowanceHeld
    <3>2. IsFiniteSet(FreeUsed(w)) /\ Cardinality(FreeUsed(w)) \in Nat
      <4>1. FreeUsed(w) \subseteq Requests
        BY DEF FreeUsed, IndInv, TypeOK
      <4> QED BY <4>1, FS_Subset, FS_CardinalityType, ParametersAssumption
    <3>3. Cardinality(FreeUsed(w) \cup {r}) =
             IF r \in FreeUsed(w) THEN Cardinality(FreeUsed(w)) ELSE Cardinality(FreeUsed(w)) + 1
      BY <3>2, FS_AddElement, Zenon
    <3> QED BY <3>1, <3>2, <3>3, ParametersAssumption
  <2>2. CASE ~(taken[r] = "initial_free" /\ wallet[r] = w)
    <3>1. FreeUsed(w)' = FreeUsed(w)
      BY <1>1, <2>2 DEF FreeUsed
    <3> QED BY <3>1 DEF EntitlementsSound
  <2> QED BY <2>1, <2>2
<1>7. \A c, d \in Requests : usedBy'[c] # Null /\ usedBy'[c] = usedBy'[d] => c = d
  BY <1>2, <1>3 DEF EntitlementsSound
<1>8. ASSUME NEW q \in Requests, row'[q] \in {"pending", "answered"}
      PROVE  \/ source'[q] = "x402"
             \/ source'[q] = "initial_free" /\ q \in freeUse'
             \/ /\ source'[q] = "failure_credit"
                /\ \E c \in granted : usedBy'[c] = q /\ wallet[c] = wallet[q]
  <2>1. CASE q = r
    BY <1>1, <1>2, <1>4, <2>1
  <2>2. CASE q # r
    <3>1. \A c \in granted : c \in Requests /\ (usedBy[c] = q => c # credit[r])
      BY <1>1, <1>4, <2>2, NullAssumption DEF IndInv, TypeOK
    <3> QED BY <1>1, <1>2, <1>8, <2>2, <3>1 DEF EntitlementsSound
  <2> QED BY <2>1, <2>2
<1> QED BY <1>1, <1>5, <1>6, <1>7, <1>8 DEF EntitlementsSound

\* A chain that ends hands back what it holds, and only that.
LEMMA EntitlementsMeanwhile ==
  ASSUME IndInv, UsesHeld, EntitlementsSound, NEW r \in Requests, Meanwhile(r)
  PROVE  UsesHeld' /\ EntitlementsSound'
<1>1. UNCHANGED <<wallet, source>> /\ \A q \in Requests \ {r} : row'[q] = row[q]
  BY DEF Meanwhile, Settled, Answered, Abandoned, Expired, request, IndInv, TypeOK
<1>2. CASE ~Expired(r)
  <2>1. UNCHANGED <<freeUse, granted, usedBy>>
    BY <1>2 DEF Meanwhile, Settled, Answered, Abandoned, ledger
  <2>2. /\ row'[r] \in {"pending", "answered"} \/ row[r] = "admission_pending"
        /\ row'[r] \in {"pending", "answered"} =>
              row[r] = "pending" \/ row[r] = "admission_pending"
    BY <1>2 DEF Meanwhile, Settled, Answered, Abandoned, IndInv, TypeOK
  <2>3. row[r] = "admission_pending" => source[r] = "x402"
    BY DEF UsesHeld
  <2>4. UsesHeld'
    <3>1. \A q \in Requests : row'[q] = "admission_pending" => row[q] = "admission_pending"
      BY <1>1, <1>2 DEF Meanwhile, Settled, Answered, Abandoned, IndInv, TypeOK
    <3> QED BY <1>1, <2>1, <2>2, <3>1 DEF UsesHeld, IndInv, TypeOK
  <2>5. \A w : FreeUsed(w)' = FreeUsed(w)
    BY <1>1, <2>1 DEF FreeUsed
  <2> QED BY <1>1, <2>1, <2>2, <2>3, <2>4, <2>5 DEF EntitlementsSound
<1>3. CASE Expired(r)
  <2>1. /\ row'[r] = "expired" /\ granted \subseteq granted'
        /\ freeUse' = freeUse \ {r}
        /\ \A c \in Requests : usedBy'[c] = IF usedBy[c] = r THEN Null ELSE usedBy[c]
    BY <1>3 DEF Expired, IndInv, TypeOK
  <2>2. UsesHeld'
    BY <1>1, <2>1, NullAssumption DEF UsesHeld, IndInv, TypeOK
  <2>3. ASSUME NEW w \in Wallets PROVE Cardinality(FreeUsed(w)') <= FreeTierCount
    <3>1. FreeUsed(w)' \subseteq FreeUsed(w) /\ FreeUsed(w) \subseteq Requests
      BY <1>1, <2>1 DEF FreeUsed, IndInv, TypeOK
    <3>2. IsFiniteSet(FreeUsed(w)) /\ IsFiniteSet(FreeUsed(w)')
      BY <3>1, ParametersAssumption, FS_Subset
    <3>3. /\ Cardinality(FreeUsed(w)') \in Nat /\ Cardinality(FreeUsed(w)) \in Nat
          /\ Cardinality(FreeUsed(w)') <= Cardinality(FreeUsed(w))
      BY <3>1, <3>2, FS_Subset, FS_CardinalityType
    <3> QED BY <3>3, ParametersAssumption DEF EntitlementsSound
  <2>4. \A c, d \in Requests : usedBy'[c] # Null /\ usedBy'[c] = usedBy'[d] => c = d
    BY <2>1 DEF EntitlementsSound
  <2>5. ASSUME NEW q \in Requests, row'[q] \in {"pending", "answered"}
        PROVE  \/ source[q] = "x402"
               \/ source[q] = "initial_free" /\ q \in freeUse'
               \/ /\ source[q] = "failure_credit"
                  /\ \E c \in granted' : usedBy'[c] = q /\ wallet[c] = wallet[q]
    <3>1. q # r /\ row[q] = row'[q]
      BY <1>1, <2>1, <2>5
    <3>2. \A c \in granted : c \in Requests
      BY DEF IndInv, TypeOK
    <3> QED BY <2>1, <2>5, <3>1, <3>2 DEF EntitlementsSound
  <2> QED BY <1>1, <2>2, <2>3, <2>4, <2>5 DEF EntitlementsSound
<1> QED BY <1>2, <1>3

\* No interleaving spends a credit twice, or more free uses than allowed.
THEOREM EntitlementsKept == Spec => []EntitlementsSound
<1>1. Init => UsesHeld /\ EntitlementsSound
  <2> SUFFICES ASSUME Init PROVE UsesHeld /\ EntitlementsSound
    OBVIOUS
  <2>1. \A w : FreeUsed(w) = {}
    BY DEF Init, FreeUsed
  <2> QED BY <2>1, FS_EmptySet, ParametersAssumption DEF Init, UsesHeld, EntitlementsSound
<1>2. IndInv /\ CommitsFunded /\ UsesHeld /\ EntitlementsSound /\ [Next]_vars
        => UsesHeld' /\ EntitlementsSound'
  <2> SUFFICES ASSUME IndInv, CommitsFunded, UsesHeld, EntitlementsSound, [Next]_vars
               PROVE  UsesHeld' /\ EntitlementsSound'
    OBVIOUS
  <2>1. CASE \E r \in Requests : Commit(r)
    BY <2>1, EntitlementsCommit
  <2>2. CASE \E r \in Requests : Meanwhile(r)
    BY <2>2, EntitlementsMeanwhile
  <2>3. CASE \A r \in Requests : ~Commit(r) /\ ~Meanwhile(r)
    BY <2>3, OtherSteps, EntitlementsFrame
  <2> QED BY <2>1, <2>2, <2>3
<1> QED BY <1>1, <1>2, InvCorrect, FundedInv, PTL DEF Spec

\* As long as the requests past the lock stay past it, locks stay with them.
LEMMA LocksFrame ==
  ASSUME TypeOK, LocksHeld, lock' = lock,
         \A q \in Requests : pc[q] \in Locked => pc'[q] \in Locked /\ wallet'[q] = wallet[q]
  PROVE  LocksHeld'
  BY DEF LocksHeld, TypeOK

\* The end of a transaction gives back the one lock it holds.
LEMMA LocksReleased ==
  ASSUME TypeOK, LocksHeld, NEW r \in Requests, NEW p,
         Goto(r, p), wallet' = wallet, lock' = [lock EXCEPT ![wallet[r]] = Null]
  PROVE  LocksHeld'
<1> SUFFICES ASSUME NEW w \in Wallets, lock'[w] # Null
             PROVE  pc'[lock'[w]] \in Locked /\ wallet'[lock'[w]] = w
  BY DEF LocksHeld
<1>1. w # wallet[r] /\ lock'[w] = lock[w]
  BY DEF TypeOK
<1>2. lock[w] \in Requests /\ pc[lock[w]] \in Locked /\ wallet[lock[w]] = w
  BY <1>1 DEF LocksHeld, TypeOK
<1>3. lock[w] # r
  BY <1>1, <1>2
<1> QED BY <1>1, <1>2, <1>3 DEF Goto, TypeOK

LEMMA LocksStep ==
  ASSUME IndInv, LocksHeld, NEW r \in Requests, Step(r)
  PROVE  LocksHeld'
<1>t. TypeOK
  BY DEF IndInv
<1>1. CASE CheckCap(r) \/ CheckEarly(r) \/ ResolveTerms(r) \/ Begin(r)
  <2>1. lock' = lock /\ wallet' = wallet /\ pc[r] \notin Locked
        /\ \A q \in Requests \ {r} : pc'[q] = pc[q]
    BY <1>t, <1>1 DEF CheckCap, CheckEarly, ResolveTerms, Begin, Goto, TypeOK, Locked
  <2> QED BY <1>t, <2>1, LocksFrame
<1>2. CASE TakeLock(r)
  <2>1. wallet[r] \in Wallets
    BY <1>2 DEF TakeLock, IndInv, LockProtects
  <2> SUFFICES ASSUME NEW w \in Wallets, lock'[w] # Null
               PROVE  pc'[lock'[w]] \in Locked /\ wallet'[lock'[w]] = w
    BY DEF LocksHeld
  <2>2. CASE w = wallet[r]
    BY <1>t, <1>2, <2>1, <2>2 DEF TakeLock, Goto, TypeOK, Locked
  <2>3. CASE w # wallet[r]
    BY <1>t, <1>2, <2>1, <2>3 DEF TakeLock, Goto, TypeOK, Locked, LocksHeld
  <2> QED BY <2>2, <2>3
<1>3. CASE Recheck(r) \/ CountFree(r) \/ CountBudget(r) \/ TakeCredit(r) \/ Route(r)
  <2>1. CASE Abort(r)
    BY <1>t, <2>1, LocksReleased DEF Abort
  <2>2. CASE ~Abort(r)
    <3>1. /\ lock' = lock /\ wallet' = wallet
          /\ \E p \in Locked : pc' = [pc EXCEPT ![r] = p]
      BY <1>t, <1>3, <2>2
      DEF Recheck, CountFree, CountBudget, TakeCredit, Route, Goto, Locked
    <3> QED BY <1>t, <3>1, LocksFrame DEF TypeOK
  <2> QED BY <2>1, <2>2
<1>4. CASE Commit(r)
  BY <1>t, <1>4, LocksReleased DEF Commit
<1> QED BY <1>1, <1>2, <1>3, <1>4 DEF Step

LEMMA LocksInv == Spec => []LocksHeld
<1>1. Init => LocksHeld
  BY DEF Init, LocksHeld
<1>2. IndInv /\ LocksHeld /\ [Next]_vars => LocksHeld'
  <2> SUFFICES ASSUME IndInv, LocksHeld, [Next]_vars PROVE LocksHeld'
    OBVIOUS
  <2>t. TypeOK
    BY DEF IndInv
  <2>1. ASSUME NEW r \in Requests, NEW w \in Wallets, NEW m \in {"x402", "entitlement"},
               Arrive(r, w, m)
        PROVE  LocksHeld'
    BY <2>t, <2>1, LocksFrame DEF Arrive, Goto, TypeOK, Locked
  <2>2. ASSUME NEW r \in Requests, Meanwhile(r) PROVE LocksHeld'
    BY <2>t, <2>2, LocksFrame
    DEF Meanwhile, Settled, Answered, Abandoned, Expired, request
  <2>3. ASSUME Crash PROVE LocksHeld'
    BY <2>3 DEF Crash, LocksHeld
  <2>4. ASSUME Midnight \/ UNCHANGED vars PROVE LocksHeld'
    BY <2>t, <2>4, LocksFrame DEF Midnight, vars, request
  <2> QED BY <2>1, <2>2, <2>3, <2>4, LocksStep DEF Next
<1> QED BY <1>1, <1>2, InvCorrect, PTL DEF Spec

\* Waiting for a connection or for a lock never closes a circle, whatever the
\* number of requests and wallets, even with a pool of a single connection.
THEOREM WaitingEnds == Spec => []WaitingEndsSomewhere
<1>1. IndInv /\ LocksHeld => WaitingEndsSomewhere
  <2> SUFFICES ASSUME IndInv, LocksHeld PROVE WaitingEndsSomewhere
    OBVIOUS
  <2>1. ASSUME NEW r \in Requests, pc[r] = "lock", ~CanGo(r)
        PROVE  LET q == lock[wallet[r]]
               IN  q \in OpenTx /\ wallet[q] = wallet[r] /\ CanGo(q)
    <3> DEFINE q == lock[wallet[r]]
    <3>1. wallet[r] \in Wallets /\ q # Null /\ q \in Requests
      BY <2>1 DEF CanGo, IndInv, LockProtects, TypeOK
    <3> QED BY <2>1, <3>1 DEF LocksHeld, CanGo, OpenTx, InTx
  <2>2. ASSUME ~ConnectionFree PROVE \E q \in OpenTx : CanGo(q)
    <3>1. OpenTx # {}
      BY <2>2, ParametersAssumption, FS_EmptySet DEF ConnectionFree
    <3>2. PICK r \in OpenTx : TRUE
      BY <3>1
    <3>3. CASE pc[r] \in Locked
      BY <3>2, <3>3 DEF CanGo
    <3>4. CASE pc[r] = "lock"
      BY <2>1, <3>2, <3>4 DEF OpenTx
    <3> QED BY <3>2, <3>3, <3>4 DEF OpenTx, InTx
  <2> QED BY <2>1, <2>2 DEF WaitingEndsSomewhere, CanGo, InFlight
<1> QED BY <1>1, LocksInv, InvCorrect, PTL
=============================================================================

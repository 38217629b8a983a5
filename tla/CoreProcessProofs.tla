-------------------------- MODULE CoreProcessProofs --------------------------
(***************************************************************************)
(* The core process, for any number of chains and runners, any files and   *)
(* backoffs: its migrations do not race, it serves only a current schema,  *)
(* and under all of its stops its delivery loop is still the one of        *)
(* Webhooks, whose POSTs are counted and in turn.                          *)
(***************************************************************************)
EXTENDS CoreProcess, TLAPS

(***************************************************************************)
(* Webhooks: what a pass has read stays true while it works.               *)
(***************************************************************************)

THEOREM InitInv == Init => IndInv
<1> SUFFICES ASSUME Init PROVE IndInv
  OBVIOUS
<1>1. LongEnough \in Nat
  BY BackoffAssumption DEF LongEnough, MaxAttempts
<1>2. TypeOK
  BY <1>1 DEF Init, TypeOK, MaxAttempts
<1>3. BatchStaysDue /\ PostsCounted
  BY DEF Init, BatchStaysDue, PostsCounted
<1> QED BY <1>2, <1>3 DEF IndInv

\* A row that is due stays due while its own columns stay and time passes.
LEMMA StaysDue ==
  ASSUME TypeOK, NEW c \in Chains, Due(c),
         decided \subseteq decided', delivered' = delivered,
         attempts'[c] = attempts[c], waited'[c] \in Nat, waited[c] <= waited'[c]
  PROVE  Due(c)'
<1>1. attempts[c] > 0 => Backoff[attempts[c]] \in Nat
  BY BackoffAssumption DEF Due, TypeOK, MaxAttempts
<1>2. waited[c] \in Nat
  BY BackoffAssumption DEF TypeOK, LongEnough, MaxAttempts
<1> QED BY <1>1, <1>2 DEF Due

\* The steps that write no row: what is in the batch is still due.
LEMMA FetchStep == ASSUME IndInv, Fetch PROVE IndInv'
<1> USE DEF IndInv, Fetch, row, seen
<1>1. PICK rows \in SUBSET {c \in Chains : Due(c)} : batch' = rows
  OBVIOUS
<1>2. TypeOK'
  BY <1>1 DEF TypeOK
<1>3. BatchStaysDue'
  BY <1>1 DEF BatchStaysDue, Due
<1>4. PostsCounted'
  BY DEF PostsCounted
<1> QED BY <1>2, <1>3, <1>4

LEMMA ResolveStep == ASSUME IndInv, NEW c \in Chains, Resolve(c) PROVE IndInv'
<1> USE DEF IndInv, Resolve, row, seen
<1>1. TypeOK'
  BY DEF TypeOK
<1>2. BatchStaysDue'
  BY DEF BatchStaysDue, Due, TypeOK
<1>3. PostsCounted'
  BY DEF PostsCounted
<1> QED BY <1>1, <1>2, <1>3

\* The end of a pass, by an exception or with the process: a POST that was sent
\* and not recorded is lost to the count.
LEMMA EndStep == ASSUME IndInv, (\E c \in Chains : Raise(c)) \/ Fail PROVE IndInv'
<1> USE DEF IndInv, EndPass, row, seen
<1>1. UNCHANGED row /\ EndPass
  BY DEF Raise, Fail
<1>2. CASE \E c \in Chains : Raise(c)
  <2>1. UNCHANGED seen /\ at = "next" /\ faults' \in {faults, faults + 1}
    BY <1>2 DEF Raise
  <2>2. TypeOK'
    BY <1>1, <2>1 DEF TypeOK
  <2>3. PostsCounted'
    BY <1>1, <2>1 DEF PostsCounted
  <2> QED BY <1>1, <2>2, <2>3 DEF BatchStaysDue
<1>3. CASE Fail
  <2>1. unrecorded' \in [Chains -> Nat]
    BY <1>3 DEF Fail, TypeOK, BatchStaysDue
  <2>2. TypeOK'
    BY <1>1, <1>3, <2>1 DEF Fail, TypeOK
  <2>3. PostsCounted'
    BY <1>1, <1>3 DEF Fail, TypeOK, PostsCounted, BatchStaysDue, MaxAttempts
  <2> QED BY <1>1, <2>2, <2>3 DEF BatchStaysDue
<1> QED BY <1>2, <1>3

LEMMA PostStep == ASSUME IndInv, Post PROVE IndInv'
<1> USE DEF IndInv, Post, row
<1>1. chain \in Chains
  BY DEF BatchStaysDue
<1>2. TypeOK'
  BY <1>1 DEF TypeOK
<1>3. BatchStaysDue'
  BY DEF BatchStaysDue, Due
<1>4. PostsCounted'
  BY <1>1 DEF PostsCounted, TypeOK, MaxAttempts
<1> QED BY <1>2, <1>3, <1>4

\* The count includes the attempt in hand.
LEMMA RecordStep == ASSUME IndInv, Record PROVE IndInv'
<1> USE DEF IndInv, Record, NextRow, seen
<1>1. /\ chain \in Chains \ batch /\ attempts[chain] \in 0..2
      /\ attempts' = [attempts EXCEPT ![chain] = @ + 1]
      /\ waited' = [waited EXCEPT ![chain] = 0]
  BY DEF BatchStaysDue, Due, TypeOK, MaxAttempts
<1>2. LongEnough \in Nat
  BY BackoffAssumption DEF LongEnough, MaxAttempts
<1>3. TypeOK'
  BY <1>1, <1>2 DEF TypeOK, MaxAttempts
<1>4. BatchStaysDue'
  BY <1>1 DEF BatchStaysDue, Due, TypeOK
<1>5. PostsCounted'
  BY <1>1 DEF PostsCounted, TypeOK, MaxAttempts
<1> QED BY <1>3, <1>4, <1>5

LEMMA ExhaustStep == ASSUME IndInv, Exhaust PROVE IndInv'
<1> USE DEF IndInv, Exhaust, NextRow, seen
<1>1. chain \in Chains \ batch
  BY DEF BatchStaysDue
<1>2. TypeOK'
  BY <1>1 DEF TypeOK, MaxAttempts
<1>3. BatchStaysDue'
  BY <1>1 DEF BatchStaysDue, Due, TypeOK
<1>4. PostsCounted'
  BY <1>1 DEF PostsCounted, TypeOK, MaxAttempts
<1> QED BY <1>2, <1>3, <1>4

LEMMA DecideStep == ASSUME IndInv, NEW c \in Chains, Decide(c) PROVE IndInv'
<1> USE DEF IndInv, Decide, pass, seen
<1>1. TypeOK'
  BY DEF TypeOK
<1>2. BatchStaysDue'
  BY DEF BatchStaysDue, Due
<1>3. PostsCounted'
  BY DEF PostsCounted
<1> QED BY <1>1, <1>2, <1>3

LEMMA TickStep == ASSUME IndInv, Tick PROVE IndInv'
<1> USE DEF IndInv, Tick, pass, seen
<1>1. LongEnough \in Nat
  BY BackoffAssumption DEF LongEnough, MaxAttempts
<1>2. TypeOK'
  BY <1>1 DEF TypeOK
<1>3. \A c \in Chains : Due(c) => Due(c)'
  <2> SUFFICES ASSUME NEW c \in Chains, Due(c) PROVE Due(c)'
    OBVIOUS
  <2>1. waited[c] <= waited'[c] /\ waited'[c] \in Nat
    BY <1>1 DEF TypeOK
  <2> QED BY <2>1, StaysDue
<1>4. BatchStaysDue'
  <2>1. batch \subseteq Chains
    BY DEF TypeOK
  <2> QED BY <1>3, <2>1 DEF BatchStaysDue, Due
<1>5. PostsCounted'
  BY DEF PostsCounted
<1> QED BY <1>2, <1>4, <1>5

THEOREM InvStep == IndInv /\ [Next]_vars => IndInv'
<1> SUFFICES ASSUME IndInv, [Next]_vars PROVE IndInv'
  OBVIOUS
<1>1. CASE PassStep
  BY <1>1, ResolveStep, EndStep, PostStep, RecordStep, ExhaustStep DEF PassStep
<1>2. CASE UNCHANGED vars
  BY <1>2 DEF vars, row, pass, seen, IndInv, TypeOK, BatchStaysDue, PostsCounted, Due
<1> QED BY <1>1, <1>2, FetchStep, EndStep, DecideStep, TickStep DEF Next

THEOREM InvCorrect == Spec => []IndInv
  BY InitInv, InvStep, PTL DEF Spec

\* Who is woken has just been found due.
LEMMA WakesStep ==
  ASSUME IndInv, [Next]_vars
  PROVE  \A c \in Chains : posts'[c] # posts[c] =>
            /\ c \in decided /\ ~Settled(c)
            /\ attempts[c] = 1 => waited[c] > Backoff[1]
            /\ attempts[c] = 2 => waited[c] > Backoff[2]
<1>1. CASE Post
  BY <1>1 DEF Post, IndInv, BatchStaysDue, Due, Settled, TypeOK, MaxAttempts
<1>2. CASE ~Post
  <2>1. UNCHANGED posts
    BY <1>2 DEF Next, PassStep, Fetch, Resolve, Raise, Record, Exhaust, Fail, Decide, Tick,
                seen, vars
  <2> QED BY <2>1
<1> QED BY <1>1, <1>2

-----------------------------------------------------------------------------
(***************************************************************************)
(* Migrations: the runners and the advisory lock.                          *)
(***************************************************************************)

THEOREM SchemaInitInv == Schema!Init => Schema!IndInv
  BY SchemaAssumption
  DEF Schema!ParametersFit, Schema!Init, Schema!IndInv, Schema!TypeOK, Schema!LockProtects, Schema!Files

LEMMA SchemaStepInv ==
  ASSUME Schema!IndInv, NEW r \in Runners, Schema!RunnerStep(r) \/ Schema!Stop(r)
  PROVE  Schema!IndInv'
<1> USE SchemaAssumption
    DEF Schema!ParametersFit, Schema!IndInv, Schema!TypeOK, Schema!LockProtects, Schema!Files, Schema!Goto, Schema!Leave
<1>1. CASE Schema!Start(r)
  BY <1>1 DEF Schema!Start
<1>2. CASE Schema!TakeLock(r)
  BY <1>2 DEF Schema!TakeLock
<1>3. CASE Schema!Check(r)
  <2> DEFINE f == file[r]
  <2>1. step[r] = "check" /\ lock = r /\ f \in 1..LastFile + 1 /\ UNCHANGED <<ledger, changed, lock, stops>>
    BY <1>3 DEF Schema!Check
  <2>2. CASE f > LastFile
    <3>1. 1..LastFile \subseteq ledger
      BY <2>1, <2>2
    <3>2. step' = [step EXCEPT ![r] = "unlock"] /\ UNCHANGED file
      BY <1>3, <2>2 DEF Schema!Check
    <3> QED BY <2>1, <3>1, <3>2
  <2>3. CASE f <= LastFile /\ f \in ledger
    <3>1. file' = [file EXCEPT ![r] = f + 1] /\ UNCHANGED step
      BY <1>3, <2>1, <2>3 DEF Schema!Check
    <3>2. f + 1 \in 1..LastFile + 1 /\ 1..(f + 1) - 1 \subseteq ledger
      BY <2>1, <2>3
    <3>3. Schema!TypeOK'
      BY <2>1, <3>1, <3>2
    <3>4. Schema!LockProtects'
      BY <2>1, <3>1, <3>2
    <3> QED BY <2>1, <3>3, <3>4
  <2>4. CASE f <= LastFile /\ f \notin ledger
    <3>1. step' = [step EXCEPT ![r] = "apply"] /\ UNCHANGED file
      BY <1>3, <2>1, <2>4 DEF Schema!Check
    <3> QED BY <2>1, <2>4, <3>1
  <2> QED BY <2>1, <2>2, <2>3, <2>4
<1>4. CASE Schema!Apply(r)
  <2> DEFINE f == file[r]
  <2>1. /\ lock = r /\ f \in 1..LastFile \ ledger /\ 1..f - 1 \subseteq ledger
        /\ ledger' = ledger \cup {f} /\ changed' = changed \cup {f}
        /\ file' = [file EXCEPT ![r] = f + 1] /\ step' = [step EXCEPT ![r] = "check"]
        /\ UNCHANGED <<lock, stops>>
    BY <1>4 DEF Schema!Apply
  <2>2. Schema!TypeOK'
    <3>1. f + 1 \in 1..LastFile + 1
      BY <2>1
    <3> QED BY <2>1, <3>1
  <2>3. 1..(f + 1) - 1 \subseteq ledger'
    BY <2>1
  <2>4. Schema!LockProtects'
    BY <2>1, <2>3
  <2> QED BY <2>1, <2>2, <2>4
<1>5. CASE Schema!Unlock(r)
  <2>1. /\ step[r] = "unlock" /\ lock = r /\ lock' = NoRunner
        /\ step' = [step EXCEPT ![r] = "done"] /\ UNCHANGED <<ledger, changed, file, stops>>
    BY <1>5 DEF Schema!Unlock
  <2>2. Schema!TypeOK'
    BY <2>1
  <2>3. Schema!LockProtects'
    BY <2>1
  <2> QED BY <2>1, <2>2, <2>3
<1>6. CASE Schema!Stop(r)
  BY <1>6 DEF Schema!Stop
<1> QED BY <1>1, <1>2, <1>3, <1>4, <1>5, <1>6 DEF Schema!RunnerStep

\* What the lock protects is what the runners rely on.
LEMMA SchemaHolds == Schema!IndInv => NoRunnerRaces /\ SchemaIsCurrent
  BY DEF Schema!IndInv, Schema!TypeOK, Schema!LockProtects, Schema!Files,
         NoRunnerRaces, Schema!NoRunnerRaces, SchemaIsCurrent, Schema!SchemaIsCurrent

-----------------------------------------------------------------------------
(***************************************************************************)
(* The process: the loop runs while the core serves.                       *)
(***************************************************************************)

CoreInv == IndInv /\ Schema!IndInv /\ PassNeedsSchema

\* A step of the process is a step of the loop or none, and one of the schema
\* or none.
LEMMA StepsOfBoth ==
  CoreNext => /\ [Next]_vars
              /\ \/ UNCHANGED schemaVars
                 \/ \E r \in Runners : Schema!RunnerStep(r) \/ Schema!Stop(r)
  BY CoreAssumption
  DEF CoreNext, CoreStops, LoopStep, Meanwhile, SchemaStep, Next

\* The process is the loop of Webhooks, whatever stops it and when.
LEMMA CoreImplementsWebhooks == CoreSpec => Spec
<1>1. CoreInit => Init
  BY DEF CoreInit
<1>2. [CoreNext]_allVars => [Next]_vars
  BY StepsOfBoth DEF allVars
<1> QED BY <1>1, <1>2, PTL DEF CoreSpec, Spec

\* No runner leaves the state of serving but by stopping, and the ledger that
\* is complete stays complete.
LEMMA ServingStep ==
  ASSUME CoreInv, [CoreNext]_allVars PROVE PassNeedsSchema'
<1>1. ASSUME NEW r \in Runners, SchemaStep(r) PROVE PassNeedsSchema'
  <2>1. UNCHANGED at
    BY <1>1 DEF SchemaStep, vars, pass
  <2>2. CASE at # "sleep"
    <3>1. Serving /\ ledger = Schema!Files
      BY <2>2 DEF CoreInv, PassNeedsSchema
    <3>2. step'[Core] = "done" /\ ledger' = ledger
      BY <1>1, <3>1, CoreAssumption
      DEF SchemaStep, Serving, CoreInv, Schema!IndInv, Schema!TypeOK, Schema!LockProtects,
          Schema!RunnerStep, Schema!Start, Schema!TakeLock, Schema!Check, Schema!Apply,
          Schema!Unlock, Schema!Stop, Schema!Leave, Schema!Goto, Schema!Files
    <3> QED BY <3>1, <3>2 DEF PassNeedsSchema, Serving, Schema!Files
  <2> QED BY <2>1, <2>2 DEF PassNeedsSchema
<1>2. CASE CoreStops
  BY <1>2 DEF CoreStops, Fail, EndPass, PassNeedsSchema, vars, pass
<1>3. CASE LoopStep
  BY <1>3, CoreAssumption
  DEF LoopStep, schemaVars, Serving, CoreInv, Schema!IndInv, Schema!LockProtects,
      PassNeedsSchema, Schema!Files
<1>4. CASE Meanwhile \/ UNCHANGED allVars
  BY <1>4 DEF Meanwhile, Tick, Decide, pass, vars, allVars, schemaVars, Serving, CoreInv,
              PassNeedsSchema, Schema!Files
<1> QED BY <1>1, <1>2, <1>3, <1>4 DEF CoreNext

THEOREM CoreInvCorrect == CoreSpec => []CoreInv
<1>1. CoreInit => CoreInv
  BY InitInv, SchemaInitInv DEF CoreInit, CoreInv, PassNeedsSchema, Init
<1>2. CoreInv /\ [CoreNext]_allVars => CoreInv'
  <2> SUFFICES ASSUME CoreInv, [CoreNext]_allVars PROVE CoreInv'
    OBVIOUS
  <2>1. IndInv'
    BY StepsOfBoth, InvStep DEF CoreInv, allVars
  <2>2. Schema!IndInv'
    <3>1. CASE UNCHANGED schemaVars
      BY <3>1 DEF CoreInv, schemaVars, Schema!IndInv, Schema!TypeOK, Schema!LockProtects,
                  Schema!Files
    <3> QED BY <3>1, StepsOfBoth, SchemaStepInv DEF CoreInv, allVars
  <2> QED BY <2>1, <2>2, ServingStep DEF CoreInv
<1> QED BY <1>1, <1>2, PTL DEF CoreSpec

-----------------------------------------------------------------------------
(***************************************************************************)
(* What follows.                                                           *)
(***************************************************************************)

\* Type correctness of the loop, for any number of chains.
THEOREM TypeCorrect == CoreSpec => []TypeOK
  BY CoreInvCorrect, PTL DEF CoreInv, IndInv

\* A POST beyond the third repeats one whose record was lost.
THEOREM RepeatsExplained == CoreSpec => []RepeatsNeedFault
<1>1. IndInv => RepeatsNeedFault
  <2> SUFFICES ASSUME IndInv, NEW c \in Chains
               PROVE  posts[c] <= MaxAttempts + unrecorded[c]
    BY DEF RepeatsNeedFault
  <2>1. /\ posts[c] \in Nat /\ unrecorded[c] \in Nat /\ attempts[c] \in 0..3
        /\ at = "record" /\ chain = c => attempts[c] < 3
    BY DEF IndInv, TypeOK, BatchStaysDue, Due, MaxAttempts
  <2> QED BY <2>1 DEF IndInv, PostsCounted, MaxAttempts
<1> QED BY <1>1, CoreInvCorrect, PTL DEF CoreInv

\* An agent is woken in its turn, whatever was fetched before.
THEOREM WakesTimely == CoreSpec => WakesInTurn
<1> DEFINE P == \A c \in Chains : posts'[c] # posts[c] =>
                  /\ c \in decided /\ ~Settled(c)
                  /\ attempts[c] = 1 => waited[c] > Backoff[1]
                  /\ attempts[c] = 2 => waited[c] > Backoff[2]
<1>1. IndInv /\ [Next]_vars => [P]_vars
  BY WakesStep
<1> QED BY <1>1, CoreImplementsWebhooks, InvCorrect, PTL DEF Spec, WakesInTurn

\* No two runners work on one file, and none skips one.
THEOREM RunnersAlone == CoreSpec => []NoRunnerRaces
  BY CoreInvCorrect, SchemaHolds, PTL DEF CoreInv

\* Whoever has finished, the serving core among them, has a current schema.
THEOREM SchemaCurrent == CoreSpec => []SchemaIsCurrent
  BY CoreInvCorrect, SchemaHolds, PTL DEF CoreInv

\* The loop runs only in a core that serves.
THEOREM PassesNeedSchema == CoreSpec => []PassNeedsSchema
  BY CoreInvCorrect, PTL DEF CoreInv
=============================================================================

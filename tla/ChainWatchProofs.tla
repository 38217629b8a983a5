-------------------------- MODULE ChainWatchProofs --------------------------
(***************************************************************************)
(* What the core finds out about the chain and what it tells the operator, *)
(* for any number of journal rows, alerts and faults and any limit and     *)
(* interval.                                                               *)
(***************************************************************************)
EXTENDS ChainWatch, TLAPS

LEMMA InitInv == Init => IndInv
BY ParametersAssumption
DEF Init, IndInv, TypeOK, AnswerStands, VerdictsFounded, ThrottleHolds, AlertsThrottled,
    Rows, NoRow, Unchecked

(***************************************************************************)
(* The settlement pass.                                                    *)
(***************************************************************************)


LEMMA ChainStep ==
  ASSUME IndInv, NEW r \in Rows, Apply(r) \/ SendTx(r) \/ SettleTx(r)
  PROVE  IndInv'
<1> USE DEF IndInv, pass, alerts
<1>1. CASE Apply(r)
  <2>1. TypeOK'
    BY <1>1 DEF Apply, TypeOK
  <2>2. AnswerStands'
    BY <1>1 DEF Apply, AnswerStands, Unchecked
  <2> QED BY <1>1, <2>1, <2>2 DEF Apply, VerdictsFounded, ThrottleHolds, AlertsThrottled
<1>2. CASE SendTx(r)
  <2>1. TypeOK'
    BY <1>2 DEF SendTx, TypeOK
  <2>2. AnswerStands' /\ VerdictsFounded'
    BY <1>2 DEF SendTx, AnswerStands, VerdictsFounded, Unchecked, TypeOK
  <2> QED BY <1>2, <2>1, <2>2 DEF SendTx, ThrottleHolds, AlertsThrottled
<1>3. CASE SettleTx(r)
  <2>1. TypeOK'
    BY <1>3 DEF SettleTx, TypeOK
  <2>2. AnswerStands' /\ VerdictsFounded'
    BY <1>3 DEF SettleTx, AnswerStands, VerdictsFounded, Unchecked, TypeOK
  <2> QED BY <1>3, <2>1, <2>2 DEF SettleTx, ThrottleHolds, AlertsThrottled
<1> QED BY <1>1, <1>2, <1>3

LEMMA FetchStep == ASSUME IndInv, Fetch PROVE IndInv'
<1> USE DEF IndInv, Fetch, journal, alerts
<1>1. FirstRows(Unchecked) \subseteq Unchecked /\ Unchecked \subseteq Rows
  BY DEF FirstRows, Unchecked, TypeOK
<1>2. TypeOK'
  BY <1>1 DEF TypeOK
<1>3. AnswerStands'
  <2>1. Unchecked' = Unchecked /\ at' = "ask"
    BY DEF Unchecked
  <2>2. batch' \subseteq Unchecked'
    BY <1>1, <2>1
  <2> QED BY ONLY <2>1, <2>2 DEF AnswerStands
<1> QED BY <1>2, <1>3 DEF VerdictsFounded, ThrottleHolds, AlertsThrottled

\* The answer in hand is what the chain said of the row in hand.
LEMMA AskStep == ASSUME IndInv, NEW r \in Rows, Ask(r) PROVE IndInv'
<1> USE DEF IndInv, journal, alerts
<1>1. r \in batch /\ batch' = batch \ {r} /\ UNCHANGED <<journal, alerts>>
      /\ faults' \in {faults, faults + 1}
  BY DEF Ask, NextRow, Fault
<1>2. \/ /\ at' = "store" /\ entry' = r
         /\ answer' \in {"true", "false"}
         /\ answer' = "true" => onChain[r] = "mined"
      \/ at' \in {"sleep", "ask"} /\ entry' = 0 /\ answer' = "none"
  BY DEF Ask, NextRow
<1>3. TypeOK'
  <2>1. entry' \in 0..LastRow /\ batch' \subseteq Rows /\ faults' \in Nat
    BY <1>1, <1>2, ParametersAssumption DEF TypeOK, Rows
  <2> QED BY <1>1, <1>2, <2>1 DEF TypeOK
<1>4. AnswerStands'
  BY <1>1, <1>2 DEF AnswerStands, Unchecked
<1> QED BY <1>1, <1>3, <1>4 DEF VerdictsFounded, ThrottleHolds, AlertsThrottled

\* It is still right when it is stored.
LEMMA StoreStep == ASSUME IndInv, Store PROVE IndInv'
<1> USE DEF IndInv, Store, NextRow, alerts
<1>1. TypeOK'
  BY ParametersAssumption DEF TypeOK, AnswerStands
<1>2. AnswerStands'
  BY DEF AnswerStands, Unchecked, TypeOK
<1>3. VerdictsFounded'
  BY DEF AnswerStands, VerdictsFounded, Unchecked, TypeOK
<1> QED BY <1>1, <1>2, <1>3 DEF ThrottleHolds, AlertsThrottled

LEMMA AlarmStep == ASSUME IndInv, Alarm PROVE IndInv'
<1> USE DEF IndInv, Alarm, NextRow, alerts, Fault
<1>1. TypeOK'
  BY ParametersAssumption DEF TypeOK, AnswerStands
<1>2. AnswerStands'
  BY DEF AnswerStands, Unchecked
<1>3. VerdictsFounded'
  BY DEF AnswerStands, VerdictsFounded
<1> QED BY <1>1, <1>2, <1>3 DEF ThrottleHolds, AlertsThrottled

\* However a pass ends, of its rows only those in hand were told of.
LEMMA EndStep ==
  ASSUME IndInv, EndPass, faults' \in Nat, UNCHANGED <<low, age, unguarded, repeats, told>>,
         alerting' \in {alerting, [e \in Alerts |-> "sleep"]}
  PROVE  IndInv'
<1> USE DEF IndInv, EndPass
<1>1. TypeOK'
  BY ParametersAssumption DEF TypeOK, AnswerStands
<1>2. AnswerStands'
  BY DEF AnswerStands
<1>3. VerdictsFounded'
  BY DEF AnswerStands, VerdictsFounded
<1>4. ThrottleHolds' /\ AlertsThrottled'
  BY DEF ThrottleHolds, AlertsThrottled
<1> QED BY <1>1, <1>2, <1>3, <1>4

(***************************************************************************)
(* The throttled alerts.                                                   *)
(***************************************************************************)

LEMMA ConditionStep ==
  ASSUME IndInv, NEW e \in Alerts, Begins(e) \/ Ends(e) PROVE IndInv'
<1> USE DEF IndInv, Begins, Ends, journal, pass
<1>1. TypeOK'
  BY DEF TypeOK
<1> QED BY <1>1 DEF AnswerStands, VerdictsFounded, Unchecked, ThrottleHolds, AlertsThrottled

LEMMA AlertPreserves ==
  ASSUME IndInv, NEW e \in Alerts, AlertStep(e) PROVE IndInv'
<1> USE DEF IndInv, Goto
<1>1. UNCHANGED <<journal, pass, low>>
  BY DEF AlertStep, Observe, Read, Record, Send
<1>2. AnswerStands' /\ VerdictsFounded'
  BY <1>1 DEF journal, pass, AnswerStands, VerdictsFounded, Unchecked
<1>3. CASE Observe(e)
  <2>1. TypeOK'
    BY <1>3 DEF Observe, TypeOK, journal, pass
  <2> QED BY <1>2, <1>3, <2>1 DEF Observe, ThrottleHolds, AlertsThrottled, TypeOK
<1>4. CASE Read(e)
  <2>1. TypeOK'
    BY <1>4 DEF Read, Raise, Fault, TypeOK, journal, pass
  <2>2. age[e] \in Int /\ Interval \in Int
    BY ParametersAssumption DEF TypeOK, NoRow
  <2> QED BY <1>2, <1>4, <2>1, <2>2 DEF Read, Raise, ThrottleHolds, AlertsThrottled, TypeOK
<1>5. CASE Record(e)
  <2>1. TypeOK'
    BY <1>5, ParametersAssumption DEF Record, Fault, TypeOK, journal, pass, NoRow
  <2>2. ThrottleHolds' /\ AlertsThrottled'
    BY <1>5, ParametersAssumption DEF Record, Fault, ThrottleHolds, AlertsThrottled, TypeOK, NoRow
  <2> QED BY <1>2, <2>1, <2>2
<1>6. CASE Send(e)
  <2>1. TypeOK'
    BY <1>6 DEF Send, Delivered, Raise, Fault, TypeOK, journal, pass
  <2>2. ThrottleHolds'
    BY <1>6 DEF Send, Delivered, Raise, ThrottleHolds, TypeOK
  <2>3. AlertsThrottled'
    BY <1>6 DEF Send, Delivered, Raise, ThrottleHolds, AlertsThrottled, TypeOK
  <2> QED BY <1>2, <2>1, <2>2, <2>3
<1> QED BY <1>3, <1>4, <1>5, <1>6 DEF AlertStep

LEMMA TickStep == ASSUME IndInv, Tick PROVE IndInv'
<1> USE DEF IndInv, Tick, journal, pass
<1>1. TypeOK'
  BY ParametersAssumption DEF TypeOK, NoRow
<1>2. ThrottleHolds' /\ AlertsThrottled'
  BY ParametersAssumption DEF ThrottleHolds, AlertsThrottled, TypeOK, NoRow
<1> QED BY <1>1, <1>2 DEF AnswerStands, VerdictsFounded, Unchecked

-----------------------------------------------------------------------------

LEMMA InvStep == IndInv /\ [Next]_vars => IndInv'
<1> SUFFICES ASSUME IndInv, [Next]_vars PROVE IndInv'
  OBVIOUS
<1>1. CASE PassStep
  BY <1>1, FetchStep, AskStep, StoreStep, AlarmStep DEF PassStep
<1>2. CASE PassFails
  BY <1>2, EndStep DEF PassFails, Fault, alerts, IndInv, TypeOK
<1>3. CASE CoreStops
  BY <1>3, EndStep DEF CoreStops, Fault, IndInv, TypeOK
<1>4. ASSUME NEW e \in Alerts, Begins(e) \/ Ends(e) \/ AlertStep(e) PROVE IndInv'
  BY <1>4, ConditionStep, AlertPreserves
<1>5. CASE UNCHANGED vars
  BY <1>5 DEF vars, journal, pass, alerts, IndInv, TypeOK, AnswerStands, VerdictsFounded,
              Unchecked, ThrottleHolds, AlertsThrottled
<1> QED BY <1>1, <1>2, <1>3, <1>4, <1>5, ChainStep, TickStep DEF Next

THEOREM InvCorrect == Spec => []IndInv
  BY InitInv, InvStep, PTL DEF Spec

\* Type correctness, for any number of rows, alerts and faults.
THEOREM TypeCorrect == Spec => []TypeOK
  BY InvCorrect, PTL DEF IndInv

\* A confirmed row stands for a mined transaction, and the operator is told only
\* of rows the chain did not know.
THEOREM VerdictsSound == Spec => []VerdictsFounded
  BY InvCorrect, PTL DEF IndInv

\* A recent row in audit_log is followed by one message at most.
THEOREM AlertsMuted == Spec => []AlertsThrottled
  BY InvCorrect, PTL DEF IndInv

\* Only a verdict starts an alarm, and only the end of one accounts for a row.
LEMMA ToldStep == IndInv /\ MissingToldOnce /\ [Next]_vars => MissingToldOnce'
<1> SUFFICES ASSUME IndInv, MissingToldOnce, [Next]_vars PROVE MissingToldOnce'
  OBVIOUS
<1>f. ASSUME UNCHANGED <<verdict, noticed, missed>>, at # "alarm", at' # "alarm"
      PROVE  MissingToldOnce'
  BY <1>f DEF MissingToldOnce
<1>u. ASSUME UNCHANGED <<verdict, noticed, missed, pass>> PROVE MissingToldOnce'
  BY <1>u DEF MissingToldOnce, pass
<1>1. ASSUME Fetch \/ \E r \in Rows : Ask(r) PROVE MissingToldOnce'
  BY <1>1, <1>f DEF Fetch, Ask, NextRow, journal
<1>2. ASSUME Store PROVE MissingToldOnce'
  <2>1. /\ entry \in Rows /\ verdict[entry] = "none"
        /\ verdict' = [verdict EXCEPT ![entry] = answer]
        /\ answer \in {"true", "false"}
        /\ UNCHANGED <<noticed, missed>>
        /\ answer = "true" => at' # "alarm"
        /\ answer = "false" => at' = "alarm" /\ entry' = entry
    BY <1>2 DEF Store, NextRow, IndInv, TypeOK, AnswerStands, Unchecked
  <2>2. entry \notin noticed \cup missed
    BY <2>1 DEF IndInv, VerdictsFounded
  <2>3. at = "store"
    BY <1>2 DEF Store
  <2> QED BY <2>1, <2>2, <2>3 DEF MissingToldOnce, IndInv, TypeOK
<1>3. ASSUME Alarm PROVE MissingToldOnce'
  BY <1>3 DEF Alarm, NextRow, MissingToldOnce
<1>4. ASSUME EndPass PROVE MissingToldOnce'
  BY <1>4 DEF EndPass, MissingToldOnce
<1>5. ASSUME NEW r \in Rows, Apply(r) \/ SendTx(r) \/ SettleTx(r) PROVE MissingToldOnce'
  BY <1>5, <1>u DEF Apply, SendTx, SettleTx
<1>6. ASSUME NEW e \in Alerts, Begins(e) \/ Ends(e) \/ AlertStep(e) PROVE MissingToldOnce'
  BY <1>6, <1>u DEF Begins, Ends, AlertStep, Observe, Read, Record, Send, journal
<1>7. ASSUME Tick \/ UNCHANGED vars PROVE MissingToldOnce'
  BY <1>7, <1>u DEF Tick, vars, journal
<1> QED BY <1>1, <1>2, <1>3, <1>4, <1>5, <1>6, <1>7 DEF Next, PassStep, PassFails, CoreStops

\* Wherever passes end, each missing row is accounted for, and once.
THEOREM ToldOnce == Spec => []MissingToldOnce
<1>1. Init => MissingToldOnce
  BY DEF Init, MissingToldOnce
<1> QED BY <1>1, ToldStep, InvCorrect, PTL DEF Spec
=============================================================================

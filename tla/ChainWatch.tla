----------------------------- MODULE ChainWatch -----------------------------
(***************************************************************************)
(* What the core checks after the fact, and how it tells the operator.     *)
(*                                                                         *)
(* The settlement pass asks the chain about every applied row of the       *)
(* journal, oldest first, stores the verdict and sends an alert when the   *)
(* chain does not know the transaction.  Other loops watch a condition     *)
(* (the gas wallet, the age of the exchange rate, a token's metadata) and  *)
(* alert at most once an interval, which they read back from audit_log.    *)
(* An exception ends a pass of a loop, but of the token loop the task: the *)
(* call that alerts is outside its try, and only a start of the core makes *)
(* a new task.                                                             *)
(* Each step is what runs between two awaits that can fail.  audit() is    *)
(* best effort: it never raises and may store nothing.  An operator's chat *)
(* is configured.                                                          *)
(* An operator named Op_Variant is a faulty variant of Op that no action   *)
(* uses.                                                                   *)
(***************************************************************************)
EXTENDS Integers, FiniteSets

CONSTANTS
    LastRow,    \* journal rows, in the order of created_at, are 1..LastRow
    CheckLimit, \* LIMIT of the settlement pass
    Alerts,     \* throttled alerts: the events audit_log is read for
    Interval,   \* ticks an alert is muted for
    MaxFaults   \* bound: stops of the core, unanswered calls, lost writes

ASSUME ParametersAssumption ==
    /\ LastRow \in Nat /\ CheckLimit \in Nat \ {0}
    /\ Interval \in Nat \ {0} /\ MaxFaults \in Nat

Rows == 1..LastRow

\* The age of an alert that audit_log has no row of.
NoRow == Interval + 1

VARIABLES
    applied,    \* rows marked applied
    onChain,    \* what the chain knows of their transactions
    verdict,    \* chain_verified
    batch,      \* rows the pass has fetched and not come to
    at,         \* what the pass is about to do
    entry,      \* with this row, 0 for none
    answer,     \* and this answer of the chain
    noticed,    \* rows the operator has been told of (history)
    missed,     \* rows whose notice a fault has taken (history)
    low,        \* alerts whose condition holds
    age,        \* ticks since the alert's last row in audit_log, up to Interval
    alerting,   \* what its loop is about to do
    unguarded,  \* the alerts of the token loop, one for each asset (fixed)
    repeats,    \* messages since that row, up to 2 (history)
    told,       \* alerts delivered since their condition began (history)
    faults

journal == <<applied, onChain, verdict, noticed, missed>>
pass    == <<batch, at, entry, answer>>
alerts  == <<low, age, alerting, unguarded, repeats, told>>
vars    == <<journal, pass, alerts, faults>>

TypeOK ==
    /\ applied \subseteq Rows
    /\ onChain \in [Rows -> {"absent", "pending", "mined", "dropped"}]
    /\ verdict \in [Rows -> {"none", "true", "false"}]
    /\ batch \subseteq Rows
    /\ at \in {"sleep", "ask", "store", "alarm"}
    /\ entry \in 0..LastRow
    /\ answer \in {"none", "true", "false"}
    /\ noticed \subseteq Rows /\ missed \subseteq Rows
    /\ low \subseteq Alerts
    /\ age \in [Alerts -> 0..NoRow]
    /\ alerting \in [Alerts -> {"sleep", "read", "record", "send", "dead"}]
    /\ unguarded \subseteq Alerts
    /\ repeats \in [Alerts -> 0..2]
    /\ told \subseteq Alerts
    /\ faults \in Nat

Init ==
    /\ applied = {} /\ noticed = {} /\ missed = {}
    /\ onChain = [r \in Rows |-> "absent"]
    /\ verdict = [r \in Rows |-> "none"]
    /\ batch = {} /\ at = "sleep" /\ entry = 0 /\ answer = "none"
    /\ low = {} /\ told = {}
    /\ age = [e \in Alerts |-> NoRow]
    /\ alerting = [e \in Alerts |-> "sleep"]
    /\ unguarded \in SUBSET Alerts
    /\ repeats = [e \in Alerts |-> 0]
    /\ faults = 0

Fault == faults < MaxFaults /\ faults' = faults + 1

-----------------------------------------------------------------------------
(***************************************************************************)
(* The chain and the journal.                                              *)
(***************************************************************************)

\* A settlement is reported and applied; its transaction may or may not exist.
Apply(r) ==
    /\ r \notin applied
    /\ applied' = applied \cup {r}
    /\ UNCHANGED <<onChain, verdict, noticed, missed, pass, alerts, faults>>

\* A transaction is sent, and then mined or dropped for good.
SendTx(r) ==
    /\ onChain[r] = "absent"
    /\ onChain' = [onChain EXCEPT ![r] = "pending"]
    /\ UNCHANGED <<applied, verdict, noticed, missed, pass, alerts, faults>>

SettleTx(r) ==
    /\ onChain[r] = "pending"
    /\ \E s \in {"mined", "dropped"} : onChain' = [onChain EXCEPT ![r] = s]
    /\ UNCHANGED <<applied, verdict, noticed, missed, pass, alerts, faults>>

-----------------------------------------------------------------------------
(***************************************************************************)
(* _verify_settlements_onchain_once.                                       *)
(***************************************************************************)

Unchecked_Any == applied

Unchecked_Retried == {r \in applied : verdict[r] # "true"}

Unchecked == {r \in applied : verdict[r] = "none"}

\* The first CheckLimit rows in the order of created_at.
FirstRows(S) == {r \in S : Cardinality({u \in S : u < r}) < CheckLimit}

Fetch ==
    /\ at = "sleep" /\ Unchecked # {}
    /\ batch' = FirstRows(Unchecked)
    /\ at' = "ask" /\ UNCHANGED <<entry, answer>>
    /\ UNCHANGED <<journal, alerts, faults>>

\* The row is done; what is left of the batch is.
NextRow(rest) ==
    /\ batch' = rest /\ entry' = 0 /\ answer' = "none"
    /\ at' = IF rest = {} THEN "sleep" ELSE "ask"

Ask_SeenIsMined(r) ==
    /\ at = "ask" /\ r \in batch /\ \A u \in batch : r <= u
    /\ answer' = IF onChain[r] \in {"mined", "pending"} THEN "true" ELSE "false"
    /\ batch' = batch \ {r} /\ entry' = r /\ at' = "store"
    /\ UNCHANGED <<journal, alerts, faults>>

\* A transaction that is not yet mined, and an RPC that does not answer, leave
\* the row for another pass.
Ask(r) ==
    /\ at = "ask" /\ r \in batch /\ \A u \in batch : r <= u
    /\ \/ /\ onChain[r] # "pending"
          /\ answer' = IF onChain[r] = "mined" THEN "true" ELSE "false"
          /\ batch' = batch \ {r} /\ entry' = r /\ at' = "store"
          /\ UNCHANGED faults
       \/ onChain[r] = "pending" /\ NextRow(batch \ {r}) /\ UNCHANGED faults
       \/ Fault /\ NextRow(batch \ {r})
    /\ UNCHANGED <<journal, alerts>>

\* The verdict commits before anybody is told of it.
Store ==
    /\ at = "store"
    /\ verdict' = [verdict EXCEPT ![entry] = answer]
    /\ IF answer = "true" THEN NextRow(batch)
       ELSE at' = "alarm" /\ UNCHANGED <<batch, entry, answer>>
    /\ UNCHANGED <<applied, onChain, noticed, missed, alerts, faults>>

\* Telegram takes the message or, for a fault, refuses it.
Alarm ==
    /\ at = "alarm"
    /\ \/ noticed' = noticed \cup {entry} /\ UNCHANGED <<missed, faults>>
       \/ Fault /\ missed' = missed \cup {entry} /\ UNCHANGED noticed
    /\ NextRow(batch)
    /\ UNCHANGED <<applied, onChain, verdict, alerts>>

\* A call raises, and with it the pass, or the core stops.  A message whose
\* call raised may have been delivered.
EndPass ==
    /\ \/ at = "alarm" /\ missed' = missed \cup {entry} /\ UNCHANGED noticed
       \/ at = "alarm" /\ noticed' = noticed \cup {entry} /\ UNCHANGED missed
       \/ at # "alarm" /\ UNCHANGED <<noticed, missed>>
    /\ batch' = {} /\ at' = "sleep" /\ entry' = 0 /\ answer' = "none"
    /\ UNCHANGED <<applied, onChain, verdict>>

PassFails == at # "sleep" /\ Fault /\ EndPass /\ UNCHANGED alerts

PassStep == Fetch \/ (\E r \in Rows : Ask(r)) \/ Store \/ Alarm

-----------------------------------------------------------------------------
(***************************************************************************)
(* The throttled alerts: _alert_once_per, and _gas_watch_once likewise.    *)
(***************************************************************************)

\* The wallet runs dry and is filled, the feed stops and comes back.
Begins(e) ==
    /\ e \notin low
    /\ low' = low \cup {e} /\ told' = told \ {e}
    /\ UNCHANGED <<journal, pass, age, alerting, unguarded, repeats, faults>>

Ends(e) ==
    /\ e \in low
    /\ low' = low \ {e}
    /\ UNCHANGED <<journal, pass, age, alerting, unguarded, repeats, told, faults>>

Goto(e, s) == alerting' = [alerting EXCEPT ![e] = s]

\* An exception is logged and the loop goes on; or it ends the token loop, and
\* with it the alert of every token.
Raise(e) ==
    IF e \in unguarded
    THEN alerting' = [x \in Alerts |-> IF x \in unguarded THEN "dead" ELSE alerting[x]]
    ELSE Goto(e, "sleep")

\* The loop finds the condition; a call that does not answer is no condition.
Observe(e) ==
    /\ alerting[e] = "sleep" /\ e \in low
    /\ Goto(e, "read")
    /\ UNCHANGED <<journal, pass, low, age, unguarded, repeats, told, faults>>

Read_Unmuted(e) ==
    /\ alerting[e] = "read"
    /\ Goto(e, "record")
    /\ UNCHANGED <<journal, pass, low, age, unguarded, repeats, told, faults>>

Read_Once(e) ==
    /\ alerting[e] = "read"
    /\ Goto(e, IF age[e] # NoRow THEN "sleep" ELSE "record")
    /\ UNCHANGED <<journal, pass, low, age, unguarded, repeats, told, faults>>

\* The age of the last row in audit_log decides, after a restart too.
Read(e) ==
    /\ alerting[e] = "read"
    /\ \/ Goto(e, IF age[e] < Interval THEN "sleep" ELSE "record") /\ UNCHANGED faults
       \/ Fault /\ Raise(e)
    /\ UNCHANGED <<journal, pass, low, age, unguarded, repeats, told>>

\* The row that mutes the alert is there before the message, or is lost.
Record(e) ==
    /\ alerting[e] = "record"
    /\ \/ /\ age' = [age EXCEPT ![e] = 0] /\ repeats' = [repeats EXCEPT ![e] = 0]
          /\ UNCHANGED faults
       \/ Fault /\ UNCHANGED <<age, repeats>>
    /\ Goto(e, "send")
    /\ UNCHANGED <<journal, pass, low, unguarded, told>>

Delivered(e) ==
    /\ repeats' = [repeats EXCEPT ![e] = IF @ < 2 THEN @ + 1 ELSE @]
    /\ told' = told \cup {e}

\* Telegram takes the message or refuses it; or the call raises, and then the
\* message may have been delivered all the same.
Send(e) ==
    /\ alerting[e] = "send"
    /\ \/ Delivered(e) /\ Goto(e, "sleep") /\ UNCHANGED faults
       \/ Fault /\ UNCHANGED <<repeats, told>> /\ (Goto(e, "sleep") \/ Raise(e))
       \/ Fault /\ Delivered(e) /\ Raise(e)
    /\ UNCHANGED <<journal, pass, low, age, unguarded>>

AlertStep(e) == Observe(e) \/ Read(e) \/ Record(e) \/ Send(e)

-----------------------------------------------------------------------------

Tick ==
    /\ \E e \in Alerts : age[e] < Interval
    /\ age' = [e \in Alerts |-> IF age[e] < Interval THEN age[e] + 1 ELSE age[e]]
    /\ UNCHANGED <<journal, pass, low, alerting, unguarded, repeats, told, faults>>

\* The core stops and starts: of its loops nothing is left but what they wrote.
CoreStops ==
    /\ at # "sleep" \/ \E e \in Alerts : alerting[e] # "sleep"
    /\ Fault /\ EndPass
    /\ alerting' = [e \in Alerts |-> "sleep"]
    /\ UNCHANGED <<low, age, unguarded, repeats, told>>

Next ==
    \/ \E r \in Rows : Apply(r) \/ SendTx(r) \/ SettleTx(r)
    \/ PassStep \/ PassFails
    \/ \E e \in Alerts : Begins(e) \/ Ends(e) \/ AlertStep(e)
    \/ Tick
    \/ CoreStops

Spec == Init /\ [][Next]_vars

\* Every loop that is not dead runs for ever and calls return; no transaction is
\* pending for ever.  Nothing makes the core start again.
FairSpec ==
    /\ Spec /\ WF_vars(PassStep) /\ WF_vars(Tick)
    /\ \A r \in Rows : WF_vars(SettleTx(r))
    /\ \A e \in Alerts : WF_vars(AlertStep(e))

-----------------------------------------------------------------------------
(***************************************************************************)
(* Properties.                                                             *)
(***************************************************************************)

\* A row the core has confirmed stands for a transaction that was mined and not
\* for one that was only on its way when the chain was asked; and the operator
\* hears of a missing one only when that is what the journal says.
VerdictsFounded ==
    /\ \A r \in Rows : verdict[r] = "true" => onChain[r] = "mined"
    /\ \A r \in noticed \cup missed : verdict[r] = "false"

\* However many rows the limit puts before it, and whatever fails meanwhile,
\* every applied row gets its verdict.
JournalChecked == \A r \in Rows : r \in applied ~> verdict[r] # "none"

\* Between the commit of the verdict and the message a pass may end anywhere.
\* Whatever then stops, fails or runs again, a row the chain does not know is
\* accounted for, and once: its alarm is in hand, the operator was told of it, or
\* its one message was lost, for no pass comes back to a row with a verdict.
MissingToldOnce ==
    /\ \A r \in Rows : verdict[r] = "false" =>
          r \in noticed \cup missed \/ (at = "alarm" /\ entry = r)
    /\ at = "alarm" => entry \notin noticed \cup missed
    /\ noticed \cap missed = {}

\* While audit_log holds a recent row, at most one message has followed it: a
\* restart, a message that raised or a condition that comes and goes adds none.
AlertsThrottled == \A e \in Alerts : age[e] < Interval => repeats[e] <= 1

\* A condition that lasts is told of in the end, although an alert whose message
\* was lost is muted like any other, as is one soon after the last condition.  The
\* exception is a token's after the token loop has died: nothing but a start of the
\* core brings it back.
OperatorTold ==
    \A e \in Alerts : e \in low ~> e \in told \/ e \notin low \/ alerting[e] = "dead"

-----------------------------------------------------------------------------
(***************************************************************************)
(* The inductive invariant behind the theorems of ChainWatchProofs.        *)
(***************************************************************************)

\* The answer in hand is still right: what was mined stays mined.
AnswerStands ==
    /\ at \in {"store", "alarm"} => entry \in Rows
    /\ at = "store" => answer # "none"
    /\ at = "store" /\ answer = "true" => onChain[entry] = "mined"
    /\ at = "alarm" => verdict[entry] = "false"
    /\ batch \subseteq Unchecked
    /\ at \in {"store", "alarm"} => entry \notin batch
    /\ at = "store" => entry \in Unchecked

\* A loop that is past its read has found no recent row, and one that has made
\* a row has not followed it by a message yet.
ThrottleHolds ==
    \A e \in Alerts :
        /\ alerting[e] = "record" => age[e] >= Interval
        /\ alerting[e] = "send" /\ age[e] < Interval => repeats[e] = 0

IndInv ==
    /\ TypeOK
    /\ AnswerStands /\ VerdictsFounded
    /\ ThrottleHolds /\ AlertsThrottled
=============================================================================

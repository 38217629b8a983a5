------------------------------- MODULE Routing -------------------------------
(***************************************************************************)
(* Who is asked: the core's admission transactions and the Telegram bot    *)
(* share the verifies and associates tables.                               *)
(*                                                                         *)
(* Admissions run concurrently in the core, each in a transaction that     *)
(* selects an associate, locks its row and waits for Telegram before it    *)
(* commits.  The bot is one more process and handles one update at a time, *)
(* each of its statements committing on its own.  A message is named by    *)
(* its verify and its place in what was sent about it; it stays in the     *)
(* chat whatever becomes of the transaction that sent it.  The instance    *)
(* filter and last_assigned_at, which only breaks ties, are left open.     *)
(* An operator named Op_Variant is a faulty variant of Op that the system   *)
(* must not have; no action uses it.                                       *)
(***************************************************************************)
EXTENDS Integers, Sequences, FiniteSets

CONSTANTS
    Verifies,
    Associates,
    Null,
    PullLimit,    \* LIMIT of unassigned_pending
    MaxMessages   \* bound: messages sent about one verify

ASSUME NullAssumption == Null \notin Verifies \cup Associates

ASSUME BoundsAssumption ==
    /\ PullLimit \in Nat \ {0} /\ MaxMessages \in Nat

VARIABLES
    status,     \* "waiting" until the admission commits
    assignee,   \* associate_id
    msg,        \* telegram_message_id, 0 for NULL
    ledger,     \* answer rows of associate_earnings
    answeredBy, \* who answered (history)
    active,     \* associates whose status is active
    available,
    sent,       \* what Telegram has delivered about each verify, in order
    pc,         \* the open admission transaction of a verify
    picked,     \* and the associate it has selected
    bot         \* the bot's current handler

rows  == <<status, assignee, msg, ledger, answeredBy>>
staff == <<active, available>>
core  == <<pc, picked>>
vars  == <<rows, staff, sent, core, bot>>

Message == [to : Associates, kind : {"card", "prompt"}]
Earning == [verify : Verifies, associate : Associates]

\* Handler, its associate, the verify in hand and the verifies still to pull.
Handler ==
    [at : {"idle", "pull", "stamp", "send", "point", "prompt", "repoint", "resolve"},
     who : Associates \cup {Null}, verify : Verifies \cup {Null}, rest : SUBSET Verifies]

Idle == [at |-> "idle", who |-> Null, verify |-> Null, rest |-> {}]

TypeOK ==
    /\ status \in [Verifies -> {"waiting", "pending", "answered", "expired"}]
    /\ assignee \in [Verifies -> Associates \cup {Null}]
    /\ msg \in [Verifies -> 0..MaxMessages]
    /\ ledger \subseteq Earning
    /\ answeredBy \in [Verifies -> Associates \cup {Null}]
    /\ active \subseteq Associates /\ available \subseteq active
    /\ sent \in [Verifies -> Seq(Message)]
    /\ pc \in [Verifies -> {"none", "selected", "assigned", "delivered", "undelivered"}]
    /\ picked \in [Verifies -> Associates \cup {Null}]
    /\ bot \in Handler

Init ==
    /\ status = [v \in Verifies |-> "waiting"]
    /\ assignee = [v \in Verifies |-> Null]
    /\ msg = [v \in Verifies |-> 0]
    /\ ledger = {}
    /\ answeredBy = [v \in Verifies |-> Null]
    /\ active \in SUBSET Associates /\ available = {}
    /\ sent = [v \in Verifies |-> <<>>]
    /\ pc = [v \in Verifies |-> "none"]
    /\ picked = [v \in Verifies |-> Null]
    /\ bot = Idle

-----------------------------------------------------------------------------

Load(a) == Cardinality({v \in Verifies : assignee[v] = a /\ status[v] = "pending"})

Eligible == active \cap available

Best == {a \in Eligible : \A b \in Eligible : Load(a) <= Load(b)}

\* An open transaction locks the associates row it has stamped; every other
\* UPDATE of that row waits for it.
RowFree(a) == \A v \in Verifies : picked[v] = a => pc[v] \in {"none", "selected"}

Deliver(v, a, kind) ==
    /\ Len(sent[v]) < MaxMessages
    /\ sent' = [sent EXCEPT ![v] = Append(@, [to |-> a, kind |-> kind])]

-----------------------------------------------------------------------------
(***************************************************************************)
(* _route_admitted_verify, in the transaction that admits v.               *)
(***************************************************************************)

\* The admission commits: v is in the queue, with whom it was routed to.
Admit(v, a, m) ==
    /\ status' = [status EXCEPT ![v] = "pending"]
    /\ assignee' = [assignee EXCEPT ![v] = a]
    /\ msg' = [msg EXCEPT ![v] = m]
    /\ pc' = [pc EXCEPT ![v] = "none"]
    /\ picked' = [picked EXCEPT ![v] = Null]
    /\ UNCHANGED <<ledger, answeredBy>>

Select(v) ==
    /\ status[v] = "waiting" /\ pc[v] = "none"
    /\ IF Best = {} THEN Admit(v, Null, 0)
       ELSE /\ pc' = [pc EXCEPT ![v] = "selected"]
            /\ \E a \in Best : picked' = [picked EXCEPT ![v] = a]
            /\ UNCHANGED rows
    /\ UNCHANGED <<staff, sent, bot>>

Assign(v) ==
    /\ pc[v] = "selected"
    /\ RowFree(picked[v])
    /\ pc' = [pc EXCEPT ![v] = "assigned"]
    /\ UNCHANGED <<rows, staff, sent, picked, bot>>

\* Nothing of the transaction stays but what Telegram has delivered.
Rollback(v) ==
    /\ pc' = [pc EXCEPT ![v] = "none"]
    /\ picked' = [picked EXCEPT ![v] = Null]

\* Telegram accepts the card, refuses it, or the call raises, in which case
\* the card may have been delivered all the same.  The rolled back admission
\* may come again: the settlement is in the journal, or the agent retries.
SendCard(v) ==
    /\ pc[v] = "assigned"
    /\ \/ /\ Deliver(v, picked[v], "card")
          /\ pc' = [pc EXCEPT ![v] = "delivered"]
          /\ UNCHANGED picked
       \/ /\ pc' = [pc EXCEPT ![v] = "undelivered"]
          /\ UNCHANGED <<sent, picked>>
       \/ /\ Deliver(v, picked[v], "card") \/ UNCHANGED sent
          /\ Rollback(v)
    /\ UNCHANGED <<rows, staff, bot>>

CommitAdmission_KeepsAssociate(v) ==
    /\ pc[v] \in {"delivered", "undelivered"}
    /\ Admit(v, picked[v], IF pc[v] = "delivered" THEN Len(sent[v]) ELSE 0)
    /\ UNCHANGED <<staff, sent, bot>>

CommitAdmission(v) ==
    /\ \/ pc[v] = "delivered" /\ Admit(v, picked[v], Len(sent[v]))
       \/ pc[v] = "undelivered" /\ Admit(v, Null, 0)
    /\ UNCHANGED <<staff, sent, bot>>

CoreStep_NoTimeout(v) == Select(v) \/ Assign(v) \/ CommitAdmission(v)

CoreStep(v) == Select(v) \/ Assign(v) \/ SendCard(v) \/ CommitAdmission(v)

\* The expiry loop.
Expire(v) ==
    /\ status[v] = "pending"
    /\ status' = [status EXCEPT ![v] = "expired"]
    /\ UNCHANGED <<assignee, msg, ledger, answeredBy, staff, sent, core, bot>>

CoreCrash ==
    /\ \E v \in Verifies : pc[v] # "none"
    /\ pc' = [v \in Verifies |-> "none"]
    /\ picked' = [v \in Verifies |-> Null]
    /\ UNCHANGED <<rows, staff, sent, bot>>

-----------------------------------------------------------------------------
(***************************************************************************)
(* The bot.  An update is handled when the previous one is finished.       *)
(***************************************************************************)

Done == bot' = Idle

Begin(at, a, v, rest) ==
    /\ bot.at = "idle"
    /\ bot' = [at |-> at, who |-> a, verify |-> v, rest |-> rest]

\* /add and /remove.
Add(a) ==
    /\ bot.at = "idle" /\ a \notin active /\ RowFree(a)
    /\ active' = active \cup {a}
    /\ UNCHANGED <<rows, available, sent, core, bot>>

Remove(a) ==
    /\ bot.at = "idle" /\ a \in active /\ RowFree(a)
    /\ active' = active \ {a}
    /\ available' = available \ {a}
    /\ UNCHANGED <<rows, sent, core, bot>>

Busy(a) ==
    /\ bot.at = "idle" /\ a \in active /\ RowFree(a)
    /\ available' = available \ {a}
    /\ UNCHANGED <<rows, active, sent, core, bot>>

UnassignedPending_Any == {v \in Verifies : status[v] = "pending"}

UnassignedPending == {v \in Verifies : status[v] = "pending" /\ assignee[v] = Null}

\* At most PullLimit of them; which of them age decides.
Pulled(rest) ==
    /\ rest \subseteq UnassignedPending
    /\ \/ rest = UnassignedPending /\ Cardinality(rest) <= PullLimit
       \/ Cardinality(rest) = PullLimit

\* /available, and the verifies that arrived while nobody was.
Available(a) ==
    /\ a \in active /\ RowFree(a)
    /\ available' = available \cup {a}
    /\ \E rest \in SUBSET UnassignedPending : Pulled(rest) /\ Begin("pull", a, Null, rest)
    /\ UNCHANGED <<rows, active, sent, core>>

\* The first statement of assign; the second stamps the associate's row.
PullNext ==
    /\ bot.at = "pull"
    /\ IF bot.rest = {} THEN Done /\ UNCHANGED assignee
       ELSE \E v \in bot.rest :
            /\ bot' = [bot EXCEPT !.at = "stamp", !.verify = v, !.rest = @ \ {v}]
            /\ assignee' = IF status[v] = "pending"
                           THEN [assignee EXCEPT ![v] = bot.who] ELSE assignee
    /\ UNCHANGED <<status, msg, ledger, answeredBy, staff, sent, core>>

Stamp ==
    /\ bot.at = "stamp" /\ RowFree(bot.who)
    /\ bot' = [bot EXCEPT !.at = "send"]
    /\ UNCHANGED <<rows, staff, sent, core>>

\* A refused card is passed over, an exception ends the handler.
SendPulled ==
    /\ bot.at = "send"
    /\ \/ Deliver(bot.verify, bot.who, "card") /\ bot' = [bot EXCEPT !.at = "point"]
       \/ bot' = [bot EXCEPT !.at = "pull", !.verify = Null] /\ UNCHANGED sent
       \/ Done /\ (Deliver(bot.verify, bot.who, "card") \/ UNCHANGED sent)
    /\ UNCHANGED <<rows, staff, core>>

Point ==
    /\ bot.at = "point"
    /\ msg' = [msg EXCEPT ![bot.verify] = Len(sent[bot.verify])]
    /\ bot' = [bot EXCEPT !.at = "pull", !.verify = Null]
    /\ UNCHANGED <<status, assignee, ledger, answeredBy, staff, sent, core>>

\* The verify an associate's button or reply names must be its own and open.
OwnPending_AnyAssociate(a, v) == a \in active /\ status[v] = "pending"

OwnPending(a, v) == a \in active /\ assignee[v] = a /\ status[v] = "pending"

Shown(a, v) == \E n \in 1..Len(sent[v]) : sent[v][n] = [to |-> a, kind |-> "card"]

Press(a, v) ==
    /\ Shown(a, v)
    /\ OwnPending(a, v)
    /\ Begin("resolve", a, v, {}) \/ Begin("prompt", a, v, {})
    /\ UNCHANGED <<rows, staff, sent, core>>

\* Refine: the prompt is sent, then the mapping is moved to it.
Prompt ==
    /\ bot.at = "prompt"
    /\ \/ Deliver(bot.verify, bot.who, "prompt") /\ bot' = [bot EXCEPT !.at = "repoint"]
       \/ Done /\ UNCHANGED sent
    /\ UNCHANGED <<rows, staff, core>>

Repoint ==
    /\ bot.at = "repoint"
    /\ msg' = [msg EXCEPT ![bot.verify] = Len(sent[bot.verify])]
    /\ Done
    /\ UNCHANGED <<status, assignee, ledger, answeredBy, staff, sent, core>>

\* A reply to message n about v; any other reply finds no verify and is dropped.
Reply(a, v, n) ==
    /\ n \in 1..Len(sent[v]) /\ sent[v][n].to = a
    /\ OwnPending(a, v) /\ msg[v] = n
    /\ Begin("resolve", a, v, {})
    /\ UNCHANGED <<rows, staff, sent, core>>

Credit(v) ==
    IF assignee[v] = Null \/ \E e \in ledger : e.verify = v THEN ledger
    ELSE ledger \cup {[verify |-> v, associate |-> assignee[v]]}

\* record_answer and credit_for_verify in one transaction; the statement asks
\* again whether the verify is pending.
Resolve_Trusting ==
    /\ bot.at = "resolve" /\ RowFree(bot.who)
    /\ status' = [status EXCEPT ![bot.verify] = "answered"]
    /\ answeredBy' = [answeredBy EXCEPT ![bot.verify] = bot.who]
    /\ ledger' = Credit(bot.verify)
    /\ Done
    /\ UNCHANGED <<assignee, msg, staff, sent, core>>

Resolve ==
    /\ bot.at = "resolve" /\ RowFree(bot.who)
    /\ IF status[bot.verify] = "pending"
       THEN /\ status' = [status EXCEPT ![bot.verify] = "answered"]
            /\ answeredBy' = [answeredBy EXCEPT ![bot.verify] = bot.who]
            /\ ledger' = Credit(bot.verify)
       ELSE UNCHANGED <<status, answeredBy, ledger>>
    /\ Done
    /\ UNCHANGED <<assignee, msg, staff, sent, core>>

\* A handler that raises, or a restart, leaves its committed statements behind.
BotFails ==
    /\ bot.at # "idle"
    /\ Done
    /\ UNCHANGED <<rows, staff, sent, core>>

BotStep == PullNext \/ Stamp \/ SendPulled \/ Point \/ Prompt \/ Repoint \/ Resolve

Update ==
    \E a \in Associates :
        \/ Add(a) \/ Remove(a) \/ Busy(a) \/ Available(a)
        \/ \E v \in Verifies : Press(a, v) \/ \E n \in 1..MaxMessages : Reply(a, v, n)

-----------------------------------------------------------------------------

Next ==
    \/ \E v \in Verifies : CoreStep(v) \/ Expire(v)
    \/ CoreCrash
    \/ Update
    \/ BotStep
    \/ BotFails

Spec == Init /\ [][Next]_vars

\* Statements return, Telegram calls time out and a row lock is granted in the
\* order it was asked for, so one that is free again and again is had; no human
\* is obliged to act.
FairSpec == Spec /\ SF_vars(BotStep) /\ \A v \in Verifies : SF_vars(CoreStep(v))

-----------------------------------------------------------------------------
(***************************************************************************)
(* Properties.                                                             *)
(***************************************************************************)

\* The ledger holds one row for each answered verify and none for any other,
\* in favour of the associate who answered, who had been shown the card:
\* whoever else was sent a card of a rolled back admission earns nothing.
LedgerPaysAnswerer ==
    /\ ledger = {[verify |-> v, associate |-> answeredBy[v]] :
                    v \in {u \in Verifies : status[u] = "answered"}}
    /\ \A e \in ledger : Shown(e.associate, e.verify)

\* Between the read of a handler and its transaction the verify may expire:
\* an outcome, once there, is kept, and so is what it earned.
OutcomeKept ==
    [][\A v \in Verifies : status[v] \in {"answered", "expired"} =>
        /\ status'[v] = status[v]
        /\ {e \in ledger' : e.verify = v} = {e \in ledger : e.verify = v}]_vars

\* Once a verify is someone's it is never taken away or given to another, by
\* neither the core nor an /available that read the queue some time before.
AssignmentFinal ==
    [][\A v \in Verifies : assignee[v] # Null => assignee'[v] = assignee[v]]_vars

\* The message a reply is matched against is one in the assignee's own chat.
RepliesReachAssignee ==
    \A v \in Verifies : assignee[v] # Null /\ msg[v] # 0 =>
        msg[v] <= Len(sent[v]) /\ sent[v][msg[v]].to = assignee[v]

\* A committed admission never names an associate who was not sent the card:
\* a refused card leaves the verify unassigned, for the next /available.
AdmittedWithCard ==
    [][\A v \in Verifies : status[v] = "waiting" /\ status'[v] = "pending" =>
        assignee'[v] = Null \/ (\E n \in 1..Len(sent[v]) :
            sent[v][n] = [to |-> assignee'[v], kind |-> "card"])]_vars

\* Transactions wait for row locks and for Telegram, the bot for both: still
\* every admission and every handler comes to an end.
NobodyWaitsForEver ==
    /\ \A v \in Verifies : pc[v] # "none" ~> pc[v] = "none"
    /\ bot.at # "idle" ~> bot.at = "idle"

-----------------------------------------------------------------------------
(***************************************************************************)
(* The inductive invariant behind the theorems of RoutingProofs.           *)
(***************************************************************************)

LastSent(v) == sent[v][Len(sent[v])]

\* The verify of an open transaction is not in the queue yet, so the bot does
\* not see it, and what was last sent about it is its own card.
AdmissionsOpen ==
    /\ \A v \in Verifies : Len(sent[v]) <= MaxMessages
    /\ \A v \in Verifies : status[v] = "waiting" => assignee[v] = Null /\ msg[v] = 0
    /\ \A v \in Verifies : pc[v] # "none" => status[v] = "waiting" /\ picked[v] \in Associates
    /\ \A v \in Verifies : pc[v] = "delivered" =>
          Len(sent[v]) > 0 /\ LastSent(v) = [to |-> picked[v], kind |-> "card"]

\* Whoever is written to about a verify has had its card: a prompt follows one.
CardsFirst ==
    \A v \in Verifies : \A n \in 1..Len(sent[v]) : Shown(sent[v][n].to, v)

\* What /available still has to pull is in the queue or has left it, and is no
\* one's: nobody but the bot assigns what has been admitted.
QueueHeld ==
    \A v \in bot.rest :
        bot.at # "idle" /\ v # bot.verify /\ status[v] # "waiting" /\ assignee[v] = Null

\* The verify in hand is the handler's own, or expired before it could be.
HandHeld ==
    /\ bot.at # "idle" => bot.who \in Associates
    /\ bot.at \in {"stamp", "send", "point", "prompt", "repoint", "resolve"} =>
          bot.verify \in Verifies /\ status[bot.verify] # "waiting"
    /\ bot.at \in {"stamp", "send", "point"} =>
          \/ assignee[bot.verify] = bot.who
          \/ assignee[bot.verify] = Null /\ status[bot.verify] = "expired"
    /\ bot.at \in {"prompt", "repoint", "resolve"} =>
          assignee[bot.verify] = bot.who /\ Shown(bot.who, bot.verify)
    /\ bot.at \in {"point", "repoint"} =>
          Len(sent[bot.verify]) > 0 /\ LastSent(bot.verify).to = bot.who

\* A mapped message is one to the assignee.  One whose verify expired before it
\* was assigned is mapped too, and stays no one's.
MessagesMapped ==
    \A v \in Verifies : msg[v] # 0 =>
        /\ msg[v] <= Len(sent[v])
        /\ \/ sent[v][msg[v]].to = assignee[v]
           \/ assignee[v] = Null /\ status[v] = "expired"

AnswersOwned ==
    \A v \in Verifies : status[v] = "answered" =>
        answeredBy[v] \in Associates /\ assignee[v] = answeredBy[v] /\ Shown(answeredBy[v], v)

AnswersBooked ==
    ledger = {[verify |-> v, associate |-> answeredBy[v]] :
                 v \in {u \in Verifies : status[u] = "answered"}}

IndInv ==
    /\ TypeOK
    /\ AdmissionsOpen /\ CardsFirst /\ QueueHeld /\ HandHeld
    /\ MessagesMapped /\ AnswersOwned /\ AnswersBooked
-----------------------------------------------------------------------------
(***************************************************************************)
(* The refinement of Outcomes, which Earnings implements too.              *)
(***************************************************************************)

Promise == INSTANCE Outcomes WITH
    Chains <- Verifies,
    place <- [v \in Verifies |-> IF status[v] = "pending" THEN "queued" ELSE status[v]],
    earned <- {<<e.verify, e.associate>> : e \in ledger}

\* Cards, prompts, rollbacks and expiry between any two statements of the bot
\* amount to this: a verify enters the queue once, and leaves it with an answer
\* and its one earning or with neither (record_answer, windows.py:26-77;
\* credit_for_verify, settlement.py:52-58).
AnswersEarnOnce == Promise!Spec
=============================================================================

---------------------------- MODULE RoutingProofs ----------------------------
(***************************************************************************)
(* Whoever answers had the card, is the one the verify is assigned to, and *)
(* is the one who is paid, for any number of verifies, associates and      *)
(* messages.                                                               *)
(*                                                                         *)
(* The argument rests on who may write what.  A verify whose admission is  *)
(* open is invisible to the bot; once it is in the queue only the bot      *)
(* assigns it, and the bot is one process: what its handler read before    *)
(* its last statement can only have expired since.                         *)
(***************************************************************************)
EXTENDS Routing, TLAPS

THEOREM InitInv == Init => IndInv
<1> SUFFICES ASSUME Init PROVE IndInv
  OBVIOUS
<1>1. TypeOK
  BY BoundsAssumption DEF Init, TypeOK, Handler, Idle
<1>2. AdmissionsOpen /\ CardsFirst /\ QueueHeld /\ HandHeld
  BY BoundsAssumption DEF Init, Idle, AdmissionsOpen, CardsFirst, QueueHeld, HandHeld
<1>3. MessagesMapped /\ AnswersOwned /\ AnswersBooked
  BY DEF Init, MessagesMapped, AnswersOwned, AnswersBooked
<1> QED BY <1>1, <1>2, <1>3 DEF IndInv

-----------------------------------------------------------------------------
(***************************************************************************)
(* Telegram only ever adds to a chat.                                      *)
(***************************************************************************)

\* What one message changes.
LEMMA Delivered ==
  ASSUME TypeOK, NEW v \in Verifies, NEW a \in Associates,
         NEW kind \in {"card", "prompt"}, Deliver(v, a, kind)
  PROVE  /\ sent' \in [Verifies -> Seq(Message)]
         /\ Len(sent'[v]) = Len(sent[v]) + 1
         /\ Len(sent'[v]) <= MaxMessages
         /\ sent'[v][Len(sent'[v])] = [to |-> a, kind |-> kind]
         /\ \A n \in 1..Len(sent[v]) : sent'[v][n] = sent[v][n]
         /\ \A u \in Verifies \ {v} : sent'[u] = sent[u]
<1> DEFINE m == [to |-> a, kind |-> kind]
<1>1. sent[v] \in Seq(Message) /\ m \in Message
  BY DEF TypeOK, Message
<1>2. Append(sent[v], m) \in Seq(Message)
  BY <1>1
<1>3. sent' = [sent EXCEPT ![v] = Append(sent[v], m)] /\ sent \in [Verifies -> Seq(Message)]
  BY DEF Deliver, TypeOK
<1>4. sent'[v] = Append(sent[v], m) /\ sent' \in [Verifies -> Seq(Message)]
  BY <1>2, <1>3
<1>5. \A u \in Verifies \ {v} : sent'[u] = sent[u]
  BY <1>3
<1>6. /\ Len(sent'[v]) = Len(sent[v]) + 1
      /\ sent'[v][Len(sent[v]) + 1] = m
      /\ \A n \in 1..Len(sent[v]) : sent'[v][n] = sent[v][n]
  BY <1>1, <1>4
<1>7. Len(sent[v]) \in Nat /\ Len(sent[v]) < MaxMessages
  BY <1>1 DEF Deliver
<1> QED BY <1>4, <1>5, <1>6, <1>7, BoundsAssumption

\* So an earlier message stays where it is, whatever the step sends.
Grows ==
    /\ sent' \in [Verifies -> Seq(Message)]
    /\ \A v \in Verifies :
        /\ Len(sent[v]) <= Len(sent'[v])
        /\ \A n \in 1..Len(sent[v]) : sent'[v][n] = sent[v][n]
        /\ Len(sent[v]) <= MaxMessages => Len(sent'[v]) <= MaxMessages

LEMMA ChatsGrow ==
  ASSUME TypeOK,
         \/ UNCHANGED sent
         \/ \E v \in Verifies, a \in Associates, kind \in {"card", "prompt"} : Deliver(v, a, kind)
  PROVE  Grows
<1>1. \A v \in Verifies : Len(sent[v]) \in Nat
  BY DEF TypeOK
<1>2. CASE UNCHANGED sent
  BY <1>1, <1>2 DEF Grows, TypeOK
<1>3. ASSUME NEW v \in Verifies, NEW a \in Associates, NEW kind \in {"card", "prompt"},
             Deliver(v, a, kind)
      PROVE  Grows
  <2>1. /\ sent' \in [Verifies -> Seq(Message)]
        /\ Len(sent'[v]) = Len(sent[v]) + 1
        /\ Len(sent'[v]) <= MaxMessages
        /\ \A n \in 1..Len(sent[v]) : sent'[v][n] = sent[v][n]
        /\ \A u \in Verifies \ {v} : sent'[u] = sent[u]
    BY <1>3, Delivered
  <2>2. ASSUME NEW u \in Verifies
        PROVE  /\ Len(sent[u]) <= Len(sent'[u])
               /\ \A n \in 1..Len(sent[u]) : sent'[u][n] = sent[u][n]
               /\ Len(sent[u]) <= MaxMessages => Len(sent'[u]) <= MaxMessages
    <3>1. CASE u = v
      BY <1>1, <2>1, <3>1
    <3>2. CASE u # v
      BY <1>1, <2>1, <3>2
    <3> QED BY <3>1, <3>2
  <2> QED BY <2>1, <2>2 DEF Grows
<1> QED BY <1>2, <1>3

\* A card that was shown stays shown.
LEMMA ShownStays ==
  ASSUME TypeOK, Grows
  PROVE  \A a \in Associates, v \in Verifies : Shown(a, v) => Shown(a, v)'
<1> SUFFICES ASSUME NEW a \in Associates, NEW v \in Verifies, Shown(a, v)
             PROVE  Shown(a, v)'
  OBVIOUS
<1>1. Len(sent[v]) \in Nat /\ Len(sent'[v]) \in Nat
  BY DEF TypeOK, Grows
<1>2. PICK n \in 1..Len(sent[v]) : sent[v][n] = [to |-> a, kind |-> "card"]
  BY DEF Shown
<1>3. n \in 1..Len(sent'[v]) /\ sent'[v][n] = [to |-> a, kind |-> "card"]
  BY <1>1, <1>2 DEF Grows
<1> QED BY <1>3 DEF Shown

\* A card may be sent to anyone, anything else to who has one.
LEMMA CardsStayFirst ==
  ASSUME TypeOK, CardsFirst,
         \/ UNCHANGED sent
         \/ \E v \in Verifies, a \in Associates, kind \in {"card", "prompt"} :
               Deliver(v, a, kind) /\ (kind = "card" \/ Shown(a, v))
  PROVE  CardsFirst'
<1>1. CASE UNCHANGED sent
  BY <1>1 DEF CardsFirst, Shown
<1>2. ASSUME NEW v \in Verifies, NEW a \in Associates, NEW kind \in {"card", "prompt"},
             Deliver(v, a, kind), kind = "card" \/ Shown(a, v)
      PROVE  CardsFirst'
  <2> DEFINE N == Len(sent[v])
  <2>1. N \in Nat
    BY DEF TypeOK
  <2>2. /\ Len(sent'[v]) = N + 1
        /\ sent'[v][N + 1] = [to |-> a, kind |-> kind]
        /\ \A n \in 1..N : sent'[v][n] = sent[v][n]
        /\ \A u \in Verifies \ {v} : sent'[u] = sent[u]
    <3>1. /\ Len(sent'[v]) = Len(sent[v]) + 1
          /\ sent'[v][Len(sent'[v])] = [to |-> a, kind |-> kind]
          /\ \A n \in 1..Len(sent[v]) : sent'[v][n] = sent[v][n]
          /\ \A u \in Verifies \ {v} : sent'[u] = sent[u]
      BY <1>2, Delivered
    <3> QED BY <3>1
  <2>3. \A b : Shown(b, v) => \E n \in 1..N + 1 : sent'[v][n] = [to |-> b, kind |-> "card"]
    BY <2>1, <2>2 DEF Shown
  <2>4. \E n \in 1..N + 1 : sent'[v][n] = [to |-> a, kind |-> "card"]
    <3>1. CASE kind = "card"
      BY <2>1, <2>2, <3>1
    <3> QED BY <1>2, <2>3, <3>1
  <2>5. ASSUME NEW n \in 1..N + 1
        PROVE  \E k \in 1..N + 1 : sent'[v][k] = [to |-> sent'[v][n].to, kind |-> "card"]
    <3>1. CASE n = N + 1
      <4>1. sent'[v][n] = [to |-> a, kind |-> kind]
        BY <2>2, <3>1
      <4>2. sent'[v][n].to = a
        BY ONLY <4>1
      <4> QED BY <2>4, <4>2
    <3>2. CASE n # N + 1
      <4>1. n \in 1..N /\ sent'[v][n] = sent[v][n]
        BY <2>1, <2>2, <3>2
      <4>2. Shown(sent[v][n].to, v)
        BY <4>1 DEF CardsFirst
      <4> QED BY <2>3, <4>1, <4>2
    <3> QED BY <3>1, <3>2
  <2>6. ASSUME NEW u \in Verifies \ {v}, NEW n \in 1..Len(sent'[u])
        PROVE  \E k \in 1..Len(sent'[u]) : sent'[u][k] = [to |-> sent'[u][n].to, kind |-> "card"]
    BY <2>2 DEF CardsFirst, Shown
  <2> QED BY <2>2, <2>5, <2>6 DEF CardsFirst, Shown
<1> QED BY <1>1, <1>2

-----------------------------------------------------------------------------
(***************************************************************************)
(* What a step leaves alone.                                               *)
(***************************************************************************)

\* Rows no statement writes keep their meaning while chats grow.
LEMMA RowsQuiet ==
  ASSUME IndInv, UNCHANGED rows, Grows
  PROVE  MessagesMapped' /\ AnswersOwned' /\ AnswersBooked'
<1> USE DEF IndInv, rows
<1>1. \A v \in Verifies : Len(sent[v]) \in Nat /\ Len(sent'[v]) \in Nat /\ msg[v] \in Nat
  BY BoundsAssumption DEF TypeOK, Grows
<1>2. MessagesMapped'
  BY <1>1 DEF MessagesMapped, Grows
<1>3. AnswersOwned'
  BY ShownStays DEF AnswersOwned
<1>4. AnswersBooked'
  BY DEF AnswersBooked
<1> QED BY <1>2, <1>3, <1>4

\* A message about a verify that is in the queue is none of the admissions'.
LEMMA AdmissionsQuiet ==
  ASSUME IndInv, UNCHANGED <<status, assignee, core>>,
         \A v \in Verifies : msg'[v] # msg[v] => status[v] # "waiting",
         \/ UNCHANGED sent
         \/ \E v \in Verifies, a \in Associates, kind \in {"card", "prompt"} :
               status[v] # "waiting" /\ Deliver(v, a, kind)
  PROVE  AdmissionsOpen'
<1> USE DEF IndInv, core
<1>1. CASE UNCHANGED sent
  BY <1>1 DEF AdmissionsOpen, LastSent
<1>2. ASSUME NEW v \in Verifies, NEW a \in Associates, NEW kind \in {"card", "prompt"},
             status[v] # "waiting", Deliver(v, a, kind)
      PROVE  AdmissionsOpen'
  <2>1. Len(sent'[v]) <= MaxMessages /\ \A u \in Verifies \ {v} : sent'[u] = sent[u]
    BY <1>2, Delivered
  <2>2. pc[v] = "none"
    BY <1>2 DEF AdmissionsOpen
  <2> QED BY <1>2, <2>1, <2>2 DEF AdmissionsOpen, LastSent
<1> QED BY <1>1, <1>2

\* The bot's hand while the core works: rows leave the queue or enter it, and
\* what is in hand is neither waiting nor written about by anyone else.
LEMMA BotQuiet ==
  ASSUME IndInv, UNCHANGED bot, Grows,
         \A v \in Verifies : status[v] # "waiting" =>
            /\ assignee'[v] = assignee[v] /\ sent'[v] = sent[v]
            /\ status'[v] \in {status[v], "expired"}
  PROVE  QueueHeld' /\ HandHeld'
<1> USE DEF IndInv
<1>1. bot.rest \subseteq Verifies /\ bot \in Handler
  BY DEF TypeOK, Handler
<1>2. QueueHeld'
  BY <1>1 DEF QueueHeld
<1>3. HandHeld'
  BY <1>1 DEF HandHeld, LastSent, Shown
<1> QED BY <1>2, <1>3

-----------------------------------------------------------------------------
(***************************************************************************)
(* The core's steps.                                                       *)
(***************************************************************************)

\* What Admit does, by Select or by CommitAdmission: v enters the queue, no
\* one's or with a card in the assignee's chat.
LEMMA AdmitStep ==
  ASSUME IndInv, NEW v \in Verifies, status[v] = "waiting",
         NEW a \in Associates \cup {Null}, NEW m \in 0..MaxMessages,
         Admit(v, a, m), UNCHANGED <<staff, sent, bot>>,
         m # 0 => m <= Len(sent[v]) /\ sent[v][m].to = a
  PROVE  IndInv'
<1> USE DEF IndInv, staff, Admit
<1>1. TypeOK'
  BY DEF TypeOK
<1>2. Grows
  BY ChatsGrow
<1>3. AdmissionsOpen'
  BY DEF AdmissionsOpen, LastSent, TypeOK
<1>4. CardsFirst' /\ QueueHeld' /\ HandHeld'
  BY <1>2, BotQuiet, CardsStayFirst DEF TypeOK
<1>5. MessagesMapped'
  BY DEF MessagesMapped, TypeOK
<1>6. AnswersOwned' /\ AnswersBooked'
  BY DEF AnswersOwned, AnswersBooked, Shown, TypeOK
<1> QED BY <1>1, <1>3, <1>4, <1>5, <1>6

LEMMA SelectStep ==
  ASSUME IndInv, NEW v \in Verifies, Select(v) PROVE IndInv'
<1>1. CASE Best = {}
  <2>1. Admit(v, Null, 0) /\ status[v] = "waiting" /\ UNCHANGED <<staff, sent, bot>>
    BY <1>1 DEF Select
  <2>2. Null \in Associates \cup {Null} /\ 0 \in 0..MaxMessages
    BY BoundsAssumption
  <2> QED BY <2>1, <2>2, AdmitStep
<1>2. CASE Best # {}
  <2> USE DEF IndInv
  <2>1. /\ status[v] = "waiting" /\ pc' = [pc EXCEPT ![v] = "selected"]
        /\ UNCHANGED <<rows, staff, sent, bot>>
    BY <1>2 DEF Select
  <2>2. PICK a \in Associates : picked' = [picked EXCEPT ![v] = a]
    BY <1>2 DEF Select, Best, Eligible, TypeOK
  <2>3. TypeOK'
    BY <2>1, <2>2 DEF TypeOK, rows, staff
  <2>4. Grows
    BY <2>1, ChatsGrow
  <2>5. AdmissionsOpen'
    BY <2>1, <2>2 DEF AdmissionsOpen, LastSent, TypeOK, rows
  <2>6. CardsFirst' /\ QueueHeld' /\ HandHeld'
    BY <2>1, <2>4, BotQuiet, CardsStayFirst DEF rows
  <2>7. MessagesMapped' /\ AnswersOwned' /\ AnswersBooked'
    BY <2>1, <2>4, RowsQuiet
  <2> QED BY <2>3, <2>5, <2>6, <2>7
<1> QED BY <1>1, <1>2

LEMMA AssignStep ==
  ASSUME IndInv, NEW v \in Verifies, Assign(v) PROVE IndInv'
<1> USE DEF IndInv, Assign
<1>1. TypeOK'
  BY DEF TypeOK, rows, staff
<1>2. Grows
  BY ChatsGrow
<1>3. AdmissionsOpen'
  BY DEF AdmissionsOpen, LastSent, TypeOK, rows
<1>4. CardsFirst' /\ QueueHeld' /\ HandHeld'
  BY <1>2, BotQuiet, CardsStayFirst DEF rows
<1>5. MessagesMapped' /\ AnswersOwned' /\ AnswersBooked'
  BY <1>2, RowsQuiet
<1> QED BY <1>1, <1>3, <1>4, <1>5

LEMMA SendCardStep ==
  ASSUME IndInv, NEW v \in Verifies, SendCard(v) PROVE IndInv'
<1> USE DEF IndInv
<1>1. /\ pc[v] = "assigned" /\ status[v] = "waiting" /\ picked[v] \in Associates
      /\ UNCHANGED <<rows, staff, bot>>
      /\ UNCHANGED sent \/ Deliver(v, picked[v], "card")
      /\ \E p \in {"none", "delivered", "undelivered"} :
           pc' = [pc EXCEPT ![v] = p] /\ (p = "delivered" => Deliver(v, picked[v], "card"))
      /\ (picked' = [picked EXCEPT ![v] = Null] /\ pc'[v] = "none") \/ UNCHANGED picked
  BY DEF SendCard, AdmissionsOpen, Rollback, TypeOK
<1>2. Grows
  BY <1>1, ChatsGrow
<1>3. TypeOK'
  BY <1>1, <1>2 DEF TypeOK, rows, staff, Grows
<1>4. \A u \in Verifies \ {v} :
         sent'[u] = sent[u] /\ pc'[u] = pc[u] /\ picked'[u] = picked[u]
  <2>1. \A u \in Verifies \ {v} : sent'[u] = sent[u]
    BY <1>1, Delivered
  <2> QED BY <1>1, <2>1 DEF TypeOK
<1>5. /\ Len(sent'[v]) <= MaxMessages
      /\ pc'[v] # "none" => picked'[v] = picked[v]
      /\ pc'[v] = "delivered" =>
           Len(sent'[v]) > 0 /\ sent'[v][Len(sent'[v])] = [to |-> picked[v], kind |-> "card"]
  <2>1. Len(sent'[v]) <= MaxMessages
    BY <1>2 DEF Grows, AdmissionsOpen
  <2>2. pc'[v] # "none" => picked'[v] = picked[v]
    BY <1>1
  <2>3. CASE pc'[v] = "delivered"
    <3>1. Deliver(v, picked[v], "card")
      BY <1>1, <2>3 DEF TypeOK
    <3>2. /\ Len(sent'[v]) = Len(sent[v]) + 1
          /\ sent'[v][Len(sent'[v])] = [to |-> picked[v], kind |-> "card"]
      BY <1>1, <3>1, Delivered
    <3>3. Len(sent[v]) \in Nat
      BY DEF TypeOK
    <3> QED BY <2>1, <2>2, <3>2, <3>3
  <2> QED BY <2>1, <2>2, <2>3
<1>6. AdmissionsOpen'
  BY <1>1, <1>4, <1>5 DEF AdmissionsOpen, LastSent, TypeOK, rows
<1>7. CardsFirst' /\ QueueHeld' /\ HandHeld'
  BY <1>1, <1>2, <1>4, BotQuiet, CardsStayFirst DEF rows
<1>8. MessagesMapped' /\ AnswersOwned' /\ AnswersBooked'
  BY <1>1, <1>2, RowsQuiet
<1> QED BY <1>3, <1>6, <1>7, <1>8

LEMMA CommitStep ==
  ASSUME IndInv, NEW v \in Verifies, CommitAdmission(v) PROVE IndInv'
<1> USE DEF IndInv
<1>1. status[v] = "waiting" /\ picked[v] \in Associates /\ UNCHANGED <<staff, sent, bot>>
  BY DEF CommitAdmission, AdmissionsOpen
<1>2. CASE pc[v] = "delivered"
  <2> DEFINE m == Len(sent[v])
  <2>1. m \in Nat /\ m > 0 /\ m <= MaxMessages
    BY <1>2 DEF AdmissionsOpen, TypeOK
  <2>2. sent[v][m].to = picked[v]
    <3>1. sent[v][m] = [to |-> picked[v], kind |-> "card"]
      BY <1>2 DEF AdmissionsOpen, LastSent
    <3> QED BY ONLY <3>1
  <2>3. Admit(v, picked[v], m)
    BY <1>2 DEF CommitAdmission
  <2>4. m \in 0..MaxMessages /\ m <= Len(sent[v])
    BY <2>1, BoundsAssumption
  <2> HIDE DEF m
  <2> QED BY <1>1, <2>2, <2>3, <2>4, AdmitStep
<1>3. CASE pc[v] = "undelivered"
  <2>1. Admit(v, Null, 0)
    BY <1>3 DEF CommitAdmission
  <2>2. Null \in Associates \cup {Null} /\ 0 \in 0..MaxMessages
    BY BoundsAssumption
  <2> QED BY <1>1, <2>1, <2>2, AdmitStep
<1> QED BY <1>2, <1>3 DEF CommitAdmission

LEMMA ExpireStep ==
  ASSUME IndInv, NEW v \in Verifies, Expire(v) PROVE IndInv'
<1> USE DEF IndInv, Expire
<1>1. TypeOK'
  BY DEF TypeOK, staff, core
<1>2. Grows
  BY ChatsGrow
<1>3. AdmissionsOpen'
  BY DEF AdmissionsOpen, LastSent, TypeOK, core
<1>4. CardsFirst' /\ QueueHeld' /\ HandHeld'
  BY <1>2, BotQuiet, CardsStayFirst DEF TypeOK
<1>5. MessagesMapped'
  BY DEF MessagesMapped, TypeOK
<1>6. AnswersOwned' /\ AnswersBooked'
  BY DEF AnswersOwned, AnswersBooked, Shown, TypeOK
<1> QED BY <1>1, <1>3, <1>4, <1>5, <1>6

LEMMA CrashStep == ASSUME IndInv, CoreCrash PROVE IndInv'
<1> USE DEF IndInv, CoreCrash
<1>1. TypeOK'
  BY DEF TypeOK, rows, staff
<1>2. Grows
  BY ChatsGrow
<1>3. AdmissionsOpen'
  BY DEF AdmissionsOpen, rows
<1>4. CardsFirst' /\ QueueHeld' /\ HandHeld'
  BY <1>2, BotQuiet, CardsStayFirst DEF rows
<1>5. MessagesMapped' /\ AnswersOwned' /\ AnswersBooked'
  BY <1>2, RowsQuiet
<1> QED BY <1>1, <1>3, <1>4, <1>5

-----------------------------------------------------------------------------
(***************************************************************************)
(* The bot's steps.                                                        *)
(***************************************************************************)

\* The steps that write no row and send no message: a new handler, the end of
\* one, the stamp, and the associates' own settings.
LEMMA QuietBotStep ==
  ASSUME IndInv, UNCHANGED <<rows, sent, core>>, TypeOK', QueueHeld', HandHeld'
  PROVE  IndInv'
<1> USE DEF IndInv
<1>1. Grows
  BY ChatsGrow
<1>2. AdmissionsOpen' /\ CardsFirst'
  BY AdmissionsQuiet, CardsStayFirst DEF rows
<1>3. MessagesMapped' /\ AnswersOwned' /\ AnswersBooked'
  BY <1>1, RowsQuiet
<1> QED BY <1>2, <1>3

LEMMA StaffStep ==
  ASSUME IndInv, NEW a \in Associates, Add(a) \/ Remove(a) \/ Busy(a)
  PROVE  IndInv'
<1> USE DEF IndInv
<1>1. UNCHANGED <<rows, sent, core, bot>>
  BY DEF Add, Remove, Busy
<1>2. TypeOK'
  BY DEF TypeOK, rows, core, Add, Remove, Busy
<1>3. Grows
  BY <1>1, ChatsGrow
<1>4. QueueHeld' /\ HandHeld'
  BY <1>1, <1>3, BotQuiet DEF rows
<1> QED BY <1>1, <1>2, <1>4, QuietBotStep

LEMMA AvailableStep ==
  ASSUME IndInv, NEW a \in Associates, Available(a) PROVE IndInv'
<1> USE DEF IndInv
<1>1. UNCHANGED <<rows, active, sent, core>> /\ available' = available \cup {a} /\ a \in active
  BY DEF Available
<1>2. PICK rest \in SUBSET UnassignedPending :
         bot.at = "idle" /\ bot' = [at |-> "pull", who |-> a, verify |-> Null, rest |-> rest]
  BY DEF Available, Begin
<1>3. rest \subseteq Verifies
  BY DEF UnassignedPending
<1>4. TypeOK'
  BY <1>1, <1>2, <1>3 DEF TypeOK, Handler, rows, core
<1>5. QueueHeld' /\ HandHeld'
  BY <1>1, <1>2, <1>3, NullAssumption DEF QueueHeld, HandHeld, UnassignedPending, rows
<1> QED BY <1>1, <1>4, <1>5, QuietBotStep

LEMMA PressOrReplyStep ==
  ASSUME IndInv, NEW a \in Associates, NEW v \in Verifies,
         Press(a, v) \/ \E n \in 1..MaxMessages : Reply(a, v, n)
  PROVE  IndInv'
<1> USE DEF IndInv
<1>1. /\ UNCHANGED <<rows, staff, sent, core>>
      /\ \E at \in {"prompt", "resolve"} :
           bot' = [at |-> at, who |-> a, verify |-> v, rest |-> {}]
      /\ assignee[v] = a /\ status[v] = "pending"
  BY DEF Press, Reply, Begin, OwnPending
<1>2. Shown(a, v)
  BY DEF Press, Reply, CardsFirst
<1>3. TypeOK'
  BY <1>1 DEF TypeOK, Handler, rows, staff, core
<1>4. QueueHeld' /\ HandHeld'
  BY <1>1, <1>2 DEF QueueHeld, HandHeld, Shown, rows
<1> QED BY <1>1, <1>3, <1>4, QuietBotStep

LEMMA StampStep == ASSUME IndInv, Stamp PROVE IndInv'
<1> USE DEF IndInv, Stamp
<1>1. UNCHANGED <<rows, sent, core>>
  OBVIOUS
<1>2. TypeOK'
  BY DEF TypeOK, Handler, rows, staff, core
<1>3. QueueHeld' /\ HandHeld'
  BY DEF QueueHeld, HandHeld, LastSent, Shown, TypeOK, Handler, rows
<1> QED BY <1>1, <1>2, <1>3, QuietBotStep

LEMMA BotFailsStep == ASSUME IndInv, BotFails PROVE IndInv'
<1> USE DEF IndInv, BotFails, Done, Idle
<1>1. UNCHANGED <<rows, sent, core>>
  OBVIOUS
<1>2. TypeOK'
  BY DEF TypeOK, Handler, rows, staff, core
<1>3. QueueHeld' /\ HandHeld'
  BY DEF QueueHeld, HandHeld
<1> QED BY <1>1, <1>2, <1>3, QuietBotStep

\* Sending, under the bot's hand: the message goes to whom the bot serves, about
\* the verify in hand, which is in the queue.
LEMMA SendStep ==
  ASSUME IndInv, UNCHANGED <<rows, staff, core>>, bot.at \in {"send", "prompt"},
         NEW kind \in {"card", "prompt"}, kind = "card" \/ bot.at = "prompt",
         NEW at \in {"idle", "pull", "point", "repoint"},
         UNCHANGED sent \/ Deliver(bot.verify, bot.who, kind),
         bot' \in Handler, bot'.at = at,
         at = "idle" => bot'.rest = {},
         at # "idle" => bot'.who = bot.who /\ bot'.rest = bot.rest,
         at = "pull" => bot'.verify = Null,
         at \in {"point", "repoint"} => bot'.verify = bot.verify,
         at = "point" => bot.at = "send", at = "repoint" => bot.at = "prompt",
         at \in {"point", "repoint"} => Deliver(bot.verify, bot.who, kind)
  PROVE  IndInv'
<1> USE DEF IndInv
<1>1. bot.who \in Associates /\ bot.verify \in Verifies /\ status[bot.verify] # "waiting"
  BY DEF HandHeld
<1>2. bot.at = "prompt" => Shown(bot.who, bot.verify)
  BY DEF HandHeld
<1>3. Grows
  BY <1>1, ChatsGrow
<1>4. AdmissionsOpen'
  BY <1>1, AdmissionsQuiet DEF rows
<1>5. CardsFirst'
  BY <1>1, <1>2, CardsStayFirst
<1>6. MessagesMapped' /\ AnswersOwned' /\ AnswersBooked'
  BY <1>3, RowsQuiet
<1>7. TypeOK'
  BY <1>3 DEF TypeOK, rows, staff, core, Grows
<1>8. QueueHeld'
  <2>1. bot.rest \subseteq Verifies
    BY DEF TypeOK, Handler
  <2> QED BY <2>1, NullAssumption DEF QueueHeld, rows
<1>9. HandHeld'
  <2>1. CASE at \in {"idle", "pull"}
    BY <1>1, <2>1 DEF HandHeld
  <2>2. CASE at \in {"point", "repoint"}
    <3> DEFINE v == bot.verify
    <3>1. Len(sent'[v]) > 0 /\ sent'[v][Len(sent'[v])] = [to |-> bot.who, kind |-> kind]
      <4>1. Deliver(bot.verify, bot.who, kind)
        BY <2>2
      <4>3. /\ Len(sent'[v]) = Len(sent[v]) + 1
            /\ sent'[v][Len(sent'[v])] = [to |-> bot.who, kind |-> kind]
        BY <1>1, <4>1, Delivered
      <4>2. Len(sent[v]) \in Nat
        BY <1>1 DEF TypeOK
      <4> QED BY <4>2, <4>3
    <3>2. sent'[v][Len(sent'[v])].to = bot.who
      BY ONLY <3>1
    <3>3. bot'.who = bot.who /\ bot'.verify = v /\ bot'.at = at
      BY <2>2
    <3>4. Shown(bot.who, v) =>
             \E n \in 1..Len(sent'[v]) : sent'[v][n] = [to |-> bot.who, kind |-> "card"]
      <4>1. \A a \in Associates, u \in Verifies : Shown(a, u) =>
               \E n \in 1..Len(sent'[u]) : sent'[u][n] = [to |-> a, kind |-> "card"]
        BY <1>3, ShownStays DEF Shown
      <4> QED BY <1>1, <4>1
    <3>5. at = "point" => assignee[v] = bot.who \/ (assignee[v] = Null /\ status[v] = "expired")
      BY DEF HandHeld
    <3>6. at = "repoint" => assignee[v] = bot.who /\ Shown(bot.who, v)
      BY DEF HandHeld
    <3> QED BY <1>1, <2>2, <3>1, <3>2, <3>3, <3>4, <3>5, <3>6 DEF HandHeld, LastSent, Shown, rows
  <2> QED BY <2>1, <2>2
<1> QED BY <1>4, <1>5, <1>6, <1>7, <1>8, <1>9

LEMMA SendPulledStep == ASSUME IndInv, SendPulled PROVE IndInv'
<1>1. bot \in Handler /\ bot.at = "send" /\ UNCHANGED <<rows, staff, core>>
  BY DEF SendPulled, IndInv, TypeOK
<1>2. CASE Deliver(bot.verify, bot.who, "card") /\ bot' = [bot EXCEPT !.at = "point"]
  <2>1. /\ bot' \in Handler /\ bot'.at = "point" /\ bot'.verify = bot.verify
        /\ bot'.who = bot.who /\ bot'.rest = bot.rest
    BY <1>1, <1>2 DEF Handler
  <2> QED BY <1>1, <1>2, <2>1, SendStep
<1>3. CASE bot' = [bot EXCEPT !.at = "pull", !.verify = Null] /\ UNCHANGED sent
  <2>1. /\ bot' \in Handler /\ bot'.at = "pull" /\ bot'.verify = Null
        /\ bot'.who = bot.who /\ bot'.rest = bot.rest
    BY <1>1, <1>3 DEF Handler
  <2> QED BY <1>1, <1>3, <2>1, SendStep
<1>4. CASE Done /\ (Deliver(bot.verify, bot.who, "card") \/ UNCHANGED sent)
  <2>1. bot' \in Handler /\ bot'.at = "idle" /\ bot'.rest = {}
    BY <1>4 DEF Done, Idle, Handler
  <2> QED BY <1>1, <1>4, <2>1, SendStep
<1> QED BY <1>2, <1>3, <1>4 DEF SendPulled

LEMMA PromptStep == ASSUME IndInv, Prompt PROVE IndInv'
<1>1. bot \in Handler /\ bot.at = "prompt" /\ UNCHANGED <<rows, staff, core>>
  BY DEF Prompt, IndInv, TypeOK
<1>2. CASE Deliver(bot.verify, bot.who, "prompt") /\ bot' = [bot EXCEPT !.at = "repoint"]
  <2>1. /\ bot' \in Handler /\ bot'.at = "repoint" /\ bot'.verify = bot.verify
        /\ bot'.who = bot.who /\ bot'.rest = bot.rest
    BY <1>1, <1>2 DEF Handler
  <2> QED BY <1>1, <1>2, <2>1, SendStep
<1>3. CASE Done /\ UNCHANGED sent
  <2>1. bot' \in Handler /\ bot'.at = "idle" /\ bot'.rest = {}
    BY <1>3 DEF Done, Idle, Handler
  <2> QED BY <1>1, <1>3, <2>1, SendStep
<1> QED BY <1>2, <1>3 DEF Prompt

\* The verify is taken out of the queue for the associate who asked, unless it
\* has left the queue meanwhile, which it can have done only by expiring.
LEMMA PullNextStep == ASSUME IndInv, PullNext PROVE IndInv'
<1> USE DEF IndInv
<1>1. /\ bot \in Handler /\ bot.at = "pull" /\ bot.who \in Associates
      /\ UNCHANGED <<status, msg, ledger, answeredBy, staff, sent, core>>
  BY DEF PullNext, TypeOK, HandHeld
<1>2. CASE bot.rest = {}
  <2>1. UNCHANGED rows /\ bot' = Idle
    BY <1>1, <1>2 DEF PullNext, Done, rows
  <2>2. TypeOK'
    BY <1>1, <2>1 DEF TypeOK, Handler, Idle, rows, staff, core
  <2>3. QueueHeld' /\ HandHeld'
    BY <2>1 DEF QueueHeld, HandHeld, Idle
  <2> QED BY <1>1, <2>1, <2>2, <2>3, QuietBotStep
<1>3. CASE bot.rest # {}
  <2>1. PICK v \in bot.rest :
          /\ bot' = [bot EXCEPT !.at = "stamp", !.verify = v, !.rest = @ \ {v}]
          /\ assignee' = IF status[v] = "pending"
                         THEN [assignee EXCEPT ![v] = bot.who] ELSE assignee
    BY <1>3 DEF PullNext
  <2>2. /\ v \in Verifies /\ status[v] \in {"pending", "expired"} /\ assignee[v] = Null
        /\ bot.rest \subseteq Verifies
    BY <1>1, NullAssumption DEF TypeOK, Handler, QueueHeld, AnswersOwned
  <2>3. /\ bot' \in Handler /\ bot'.at = "stamp" /\ bot'.verify = v
        /\ bot'.who = bot.who /\ bot'.rest = bot.rest \ {v}
    BY <1>1, <2>1, <2>2 DEF Handler
  <2>4. /\ assignee' \in [Verifies -> Associates \cup {Null}]
        /\ assignee'[v] = IF status[v] = "pending" THEN bot.who ELSE Null
        /\ \A u \in Verifies \ {v} : assignee'[u] = assignee[u]
    BY <1>1, <2>1, <2>2 DEF TypeOK
  <2>5. TypeOK'
    BY <1>1, <2>3, <2>4 DEF TypeOK, staff, core
  <2>6. AdmissionsOpen' /\ CardsFirst'
    BY <1>1, <2>2, <2>4 DEF AdmissionsOpen, CardsFirst, LastSent, Shown, core
  <2>7. QueueHeld'
    BY <1>1, <2>2, <2>3, <2>4 DEF QueueHeld
  <2>8. HandHeld'
    BY <1>1, <2>2, <2>3, <2>4 DEF HandHeld
  <2>9. MessagesMapped'
    <3>1. status[v] = "pending" => msg[v] = 0
      <4>1. \A n \in 1..Len(sent[v]) : sent[v][n].to \in Associates
        <5>1. sent[v] \in Seq(Message)
          BY <2>2 DEF TypeOK
        <5>2. \A n \in 1..Len(sent[v]) : sent[v][n] \in Message
          BY <5>1
        <5>3. \A m \in Message : m.to \in Associates
          BY DEF Message
        <5> QED BY <5>2, <5>3
      <4>2. msg[v] \in Nat
        BY <2>2, BoundsAssumption DEF TypeOK
      <4> QED BY <2>2, <4>1, <4>2, NullAssumption DEF MessagesMapped
    <3> QED BY <1>1, <2>2, <2>4, <3>1 DEF MessagesMapped
  <2>10. AnswersOwned' /\ AnswersBooked'
    BY <1>1, <2>2, <2>4 DEF AnswersOwned, AnswersBooked, Shown
  <2> QED BY <2>5, <2>6, <2>7, <2>8, <2>9, <2>10
<1> QED BY <1>2, <1>3

\* The mapping is moved to the message just sent.
LEMMA MapStep ==
  ASSUME IndInv, bot.at \in {"point", "repoint"},
         msg' = [msg EXCEPT ![bot.verify] = Len(sent[bot.verify])],
         UNCHANGED <<status, assignee, ledger, answeredBy, staff, sent, core>>,
         bot' \in Handler, bot'.at \in {"idle", "pull"},
         bot'.at = "idle" => bot'.rest = {},
         bot'.at = "pull" => bot'.rest = bot.rest /\ bot'.who = bot.who /\ bot'.verify = Null
  PROVE  IndInv'
<1> USE DEF IndInv
<1> DEFINE v == bot.verify
<1>1. /\ bot \in Handler /\ bot.who \in Associates /\ v \in Verifies
      /\ status[v] # "waiting" /\ Len(sent[v]) > 0 /\ sent[v][Len(sent[v])].to = bot.who
      /\ assignee[v] = bot.who \/ (assignee[v] = Null /\ status[v] = "expired")
  BY DEF TypeOK, HandHeld, LastSent
<1>2. Len(sent[v]) \in 0..MaxMessages
  BY <1>1, BoundsAssumption DEF TypeOK, AdmissionsOpen
<1>3. TypeOK'
  BY <1>1, <1>2 DEF TypeOK, staff, core
<1>4. AdmissionsOpen' /\ CardsFirst'
  BY <1>1 DEF AdmissionsOpen, CardsFirst, LastSent, Shown, TypeOK, core
<1>5. QueueHeld' /\ HandHeld'
  BY <1>1, NullAssumption DEF QueueHeld, HandHeld, TypeOK, Handler
<1>6. MessagesMapped'
  BY <1>1, <1>2 DEF MessagesMapped, TypeOK
<1>7. AnswersOwned' /\ AnswersBooked'
  BY DEF AnswersOwned, AnswersBooked, Shown
<1> QED BY <1>3, <1>4, <1>5, <1>6, <1>7

LEMMA PointStep == ASSUME IndInv, Point \/ Repoint PROVE IndInv'
<1>1. bot \in Handler
  BY DEF IndInv, TypeOK
<1>2. CASE Point
  <2>1. /\ bot' \in Handler /\ bot'.at = "pull" /\ bot'.verify = Null
        /\ bot'.who = bot.who /\ bot'.rest = bot.rest
    BY <1>1, <1>2 DEF Point, Handler
  <2> QED BY <1>2, <2>1, MapStep DEF Point
<1>3. CASE Repoint
  <2>1. bot' \in Handler /\ bot'.at = "idle" /\ bot'.rest = {}
    BY <1>3 DEF Repoint, Done, Idle, Handler
  <2> QED BY <1>3, <2>1, MapStep DEF Repoint
<1> QED BY <1>2, <1>3

\* The answer and its earning are one transaction, and the verify is still the
\* handler's.
LEMMA ResolveStep == ASSUME IndInv, Resolve PROVE IndInv'
<1> USE DEF IndInv
<1> DEFINE v == bot.verify
<1>1. /\ bot.who \in Associates /\ v \in Verifies /\ assignee[v] = bot.who
      /\ Shown(bot.who, v) /\ bot' = Idle
      /\ UNCHANGED <<assignee, msg, staff, sent, core>>
  BY DEF Resolve, Done, HandHeld
<1>2. CASE status[v] # "pending"
  <2>1. UNCHANGED rows
    BY <1>1, <1>2 DEF Resolve, rows
  <2>2. TypeOK'
    BY <1>1, <2>1 DEF TypeOK, Handler, Idle, rows, staff, core
  <2>3. QueueHeld' /\ HandHeld'
    BY <1>1 DEF QueueHeld, HandHeld, Idle
  <2> QED BY <1>1, <2>1, <2>2, <2>3, QuietBotStep
<1>3. CASE status[v] = "pending"
  <2>1. /\ status' = [status EXCEPT ![v] = "answered"]
        /\ answeredBy' = [answeredBy EXCEPT ![v] = bot.who]
    BY <1>3 DEF Resolve
  <2>2. \A e \in ledger : e.verify # v
    BY <1>3 DEF AnswersBooked
  <2>3. ledger' = ledger \cup {[verify |-> v, associate |-> bot.who]}
    BY <1>1, <1>3, <2>2, NullAssumption DEF Resolve, Credit
  <2>4. TypeOK'
    BY <1>1, <2>1, <2>3 DEF TypeOK, Handler, Idle, Earning, staff, core
  <2>5. AdmissionsOpen' /\ CardsFirst'
    BY <1>1, <1>3, <2>1 DEF AdmissionsOpen, CardsFirst, LastSent, Shown, TypeOK, core
  <2>6. QueueHeld' /\ HandHeld'
    BY <1>1 DEF QueueHeld, HandHeld, Idle
  <2>7. MessagesMapped'
    BY <1>1, <1>3, <2>1 DEF MessagesMapped, TypeOK
  <2>8. AnswersOwned'
    BY <1>1, <2>1 DEF AnswersOwned, Shown, TypeOK
  <2>9. AnswersBooked'
    BY <1>1, <1>3, <2>1, <2>3 DEF AnswersBooked, TypeOK
  <2> QED BY <2>4, <2>5, <2>6, <2>7, <2>8, <2>9
<1> QED BY <1>2, <1>3

-----------------------------------------------------------------------------

THEOREM InvStep == IndInv /\ [Next]_vars => IndInv'
<1> SUFFICES ASSUME IndInv, [Next]_vars PROVE IndInv'
  OBVIOUS
<1>1. ASSUME NEW v \in Verifies, CoreStep(v) \/ Expire(v) PROVE IndInv'
  BY <1>1, SelectStep, AssignStep, SendCardStep, CommitStep, ExpireStep DEF CoreStep
<1>2. CASE CoreCrash
  BY <1>2, CrashStep
<1>3. CASE Update
  BY <1>3, StaffStep, AvailableStep, PressOrReplyStep DEF Update
<1>4. CASE BotStep
  BY <1>4, PullNextStep, StampStep, SendPulledStep, PointStep, PromptStep, ResolveStep DEF BotStep
<1>5. CASE BotFails
  BY <1>5, BotFailsStep
<1>6. CASE UNCHANGED vars
  <2>1. UNCHANGED <<rows, staff, sent, core, bot>>
    BY <1>6 DEF vars
  <2>2. TypeOK' /\ QueueHeld' /\ HandHeld'
    BY <2>1 DEF IndInv, TypeOK, QueueHeld, HandHeld, LastSent, Shown, rows, staff, core
  <2> QED BY <2>1, <2>2, QuietBotStep
<1> QED BY <1>1, <1>2, <1>3, <1>4, <1>5, <1>6 DEF Next

THEOREM InvCorrect == Spec => []IndInv
  BY InitInv, InvStep, PTL DEF Spec

-----------------------------------------------------------------------------
(***************************************************************************)
(* What follows.                                                           *)
(***************************************************************************)

\* Type correctness, for any numbers of verifies, associates and messages.
THEOREM TypeCorrect == Spec => []TypeOK
  BY InvCorrect, PTL DEF IndInv

\* One ledger row per answered verify, for who answered it and had its card.
THEOREM AnswererPaid == Spec => []LedgerPaysAnswerer
<1>1. IndInv => LedgerPaysAnswerer
  BY DEF IndInv, AnswersOwned, AnswersBooked, LedgerPaysAnswerer
<1> QED BY <1>1, InvCorrect, PTL

\* A reply is matched against a message in the assignee's own chat.
THEOREM RepliesReach == Spec => []RepliesReachAssignee
<1>1. IndInv => RepliesReachAssignee
  BY DEF IndInv, MessagesMapped, RepliesReachAssignee
<1> QED BY <1>1, InvCorrect, PTL


\* The ways a step writes rows: an admission that has sent its card or names no
\* one, the expiry, an assignment of a verify that is no one's, an answer of one
\* that is pending, and what leaves outcome, assignee and ledger alone.
RowWrite ==
    \/ \E v \in Verifies, a \in Associates \cup {Null} :
          /\ status[v] = "waiting" /\ assignee[v] = Null
          /\ a = Null \/ Shown(a, v)
          /\ status' = [status EXCEPT ![v] = "pending"]
          /\ assignee' = [assignee EXCEPT ![v] = a]
          /\ UNCHANGED ledger
    \/ \E v \in Verifies :
          /\ status[v] = "pending" /\ status' = [status EXCEPT ![v] = "expired"]
          /\ UNCHANGED <<assignee, ledger>>
    \/ \E v \in Verifies :
          /\ assignee[v] = Null /\ assignee' = [assignee EXCEPT ![v] = bot.who]
          /\ UNCHANGED <<status, ledger>>
    \/ \E v \in Verifies :
          /\ status[v] = "pending" /\ status' = [status EXCEPT ![v] = "answered"]
          /\ ledger \subseteq ledger' /\ \A e \in ledger' \ ledger : e.verify = v
          /\ UNCHANGED assignee
    \/ UNCHANGED <<status, assignee, ledger>>

LEMMA AdmitWrites ==
  ASSUME IndInv, NEW v \in Verifies, Select(v) \/ CommitAdmission(v)
  PROVE  RowWrite
<1> USE DEF IndInv
<1>1. CASE Select(v) /\ Best = {}
  BY <1>1 DEF Select, Admit, AdmissionsOpen, RowWrite
<1>2. CASE Select(v) /\ Best # {}
  BY <1>2 DEF Select, rows, RowWrite
<1>3. CASE CommitAdmission(v)
  <2>1. status[v] = "waiting" /\ assignee[v] = Null /\ picked[v] \in Associates
    BY <1>3 DEF CommitAdmission, AdmissionsOpen
  <2>2. CASE pc[v] = "undelivered"
    BY <1>3, <2>1, <2>2 DEF CommitAdmission, Admit, RowWrite
  <2>3. CASE pc[v] = "delivered"
    <3>1. Len(sent[v]) \in 1..Len(sent[v])
      BY <2>3 DEF AdmissionsOpen, TypeOK
    <3>2. sent[v][Len(sent[v])] = [to |-> picked[v], kind |-> "card"]
      BY <2>3 DEF AdmissionsOpen, LastSent
    <3>3. Shown(picked[v], v)
      BY <3>1, <3>2 DEF Shown
    <3> QED BY <1>3, <2>1, <2>3, <3>3 DEF CommitAdmission, Admit, RowWrite
  <2> QED BY <1>3, <2>2, <2>3 DEF CommitAdmission
<1> QED BY <1>1, <1>2, <1>3

LEMMA BotWrites == ASSUME IndInv, BotStep PROVE RowWrite
<1> USE DEF IndInv
<1>1. CASE PullNext
  <2>1. CASE bot.rest = {}
    BY <1>1, <2>1 DEF PullNext, RowWrite
  <2>2. ASSUME NEW v \in bot.rest,
               assignee' = IF status[v] = "pending"
                           THEN [assignee EXCEPT ![v] = bot.who] ELSE assignee
        PROVE  RowWrite
    <3>1. v \in Verifies /\ assignee[v] = Null
      BY DEF QueueHeld, TypeOK, Handler
    <3>2. UNCHANGED <<status, ledger>>
      BY <1>1 DEF PullNext
    <3> QED BY <2>2, <3>1, <3>2 DEF RowWrite
  <2> QED BY <1>1, <2>1, <2>2 DEF PullNext
<1>2. CASE Stamp \/ SendPulled \/ Point \/ Prompt \/ Repoint
  BY <1>2 DEF Stamp, SendPulled, Point, Prompt, Repoint, rows, RowWrite
<1>3. CASE Resolve /\ status[bot.verify] # "pending"
  BY <1>3 DEF Resolve, RowWrite
<1>4. CASE Resolve /\ status[bot.verify] = "pending"
  <2> DEFINE v == bot.verify
  <2>1. v \in Verifies /\ status' = [status EXCEPT ![v] = "answered"] /\ UNCHANGED assignee
    BY <1>4 DEF Resolve, HandHeld
  <2>2. ledger \subseteq ledger' /\ \A e \in ledger' \ ledger : e.verify = v
    BY <1>4 DEF Resolve, Credit
  <2> QED BY <1>4, <2>1, <2>2 DEF RowWrite
<1> QED BY <1>1, <1>2, <1>3, <1>4 DEF BotStep

LEMMA StepWrites == ASSUME IndInv, [Next]_vars PROVE RowWrite
<1>1. ASSUME NEW v \in Verifies, Assign(v) \/ SendCard(v) \/ Expire(v) PROVE RowWrite
  BY <1>1 DEF Assign, SendCard, Expire, rows, RowWrite
<1>2. CASE CoreCrash \/ Update \/ BotFails
  BY <1>2 DEF CoreCrash, Update, Add, Remove, Busy, Available, Press, Reply, BotFails, rows, RowWrite
<1>3. CASE UNCHANGED vars
  BY <1>3 DEF vars, rows, RowWrite
<1> QED BY <1>1, <1>2, <1>3, AdmitWrites, BotWrites DEF Next, CoreStep

\* An outcome is kept, and what it earned, whatever was read before it.
THEOREM OutcomesLast == Spec => OutcomeKept
<1> DEFINE P == \A v \in Verifies : status[v] \in {"answered", "expired"} =>
                  /\ status'[v] = status[v]
                  /\ {e \in ledger' : e.verify = v} = {e \in ledger : e.verify = v}
<1>1. ASSUME IndInv, RowWrite PROVE P
  BY <1>1 DEF RowWrite, IndInv, TypeOK
<1>2. IndInv /\ [Next]_vars => [P]_vars
  BY <1>1, StepWrites
<1> QED BY <1>2, InvCorrect, PTL DEF Spec, OutcomeKept

\* A verify that is someone's stays theirs.
THEOREM AssignmentsLast == Spec => AssignmentFinal
<1> DEFINE P == \A v \in Verifies : assignee[v] # Null => assignee'[v] = assignee[v]
<1>1. ASSUME IndInv, RowWrite PROVE P
  BY <1>1 DEF RowWrite, IndInv, TypeOK
<1>2. IndInv /\ [Next]_vars => [P]_vars
  BY <1>1, StepWrites
<1> QED BY <1>2, InvCorrect, PTL DEF Spec, AssignmentFinal

\* No admission commits in the name of an associate without the card.
THEOREM CardsPrecede == Spec => AdmittedWithCard
<1> DEFINE P == \A v \in Verifies : status[v] = "waiting" /\ status'[v] = "pending" =>
                  assignee'[v] = Null \/ (\E n \in 1..Len(sent[v]) :
                      sent[v][n] = [to |-> assignee'[v], kind |-> "card"])
<1>1. ASSUME IndInv, RowWrite PROVE P
  <2> SUFFICES ASSUME NEW v \in Verifies, status[v] = "waiting", status'[v] = "pending"
               PROVE  assignee'[v] = Null \/ (\E n \in 1..Len(sent[v]) :
                        sent[v][n] = [to |-> assignee'[v], kind |-> "card"])
    OBVIOUS
  <2>1. PICK a \in Associates \cup {Null} :
          (a = Null \/ Shown(a, v)) /\ assignee' = [assignee EXCEPT ![v] = a]
    BY <1>1 DEF RowWrite, IndInv, TypeOK
  <2> QED BY <1>1, <2>1 DEF Shown, IndInv, TypeOK
<1>2. IndInv /\ [Next]_vars => [P]_vars
  BY <1>1, StepWrites
<1> QED BY <1>2, InvCorrect, PTL DEF Spec, AdmittedWithCard

\* Of all statements only three kinds touch what Outcomes speaks of.
LEMMA StepPromises ==
  ASSUME IndInv, [Next]_vars
  PROVE  [Promise!Next]_(Promise!outcomes)
<1> USE DEF IndInv
<1>1. ASSUME UNCHANGED <<status, ledger>> PROVE UNCHANGED Promise!outcomes
  BY <1>1 DEF Promise!outcomes
<1>2. ASSUME NEW v \in Verifies, NEW a, NEW m, status[v] = "waiting", Admit(v, a, m)
      PROVE  Promise!Next
  <2>1. Promise!Enter(v)
    BY <1>2 DEF Admit, TypeOK, Promise!Enter, Promise!Move
  <2> QED BY <2>1 DEF Promise!Next
<1>3. ASSUME NEW v \in Verifies, CoreStep(v) PROVE [Promise!Next]_(Promise!outcomes)
  <2>1. CASE UNCHANGED <<status, ledger>>
    BY <1>1, <2>1
  <2>2. CASE ~UNCHANGED <<status, ledger>>
    <3>1. Select(v) \/ CommitAdmission(v)
      BY <1>3, <2>2 DEF CoreStep, Assign, SendCard, rows
    <3>2. status[v] = "waiting"
      BY <3>1 DEF Select, CommitAdmission, AdmissionsOpen
    <3>3. Admit(v, Null, 0) \/ Admit(v, picked[v], Len(sent[v]))
      BY <2>2, <3>1 DEF Select, CommitAdmission, rows
    <3> QED BY <1>2, <3>2, <3>3
  <2> QED BY <2>1, <2>2
<1>4. ASSUME NEW v \in Verifies, Expire(v) PROVE Promise!Next
  <2>1. Promise!Expire(v)
    BY <1>4 DEF Expire, TypeOK, Promise!Expire, Promise!Move
  <2> QED BY <2>1 DEF Promise!Next
<1>5. CASE Resolve /\ status[bot.verify] = "pending"
  <2>1. PICK v \in Verifies, a \in Associates : v = bot.verify /\ a = bot.who
    BY <1>5 DEF Resolve, HandHeld
  <2>2. assignee[v] = a /\ a # Null /\ \A e \in ledger : e.verify # v
    BY <1>5, <2>1, NullAssumption DEF Resolve, HandHeld, AnswersBooked
  <2>3. PICK row : row.verify = v /\ row.associate = a /\ ledger' = ledger \cup {row}
    BY <1>5, <2>1, <2>2 DEF Resolve, Credit
  <2>4. {<<e.verify, e.associate>> : e \in ledger}'
          = {<<e.verify, e.associate>> : e \in ledger} \cup {<<v, a>>}
    BY <2>3
  <2>5. Promise!Answer(v, a)
    BY <1>5, <2>1, <2>4 DEF Resolve, TypeOK, Promise!Answer, Promise!Move
  <2> QED BY <2>5 DEF Promise!Next
<1>6. CASE BotStep /\ ~(Resolve /\ status[bot.verify] = "pending")
  <2>1. UNCHANGED <<status, ledger>>
    BY <1>6 DEF BotStep, PullNext, Stamp, SendPulled, Point, Prompt, Repoint, Resolve, rows
  <2> QED BY <1>1, <2>1
<1>7. CASE CoreCrash \/ Update \/ BotFails \/ UNCHANGED vars
  <2>1. UNCHANGED <<status, ledger>>
    BY <1>7
    DEF CoreCrash, Update, Add, Remove, Busy, Available, Press, Reply, BotFails, vars, rows
  <2> QED BY <1>1, <2>1
<1> QED BY <1>3, <1>4, <1>5, <1>6, <1>7 DEF Next

(***************************************************************************)
(* Asking, by whatever cards and replies, comes to one answer with its one *)
(* earning, or to none: the first of the two refinements of Outcomes.      *)
(***************************************************************************)
THEOREM AnswersEarn == Spec => AnswersEarnOnce
<1>1. Init => Promise!Init
  BY DEF Init, Promise!Init
<1> QED BY <1>1, StepPromises, InvCorrect, PTL DEF Spec, AnswersEarnOnce, Promise!Spec
=============================================================================

------------------------------- MODULE Outcomes -------------------------------
(***************************************************************************)
(* What the core promises its associates: a chain in the queue is answered *)
(* by one of them or expires, and the answer and what it earns are one     *)
(* step.  How they are asked, by whom, for how much and at which rate is   *)
(* left to Routing and Earnings, which both implement it.                  *)
(***************************************************************************)
CONSTANTS Chains, Associates

VARIABLES
    place,  \* of each chain: "waiting", "queued", "answered", "expired"
    earned  \* pairs of a chain and the associate who has an earning for it

outcomes == <<place, earned>>

Init ==
    /\ place = [c \in Chains |-> "waiting"]
    /\ earned = {}

Move(c, from, to) ==
    /\ place[c] = from
    /\ place' = [place EXCEPT ![c] = to]

Enter(c) == Move(c, "waiting", "queued") /\ UNCHANGED earned

Expire(c) == Move(c, "queued", "expired") /\ UNCHANGED earned

Answer(c, a) ==
    /\ Move(c, "queued", "answered")
    /\ earned' = earned \cup {<<c, a>>}

Next ==
    \E c \in Chains : Enter(c) \/ Expire(c) \/ \E a \in Associates : Answer(c, a)

Spec == Init /\ [][Next]_outcomes
=============================================================================

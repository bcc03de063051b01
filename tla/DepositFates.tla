----------------------------- MODULE DepositFates -----------------------------
(***************************************************************************)
(* What a creator who sends a slot cost is promised, with no launcher,     *)
(* escrow or stake admin in sight. A season is decided once, as a whole:   *)
(* either it launches and every deposit in it becomes a token, or it is    *)
(* cancelled and every deposit goes back, pushed at once or owed until the *)
(* creator collects it. After that a deposit only moves forward.           *)
(***************************************************************************)
EXTENDS FiniteSets

CONSTANTS Seasons, Creators

VARIABLES
    outcome,   \* outcome[s]: whether the season is undecided, launched or cancelled
    place      \* place[<<s, c>>]: where the deposit of c in season s is

fates == <<outcome, place>>

Outcomes == {"open", "launched", "cancelled"}
Places == {"absent", "held", "deployed", "settled", "owed", "returned"}

Of(s) == {s} \X Creators

\* The deposits of D move from one place to another; the rest stay.
Move(D, from, to) ==
    /\ \A d \in D : place[d] \in from
    /\ place' = [d \in Seasons \X Creators |-> IF d \in D THEN to ELSE place[d]]

Init ==
    /\ outcome = [s \in Seasons |-> "open"]
    /\ place = [d \in Seasons \X Creators |-> "absent"]

Deposit(s, c) ==
    /\ outcome[s] = "open"
    /\ Move({<<s, c>>}, {"absent"}, "held")
    /\ UNCHANGED outcome

\* The last deposit the season needed arrives and all of them deploy.
Launch(s, c) ==
    /\ outcome[s] = "open"
    /\ Move({d \in Of(s) : place[d] = "held"} \cup {<<s, c>>}, {"absent", "held"}, "deployed")
    /\ outcome' = [outcome EXCEPT ![s] = "launched"]

\* In a launched season a deposit deploys as it arrives.
Join(s, c) ==
    /\ outcome[s] = "launched"
    /\ Move({<<s, c>>}, {"absent"}, "deployed")
    /\ UNCHANGED outcome

Cancel(s) ==
    /\ outcome[s] = "open"
    /\ outcome' = [outcome EXCEPT ![s] = "cancelled"]
    /\ \E owed \in SUBSET {d \in Of(s) : place[d] = "held"} :
          place' = [d \in Seasons \X Creators |->
                       IF d \in owed THEN "owed"
                       ELSE IF d \in Of(s) /\ place[d] = "held" THEN "returned"
                       ELSE place[d]]

Collect(d) == Move({d}, {"owed"}, "returned") /\ UNCHANGED outcome

\* Stakes of some deployed tokens of a season are paid out.
Settle(s, D) == D \subseteq Of(s) /\ Move(D, {"deployed"}, "settled") /\ UNCHANGED outcome

Next ==
    \/ \E s \in Seasons, c \in Creators : Deposit(s, c) \/ Launch(s, c) \/ Join(s, c)
    \/ \E s \in Seasons : Cancel(s)
    \/ \E d \in Seasons \X Creators : Collect(d)
    \/ \E s \in Seasons : \E D \in SUBSET Of(s) : Settle(s, D)

Spec == Init /\ [][Next]_fates

==============================================================================

--------------------------- MODULE BonusDistributor ---------------------------
(***************************************************************************)
(* BonusDistributor.sol: the pot shared by all seasons from which holders  *)
(* of a winner are paid the hold bonus. The storage is the record bonus;   *)
(* as in LaunchEscrow an external function is a guard and a next storage   *)
(* value, so that SeasonVault can call fundBonus inside submitWinner.      *)
(*                                                                         *)
(* Timestamps are reduced to whether a season's unlockTime has passed.     *)
(***************************************************************************)
EXTENDS SeasonDomain

VARIABLE bonus

SeasonBonus ==
    [funded: BOOLEAN, unlocked: BOOLEAN, reserve: Nat, claimedTotal: Nat, root: Trees,
     finalized: BOOLEAN]

NoBonus ==
    [funded |-> FALSE, unlocked |-> FALSE, reserve |-> 0, claimedTotal |-> 0, root |-> NoTree,
     finalized |-> FALSE]

BonusState ==
    [bonuses: [Seasons -> SeasonBonus], claimed: SUBSET (Seasons \X Users), balance: Nat]

EmptyBonus ==
    [bonuses |-> [s \in Seasons |-> NoBonus], claimed |-> {}, balance |-> 0]

(***************************************************************************)
(* The oracle's tree (oracle/src/bonus.ts)                                 *)
(***************************************************************************)

\* buildBonusPayload: the reserve pro rata to the tokens each eligible holder
\* rolled, rounded down.
BonusTree(eligible, rolled, reserve) ==
    LET weight == Total([u \in eligible |-> rolled[u]]) IN
    [leaves |-> eligible,
     amountOf |-> [u \in Users |->
                      IF u \in eligible THEN (rolled[u] * reserve) \div weight ELSE 0]]

(***************************************************************************)
(* External functions                                                      *)
(***************************************************************************)

CanFundBonus(b, s) == ~b.bonuses[s].funded

BonusFunded(b, s, amount) ==
    [b EXCEPT !.bonuses[s] = [@ EXCEPT !.funded = TRUE, !.reserve = amount],
              !.balance = @ + amount]

CanPostRoot(b, s) == b.bonuses[s].funded /\ b.bonuses[s].unlocked

\* A root may replace an earlier one.
RootPosted(b, s, tree) ==
    [b EXCEPT !.bonuses[s] = [@ EXCEPT !.root = tree, !.finalized = TRUE]]

\* The ERC-20 transfer reverts when the distributor cannot pay.
CanClaimBonus(b, s, u) ==
    /\ b.bonuses[s].finalized
    /\ <<s, u>> \notin b.claimed
    /\ u \in b.bonuses[s].root.leaves
    /\ b.bonuses[s].root.amountOf[u] <= b.balance

\* Slip: the claim is not remembered.
BonusPaid(b, s, u) ==
    LET amount == b.bonuses[s].root.amountOf[u] IN
    [b EXCEPT !.bonuses[s].claimedTotal = @ + amount, !.balance = @ - amount]

BonusClaimed(b, s, u) ==
    LET amount == b.bonuses[s].root.amountOf[u] IN
    [b EXCEPT !.bonuses[s].claimedTotal = @ + amount,
              !.claimed = @ \cup {<<s, u>>},
              !.balance = @ - amount]

\* The clock passes the season's unlockTime.
UnlockTimePassed(b, s) == [b EXCEPT !.bonuses[s].unlocked = TRUE]

==============================================================================

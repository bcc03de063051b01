--------------------------- MODULE MCTournamentVault ---------------------------
(***************************************************************************)
(* Instances of ProfileApi, and with it TournamentIndex and                *)
(* TournamentVault, for TLC.                                               *)
(***************************************************************************)
EXTENDS ProfileApi, TLC

CONSTANTS t1, t2, t3, u1, u2

\* Two weeks, the first with two tokens; two quarters make a year.
TwoWeeks == 1 :> {t1, t2} @@ 2 :> {t3}
OneYear == {2026}
Weeks == {1, 2}

\* Shares that do not divide evenly, bonuses that fit the slice of a pot of 40.
Shares == [leaves |-> {u1, u2}, amountOf |-> u1 :> 1 @@ u2 :> 2]
Bonuses == [leaves |-> {u1, u2}, amountOf |-> u1 :> 4 @@ u2 :> 5]

\* An oracle that adds up right, one whose totals are smaller than its trees, and
\* one whose bonus total is more than the slice.
Honest == [rolloverRoot |-> Shares, totalRolloverShares |-> 3, bonusRoot |-> Bonuses,
           totalBonusAmount |-> 9]
LargeBonuses == [leaves |-> {u1, u2}, amountOf |-> u1 :> 4 @@ u2 :> 7]
Undercounted == [rolloverRoot |-> Shares, totalRolloverShares |-> 2,
                 bonusRoot |-> LargeBonuses, totalBonusAmount |-> 9]
Overdrawn == [Honest EXCEPT !.bonusRoot = LargeBonuses, !.totalBonusAmount = 11]
ThreeOracles == {Honest, Undercounted, Overdrawn}

\* The tokens of a week are alike.
Symmetry == Permutations({t1, t2})

==============================================================================

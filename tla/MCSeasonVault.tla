----------------------------- MODULE MCSeasonVault -----------------------------
(***************************************************************************)
(* Instances of SettlementIndex, and with it SeasonVault, for TLC.         *)
(***************************************************************************)
EXTENDS SettlementIndex, TLC

CONSTANTS t1, t2, t3, t4, u1, u2

\* One season with three tokens.
OneSeason == {1}
ThreeTokens == 1 :> {t1, t2, t3}

\* Two seasons that share the distributors and POLVault, with two tokens each.
TwoSeasons == {1, 2}
TwoAndTwo == 1 :> {t1, t2} @@ 2 :> {t3, t4}

\* Shares that do not divide evenly, and a single holder.
UnevenShares == [leaves |-> {u1, u2}, amountOf |-> u1 :> 1 @@ u2 :> 2]
OneHolder == [leaves |-> {u1}, amountOf |-> u1 :> 1 @@ u2 :> 0]
BothTrees == {UnevenShares, OneHolder}
OneTree == {UnevenShares}

\* t3 is the owner's, the others are alike.
Symmetry == Permutations({t1, t2})
SymmetryWithinSeasons == Permutations({t1, t2}) \cup Permutations({t3, t4})

==============================================================================

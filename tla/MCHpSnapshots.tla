---------------------------- MODULE MCHpSnapshots ----------------------------
(***************************************************************************)
(* Instances of HpSnapshots for TLC.                                       *)
(***************************************************************************)
EXTENDS HpSnapshots, TLC

CONSTANTS tokenA, tokenB     \* tokens

TwoSeasons == {1, 2}
SeasonOfToken == [t \in Tokens |-> 1]

\* The cut, whose window of one block on either side holds a periodic snapshot.
TheCut == {[at |-> 6, trigger |-> "CUT"]}

\* Bounds: two trades with a row of their own; the first token is launched in the
\* first block.
FewTrades ==
    /\ Cardinality({row \in hpSnapshot : ~IsCohortWideTrigger(row.trigger)}) <= 2
    /\ head > 1 => {tokenA} \subseteq launched

=============================================================================

--------------------------- MODULE MCFilterLauncher ---------------------------
(***************************************************************************)
(* Instances of FilterLauncher for TLC.                                    *)
(***************************************************************************)
EXTENDS FilterLauncher, TLC

OneSeason == {1}
TwoSeasons == {1, 2}

\* The deposits' fates are settled once the soft filter has run; the phases
\* after it are left to the runs about winners.
BeforeFinals == \A s \in Seasons : phaseOf[s] <= Filter

\* Lists of one protocol token of the first season.
StrayFinalists == {{[season |-> 1, ticker |-> t, creator |-> Owner]} : t \in Tickers}

\* Bound: the owner blocks one ticker, launches one protocol token or has one list
\* of finalists; LaunchIndex has them all.
OwnerActsOnce ==
    Cardinality(tickerBlocklist \ SeededTickers) + Cardinality({t \in tokens : IsProtocolLaunched(t)})
        + Cardinality(finalists) <= 1

\* A pause only removes steps; the run about liveness has it.
Unpaused == ~paused

\* Every other ticker may be blocked and launched as any other.
Symmetry == Permutations(Creators) \cup Permutations(Tickers \ SeededTickers)

==============================================================================

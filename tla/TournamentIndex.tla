---------------------------- MODULE TournamentIndex ----------------------------
(***************************************************************************)
(* The title ladder and its mirror in the indexer: every transaction that  *)
(* the tournament registry takes part in emits its logs, and the handlers  *)
(* of TournamentRegistry.ts turn them, in order, into rows. As in          *)
(* SettlementIndex a transaction and its handlers are one step.            *)
(*                                                                         *)
(* The tables of quarterly and annual entrants are one, keyed by the       *)
(* tournament and the token, as the tournaments are in TournamentVault.    *)
(* The logs of TournamentVault have no handler. A season vault's           *)
(* transaction also emits Liquidated for each loser or WinnerSubmitted;    *)
(* SettlementIndex has the whole of their handlers, here are the two       *)
(* columns that a profile reads.                                           *)
(*                                                                         *)
(* An operator under the word Slip is a variant with a plausible bug, as   *)
(* in LaunchEscrow; nothing refers to it.                                  *)
(***************************************************************************)
EXTENDS TournamentVault, SequencesExt

VARIABLES
    db,       \* the indexer's tables
    halted    \* an insert has met its own key

indexVars == <<vars, db, halted>>

\* A status row names the tournament of its title; year and quarter are null if the
\* title is of none.
NoTournament == <<0, 0>>
NoRow == [status |-> "NONE", of |-> NoTournament]

EmptyTables ==
    [tournamentStatus |-> [t \in Tokens |-> NoRow],
     entrant |-> {},        \* tournamentQuarterEntrant and tournamentAnnualEntrant
     isChampion |-> {},     \* the entrants that carry the flag
     liquidated |-> {},     \* tokens with the flag
     winner |-> [s \in Seasons |-> NoToken]]    \* season.winner

(***************************************************************************)
(* The handlers                                                            *)
(***************************************************************************)

\* Slip: an update leaves the year and quarter of the row alone.
TitledInPlace(d, T, status, k) ==
    [d EXCEPT !.tournamentStatus =
        [t \in Tokens |->
            IF t \notin T THEN @[t]
            ELSE [status |-> status,
                  of |-> IF @[t].of = NoTournament THEN k ELSE @[t].of]]]

\* Inserted or updated, the row holds the new status and nothing of the old one.
Titled(d, T, status, k) ==
    [d EXCEPT !.tournamentStatus =
        [t \in Tokens |-> IF t \in T THEN [status |-> status, of |-> k] ELSE @[t]]]

Entered(d, ev, status) ==
    [Titled(d, ev.entrants, status, ev.tournament) EXCEPT
        !.entrant = @ \cup ({ev.tournament} \X ev.entrants)]

QuarterlyFinalistsRecorded(d, ev) == Entered(d, ev, "QUARTERLY_FINALIST")
AnnualFinalistsRecorded(d, ev) == Entered(d, ev, "ANNUAL_FINALIST")

\* The entrant's row is inserted if it is not there (a replay glitch).
Crowned(d, ev, status) ==
    LET key == <<ev.tournament, ev.champion>> IN
    [Titled(d, {ev.champion}, status, ev.tournament) EXCEPT
        !.entrant = @ \cup {key}, !.isChampion = @ \cup {key}]

QuarterlyChampionRecorded(d, ev) == Crowned(d, ev, "QUARTERLY_CHAMPION")
AnnualChampionRecorded(d, ev) == Crowned(d, ev, "ANNUAL_CHAMPION")

WeeklyWinnerRecordedHandler(d, ev) == Titled(d, {ev.token}, "WEEKLY_WINNER", NoTournament)
TokenFiltered(d, ev) == Titled(d, {ev.token}, "FILTERED", NoTournament)

LiquidatedHandler(d, ev) == [d EXCEPT !.liquidated = @ \cup {ev.token}]
WinnerSubmitted(d, ev) == [d EXCEPT !.winner[ev.season] = ev.winner]

Handled(d, ev) ==
    CASE ev.name = "Liquidated" -> LiquidatedHandler(d, ev)
      [] ev.name = "WinnerSubmitted" -> WinnerSubmitted(d, ev)
      [] ev.name = "WeeklyWinnerRecorded" -> WeeklyWinnerRecordedHandler(d, ev)
      [] ev.name = "TokenFiltered" -> TokenFiltered(d, ev)
      [] ev.name = "QuarterlyFinalistsRecorded" -> QuarterlyFinalistsRecorded(d, ev)
      [] ev.name = "AnnualFinalistsRecorded" -> AnnualFinalistsRecorded(d, ev)
      [] ev.name = "QuarterlyChampionRecorded" -> QuarterlyChampionRecorded(d, ev)
      [] ev.name = "AnnualChampionRecorded" -> AnnualChampionRecorded(d, ev)

\* Only the entrants' rows are inserted without a look.
Clashes(d, ev) ==
    /\ ev.name \in {"QuarterlyFinalistsRecorded", "AnnualFinalistsRecorded"}
    /\ ({ev.tournament} \X ev.entrants) \cap d.entrant # {}

\* A throw stops the indexer for good.
Indexed(x, ev) ==
    IF x.halted \/ Clashes(x.db, ev) THEN [db |-> x.db, halted |-> TRUE]
    ELSE [db |-> Handled(x.db, ev), halted |-> FALSE]

\* Ponder handles the logs in order.
Emits(logs) ==
    LET done == FoldLeft(Indexed, [db |-> db, halted |-> halted], logs)
    IN  db' = done.db /\ halted' = done.halted

(***************************************************************************)
(* What each transaction emits                                             *)
(***************************************************************************)

\* TokenFiltered, if its status changes, and then Liquidated.
LoserLogs(t) ==
    (IF registry.statusOf[t] = "ACTIVE" THEN <<[name |-> "TokenFiltered", token |-> t]>> ELSE <<>>)
    \o <<[name |-> "Liquidated", token |-> t]>>

WithLoser(logs, t) == logs \o LoserLogs(t)

\* Loser by loser.
FilteredLogs(losers) == FoldLeft(WithLoser, <<>>, SetToSeq(losers))

\* submitWinner emits its own log before it calls the registry.
WeeklyWinnerLogs(s, t) ==
    <<[name |-> "WinnerSubmitted", season |-> s, winner |-> t],
      [name |-> "WeeklyWinnerRecorded", token |-> t]>>

QuarterlyFinalistsLogs(k) ==
    <<[name |-> "QuarterlyFinalistsRecorded", tournament |-> k,
       entrants |-> titles'.finalists[k]]>>

AnnualFinalistsLogs(y) ==
    <<[name |-> "AnnualFinalistsRecorded", tournament |-> <<y, Annual>>,
       entrants |-> titles'.finalists[<<y, Annual>>]]>>

QuarterlyChampionLogs(k, w) ==
    <<[name |-> "QuarterlyChampionRecorded", tournament |-> k, champion |-> w]>>

AnnualChampionLogs(y, w) ==
    <<[name |-> "AnnualChampionRecorded", tournament |-> <<y, Annual>>, champion |-> w]>>

\* Funding, claims and the clock emit nothing that is indexed.
Money ==
    \/ \E k \in Quarterlies, amount \in Deposits : FundQuarterly(k, amount)
    \/ \E y \in Years, amount \in Deposits : FundAnnual(y, amount)
    \/ \E k \in Quarterlies, u \in Users : ClaimQuarterlyRollover(k, u) \/ ClaimQuarterlyBonus(k, u)
    \/ \E y \in Years, u \in Users : ClaimAnnualRollover(y, u) \/ ClaimAnnualBonus(y, u)
    \/ \E k \in Tournaments : UnlockBonus(k)

(***************************************************************************)
(* Specification                                                           *)
(***************************************************************************)

IndexInit == Init /\ db = EmptyTables /\ halted = FALSE

IndexNext ==
    \/ \E s \in Seasons, t \in Tokens :
          RecordWeeklyWinner(s, t) /\ Emits(WeeklyWinnerLogs(s, t))
    \/ \E s \in Seasons, losers \in SUBSET Tokens :
          MarkFiltered(s, losers) /\ Emits(FilteredLogs(losers))
    \/ \E k \in Quarterlies, entrants \in SUBSET Tokens :
          RecordQuarterlyFinalists(k, entrants) /\ Emits(QuarterlyFinalistsLogs(k))
    \/ \E y \in Years : RecordAnnualFinalists(y) /\ Emits(AnnualFinalistsLogs(y))
    \/ \E k \in Quarterlies, w \in Tokens, o \in OracleRoots :
          SubmitQuarterlyWinner(k, w, o) /\ Emits(QuarterlyChampionLogs(k, w))
    \/ \E y \in Years, w \in Tokens, o \in OracleRoots :
          SubmitAnnualWinner(y, w, o) /\ Emits(AnnualChampionLogs(y, w))
    \/ Money /\ Emits(<<>>)

IndexSpec == IndexInit /\ [][IndexNext]_indexVars

(***************************************************************************)
(* Properties                                                              *)
(***************************************************************************)

\* The tournament of the title that t holds.
TournamentOf(t) ==
    CASE registry.statusOf[t] \in {"ACTIVE", "FILTERED", "WEEKLY_WINNER"} -> {NoTournament}
      [] registry.statusOf[t] \in {"QUARTERLY_FINALIST", "QUARTERLY_CHAMPION"} ->
            {k \in Quarterlies : t \in titles.finalists[k]}
      [] OTHER -> {k \in Tournaments : k[2] = Annual /\ t \in titles.finalists[k]}

\* Each token's row is the status that the registry caches for it, although the
\* handlers overwrite it with whatever log comes ("the contract ensures we never
\* see a regression") and the registry emits WeeklyWinnerRecorded even when it
\* keeps a higher title; the row names the quarter or year of that title; entrants
\* are the finalists, with one champion flag per settled tournament, also when a
\* champion of a quarter goes on to the annual one; and no log stops the indexer.
TitlesMirrored ==
    /\ ~halted
    /\ \A t \in Tokens :
          LET row == db.tournamentStatus[t] IN
          IF row = NoRow THEN registry.statusOf[t] = "ACTIVE"
          ELSE row.status = registry.statusOf[t] /\ TournamentOf(t) = {row.of}
    /\ db.entrant = {e \in Tournaments \X Tokens : e[2] \in titles.finalists[e[1]]}
    /\ db.isChampion = {e \in Tournaments \X Tokens : titles.champion[e[1]] = e[2]}

=============================================================================

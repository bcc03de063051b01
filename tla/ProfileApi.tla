------------------------------ MODULE ProfileApi ------------------------------
(***************************************************************************)
(* What GET /profile/:address (api/profile.ts and its queries in           *)
(* api/index.ts) derives from the tables of TournamentIndex: the status    *)
(* that each created token is shown with, the count of weekly wins and the *)
(* badges. A profile is a function of the tables, of the tokens that the   *)
(* wallet created and of those it held at a snapshot; nothing else of the  *)
(* wallet matters, so that these two sets stand for it.                    *)
(*                                                                         *)
(* Sums of claims and swaps, ranks, and the two badges of the holder       *)
(* snapshots (SettlementIndex has their rows) are left out. The queries    *)
(* of one request are taken to see one state of the tables.                *)
(*                                                                         *)
(* An operator under the word Slip is a variant with a plausible bug, as   *)
(* in LaunchEscrow; nothing refers to it.                                  *)
(***************************************************************************)
EXTENDS TournamentIndex

\* A token's row names the season that the launcher deployed it in.
ASSUME TokensAreLaunched == \A t \in Tokens : \E s \in Seasons : t \in SeasonTokens[s]

\* A token's row with the winner of its season and its row of tournamentStatus.
CreatedTokenRow(t) ==
    [token |-> t,
     liquidated |-> t \in db.liquidated,
     seasonWinner |-> db.winner[CHOOSE s \in Seasons : t \in SeasonTokens[s]],
     tournamentStatus |-> db.tournamentStatus[t].status]

CreatedTokensByCreator(created) == {CreatedTokenRow(t) : t \in created}

WonItsWeek(row) == row.seasonWinner = row.token

\* Filtered first; then the registry's tier, of which the annual ones are taken for
\* absent; then the season's own winner.
CreatedTokenStatus(row) ==
    CASE row.liquidated -> "FILTERED"
      [] ~row.liquidated /\ row.tournamentStatus \in
            TokenStatus \ {"ACTIVE", "ANNUAL_FINALIST", "ANNUAL_CHAMPION"} -> row.tournamentStatus
      [] OTHER -> IF WonItsWeek(row) THEN "WEEKLY_WINNER" ELSE "ACTIVE"

\* Slip: a win is counted by the status that is shown.
CountShownWins(rows) ==
    Cardinality({row \in rows : CreatedTokenStatus(row) = "WEEKLY_WINNER"})

CountWeeklyWins(rows) == Cardinality({row \in rows : WonItsWeek(row)})

\* The quarterly badges: a held token that ever was an entrant, or a champion. The
\* annual entrants are read and not shown.
TournamentBadgeFlags(held) ==
    LET among(rows) == {row \in rows : row[1][2] # Annual /\ row[2] \in held} IN
    [quarterlyFinalist |-> among(db.entrant) # {},
     quarterlyChampion |-> among(db.isChampion) # {}]

DeriveBadges(hasWeeklyWin, flags) ==
    {b \in {"CHAMPION_CREATOR", "QUARTERLY_FINALIST", "QUARTERLY_CHAMPION"} :
        CASE b = "CHAMPION_CREATOR" -> hasWeeklyWin
          [] b = "QUARTERLY_FINALIST" -> flags.quarterlyFinalist
          [] b = "QUARTERLY_CHAMPION" -> flags.quarterlyChampion}

Profile(created, held) ==
    LET rows == CreatedTokensByCreator(created) IN
    [status |-> [t \in created |-> CreatedTokenStatus(CreatedTokenRow(t))],
     wins |-> CountWeeklyWins(rows),
     badges |-> DeriveBadges(CountWeeklyWins(rows) > 0, TournamentBadgeFlags(held))]

(***************************************************************************)
(* Properties                                                              *)
(***************************************************************************)

\* A profile tells what the registry recorded, for any wallet: a week that was won
\* is counted once for good, however far the token is promoted ("a status-string
\* filter would silently drop the win on every successful promotion"); a filtered
\* token and only such is shown as filtered, a token without a title and only such
\* as active; and a quarter's badges outlast an annual promotion.
ProfilesTellTitles ==
    \A T \in SUBSET Tokens :
        LET p == Profile(T, T) IN
        /\ p.wins = Cardinality({s \in Seasons : registry.weeklyWinnerOf[s] \in T})
        /\ \A t \in T :
              /\ registry.statusOf[t] \in {"ACTIVE", "FILTERED"} => p.status[t] = registry.statusOf[t]
              /\ p.status[t] \in {"ACTIVE", "FILTERED"} => p.status[t] = registry.statusOf[t]
        /\ "CHAMPION_CREATOR" \in p.badges <=> p.wins > 0
        /\ "QUARTERLY_FINALIST" \in p.badges <=>
              \E k \in Quarterlies : titles.finalists[k] \cap T # {}
        /\ "QUARTERLY_CHAMPION" \in p.badges <=> \E k \in Quarterlies : titles.champion[k] \in T

\* The tables mirror the titles, and the profiles made from them tell them.
TitlesServed == TitlesMirrored /\ ProfilesTellTitles

=============================================================================

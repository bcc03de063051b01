-------------------------- MODULE TournamentRegistry --------------------------
(***************************************************************************)
(* TournamentRegistry.sol, the weekly hooks: the status ladder of the      *)
(* launched tokens as the season vaults climb it. The storage is the       *)
(* record registry; an external function is a guard and a next storage     *)
(* value, so that a vault's transaction can call it.                       *)
(***************************************************************************)
EXTENDS SeasonDomain

VARIABLE registry

TokenStatus ==
    {"ACTIVE", "FILTERED", "WEEKLY_WINNER", "QUARTERLY_FINALIST", "QUARTERLY_CHAMPION",
     "ANNUAL_FINALIST", "ANNUAL_CHAMPION"}

RegistryState ==
    [statusOf: [Tokens -> TokenStatus], weeklyWinnerOf: [Seasons -> Tokens \cup {NoToken}]]

EmptyRegistry ==
    [statusOf |-> [t \in Tokens |-> "ACTIVE"], weeklyWinnerOf |-> [s \in Seasons |-> NoToken]]

\* Slip: a loser's status is left alone.
FilteredUnmarked(r, losers) == r

\* markFiltered, called for every loser of one filter event: a token that has
\* left ACTIVE keeps its status.
FilteredMarked(r, losers) ==
    [statusOf |-> [t \in Tokens |->
                      IF t \in losers /\ r.statusOf[t] = "ACTIVE" THEN "FILTERED"
                      ELSE r.statusOf[t]],
     weeklyWinnerOf |-> r.weeklyWinnerOf]

CanRecordWeeklyWinner(r, s, t) ==
    r.weeklyWinnerOf[s] = NoToken /\ r.statusOf[t] # "FILTERED"

\* A title above WEEKLY_WINNER is kept.
WeeklyWinnerRecorded(r, s, t) ==
    [statusOf |-> [r.statusOf EXCEPT ![t] = IF @ = "ACTIVE" THEN "WEEKLY_WINNER" ELSE @],
     weeklyWinnerOf |-> [r.weeklyWinnerOf EXCEPT ![s] = t]]

==============================================================================

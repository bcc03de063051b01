------------------------------- MODULE LaunchApi -------------------------------
(***************************************************************************)
(* What the indexer's HTTP API answers about a season's launch, from the   *)
(* tables of LaunchIndex (api/index.ts): GET /season,                      *)
(* /season/:id/launch-status, /season/:id/tickers/check and                *)
(* /wallet/:address/pending-refunds. An answer is a function of the tables *)
(* at one moment; a request that asks for several rows is taken to see one *)
(* state of them. Normalisation of the raw ticker, malformed requests and  *)
(* the response cache are left out.                                        *)
(*                                                                         *)
(* An operator under the word Slip is a variant with a plausible bug, as   *)
(* in LaunchEscrow; nothing refers to it.                                  *)
(***************************************************************************)
EXTENDS LaunchIndex

Rows(s) == {c \in Creators : db.reservation[<<s, c>>] # NoRow}

\* The counters and the slot grid of one season.
LaunchStatus(s) ==
    [summary |-> db.summary[s],
     reservations |-> [c \in Rows(s) |-> db.reservation[<<s, c>>]]]

\* Blocklist, then past winners, then the season's reservations.
TickersCheck(s, t) ==
    LET taken == {row \in db.seasonTicker : row.season = s /\ row.ticker = t} IN
    CASE t \in db.blocklist -> "blocklisted"
      [] t \notin db.blocklist /\ \E k \in db.winnerTicker : k.ticker = t -> "winner_taken"
      [] OTHER -> IF taken # {} THEN "season_taken" ELSE "available"

\* Slip: claimed rows are listed too.
AllRefunds(c) ==
    {[season |-> row.season, amount |-> row.amount] :
        row \in {r \in db.pendingRefund : r.creator = c}}

\* All unclaimed credits of a wallet, over all seasons.
PendingRefunds(c) ==
    {[season |-> row.season, amount |-> row.amount] :
        row \in {r \in db.pendingRefund : r.creator = c /\ <<r.season, c>> \notin db.claimed}}

ApiPhase(p) ==
    CASE p = Launch -> "launch"
      [] p = Filter -> "competition"
      [] p = Finals -> "finals"
      [] p \in {Settlement, Closed} -> "settled"

PublicLaunchCount(s) == Cardinality({t \in db.token : t.season = s /\ t.creator # Owner})

\* The newest season, if there is one.
SeasonResponse ==
    {[seasonId |-> s, phase |-> ApiPhase(db.phase[s]), launchCount |-> PublicLaunchCount(s)] :
        s \in {x \in db.season : \A y \in db.season : y <= x}}

(***************************************************************************)
(* Properties                                                              *)
(***************************************************************************)

AmountsOf(grid, statuses) ==
    Total([c \in {x \in DOMAIN grid : grid[x].status \in statuses} |-> grid[c].escrowAmount])

\* The launch page adds up at every moment, also between two logs of one transaction:
\* what was escrowed is released, refunded, owed or still pending on the slot grid
\* next to it, through activation, abort, failed pushes, claims and forfeits. A row is
\* marked FORFEITED also if stakes were off when its token was deployed; its log then
\* has the amount 0, and the row keeps its own.
StatusAddsUp ==
    \A s \in db.season :
        LET sum == LaunchStatus(s).summary
            grid == LaunchStatus(s).reservations IN
        /\ sum.reservationCount = Cardinality(DOMAIN grid)
        /\ sum.totalEscrowed = Total([c \in DOMAIN grid |-> grid[c].escrowAmount])
        /\ sum.totalEscrowed =
              sum.totalReleased + sum.totalRefunded + sum.totalRefundPending
                  + AmountsOf(grid, {"PENDING"})
        /\ sum.totalRefundPending = AmountsOf(grid, {"REFUND_PENDING"})
        /\ sum.totalForfeited <= AmountsOf(grid, {"FORFEITED"})
        /\ FALSE \notin StakeModes => sum.totalForfeited = AmountsOf(grid, {"FORFEITED"})
        /\ ~(sum.activated /\ sum.aborted)

\* Tickers of the constructor that no TickerBlocked has named: reserve() refuses them,
\* and no table of the indexer has them.
UntoldTickers == SeededTickers \ db.blocklist

\* Once the logs are handled, the answers are what the contracts would say: a wallet
\* is told of exactly the credits that it can claim; a ticker is "available" exactly
\* if no rule of reserve() about tickers refuses it, with three exceptions that are
\* answered "available" too: a ticker of the constructor, a protocol token's (no log
\* tells of either as a reservation or a block), and those of an aborted season, which
\* nobody can reserve any more; /season has the newest season, its phase and public
\* launches.
AnswersAreTheChains ==
    CaughtUp =>
        /\ \A c \in Creators :
              PendingRefunds(c) =
                  {[season |-> s, amount |-> escrow.pendingRefunds[<<s, c>>]] :
                      s \in {x \in Seasons : escrow.pendingRefunds[<<x, c>>] > 0}}
        /\ \A s \in Seasons, t \in Tickers :
              TickersCheck(s, t) = "available" <=>
                  /\ t \notin tickerBlocklist \/ t \in UntoldTickers
                  /\ winnerTickers[t] = NoToken
                  /\ seasonTickers[s][t] \in {NoOne, Owner} \/ s \in aborted
        /\ SeasonResponse =
              {[seasonId |-> s, phase |-> ApiPhase(phaseOf[s]), launchCount |-> launchCount[s]] :
                  s \in {x \in {currentSeasonId} : x # 0}}

\* The launch side as it is served: the mirror and the answers made from it.
LaunchIsServed == IndexMirrorsChain /\ StatusAddsUp /\ AnswersAreTheChains

=============================================================================

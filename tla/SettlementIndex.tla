---------------------------- MODULE SettlementIndex ----------------------------
(***************************************************************************)
(* The settlement side of the chain and its mirror in the indexer: every   *)
(* transaction of SeasonVault emits its logs, and the handlers of          *)
(* SeasonVault.ts, BonusDistributor.ts and FilterLpLocker.ts turn them, in *)
(* order, into rows. Handlers read nothing but rows and logs, and nothing  *)
(* on the chain reads a row, so that a transaction and its handlers are    *)
(* one step.                                                               *)
(*                                                                         *)
(* A log of a vault that vaultSeason does not know cannot occur: the row   *)
(* is there from SeasonStarted on. The rows of a holder snapshot are one   *)
(* per holder; here they are one per token, and holders are left out.      *)
(* TournamentIndex has the handlers of the registry's logs, CreatorRights  *)
(* those of the creators' fees.                                            *)
(*                                                                         *)
(* An operator under the word Slip is a variant with a plausible bug, as   *)
(* in LaunchEscrow; nothing refers to it.                                  *)
(***************************************************************************)
EXTENDS SeasonVault, SequencesExt

CONSTANT ProtocolLaunched    \* tokens that the owner launched

VARIABLES
    db,           \* the indexer's tables
    halted,       \* an insert has met its own key
    firstLosers   \* history: the losers of each season's first filter event

indexVars == <<vars, db, halted, firstLosers>>

SeasonRow ==
    [winner |-> NoToken, rolloverRoot |-> NoTree, totalRolloverShares |-> 0, totalPot |-> 0,
     rolloverWinnerTokens |-> 0, bonusReserve |-> 0, finalized |-> FALSE]

NoFunding == [inserted |-> FALSE, reserve |-> 0, rootPosted |-> FALSE]

EmptyTables ==
    [season |-> [s \in Seasons |-> SeasonRow],
     liquidation |-> {},                     \* keys: <<season, token>>
     liquidated |-> {},                      \* tokens with the flag
     holderSnapshot |-> {},                  \* keys: <<season, trigger, token>>
     rolloverClaim |-> {},                   \* rows, keyed by season and user
     bonusFunding |-> [s \in Seasons |-> NoFunding],
     bonusClaim |-> {},                      \* rows, keyed by season and user
     prizeFees |-> [s \in Seasons |-> 0],    \* sums of feeAccrual.toVault over WETH,
     polFees |-> 0]                          \* by routing

(***************************************************************************)
(* What each transaction emits                                             *)
(***************************************************************************)

\* Liquidated for every loser, then one FilterEventProcessed, with or without
\* proceeds.
FilterLogs(s, losers) ==
    [i \in 1..Cardinality(losers) |->
        [name |-> "Liquidated", season |-> s, token |-> SetToSeq(losers)[i]]]
    \o <<[name |-> "FilterEventProcessed", season |-> s, first |-> liquidated[s] = {}]>>

SettlementLogs(s) ==
    LET S == settlement'[s] IN
    <<[name |-> "WinnerSubmitted", season |-> s, settlement |-> S]>>
    \o (IF S.bonusFunded > 0
        THEN <<[name |-> "BonusFunded", season |-> s, reserve |-> S.bonusFunded]>> ELSE <<>>)
    \o <<[name |-> "Finalized", season |-> s, settlement |-> S, residue |-> Residue(s)]>>

\* One log per asset; a locker that collects nothing is silent. The token leg has
\* no share that the tables keep apart.
FeeLogs(s, t, wethLeg) ==
    IF wethLeg = 0 THEN <<>>
    ELSE <<[name |-> IF t \in winnerSettled THEN "PostSettlementFeesCollected"
                     ELSE "FeesCollected",
            season |-> s, prize |-> FeeSplit(wethLeg).prize]>>

(***************************************************************************)
(* The handlers                                                            *)
(***************************************************************************)

\* The log's handler inserts a row under a key that exists.
Clashes(d, ev) ==
    LET snapshots(trigger) == {k \in d.holderSnapshot : k[1] = ev.season /\ k[2] = trigger} IN
    \/ ev.name = "Liquidated" /\ <<ev.season, ev.token>> \in d.liquidation
    \/ ev.name = "FilterEventProcessed" /\ ev.first /\ snapshots("CUT") # {}
    \/ ev.name = "Finalized" /\ snapshots("FINALIZE") # {}
    \/ ev.name = "BonusFunded" /\ d.bonusFunding[ev.season].inserted
    \/ /\ ev.name = "RolloverClaimed"
       /\ \E row \in d.rolloverClaim : row.season = ev.season /\ row.user = ev.user
    \/ /\ ev.name = "BonusClaimed"
       /\ \E row \in d.bonusClaim : row.season = ev.season /\ row.user = ev.user

WinnerSubmitted(d, ev) ==
    [d EXCEPT !.season[ev.season].winner = ev.settlement.winner,
              !.season[ev.season].rolloverRoot = ev.settlement.root,
              !.season[ev.season].totalRolloverShares = ev.settlement.totalRolloverShares]

\* The community tokens of a season that are not flagged yet.
Survivors(d, s) == SeasonTokens[s] \ (d.liquidated \cup ProtocolLaunched)

Snapshot(d, s, trigger, T) == [d EXCEPT !.holderSnapshot = @ \cup ({s} \X {trigger} \X T)]

\* Slip: the survivors are those at the first Liquidated of the season, when the
\* other losers of the same event are not flagged yet.
LiquidatedSnapshots(d, ev) ==
    LET flagged == [d EXCEPT !.liquidation = @ \cup {<<ev.season, ev.token>>},
                             !.liquidated = @ \cup {ev.token}] IN
    IF \E k \in d.liquidation : k[1] = ev.season THEN flagged
    ELSE Snapshot(flagged, ev.season, "CUT", Survivors(flagged, ev.season))

LiquidatedHandler(d, ev) ==
    [d EXCEPT !.liquidation = @ \cup {<<ev.season, ev.token>>},
              !.liquidated = @ \cup {ev.token}]

\* Only a season's first filter event is an anchor.
FilterEventProcessed(d, ev) ==
    IF ev.first THEN Snapshot(d, ev.season, "CUT", Survivors(d, ev.season)) ELSE d

\* The winner is read from the row that WinnerSubmitted wrote.
Finalized(d, ev) ==
    LET S == ev.settlement
        updated == [d EXCEPT
            !.season[ev.season].totalPot =
                S.rolloverSpent + S.bonusFunded + S.polDeployedWeth + ev.residue,
            !.season[ev.season].rolloverWinnerTokens = S.rolloverWinnerTokens,
            !.season[ev.season].bonusReserve = S.bonusFunded,
            !.season[ev.season].finalized = TRUE] IN
    Snapshot(updated, ev.season, "FINALIZE", {d.season[ev.season].winner} \ {NoToken})

RolloverClaimed(d, ev) ==
    [d EXCEPT !.rolloverClaim = @ \cup {[season |-> ev.season, user |-> ev.user,
                                         share |-> ev.share, winnerTokens |-> ev.winnerTokens]}]

BonusFundedHandler(d, ev) ==
    [d EXCEPT !.bonusFunding[ev.season] =
        [inserted |-> TRUE, reserve |-> ev.reserve, rootPosted |-> FALSE]]

BonusClaimedHandler(d, ev) ==
    [d EXCEPT !.bonusClaim = @ \cup {[season |-> ev.season, user |-> ev.user,
                                      amount |-> ev.amount]}]

Handled(d, ev) ==
    CASE ev.name = "WinnerSubmitted" -> WinnerSubmitted(d, ev)
      [] ev.name = "Liquidated" -> LiquidatedHandler(d, ev)
      [] ev.name = "FilterEventProcessed" -> FilterEventProcessed(d, ev)
      [] ev.name = "Finalized" -> Finalized(d, ev)
      [] ev.name = "RolloverClaimed" -> RolloverClaimed(d, ev)
      [] ev.name = "BonusFunded" -> BonusFundedHandler(d, ev)
      [] ev.name = "BonusRootPosted" -> [d EXCEPT !.bonusFunding[ev.season].rootPosted = TRUE]
      [] ev.name = "BonusClaimed" -> BonusClaimedHandler(d, ev)
      [] ev.name = "FeesCollected" -> [d EXCEPT !.prizeFees[ev.season] = @ + ev.prize]
      [] ev.name = "PostSettlementFeesCollected" -> [d EXCEPT !.polFees = @ + ev.prize]

\* A throw stops the indexer for good.
Indexed(x, ev) ==
    IF x.halted \/ Clashes(x.db, ev) THEN [db |-> x.db, halted |-> TRUE]
    ELSE [db |-> Handled(x.db, ev), halted |-> FALSE]

\* Ponder handles the logs in order.
Emits(logs) ==
    LET done == FoldLeft(Indexed, [db |-> db, halted |-> halted], logs)
    IN  db' = done.db /\ halted' = done.halted

(***************************************************************************)
(* Specification                                                           *)
(***************************************************************************)

IndexInit ==
    /\ Init
    /\ db = EmptyTables /\ halted = FALSE
    /\ firstLosers = [s \in Seasons |-> {}]

Silent == Emits(<<>>) /\ UNCHANGED firstLosers

IndexNext ==
    \/ \E s \in Seasons :
          \/ \E losers \in SUBSET Tokens, proceeds \in Proceeds :
                /\ ProcessFilterEvent(s, losers, proceeds)
                /\ Emits(FilterLogs(s, losers))
                /\ firstLosers' = IF liquidated[s] = {} THEN [firstLosers EXCEPT ![s] = losers]
                                  ELSE firstLosers
          \/ \E w \in Tokens, root \in RolloverTrees, bought \in TokensBought :
                /\ SubmitWinner(s, w, root, bought)
                /\ Emits(SettlementLogs(s)) /\ UNCHANGED firstLosers
          \/ \E u \in Users :
                /\ ClaimRollover(s, u)
                /\ Emits(<<[name |-> "RolloverClaimed", season |-> s, user |-> u,
                            share |-> settlement[s].root.amountOf[u],
                            winnerTokens |-> RolloverAmount(s, u)]>>)
                /\ UNCHANGED firstLosers
          \/ \E u \in Users :
                /\ ClaimBonus(s, u)
                /\ Emits(<<[name |-> "BonusClaimed", season |-> s, user |-> u,
                            amount |-> bonus.bonuses[s].root.amountOf[u]]>>)
                /\ UNCHANGED firstLosers
          \/ \E eligible \in SUBSET claimed[s] :
                /\ PostRoot(s, eligible)
                /\ Emits(<<[name |-> "BonusRootPosted", season |-> s]>>)
                /\ UNCHANGED firstLosers
          \/ UnlockBonus(s) /\ Silent
          \/ \E t \in Tokens, wethLeg \in WethFees, tokenLeg \in TokenFees :
                /\ CollectFees(s, t, wethLeg, tokenLeg)
                /\ Emits(FeeLogs(s, t, wethLeg)) /\ UNCHANGED firstLosers
    \/ \E t \in Tokens : (DisableCreatorFee(t) \/ ClaimFees(t)) /\ Silent

IndexSpec == IndexInit /\ [][IndexNext]_indexVars

(***************************************************************************)
(* Properties                                                              *)
(***************************************************************************)

\* The first cut's snapshot is of its true survivors: the community tokens that no
\* loser of the whole event is among, whatever is filtered later; the final one is
\* of the winner. Badges and the holder counts of the API are read from them.
SnapshotsAreOfSurvivors ==
    \A s \in Seasons :
        /\ {k[3] : k \in {k \in db.holderSnapshot : k[1] = s /\ k[2] = "CUT"}} =
              IF firstLosers[s] = {} THEN {}
              ELSE SeasonTokens[s] \ (firstLosers[s] \cup ProtocolLaunched)
        /\ {k[3] : k \in {k \in db.holderSnapshot : k[1] = s /\ k[2] = "FINALIZE"}} =
              {settlement[s].winner} \ {NoToken}

\* A season's row is its settlement, and totalPot is all of the WETH that the vault
\* got and did not spend on bounty, mechanics and treasury slices: the reserves and
\* the prize fees that had come in when it settled (those that come later stay).
SeasonRowsMatchVaults ==
    \A s \in Seasons :
        LET row == db.season[s]
            S == settlement[s] IN
        /\ row.winner = S.winner /\ row.rolloverRoot = S.root
        /\ row.totalRolloverShares = S.totalRolloverShares
        /\ row.rolloverWinnerTokens = S.rolloverWinnerTokens
        /\ row.finalized <=> phase[s] = Distributing
        /\ row.finalized =>
              row.totalPot - row.bonusReserve =
                  S.rolloverSpent + S.polDeployedWeth + feesIn[s] - weth[s]
        /\ {t \in Tokens : <<s, t>> \in db.liquidation} = liquidated[s]
        /\ liquidated[s] = db.liquidated \cap SeasonTokens[s]

\* Claims and fees: the rows of a season are the wallets that claimed and add up to
\* what the contracts paid, also when the bonus root was replaced between two
\* claims; the prize slices of the fees are told apart by where they really went.
RowsAddUp ==
    /\ \A s \in Seasons :
          LET rollovers == {row \in db.rolloverClaim : row.season = s}
              bonuses == {row \in db.bonusClaim : row.season = s}
              b == bonus.bonuses[s] IN
          /\ {row.user : row \in rollovers} = claimed[s]
          /\ Total([row \in rollovers |-> row.share]) = claimedShares[s]
          /\ {row.user : row \in bonuses} = {u \in Users : <<s, u>> \in bonus.claimed}
          /\ Total([row \in bonuses |-> row.amount]) = b.claimedTotal
          /\ db.bonusFunding[s] =
                [inserted |-> b.funded, reserve |-> b.reserve, rootPosted |-> b.finalized]
          /\ db.prizeFees[s] = feesIn[s]
    /\ db.polFees = polVault.weth

\* The mirror of the settlement, in one formula: no log stops the indexer, and what
\* the API serves of a season is what its contracts hold.
TablesMirrorSettlement ==
    ~halted /\ SnapshotsAreOfSurvivors /\ SeasonRowsMatchVaults /\ RowsAddUp

=============================================================================

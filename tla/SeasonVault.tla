------------------------------ MODULE SeasonVault ------------------------------
(***************************************************************************)
(* The weekly settlement: SeasonVault.sol with its SeasonPOLReserve, the   *)
(* FilterLpLockers of the season's tokens, POLManager and POLVault, and    *)
(* the distributors and the registry that they call. Filter events turn    *)
(* the losers' liquidity into WETH and split it; submitWinner spends the   *)
(* reserves; then holders claim. Meanwhile anyone may have a locker        *)
(* collect its swap fees, at any moment.                                   *)
(*                                                                         *)
(* One action is one transaction. The pool manager (Uniswap V4) is         *)
(* external: how much WETH a liquidation yields, how many tokens a         *)
(* purchase yields and which fees have accrued come from small sets.       *)
(* Slippage floors only make a call revert and are left out, as are the    *)
(* event counter and the losers' list, which nothing reads back.           *)
(*                                                                         *)
(* An operator under the word Slip is a variant with a plausible bug, as   *)
(* in LaunchEscrow; nothing refers to it.                                  *)
(***************************************************************************)
EXTENDS BonusDistributor, CreatorFeeDistributor, TournamentRegistry

CONSTANTS
    SeasonTokens,  \* the tokens the launcher deployed in each season
    Proceeds,      \* WETH that the liquidations of one filter event may yield
    TokensBought,  \* winner tokens that the rollover purchase may yield
    RolloverTrees, \* rollover shares the oracle may have computed
    WethFees,      \* WETH and
    TokenFees,     \* token swap fees that a locker may find accrued
    MaxCollects,   \* bound: calls of collectFees
    MaxPosts       \* bound: roots posted per season

ASSUME VaultConstants ==
    /\ SeasonTokens \in [Seasons -> SUBSET Tokens]
    /\ \A s, z \in Seasons : s # z => SeasonTokens[s] \cap SeasonTokens[z] = {}
    /\ Proceeds \subseteq Nat /\ WethFees \subseteq Nat /\ TokenFees \subseteq Nat
    /\ TokensBought \subseteq Nat \ {0}
    /\ RolloverTrees \subseteq Trees
    /\ MaxCollects \in Nat /\ MaxPosts \in Nat

VARIABLES
    phase,         \* of each season's vault
    liquidated,    \* the losers of each season
    weth,          \* WETH balance of each vault
    tokenBalance,  \* each launched token's balance in its season's vault
    reserves,      \* rolloverReserve, bonusReserve, bountyReserve
    totals,        \* the cumulative counters
    polReserve,    \* SeasonPOLReserve of each season
    winnerSettled, \* tokens whose locker has winnerSettledAt # 0
    settlement,    \* what submitWinner wrote
    claimed,       \* wallets that claimed their rollover
    claimedShares, \* claimedRolloverShares
    polVault,      \* POLVault
    feesIn,        \* history: prize fees that each vault was sent
    collects,      \* history: calls of collectFees
    posts          \* history: roots posted

vaultVars == <<phase, liquidated, reserves, totals, polReserve, winnerSettled, settlement>>
claimVars == <<claimed, claimedShares>>
historyVars == <<feesIn, collects, posts>>
vars == <<vaultVars, weth, tokenBalance, claimVars, polVault, historyVars, bonus, fees, registry>>

Reserves == [rollover: Nat, bonus: Nat, bounty: Nat]
Totals == [proceeds: Nat, mechanics: Nat, treasury: Nat, pol: Nat, bounty: Nat]
PolReserve == [weth: Nat, totalAccumulated: Nat, deployed: BOOLEAN]

Settlement ==
    [winner: Tokens \cup {NoToken}, root: Trees, totalRolloverShares: Nat, rolloverSpent: Nat,
     rolloverWinnerTokens: Nat, bonusFunded: Nat, bountyPaid: Nat, polDeployedWeth: Nat]

Unsettled ==
    [winner |-> NoToken, root |-> NoTree, totalRolloverShares |-> 0, rolloverSpent |-> 0,
     rolloverWinnerTokens |-> 0, bonusFunded |-> 0, bountyPaid |-> 0, polDeployedWeth |-> 0]

Active == "Active"
Distributing == "Distributing"

(***************************************************************************)
(* Arithmetic                                                              *)
(***************************************************************************)

Bps(amount, bps) == (amount * bps) \div 10000

\* Slip: the treasury gets its tenth and the rounding dust stays behind.
LosersPotTenths(proceeds) ==
    LET bounty == Bps(proceeds, 250)
        remainder == proceeds - bounty IN
    [bounty |-> bounty, rollover |-> Bps(remainder, 4500), bonus |-> Bps(remainder, 2500),
     mechanics |-> Bps(remainder, 1000), pol |-> Bps(remainder, 1000),
     treasury |-> Bps(remainder, 1000)]

\* The bounty comes off the top, the treasury takes the rounding dust.
LosersPot(proceeds) ==
    LET bounty == Bps(proceeds, 250)
        remainder == proceeds - bounty
        rollover == Bps(remainder, 4500)
        toBonus == Bps(remainder, 2500)
        tenth == Bps(remainder, 1000) IN
    [bounty |-> bounty, rollover |-> rollover, bonus |-> toBonus, mechanics |-> tenth,
     pol |-> tenth, treasury |-> remainder - rollover - toBonus - tenth - tenth]

\* The WETH leg of a locker's fees; the prize slice takes the dust.
FeeSplit(amount) ==
    LET treasury == (amount * 65) \div 200
        mechanics == (amount * 25) \div 200
        creator == (amount * 20) \div 200 IN
    [treasury |-> treasury, mechanics |-> mechanics, creator |-> creator,
     prize |-> amount - treasury - mechanics - creator]

\* Slip: a share is rounded up.
RolloverAmountRoundedUp(s, u) ==
    LET S == settlement[s] IN
    (S.root.amountOf[u] * S.rolloverWinnerTokens + S.totalRolloverShares - 1) \div S.totalRolloverShares

\* What the leaf of u pays in winner tokens.
RolloverAmount(s, u) ==
    LET S == settlement[s] IN (S.root.amountOf[u] * S.rolloverWinnerTokens) \div S.totalRolloverShares

(***************************************************************************)
(* Filter events                                                           *)
(***************************************************************************)

\* Slip: the phase is not checked.
CanFilterAlways(s, losers) ==
    /\ losers # {} /\ losers \subseteq SeasonTokens[s]
    /\ losers \cap liquidated[s] = {}

CanFilter(s, losers) ==
    /\ phase[s] = Active
    /\ losers # {} /\ losers \subseteq SeasonTokens[s]
    /\ losers \cap liquidated[s] = {}

PolDeposited(p, amount) ==
    [weth |-> p.weth + amount,
     totalAccumulated |-> p.totalAccumulated + amount,
     deployed |-> p.deployed]

\* When the liquidations yield nothing every slice is zero.
ProcessFilterEvent(s, losers, proceeds) ==
    LET pot == LosersPot(proceeds) IN
    /\ CanFilter(s, losers)
    /\ liquidated' = [liquidated EXCEPT ![s] = @ \cup losers]
    /\ registry' = FilteredMarked(registry, losers)
    /\ reserves' = [reserves EXCEPT ![s] =
                       [rollover |-> @.rollover + pot.rollover,
                        bonus |-> @.bonus + pot.bonus,
                        bounty |-> @.bounty + pot.bounty]]
    /\ totals' = [totals EXCEPT ![s] =
                     [proceeds |-> @.proceeds + proceeds,
                      mechanics |-> @.mechanics + pot.mechanics,
                      treasury |-> @.treasury + pot.treasury,
                      pol |-> @.pol + pot.pol,
                      bounty |-> @.bounty + pot.bounty]]
    /\ weth' = [weth EXCEPT ![s] = @ + proceeds - pot.mechanics - pot.treasury - pot.pol]
    /\ polReserve' = [polReserve EXCEPT ![s] = PolDeposited(@, pot.pol)]
    /\ UNCHANGED <<phase, winnerSettled, settlement, tokenBalance, claimVars, polVault,
                   historyVars, bonus, fees>>

(***************************************************************************)
(* Final settlement                                                        *)
(***************************************************************************)

\* The locker swaps half of the POL, and the pool manager reverts on a swap of
\* nothing: a reserve of one wei cannot be deployed.
CanDeployPOL(s) ==
    /\ ~polReserve[s].deployed
    /\ s \notin polVault.recorded
    /\ polReserve[s].weth # 1

CanSubmitWinner(s, w) ==
    /\ phase[s] = Active
    /\ w \in SeasonTokens[s] \ liquidated[s]
    /\ CanRecordWeeklyWinner(registry, s, w)
    /\ w \notin winnerSettled
    /\ reserves[s].bonus > 0 => CanFundBonus(bonus, s)
    /\ CanDeployPOL(s)

\* Slip: the winner's locker is not flipped.
LockersUnsettled(lockers, w) == lockers

\* markWinnerSettled on the locker of w.
LockersSettled(lockers, w) == lockers \cup {w}

TreasuryPaid(total, residue) == total + residue

\* The WETH left in the vault when bounty, bonus and rollover are spent and the
\* POL has passed through.
Residue(s) == weth[s] - reserves[s].bounty - reserves[s].bonus - reserves[s].rollover

SubmitWinner(s, w, root, bought) ==
    /\ CanSubmitWinner(s, w)
    /\ Total(root.amountOf) > 0
    /\ registry' = WeeklyWinnerRecorded(registry, s, w)
    /\ winnerSettled' = LockersSettled(winnerSettled, w)
    /\ bonus' = IF reserves[s].bonus > 0 THEN BonusFunded(bonus, s, reserves[s].bonus) ELSE bonus
    /\ LET tokens == IF reserves[s].rollover > 0 THEN bought ELSE 0 IN
       /\ settlement' = [settlement EXCEPT ![s] =
                            [winner |-> w, root |-> root,
                             totalRolloverShares |-> Total(root.amountOf),
                             rolloverSpent |-> reserves[s].rollover,
                             rolloverWinnerTokens |-> tokens,
                             bonusFunded |-> reserves[s].bonus,
                             bountyPaid |-> reserves[s].bounty,
                             polDeployedWeth |-> polReserve[s].weth]]
       /\ tokenBalance' = [tokenBalance EXCEPT ![w] = @ + tokens]
    /\ reserves' = [reserves EXCEPT ![s] = [rollover |-> 0, bonus |-> 0, bounty |-> 0]]
    /\ polReserve' = [polReserve EXCEPT ![s] =
                         [weth |-> 0, totalAccumulated |-> @.totalAccumulated,
                          deployed |-> TRUE]]
    /\ polVault' = IF polReserve[s].weth = 0 THEN polVault
                   ELSE [weth |-> polVault.weth,
                         recorded |-> polVault.recorded \cup {s},
                         totalWethDeployed |-> polVault.totalWethDeployed + polReserve[s].weth]
    /\ weth' = [weth EXCEPT ![s] = @ - reserves[s].bounty - reserves[s].bonus
                                     - reserves[s].rollover - Residue(s)]
    /\ totals' = [totals EXCEPT ![s] =
                     [proceeds |-> @.proceeds, mechanics |-> @.mechanics,
                      treasury |-> TreasuryPaid(@.treasury, Residue(s)),
                      pol |-> @.pol, bounty |-> @.bounty]]
    /\ phase' = [phase EXCEPT ![s] = Distributing]
    /\ UNCHANGED <<liquidated, claimVars, historyVars, fees>>

(***************************************************************************)
(* Claims                                                                  *)
(***************************************************************************)

CanClaimRollover(s, u) ==
    /\ phase[s] = Distributing
    /\ u \notin claimed[s]
    /\ settlement[s].rolloverWinnerTokens # 0
    /\ u \in settlement[s].root.leaves

ClaimRollover(s, u) ==
    /\ CanClaimRollover(s, u)
    /\ claimed' = [claimed EXCEPT ![s] = @ \cup {u}]
    /\ claimedShares' = [claimedShares EXCEPT ![s] = @ + settlement[s].root.amountOf[u]]
    /\ tokenBalance' = [tokenBalance EXCEPT ![settlement[s].winner] = @ - RolloverAmount(s, u)]
    /\ UNCHANGED <<vaultVars, weth, polVault, historyVars, bonus, fees, registry>>

\* The oracle's hold bonus goes to some of the holders that have claimed their
\* rollover; which of them held on is decided off chain.
PostRoot(s, eligible) ==
    /\ CanPostRoot(bonus, s)
    /\ posts[s] < MaxPosts
    /\ eligible # {}
    /\ \A u \in eligible : RolloverAmount(s, u) > 0
    /\ bonus' = RootPosted(bonus, s, BonusTree(eligible, [u \in Users |-> RolloverAmount(s, u)],
                                               bonus.bonuses[s].reserve))
    /\ posts' = [posts EXCEPT ![s] = @ + 1]
    /\ UNCHANGED <<vaultVars, weth, tokenBalance, claimVars, polVault, feesIn, collects, fees,
                   registry>>

ClaimBonus(s, u) ==
    /\ CanClaimBonus(bonus, s, u)
    /\ bonus' = BonusClaimed(bonus, s, u)
    /\ UNCHANGED <<vaultVars, weth, tokenBalance, claimVars, polVault, historyVars, fees,
                   registry>>

UnlockBonus(s) ==
    /\ bonus.bonuses[s].funded /\ ~bonus.bonuses[s].unlocked
    /\ bonus' = UnlockTimePassed(bonus, s)
    /\ UNCHANGED <<vaultVars, weth, tokenBalance, claimVars, polVault, historyVars, fees,
                   registry>>

(***************************************************************************)
(* Swap fees                                                               *)
(***************************************************************************)

\* The position of a liquidated locker is empty, which the pool manager refuses
\* to poke. The prize slice goes to the vault until the locker is settled and
\* to POLVault from then on; token fees always go to the vault.
CollectFees(s, t, wethLeg, tokenLeg) ==
    LET split == FeeSplit(wethLeg) IN
    /\ collects < MaxCollects
    /\ t \in SeasonTokens[s] \ liquidated[s]
    /\ split.creator > 0 => CanNotifyFee(FeeSent(fees, split.creator), split.creator)
    /\ IF t \in winnerSettled
       THEN /\ polVault' = [weth |-> polVault.weth + split.prize, recorded |-> polVault.recorded,
                            totalWethDeployed |-> polVault.totalWethDeployed]
            /\ UNCHANGED <<weth, feesIn>>
       ELSE /\ weth' = [weth EXCEPT ![s] = @ + split.prize]
            /\ feesIn' = [feesIn EXCEPT ![s] = @ + split.prize]
            /\ UNCHANGED polVault
    /\ tokenBalance' = [tokenBalance EXCEPT ![t] = @ + tokenLeg]
    /\ fees' = IF split.creator > 0
               THEN FeeNotified(FeeSent(fees, split.creator), t, split.creator)
               ELSE fees
    /\ collects' = collects + 1
    /\ UNCHANGED <<vaultVars, claimVars, posts, bonus, registry>>

DisableCreatorFee(t) ==
    /\ fees' = FeeDisabled(fees, t)
    /\ UNCHANGED <<vaultVars, weth, tokenBalance, claimVars, polVault, historyVars, bonus,
                   registry>>

ClaimFees(t) ==
    /\ CanClaimFees(fees, t)
    /\ fees' = PaidOut(fees, t)
    /\ UNCHANGED <<vaultVars, weth, tokenBalance, claimVars, polVault, historyVars, bonus,
                   registry>>

(***************************************************************************)
(* Specification                                                           *)
(***************************************************************************)

Init ==
    /\ phase = [s \in Seasons |-> Active]
    /\ liquidated = [s \in Seasons |-> {}]
    /\ weth = [s \in Seasons |-> 0]
    /\ tokenBalance = [t \in Tokens |-> 0]
    /\ reserves = [s \in Seasons |-> [rollover |-> 0, bonus |-> 0, bounty |-> 0]]
    /\ totals = [s \in Seasons |->
                    [proceeds |-> 0, mechanics |-> 0, treasury |-> 0, pol |-> 0, bounty |-> 0]]
    /\ polReserve = [s \in Seasons |-> [weth |-> 0, totalAccumulated |-> 0, deployed |-> FALSE]]
    /\ winnerSettled = {}
    /\ settlement = [s \in Seasons |-> Unsettled]
    /\ claimed = [s \in Seasons |-> {}]
    /\ claimedShares = [s \in Seasons |-> 0]
    /\ polVault = [weth |-> 0, recorded |-> {}, totalWethDeployed |-> 0]
    /\ feesIn = [s \in Seasons |-> 0]
    /\ collects = 0
    /\ posts = [s \in Seasons |-> 0]
    /\ bonus = EmptyBonus
    /\ fees = NoFees
    /\ registry = EmptyRegistry

Next ==
    \/ \E s \in Seasons :
          \/ \E losers \in SUBSET Tokens, proceeds \in Proceeds :
                ProcessFilterEvent(s, losers, proceeds)
          \/ \E w \in Tokens, root \in RolloverTrees, bought \in TokensBought :
                SubmitWinner(s, w, root, bought)
          \/ \E u \in Users : ClaimRollover(s, u) \/ ClaimBonus(s, u)
          \/ \E eligible \in SUBSET claimed[s] : PostRoot(s, eligible)
          \/ UnlockBonus(s)
          \/ \E t \in Tokens, wethLeg \in WethFees, tokenLeg \in TokenFees :
                CollectFees(s, t, wethLeg, tokenLeg)
    \/ \E t \in Tokens : DisableCreatorFee(t) \/ ClaimFees(t)

Spec == Init /\ [][Next]_vars

(***************************************************************************)
(* Properties                                                              *)
(***************************************************************************)

\* Every variable has its declared type; no balance is ever negative.
TypeOK ==
    /\ phase \in [Seasons -> {Active, Distributing}]
    /\ liquidated \in [Seasons -> SUBSET Tokens]
    /\ weth \in [Seasons -> Nat]
    /\ tokenBalance \in [Tokens -> Nat]
    /\ reserves \in [Seasons -> Reserves]
    /\ totals \in [Seasons -> Totals]
    /\ polReserve \in [Seasons -> PolReserve]
    /\ winnerSettled \subseteq Tokens
    /\ settlement \in [Seasons -> Settlement]
    /\ claimed \in [Seasons -> SUBSET Users]
    /\ claimedShares \in [Seasons -> Nat]
    /\ polVault \in [weth: Nat, recorded: SUBSET Seasons, totalWethDeployed: Nat]
    /\ feesIn \in [Seasons -> Nat]
    /\ collects \in 0..MaxCollects
    /\ posts \in [Seasons -> 0..MaxPosts]
    /\ bonus \in BonusState
    /\ fees \in FeeState
    /\ registry \in RegistryState

\* While a vault is active its WETH is exactly the three reserves and the prize
\* fees that the lockers have sent: the split of a filter event leaves no dust
\* in the vault and submitWinner can pay every reserve in full.
ReservesHeld ==
    \A s \in Seasons : phase[s] = Active =>
        weth[s] = reserves[s].rollover + reserves[s].bonus + reserves[s].bounty + feesIn[s]

\* Every wei that ever reached a vault is still there, in its POL reserve, or in
\* one of the counters that the vault publishes about what it has paid.
WethAccounted ==
    \A s \in Seasons :
        totals[s].proceeds + feesIn[s] =
            weth[s] + polReserve[s].weth
            + totals[s].mechanics + totals[s].treasury
            + settlement[s].rolloverSpent + settlement[s].bonusFunded
            + settlement[s].bountyPaid + settlement[s].polDeployedWeth

\* POL is silent during the season and all of it is deployed at the end: until
\* submitWinner the reserve holds the sum of the POL slices, afterwards nothing,
\* and POLVault has recorded that very sum.
PolIsAllOrNothing ==
    /\ \A s \in Seasons :
          /\ polReserve[s].totalAccumulated = totals[s].pol
          /\ IF phase[s] = Active
             THEN polReserve[s].weth = totals[s].pol /\ ~polReserve[s].deployed
             ELSE polReserve[s].weth = 0 /\ settlement[s].polDeployedWeth = totals[s].pol
    /\ polVault.totalWethDeployed = Total([s \in Seasons |-> settlement[s].polDeployedWeth])

\* The WETH of the vaults, of their POL reserves and of POLVault is one set of
\* books that balances before, at and after settlement.
WethBooks == ReservesHeld /\ WethAccounted /\ PolIsAllOrNothing

\* The tournament's ladder says what the vaults did: the losers are FILTERED, a
\* settled vault's winner is the season's WEEKLY_WINNER and was never a loser.
LadderMatchesVault ==
    \A s \in Seasons :
        /\ \A t \in SeasonTokens[s] :
              /\ t \in liquidated[s] <=> registry.statusOf[t] = "FILTERED"
              /\ registry.statusOf[t] = "WEEKLY_WINNER" <=> settlement[s].winner = t
        /\ registry.weeklyWinnerOf[s] = settlement[s].winner
        /\ settlement[s].winner \notin liquidated[s]

\* The tokens u is still owed.
Owed(s, u) == IF u \in claimed[s] THEN 0 ELSE RolloverAmount(s, u)

\* A settled vault can always pay everyone who has not claimed yet, whatever the
\* order of the claims and whatever their rounding, and counts the shares right; by
\* TypeOK no balance ever goes below zero.
RolloverClaimsCovered ==
    /\ TypeOK
    /\ \A s \in Seasons : phase[s] = Distributing =>
          LET root == settlement[s].root IN
          /\ tokenBalance[settlement[s].winner] >= Total([u \in root.leaves |-> Owed(s, u)])
          /\ claimedShares[s] = Total([u \in claimed[s] |-> root.amountOf[u]])

\* The distributor's pot is what the seasons brought in less what was claimed,
\* and a season whose root was posted only once never pays out more than its
\* own reserve, so it does not eat into another season's.
BonusWithinReserve ==
    /\ bonus.balance + Total([s \in Seasons |-> bonus.bonuses[s].claimedTotal]) =
          Total([s \in Seasons |-> bonus.bonuses[s].reserve])
    /\ \A s \in Seasons :
          posts[s] <= 1 => bonus.bonuses[s].claimedTotal <= bonus.bonuses[s].reserve

\* The creators' pending fees are all there, the distributor has seen all of its
\* balance, and a disabled token has nothing pending that could still be claimed.
CreatorFeesBacked ==
    /\ fees.balance = Total([t \in Tokens |-> Pending(fees, t)])
    /\ fees.lastSeenBalance = fees.balance
    /\ \A t \in Tokens : fees.info[t].disabled => Pending(fees, t) = 0

\* A settled vault holds no WETH if every loser was filtered: the winner's fees
\* go to POLVault and the losers' lockers have nothing left to collect.
ClosesCleanIfAllFiltered ==
    \A s \in Seasons :
        /\ phase[s] = Distributing
        /\ SeasonTokens[s] \ {settlement[s].winner} \subseteq liquidated[s]
        => weth[s] = 0

\* Settlement is final: nothing that submitWinner decided or that the filter
\* events had counted changes afterwards.
SettlementIsFinal ==
    [][\A s \in Seasons : phase[s] = Distributing =>
          /\ phase'[s] = Distributing
          /\ settlement'[s] = settlement[s]
          /\ liquidated'[s] = liquidated[s]
          /\ totals'[s] = totals[s]
          /\ reserves'[s] = reserves[s]]_vars

==============================================================================

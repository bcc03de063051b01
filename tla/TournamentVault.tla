---------------------------- MODULE TournamentVault ----------------------------
(***************************************************************************)
(* TournamentVault.sol with the quarterly and annual half of               *)
(* TournamentRegistry.sol: weekly winners become finalists of a quarter,   *)
(* one of them its champion, the champions of a year its annual finalists, *)
(* one of them the annual champion; and for every quarter and year a pot   *)
(* that anyone fills, the champion's settlement splits and holders empty.  *)
(* All pots lie unsegregated in one WETH balance.                          *)
(*                                                                         *)
(* A tournament is named by its year and its quarter, with quarter 0 for   *)
(* the annual one: the contract has the same code twice, for the two       *)
(* shapes of its keys. The weekly hooks, which the season vaults call, are *)
(* those of TournamentRegistry; SeasonVault has the transactions they      *)
(* belong to. Entrant lists are sets: a list that names a token twice      *)
(* reverts on the second entry. The oracle may post a tree and a total     *)
(* that do not match. Every wallet that can call has approved its WETH.    *)
(*                                                                         *)
(* An operator under the word Slip is a variant with a plausible bug, as   *)
(* in LaunchEscrow; nothing refers to it.                                  *)
(***************************************************************************)
EXTENDS TournamentRegistry

CONSTANTS
    SeasonTokens,  \* the tokens the launcher deployed in each season
    Years,         \* calendar years
    LastQuarter,   \* 4 quarters in a year
    Deposits,      \* amounts of WETH that a funder may send
    MaxFunded,     \* bound: WETH in one pot
    OracleRoots    \* trees and totals that the oracle may submit

ASSUME TournamentConstants ==
    /\ SeasonTokens \in [Seasons -> SUBSET Tokens]
    /\ \A s, z \in Seasons : s # z => SeasonTokens[s] \cap SeasonTokens[z] = {}
    /\ IsFiniteSet(Years)
    /\ LastQuarter \in Nat \ {0}
    /\ Deposits \subseteq Nat \ {0} /\ MaxFunded \in Nat
    /\ OracleRoots \subseteq
          [rolloverRoot: Trees, totalRolloverShares: Nat \ {0}, bonusRoot: Trees,
           totalBonusAmount: Nat]

VARIABLES
    titles,        \* the finalists and champions in the registry
    vault          \* TournamentVault

vars == <<registry, titles, vault>>

Quarters == 1..LastQuarter
Annual == 0
Tournaments == Years \X (Annual..LastQuarter)
Quarterlies == Years \X Quarters

Titles ==
    [finalists: [Tournaments -> SUBSET Tokens], champion: [Tournaments -> Tokens \cup {NoToken}]]

NoTitles ==
    [finalists |-> [k \in Tournaments |-> {}], champion |-> [k \in Tournaments |-> NoToken]]

Pot ==
    [phase: {"Idle", "Open", "Settled"}, funded: Nat, winner: Tokens \cup {NoToken},
     bountyAmount: Nat, rolloverReserve: Nat, bonusReserve: Nat, polAccumulated: Nat,
     rolloverRoot: Trees, totalRolloverShares: Nat, claimedRolloverShares: Nat,
     bonusRoot: Trees, totalBonusAmount: Nat, claimedBonusAmount: Nat, bonusUnlocked: BOOLEAN]

IdlePot ==
    [phase |-> "Idle", funded |-> 0, winner |-> NoToken,
     bountyAmount |-> 0, rolloverReserve |-> 0, bonusReserve |-> 0, polAccumulated |-> 0,
     rolloverRoot |-> NoTree, totalRolloverShares |-> 0, claimedRolloverShares |-> 0,
     bonusRoot |-> NoTree, totalBonusAmount |-> 0, claimedBonusAmount |-> 0,
     bonusUnlocked |-> FALSE]

VaultState ==
    [pots: [Tournaments -> Pot],
     rolloverClaimed: SUBSET (Tournaments \X Users),
     bonusClaimed: SUBSET (Tournaments \X Users),
     balance: Nat]

EmptyVault ==
    [pots |-> [k \in Tournaments |-> IdlePot],
     rolloverClaimed |-> {}, bonusClaimed |-> {}, balance |-> 0]

Init ==
    /\ registry = EmptyRegistry
    /\ titles = NoTitles
    /\ vault = EmptyVault

(***************************************************************************)
(* The weekly hooks, as the season vaults call them                        *)
(***************************************************************************)

MarkFiltered(s, losers) ==
    /\ losers # {} /\ losers \subseteq SeasonTokens[s]
    /\ registry.weeklyWinnerOf[s] = NoToken
    /\ registry' = FilteredMarked(registry, losers)
    /\ UNCHANGED <<titles, vault>>

RecordWeeklyWinner(s, t) ==
    /\ t \in SeasonTokens[s]
    /\ CanRecordWeeklyWinner(registry, s, t)
    /\ registry' = WeeklyWinnerRecorded(registry, s, t)
    /\ UNCHANGED <<titles, vault>>

(***************************************************************************)
(* The registry's upper rungs                                              *)
(***************************************************************************)

\* The tokens of T with a new status.
Elevated(r, T, status) ==
    [r EXCEPT !.statusOf = [t \in Tokens |-> IF t \in T THEN status ELSE r.statusOf[t]]]

\* Slip: a title of any rank admits to a quarter.
CanEnterWithTitle(k, entrants) ==
    /\ entrants # {}
    /\ titles.finalists[k] = {}
    /\ \A t \in entrants : registry.statusOf[t] \notin {"ACTIVE", "FILTERED"}

CanRecordQuarterlyFinalists(k, entrants) ==
    /\ entrants # {}
    /\ titles.finalists[k] = {}
    /\ \A t \in entrants : registry.statusOf[t] = "WEEKLY_WINNER"

RecordQuarterlyFinalists(k, entrants) ==
    /\ CanRecordQuarterlyFinalists(k, entrants)
    /\ registry' = Elevated(registry, entrants, "QUARTERLY_FINALIST")
    /\ titles' = [titles EXCEPT !.finalists[k] = entrants]
    /\ UNCHANGED vault

\* The registry computes the list itself, from the champions of all quarters.
RecordAnnualFinalists(y) ==
    LET champions == {titles.champion[<<y, q>>] : q \in Quarters} IN
    /\ titles.finalists[<<y, Annual>>] = {}
    /\ NoToken \notin champions
    /\ registry' = Elevated(registry, champions, "ANNUAL_FINALIST")
    /\ titles' = [titles EXCEPT !.finalists[<<y, Annual>>] = champions]
    /\ UNCHANGED vault

\* recordQuarterlyChampion and recordAnnualChampion, called by the vault only.
CanRecordChampion(k, t) ==
    /\ titles.champion[k] = NoToken
    /\ t \in titles.finalists[k]

\* Slip: the champion's status is not raised.
ChampionListed(k, t) == registry' = registry /\ titles' = [titles EXCEPT !.champion[k] = t]

ChampionRecorded(k, t) ==
    /\ registry' = Elevated(registry, {t},
                            IF k[2] = Annual THEN "ANNUAL_CHAMPION" ELSE "QUARTERLY_CHAMPION")
    /\ titles' = [titles EXCEPT !.champion[k] = t]

(***************************************************************************)
(* Pots                                                                    *)
(***************************************************************************)

\* Slip: a settled pot takes money again.
CanFundSettled(k, amount) == amount <= MaxFunded

\* A pot is open to anyone, before and after its finalists are known.
CanFund(k, amount) ==
    /\ vault.pots[k].phase # "Settled"
    /\ vault.pots[k].funded + amount <= MaxFunded

Fund(k, amount) ==
    /\ CanFund(k, amount)
    /\ vault' = [vault EXCEPT
                    !.pots[k] = [@ EXCEPT !.phase = "Open",
                                          !.funded = vault.pots[k].funded + amount],
                    !.balance = @ + amount]
    /\ UNCHANGED <<registry, titles>>

FundQuarterly(k, amount) == k \in Quarterlies /\ Fund(k, amount)
FundAnnual(y, amount) == Fund(<<y, Annual>>, amount)

Bps(amount, bps) == (amount * bps) \div 10000

\* The same split as a filter event of the weekly vault.
Split(pot) ==
    LET bounty == Bps(pot, 250)
        remainder == pot - bounty
        rollover == Bps(remainder, 4500)
        toBonus == Bps(remainder, 2500)
        tenth == Bps(remainder, 1000) IN
    [bounty |-> bounty, rollover |-> rollover, bonus |-> toBonus, mechanics |-> tenth,
     pol |-> tenth, treasury |-> remainder - rollover - toBonus - tenth - tenth]

\* Slip: the oracle's bonus total is not compared with the slice.
CanSettleAnyBonus(k, w, o) ==
    /\ vault.pots[k].phase = "Open" /\ vault.pots[k].funded # 0
    /\ w \in titles.finalists[k]
    /\ CanRecordChampion(k, w)

\* A tree without shares is refused (ZeroShares, in the type of OracleRoots).
CanSettle(k, w, o) ==
    /\ vault.pots[k].phase = "Open" /\ vault.pots[k].funded # 0
    /\ w \in titles.finalists[k]
    /\ o.totalBonusAmount <= Split(vault.pots[k].funded).bonus
    /\ CanRecordChampion(k, w)

\* Bounty, mechanics and treasury slices leave at once; the POL slice stays, with
\* no way out in the contract.
SubmitWinner(k, w, o) ==
    LET slice == Split(vault.pots[k].funded) IN
    /\ CanSettle(k, w, o)
    /\ ChampionRecorded(k, w)
    /\ vault' = [vault EXCEPT
                    !.pots[k] = [phase |-> "Settled", funded |-> @.funded, winner |-> w,
                                 bountyAmount |-> slice.bounty,
                                 rolloverReserve |-> slice.rollover,
                                 bonusReserve |-> slice.bonus,
                                 polAccumulated |-> slice.pol,
                                 rolloverRoot |-> o.rolloverRoot,
                                 totalRolloverShares |-> o.totalRolloverShares,
                                 claimedRolloverShares |-> 0,
                                 bonusRoot |-> o.bonusRoot,
                                 totalBonusAmount |-> o.totalBonusAmount,
                                 claimedBonusAmount |-> 0,
                                 bonusUnlocked |-> FALSE],
                    !.balance = @ - slice.bounty - slice.mechanics - slice.treasury]

SubmitQuarterlyWinner(k, w, o) == k \in Quarterlies /\ SubmitWinner(k, w, o)
SubmitAnnualWinner(y, w, o) == SubmitWinner(<<y, Annual>>, w, o)

(***************************************************************************)
(* Claims                                                                  *)
(***************************************************************************)

Share(p, u) == p.rolloverRoot.amountOf[u]

RolloverAmount(p, u) == (Share(p, u) * p.rolloverReserve) \div p.totalRolloverShares

\* The last conjunct is the ERC-20 transfer, which reverts on a short balance.
CanClaimRollover(k, u) ==
    LET p == vault.pots[k] IN
    /\ p.phase = "Settled"
    /\ <<k, u>> \notin vault.rolloverClaimed
    /\ u \in p.rolloverRoot.leaves /\ Share(p, u) # 0
    /\ p.claimedRolloverShares + Share(p, u) <= p.totalRolloverShares
    /\ RolloverAmount(p, u) <= vault.balance

ClaimRollover(k, u) ==
    /\ CanClaimRollover(k, u)
    /\ vault' = [vault EXCEPT
                    !.rolloverClaimed = @ \cup {<<k, u>>},
                    !.pots[k].claimedRolloverShares = @ + Share(vault.pots[k], u),
                    !.balance = @ - RolloverAmount(vault.pots[k], u)]
    /\ UNCHANGED <<registry, titles>>

ClaimQuarterlyRollover(k, u) == k \in Quarterlies /\ ClaimRollover(k, u)
ClaimAnnualRollover(y, u) == ClaimRollover(<<y, Annual>>, u)

CanClaimBonus(k, u) ==
    LET p == vault.pots[k]
        amount == p.bonusRoot.amountOf[u] IN
    /\ p.phase = "Settled" /\ p.bonusUnlocked
    /\ <<k, u>> \notin vault.bonusClaimed
    /\ u \in p.bonusRoot.leaves /\ amount # 0
    /\ p.claimedBonusAmount + amount <= p.totalBonusAmount
    /\ amount <= vault.balance

ClaimBonus(k, u) ==
    LET amount == vault.pots[k].bonusRoot.amountOf[u] IN
    /\ CanClaimBonus(k, u)
    /\ vault' = [vault EXCEPT !.bonusClaimed = @ \cup {<<k, u>>},
                              !.pots[k].claimedBonusAmount = @ + amount,
                              !.balance = @ - amount]
    /\ UNCHANGED <<registry, titles>>

ClaimQuarterlyBonus(k, u) == k \in Quarterlies /\ ClaimBonus(k, u)
ClaimAnnualBonus(y, u) == ClaimBonus(<<y, Annual>>, u)

\* The clock passes the pot's bonusUnlockTime.
UnlockBonus(k) ==
    /\ vault.pots[k].phase = "Settled" /\ ~vault.pots[k].bonusUnlocked
    /\ vault' = [vault EXCEPT !.pots[k].bonusUnlocked = TRUE]
    /\ UNCHANGED <<registry, titles>>

Next ==
    \/ \E s \in Seasons, t \in Tokens : RecordWeeklyWinner(s, t)
    \/ \E s \in Seasons, losers \in SUBSET Tokens : MarkFiltered(s, losers)
    \/ \E k \in Quarterlies, entrants \in SUBSET Tokens : RecordQuarterlyFinalists(k, entrants)
    \/ \E y \in Years : RecordAnnualFinalists(y)
    \/ \E k \in Quarterlies, amount \in Deposits : FundQuarterly(k, amount)
    \/ \E y \in Years, amount \in Deposits : FundAnnual(y, amount)
    \/ \E k \in Quarterlies, w \in Tokens, o \in OracleRoots : SubmitQuarterlyWinner(k, w, o)
    \/ \E y \in Years, w \in Tokens, o \in OracleRoots : SubmitAnnualWinner(y, w, o)
    \/ \E k \in Quarterlies, u \in Users : ClaimQuarterlyRollover(k, u) \/ ClaimQuarterlyBonus(k, u)
    \/ \E y \in Years, u \in Users : ClaimAnnualRollover(y, u) \/ ClaimAnnualBonus(y, u)
    \/ \E k \in Tournaments : UnlockBonus(k)

Spec == Init /\ [][Next]_vars

(***************************************************************************)
(* Properties                                                              *)
(***************************************************************************)

\* Registry and vault keep their declared types; no balance is ever negative.
TypeOK ==
    /\ registry \in RegistryState
    /\ titles \in Titles
    /\ vault \in VaultState

\* What the claims of pot k have paid out of its rollover slice.
RolloverPaid(k) ==
    Total([u \in {v \in Users : <<k, v>> \in vault.rolloverClaimed} |->
              RolloverAmount(vault.pots[k], u)])

\* The WETH that belongs to pot k.
HeldFor(k) ==
    LET p == vault.pots[k] IN
    IF p.phase = "Settled"
    THEN p.rolloverReserve - RolloverPaid(k)
         + p.bonusReserve - p.claimedBonusAmount + p.polAccumulated
    ELSE p.funded

\* The pots share one balance and never eat into each other: no pot pays out more
\* than its own slices, whatever trees and totals the oracle posted
\* (BonusExceedsReserve, ClaimExceedsAllocation), and the balance is the sum of
\* what belongs to the pots and, by TypeOK, never negative.
PotsAreSegregated ==
    /\ TypeOK
    /\ \A k \in Tournaments :
          /\ RolloverPaid(k) <= vault.pots[k].rolloverReserve
          /\ vault.pots[k].claimedBonusAmount <= vault.pots[k].bonusReserve
    /\ vault.balance = Total([k \in Tournaments |-> HeldFor(k)])

\* The best title that the records of seasons, quarters and years give t.
TitleOf(t) ==
    IF \E y \in Years : titles.champion[<<y, Annual>>] = t THEN "ANNUAL_CHAMPION"
    ELSE IF \E y \in Years : t \in titles.finalists[<<y, Annual>>] THEN "ANNUAL_FINALIST"
    ELSE IF \E k \in Quarterlies : titles.champion[k] = t THEN "QUARTERLY_CHAMPION"
    ELSE IF \E k \in Quarterlies : t \in titles.finalists[k] THEN "QUARTERLY_FINALIST"
    ELSE IF \E s \in Seasons : registry.weeklyWinnerOf[s] = t THEN "WEEKLY_WINNER"
    ELSE "ACTIVE"

\* statusOf is a cache of those records: it always is the best title that they
\* give, and FILTERED only for a token that they never mention.
StatusMatchesTitles ==
    \A t \in Tokens :
        \/ registry.statusOf[t] = TitleOf(t)
        \/ registry.statusOf[t] = "FILTERED" /\ TitleOf(t) = "ACTIVE"

\* Titles are earned rung by rung: a quarter's finalists won a week and are in no
\* other quarter, a champion is a finalist of its own tournament and the winner
\* of its pot, and a year's finalists are one champion of each of its quarters.
TitlesAreEarned ==
    /\ \A k \in Tournaments :
          /\ titles.champion[k] \in titles.finalists[k] \cup {NoToken}
          /\ titles.champion[k] = vault.pots[k].winner
    /\ \A k \in Quarterlies : \A t \in titles.finalists[k] :
          /\ \E s \in Seasons : registry.weeklyWinnerOf[s] = t
          /\ \A j \in Quarterlies : t \in titles.finalists[j] => j = k
    /\ \A y \in Years : titles.finalists[<<y, Annual>>] # {} =>
          /\ titles.finalists[<<y, Annual>>] = {titles.champion[<<y, q>>] : q \in Quarters}
          /\ Cardinality(titles.finalists[<<y, Annual>>]) = LastQuarter

\* The ladder's cache and the records agree, and the records are earned.
TitlesHold == StatusMatchesTitles /\ TitlesAreEarned

Rank ==
    [ACTIVE |-> 0, FILTERED |-> 0, WEEKLY_WINNER |-> 1, QUARTERLY_FINALIST |-> 2,
     QUARTERLY_CHAMPION |-> 3, ANNUAL_FINALIST |-> 4, ANNUAL_CHAMPION |-> 5]

\* Status is monotonic in the best title earned and FILTERED is terminal (natspec
\* of TokenStatus).
LadderOnlyClimbs ==
    [][\A t \in Tokens :
          registry'.statusOf[t] # registry.statusOf[t] =>
              /\ registry.statusOf[t] # "FILTERED"
              /\ \/ Rank[registry'.statusOf[t]] > Rank[registry.statusOf[t]]
                 \/ registry'.statusOf[t] = "FILTERED" /\ registry.statusOf[t] = "ACTIVE"]_vars

\* A settled pot is never reopened, funded or settled again, and its champion
\* stays: only claims and the clock touch it.
SettledPotsAreFinal ==
    [][\A k \in Tournaments :
          LET p == vault.pots[k]
              q == vault'.pots[k] IN
          p.phase = "Settled" =>
              /\ titles'.champion[k] = titles.champion[k]
              /\ q = [p EXCEPT !.claimedRolloverShares = q.claimedRolloverShares,
                              !.claimedBonusAmount = q.claimedBonusAmount,
                              !.bonusUnlocked = q.bonusUnlocked]
              /\ q.claimedRolloverShares >= p.claimedRolloverShares
              /\ q.claimedBonusAmount >= p.claimedBonusAmount
              /\ p.bonusUnlocked => q.bonusUnlocked]_vars

==============================================================================

--------------------------- MODULE SeasonVaultProofs ---------------------------
(***************************************************************************)
(* The vaults keep their WETH, and they and the distributors can pay all   *)
(* that they owe: for every finite set of seasons, tokens and wallets,     *)
(* every amount a liquidation or a fee collection may yield, every tree    *)
(* and every order of the calls. And the indexer, which handles their logs *)
(* one by one, is never stopped by one and serves what they hold.          *)
(***************************************************************************)
EXTENDS SettlementIndex, WeiProofs, SequenceTheorems

(***************************************************************************)
(* Arithmetic                                                              *)
(***************************************************************************)

\* The slices of a filter event are natural numbers that add up to it.
LEMMA PotSplits ==
  ASSUME NEW p \in Nat, NEW pot, pot = LosersPot(p)
  PROVE  /\ pot.bounty \in Nat /\ pot.rollover \in Nat /\ pot.bonus \in Nat
         /\ pot.mechanics \in Nat /\ pot.pol \in Nat /\ pot.treasury \in Nat
         /\ p = pot.bounty + pot.rollover + pot.bonus + pot.mechanics + pot.pol + pot.treasury
<1> DEFINE b == Bps(p, 250)
           r == p - b
           ro == Bps(r, 4500)
           bo == Bps(r, 2500)
           te == Bps(r, 1000)
<1>1. b \in Nat /\ b <= p
  BY DEF Bps
<1>2. r \in Nat
  BY <1>1
<1> HIDE DEF b, r
<1>3. /\ ro \in Nat /\ bo \in Nat /\ te \in Nat
      /\ 10000 * ro <= r * 4500 /\ 10000 * bo <= r * 2500 /\ 10000 * te <= r * 1000
  BY <1>2 DEF Bps
<1>4. /\ pot.bounty = b /\ pot.rollover = ro /\ pot.bonus = bo /\ pot.mechanics = te
      /\ pot.pol = te /\ pot.treasury = r - ro - bo - te - te
  BY DEF LosersPot, b, r
<1> HIDE DEF ro, bo, te
<1>5. r - ro - bo - te - te \in Nat
  BY <1>2, <1>3
<1>6. p = b + r
  BY <1>1 DEF r
<1> QED
  BY <1>1, <1>2, <1>3, <1>4, <1>5, <1>6

\* The slices of a fee are natural numbers that add up to it.
LEMMA FeeSplits ==
  ASSUME NEW a \in Nat, NEW split, split = FeeSplit(a)
  PROVE  /\ split.treasury \in Nat /\ split.mechanics \in Nat /\ split.creator \in Nat
         /\ split.prize \in Nat
         /\ a = split.treasury + split.mechanics + split.creator + split.prize
<1> DEFINE tr == (a * 65) \div 200
           me == (a * 25) \div 200
           cr == (a * 20) \div 200
<1>1. /\ tr \in Nat /\ me \in Nat /\ cr \in Nat
      /\ 200 * tr <= a * 65 /\ 200 * me <= a * 25 /\ 200 * cr <= a * 20
  OBVIOUS
<1>2. /\ split.treasury = tr /\ split.mechanics = me /\ split.creator = cr
      /\ split.prize = a - tr - me - cr
  BY DEF FeeSplit
<1> HIDE DEF tr, me, cr
<1>3. a - tr - me - cr \in Nat
  BY <1>1
<1> QED
  BY <1>1, <1>2, <1>3

(***************************************************************************)
(* The inductive invariant                                                 *)
(***************************************************************************)

MoneyTypes ==
    /\ phase \in [Seasons -> {Active, Distributing}]
    /\ liquidated \in [Seasons -> SUBSET Tokens]
    /\ weth \in [Seasons -> Nat]
    /\ reserves \in [Seasons -> Reserves]
    /\ totals \in [Seasons -> Totals]
    /\ polReserve \in [Seasons -> PolReserve]
    /\ settlement \in [Seasons -> Settlement]
    /\ polVault \in [weth: Nat, recorded: SUBSET Seasons, totalWethDeployed: Nat]
    /\ feesIn \in [Seasons -> Nat]

\* Until a vault settles, nothing has been written about its settlement.
UnsettledWhileActive == \A s \in Seasons : phase[s] = Active => settlement[s] = Unsettled

VaultInv ==
    MoneyTypes /\ UnsettledWhileActive /\ ReservesHeld /\ WethAccounted /\ PolIsAllOrNothing

PolDeployed == [s \in Seasons |-> settlement[s].polDeployedWeth]

moneyVars ==
    <<phase, liquidated, weth, reserves, totals, polReserve, settlement, polVault, feesIn>>

LEMMA UnsettledType == Unsettled \in Settlement
<1>1. NoTree \in Trees
  BY DEF NoTree, Trees
<1> QED
  BY <1>1 DEF Unsettled, Settlement

LEMMA InitVault == Init => VaultInv
<1> SUFFICES ASSUME Init PROVE VaultInv
  OBVIOUS
<1>1. MoneyTypes
  BY UnsettledType DEF Init, MoneyTypes, Reserves, Totals, PolReserve, Active, Distributing
<1>2. UnsettledWhileActive
  BY DEF Init, UnsettledWhileActive
<1>3. ReservesHeld
  BY DEF Init, ReservesHeld
<1>4. WethAccounted
  BY DEF Init, WethAccounted, Unsettled
<1>5. PolIsAllOrNothing
  <2>1. PolDeployed \in [Seasons -> Nat] /\ \A s \in Seasons : PolDeployed[s] = 0
    BY DEF Init, Unsettled, PolDeployed
  <2>2. Total(PolDeployed) = 0
    BY <2>1, TotalZero
  <2> QED
    BY <2>2 DEF Init, PolIsAllOrNothing, PolDeployed, Active
<1> QED
  BY <1>1, <1>2, <1>3, <1>4, <1>5 DEF VaultInv

\* A step that leaves the money alone preserves the invariant.
LEMMA QuietVault ==
  ASSUME VaultInv, UNCHANGED moneyVars
  PROVE  VaultInv'
<1> USE DEF moneyVars, VaultInv
<1>1. MoneyTypes'
  BY DEF MoneyTypes
<1>2. UnsettledWhileActive'
  BY DEF UnsettledWhileActive
<1>3. ReservesHeld'
  BY DEF ReservesHeld
<1>4. WethAccounted'
  BY DEF WethAccounted
<1>5. PolIsAllOrNothing'
  BY DEF PolIsAllOrNothing
<1> QED
  BY <1>1, <1>2, <1>3, <1>4, <1>5

LEMMA FilterStep ==
  ASSUME VaultInv, NEW s \in Seasons, NEW losers \in SUBSET Tokens, NEW p \in Proceeds,
         ProcessFilterEvent(s, losers, p)
  PROVE  VaultInv'
<1> DEFINE pot == LosersPot(p)
<1>0. p \in Nat /\ losers \subseteq Tokens /\ phase[s] = Active
  BY VaultConstants DEF ProcessFilterEvent, CanFilter
<1>1. /\ pot.bounty \in Nat /\ pot.rollover \in Nat /\ pot.bonus \in Nat
      /\ pot.mechanics \in Nat /\ pot.pol \in Nat /\ pot.treasury \in Nat
      /\ p = pot.bounty + pot.rollover + pot.bonus + pot.mechanics + pot.pol + pot.treasury
  BY <1>0, PotSplits
<1>2. /\ liquidated' = [liquidated EXCEPT ![s] = @ \cup losers]
      /\ reserves' = [reserves EXCEPT ![s] =
                         [rollover |-> reserves[s].rollover + pot.rollover,
                          bonus |-> reserves[s].bonus + pot.bonus,
                          bounty |-> reserves[s].bounty + pot.bounty]]
      /\ totals' = [totals EXCEPT ![s] =
                       [proceeds |-> totals[s].proceeds + p,
                        mechanics |-> totals[s].mechanics + pot.mechanics,
                        treasury |-> totals[s].treasury + pot.treasury,
                        pol |-> totals[s].pol + pot.pol,
                        bounty |-> totals[s].bounty + pot.bounty]]
      /\ weth' = [weth EXCEPT ![s] = weth[s] + p - pot.mechanics - pot.treasury - pot.pol]
      /\ polReserve' = [polReserve EXCEPT ![s] =
                           [weth |-> polReserve[s].weth + pot.pol,
                            totalAccumulated |-> polReserve[s].totalAccumulated + pot.pol,
                            deployed |-> polReserve[s].deployed]]
      /\ UNCHANGED <<phase, settlement, polVault, feesIn>>
  BY DEF ProcessFilterEvent, PolDeposited, MoneyTypes, VaultInv, historyVars
<1> HIDE DEF pot
<1>3. /\ reserves[s] \in Reserves /\ totals[s] \in Totals /\ polReserve[s] \in PolReserve
      /\ weth[s] \in Nat /\ feesIn[s] \in Nat
  BY DEF VaultInv, MoneyTypes
<1>4. weth[s] = reserves[s].rollover + reserves[s].bonus + reserves[s].bounty + feesIn[s]
  BY <1>0 DEF VaultInv, ReservesHeld
<1>5. weth[s] + p - pot.mechanics - pot.treasury - pot.pol
        = weth[s] + pot.rollover + pot.bonus + pot.bounty
  BY <1>1, <1>3
<1>6. MoneyTypes'
  <2>1. weth' \in [Seasons -> Nat]
    BY <1>1, <1>2, <1>3, <1>5 DEF VaultInv, MoneyTypes
  <2>2. reserves' \in [Seasons -> Reserves]
    BY <1>1, <1>2, <1>3 DEF VaultInv, MoneyTypes, Reserves
  <2>3. totals' \in [Seasons -> Totals]
    BY <1>0, <1>1, <1>2, <1>3 DEF VaultInv, MoneyTypes, Totals
  <2>4. polReserve' \in [Seasons -> PolReserve]
    BY <1>1, <1>2, <1>3 DEF VaultInv, MoneyTypes, PolReserve
  <2>5. liquidated' \in [Seasons -> SUBSET Tokens]
    BY <1>0, <1>2 DEF VaultInv, MoneyTypes
  <2> QED
    BY <1>2, <2>1, <2>2, <2>3, <2>4, <2>5 DEF VaultInv, MoneyTypes
<1>7. UnsettledWhileActive'
  BY <1>2 DEF VaultInv, UnsettledWhileActive
<1>8. ReservesHeld'
  <2> SUFFICES ASSUME NEW z \in Seasons, phase'[z] = Active
               PROVE  weth'[z] = reserves'[z].rollover + reserves'[z].bonus
                                 + reserves'[z].bounty + feesIn'[z]
    BY DEF ReservesHeld
  <2>1. CASE z = s
    <3>1. /\ weth'[s] = weth[s] + pot.rollover + pot.bonus + pot.bounty
          /\ reserves'[s].rollover = reserves[s].rollover + pot.rollover
          /\ reserves'[s].bonus = reserves[s].bonus + pot.bonus
          /\ reserves'[s].bounty = reserves[s].bounty + pot.bounty
          /\ feesIn'[s] = feesIn[s]
      BY <1>2, <1>5 DEF VaultInv, MoneyTypes
    <3> QED
      BY <2>1, <3>1, <1>1, <1>3, <1>4 DEF Reserves
  <2>2. CASE z # s
    BY <2>2, <1>2 DEF VaultInv, MoneyTypes, ReservesHeld
  <2> QED
    BY <2>1, <2>2
<1>9. WethAccounted'
  <2> SUFFICES ASSUME NEW z \in Seasons
               PROVE  totals'[z].proceeds + feesIn'[z] =
                         weth'[z] + polReserve'[z].weth
                         + totals'[z].mechanics + totals'[z].treasury
                         + settlement'[z].rolloverSpent + settlement'[z].bonusFunded
                         + settlement'[z].bountyPaid + settlement'[z].polDeployedWeth
    BY DEF WethAccounted
  <2>1. CASE z = s
    <3>1. /\ weth'[s] = weth[s] + p - pot.mechanics - pot.treasury - pot.pol
          /\ totals'[s].proceeds = totals[s].proceeds + p
          /\ totals'[s].mechanics = totals[s].mechanics + pot.mechanics
          /\ totals'[s].treasury = totals[s].treasury + pot.treasury
          /\ polReserve'[s].weth = polReserve[s].weth + pot.pol
          /\ feesIn'[s] = feesIn[s] /\ settlement'[s] = settlement[s]
      BY <1>2 DEF VaultInv, MoneyTypes
    <3>2. settlement[s] \in Settlement
      BY DEF VaultInv, MoneyTypes
    <3>3. totals[s].proceeds + feesIn[s] =
             weth[s] + polReserve[s].weth + totals[s].mechanics + totals[s].treasury
             + settlement[s].rolloverSpent + settlement[s].bonusFunded
             + settlement[s].bountyPaid + settlement[s].polDeployedWeth
      BY DEF VaultInv, WethAccounted
    <3>4. /\ totals[s].proceeds \in Nat /\ totals[s].mechanics \in Nat
          /\ totals[s].treasury \in Nat /\ polReserve[s].weth \in Nat
          /\ settlement[s].rolloverSpent \in Nat /\ settlement[s].bonusFunded \in Nat
          /\ settlement[s].bountyPaid \in Nat /\ settlement[s].polDeployedWeth \in Nat
      BY <1>3, <3>2 DEF Totals, PolReserve, Settlement
    <3>5. totals[s].proceeds + p + feesIn[s] =
             (weth[s] + p - pot.mechanics - pot.treasury - pot.pol)
             + (polReserve[s].weth + pot.pol)
             + (totals[s].mechanics + pot.mechanics) + (totals[s].treasury + pot.treasury)
             + settlement[s].rolloverSpent + settlement[s].bonusFunded
             + settlement[s].bountyPaid + settlement[s].polDeployedWeth
      <4> DEFINE x == totals[s].proceeds      m == totals[s].mechanics
                 t == totals[s].treasury      q == polReserve[s].weth
                 w == weth[s]                 f == feesIn[s]
                 c1 == settlement[s].rolloverSpent   c2 == settlement[s].bonusFunded
                 c3 == settlement[s].bountyPaid      c4 == settlement[s].polDeployedWeth
                 pm == pot.mechanics   pt == pot.treasury   pp == pot.pol
      <4>1. /\ x \in Nat /\ m \in Nat /\ t \in Nat /\ q \in Nat /\ w \in Nat /\ f \in Nat
            /\ c1 \in Nat /\ c2 \in Nat /\ c3 \in Nat /\ c4 \in Nat
            /\ pm \in Nat /\ pt \in Nat /\ pp \in Nat
        BY <1>1, <1>3, <3>4
      <4>2. x + f = w + q + m + t + c1 + c2 + c3 + c4
        BY <3>3
      <4> HIDE DEF x, m, t, q, w, f, c1, c2, c3, c4, pm, pt, pp
      <4>3. x + p + f = (w + p - pm - pt - pp) + (q + pp) + (m + pm) + (t + pt)
                        + c1 + c2 + c3 + c4
        BY <1>0, <4>1, <4>2
      <4> QED
        BY <4>3 DEF x, m, t, q, w, f, c1, c2, c3, c4, pm, pt, pp
    <3> QED
      BY <2>1, <3>1, <3>5
  <2>2. CASE z # s
    BY <2>2, <1>2 DEF VaultInv, MoneyTypes, WethAccounted
  <2> QED
    BY <2>1, <2>2
<1>10. PolIsAllOrNothing'
  <2>1. ASSUME NEW z \in Seasons
        PROVE  /\ polReserve'[z].totalAccumulated = totals'[z].pol
               /\ IF phase'[z] = Active
                  THEN polReserve'[z].weth = totals'[z].pol /\ ~polReserve'[z].deployed
                  ELSE /\ polReserve'[z].weth = 0
                       /\ settlement'[z].polDeployedWeth = totals'[z].pol
    <3>1. CASE z = s
      <4>1. /\ totals'[s].pol = totals[s].pol + pot.pol
            /\ polReserve'[s].weth = polReserve[s].weth + pot.pol
            /\ polReserve'[s].totalAccumulated = polReserve[s].totalAccumulated + pot.pol
            /\ polReserve'[s].deployed <=> polReserve[s].deployed
            /\ phase'[s] = Active
        BY <1>0, <1>2 DEF VaultInv, MoneyTypes
      <4>2. /\ polReserve[s].totalAccumulated = totals[s].pol
            /\ polReserve[s].weth = totals[s].pol /\ ~polReserve[s].deployed
        BY <1>0 DEF VaultInv, PolIsAllOrNothing
      <4> QED
        BY <3>1, <4>1, <4>2
    <3>2. CASE z # s
      BY <3>2, <1>2 DEF VaultInv, MoneyTypes, PolIsAllOrNothing
    <3> QED
      BY <3>1, <3>2
  <2>2. polVault'.totalWethDeployed = Total([z \in Seasons |-> settlement'[z].polDeployedWeth])
    BY <1>2 DEF VaultInv, PolIsAllOrNothing
  <2> QED
    BY <2>1, <2>2 DEF PolIsAllOrNothing
<1> QED
  BY <1>6, <1>7, <1>8, <1>9, <1>10 DEF VaultInv

LEMMA SubmitStep ==
  ASSUME VaultInv, NEW s \in Seasons, NEW w \in Tokens, NEW root \in RolloverTrees,
         NEW bought \in TokensBought, SubmitWinner(s, w, root, bought)
  PROVE  VaultInv'
<1> DEFINE left == Residue(s)
           tokens == IF reserves[s].rollover > 0 THEN bought ELSE 0
           result == [winner |-> w, root |-> root, totalRolloverShares |-> Total(root.amountOf),
                      rolloverSpent |-> reserves[s].rollover,
                      rolloverWinnerTokens |-> tokens,
                      bonusFunded |-> reserves[s].bonus,
                      bountyPaid |-> reserves[s].bounty,
                      polDeployedWeth |-> polReserve[s].weth]
<1>0. phase[s] = Active
  BY DEF SubmitWinner, CanSubmitWinner
<1>1. /\ settlement' = [settlement EXCEPT ![s] = result]
      /\ reserves' = [reserves EXCEPT ![s] = [rollover |-> 0, bonus |-> 0, bounty |-> 0]]
      /\ polReserve' = [polReserve EXCEPT ![s] =
                           [weth |-> 0, totalAccumulated |-> polReserve[s].totalAccumulated,
                            deployed |-> TRUE]]
      /\ polVault' = IF polReserve[s].weth = 0 THEN polVault
                     ELSE [weth |-> polVault.weth,
                           recorded |-> polVault.recorded \cup {s},
                           totalWethDeployed |-> polVault.totalWethDeployed + polReserve[s].weth]
      /\ weth' = [weth EXCEPT ![s] = weth[s] - reserves[s].bounty - reserves[s].bonus
                                      - reserves[s].rollover - left]
      /\ totals' = [totals EXCEPT ![s] =
                       [proceeds |-> totals[s].proceeds, mechanics |-> totals[s].mechanics,
                        treasury |-> totals[s].treasury + left,
                        pol |-> totals[s].pol, bounty |-> totals[s].bounty]]
      /\ phase' = [phase EXCEPT ![s] = Distributing]
      /\ UNCHANGED <<liquidated, feesIn>>
  BY DEF SubmitWinner, TreasuryPaid, MoneyTypes, VaultInv, historyVars
<1>2. /\ reserves[s] \in Reserves /\ totals[s] \in Totals /\ polReserve[s] \in PolReserve
      /\ weth[s] \in Nat /\ feesIn[s] \in Nat
  BY DEF VaultInv, MoneyTypes
<1>3. left = feesIn[s]
        /\ weth[s] - reserves[s].bounty - reserves[s].bonus - reserves[s].rollover - left = 0
  <2>1. weth[s] = reserves[s].rollover + reserves[s].bonus + reserves[s].bounty + feesIn[s]
    BY <1>0 DEF VaultInv, ReservesHeld
  <2>2. reserves[s].rollover \in Nat /\ reserves[s].bonus \in Nat /\ reserves[s].bounty \in Nat
    BY <1>2 DEF Reserves
  <2> QED
    BY <1>2, <2>1, <2>2 DEF Residue
<1>4. result \in Settlement
  <2>1. root \in Trees
    BY VaultConstants
  <2>2. Total(root.amountOf) \in Nat
    BY <2>1, SeasonConstants, TotalType DEF Trees
  <2>3. tokens \in Nat
    BY VaultConstants
  <2>4. /\ reserves[s].rollover \in Nat /\ reserves[s].bonus \in Nat
        /\ reserves[s].bounty \in Nat /\ polReserve[s].weth \in Nat
    BY <1>2 DEF Reserves, PolReserve
  <2> HIDE DEF tokens
  <2> QED
    BY <2>1, <2>2, <2>3, <2>4 DEF Settlement
<1>5. /\ result.rolloverSpent = reserves[s].rollover /\ result.bonusFunded = reserves[s].bonus
      /\ result.bountyPaid = reserves[s].bounty /\ result.polDeployedWeth = polReserve[s].weth
  OBVIOUS
<1> HIDE DEF left, tokens, result
<1>6. MoneyTypes'
  <2>1. weth' \in [Seasons -> Nat]
    BY <1>1, <1>3 DEF VaultInv, MoneyTypes
  <2>2. reserves' \in [Seasons -> Reserves]
    BY <1>1 DEF VaultInv, MoneyTypes, Reserves
  <2>3. totals' \in [Seasons -> Totals]
    BY <1>1, <1>2, <1>3 DEF VaultInv, MoneyTypes, Totals
  <2>4. polReserve' \in [Seasons -> PolReserve]
    BY <1>1, <1>2 DEF VaultInv, MoneyTypes, PolReserve
  <2>5. polVault' \in [weth: Nat, recorded: SUBSET Seasons, totalWethDeployed: Nat]
    BY <1>1, <1>2 DEF VaultInv, MoneyTypes, PolReserve
  <2>6. phase' \in [Seasons -> {Active, Distributing}] /\ settlement' \in [Seasons -> Settlement]
    BY <1>1, <1>4 DEF VaultInv, MoneyTypes
  <2> QED
    BY <1>1, <2>1, <2>2, <2>3, <2>4, <2>5, <2>6 DEF VaultInv, MoneyTypes
<1>7. phase'[s] = Distributing /\ (\A z \in Seasons \ {s} : phase'[z] = phase[z])
  BY <1>1 DEF VaultInv, MoneyTypes
<1>8. UnsettledWhileActive'
  BY <1>1, <1>7 DEF VaultInv, MoneyTypes, UnsettledWhileActive, Active, Distributing
<1>9. ReservesHeld'
  BY <1>1, <1>7 DEF VaultInv, MoneyTypes, ReservesHeld, Active, Distributing
<1>10. WethAccounted'
  <2> SUFFICES ASSUME NEW z \in Seasons
               PROVE  totals'[z].proceeds + feesIn'[z] =
                         weth'[z] + polReserve'[z].weth
                         + totals'[z].mechanics + totals'[z].treasury
                         + settlement'[z].rolloverSpent + settlement'[z].bonusFunded
                         + settlement'[z].bountyPaid + settlement'[z].polDeployedWeth
    BY DEF WethAccounted
  <2>1. CASE z = s
    <3>1. /\ weth'[s] = 0
          /\ totals'[s].proceeds = totals[s].proceeds
          /\ totals'[s].mechanics = totals[s].mechanics
          /\ totals'[s].treasury = totals[s].treasury + feesIn[s]
          /\ polReserve'[s].weth = 0
          /\ feesIn'[s] = feesIn[s] /\ settlement'[s] = result
      BY <1>1, <1>3 DEF VaultInv, MoneyTypes
    <3>2. settlement[s] = Unsettled
      BY <1>0 DEF VaultInv, UnsettledWhileActive
    <3>3. totals[s].proceeds + feesIn[s] =
             weth[s] + polReserve[s].weth + totals[s].mechanics + totals[s].treasury
             + 0 + 0 + 0 + 0
      BY <3>2 DEF VaultInv, WethAccounted, Unsettled
    <3>4. /\ totals[s].proceeds \in Nat /\ totals[s].mechanics \in Nat
          /\ totals[s].treasury \in Nat /\ polReserve[s].weth \in Nat
          /\ reserves[s].rollover \in Nat /\ reserves[s].bonus \in Nat
          /\ reserves[s].bounty \in Nat
      BY <1>2 DEF Totals, PolReserve, Reserves
    <3>5. weth[s] = reserves[s].rollover + reserves[s].bonus + reserves[s].bounty + feesIn[s]
      BY <1>0 DEF VaultInv, ReservesHeld
    <3>6. totals[s].proceeds + feesIn[s] =
             0 + 0 + totals[s].mechanics + (totals[s].treasury + feesIn[s])
             + reserves[s].rollover + reserves[s].bonus + reserves[s].bounty + polReserve[s].weth
      <4> DEFINE x == totals[s].proceeds      m == totals[s].mechanics
                 t == totals[s].treasury      q == polReserve[s].weth
                 held == weth[s]              f == feesIn[s]
                 r1 == reserves[s].rollover   r2 == reserves[s].bonus
                 r3 == reserves[s].bounty
      <4>1. /\ x \in Nat /\ m \in Nat /\ t \in Nat /\ q \in Nat /\ held \in Nat /\ f \in Nat
            /\ r1 \in Nat /\ r2 \in Nat /\ r3 \in Nat
        BY <1>2, <3>4
      <4>2. x + f = held + q + m + t + 0 + 0 + 0 + 0 /\ held = r1 + r2 + r3 + f
        BY <3>3, <3>5
      <4> HIDE DEF x, m, t, q, held, f, r1, r2, r3
      <4>3. x + f = 0 + 0 + m + (t + f) + r1 + r2 + r3 + q
        BY <4>1, <4>2
      <4> QED
        BY <4>3 DEF x, m, t, q, held, f, r1, r2, r3
    <3> QED
      BY <2>1, <1>5, <3>1, <3>6
  <2>2. CASE z # s
    BY <2>2, <1>1 DEF VaultInv, MoneyTypes, WethAccounted
  <2> QED
    BY <2>1, <2>2
<1>11. PolIsAllOrNothing'
  <2>1. ASSUME NEW z \in Seasons
        PROVE  /\ polReserve'[z].totalAccumulated = totals'[z].pol
               /\ IF phase'[z] = Active
                  THEN polReserve'[z].weth = totals'[z].pol /\ ~polReserve'[z].deployed
                  ELSE /\ polReserve'[z].weth = 0
                       /\ settlement'[z].polDeployedWeth = totals'[z].pol
    <3>1. CASE z = s
      <4>1. /\ totals'[s].pol = totals[s].pol
            /\ polReserve'[s].weth = 0
            /\ polReserve'[s].totalAccumulated = polReserve[s].totalAccumulated
            /\ settlement'[s].polDeployedWeth = polReserve[s].weth
        BY <1>1, <1>5 DEF VaultInv, MoneyTypes
      <4>2. /\ polReserve[s].totalAccumulated = totals[s].pol
            /\ polReserve[s].weth = totals[s].pol
        BY <1>0 DEF VaultInv, PolIsAllOrNothing
      <4> QED
        BY <3>1, <4>1, <4>2, <1>7 DEF Active, Distributing
    <3>2. CASE z # s
      BY <3>2, <1>1, <1>7 DEF VaultInv, MoneyTypes, PolIsAllOrNothing
    <3> QED
      BY <3>1, <3>2
  <2>2. polVault'.totalWethDeployed = Total([z \in Seasons |-> settlement'[z].polDeployedWeth])
    <3> DEFINE now == [z \in Seasons |-> settlement'[z].polDeployedWeth]
    <3>1. PolDeployed \in [Seasons -> Nat]
      BY DEF VaultInv, MoneyTypes, PolDeployed, Settlement
    <3>2. now \in [Seasons -> Nat]
      BY <1>6 DEF MoneyTypes, Settlement
    <3>3. /\ now[s] = polReserve[s].weth /\ PolDeployed[s] = 0
          /\ \A z \in Seasons \ {s} : now[z] = PolDeployed[z]
      BY <1>0, <1>1, <1>5
         DEF VaultInv, MoneyTypes, UnsettledWhileActive, Unsettled, PolDeployed
    <3> HIDE DEF now
    <3>4. Total(now) + PolDeployed[s] = Total(PolDeployed) + now[s]
      BY <3>1, <3>2, <3>3, SeasonConstants, TotalUpdate
    <3>5. Total(now) \in Nat /\ Total(PolDeployed) \in Nat
      BY <3>1, <3>2, SeasonConstants, TotalType
    <3>6. polVault.totalWethDeployed = Total(PolDeployed)
      BY DEF VaultInv, PolIsAllOrNothing, PolDeployed
    <3>7. polReserve[s].weth \in Nat
      BY <1>2 DEF PolReserve
    <3>8. polVault'.totalWethDeployed = polVault.totalWethDeployed + polReserve[s].weth
      BY <1>1, <3>5, <3>6, <3>7
    <3>9. polVault'.totalWethDeployed = Total(now)
      BY <3>3, <3>4, <3>5, <3>6, <3>7, <3>8
    <3> QED
      BY <3>9 DEF now
  <2> QED
    BY <2>1, <2>2 DEF PolIsAllOrNothing
<1> QED
  BY <1>6, <1>8, <1>9, <1>10, <1>11 DEF VaultInv

LEMMA CollectStep ==
  ASSUME VaultInv, NEW s \in Seasons, NEW t \in Tokens, NEW a \in WethFees, NEW k \in TokenFees,
         CollectFees(s, t, a, k)
  PROVE  VaultInv'
<1> DEFINE prize == FeeSplit(a).prize
<1>1. prize \in Nat
  BY VaultConstants, FeeSplits
<1>2. UNCHANGED <<phase, liquidated, reserves, totals, polReserve, settlement>>
  BY DEF CollectFees, vaultVars
<1>3. \/ /\ polVault' = [weth |-> polVault.weth + prize, recorded |-> polVault.recorded,
                         totalWethDeployed |-> polVault.totalWethDeployed]
         /\ UNCHANGED <<weth, feesIn>>
      \/ /\ weth' = [weth EXCEPT ![s] = weth[s] + prize]
         /\ feesIn' = [feesIn EXCEPT ![s] = feesIn[s] + prize]
         /\ UNCHANGED polVault
  BY DEF CollectFees, VaultInv, MoneyTypes
<1> HIDE DEF prize
<1>4. MoneyTypes'
  BY <1>1, <1>2, <1>3 DEF VaultInv, MoneyTypes
<1>5. UnsettledWhileActive'
  BY <1>2 DEF VaultInv, UnsettledWhileActive
<1>6. \A z \in Seasons : weth'[z] - feesIn'[z] = weth[z] - feesIn[z]
  BY <1>1, <1>3 DEF VaultInv, MoneyTypes
<1>7. /\ weth \in [Seasons -> Nat] /\ weth' \in [Seasons -> Nat]
      /\ feesIn \in [Seasons -> Nat] /\ feesIn' \in [Seasons -> Nat]
  BY <1>4 DEF VaultInv, MoneyTypes
<1>8. ReservesHeld'
  <2> SUFFICES ASSUME NEW z \in Seasons, phase[z] = Active
               PROVE  weth'[z] = reserves[z].rollover + reserves[z].bonus
                                 + reserves[z].bounty + feesIn'[z]
    BY <1>2 DEF ReservesHeld
  <2>1. weth[z] = reserves[z].rollover + reserves[z].bonus + reserves[z].bounty + feesIn[z]
    BY DEF VaultInv, ReservesHeld
  <2>2. reserves[z].rollover \in Nat /\ reserves[z].bonus \in Nat /\ reserves[z].bounty \in Nat
    BY DEF VaultInv, MoneyTypes, Reserves
  <2> QED
    BY <1>6, <1>7, <2>1, <2>2
<1>9. WethAccounted'
  <2> SUFFICES ASSUME NEW z \in Seasons
               PROVE  totals[z].proceeds + feesIn'[z] =
                         weth'[z] + polReserve[z].weth
                         + totals[z].mechanics + totals[z].treasury
                         + settlement[z].rolloverSpent + settlement[z].bonusFunded
                         + settlement[z].bountyPaid + settlement[z].polDeployedWeth
    BY <1>2 DEF WethAccounted
  <2>1. totals[z].proceeds + feesIn[z] =
           weth[z] + polReserve[z].weth + totals[z].mechanics + totals[z].treasury
           + settlement[z].rolloverSpent + settlement[z].bonusFunded
           + settlement[z].bountyPaid + settlement[z].polDeployedWeth
    BY DEF VaultInv, WethAccounted
  <2>2. totals[z] \in Totals /\ polReserve[z] \in PolReserve /\ settlement[z] \in Settlement
    BY DEF VaultInv, MoneyTypes
  <2>3. /\ totals[z].proceeds \in Nat /\ totals[z].mechanics \in Nat
        /\ totals[z].treasury \in Nat /\ polReserve[z].weth \in Nat
        /\ settlement[z].rolloverSpent \in Nat /\ settlement[z].bonusFunded \in Nat
        /\ settlement[z].bountyPaid \in Nat /\ settlement[z].polDeployedWeth \in Nat
    BY <2>2 DEF Totals, PolReserve, Settlement
  <2> DEFINE x == totals[z].proceeds      m == totals[z].mechanics
             paid == totals[z].treasury      q == polReserve[z].weth
             w == weth[z]      v == weth'[z]      f == feesIn[z]      g == feesIn'[z]
             c1 == settlement[z].rolloverSpent   c2 == settlement[z].bonusFunded
             c3 == settlement[z].bountyPaid      c4 == settlement[z].polDeployedWeth
  <2>4. /\ x \in Nat /\ m \in Nat /\ paid \in Nat /\ q \in Nat /\ w \in Nat /\ f \in Nat
        /\ v \in Nat /\ g \in Nat
        /\ c1 \in Nat /\ c2 \in Nat /\ c3 \in Nat /\ c4 \in Nat
    BY <1>7, <2>3
  <2>5. x + f = w + q + m + paid + c1 + c2 + c3 + c4 /\ v - g = w - f
    BY <1>6, <2>1
  <2> HIDE DEF x, m, paid, q, w, v, f, g, c1, c2, c3, c4
  <2>6. x + g = v + q + m + paid + c1 + c2 + c3 + c4
    BY <2>4, <2>5
  <2> QED
    BY <2>6 DEF x, m, paid, q, w, v, f, g, c1, c2, c3, c4
<1>10. PolIsAllOrNothing'
  <2>1. polVault'.totalWethDeployed = polVault.totalWethDeployed
    BY <1>3
  <2> QED
    BY <1>2, <2>1 DEF VaultInv, PolIsAllOrNothing
<1> QED
  BY <1>4, <1>5, <1>8, <1>9, <1>10 DEF VaultInv

LEMMA VaultStep == VaultInv /\ [Next]_vars => VaultInv'
<1> SUFFICES ASSUME VaultInv, [Next]_vars PROVE VaultInv'
  OBVIOUS
<1>1. ASSUME NEW s \in Seasons, NEW losers \in SUBSET Tokens, NEW p \in Proceeds,
             ProcessFilterEvent(s, losers, p)
      PROVE  VaultInv'
  BY <1>1, FilterStep
<1>2. ASSUME NEW s \in Seasons, NEW w \in Tokens, NEW root \in RolloverTrees,
             NEW bought \in TokensBought, SubmitWinner(s, w, root, bought)
      PROVE  VaultInv'
  BY <1>2, SubmitStep
<1>3. ASSUME NEW s \in Seasons, NEW u \in Users, ClaimRollover(s, u) \/ ClaimBonus(s, u)
      PROVE  VaultInv'
  BY <1>3, QuietVault DEF ClaimRollover, ClaimBonus, vaultVars, historyVars, moneyVars
<1>4. ASSUME NEW s \in Seasons, NEW eligible \in SUBSET claimed[s], PostRoot(s, eligible)
      PROVE  VaultInv'
  BY <1>4, QuietVault DEF PostRoot, vaultVars, moneyVars
<1>5. ASSUME NEW s \in Seasons, UnlockBonus(s)
      PROVE  VaultInv'
  BY <1>5, QuietVault DEF UnlockBonus, vaultVars, historyVars, moneyVars
<1>6. ASSUME NEW s \in Seasons, NEW t \in Tokens, NEW a \in WethFees, NEW k \in TokenFees,
             CollectFees(s, t, a, k)
      PROVE  VaultInv'
  BY <1>6, CollectStep
<1>7. ASSUME NEW t \in Tokens, DisableCreatorFee(t) \/ ClaimFees(t)
      PROVE  VaultInv'
  BY <1>7, QuietVault DEF DisableCreatorFee, ClaimFees, vaultVars, historyVars, moneyVars
<1>8. CASE UNCHANGED vars
  BY <1>8, QuietVault DEF vars, vaultVars, historyVars, moneyVars
<1> QED
  BY <1>1, <1>2, <1>3, <1>4, <1>5, <1>6, <1>7, <1>8 DEF Next

(***************************************************************************)
(* Settlement is final                                                     *)
(***************************************************************************)

\* What a step may not do to a settled vault: the action of SettlementIsFinal.
LeavesSettledAlone ==
    \A s \in Seasons : phase[s] = Distributing =>
        /\ phase'[s] = Distributing
        /\ settlement'[s] = settlement[s]
        /\ liquidated'[s] = liquidated[s]
        /\ totals'[s] = totals[s]
        /\ reserves'[s] = reserves[s]

LEMMA FinalStep == VaultInv /\ [Next]_vars => [LeavesSettledAlone]_vars
<1> SUFFICES ASSUME VaultInv, Next PROVE LeavesSettledAlone
  OBVIOUS
<1> USE DEF LeavesSettledAlone
<1>0. Active # Distributing
  BY DEF Active, Distributing
<1>1. ASSUME NEW s \in Seasons, NEW losers \in SUBSET Tokens, NEW p \in Proceeds,
             ProcessFilterEvent(s, losers, p)
      PROVE  LeavesSettledAlone
  BY <1>0, <1>1 DEF ProcessFilterEvent, CanFilter, VaultInv, MoneyTypes
<1>2. ASSUME NEW s \in Seasons, NEW w \in Tokens, NEW root \in RolloverTrees,
             NEW bought \in TokensBought, SubmitWinner(s, w, root, bought)
      PROVE  LeavesSettledAlone
  <2>1. /\ phase[s] = Active
        /\ \A z \in Seasons \ {s} :
              /\ phase'[z] = phase[z] /\ settlement'[z] = settlement[z]
              /\ totals'[z] = totals[z] /\ reserves'[z] = reserves[z]
        /\ liquidated' = liquidated
    BY <1>2 DEF SubmitWinner, CanSubmitWinner, VaultInv, MoneyTypes
  <2> QED
    BY <1>0, <2>1
<1>3. ASSUME UNCHANGED vaultVars
      PROVE  LeavesSettledAlone
  BY <1>3 DEF vaultVars
<1>4. ASSUME NEW s \in Seasons, NEW u \in Users, ClaimRollover(s, u) \/ ClaimBonus(s, u)
      PROVE  UNCHANGED vaultVars
  BY <1>4 DEF ClaimRollover, ClaimBonus
<1>5. ASSUME NEW s \in Seasons, NEW eligible \in SUBSET claimed[s], PostRoot(s, eligible)
      PROVE  UNCHANGED vaultVars
  BY <1>5 DEF PostRoot
<1>6. ASSUME NEW s \in Seasons, UnlockBonus(s)
      PROVE  UNCHANGED vaultVars
  BY <1>6 DEF UnlockBonus
<1>7. ASSUME NEW s \in Seasons, NEW t \in Tokens, NEW a \in WethFees, NEW k \in TokenFees,
             CollectFees(s, t, a, k)
      PROVE  UNCHANGED vaultVars
  BY <1>7 DEF CollectFees
<1>8. ASSUME NEW t \in Tokens, DisableCreatorFee(t) \/ ClaimFees(t)
      PROVE  UNCHANGED vaultVars
  BY <1>8 DEF DisableCreatorFee, ClaimFees
<1> QED
  BY <1>1, <1>2, <1>3, <1>4, <1>5, <1>6, <1>7, <1>8 DEF Next

(***************************************************************************)
(* The ladder                                                              *)
(***************************************************************************)

\* A season's outcome is about its own tokens, and the weekly hooks give out no
\* title above WEEKLY_WINNER.
LadderInv ==
    /\ registry \in RegistryState
    /\ \A t \in Tokens : registry.statusOf[t] \in {"ACTIVE", "FILTERED", "WEEKLY_WINNER"}
    /\ \A s \in Seasons : liquidated[s] \subseteq SeasonTokens[s]
    /\ LadderMatchesVault

ladderVars == <<registry, liquidated, settlement>>

LEMMA QuietLadder ==
  ASSUME LadderInv, UNCHANGED ladderVars
  PROVE  LadderInv'
  BY DEF LadderInv, ladderVars, LadderMatchesVault

LEMMA InitLadder == Init => LadderInv
<1> SUFFICES ASSUME Init PROVE LadderInv
  OBVIOUS
<1>1. registry \in RegistryState
  BY DEF Init, EmptyRegistry, RegistryState, TokenStatus
<1>2. \A t \in Tokens : registry.statusOf[t] = "ACTIVE"
  BY DEF Init, EmptyRegistry
<1>3. \A s \in Seasons : /\ liquidated[s] = {} /\ settlement[s].winner = NoToken
                         /\ registry.weeklyWinnerOf[s] = NoToken
  BY DEF Init, EmptyRegistry, Unsettled
<1>4. \A s \in Seasons : NoToken \notin SeasonTokens[s] /\ SeasonTokens[s] \subseteq Tokens
  BY SeasonConstants, VaultConstants
<1> QED
  BY <1>1, <1>2, <1>3, <1>4 DEF LadderInv, LadderMatchesVault

LEMMA FilterLadder ==
  ASSUME VaultInv, LadderInv, NEW s \in Seasons, NEW losers \in SUBSET Tokens, NEW p \in Proceeds,
         ProcessFilterEvent(s, losers, p)
  PROVE  LadderInv'
<1>1. /\ losers \subseteq SeasonTokens[s] /\ losers \cap liquidated[s] = {} /\ phase[s] = Active
      /\ liquidated' = [liquidated EXCEPT ![s] = liquidated[s] \cup losers]
      /\ settlement' = settlement
  BY DEF ProcessFilterEvent, CanFilter, VaultInv, MoneyTypes
<1>2. /\ registry'.weeklyWinnerOf = registry.weeklyWinnerOf
      /\ registry'.statusOf = [t \in Tokens |->
                                  IF t \in losers /\ registry.statusOf[t] = "ACTIVE"
                                  THEN "FILTERED" ELSE registry.statusOf[t]]
      /\ registry' = [statusOf |-> registry'.statusOf,
                      weeklyWinnerOf |-> registry.weeklyWinnerOf]
  BY DEF ProcessFilterEvent, FilteredMarked
<1>3. /\ registry.statusOf \in [Tokens -> TokenStatus]
      /\ registry.weeklyWinnerOf \in [Seasons -> Tokens \cup {NoToken}]
  BY DEF LadderInv, RegistryState
<1>4. registry' \in RegistryState
  <2>1. registry'.statusOf \in [Tokens -> TokenStatus]
    BY <1>2, <1>3 DEF TokenStatus
  <2> QED
    BY <1>2, <1>3, <2>1 DEF RegistryState
<1>5. settlement[s].winner = NoToken
  BY <1>1 DEF VaultInv, UnsettledWhileActive, Unsettled
<1>6. \A t \in losers : registry.statusOf[t] = "ACTIVE" /\ registry'.statusOf[t] = "FILTERED"
  <2> SUFFICES ASSUME NEW t \in losers
               PROVE  registry.statusOf[t] = "ACTIVE" /\ registry'.statusOf[t] = "FILTERED"
    OBVIOUS
  <2>1. t \in Tokens /\ t \in SeasonTokens[s] /\ t \notin liquidated[s] /\ t # NoToken
    BY <1>1, SeasonConstants
  <2>2. registry.statusOf[t] = "ACTIVE"
    BY <2>1, <1>5 DEF LadderInv, LadderMatchesVault
  <2> QED
    BY <2>1, <2>2, <1>2
<1>7. \A t \in Tokens \ losers : registry'.statusOf[t] = registry.statusOf[t]
  BY <1>2
<1>8. /\ liquidated'[s] = liquidated[s] \cup losers
      /\ \A z \in Seasons \ {s} : liquidated'[z] = liquidated[z] /\ SeasonTokens[z] \cap losers = {}
      /\ \A z \in Seasons : SeasonTokens[z] \subseteq Tokens
  BY <1>1, VaultConstants DEF VaultInv, MoneyTypes
<1>9. LadderMatchesVault'
  <2> SUFFICES ASSUME NEW z \in Seasons
               PROVE  /\ \A t \in SeasonTokens[z] :
                            /\ t \in liquidated'[z] <=> registry'.statusOf[t] = "FILTERED"
                            /\ registry'.statusOf[t] = "WEEKLY_WINNER" <=> settlement[z].winner = t
                      /\ registry'.weeklyWinnerOf[z] = settlement[z].winner
                      /\ settlement[z].winner \notin liquidated'[z]
    BY <1>1 DEF LadderMatchesVault
  <2>1. /\ \A t \in SeasonTokens[z] :
              /\ t \in liquidated[z] <=> registry.statusOf[t] = "FILTERED"
              /\ registry.statusOf[t] = "WEEKLY_WINNER" <=> settlement[z].winner = t
        /\ registry.weeklyWinnerOf[z] = settlement[z].winner
        /\ settlement[z].winner \notin liquidated[z]
    BY DEF LadderInv, LadderMatchesVault
  <2>2. CASE z = s
    <3>1. settlement[s].winner \notin liquidated'[s]
      BY <1>5, <1>8, SeasonConstants DEF VaultInv, MoneyTypes
    <3> QED
      BY <2>1, <2>2, <3>1, <1>2, <1>5, <1>6, <1>7, <1>8
  <2>3. CASE z # s
    BY <2>1, <2>3, <1>2, <1>7, <1>8
  <2> QED
    BY <2>2, <2>3
<1>10. \A t \in Tokens : registry'.statusOf[t] \in {"ACTIVE", "FILTERED", "WEEKLY_WINNER"}
  BY <1>6, <1>7 DEF LadderInv
<1>11. \A z \in Seasons : liquidated'[z] \subseteq SeasonTokens[z]
  BY <1>1, <1>8 DEF LadderInv
<1> QED
  BY <1>4, <1>9, <1>10, <1>11 DEF LadderInv

LEMMA SubmitLadder ==
  ASSUME VaultInv, LadderInv, NEW s \in Seasons, NEW w \in Tokens, NEW root \in RolloverTrees,
         NEW bought \in TokensBought, SubmitWinner(s, w, root, bought)
  PROVE  LadderInv'
<1>1. /\ phase[s] = Active /\ w \in SeasonTokens[s] /\ w \notin liquidated[s]
      /\ registry' = WeeklyWinnerRecorded(registry, s, w)
      /\ settlement'[s].winner = w
      /\ \A z \in Seasons \ {s} : settlement'[z] = settlement[z]
      /\ liquidated' = liquidated
  BY DEF SubmitWinner, CanSubmitWinner, VaultInv, MoneyTypes
<1>2. settlement[s].winner = NoToken
  BY <1>1 DEF VaultInv, UnsettledWhileActive, Unsettled
<1>3. /\ registry.statusOf \in [Tokens -> TokenStatus]
      /\ registry.weeklyWinnerOf \in [Seasons -> Tokens \cup {NoToken}]
  BY DEF LadderInv, RegistryState
<1>4. registry.statusOf[w] = "ACTIVE"
  BY <1>1, <1>2, SeasonConstants DEF LadderInv, LadderMatchesVault
<1>5. /\ registry'.statusOf = [registry.statusOf EXCEPT ![w] = "WEEKLY_WINNER"]
      /\ registry'.weeklyWinnerOf = [registry.weeklyWinnerOf EXCEPT ![s] = w]
      /\ registry' = [statusOf |-> registry'.statusOf,
                      weeklyWinnerOf |-> registry'.weeklyWinnerOf]
  BY <1>1, <1>4 DEF WeeklyWinnerRecorded
<1>6. registry' \in RegistryState
  <2>1. /\ registry'.statusOf \in [Tokens -> TokenStatus]
        /\ registry'.weeklyWinnerOf \in [Seasons -> Tokens \cup {NoToken}]
    BY <1>3, <1>5 DEF TokenStatus
  <2> QED
    BY <1>5, <2>1 DEF RegistryState
<1>7. /\ registry'.statusOf[w] = "WEEKLY_WINNER" /\ registry'.weeklyWinnerOf[s] = w
      /\ \A t \in Tokens \ {w} : registry'.statusOf[t] = registry.statusOf[t]
      /\ \A z \in Seasons \ {s} : registry'.weeklyWinnerOf[z] = registry.weeklyWinnerOf[z]
  BY <1>3, <1>5
<1>8. /\ \A z \in Seasons \ {s} : w \notin SeasonTokens[z]
      /\ \A z \in Seasons : SeasonTokens[z] \subseteq Tokens
  BY <1>1, VaultConstants
<1>9. LadderMatchesVault'
  <2> SUFFICES ASSUME NEW z \in Seasons
               PROVE  /\ \A t \in SeasonTokens[z] :
                            /\ t \in liquidated[z] <=> registry'.statusOf[t] = "FILTERED"
                            /\ registry'.statusOf[t] = "WEEKLY_WINNER" <=> settlement'[z].winner = t
                      /\ registry'.weeklyWinnerOf[z] = settlement'[z].winner
                      /\ settlement'[z].winner \notin liquidated[z]
    BY <1>1 DEF LadderMatchesVault
  <2>1. /\ \A t \in SeasonTokens[z] :
              /\ t \in liquidated[z] <=> registry.statusOf[t] = "FILTERED"
              /\ registry.statusOf[t] = "WEEKLY_WINNER" <=> settlement[z].winner = t
        /\ registry.weeklyWinnerOf[z] = settlement[z].winner
        /\ settlement[z].winner \notin liquidated[z]
    BY DEF LadderInv, LadderMatchesVault
  <2>2. CASE z = s
    <3>1. \A t \in SeasonTokens[s] : settlement[s].winner # t
      BY <1>2, <1>8, SeasonConstants
    <3> QED
      BY <2>1, <2>2, <3>1, <1>1, <1>7, <1>8
  <2>3. CASE z # s
    BY <2>1, <2>3, <1>1, <1>7, <1>8
  <2> QED
    BY <2>2, <2>3
<1>10. \A t \in Tokens : registry'.statusOf[t] \in {"ACTIVE", "FILTERED", "WEEKLY_WINNER"}
  BY <1>7 DEF LadderInv
<1> QED
  BY <1>1, <1>6, <1>9, <1>10 DEF LadderInv

LEMMA LadderStep == VaultInv /\ LadderInv /\ [Next]_vars => LadderInv'
<1> SUFFICES ASSUME VaultInv, LadderInv, [Next]_vars PROVE LadderInv'
  OBVIOUS
<1>1. ASSUME NEW s \in Seasons, NEW losers \in SUBSET Tokens, NEW p \in Proceeds,
             ProcessFilterEvent(s, losers, p)
      PROVE  LadderInv'
  BY <1>1, FilterLadder
<1>2. ASSUME NEW s \in Seasons, NEW w \in Tokens, NEW root \in RolloverTrees,
             NEW bought \in TokensBought, SubmitWinner(s, w, root, bought)
      PROVE  LadderInv'
  BY <1>2, SubmitLadder
<1>3. ASSUME NEW s \in Seasons, NEW u \in Users, ClaimRollover(s, u) \/ ClaimBonus(s, u)
      PROVE  LadderInv'
  BY <1>3, QuietLadder DEF ClaimRollover, ClaimBonus, vaultVars, ladderVars
<1>4. ASSUME NEW s \in Seasons, NEW eligible \in SUBSET claimed[s], PostRoot(s, eligible)
      PROVE  LadderInv'
  BY <1>4, QuietLadder DEF PostRoot, vaultVars, ladderVars
<1>5. ASSUME NEW s \in Seasons, UnlockBonus(s)
      PROVE  LadderInv'
  BY <1>5, QuietLadder DEF UnlockBonus, vaultVars, ladderVars
<1>6. ASSUME NEW s \in Seasons, NEW t \in Tokens, NEW a \in WethFees, NEW k \in TokenFees,
             CollectFees(s, t, a, k)
      PROVE  LadderInv'
  BY <1>6, QuietLadder DEF CollectFees, vaultVars, ladderVars
<1>7. ASSUME NEW t \in Tokens, DisableCreatorFee(t) \/ ClaimFees(t)
      PROVE  LadderInv'
  BY <1>7, QuietLadder DEF DisableCreatorFee, ClaimFees, vaultVars, ladderVars
<1>8. CASE UNCHANGED vars
  BY <1>8, QuietLadder DEF vars, vaultVars, ladderVars
<1> QED
  BY <1>1, <1>2, <1>3, <1>4, <1>5, <1>6, <1>7, <1>8 DEF Next

(***************************************************************************)
(* The creators' fees                                                      *)
(***************************************************************************)

PendingFees(f) == [t \in Tokens |-> Pending(f, t)]

\* A storage that CreatorFeeDistributor can be in.
FeesOK(f) ==
    /\ f \in FeeState
    /\ \A t \in Tokens : f.info[t].claimed <= f.info[t].accrued
    /\ f.balance = Total(PendingFees(f))
    /\ f.lastSeenBalance = f.balance
    /\ \A t \in Tokens : f.info[t].disabled => Pending(f, t) = 0

LEMMA PendingType ==
  ASSUME NEW f \in FeeState, \A t \in Tokens : f.info[t].claimed <= f.info[t].accrued
  PROVE  PendingFees(f) \in [Tokens -> Nat] /\ Total(PendingFees(f)) \in Nat
<1>1. \A t \in Tokens : Pending(f, t) \in Nat
  BY DEF FeeState, TokenInfo, Pending
<1>2. PendingFees(f) \in [Tokens -> Nat]
  BY <1>1 DEF PendingFees
<1> QED
  BY <1>2, SeasonConstants, TotalType

LEMMA NoFeesOK == FeesOK(NoFees)
<1>1. /\ NoFees \in FeeState /\ NoFees.balance = 0 /\ NoFees.lastSeenBalance = 0
      /\ \A t \in Tokens : NoFees.info[t] = [accrued |-> 0, claimed |-> 0, disabled |-> FALSE]
  BY DEF NoFees, FeeState, TokenInfo
<1>2. \A t \in Tokens : Pending(NoFees, t) = 0
  BY <1>1 DEF Pending
<1>3. PendingFees(NoFees) \in [Tokens -> Nat] /\ \A t \in Tokens : PendingFees(NoFees)[t] = 0
  BY <1>2 DEF PendingFees
<1>4. Total(PendingFees(NoFees)) = 0
  BY <1>3, SeasonConstants, TotalZero
<1> QED
  BY <1>1, <1>2, <1>4 DEF FeesOK

\* A storage in which only what is pending for token t has changed, with the balance.
LEMMA OneTokenOK ==
  ASSUME NEW f, FeesOK(f), NEW g \in FeeState, NEW t \in Tokens,
         \A u \in Tokens \ {t} : g.info[u] = f.info[u],
         g.info[t].claimed <= g.info[t].accrued,
         g.info[t].disabled => Pending(g, t) = 0,
         g.balance + Pending(f, t) = f.balance + Pending(g, t),
         g.lastSeenBalance = g.balance
  PROVE  FeesOK(g)
<1>1. \A u \in Tokens : g.info[u].claimed <= g.info[u].accrued
  BY DEF FeesOK
<1>2. /\ f \in FeeState /\ PendingFees(f) \in [Tokens -> Nat] /\ Total(PendingFees(f)) \in Nat
      /\ PendingFees(g) \in [Tokens -> Nat] /\ Total(PendingFees(g)) \in Nat
  BY <1>1, PendingType DEF FeesOK
<1>3. \A u \in Tokens \ {t} : Pending(g, u) = Pending(f, u)
  BY DEF Pending
<1>4. /\ \A u \in Tokens \ {t} : PendingFees(g)[u] = PendingFees(f)[u]
      /\ PendingFees(g)[t] = Pending(g, t) /\ PendingFees(f)[t] = Pending(f, t)
  BY <1>3 DEF PendingFees
<1>5. Total(PendingFees(g)) + PendingFees(f)[t] = Total(PendingFees(f)) + PendingFees(g)[t]
  BY <1>2, <1>4, SeasonConstants, TotalUpdate
<1>6. Pending(g, t) \in Nat /\ Pending(f, t) \in Nat /\ g.balance \in Nat /\ f.balance \in Nat
  BY <1>2, <1>4 DEF FeeState
<1>7. f.balance = Total(PendingFees(f))
  BY DEF FeesOK
<1>8. g.balance = Total(PendingFees(g))
  BY <1>2, <1>4, <1>5, <1>6, <1>7
<1>9. \A u \in Tokens : g.info[u].disabled => Pending(g, u) = 0
  BY <1>3 DEF FeesOK
<1> QED
  BY <1>1, <1>8, <1>9 DEF FeesOK

\* notifyFee with the WETH sent just before.
LEMMA NotifiedOK ==
  ASSUME NEW f, FeesOK(f), NEW t \in Tokens, NEW a \in Nat
  PROVE  FeesOK(FeeNotified(FeeSent(f, a), t, a))
<1> DEFINE g == FeeNotified(FeeSent(f, a), t, a)
           i == f.info[t]
<1>1. /\ f \in FeeState /\ f.lastSeenBalance = f.balance /\ f.balance \in Nat
      /\ i \in TokenInfo /\ i.accrued \in Nat /\ i.claimed \in Nat /\ i.claimed <= i.accrued
  BY DEF FeesOK, FeeState, TokenInfo
<1>2. FeeSent(f, a).info = f.info /\ FeeSent(f, a).balance = f.balance + a
      /\ FeeSent(f, a) = [info |-> f.info, lastSeenBalance |-> f.lastSeenBalance,
                          balance |-> f.balance + a]
  BY <1>1 DEF FeeSent, FeeState
<1>3. CASE i.disabled
  <2>1. g = [info |-> f.info, lastSeenBalance |-> (f.balance + a) - a,
             balance |-> (f.balance + a) - a]
    BY <1>1, <1>2, <1>3 DEF FeeNotified
  <2>2. g = f
    BY <1>1, <2>1 DEF FeeState
  <2> QED
    BY <2>2
<1>4. CASE ~i.disabled
  <2>1. g = [info |-> [f.info EXCEPT ![t].accrued = @ + a],
             lastSeenBalance |-> f.balance + a, balance |-> f.balance + a]
    BY <1>1, <1>2, <1>4 DEF FeeNotified
  <2>2. /\ g.info = [f.info EXCEPT ![t] = [i EXCEPT !.accrued = @ + a]]
        /\ g.lastSeenBalance = f.balance + a /\ g.balance = f.balance + a
    BY <1>1, <2>1 DEF FeeState
  <2>3. /\ g.info[t].accrued = i.accrued + a /\ g.info[t].claimed = i.claimed
        /\ g.info[t].disabled = i.disabled
        /\ \A u \in Tokens \ {t} : g.info[u] = f.info[u]
    BY <1>1, <2>2 DEF FeeState, TokenInfo
  <2>4. g \in FeeState
    BY <1>1, <2>1 DEF FeeState, TokenInfo
  <2>5. g.info[t].claimed <= g.info[t].accrued
    BY <1>1, <2>3
  <2>6. Pending(g, t) = Pending(f, t) + a /\ Pending(f, t) \in Nat
    BY <1>1, <2>3 DEF Pending
  <2>7. g.balance + Pending(f, t) = f.balance + Pending(g, t)
    BY <1>1, <2>2, <2>6
  <2> HIDE DEF g
  <2> QED
    BY <1>4, <2>2, <2>3, <2>4, <2>5, <2>7, OneTokenOK DEF g
<1> QED
  BY <1>3, <1>4

\* A payout to the creator or the treasury, and a redirection, leave nothing pending.
LEMMA PaidOutOK ==
  ASSUME NEW f, FeesOK(f), NEW t \in Tokens, NEW info \in [Tokens -> TokenInfo], NEW g,
         \A u \in Tokens \ {t} : info[u] = f.info[u],
         info[t].claimed = f.info[t].accrued, info[t].accrued = f.info[t].accrued,
         g = [info |-> info, lastSeenBalance |-> f.lastSeenBalance - Pending(f, t),
              balance |-> f.balance - Pending(f, t)]
  PROVE  FeesOK(g)
<1> DEFINE i == f.info[t]
<1>1. /\ f \in FeeState /\ f.lastSeenBalance = f.balance /\ f.balance \in Nat
      /\ i \in TokenInfo /\ i.accrued \in Nat /\ i.claimed \in Nat /\ i.claimed <= i.accrued
      /\ f.balance = Total(PendingFees(f))
      /\ PendingFees(f) \in [Tokens -> Nat]
  BY PendingType DEF FeesOK, FeeState, TokenInfo
<1>2. Pending(f, t) \in Nat /\ Pending(f, t) <= f.balance
  <2>1. PendingFees(f)[t] = Pending(f, t)
    BY DEF PendingFees
  <2> QED
    BY <1>1, <2>1, SeasonConstants, TotalMember
<1>3. f.balance - Pending(f, t) \in Nat
  BY <1>1, <1>2
<1>4. /\ g.info[t].accrued = i.accrued /\ g.info[t].claimed = i.accrued
      /\ \A u \in Tokens \ {t} : g.info[u] = f.info[u]
      /\ g.balance = f.balance - Pending(f, t) /\ g.lastSeenBalance = g.balance
  BY <1>1
<1>5. g \in FeeState
  BY <1>1, <1>3 DEF FeeState
<1>6. Pending(g, t) = 0
  BY <1>1, <1>4 DEF Pending
<1>7. g.balance + Pending(f, t) = f.balance + Pending(g, t)
  BY <1>1, <1>2, <1>4, <1>6
<1>8. g.info[t].claimed <= g.info[t].accrued
  BY <1>1, <1>4
<1> HIDE DEF i
<1>9. g.lastSeenBalance = g.balance
  BY <1>4
<1>10. \A u \in Tokens \ {t} : g.info[u] = f.info[u]
  BY <1>4
<1> QED
  BY ONLY FeesOK(f), t \in Tokens, <1>5, <1>6, <1>7, <1>8, <1>9, <1>10, OneTokenOK

LEMMA ClaimedFeesOK ==
  ASSUME NEW f, FeesOK(f), NEW t \in Tokens
  PROVE  FeesOK(PaidOut(f, t)) /\ FeesOK(FeeDisabled(f, t))
<1> DEFINE paid == PaidOut(f, t)
           off == [paid EXCEPT !.info[t].disabled = TRUE]
<1>1. f \in FeeState /\ f.info \in [Tokens -> TokenInfo] /\ f.info[t] \in TokenInfo
  BY DEF FeesOK, FeeState
<1>2. paid = [info |-> [f.info EXCEPT ![t].claimed = f.info[t].accrued],
              lastSeenBalance |-> f.lastSeenBalance - Pending(f, t),
              balance |-> f.balance - Pending(f, t)]
  <2>1. f = [info |-> f.info, lastSeenBalance |-> f.lastSeenBalance, balance |-> f.balance]
    BY <1>1 DEF FeeState
  <2>2. PaidOut(f, t) = [f EXCEPT !.info = [@ EXCEPT ![t].claimed = f.info[t].accrued],
                                  !.lastSeenBalance = @ - Pending(f, t),
                                  !.balance = @ - Pending(f, t)]
    BY DEF PaidOut
  <2> QED
    BY <2>1, <2>2
<1>3. /\ paid.info \in [Tokens -> TokenInfo]
      /\ \A u \in Tokens \ {t} : paid.info[u] = f.info[u]
      /\ paid.info[t].claimed = f.info[t].accrued /\ paid.info[t].accrued = f.info[t].accrued
  <2>1. paid.info = [f.info EXCEPT ![t] = [@ EXCEPT !.claimed = f.info[t].accrued]]
    BY <1>2
  <2> HIDE DEF paid
  <2>2. f.info[t].accrued \in Nat
    BY <1>1 DEF TokenInfo
  <2>3. [f.info[t] EXCEPT !.claimed = f.info[t].accrued] \in TokenInfo
    BY <1>1, <2>2 DEF TokenInfo
  <2>4. paid.info[t] = [f.info[t] EXCEPT !.claimed = f.info[t].accrued]
    BY <1>1, <2>1
  <2>5. paid.info[t].claimed = f.info[t].accrued /\ paid.info[t].accrued = f.info[t].accrued
    BY <1>1, <2>4 DEF TokenInfo
  <2> QED
    BY <1>1, <2>1, <2>3, <2>5
<1>4. paid = [info |-> paid.info, lastSeenBalance |-> f.lastSeenBalance - Pending(f, t),
              balance |-> f.balance - Pending(f, t)]
  BY <1>2
<1> HIDE DEF paid
<1>5. FeesOK(paid)
  BY <1>3, <1>4, PaidOutOK
<1> DEFINE info == [paid.info EXCEPT ![t].disabled = TRUE]
<1>6. off = [info |-> info, lastSeenBalance |-> f.lastSeenBalance - Pending(f, t),
             balance |-> f.balance - Pending(f, t)]
  <2>1. off = [paid EXCEPT !.info = info]
    OBVIOUS
  <2> HIDE DEF info, off
  <2> QED
    BY <1>4, <2>1
<1>7. /\ info \in [Tokens -> TokenInfo] /\ \A u \in Tokens \ {t} : info[u] = f.info[u]
      /\ info[t].claimed = f.info[t].accrued /\ info[t].accrued = f.info[t].accrued
  BY <1>3 DEF TokenInfo
<1> HIDE DEF info, off
<1>8. FeesOK(off)
  BY <1>6, <1>7, PaidOutOK
<1> QED
  BY <1>5, <1>8 DEF FeeDisabled, paid, off

LEMMA FeesStep == FeesOK(fees) /\ [Next]_vars => FeesOK(fees')
<1> SUFFICES ASSUME FeesOK(fees), [Next]_vars PROVE FeesOK(fees')
  OBVIOUS
<1>1. ASSUME NEW s \in Seasons, NEW t \in Tokens, NEW a \in WethFees, NEW k \in TokenFees,
             CollectFees(s, t, a, k)
      PROVE  FeesOK(fees')
  <2>1. a \in Nat
    BY VaultConstants
  <2>2. FeeSplit(a).creator \in Nat
    BY <2>1, FeeSplits
  <2> QED
    BY <1>1, <2>2, NotifiedOK DEF CollectFees
<1>2. ASSUME NEW t \in Tokens, DisableCreatorFee(t) \/ ClaimFees(t) PROVE FeesOK(fees')
  BY <1>2, ClaimedFeesOK DEF DisableCreatorFee, ClaimFees
<1>3. ASSUME NEW s \in Seasons, NEW losers \in SUBSET Tokens, NEW p \in Proceeds,
             ProcessFilterEvent(s, losers, p)
      PROVE  fees' = fees
  BY <1>3 DEF ProcessFilterEvent
<1>4. ASSUME NEW s \in Seasons, NEW w \in Tokens, NEW root \in RolloverTrees,
             NEW bought \in TokensBought, SubmitWinner(s, w, root, bought)
      PROVE  fees' = fees
  BY <1>4 DEF SubmitWinner
<1>5. ASSUME NEW s \in Seasons, NEW u \in Users, ClaimRollover(s, u) \/ ClaimBonus(s, u)
      PROVE  fees' = fees
  BY <1>5 DEF ClaimRollover, ClaimBonus
<1>6. ASSUME NEW s \in Seasons, NEW eligible \in SUBSET claimed[s], PostRoot(s, eligible)
      PROVE  fees' = fees
  BY <1>6 DEF PostRoot
<1>7. ASSUME NEW s \in Seasons, UnlockBonus(s) PROVE fees' = fees
  BY <1>7 DEF UnlockBonus
<1>8. CASE UNCHANGED vars
  BY <1>8 DEF vars
<1> QED
  BY <1>1, <1>2, <1>3, <1>4, <1>5, <1>6, <1>7, <1>8 DEF Next

(***************************************************************************)
(* The rollover                                                            *)
(***************************************************************************)

OwedLedger(s) == [u \in settlement[s].root.leaves |-> Owed(s, u)]
ClaimedLedger(s) == [u \in claimed[s] |-> settlement[s].root.amountOf[u]]

\* The claims of a settled season s are covered.
ClaimsCovered(s) ==
    /\ settlement[s].winner \in SeasonTokens[s]
    /\ settlement[s].totalRolloverShares = Total(settlement[s].root.amountOf)
    /\ settlement[s].totalRolloverShares > 0
    /\ claimed[s] \subseteq settlement[s].root.leaves
    /\ tokenBalance[settlement[s].winner] >= Total(OwedLedger(s))
    /\ claimedShares[s] = Total(ClaimedLedger(s))

ClaimsInv ==
    /\ tokenBalance \in [Tokens -> Nat] /\ winnerSettled \subseteq Tokens
    /\ claimed \in [Seasons -> SUBSET Users] /\ claimedShares \in [Seasons -> Nat]
    /\ \A s \in Seasons :
          /\ phase[s] = Active => claimed[s] = {} /\ claimedShares[s] = 0
          /\ phase[s] = Distributing => ClaimsCovered(s)

LEMMA OwedType ==
  ASSUME MoneyTypes, claimed \in [Seasons -> SUBSET Users], NEW s \in Seasons,
         settlement[s].totalRolloverShares > 0
  PROVE  /\ settlement[s].root.leaves \subseteq Users
         /\ settlement[s].root.amountOf \in [Users -> Nat]
         /\ \A u \in Users : RolloverAmount(s, u) \in Nat /\ Owed(s, u) \in Nat
         /\ OwedLedger(s) \in [settlement[s].root.leaves -> Nat]
         /\ Total(OwedLedger(s)) \in Nat
<1>1. /\ settlement[s].root.leaves \subseteq Users
      /\ settlement[s].root.amountOf \in [Users -> Nat]
      /\ settlement[s].rolloverWinnerTokens \in Nat /\ settlement[s].totalRolloverShares \in Nat
  BY DEF MoneyTypes, Settlement, Trees
<1>2. ASSUME NEW u \in Users PROVE RolloverAmount(s, u) \in Nat
  <2> DEFINE n == settlement[s].root.amountOf[u] * settlement[s].rolloverWinnerTokens
             k == settlement[s].totalRolloverShares
  <2>1. n \in Nat /\ k \in Nat /\ k > 0
    BY <1>1
  <2>2. RolloverAmount(s, u) = n \div k
    BY DEF RolloverAmount
  <2> HIDE DEF n, k
  <2> QED
    BY <2>1, <2>2, Division
<1>3. \A u \in Users : Owed(s, u) \in Nat
  BY <1>2 DEF Owed
<1>4. OwedLedger(s) \in [settlement[s].root.leaves -> Nat]
  BY <1>1, <1>3 DEF OwedLedger
<1>5. IsFiniteSet(settlement[s].root.leaves)
  BY <1>1, SeasonConstants, FS_Subset
<1> QED
  BY <1>1, <1>2, <1>3, <1>4, <1>5, TotalType

LEMMA InitClaims == Init => ClaimsInv
  BY DEF Init, ClaimsInv, Active, Distributing

\* A step that at most adds tokens to the vaults.
LEMMA QuietClaims ==
  ASSUME MoneyTypes, ClaimsInv, UNCHANGED <<phase, settlement, claimed, claimedShares>>,
         winnerSettled' \subseteq Tokens,
         tokenBalance' \in [Tokens -> Nat],
         \A t \in Tokens : tokenBalance'[t] >= tokenBalance[t]
  PROVE  ClaimsInv'
<1> SUFFICES ASSUME NEW s \in Seasons, phase[s] = Distributing PROVE ClaimsCovered(s)'
  BY DEF ClaimsInv
<1>1. ClaimsCovered(s)
  BY DEF ClaimsInv
<1>2. settlement[s].winner \in Tokens
  BY <1>1, VaultConstants DEF ClaimsCovered
<1>3. OwedLedger(s)' = OwedLedger(s) /\ ClaimedLedger(s)' = ClaimedLedger(s)
  BY DEF OwedLedger, ClaimedLedger, Owed, RolloverAmount
<1>4. Total(OwedLedger(s)) \in Nat
  BY <1>1, OwedType DEF ClaimsInv, ClaimsCovered
<1>5. tokenBalance[settlement[s].winner] \in Nat /\ tokenBalance'[settlement[s].winner] \in Nat
  BY <1>2 DEF ClaimsInv
<1>6. tokenBalance'[settlement[s].winner] >= Total(OwedLedger(s))
  BY <1>1, <1>2, <1>4, <1>5 DEF ClaimsCovered
<1> QED
  BY <1>1, <1>3, <1>6 DEF ClaimsCovered

LEMMA ClaimStep ==
  ASSUME MoneyTypes, ClaimsInv, NEW s \in Seasons, NEW u \in Users, ClaimRollover(s, u)
  PROVE  ClaimsInv'
<1> DEFINE w == settlement[s].winner
           a == RolloverAmount(s, u)
<1>1. /\ phase[s] = Distributing /\ u \notin claimed[s] /\ u \in settlement[s].root.leaves
      /\ claimed' = [claimed EXCEPT ![s] = @ \cup {u}]
      /\ claimedShares' = [claimedShares EXCEPT ![s] = @ + settlement[s].root.amountOf[u]]
      /\ tokenBalance' = [tokenBalance EXCEPT ![w] = @ - a]
      /\ UNCHANGED <<phase, settlement, winnerSettled>>
  BY DEF ClaimRollover, CanClaimRollover, vaultVars
<1>2. /\ ClaimsCovered(s) /\ tokenBalance \in [Tokens -> Nat]
      /\ claimed \in [Seasons -> SUBSET Users] /\ claimedShares \in [Seasons -> Nat]
  BY <1>1 DEF ClaimsInv
<1>3. w \in SeasonTokens[s] /\ w \in Tokens
  BY <1>2, VaultConstants DEF ClaimsCovered
<1>4. /\ settlement[s].root.leaves \subseteq Users
      /\ settlement[s].root.amountOf \in [Users -> Nat]
      /\ a \in Nat
      /\ OwedLedger(s) \in [settlement[s].root.leaves -> Nat]
      /\ Total(OwedLedger(s)) \in Nat
  BY <1>2, OwedType DEF ClaimsCovered
<1>5. OwedLedger(s)' \in [settlement[s].root.leaves -> Nat]
      /\ OwedLedger(s)'[u] = 0 /\ OwedLedger(s)[u] = a
      /\ \A v \in settlement[s].root.leaves \ {u} : OwedLedger(s)'[v] = OwedLedger(s)[v]
  <2>1. \A v \in settlement[s].root.leaves : RolloverAmount(s, v)' = RolloverAmount(s, v)
    BY <1>1 DEF RolloverAmount
  <2>2. \A v \in settlement[s].root.leaves :
           /\ OwedLedger(s)[v] = IF v \in claimed[s] THEN 0 ELSE RolloverAmount(s, v)
           /\ OwedLedger(s)'[v] = IF v \in claimed'[s] THEN 0 ELSE RolloverAmount(s, v)
    BY <1>1, <2>1 DEF OwedLedger, Owed
  <2>3. claimed'[s] = claimed[s] \cup {u}
    BY <1>1, <1>2
  <2>4. /\ OwedLedger(s)'[u] = 0 /\ OwedLedger(s)[u] = a
        /\ \A v \in settlement[s].root.leaves \ {u} : OwedLedger(s)'[v] = OwedLedger(s)[v]
    BY <1>1, <2>2, <2>3
  <2>5. OwedLedger(s)' = [v \in settlement[s].root.leaves |-> OwedLedger(s)'[v]]
    BY <1>1 DEF OwedLedger
  <2>6. \A v \in settlement[s].root.leaves : OwedLedger(s)'[v] \in Nat
    BY <1>4, <2>4
  <2> QED
    BY <2>4, <2>5, <2>6
<1>6. IsFiniteSet(settlement[s].root.leaves)
  BY <1>4, SeasonConstants, FS_Subset
<1>7. Total(OwedLedger(s)') + a = Total(OwedLedger(s)) /\ Total(OwedLedger(s)') \in Nat
  <2>1. Total(OwedLedger(s)') + OwedLedger(s)[u] = Total(OwedLedger(s)) + OwedLedger(s)'[u]
    BY <1>1, <1>4, <1>5, <1>6, TotalUpdate
  <2>2. Total(OwedLedger(s)') \in Nat
    BY <1>5, <1>6, TotalType
  <2> QED
    BY <1>4, <1>5, <2>1, <2>2
<1>8. /\ tokenBalance[w] \in Nat /\ tokenBalance[w] >= Total(OwedLedger(s))
      /\ tokenBalance'[w] = tokenBalance[w] - a
  BY <1>1, <1>2, <1>3 DEF ClaimsCovered
<1>9. tokenBalance'[w] \in Nat /\ tokenBalance'[w] >= Total(OwedLedger(s)')
  BY <1>4, <1>7, <1>8
<1>10. tokenBalance' \in [Tokens -> Nat]
  BY <1>1, <1>2, <1>9
<1>11. claimedShares'[s] = Total(ClaimedLedger(s)') /\ claimedShares'[s] \in Nat
  <2> DEFINE v == settlement[s].root.amountOf
             f == ClaimedLedger(s)
             g == ClaimedLedger(s)'
  <2>1. claimed[s] \in SUBSET Users /\ u \in Users \ claimed[s] /\ v \in [Users -> Nat]
    BY <1>1, <1>2, <1>4
  <2>2. f \in [claimed[s] -> Nat] /\ \A y \in claimed[s] : f[y] = v[y]
    BY <2>1 DEF ClaimedLedger
  <2>3. /\ g \in [claimed[s] \cup {u} -> Nat]
        /\ \A y \in claimed[s] \cup {u} : g[y] = v[y]
    BY <1>1, <1>2, <2>1 DEF ClaimedLedger
  <2>4. claimedShares[s] = Total(f) /\ claimedShares'[s] = claimedShares[s] + v[u]
    BY <1>1, <1>2 DEF ClaimsCovered
  <2> HIDE DEF v, f, g
  <2>5. Total(g) = Total(f) + v[u] /\ Total(f) \in Nat /\ v[u] \in Nat
    BY <2>1, <2>2, <2>3, SeasonConstants, TotalJoin
  <2> QED
    BY <2>4, <2>5 DEF g
<1>12. ClaimsCovered(s)'
  BY <1>1, <1>2, <1>9, <1>11 DEF ClaimsCovered
<1>13. ASSUME NEW z \in Seasons \ {s}, phase[z] = Distributing PROVE ClaimsCovered(z)'
  <2>1. ClaimsCovered(z)
    BY <1>13 DEF ClaimsInv
  <2>2. settlement[z].winner # w
    BY <1>3, <2>1, VaultConstants DEF ClaimsCovered
  <2>3. tokenBalance'[settlement[z].winner] = tokenBalance[settlement[z].winner]
    BY <1>1, <1>2, <2>1, <2>2, VaultConstants DEF ClaimsCovered
  <2>4. /\ claimed'[z] = claimed[z] /\ claimedShares'[z] = claimedShares[z]
        /\ OwedLedger(z)' = OwedLedger(z) /\ ClaimedLedger(z)' = ClaimedLedger(z)
    BY <1>1, <1>2 DEF OwedLedger, ClaimedLedger, Owed, RolloverAmount
  <2> QED
    BY <1>1, <2>1, <2>3, <2>4 DEF ClaimsCovered
<1>14. claimed' \in [Seasons -> SUBSET Users] /\ claimedShares' \in [Seasons -> Nat]
  BY <1>1, <1>2, <1>11
<1>15. \A z \in Seasons : phase'[z] = Active => claimed'[z] = {} /\ claimedShares'[z] = 0
  BY <1>1, <1>2 DEF ClaimsInv, Active, Distributing
<1>16. winnerSettled' \subseteq Tokens
  BY <1>1 DEF ClaimsInv
<1> HIDE DEF w, a
<1> QED
  BY <1>1, <1>10, <1>12, <1>13, <1>14, <1>15, <1>16 DEF ClaimsInv

\* submitWinner: what the purchase yields covers every leaf, however it rounds.
LEMMA SubmitClaims ==
  ASSUME MoneyTypes, MoneyTypes', ClaimsInv, NEW s \in Seasons, NEW w \in Tokens,
         NEW root \in RolloverTrees, NEW bought \in TokensBought, SubmitWinner(s, w, root, bought)
  PROVE  ClaimsInv'
<1> DEFINE n == IF reserves[s].rollover > 0 THEN bought ELSE 0
           all == Total(root.amountOf)
<1>1. /\ phase[s] = Active /\ w \in SeasonTokens[s] /\ all > 0
      /\ phase' = [phase EXCEPT ![s] = Distributing]
      /\ settlement'[s].winner = w /\ settlement'[s].root = root
      /\ settlement'[s].totalRolloverShares = all
      /\ settlement'[s].rolloverWinnerTokens = n
      /\ \A z \in Seasons \ {s} : settlement'[z] = settlement[z]
      /\ tokenBalance' = [tokenBalance EXCEPT ![w] = @ + n]
      /\ winnerSettled' = winnerSettled \cup {w}
      /\ UNCHANGED <<claimed, claimedShares>>
  BY DEF SubmitWinner, CanSubmitWinner, LockersSettled, claimVars, MoneyTypes
<1>2. /\ n \in Nat /\ root.leaves \subseteq Users /\ root.amountOf \in [Users -> Nat]
      /\ phase \in [Seasons -> {Active, Distributing}] /\ tokenBalance \in [Tokens -> Nat]
  BY VaultConstants DEF Trees, MoneyTypes, ClaimsInv
<1>3. all \in Nat
  BY <1>2, SeasonConstants, TotalType
<1>4. claimed[s] = {} /\ claimedShares[s] = 0
  BY <1>1 DEF ClaimsInv
<1>5. /\ tokenBalance' \in [Tokens -> Nat] /\ tokenBalance'[w] >= n
      /\ \A t \in Tokens \ {w} : tokenBalance'[t] = tokenBalance[t]
  BY <1>1, <1>2
<1> HIDE DEF n, all
<1>6. ClaimsCovered(s)'
  <2> DEFINE L == root.leaves
             f == [u \in L |-> root.amountOf[u]]
             g == OwedLedger(s)'
  <2>1. IsFiniteSet(L) /\ f \in [L -> Nat]
    BY <1>2, SeasonConstants, FS_Subset
  <2>2. Total(f) <= all
    BY <1>2, <2>1, SeasonConstants, TotalPart DEF all
  <2>3. \A u \in L : g[u] = (f[u] * n) \div all
    BY <1>1, <1>4 DEF OwedLedger, Owed, RolloverAmount
  <2>4. g \in [L -> Nat]
    <3>1. g = [u \in L |-> g[u]]
      BY <1>1 DEF OwedLedger
    <3>2. \A u \in L : g[u] \in Nat
      <4> SUFFICES ASSUME NEW u \in L PROVE (f[u] * n) \div all \in Nat
        BY <2>3
      <4>1. f[u] * n \in Nat
        BY <1>2, <2>1
      <4> HIDE DEF f
      <4> QED
        BY <1>1, <1>3, <4>1, Division
    <3> QED
      BY <3>1, <3>2
  <2> HIDE DEF L, f, g
  <2>5. Total(g) <= n /\ Total(g) \in Nat
    BY <1>1, <1>2, <1>3, <2>1, <2>2, <2>3, <2>4, ProRata, TotalType
  <2>6. tokenBalance'[w] \in Nat
    BY <1>5
  <2>7. tokenBalance'[w] >= Total(OwedLedger(s)')
    BY <1>2, <1>5, <2>5, <2>6 DEF g
  <2>8. claimedShares'[s] = Total(ClaimedLedger(s)')
    <3>1. /\ ClaimedLedger(s)' \in [{} -> Nat]
          /\ \A u \in {} : ClaimedLedger(s)'[u] = 0
      BY <1>1, <1>4 DEF ClaimedLedger
    <3>2. IsFiniteSet({})
      BY FS_EmptySet
    <3>3. Total(ClaimedLedger(s)') = 0
      BY <3>1, <3>2, TotalZero
    <3> QED
      BY <1>1, <1>4, <3>3
  <2> QED
    BY <1>1, <1>4, <2>7, <2>8 DEF ClaimsCovered, all
<1>7. ASSUME NEW z \in Seasons \ {s}, phase[z] = Distributing PROVE ClaimsCovered(z)'
  <2>1. ClaimsCovered(z)
    BY <1>7 DEF ClaimsInv
  <2>2. settlement[z].winner # w /\ settlement[z].winner \in Tokens
    BY <1>1, <2>1, VaultConstants DEF ClaimsCovered
  <2>3. tokenBalance'[settlement[z].winner] = tokenBalance[settlement[z].winner]
    BY <1>5, <2>2
  <2>4. OwedLedger(z)' = OwedLedger(z) /\ ClaimedLedger(z)' = ClaimedLedger(z)
    BY <1>1 DEF OwedLedger, ClaimedLedger, Owed, RolloverAmount
  <2> QED
    BY <1>1, <2>1, <2>3, <2>4 DEF ClaimsCovered
<1>8. \A z \in Seasons : phase'[z] = Active => z # s /\ phase[z] = Active
  BY <1>1, <1>2 DEF Active, Distributing
<1>9. \A z \in Seasons \ {s} : phase'[z] = phase[z]
  BY <1>1, <1>2
<1> QED
  BY <1>1, <1>5, <1>6, <1>7, <1>8, <1>9 DEF ClaimsInv

LEMMA ClaimsStep == VaultInv /\ ClaimsInv /\ [Next]_vars => ClaimsInv'
<1> SUFFICES ASSUME VaultInv, ClaimsInv, [Next]_vars PROVE ClaimsInv'
  OBVIOUS
<1>0. MoneyTypes /\ MoneyTypes'
  BY VaultStep DEF VaultInv
<1>1. ASSUME NEW s \in Seasons, NEW w \in Tokens, NEW root \in RolloverTrees,
             NEW bought \in TokensBought, SubmitWinner(s, w, root, bought)
      PROVE  ClaimsInv'
  BY <1>0, <1>1, SubmitClaims
<1>2. ASSUME NEW s \in Seasons, NEW u \in Users, ClaimRollover(s, u) PROVE ClaimsInv'
  BY <1>0, <1>2, ClaimStep
<1>3. ASSUME UNCHANGED <<phase, settlement, claimed, claimedShares, winnerSettled, tokenBalance>>
      PROVE  ClaimsInv'
  <2>1. \A t \in Tokens : tokenBalance'[t] >= tokenBalance[t]
    BY <1>3 DEF ClaimsInv
  <2> QED
    BY <1>0, <1>3, <2>1, QuietClaims DEF ClaimsInv
<1>4. ASSUME NEW s \in Seasons, NEW losers \in SUBSET Tokens, NEW p \in Proceeds,
             ProcessFilterEvent(s, losers, p)
      PROVE  ClaimsInv'
  BY <1>3, <1>4 DEF ProcessFilterEvent, claimVars
<1>5. ASSUME NEW s \in Seasons, NEW u \in Users, ClaimBonus(s, u) PROVE ClaimsInv'
  BY <1>3, <1>5 DEF ClaimBonus, vaultVars, claimVars
<1>6. ASSUME NEW s \in Seasons, NEW eligible \in SUBSET claimed[s], PostRoot(s, eligible)
      PROVE  ClaimsInv'
  BY <1>3, <1>6 DEF PostRoot, vaultVars, claimVars
<1>7. ASSUME NEW s \in Seasons, UnlockBonus(s) PROVE ClaimsInv'
  BY <1>3, <1>7 DEF UnlockBonus, vaultVars, claimVars
<1>8. ASSUME NEW s \in Seasons, NEW t \in Tokens, NEW a \in WethFees, NEW k \in TokenFees,
             CollectFees(s, t, a, k)
      PROVE  ClaimsInv'
  <2>1. /\ tokenBalance' = [tokenBalance EXCEPT ![t] = @ + k] /\ k \in Nat
        /\ UNCHANGED <<phase, settlement, claimed, claimedShares, winnerSettled>>
    BY <1>8, VaultConstants DEF CollectFees, vaultVars, claimVars
  <2>2. tokenBalance \in [Tokens -> Nat] /\ winnerSettled \subseteq Tokens
    BY DEF ClaimsInv
  <2>3. tokenBalance' \in [Tokens -> Nat]
        /\ \A x \in Tokens : tokenBalance'[x] >= tokenBalance[x]
    BY <2>1, <2>2
  <2> QED
    BY <1>0, <2>1, <2>2, <2>3, QuietClaims
<1>9. ASSUME NEW t \in Tokens, DisableCreatorFee(t) \/ ClaimFees(t) PROVE ClaimsInv'
  BY <1>3, <1>9 DEF DisableCreatorFee, ClaimFees, vaultVars, claimVars
<1>10. CASE UNCHANGED vars
  BY <1>3, <1>10 DEF vars, vaultVars, claimVars
<1> QED
  BY <1>1, <1>2, <1>4, <1>5, <1>6, <1>7, <1>8, <1>9, <1>10 DEF Next

(***************************************************************************)
(* What is left in a settled vault                                         *)
(***************************************************************************)

\* After settlement WETH comes in only from a token that was neither filtered nor the
\* winner.
CloseInv ==
    \A s \in Seasons : phase[s] = Distributing =>
        /\ settlement[s].winner \in winnerSettled
        /\ SeasonTokens[s] \ {settlement[s].winner} \subseteq liquidated[s] => weth[s] = 0

LEMMA CloseStep == VaultInv /\ CloseInv /\ [Next]_vars => CloseInv'
<1> SUFFICES ASSUME VaultInv, CloseInv, [Next]_vars PROVE CloseInv'
  OBVIOUS
<1>0. /\ MoneyTypes /\ Active # Distributing /\ phase \in [Seasons -> {Active, Distributing}]
      /\ liquidated \in [Seasons -> SUBSET Tokens] /\ weth \in [Seasons -> Nat]
  BY DEF VaultInv, MoneyTypes, Active, Distributing
<1>1. ASSUME NEW s \in Seasons, NEW w \in Tokens, NEW root \in RolloverTrees,
             NEW bought \in TokensBought, SubmitWinner(s, w, root, bought)
      PROVE  CloseInv'
  <2>1. /\ phase[s] = Active
        /\ settlement'[s].winner = w /\ winnerSettled' = winnerSettled \cup {w}
        /\ \A z \in Seasons \ {s} : /\ phase'[z] = phase[z] /\ weth'[z] = weth[z]
                                    /\ settlement'[z] = settlement[z]
        /\ weth'[s] = weth[s] - reserves[s].bounty - reserves[s].bonus - reserves[s].rollover
                         - Residue(s)
        /\ liquidated' = liquidated
    BY <1>0, <1>1 DEF SubmitWinner, CanSubmitWinner, LockersSettled, MoneyTypes
  <2>2. weth'[s] = 0
    <3>1. /\ reserves[s].bounty \in Nat /\ reserves[s].bonus \in Nat
          /\ reserves[s].rollover \in Nat /\ weth[s] \in Nat
          /\ weth[s] = reserves[s].rollover + reserves[s].bonus + reserves[s].bounty + feesIn[s]
          /\ feesIn[s] \in Nat
      BY <1>0, <2>1 DEF VaultInv, ReservesHeld, MoneyTypes, Reserves
    <3> DEFINE b == reserves[s].bounty   bo == reserves[s].bonus
               r == reserves[s].rollover   x == weth[s]   f == feesIn[s]
    <3>2. weth'[s] = x - b - bo - r - (x - b - bo - r)
      BY <2>1 DEF Residue
    <3>3. b \in Nat /\ bo \in Nat /\ r \in Nat /\ x \in Nat /\ f \in Nat /\ x = r + bo + b + f
      BY <3>1
    <3> HIDE DEF b, bo, r, x, f
    <3> QED
      BY <3>2, <3>3
  <2> QED
    BY <2>1, <2>2 DEF CloseInv
<1>2. ASSUME NEW s \in Seasons, NEW t \in Tokens, NEW a \in WethFees, NEW k \in TokenFees,
             CollectFees(s, t, a, k)
      PROVE  CloseInv'
  <2>1. /\ t \in SeasonTokens[s] \ liquidated[s]
        /\ UNCHANGED <<phase, liquidated, settlement, winnerSettled>>
        /\ \A z \in Seasons \ {s} : weth'[z] = weth[z]
        /\ t \in winnerSettled => weth' = weth
    BY <1>0, <1>2 DEF CollectFees, vaultVars
  <2> QED
    BY <2>1 DEF CloseInv
<1>3. ASSUME NEW s \in Seasons, NEW losers \in SUBSET Tokens, NEW p \in Proceeds,
             ProcessFilterEvent(s, losers, p)
      PROVE  CloseInv'
  <2>1. /\ phase[s] = Active /\ UNCHANGED <<phase, settlement, winnerSettled>>
        /\ \A z \in Seasons \ {s} : liquidated'[z] = liquidated[z] /\ weth'[z] = weth[z]
    BY <1>0, <1>3 DEF ProcessFilterEvent, CanFilter
  <2> QED
    BY <1>0, <2>1 DEF CloseInv
<1>4. ASSUME UNCHANGED <<vaultVars, weth>> PROVE CloseInv'
  BY <1>4 DEF vaultVars, CloseInv
<1>5. ASSUME NEW s \in Seasons, NEW u \in Users, ClaimRollover(s, u) \/ ClaimBonus(s, u)
      PROVE  CloseInv'
  BY <1>4, <1>5 DEF ClaimRollover, ClaimBonus
<1>6. ASSUME NEW s \in Seasons, NEW eligible \in SUBSET claimed[s], PostRoot(s, eligible)
      PROVE  CloseInv'
  BY <1>4, <1>6 DEF PostRoot
<1>7. ASSUME NEW s \in Seasons, UnlockBonus(s) PROVE CloseInv'
  BY <1>4, <1>7 DEF UnlockBonus
<1>8. ASSUME NEW t \in Tokens, DisableCreatorFee(t) \/ ClaimFees(t) PROVE CloseInv'
  BY <1>4, <1>8 DEF DisableCreatorFee, ClaimFees
<1>9. CASE UNCHANGED vars
  BY <1>4, <1>9 DEF vars
<1> QED
  BY <1>1, <1>2, <1>3, <1>5, <1>6, <1>7, <1>8, <1>9 DEF Next

(***************************************************************************)
(* The bonus pot                                                           *)
(***************************************************************************)

BonusReserves(b) == [s \in Seasons |-> b.bonuses[s].reserve]
BonusClaims(b) == [s \in Seasons |-> b.bonuses[s].claimedTotal]

\* What the wallets that have claimed the bonus of season s find in its tree.
PaidLedger(b, s) ==
    [u \in Users |-> IF <<s, u>> \in b.claimed THEN b.bonuses[s].root.amountOf[u] ELSE 0]

\* The bonus of season s when n roots have been posted.
SeasonBonusOK(b, s, n) ==
    /\ ~b.bonuses[s].funded => b.bonuses[s].reserve = 0 /\ n = 0
    /\ b.bonuses[s].finalized => n > 0
    /\ n = 0 => /\ b.bonuses[s].claimedTotal = 0
                /\ \A u \in Users : <<s, u>> \notin b.claimed
    /\ n = 1 => /\ Total(b.bonuses[s].root.amountOf) <= b.bonuses[s].reserve
                /\ b.bonuses[s].claimedTotal = Total(PaidLedger(b, s))

BonusOK(b, p) ==
    /\ b \in BonusState
    /\ b.balance + Total(BonusClaims(b)) = Total(BonusReserves(b))
    /\ \A s \in Seasons : SeasonBonusOK(b, s, p[s])

BonusInv == BonusOK(bonus, posts) /\ posts \in [Seasons -> 0..MaxPosts] /\ collects \in 0..MaxCollects

LEMMA BonusLedgers ==
  ASSUME NEW b \in BonusState
  PROVE  /\ BonusReserves(b) \in [Seasons -> Nat] /\ Total(BonusReserves(b)) \in Nat
         /\ BonusClaims(b) \in [Seasons -> Nat] /\ Total(BonusClaims(b)) \in Nat
<1>1. BonusReserves(b) \in [Seasons -> Nat] /\ BonusClaims(b) \in [Seasons -> Nat]
  BY DEF BonusState, SeasonBonus, BonusReserves, BonusClaims
<1> QED
  BY <1>1, SeasonConstants, TotalType

\* The shares of a hold bonus tree are shares of the reserve.
LEMMA BonusTreeShares ==
  ASSUME NEW E \in SUBSET Users, E # {}, NEW rolled \in [Users -> Nat],
         \A u \in E : rolled[u] > 0, NEW r \in Nat
  PROVE  BonusTree(E, rolled, r) \in Trees /\ Total(BonusTree(E, rolled, r).amountOf) <= r
<1> DEFINE f == [u \in E |-> rolled[u]]
           all == Total(f)
           g == [u \in E |-> (f[u] * r) \div all]
           a == [u \in Users |-> IF u \in E THEN (rolled[u] * r) \div all ELSE 0]
<1>1. f \in [E -> Nat] /\ IsFiniteSet(E)
  BY SeasonConstants, FS_Subset
<1>2. BonusTree(E, rolled, r) = [leaves |-> E, amountOf |-> a]
  BY DEF BonusTree
<1>3. PICK u \in E : f[u] > 0
  OBVIOUS
<1>4. \A v \in E : f[v] = rolled[v]
  OBVIOUS
<1> HIDE DEF f
<1>5. all \in Nat /\ all > 0
  <2>1. f[u] <= all /\ all \in Nat /\ f[u] \in Nat
    BY <1>1, TotalMember, TotalType
  <2> QED
    BY <1>3, <2>1
<1> HIDE DEF all
<1>6. ASSUME NEW v \in E PROVE (f[v] * r) \div all \in Nat
  <2>1. f[v] * r \in Nat
    BY <1>1
  <2> QED
    BY <1>5, <2>1, Division
<1>7. g \in [E -> Nat] /\ \A v \in E : g[v] = (f[v] * r) \div all
  BY <1>6
<1>8. /\ a \in [Users -> Nat] /\ \A v \in E : a[v] = g[v]
      /\ \A v \in Users \ E : a[v] = 0
  BY <1>4, <1>7
<1> HIDE DEF g, a
<1>9. Total(f) <= all
  BY <1>5 DEF all
<1>10. Total(g) <= r
  BY <1>1, <1>5, <1>7, <1>9, ProRata
<1>11. Total(a) = Total(g)
  BY <1>8, SeasonConstants, TotalOver, <1>7
<1> QED
  BY <1>2, <1>8, <1>10, <1>11 DEF Trees

LEMMA EmptyBonusOK == ASSUME NEW p, \A s \in Seasons : p[s] = 0 PROVE BonusOK(EmptyBonus, p)
<1>0. NoTree \in Trees
  BY DEF NoTree, Trees
<1>1. /\ EmptyBonus \in BonusState /\ EmptyBonus.balance = 0 /\ EmptyBonus.claimed = {}
      /\ \A s \in Seasons : EmptyBonus.bonuses[s] = NoBonus
  BY <1>0 DEF EmptyBonus, BonusState, NoBonus, SeasonBonus
<1>2. /\ NoBonus.reserve = 0 /\ NoBonus.claimedTotal = 0 /\ NoBonus.finalized = FALSE
      /\ NoBonus.funded = FALSE
  BY DEF NoBonus
<1>3. \A s \in Seasons : BonusReserves(EmptyBonus)[s] = 0 /\ BonusClaims(EmptyBonus)[s] = 0
  BY <1>1, <1>2 DEF BonusReserves, BonusClaims
<1>4. Total(BonusReserves(EmptyBonus)) = 0 /\ Total(BonusClaims(EmptyBonus)) = 0
  BY <1>1, <1>3, BonusLedgers, SeasonConstants, TotalZero
<1>5. \A s \in Seasons : SeasonBonusOK(EmptyBonus, s, p[s])
  BY <1>1, <1>2 DEF SeasonBonusOK
<1> QED
  BY <1>1, <1>4, <1>5 DEF BonusOK

\* A call that touches one season keeps the others and the pot's balance sheet.
LEMMA OneBonusOK ==
  ASSUME NEW b, NEW p, BonusOK(b, p), NEW s \in Seasons, NEW n \in BonusState, NEW q,
         \A z \in Seasons \ {s} : /\ n.bonuses[z] = b.bonuses[z] /\ q[z] = p[z]
                                  /\ \A u \in Users : <<z, u>> \in n.claimed <=> <<z, u>> \in b.claimed,
         n.balance + n.bonuses[s].claimedTotal + b.bonuses[s].reserve
            = b.balance + b.bonuses[s].claimedTotal + n.bonuses[s].reserve,
         SeasonBonusOK(n, s, q[s])
  PROVE  BonusOK(n, q)
<1>1. b \in BonusState /\ b.balance + Total(BonusClaims(b)) = Total(BonusReserves(b))
  BY DEF BonusOK
<1>2. ASSUME NEW z \in Seasons \ {s} PROVE SeasonBonusOK(n, z, q[z])
  <2>1. SeasonBonusOK(b, z, p[z])
    BY DEF BonusOK
  <2>2. PaidLedger(n, z) = PaidLedger(b, z)
    BY DEF PaidLedger
  <2> QED
    BY <2>1, <2>2 DEF SeasonBonusOK
<1> DEFINE cb == Total(BonusClaims(b))   cn == Total(BonusClaims(n))
           rb == Total(BonusReserves(b))   rn == Total(BonusReserves(n))
           bc == b.bonuses[s].claimedTotal   br == b.bonuses[s].reserve
           nc == n.bonuses[s].claimedTotal   nr == n.bonuses[s].reserve
           x == b.balance   y == n.balance
<1>3. cn + bc = cb + nc /\ cn \in Nat /\ cb \in Nat
  <2>1. /\ BonusClaims(b)[s] = bc /\ BonusClaims(n)[s] = nc
        /\ \A z \in Seasons \ {s} : BonusClaims(n)[z] = BonusClaims(b)[z]
    BY DEF BonusClaims
  <2> QED
    BY <1>1, <2>1, BonusLedgers, SeasonConstants, TotalUpdate
<1>4. rn + br = rb + nr /\ rn \in Nat /\ rb \in Nat
  <2>1. /\ BonusReserves(b)[s] = br /\ BonusReserves(n)[s] = nr
        /\ \A z \in Seasons \ {s} : BonusReserves(n)[z] = BonusReserves(b)[z]
    BY DEF BonusReserves
  <2> QED
    BY <1>1, <2>1, BonusLedgers, SeasonConstants, TotalUpdate
<1>5. /\ bc \in Nat /\ br \in Nat /\ nc \in Nat /\ nr \in Nat /\ x \in Nat /\ y \in Nat
      /\ y + nc + br = x + bc + nr /\ x + cb = rb
  BY <1>1 DEF BonusState, SeasonBonus
<1> HIDE DEF cb, cn, rb, rn, bc, br, nc, nr, x, y
<1>6. y + cn = rn
  BY <1>3, <1>4, <1>5
<1> QED
  BY <1>2, <1>6 DEF BonusOK, y, cn, rn

\* A season's record after fundBonus, postRoot, claim and the clock.
WithReserve(x, a) == [x EXCEPT !.funded = TRUE, !.reserve = a]
WithRoot(x, tree) == [x EXCEPT !.root = tree, !.finalized = TRUE]
WithPaid(x, a) == [x EXCEPT !.claimedTotal = @ + a]
WithUnlocked(x) == [x EXCEPT !.unlocked = TRUE]

LEMMA FundedFields ==
  ASSUME NEW x \in SeasonBonus, NEW a \in Nat
  PROVE  LET z == WithReserve(x, a) IN
         /\ z \in SeasonBonus /\ z.funded = TRUE /\ z.unlocked = x.unlocked /\ z.reserve = a
         /\ z.claimedTotal = x.claimedTotal /\ z.root = x.root /\ z.finalized = x.finalized
<1> DEFINE y == [x EXCEPT !.funded = TRUE]
           z == [y EXCEPT !.reserve = a]
<1>1. WithReserve(x, a) = z
  BY Zenon DEF WithReserve
<1>2. /\ y \in SeasonBonus /\ y.funded = TRUE /\ y.unlocked = x.unlocked
      /\ y.claimedTotal = x.claimedTotal /\ y.root = x.root /\ y.finalized = x.finalized
  BY DEF SeasonBonus
<1> HIDE DEF y
<1>3. /\ z \in SeasonBonus /\ z.funded = y.funded /\ z.unlocked = y.unlocked /\ z.reserve = a
      /\ z.claimedTotal = y.claimedTotal /\ z.root = y.root /\ z.finalized = y.finalized
  BY <1>2 DEF SeasonBonus
<1> HIDE DEF z
<1> QED
  BY <1>1, <1>2, <1>3

LEMMA PostedFields ==
  ASSUME NEW x \in SeasonBonus, NEW tree \in Trees
  PROVE  LET z == WithRoot(x, tree) IN
         /\ z \in SeasonBonus /\ z.funded = x.funded /\ z.unlocked = x.unlocked
         /\ z.reserve = x.reserve /\ z.claimedTotal = x.claimedTotal /\ z.root = tree
         /\ z.finalized = TRUE
<1> DEFINE y == [x EXCEPT !.root = tree]
           z == [y EXCEPT !.finalized = TRUE]
<1>1. WithRoot(x, tree) = z
  BY Zenon DEF WithRoot
<1>2. /\ y \in SeasonBonus /\ y.funded = x.funded /\ y.unlocked = x.unlocked
      /\ y.reserve = x.reserve /\ y.claimedTotal = x.claimedTotal /\ y.root = tree
  BY DEF SeasonBonus
<1> HIDE DEF y
<1>3. /\ z \in SeasonBonus /\ z.funded = y.funded /\ z.unlocked = y.unlocked
      /\ z.reserve = y.reserve /\ z.claimedTotal = y.claimedTotal /\ z.root = y.root
      /\ z.finalized = TRUE
  BY <1>2 DEF SeasonBonus
<1> HIDE DEF z
<1> QED
  BY <1>1, <1>2, <1>3

LEMMA PaidFields ==
  ASSUME NEW x \in SeasonBonus, NEW a \in Nat
  PROVE  LET z == WithPaid(x, a) IN
         /\ z \in SeasonBonus /\ z.funded = x.funded /\ z.unlocked = x.unlocked
         /\ z.reserve = x.reserve /\ z.claimedTotal = x.claimedTotal + a /\ z.root = x.root
         /\ z.finalized = x.finalized
BY DEF SeasonBonus, WithPaid

LEMMA UnlockedFields ==
  ASSUME NEW x \in SeasonBonus
  PROVE  LET z == WithUnlocked(x) IN
         /\ z \in SeasonBonus /\ z.funded = x.funded /\ z.unlocked = TRUE
         /\ z.reserve = x.reserve /\ z.claimedTotal = x.claimedTotal /\ z.root = x.root
         /\ z.finalized = x.finalized
BY DEF SeasonBonus, WithUnlocked

\* What each function writes: one season's record, the claims and the balance.
LEMMA BonusWrites ==
  ASSUME NEW b \in BonusState, NEW s \in Seasons, NEW j \in SeasonBonus,
         NEW C \in SUBSET (Seasons \X Users), NEW v \in Nat,
         NEW n, n = [bonuses |-> [b.bonuses EXCEPT ![s] = j], claimed |-> C, balance |-> v]
  PROVE  /\ n.bonuses[s] = j /\ (\A z \in Seasons \ {s} : n.bonuses[z] = b.bonuses[z])
         /\ n.claimed = C /\ n.balance = v /\ n \in BonusState
<1>1. b.bonuses \in [Seasons -> SeasonBonus]
  BY DEF BonusState
<1> QED
  BY <1>1 DEF BonusState

LEMMA FundedWrites ==
  ASSUME NEW b \in BonusState, NEW s \in Seasons, NEW a \in Nat
  PROVE  LET n == BonusFunded(b, s, a) IN
         /\ n.bonuses[s] = WithReserve(b.bonuses[s], a)
         /\ \A z \in Seasons \ {s} : n.bonuses[z] = b.bonuses[z]
         /\ n.claimed = b.claimed /\ n.balance = b.balance + a /\ n \in BonusState
<1> DEFINE j == WithReserve(b.bonuses[s], a)
           n == BonusFunded(b, s, a)
           B == [b.bonuses EXCEPT ![s] = j]
<1>1. b.bonuses[s] \in SeasonBonus /\ b.balance + a \in Nat /\ b.claimed \in SUBSET (Seasons \X Users)
  BY DEF BonusState
<1>2. j \in SeasonBonus
  BY <1>1, FundedFields
<1>3. n = [b EXCEPT !.bonuses = B, !.balance = b.balance + a]
  BY DEF BonusFunded, WithReserve
<1> HIDE DEF n, j, B
<1>4. b = [bonuses |-> b.bonuses, claimed |-> b.claimed, balance |-> b.balance]
  BY DEF BonusState
<1>5. n = [bonuses |-> B, claimed |-> b.claimed, balance |-> b.balance + a]
  BY <1>3, <1>4
<1>6. /\ n.bonuses[s] = j /\ (\A z \in Seasons \ {s} : n.bonuses[z] = b.bonuses[z])
      /\ n.claimed = b.claimed /\ n.balance = b.balance + a /\ n \in BonusState
  BY <1>1, <1>2, <1>5, BonusWrites DEF B
<1> QED
  BY <1>6 DEF n, j

LEMMA PostedWrites ==
  ASSUME NEW b \in BonusState, NEW s \in Seasons, NEW tree \in Trees
  PROVE  LET n == RootPosted(b, s, tree) IN
         /\ n.bonuses[s] = WithRoot(b.bonuses[s], tree)
         /\ \A z \in Seasons \ {s} : n.bonuses[z] = b.bonuses[z]
         /\ n.claimed = b.claimed /\ n.balance = b.balance /\ n \in BonusState
<1> DEFINE j == WithRoot(b.bonuses[s], tree)
           n == RootPosted(b, s, tree)
           B == [b.bonuses EXCEPT ![s] = j]
<1>1. b.bonuses[s] \in SeasonBonus /\ b.balance \in Nat /\ b.claimed \in SUBSET (Seasons \X Users)
  BY DEF BonusState
<1>2. j \in SeasonBonus
  BY <1>1, PostedFields
<1>3. n = [b EXCEPT !.bonuses = B]
  BY DEF RootPosted, WithRoot
<1> HIDE DEF n, j, B
<1>4. b = [bonuses |-> b.bonuses, claimed |-> b.claimed, balance |-> b.balance]
  BY DEF BonusState
<1>5. n = [bonuses |-> B, claimed |-> b.claimed, balance |-> b.balance]
  BY <1>3, <1>4
<1>6. /\ n.bonuses[s] = j /\ (\A z \in Seasons \ {s} : n.bonuses[z] = b.bonuses[z])
      /\ n.claimed = b.claimed /\ n.balance = b.balance /\ n \in BonusState
  BY <1>1, <1>2, <1>5, BonusWrites DEF B
<1> QED
  BY <1>6 DEF n, j

LEMMA ClaimedWrites ==
  ASSUME NEW b \in BonusState, NEW s \in Seasons, NEW u \in Users,
         b.bonuses[s].root.amountOf[u] <= b.balance
  PROVE  LET n == BonusClaimed(b, s, u)
             a == b.bonuses[s].root.amountOf[u] IN
         /\ n.bonuses[s] = WithPaid(b.bonuses[s], a)
         /\ \A z \in Seasons \ {s} : n.bonuses[z] = b.bonuses[z]
         /\ n.claimed = b.claimed \cup {<<s, u>>} /\ n.balance = b.balance - a /\ n \in BonusState
<1> DEFINE a == b.bonuses[s].root.amountOf[u]
           j == WithPaid(b.bonuses[s], a)
           n == BonusClaimed(b, s, u)
           B == [b.bonuses EXCEPT ![s] = j]
           C == b.claimed \cup {<<s, u>>}
           v == b.balance - a
           m == [b EXCEPT !.bonuses = B]
           k == [m EXCEPT !.claimed = C]
<1>1. /\ b.bonuses[s] \in SeasonBonus /\ a \in Nat /\ b.balance \in Nat
      /\ C \in SUBSET (Seasons \X Users)
  BY DEF BonusState, SeasonBonus, Trees
<1>2. v \in Nat
  BY <1>1
<1>3. j \in SeasonBonus
  BY <1>1, PaidFields
<1>4. n = [b EXCEPT !.bonuses = B, !.claimed = C, !.balance = v]
  BY Zenon DEF BonusClaimed, WithPaid
<1> HIDE DEF n, j, a, B, C, v
<1>5. n = [k EXCEPT !.balance = v]
  BY <1>4, Zenon
<1>6. n = [bonuses |-> B, claimed |-> C, balance |-> v]
  <2>1. m = [bonuses |-> B, claimed |-> b.claimed, balance |-> b.balance]
    BY DEF BonusState
  <2> HIDE DEF m
  <2>2. k = [bonuses |-> B, claimed |-> C, balance |-> b.balance]
    BY <2>1
  <2> HIDE DEF k
  <2> QED
    BY <1>5, <2>2
<1>7. /\ n.bonuses[s] = j /\ (\A z \in Seasons \ {s} : n.bonuses[z] = b.bonuses[z])
      /\ n.claimed = C /\ n.balance = v /\ n \in BonusState
  BY <1>1, <1>2, <1>3, <1>6, BonusWrites DEF B
<1> QED
  BY <1>7 DEF n, j, a, C, v

LEMMA UnlockedWrites ==
  ASSUME NEW b \in BonusState, NEW s \in Seasons
  PROVE  LET n == UnlockTimePassed(b, s) IN
         /\ n.bonuses[s] = WithUnlocked(b.bonuses[s])
         /\ \A z \in Seasons \ {s} : n.bonuses[z] = b.bonuses[z]
         /\ n.claimed = b.claimed /\ n.balance = b.balance /\ n \in BonusState
<1> DEFINE j == WithUnlocked(b.bonuses[s])
           n == UnlockTimePassed(b, s)
           B == [b.bonuses EXCEPT ![s] = j]
<1>1. b.bonuses[s] \in SeasonBonus /\ b.balance \in Nat /\ b.claimed \in SUBSET (Seasons \X Users)
  BY DEF BonusState
<1>2. j \in SeasonBonus
  BY <1>1, UnlockedFields
<1>3. n = [b EXCEPT !.bonuses = B]
  BY Zenon DEF UnlockTimePassed, WithUnlocked
<1> HIDE DEF n, j, B
<1>4. b = [bonuses |-> b.bonuses, claimed |-> b.claimed, balance |-> b.balance]
  BY DEF BonusState
<1>5. n = [bonuses |-> B, claimed |-> b.claimed, balance |-> b.balance]
  BY <1>3, <1>4
<1>6. /\ n.bonuses[s] = j /\ (\A z \in Seasons \ {s} : n.bonuses[z] = b.bonuses[z])
      /\ n.claimed = b.claimed /\ n.balance = b.balance /\ n \in BonusState
  BY <1>1, <1>2, <1>5, BonusWrites DEF B
<1> QED
  BY <1>6 DEF n, j

\* fundBonus, once in a season.
LEMMA FundedOK ==
  ASSUME NEW b, NEW p, BonusOK(b, p), NEW s \in Seasons, CanFundBonus(b, s), NEW a \in Nat
  PROVE  BonusOK(BonusFunded(b, s, a), p)
<1> DEFINE i == b.bonuses[s]
           j == WithReserve(i, a)
           n == BonusFunded(b, s, a)
<1>1. /\ b \in BonusState /\ i \in SeasonBonus /\ b.balance \in Nat /\ i.claimedTotal \in Nat
      /\ b.bonuses \in [Seasons -> SeasonBonus]
  BY DEF BonusOK, BonusState, SeasonBonus
<1>2. /\ j \in SeasonBonus /\ j.funded = TRUE /\ j.reserve = a
      /\ j.claimedTotal = i.claimedTotal /\ j.finalized = i.finalized
  BY <1>1, FundedFields
<1>4. /\ i.reserve = 0 /\ p[s] = 0 /\ i.claimedTotal = 0
      /\ ~i.finalized /\ \A u \in Users : <<s, u>> \notin b.claimed
  <2>1. SeasonBonusOK(b, s, p[s]) /\ ~i.funded
    BY DEF BonusOK, CanFundBonus
  <2>2. i.reserve = 0 /\ p[s] = 0
    BY <2>1 DEF SeasonBonusOK
  <2> QED
    BY <2>1, <2>2 DEF SeasonBonusOK
<1>5. /\ n.bonuses[s] = j /\ (\A z \in Seasons \ {s} : n.bonuses[z] = b.bonuses[z])
      /\ n.claimed = b.claimed /\ n.balance = b.balance + a /\ n \in BonusState
  BY <1>1, FundedWrites
<1> HIDE DEF n, j
<1>6. SeasonBonusOK(n, s, p[s])
  BY <1>2, <1>4, <1>5 DEF SeasonBonusOK
<1>7. n.balance + n.bonuses[s].claimedTotal + b.bonuses[s].reserve
         = b.balance + b.bonuses[s].claimedTotal + n.bonuses[s].reserve
  BY <1>1, <1>2, <1>4, <1>5
<1> HIDE DEF i
<1> QED
  BY <1>5, <1>6, <1>7, OneBonusOK DEF n

\* postRoot: a tree with shares of the reserve, or any tree that replaces one.
LEMMA PostedOK ==
  ASSUME NEW b, NEW p \in [Seasons -> Nat], BonusOK(b, p), NEW s \in Seasons, CanPostRoot(b, s),
         NEW tree \in Trees, Total(tree.amountOf) <= b.bonuses[s].reserve,
         NEW q, q = [p EXCEPT ![s] = @ + 1]
  PROVE  BonusOK(RootPosted(b, s, tree), q)
<1> DEFINE i == b.bonuses[s]
           j == WithRoot(i, tree)
           n == RootPosted(b, s, tree)
<1>1. /\ b \in BonusState /\ i \in SeasonBonus /\ b.balance \in Nat /\ i.claimedTotal \in Nat
      /\ i.reserve \in Nat /\ b.bonuses \in [Seasons -> SeasonBonus] /\ p[s] \in Nat
      /\ i.funded /\ SeasonBonusOK(b, s, p[s])
  BY DEF BonusOK, BonusState, SeasonBonus, CanPostRoot
<1>2. /\ j \in SeasonBonus /\ j.funded = i.funded /\ j.reserve = i.reserve /\ j.root = tree
      /\ j.claimedTotal = i.claimedTotal /\ j.finalized = TRUE
  BY <1>1, PostedFields
<1>4. /\ n.bonuses[s] = j /\ (\A z \in Seasons \ {s} : n.bonuses[z] = b.bonuses[z])
      /\ n.claimed = b.claimed /\ n.balance = b.balance /\ n \in BonusState
  BY <1>1, PostedWrites
<1> HIDE DEF n, j
<1>5. q[s] = p[s] + 1 /\ \A z \in Seasons \ {s} : q[z] = p[z]
  OBVIOUS
<1>6. SeasonBonusOK(n, s, q[s])
  <2>1. ASSUME p[s] = 0
        PROVE  n.bonuses[s].claimedTotal = Total(PaidLedger(n, s))
    <3>1. i.claimedTotal = 0 /\ \A u \in Users : <<s, u>> \notin n.claimed
      BY <1>1, <1>4, <2>1 DEF SeasonBonusOK
    <3>2. PaidLedger(n, s) \in [Users -> Nat] /\ \A u \in Users : PaidLedger(n, s)[u] = 0
      BY <3>1 DEF PaidLedger
    <3>3. Total(PaidLedger(n, s)) = 0
      BY <3>2, SeasonConstants, TotalZero
    <3> QED
      BY <1>2, <1>4, <3>1, <3>3
  <2>2. q[s] > 0 /\ q[s] # 0 /\ (q[s] = 1 => p[s] = 0)
    BY <1>1, <1>5
  <2>3. n.bonuses[s].funded /\ Total(n.bonuses[s].root.amountOf) <= n.bonuses[s].reserve
    BY <1>1, <1>2, <1>4
  <2> QED
    BY <2>1, <2>2, <2>3 DEF SeasonBonusOK
<1>7. n.balance + n.bonuses[s].claimedTotal + b.bonuses[s].reserve
         = b.balance + b.bonuses[s].claimedTotal + n.bonuses[s].reserve
  BY <1>1, <1>2, <1>4
<1>8. \A z \in Seasons \ {s} :
         /\ n.bonuses[z] = b.bonuses[z] /\ q[z] = p[z]
         /\ \A u \in Users : <<z, u>> \in n.claimed <=> <<z, u>> \in b.claimed
  BY <1>4, <1>5
<1>9. n \in BonusState
  BY <1>4
<1> HIDE DEF i
<1>10. BonusOK(n, q)
  BY ONLY BonusOK(b, p), s \in Seasons, <1>6, <1>7, <1>8, <1>9, OneBonusOK
<1> QED
  BY <1>10 DEF n

\* claim, from the tree that stands.
LEMMA BonusClaimedOK ==
  ASSUME NEW b, NEW p \in [Seasons -> Nat], BonusOK(b, p), NEW s \in Seasons, NEW u \in Users,
         CanClaimBonus(b, s, u)
  PROVE  BonusOK(BonusClaimed(b, s, u), p)
<1> DEFINE i == b.bonuses[s]
           a == i.root.amountOf[u]
           j == WithPaid(i, a)
           n == BonusClaimed(b, s, u)
<1>1. /\ b \in BonusState /\ i \in SeasonBonus /\ b.balance \in Nat /\ i.claimedTotal \in Nat
      /\ i.reserve \in Nat /\ b.bonuses \in [Seasons -> SeasonBonus] /\ p[s] \in Nat
      /\ b.claimed \subseteq Seasons \X Users
      /\ i.root.amountOf \in [Users -> Nat] /\ a \in Nat
      /\ SeasonBonusOK(b, s, p[s])
  BY DEF BonusOK, BonusState, SeasonBonus, Trees
<1>2. i.finalized /\ <<s, u>> \notin b.claimed /\ a <= b.balance
  BY DEF CanClaimBonus
<1>3. /\ j \in SeasonBonus /\ j.funded = i.funded /\ j.reserve = i.reserve /\ j.root = i.root
      /\ j.claimedTotal = i.claimedTotal + a /\ j.finalized = i.finalized
  BY <1>1, PaidFields
<1>6. /\ n.bonuses[s] = j /\ (\A z \in Seasons \ {s} : n.bonuses[z] = b.bonuses[z])
      /\ n.claimed = b.claimed \cup {<<s, u>>} /\ n.balance = b.balance - a /\ n \in BonusState
  BY <1>1, <1>2, ClaimedWrites
<1>7. n \in BonusState
  BY <1>6
<1> HIDE DEF n, j
<1>8. \A z \in Seasons \ {s} : \A v \in Users : <<z, v>> \in n.claimed <=> <<z, v>> \in b.claimed
  BY <1>6
<1>9. n.balance + n.bonuses[s].claimedTotal + b.bonuses[s].reserve
         = b.balance + b.bonuses[s].claimedTotal + n.bonuses[s].reserve
  <2> DEFINE x == b.balance   c == i.claimedTotal   r == i.reserve
  <2>1. x \in Nat /\ c \in Nat /\ r \in Nat /\ a \in Nat
    BY <1>1
  <2>2. n.balance = x - a /\ n.bonuses[s].claimedTotal = c + a /\ n.bonuses[s].reserve = r
    BY <1>3, <1>6
  <2> HIDE DEF x, c, r, a
  <2>3. (x - a) + (c + a) + r = x + c + r
    BY <2>1
  <2> QED
    BY <2>2, <2>3 DEF x, c, r
<1>10. p[s] > 0
  BY <1>1, <1>2 DEF SeasonBonusOK
<1>11. ASSUME p[s] = 1 PROVE n.bonuses[s].claimedTotal = Total(PaidLedger(n, s))
  <2> DEFINE f == PaidLedger(b, s)
             g == PaidLedger(n, s)
  <2>1. f \in [Users -> Nat] /\ f[u] = 0
    BY <1>1, <1>2 DEF PaidLedger
  <2>2. /\ g \in [Users -> Nat] /\ g[u] = a /\ \A v \in Users \ {u} : g[v] = f[v]
    BY <1>1, <1>3, <1>6 DEF PaidLedger
  <2>3. i.claimedTotal = Total(f)
    BY <1>1, <1>11 DEF SeasonBonusOK
  <2> HIDE DEF f, g
  <2>4. Total(g) + f[u] = Total(f) + g[u] /\ Total(f) \in Nat /\ Total(g) \in Nat
    BY <2>1, <2>2, SeasonConstants, TotalUpdate, TotalType
  <2>5. Total(g) = Total(f) + a
    BY <1>1, <2>1, <2>2, <2>4
  <2> QED
    BY <1>3, <1>6, <2>3, <2>5 DEF g
<1>12. SeasonBonusOK(n, s, p[s])
  <2>1. n.bonuses[s].funded
    BY <1>1, <1>3, <1>6, <1>10 DEF SeasonBonusOK
  <2>2. p[s] = 1 => Total(n.bonuses[s].root.amountOf) <= n.bonuses[s].reserve
    BY <1>1, <1>3, <1>6 DEF SeasonBonusOK
  <2> QED
    BY <1>1, <1>10, <1>11, <2>1, <2>2 DEF SeasonBonusOK
<1> HIDE DEF i, a
<1> QED
  BY <1>6, <1>7, <1>8, <1>9, <1>12, OneBonusOK DEF n

LEMMA UnlockedOK ==
  ASSUME NEW b, NEW p, BonusOK(b, p), NEW s \in Seasons
  PROVE  BonusOK(UnlockTimePassed(b, s), p)
<1> DEFINE i == b.bonuses[s]
           j == WithUnlocked(i)
           n == UnlockTimePassed(b, s)
<1>1. /\ b \in BonusState /\ i \in SeasonBonus /\ b.balance \in Nat /\ i.claimedTotal \in Nat
      /\ i.reserve \in Nat /\ b.bonuses \in [Seasons -> SeasonBonus] /\ SeasonBonusOK(b, s, p[s])
  BY DEF BonusOK, BonusState, SeasonBonus
<1>2. /\ j \in SeasonBonus /\ j.funded = i.funded /\ j.reserve = i.reserve /\ j.root = i.root
      /\ j.claimedTotal = i.claimedTotal /\ j.finalized = i.finalized
  BY <1>1, UnlockedFields
<1>4. /\ n.bonuses[s] = j /\ (\A z \in Seasons \ {s} : n.bonuses[z] = b.bonuses[z])
      /\ n.claimed = b.claimed /\ n.balance = b.balance /\ n \in BonusState
  BY <1>1, UnlockedWrites
<1> HIDE DEF n, j
<1>5. PaidLedger(n, s) = PaidLedger(b, s)
  BY <1>2, <1>4 DEF PaidLedger
<1>6. SeasonBonusOK(n, s, p[s])
  BY <1>1, <1>2, <1>4, <1>5 DEF SeasonBonusOK
<1>7. n.balance + n.bonuses[s].claimedTotal + b.bonuses[s].reserve
         = b.balance + b.bonuses[s].claimedTotal + n.bonuses[s].reserve
  BY <1>2, <1>4
<1> HIDE DEF i
<1> QED
  BY <1>4, <1>6, <1>7, OneBonusOK DEF n

\* The oracle's tree for a settled season shares out no more than its reserve.
LEMMA PostedTree ==
  ASSUME VaultInv, ClaimsInv, BonusInv, NEW s \in Seasons, NEW eligible \in SUBSET claimed[s],
         PostRoot(s, eligible)
  PROVE  LET tree == BonusTree(eligible, [u \in Users |-> RolloverAmount(s, u)],
                               bonus.bonuses[s].reserve) IN
         tree \in Trees /\ Total(tree.amountOf) <= bonus.bonuses[s].reserve
<1> DEFINE rolled == [u \in Users |-> RolloverAmount(s, u)]
           r == bonus.bonuses[s].reserve
           tree == BonusTree(eligible, rolled, r)
<1>1. /\ eligible # {} /\ (\A u \in eligible : RolloverAmount(s, u) > 0)
      /\ posts[s] < MaxPosts /\ MoneyTypes
      /\ posts \in [Seasons -> 0..MaxPosts] /\ BonusOK(bonus, posts)
  BY DEF PostRoot, VaultInv, BonusInv
<1>2. phase[s] = Distributing /\ claimed[s] \subseteq Users
  BY <1>1 DEF ClaimsInv, MoneyTypes
<1>3. settlement[s].totalRolloverShares > 0
  BY <1>2 DEF ClaimsInv, ClaimsCovered
<1>4. \A u \in Users : RolloverAmount(s, u) \in Nat
  BY <1>1, <1>3, OwedType DEF ClaimsInv
<1>5. /\ rolled \in [Users -> Nat] /\ eligible \in SUBSET Users
      /\ \A u \in eligible : rolled[u] > 0
  BY <1>1, <1>2, <1>4
<1>6. r \in Nat
  BY <1>1 DEF BonusOK, BonusState, SeasonBonus
<1> HIDE DEF rolled, r
<1>7. tree \in Trees /\ Total(tree.amountOf) <= r
  BY <1>1, <1>5, <1>6, BonusTreeShares
<1> QED
  BY <1>7 DEF rolled, r

LEMMA BonusStep == VaultInv /\ ClaimsInv /\ BonusInv /\ [Next]_vars => BonusInv'
<1> SUFFICES ASSUME VaultInv, ClaimsInv, BonusInv, [Next]_vars PROVE BonusInv'
  OBVIOUS
<1>0. /\ BonusOK(bonus, posts) /\ posts \in [Seasons -> 0..MaxPosts] /\ posts \in [Seasons -> Nat]
      /\ collects \in 0..MaxCollects /\ MoneyTypes
  BY VaultConstants DEF BonusInv, VaultInv
<1>1. ASSUME NEW s \in Seasons, NEW w \in Tokens, NEW root \in RolloverTrees,
             NEW bought \in TokensBought, SubmitWinner(s, w, root, bought)
      PROVE  BonusInv'
  <2>1. /\ reserves[s].bonus \in Nat /\ UNCHANGED <<posts, collects>>
        /\ \/ CanFundBonus(bonus, s) /\ bonus' = BonusFunded(bonus, s, reserves[s].bonus)
           \/ bonus' = bonus
    BY <1>0, <1>1 DEF SubmitWinner, CanSubmitWinner, historyVars, MoneyTypes, Reserves
  <2> QED
    BY <1>0, <2>1, FundedOK DEF BonusInv
<1>2. ASSUME NEW s \in Seasons, NEW eligible \in SUBSET claimed[s], PostRoot(s, eligible)
      PROVE  BonusInv'
  <2> DEFINE rolled == [u \in Users |-> RolloverAmount(s, u)]
             r == bonus.bonuses[s].reserve
             tree == BonusTree(eligible, rolled, r)
  <2>1. /\ eligible # {} /\ (\A u \in eligible : RolloverAmount(s, u) > 0)
        /\ posts[s] < MaxPosts /\ CanPostRoot(bonus, s)
        /\ bonus' = RootPosted(bonus, s, tree)
        /\ posts' = [posts EXCEPT ![s] = @ + 1] /\ collects' = collects
    BY <1>2 DEF PostRoot
  <2>2. tree \in Trees /\ Total(tree.amountOf) <= r
    BY <1>2, PostedTree
  <2> HIDE DEF tree
  <2>8. BonusOK(bonus', posts')
    BY <1>0, <2>1, <2>2, PostedOK DEF r
  <2>9. posts' \in [Seasons -> 0..MaxPosts]
    BY <1>0, <2>1, VaultConstants
  <2> QED
    BY <1>0, <2>1, <2>8, <2>9 DEF BonusInv
<1>3. ASSUME NEW s \in Seasons, NEW u \in Users, ClaimBonus(s, u) PROVE BonusInv'
  BY <1>0, <1>3, BonusClaimedOK DEF ClaimBonus, historyVars, BonusInv
<1>4. ASSUME NEW s \in Seasons, UnlockBonus(s) PROVE BonusInv'
  BY <1>0, <1>4, UnlockedOK DEF UnlockBonus, historyVars, BonusInv
<1>5. ASSUME UNCHANGED <<bonus, posts, collects>> PROVE BonusInv'
  BY <1>5 DEF BonusInv
<1>6. ASSUME NEW s \in Seasons, NEW u \in Users, ClaimRollover(s, u) PROVE BonusInv'
  BY <1>5, <1>6 DEF ClaimRollover, historyVars
<1>7. ASSUME NEW s \in Seasons, NEW losers \in SUBSET Tokens, NEW p \in Proceeds,
             ProcessFilterEvent(s, losers, p)
      PROVE  BonusInv'
  BY <1>5, <1>7 DEF ProcessFilterEvent, historyVars
<1>8. ASSUME NEW s \in Seasons, NEW t \in Tokens, NEW a \in WethFees, NEW k \in TokenFees,
             CollectFees(s, t, a, k)
      PROVE  BonusInv'
  <2>1. collects' = collects + 1 /\ collects < MaxCollects /\ UNCHANGED <<bonus, posts>>
    BY <1>8 DEF CollectFees
  <2>2. collects' \in 0..MaxCollects
    BY <1>0, <2>1, VaultConstants
  <2> QED
    BY <1>0, <2>1, <2>2 DEF BonusInv
<1>9. ASSUME NEW t \in Tokens, DisableCreatorFee(t) \/ ClaimFees(t) PROVE BonusInv'
  BY <1>5, <1>9 DEF DisableCreatorFee, ClaimFees, historyVars
<1>10. CASE UNCHANGED vars
  BY <1>5, <1>10 DEF vars, historyVars
<1> QED
  BY <1>1, <1>2, <1>3, <1>4, <1>6, <1>7, <1>8, <1>9, <1>10 DEF Next

\* All that is known of the vaults and of what they pay into.
SettleInv == VaultInv /\ LadderInv /\ ClaimsInv /\ CloseInv /\ BonusInv /\ FeesOK(fees)

LEMMA InitSettle == Init => SettleInv
<1> SUFFICES ASSUME Init PROVE SettleInv
  OBVIOUS
<1>1. CloseInv
  BY DEF Init, CloseInv, Active, Distributing
<1>2. BonusInv
  BY EmptyBonusOK, VaultConstants DEF Init, BonusInv
<1>3. FeesOK(fees)
  BY NoFeesOK DEF Init
<1> QED
  BY <1>1, <1>2, <1>3, InitVault, InitLadder, InitClaims DEF SettleInv

LEMMA SettleStep == SettleInv /\ [Next]_vars => SettleInv'
  BY VaultStep, LadderStep, ClaimsStep, CloseStep, BonusStep, FeesStep DEF SettleInv

LEMMA SettleInvariant == Spec => []SettleInv
  BY InitSettle, SettleStep, PTL DEF Spec

LEMMA SettleTypes == SettleInv => TypeOK
  BY DEF SettleInv, VaultInv, MoneyTypes, LadderInv, ClaimsInv, BonusInv, BonusOK, FeesOK, TypeOK

(***************************************************************************)
(* The indexer, log by log                                                 *)
(***************************************************************************)

\* A fold of the indexer over some of the indexes extends to one more.
LEMMA IndexedFoldGrows ==
  ASSUME NEW s, NEW base, NEW k \in Nat, NEW g, IsFold(g, Indexed, base, s, k)
  PROVE  \E h : IsFold(h, Indexed, base, s, k + 1)
<1> DEFINE h == [T \in SUBSET (1..(k + 1)) |->
                    IF T = {} THEN base ELSE Indexed(g[T \ {Max(T)}], s[Max(T)])]
<1>1. \A T \in SUBSET (1..(k + 1)) : T # {} => T \ {Max(T)} \in SUBSET (1..k)
  BY LargestOf, k + 1 \in Nat
<1>2. \A T \in SUBSET (1..k) : h[T] = g[T]
  BY SUBSET (1..k) \subseteq SUBSET (1..(k + 1)) DEF IsFold
<1>3. IsFold(h, Indexed, base, s, k + 1)
  BY <1>1, <1>2 DEF IsFold
<1> QED
  BY <1>3

\* So it is defined on all of them.
LEMMA IndexedFoldExists ==
  ASSUME NEW s, NEW base, NEW n \in Nat
  PROVE  \E h : IsFold(h, Indexed, base, s, n)
<1> DEFINE Folds(k) == \E h : IsFold(h, Indexed, base, s, k)
           folded == {k \in 0..n : Folds(k)}
<1>1. Folds(0)
  <2> DEFINE h == [T \in SUBSET (1..0) |-> IF T = {} THEN base ELSE Indexed(base, s[Max(T)])]
  <2>1. \A T \in SUBSET (1..0) : T = {}
    OBVIOUS
  <2>2. IsFold(h, Indexed, base, s, 0)
    BY <2>1 DEF IsFold
  <2> QED
    BY <2>2
<1>2. \A k \in Nat : Folds(k) => Folds(k + 1)
  BY IndexedFoldGrows
<1> HIDE DEF Folds
<1>3. 0 \in folded /\ \A k \in 1..n : k - 1 \in folded => k \in folded
  <2> SUFFICES ASSUME NEW k \in 1..n, k - 1 \in folded PROVE Folds(k)
    BY <1>1
  <2>1. k - 1 \in Nat /\ (k - 1) + 1 = k
    OBVIOUS
  <2> QED
    BY <1>2, <2>1
<1> QED
  BY <1>3, StepByStep DEF Folds

\* The fold of the indexer over logs goes log by log.
LEMMA IndexedRun ==
  ASSUME NEW S, NEW s \in Seq(S), NEW base
  PROVE  \E run : /\ run[0] = base
                  /\ \A i \in 1..Len(s) : run[i] = Indexed(run[i - 1], s[i])
                  /\ FoldLeft(Indexed, base, s) = run[Len(s)]
<1> DEFINE n == Len(s)
           h == CHOOSE g : IsFold(g, Indexed, base, s, n)
           run == [i \in 0..n |-> h[1..i]]
<1>1. n \in Nat /\ DOMAIN s = 1..n
  OBVIOUS
<1>2. FoldLeft(Indexed, base, s) = h[1..n]
  BY <1>1 DEF FoldLeft, MapThenFoldSet, IsFold
<1>3. IsFold(h, Indexed, base, s, n)
  BY <1>1, IndexedFoldExists
<1> HIDE DEF h, n
<1>4. 1..0 = {} /\ h[1..0] = base
  BY <1>1, <1>3 DEF IsFold
<1>5. ASSUME NEW i \in 1..n PROVE run[i] = Indexed(run[i - 1], s[i])
  <2>1. i - 1 \in Nat /\ (i - 1) + 1 = i /\ i \in 0..n /\ i - 1 \in 0..n /\ 1..i \subseteq 1..n
    BY <1>1
  <2>2. Max(1..i) = i /\ (1..i) \ {Max(1..i)} = 1..(i - 1) /\ 1..i # {}
    BY <2>1, LargestOfFirst
  <2>3. h[1..i] = Indexed(h[(1..i) \ {Max(1..i)}], s[Max(1..i)])
    BY <1>3, <2>1, <2>2 DEF IsFold
  <2> QED
    BY <2>1, <2>2, <2>3
<1>6. run[0] = base /\ run[n] = h[1..n]
  BY <1>1, <1>4
<1> HIDE DEF run
<1> QED
  BY <1>2, <1>5, <1>6 DEF n
\* The effect of up to three logs that no handler throws at.
LEMMA EmitsNone ==
  ASSUME halted = FALSE, Emits(<<>>)
  PROVE  db' = db /\ halted' = FALSE
<1> DEFINE base == [db |-> db, halted |-> halted]
           logs == <<>>
           done == FoldLeft(Indexed, base, logs)
<1>1. logs \in Seq({}) /\ Len(logs) = 0
  OBVIOUS
<1>2. db' = done.db /\ halted' = done.halted
  BY DEF Emits
<1>3. base.halted = FALSE /\ base.db = db
  OBVIOUS
<1> HIDE DEF base, logs
<1>4. PICK run : /\ run[0] = base
                 /\ \A i \in 1..Len(logs) : run[i] = Indexed(run[i - 1], logs[i])
                 /\ done = run[Len(logs)]
  BY <1>1, IndexedRun
<1>5. done = base
  BY <1>1, <1>4
<1> HIDE DEF done
<1> QED
  BY <1>2, <1>3, <1>5

LEMMA EmitsOne ==
  ASSUME halted = FALSE, NEW e, Emits(<<e>>), ~Clashes(db, e)
  PROVE  db' = Handled(db, e) /\ halted' = FALSE
<1> DEFINE base == [db |-> db, halted |-> halted]
           logs == <<e>>
           done == FoldLeft(Indexed, base, logs)
<1>1. logs \in Seq({e}) /\ Len(logs) = 1 /\ logs[1] = e
  OBVIOUS
<1>2. db' = done.db /\ halted' = done.halted
  BY DEF Emits
<1>3. base.halted = FALSE /\ base.db = db
  OBVIOUS
<1> HIDE DEF base, logs
<1>4. PICK run : /\ run[0] = base
                 /\ \A i \in 1..Len(logs) : run[i] = Indexed(run[i - 1], logs[i])
                 /\ done = run[Len(logs)]
  BY <1>1, IndexedRun
<1>5. done = Indexed(base, e)
  BY <1>1, <1>4
<1>6. Indexed(base, e) = [db |-> Handled(db, e), halted |-> FALSE]
  BY <1>3 DEF Indexed
<1> HIDE DEF done
<1> QED
  BY <1>2, <1>5, <1>6

LEMMA EmitsTwo ==
  ASSUME halted = FALSE, NEW e, NEW f, Emits(<<e, f>>),
         ~Clashes(db, e), ~Clashes(Handled(db, e), f)
  PROVE  db' = Handled(Handled(db, e), f) /\ halted' = FALSE
<1> DEFINE base == [db |-> db, halted |-> halted]
           logs == <<e, f>>
           done == FoldLeft(Indexed, base, logs)
           next == [db |-> Handled(db, e), halted |-> FALSE]
<1>1. logs \in Seq({e, f}) /\ Len(logs) = 2 /\ logs[1] = e /\ logs[2] = f
  OBVIOUS
<1>2. db' = done.db /\ halted' = done.halted
  BY DEF Emits
<1>3. base.halted = FALSE /\ base.db = db /\ next.halted = FALSE /\ next.db = Handled(db, e)
  OBVIOUS
<1>4. Indexed(base, e) = next
  BY <1>3 DEF Indexed
<1> HIDE DEF base, logs, next
<1>5. Indexed(next, f) = [db |-> Handled(Handled(db, e), f), halted |-> FALSE]
  BY <1>3 DEF Indexed
<1>6. PICK run : /\ run[0] = base
                 /\ \A i \in 1..Len(logs) : run[i] = Indexed(run[i - 1], logs[i])
                 /\ done = run[Len(logs)]
  BY <1>1, IndexedRun
<1>7. run[1] = Indexed(run[0], e) /\ run[2] = Indexed(run[1], f) /\ done = run[2]
  BY <1>1, <1>6
<1> HIDE DEF done
<1> QED
  BY <1>2, <1>4, <1>5, <1>6, <1>7

LEMMA EmitsThree ==
  ASSUME halted = FALSE, NEW e, NEW f, NEW g, Emits(<<e, f, g>>),
         ~Clashes(db, e), ~Clashes(Handled(db, e), f), ~Clashes(Handled(Handled(db, e), f), g)
  PROVE  db' = Handled(Handled(Handled(db, e), f), g) /\ halted' = FALSE
<1> DEFINE base == [db |-> db, halted |-> halted]
           logs == <<e, f, g>>
           done == FoldLeft(Indexed, base, logs)
           next == [db |-> Handled(db, e), halted |-> FALSE]
           after == [db |-> Handled(Handled(db, e), f), halted |-> FALSE]
<1>1. logs \in Seq({e, f, g}) /\ Len(logs) = 3 /\ logs[1] = e /\ logs[2] = f /\ logs[3] = g
  OBVIOUS
<1>2. db' = done.db /\ halted' = done.halted
  BY DEF Emits
<1>3. /\ base.halted = FALSE /\ base.db = db /\ next.halted = FALSE /\ next.db = Handled(db, e)
      /\ after.halted = FALSE /\ after.db = Handled(Handled(db, e), f)
  OBVIOUS
<1>4. Indexed(base, e) = next
  BY <1>3 DEF Indexed
<1>5. Indexed(next, f) = after
  BY <1>3 DEF Indexed
<1> HIDE DEF base, logs, next, after
<1>6. Indexed(after, g) = [db |-> Handled(Handled(Handled(db, e), f), g), halted |-> FALSE]
  BY <1>3 DEF Indexed
<1>7. PICK run : /\ run[0] = base
                 /\ \A i \in 1..Len(logs) : run[i] = Indexed(run[i - 1], logs[i])
                 /\ done = run[Len(logs)]
  BY <1>1, IndexedRun
<1>8. /\ run[1] = Indexed(run[0], e) /\ run[2] = Indexed(run[1], f)
      /\ run[3] = Indexed(run[2], g) /\ done = run[3]
  BY <1>1, <1>7
<1> HIDE DEF done
<1> QED
  BY <1>2, <1>4, <1>5, <1>6, <1>7, <1>8

(***************************************************************************)
(* The tables and their handlers                                           *)
(***************************************************************************)

SeasonRows ==
    [winner: Tokens \cup {NoToken}, rolloverRoot: Trees, totalRolloverShares: Nat, totalPot: Nat,
     rolloverWinnerTokens: Nat, bonusReserve: Nat, finalized: BOOLEAN]

Fundings == [inserted: BOOLEAN, reserve: Nat, rootPosted: BOOLEAN]

\* What the indexer stores; what is in the tables of claims is said below.
IsTables(d) ==
    /\ d = [season |-> d.season, liquidation |-> d.liquidation, liquidated |-> d.liquidated,
            holderSnapshot |-> d.holderSnapshot, rolloverClaim |-> d.rolloverClaim,
            bonusFunding |-> d.bonusFunding, bonusClaim |-> d.bonusClaim,
            prizeFees |-> d.prizeFees, polFees |-> d.polFees]
    /\ d.season \in [Seasons -> SeasonRows]
    /\ d.bonusFunding \in [Seasons -> Fundings]
    /\ d.prizeFees \in [Seasons -> Nat]

\* The tables of n that T does not name are those of d.
SameBut(d, n, T) ==
    /\ "season" \in T \/ n.season = d.season
    /\ "liquidation" \in T \/ (n.liquidation = d.liquidation /\ n.liquidated = d.liquidated)
    /\ "holderSnapshot" \in T \/ n.holderSnapshot = d.holderSnapshot
    /\ "rolloverClaim" \in T \/ n.rolloverClaim = d.rolloverClaim
    /\ "bonusFunding" \in T \/ n.bonusFunding = d.bonusFunding
    /\ "bonusClaim" \in T \/ n.bonusClaim = d.bonusClaim
    /\ "fees" \in T \/ (n.prizeFees = d.prizeFees /\ n.polFees = d.polFees)

\* The row of season s replaced.
RowWritten(d, n, s, row) ==
    /\ IsTables(n) /\ SameBut(d, n, {"season"})
    /\ n.season[s] = row /\ \A z \in Seasons \ {s} : n.season[z] = d.season[z]

LEMMA RowWrites ==
  ASSUME NEW d, IsTables(d), NEW s \in Seasons, NEW row \in SeasonRows, NEW n,
         n = [d EXCEPT !.season[s] = row]
  PROVE  RowWritten(d, n, s, row)
<1> DEFINE v == [d.season EXCEPT ![s] = row]
<1>1. v \in [Seasons -> SeasonRows] /\ v[s] = row /\ \A z \in Seasons \ {s} : v[z] = d.season[z]
  BY DEF IsTables
<1>2. n = [d EXCEPT !.season = v]
  OBVIOUS
<1> HIDE DEF v
<1>3. IsTables(n) /\ n.season = v /\ SameBut(d, n, {"season"})
  BY <1>1, <1>2 DEF IsTables, SameBut
<1> QED
  BY <1>1, <1>3 DEF RowWritten

\* A row written on top of another.
LEMMA RowWritesOver ==
  ASSUME NEW d, NEW m, NEW n, NEW s \in Seasons, NEW row, NEW next,
         RowWritten(d, m, s, row), RowWritten(m, n, s, next)
  PROVE  RowWritten(d, n, s, next)
BY DEF RowWritten, SameBut

LEMMA WinnerSubmittedWrites ==
  ASSUME NEW d, IsTables(d), NEW s \in Seasons, NEW S \in Settlement, NEW ev, ev.season = s,
         ev.settlement = S, NEW n, n = WinnerSubmitted(d, ev)
  PROVE  \E row : /\ RowWritten(d, n, s, row)
                  /\ row.winner = S.winner /\ row.rolloverRoot = S.root
                  /\ row.totalRolloverShares = S.totalRolloverShares
<1> DEFINE row == d.season[s]
           r == [row EXCEPT !.winner = S.winner]
           q == [r EXCEPT !.rolloverRoot = S.root]
           p == [q EXCEPT !.totalRolloverShares = S.totalRolloverShares]
           j == [d EXCEPT !.season[s] = r]
           k == [j EXCEPT !.season[s] = q]
           l == [k EXCEPT !.season[s] = p]
<1>1. row \in SeasonRows
  BY DEF IsTables
<1>2. S.winner \in Tokens \cup {NoToken} /\ S.root \in Trees /\ S.totalRolloverShares \in Nat
  BY DEF Settlement
<1>3. r \in SeasonRows /\ r.winner = S.winner
  BY <1>1, <1>2 DEF SeasonRows
<1>4. RowWritten(d, j, s, r) /\ IsTables(j) /\ j.season[s] = r
  <2> HIDE DEF r
  <2>1. RowWritten(d, j, s, r)
    BY <1>3, RowWrites
  <2> QED
    BY <2>1 DEF RowWritten
<1>5. q \in SeasonRows /\ q.winner = S.winner /\ q.rolloverRoot = S.root
  <2> HIDE DEF r
  <2> QED
    BY <1>2, <1>3 DEF SeasonRows
<1>6. RowWritten(d, k, s, q) /\ IsTables(k) /\ k.season[s] = q
  <2> HIDE DEF j, q
  <2>1. RowWritten(j, k, s, q)
    BY <1>4, <1>5, RowWrites
  <2>2. RowWritten(d, k, s, q)
    BY <1>4, <2>1, RowWritesOver
  <2> QED
    BY <2>2 DEF RowWritten
<1>7. /\ p \in SeasonRows /\ p.winner = S.winner /\ p.rolloverRoot = S.root
      /\ p.totalRolloverShares = S.totalRolloverShares
  <2> HIDE DEF q
  <2> QED
    BY <1>2, <1>5 DEF SeasonRows
<1>8. RowWritten(d, l, s, p)
  <2> HIDE DEF k, p
  <2>1. RowWritten(k, l, s, p)
    BY <1>6, <1>7, RowWrites
  <2> QED
    BY <1>6, <2>1, RowWritesOver
<1>9. n = l
  <2>1. n = [d EXCEPT !.season[s].winner = S.winner, !.season[s].rolloverRoot = S.root,
                      !.season[s].totalRolloverShares = S.totalRolloverShares]
    BY DEF WinnerSubmitted
  <2>2. j = [d EXCEPT !.season[s].winner = S.winner]
    OBVIOUS
  <2>3. k = [j EXCEPT !.season[s].rolloverRoot = S.root]
    <3> HIDE DEF j, r
    <3> QED
      BY <1>4
  <2>4. l = [k EXCEPT !.season[s].totalRolloverShares = S.totalRolloverShares]
    <3> HIDE DEF k, q
    <3> QED
      BY <1>6
  <2> QED
    BY <2>1, <2>2, <2>3, <2>4, Zenon
<1> QED
  BY <1>7, <1>8, <1>9

LEMMA SnapshotWrites ==
  ASSUME NEW d, IsTables(d), NEW s, NEW trigger, NEW T, NEW n, n = Snapshot(d, s, trigger, T)
  PROVE  /\ IsTables(n) /\ SameBut(d, n, {"holderSnapshot"})
         /\ n.holderSnapshot = d.holderSnapshot \cup ({s} \X {trigger} \X T)
<1> DEFINE v == d.holderSnapshot \cup ({s} \X {trigger} \X T)
<1>1. n = [d EXCEPT !.holderSnapshot = v]
  BY DEF Snapshot
<1> HIDE DEF v
<1>2. IsTables(n) /\ n.holderSnapshot = v /\ SameBut(d, n, {"holderSnapshot"})
  BY <1>1 DEF IsTables, SameBut
<1> QED
  BY <1>2 DEF v

\* The row with the totals of Finalized.
Closed(row, next, S, residue) ==
    /\ next.winner = row.winner /\ next.rolloverRoot = row.rolloverRoot
    /\ next.totalRolloverShares = row.totalRolloverShares
    /\ next.totalPot = S.rolloverSpent + S.bonusFunded + S.polDeployedWeth + residue
    /\ next.rolloverWinnerTokens = S.rolloverWinnerTokens
    /\ next.bonusReserve = S.bonusFunded
    /\ next.finalized = TRUE

LEMMA FinalizedWrites ==
  ASSUME NEW d, IsTables(d), NEW s \in Seasons, NEW S \in Settlement, NEW residue \in Nat,
         NEW ev, ev.season = s, ev.settlement = S, ev.residue = residue,
         NEW n, n = Finalized(d, ev)
  PROVE  \E m, row :
           /\ RowWritten(d, m, s, row) /\ Closed(d.season[s], row, S, residue)
           /\ IsTables(n) /\ SameBut(m, n, {"holderSnapshot"})
           /\ n.holderSnapshot =
                 d.holderSnapshot \cup ({s} \X {"FINALIZE"} \X ({d.season[s].winner} \ {NoToken}))
<1> DEFINE pot == S.rolloverSpent + S.bonusFunded + S.polDeployedWeth + residue
           row == d.season[s]
           r == [row EXCEPT !.totalPot = pot]
           q == [r EXCEPT !.rolloverWinnerTokens = S.rolloverWinnerTokens]
           p == [q EXCEPT !.bonusReserve = S.bonusFunded]
           o == [p EXCEPT !.finalized = TRUE]
           i == [d EXCEPT !.season[s] = r]
           j == [i EXCEPT !.season[s] = q]
           k == [j EXCEPT !.season[s] = p]
           l == [k EXCEPT !.season[s] = o]
           Kept(x) == /\ x \in SeasonRows /\ x.winner = row.winner
                      /\ x.rolloverRoot = row.rolloverRoot
                      /\ x.totalRolloverShares = row.totalRolloverShares
<1>1. row \in SeasonRows /\ Kept(row)
  BY DEF IsTables
<1>2. pot \in Nat /\ S.rolloverWinnerTokens \in Nat /\ S.bonusFunded \in Nat
  BY DEF Settlement
<1> HIDE DEF pot
<1>3. Kept(r) /\ r.totalPot = pot
  BY <1>1, <1>2 DEF SeasonRows
<1>4. IsTables(i) /\ i.season[s] = r /\ RowWritten(d, i, s, r)
  <2> HIDE DEF r
  <2>1. RowWritten(d, i, s, r)
    BY <1>3, RowWrites
  <2> QED
    BY <2>1 DEF RowWritten
<1>5. Kept(q) /\ q.totalPot = pot /\ q.rolloverWinnerTokens = S.rolloverWinnerTokens
  <2> HIDE DEF r
  <2> QED
    BY <1>2, <1>3 DEF SeasonRows
<1>6. IsTables(j) /\ j.season[s] = q /\ RowWritten(d, j, s, q)
  <2> HIDE DEF i, q
  <2>1. RowWritten(i, j, s, q)
    BY <1>4, <1>5, RowWrites
  <2>2. RowWritten(d, j, s, q)
    BY <1>4, <2>1, RowWritesOver
  <2> QED
    BY <2>2 DEF RowWritten
<1>7. /\ Kept(p) /\ p.totalPot = pot /\ p.rolloverWinnerTokens = S.rolloverWinnerTokens
      /\ p.bonusReserve = S.bonusFunded
  <2> HIDE DEF q
  <2> QED
    BY <1>2, <1>5 DEF SeasonRows
<1>8. IsTables(k) /\ k.season[s] = p /\ RowWritten(d, k, s, p)
  <2> HIDE DEF j, p
  <2>1. RowWritten(j, k, s, p)
    BY <1>6, <1>7, RowWrites
  <2>2. RowWritten(d, k, s, p)
    BY <1>6, <2>1, RowWritesOver
  <2> QED
    BY <2>2 DEF RowWritten
<1>9. /\ Kept(o) /\ o.totalPot = pot /\ o.rolloverWinnerTokens = S.rolloverWinnerTokens
      /\ o.bonusReserve = S.bonusFunded /\ o.finalized = TRUE
  <2> HIDE DEF p
  <2> QED
    BY <1>2, <1>7 DEF SeasonRows
<1>10. IsTables(l) /\ RowWritten(d, l, s, o)
  <2> HIDE DEF k, o
  <2>1. RowWritten(k, l, s, o)
    BY <1>8, <1>9, RowWrites
  <2>2. RowWritten(d, l, s, o)
    BY <1>8, <2>1, RowWritesOver
  <2> QED
    BY <2>2 DEF RowWritten
<1>11. Closed(row, o, S, residue)
  <2> HIDE DEF o, row
  <2> QED
    BY <1>9 DEF Closed, pot
<1>12. n = Snapshot(l, s, "FINALIZE", {row.winner} \ {NoToken})
  <2>1. i = [d EXCEPT !.season[s].totalPot = pot]
    OBVIOUS
  <2>2. j = [i EXCEPT !.season[s].rolloverWinnerTokens = S.rolloverWinnerTokens]
    <3> HIDE DEF i, r
    <3> QED
      BY <1>4
  <2>3. k = [j EXCEPT !.season[s].bonusReserve = S.bonusFunded]
    <3> HIDE DEF j, q
    <3> QED
      BY <1>6
  <2>4. l = [k EXCEPT !.season[s].finalized = TRUE]
    <3> HIDE DEF k, p
    <3> QED
      BY <1>8
  <2> DEFINE u == [d EXCEPT !.season[s].totalPot = pot,
                            !.season[s].rolloverWinnerTokens = S.rolloverWinnerTokens,
                            !.season[s].bonusReserve = S.bonusFunded,
                            !.season[s].finalized = TRUE]
  <2>5. u = l
    BY <2>1, <2>2, <2>3, <2>4, Zenon
  <2>6. Finalized(d, ev) = Snapshot(u, s, "FINALIZE", {row.winner} \ {NoToken})
    BY DEF Finalized, pot
  <2> HIDE DEF u, l
  <2> QED
    BY <2>5, <2>6
<1> HIDE DEF l, o
<1>13. /\ IsTables(n) /\ SameBut(l, n, {"holderSnapshot"})
       /\ n.holderSnapshot =
             l.holderSnapshot \cup ({s} \X {"FINALIZE"} \X ({row.winner} \ {NoToken}))
  BY <1>10, <1>12, SnapshotWrites
<1>14. l.holderSnapshot = d.holderSnapshot
  BY <1>10 DEF RowWritten, SameBut
<1> QED
  BY <1>10, <1>11, <1>13, <1>14

(***************************************************************************)
(* The logs of a filter event                                              *)
(***************************************************************************)

LiquidatedLog(s, t) == [name |-> "Liquidated", season |-> s, token |-> t]
ProcessedLog(s) == [name |-> "FilterEventProcessed", season |-> s, first |-> liquidated[s] = {}]

\* Liquidated once for each loser, and FilterEventProcessed last.
LEMMA FilterLogsOK ==
  ASSUME NEW s, NEW losers, IsFiniteSet(losers), NEW logs, logs = FilterLogs(s, losers)
  PROVE  \E seq : /\ seq \in Seq(losers) /\ \A t \in losers : \E i \in 1..Len(seq) : seq[i] = t
                  /\ \A i, j \in 1..Len(seq) : seq[i] = seq[j] => i = j
                  /\ \E L : logs \in Seq(L)
                  /\ Len(logs) = Len(seq) + 1 /\ logs[Len(seq) + 1] = ProcessedLog(s)
                  /\ \A i \in 1..Len(seq) : logs[i] = LiquidatedLog(s, seq[i])
<1> DEFINE seq == SetToSeq(losers)
           n == Len(seq)
           p == [i \in 1..n |-> LiquidatedLog(s, seq[i])]
           L == {LiquidatedLog(s, t) : t \in losers} \cup {ProcessedLog(s)}
<1>1. /\ seq \in Seq(losers) /\ n = Cardinality(losers) /\ n \in Nat
      /\ \A t \in losers : \E i \in 1..n : seq[i] = t
      /\ \A i, j \in 1..n : seq[i] = seq[j] => i = j
  BY SetToSeqCovers
<1>2. logs = p \o <<ProcessedLog(s)>>
  BY <1>1 DEF FilterLogs, LiquidatedLog, ProcessedLog
<1> HIDE DEF seq, n
<1>3. \A i \in 1..n : seq[i] \in losers
  BY <1>1 DEF n
<1>4. p \in Seq(L) /\ Len(p) = n /\ \A i \in 1..n : p[i] = LiquidatedLog(s, seq[i])
  BY <1>1, <1>3
<1>5. ProcessedLog(s) \in L
  OBVIOUS
<1> HIDE DEF p, L
<1>6. /\ logs \in Seq(L) /\ Len(logs) = n + 1 /\ logs[n + 1] = ProcessedLog(s)
      /\ \A i \in 1..n : logs[i] = p[i]
  BY <1>1, <1>2, <1>4, <1>5
<1> QED
  BY <1>1, <1>4, <1>6 DEF n

\* The tables after the losers T of season s were handled.
LosersWritten(d, n, s, T) ==
    /\ IsTables(n) /\ SameBut(d, n, {"liquidation"})
    /\ n.liquidation = d.liquidation \cup ({s} \X T)
    /\ n.liquidated = d.liquidated \cup T

\* An indexer with the tables d that has not stopped.
Served(d) == [db |-> d, halted |-> FALSE]

LEMMA ServedOnce == \A d, ev : ~Clashes(d, ev) => Indexed(Served(d), ev) = Served(Handled(d, ev))
BY DEF Indexed, Served

LEMMA LiquidatedWrites ==
  ASSUME NEW d, NEW m, NEW s, NEW T, LosersWritten(d, m, s, T), NEW t,
         <<s, t>> \notin d.liquidation, t \notin T
  PROVE  \E n : /\ Indexed(Served(m), LiquidatedLog(s, t)) = Served(n)
                /\ LosersWritten(d, n, s, T \cup {t})
<1> DEFINE ev == LiquidatedLog(s, t)
           n == Handled(m, ev)
           v == m.liquidation \cup {<<s, t>>}
           w == m.liquidated \cup {t}
<1>1. ev.name = "Liquidated" /\ ev.season = s /\ ev.token = t
  BY DEF LiquidatedLog
<1> HIDE DEF ev
<1>2. IsTables(m) /\ <<s, t>> \notin m.liquidation
  BY DEF LosersWritten
<1>3. ~Clashes(m, ev)
  BY <1>1, <1>2 DEF Clashes
<1>4. n = LiquidatedHandler(m, ev)
  BY <1>1 DEF Handled
<1> DEFINE k == [m EXCEPT !.liquidation = v]
<1> HIDE DEF v, w
<1>5. k = [season |-> m.season, liquidation |-> v, liquidated |-> m.liquidated,
           holderSnapshot |-> m.holderSnapshot, rolloverClaim |-> m.rolloverClaim,
           bonusFunding |-> m.bonusFunding, bonusClaim |-> m.bonusClaim,
           prizeFees |-> m.prizeFees, polFees |-> m.polFees]
  BY <1>2 DEF IsTables
<1>6. n = [k EXCEPT !.liquidated = w]
  <2>1. n = [m EXCEPT !.liquidation = @ \cup {<<s, t>>}, !.liquidated = @ \cup {t}]
    BY <1>1, <1>4 DEF LiquidatedHandler
  <2>2. n = [k EXCEPT !.liquidated = k.liquidated \cup {t}]
    BY <2>1 DEF v
  <2>3. k.liquidated = m.liquidated
    BY <1>5
  <2> HIDE DEF k
  <2> QED
    BY <2>2, <2>3 DEF w
<1> HIDE DEF n, k
<1>7. n = [season |-> m.season, liquidation |-> v, liquidated |-> w,
           holderSnapshot |-> m.holderSnapshot, rolloverClaim |-> m.rolloverClaim,
           bonusFunding |-> m.bonusFunding, bonusClaim |-> m.bonusClaim,
           prizeFees |-> m.prizeFees, polFees |-> m.polFees]
  BY <1>5, <1>6
<1>8. /\ IsTables(n) /\ n.liquidation = v /\ n.liquidated = w
      /\ SameBut(m, n, {"liquidation"})
  BY <1>2, <1>7 DEF IsTables, SameBut
<1>9. {s} \X (T \cup {t}) = ({s} \X T) \cup {<<s, t>>}
  OBVIOUS
<1>10. LosersWritten(d, n, s, T \cup {t})
  BY <1>8, <1>9 DEF LosersWritten, SameBut, v, w
<1> QED
  BY <1>3, <1>10, ServedOnce DEF n, ev

\* All logs of a filter event handled, in any order that SetToSeq gives the losers.
LEMMA EmitsLosers ==
  ASSUME halted = FALSE, IsTables(db), NEW s, NEW losers, IsFiniteSet(losers),
         \A t \in losers : <<s, t>> \notin db.liquidation,
         (liquidated[s] = {}) => \A k \in db.holderSnapshot : ~(k[1] = s /\ k[2] = "CUT"),
         Emits(FilterLogs(s, losers))
  PROVE  /\ halted' = FALSE
         /\ \E m : /\ LosersWritten(db, m, s, losers)
                   /\ db' = FilterEventProcessed(m, ProcessedLog(s))
<1> DEFINE base == [db |-> db, halted |-> halted]
           logs == FilterLogs(s, losers)
           done == FoldLeft(Indexed, base, logs)
<1>2. db' = done.db /\ halted' = done.halted
  BY DEF Emits
<1>3. base = Served(db)
  BY DEF Served
<1>0. logs = FilterLogs(s, losers)
  OBVIOUS
<1> HIDE DEF base, logs
<1>1. PICK seq : /\ seq \in Seq(losers) /\ \A t \in losers : \E i \in 1..Len(seq) : seq[i] = t
                 /\ \A i, j \in 1..Len(seq) : seq[i] = seq[j] => i = j
                 /\ \E L : logs \in Seq(L)
                 /\ Len(logs) = Len(seq) + 1 /\ logs[Len(seq) + 1] = ProcessedLog(s)
                 /\ \A i \in 1..Len(seq) : logs[i] = LiquidatedLog(s, seq[i])
  BY <1>0, FilterLogsOK
<1> DEFINE n == Len(seq)
           T(i) == {seq[j] : j \in 1..i}
<1>4. n \in Nat /\ \A i \in 1..n : seq[i] \in losers
  BY <1>1
<1>5. PICK run : /\ run[0] = base
                 /\ \A i \in 1..Len(logs) : run[i] = Indexed(run[i - 1], logs[i])
                 /\ done = run[Len(logs)]
  <2>1. PICK L : logs \in Seq(L)
    BY <1>1
  <2> QED
    BY <2>1, IndexedRun
<1> DEFINE Good(i) == \E m : run[i] = Served(m) /\ LosersWritten(db, m, s, T(i))
           good == {i \in 0..n : Good(i)}
<1>6. Good(0)
  <2>1. T(0) = {} /\ {s} \X {} = {}
    OBVIOUS
  <2>2. LosersWritten(db, db, s, {})
    BY <2>1 DEF LosersWritten, SameBut
  <2> QED
    BY <1>3, <1>5, <2>1, <2>2
<1>7. ASSUME NEW i \in 1..n, Good(i - 1) PROVE Good(i)
  <2>1. PICK m : run[i - 1] = Served(m) /\ LosersWritten(db, m, s, T(i - 1))
    BY <1>7
  <2>2. T(i) = T(i - 1) \cup {seq[i]}
    <3>1. \A j \in 1..i : j = i \/ j \in 1..(i - 1)
      BY <1>4
    <3>2. i \in 1..i /\ 1..(i - 1) \subseteq 1..i
      BY <1>4
    <3> QED
      BY <3>1, <3>2
  <2>3. seq[i] \in losers /\ seq[i] \notin T(i - 1)
    <3>1. \A j \in 1..(i - 1) : j \in 1..n /\ j # i
      BY <1>4
    <3> QED
      BY <1>1, <1>4, <3>1
  <2>4. run[i] = Indexed(Served(m), LiquidatedLog(s, seq[i]))
    <3>1. i \in 1..Len(logs)
      BY <1>1, <1>4
    <3> QED
      BY <1>1, <1>5, <2>1, <3>1
  <2> HIDE DEF T
  <2>5. <<s, seq[i]>> \notin db.liquidation
    BY <2>3
  <2>6. PICK o : /\ Indexed(Served(m), LiquidatedLog(s, seq[i])) = Served(o)
                 /\ LosersWritten(db, o, s, T(i - 1) \cup {seq[i]})
    BY <2>1, <2>3, <2>5, LiquidatedWrites
  <2> QED
    BY <2>2, <2>4, <2>6
<1> HIDE DEF Good
<1>8. 0 \in good /\ \A i \in 1..n : i - 1 \in good => i \in good
  BY <1>4, <1>6, <1>7
<1>9. Good(n)
  BY <1>4, <1>8, StepByStep
<1>10. PICK m : run[n] = Served(m) /\ LosersWritten(db, m, s, losers)
  <2>1. T(n) = losers
    <3>1. T(n) \subseteq losers
      BY <1>4
    <3>2. \A t \in losers : \E i \in 1..Len(seq) : seq[i] = t
      BY <1>1
    <3>3. losers \subseteq T(n)
      BY <3>2
    <3> QED
      BY <3>1, <3>3
  <2> HIDE DEF T
  <2> QED
    BY <1>9, <2>1 DEF Good
<1> DEFINE ev == ProcessedLog(s)
<1>11. ev.name = "FilterEventProcessed" /\ ev.season = s /\ ev.first = (liquidated[s] = {})
  BY DEF ProcessedLog
<1>12. done = Indexed(Served(m), ev)
  <2>1. n + 1 \in 1..Len(logs) /\ (n + 1) - 1 = n /\ Len(logs) = n + 1
    BY <1>1, <1>4
  <2> QED
    BY <1>1, <1>5, <1>10, <2>1
<1> HIDE DEF ev, done
<1>13. ~Clashes(m, ev)
  <2>1. m.holderSnapshot = db.holderSnapshot
    BY <1>10 DEF LosersWritten, SameBut
  <2> QED
    BY <1>11, <2>1 DEF Clashes
<1>14. Handled(m, ev) = FilterEventProcessed(m, ev)
  BY <1>11 DEF Handled
<1>15. done = Served(FilterEventProcessed(m, ev))
  BY <1>12, <1>13, <1>14, ServedOnce
<1>16. db' = FilterEventProcessed(m, ev) /\ halted' = FALSE
  BY <1>2, <1>15 DEF Served
<1> QED
  BY <1>10, <1>16 DEF ev

(***************************************************************************)
(* The mirror of the settlement                                            *)
(***************************************************************************)

LiquidationsMirrored ==
    /\ db.liquidation = {k \in Seasons \X Tokens : k[2] \in liquidated[k[1]]}
    /\ db.liquidated = {t \in Tokens : \E s \in Seasons : t \in liquidated[s]}

\* The tokens that the first cut of season s left in the race.
CutSurvivors(s) ==
    IF firstLosers[s] = {} THEN {} ELSE SeasonTokens[s] \ (firstLosers[s] \cup ProtocolLaunched)

\* A season has had its first losers if it has any.
SnapshotsMirrored ==
    /\ db.holderSnapshot \subseteq Seasons \X {"CUT", "FINALIZE"} \X Tokens
    /\ \A s \in Seasons, t \in Tokens :
          /\ <<s, "CUT", t>> \in db.holderSnapshot <=> t \in CutSurvivors(s)
          /\ <<s, "FINALIZE", t>> \in db.holderSnapshot <=> t = settlement[s].winner
    /\ firstLosers \in [Seasons -> SUBSET Tokens]
    /\ \A s \in Seasons : firstLosers[s] = {} <=> liquidated[s] = {}

\* The row of a season with settlement S whose vault has spent all but gap of its fees.
RowTells(row, S, closed, gap) ==
    /\ row.winner = S.winner /\ row.rolloverRoot = S.root
    /\ row.totalRolloverShares = S.totalRolloverShares
    /\ row.rolloverWinnerTokens = S.rolloverWinnerTokens
    /\ row.finalized <=> closed
    /\ closed => row.totalPot - row.bonusReserve = S.rolloverSpent + S.polDeployedWeth + gap

RowsMirrored ==
    \A s \in Seasons :
        RowTells(db.season[s], settlement[s], phase[s] = Distributing, feesIn[s] - weth[s])

RowsOf(rows, s) == {row \in rows : row.season = s}

RolloversMirrored ==
    /\ IsFiniteSet(db.rolloverClaim) /\ \A row \in db.rolloverClaim : row.share \in Nat
    /\ \A s \in Seasons :
          /\ {row.user : row \in RowsOf(db.rolloverClaim, s)} = claimed[s]
          /\ Total([row \in RowsOf(db.rolloverClaim, s) |-> row.share]) = claimedShares[s]

BonusesMirrored ==
    /\ IsFiniteSet(db.bonusClaim) /\ \A row \in db.bonusClaim : row.amount \in Nat
    /\ \A s \in Seasons :
          /\ {row.user : row \in RowsOf(db.bonusClaim, s)} = {u \in Users : <<s, u>> \in bonus.claimed}
          /\ Total([row \in RowsOf(db.bonusClaim, s) |-> row.amount]) = bonus.bonuses[s].claimedTotal

FundingMirrored ==
    \A s \in Seasons : LET b == bonus.bonuses[s] IN
        db.bonusFunding[s] = [inserted |-> b.funded, reserve |-> b.reserve, rootPosted |-> b.finalized]

FeesMirrored == db.prizeFees = feesIn /\ db.polFees = polVault.weth

Mirrored ==
    /\ LiquidationsMirrored /\ SnapshotsMirrored /\ RowsMirrored /\ RolloversMirrored
    /\ BonusesMirrored /\ FundingMirrored /\ FeesMirrored

\* The indexer runs, and its tables tell what the contracts did.
Mirroring == halted = FALSE /\ IsTables(db) /\ Mirrored

\* The inductive invariant of the settlement with its mirror.
IndexInv == SettleInv /\ Mirroring

LEMMA MirrorTells == IndexInv => TablesMirrorSettlement
<1> SUFFICES ASSUME IndexInv PROVE TablesMirrorSettlement
  OBVIOUS
<1>1. SnapshotsAreOfSurvivors
  <2> SUFFICES ASSUME NEW s \in Seasons
               PROVE  /\ {k[3] : k \in {k \in db.holderSnapshot : k[1] = s /\ k[2] = "CUT"}}
                           = CutSurvivors(s)
                      /\ {k[3] : k \in {k \in db.holderSnapshot : k[1] = s /\ k[2] = "FINALIZE"}}
                           = {settlement[s].winner} \ {NoToken}
    BY DEF SnapshotsAreOfSurvivors, CutSurvivors
  <2>1. SnapshotsMirrored
    BY DEF IndexInv, Mirroring, Mirrored
  <2>2. \A k \in db.holderSnapshot : k[3] \in Tokens /\ k = <<k[1], k[2], k[3]>>
    BY <2>1 DEF SnapshotsMirrored
  <2>3. CutSurvivors(s) \subseteq Tokens
    BY VaultConstants DEF CutSurvivors
  <2>4. settlement[s].winner \in Tokens \cup {NoToken}
    BY DEF IndexInv, SettleInv, VaultInv, MoneyTypes, Settlement
  <2>5. {k[3] : k \in {k \in db.holderSnapshot : k[1] = s /\ k[2] = "CUT"}} = CutSurvivors(s)
    <3>1. ASSUME NEW t \in CutSurvivors(s)
          PROVE  \E k \in db.holderSnapshot : k[1] = s /\ k[2] = "CUT" /\ t = k[3]
      <4>1. <<s, "CUT", t>> \in db.holderSnapshot
        BY <2>1, <2>3 DEF SnapshotsMirrored
      <4> QED
        BY <4>1
    <3>2. ASSUME NEW k \in db.holderSnapshot, k[1] = s, k[2] = "CUT"
          PROVE  k[3] \in CutSurvivors(s)
      <4>1. <<s, "CUT", k[3]>> \in db.holderSnapshot /\ k[3] \in Tokens
        BY <2>2, <3>2
      <4> QED
        BY <2>1, <4>1 DEF SnapshotsMirrored
    <3> QED
      BY <3>1, <3>2
  <2>6. {k[3] : k \in {k \in db.holderSnapshot : k[1] = s /\ k[2] = "FINALIZE"}}
           = {settlement[s].winner} \ {NoToken}
    <3>1. ASSUME NEW t \in {settlement[s].winner} \ {NoToken}
          PROVE  \E k \in db.holderSnapshot : k[1] = s /\ k[2] = "FINALIZE" /\ t = k[3]
      <4>1. <<s, "FINALIZE", t>> \in db.holderSnapshot
        BY <2>1, <2>4 DEF SnapshotsMirrored
      <4> QED
        BY <4>1
    <3>2. ASSUME NEW k \in db.holderSnapshot, k[1] = s, k[2] = "FINALIZE"
          PROVE  k[3] = settlement[s].winner /\ k[3] # NoToken
      <4>1. <<s, "FINALIZE", k[3]>> \in db.holderSnapshot /\ k[3] \in Tokens
        BY <2>2, <3>2
      <4> QED
        BY <2>1, <4>1, SeasonConstants DEF SnapshotsMirrored
    <3> QED
      BY <3>1, <3>2
  <2> QED
    BY <2>5, <2>6
<1>2. SeasonRowsMatchVaults
  <2> SUFFICES ASSUME NEW s \in Seasons
               PROVE  LET row == db.season[s]
                          S == settlement[s] IN
                      /\ row.winner = S.winner /\ row.rolloverRoot = S.root
                      /\ row.totalRolloverShares = S.totalRolloverShares
                      /\ row.rolloverWinnerTokens = S.rolloverWinnerTokens
                      /\ row.finalized <=> phase[s] = Distributing
                      /\ row.finalized =>
                            row.totalPot - row.bonusReserve =
                                S.rolloverSpent + S.polDeployedWeth + feesIn[s] - weth[s]
                      /\ {t \in Tokens : <<s, t>> \in db.liquidation} = liquidated[s]
                      /\ liquidated[s] = db.liquidated \cap SeasonTokens[s]
    BY DEF SeasonRowsMatchVaults
  <2>1. /\ LiquidationsMirrored
        /\ RowTells(db.season[s], settlement[s], phase[s] = Distributing, feesIn[s] - weth[s])
        /\ db.season[s] \in SeasonRows
    BY DEF IndexInv, Mirroring, Mirrored, RowsMirrored, IsTables
  <2>2. /\ liquidated[s] \subseteq Tokens /\ settlement[s] \in Settlement
        /\ feesIn[s] \in Nat /\ weth[s] \in Nat
        /\ \A z \in Seasons : liquidated[z] \subseteq SeasonTokens[z]
    BY DEF IndexInv, SettleInv, VaultInv, MoneyTypes, LadderInv
  <2>3. {t \in Tokens : <<s, t>> \in db.liquidation} = liquidated[s]
    BY <2>1, <2>2 DEF LiquidationsMirrored
  <2>4. liquidated[s] = db.liquidated \cap SeasonTokens[s]
    <3>1. \A z \in Seasons : z # s => liquidated[z] \cap SeasonTokens[s] = {}
      BY <2>2, VaultConstants
    <3> QED
      BY <2>1, <2>2, <3>1 DEF LiquidationsMirrored
  <2>5. db.season[s].finalized =>
           db.season[s].totalPot - db.season[s].bonusReserve =
              settlement[s].rolloverSpent + settlement[s].polDeployedWeth + feesIn[s] - weth[s]
    <3> DEFINE a == settlement[s].rolloverSpent
               b == settlement[s].polDeployedWeth
    <3>1. a \in Nat /\ b \in Nat
      BY <2>2 DEF Settlement
    <3> HIDE DEF a, b
    <3>2. a + b + (feesIn[s] - weth[s]) = a + b + feesIn[s] - weth[s]
      BY <2>2, <3>1
    <3> QED
      BY <2>1, <3>2 DEF RowTells, a, b
  <2> QED
    BY <2>1, <2>3, <2>4, <2>5 DEF RowTells
<1>3. RowsAddUp
  BY DEF IndexInv, Mirroring, Mirrored, RowsAddUp, RolloversMirrored, BonusesMirrored, FundingMirrored,
         FeesMirrored, RowsOf
<1> QED
  BY <1>1, <1>2, <1>3 DEF IndexInv, Mirroring, TablesMirrorSettlement

(***************************************************************************)
(* Every transaction keeps the mirror                                      *)
(***************************************************************************)

\* What a transaction and its handlers leave alone stays mirrored.
LEMMA MirrorKept ==
  ASSUME Mirrored
  PROVE  /\ /\ db'.liquidation = db.liquidation /\ db'.liquidated = db.liquidated
            /\ UNCHANGED liquidated
            => LiquidationsMirrored'
         /\ /\ db'.holderSnapshot = db.holderSnapshot
            /\ UNCHANGED <<liquidated, settlement, firstLosers>>
            => SnapshotsMirrored'
         /\ /\ db'.season = db.season /\ UNCHANGED <<settlement, phase>>
            /\ \A s \in Seasons : feesIn'[s] - weth'[s] = feesIn[s] - weth[s]
            => RowsMirrored'
         /\ db'.rolloverClaim = db.rolloverClaim /\ UNCHANGED claimVars => RolloversMirrored'
         /\ /\ db'.bonusClaim = db.bonusClaim /\ bonus'.claimed = bonus.claimed
            /\ \A s \in Seasons : bonus'.bonuses[s].claimedTotal = bonus.bonuses[s].claimedTotal
            => BonusesMirrored'
         /\ db'.bonusFunding = db.bonusFunding /\ UNCHANGED bonus => FundingMirrored'
         /\ /\ db'.prizeFees = db.prizeFees /\ db'.polFees = db.polFees
            /\ UNCHANGED feesIn /\ polVault'.weth = polVault.weth
            => FeesMirrored'
<1>1. ASSUME db'.liquidation = db.liquidation, db'.liquidated = db.liquidated, UNCHANGED liquidated
      PROVE  LiquidationsMirrored'
  BY <1>1 DEF Mirrored, LiquidationsMirrored
<1>2. ASSUME db'.holderSnapshot = db.holderSnapshot, UNCHANGED <<liquidated, settlement, firstLosers>>
      PROVE  SnapshotsMirrored'
  BY <1>2 DEF Mirrored, SnapshotsMirrored, CutSurvivors
<1>3. ASSUME db'.season = db.season, UNCHANGED <<settlement, phase>>,
             \A s \in Seasons : feesIn'[s] - weth'[s] = feesIn[s] - weth[s]
      PROVE  RowsMirrored'
  BY <1>3 DEF Mirrored, RowsMirrored, RowTells
<1>4. ASSUME db'.rolloverClaim = db.rolloverClaim, UNCHANGED claimVars PROVE RolloversMirrored'
  BY <1>4 DEF Mirrored, RolloversMirrored, RowsOf, claimVars
<1>5. ASSUME db'.bonusClaim = db.bonusClaim, bonus'.claimed = bonus.claimed,
             \A s \in Seasons : bonus'.bonuses[s].claimedTotal = bonus.bonuses[s].claimedTotal
      PROVE  BonusesMirrored'
  BY <1>5 DEF Mirrored, BonusesMirrored, RowsOf
<1>6. ASSUME db'.bonusFunding = db.bonusFunding, UNCHANGED bonus PROVE FundingMirrored'
  BY <1>6 DEF Mirrored, FundingMirrored
<1>7. ASSUME db'.prizeFees = db.prizeFees, db'.polFees = db.polFees, UNCHANGED feesIn,
             polVault'.weth = polVault.weth
      PROVE  FeesMirrored'
  BY <1>7 DEF Mirrored, FeesMirrored
<1> QED
  BY <1>1, <1>2, <1>3, <1>4, <1>5, <1>6, <1>7

\* The sum of the column f of some rows.
Column(rows, f) == Total([r \in rows |-> f[r]])

LEMMA ColumnJoin ==
  ASSUME NEW B, IsFiniteSet(B), NEW A \in SUBSET B, NEW x \in B \ A, NEW v \in [B -> Nat]
  PROVE  Column(A \cup {x}, v) = Column(A, v) + v[x] /\ Column(A, v) \in Nat
<1> DEFINE f == [y \in A |-> v[y]]
           g == [y \in A \cup {x} |-> v[y]]
           F == [y \in B |-> IF y \in A THEN v[y] ELSE 0]
           G == [y \in B |-> IF y \in A \cup {x} THEN v[y] ELSE 0]
<1>1. F \in [B -> Nat] /\ G \in [B -> Nat] /\ F[x] = 0 /\ G[x] = v[x]
      /\ \A y \in B \ {x} : G[y] = F[y]
  OBVIOUS
<1>2. f \in [A -> Nat] /\ (\A y \in A : F[y] = f[y]) /\ \A y \in B \ A : F[y] = 0
  OBVIOUS
<1>3. /\ g \in [A \cup {x} -> Nat] /\ \A y \in A \cup {x} : G[y] = g[y]
      /\ \A y \in B \ (A \cup {x}) : G[y] = 0
  OBVIOUS
<1> HIDE DEF f, g, F, G
<1>4. Total(F) = Total(f) /\ Total(f) \in Nat
  BY <1>1, <1>2, TotalOver
<1>5. Total(G) = Total(g) /\ Total(g) \in Nat
  <2>1. A \cup {x} \in SUBSET B
    OBVIOUS
  <2> QED
    BY <1>1, <1>3, <2>1, TotalOver
<1>6. Total(G) + F[x] = Total(F) + G[x]
  BY <1>1, TotalUpdate
<1>7. Total(g) = Total(f) + v[x]
  BY <1>1, <1>4, <1>5, <1>6
<1> QED
  BY <1>4, <1>7 DEF f, g, Column

\* A new row of a season, in the sum of a column.
LEMMA RowJoins ==
  ASSUME NEW rows, IsFiniteSet(rows), NEW row, row \notin rows, NEW v \in [rows \cup {row} -> Nat]
  PROVE  LET A == RowsOf(rows, row.season) IN
         /\ RowsOf(rows \cup {row}, row.season) = A \cup {row}
         /\ \A z : z # row.season => RowsOf(rows \cup {row}, z) = RowsOf(rows, z)
         /\ Column(A \cup {row}, v) = Column(A, v) + v[row] /\ Column(A, v) \in Nat
<1> DEFINE A == RowsOf(rows, row.season)
           B == rows \cup {row}
<1>1. IsFiniteSet(B)
  BY FS_AddElement
<1>2. RowsOf(B, row.season) = A \cup {row} /\ \A z : z # row.season => RowsOf(B, z) = RowsOf(rows, z)
  BY DEF RowsOf
<1>3. A \in SUBSET B /\ row \in B \ A /\ v \in [B -> Nat]
  BY DEF RowsOf
<1> HIDE DEF A, B
<1>4. Column(A \cup {row}, v) = Column(A, v) + v[row] /\ Column(A, v) \in Nat
  BY <1>1, <1>3, ColumnJoin
<1> QED
  BY <1>2, <1>4 DEF A, B

LEMMA InitIndex == IndexInit => IndexInv
<1> SUFFICES ASSUME IndexInit PROVE IndexInv
  OBVIOUS
<1>1. SettleInv
  BY InitSettle DEF IndexInit
<1>2. /\ db = EmptyTables /\ halted = FALSE /\ firstLosers = [s \in Seasons |-> {}] /\ Init
  BY DEF IndexInit
<1>3. /\ db.season = [s \in Seasons |-> SeasonRow] /\ db.liquidation = {} /\ db.liquidated = {}
      /\ db.holderSnapshot = {} /\ db.rolloverClaim = {} /\ db.bonusClaim = {}
      /\ db.bonusFunding = [s \in Seasons |-> NoFunding]
      /\ db.prizeFees = [s \in Seasons |-> 0] /\ db.polFees = 0
  BY <1>2 DEF EmptyTables
<1>4. IsTables(db)
  <2>1. SeasonRow \in SeasonRows
    <3>1. NoTree \in Trees
      BY DEF NoTree, Trees
    <3> QED
      BY <3>1 DEF SeasonRow, SeasonRows
  <2>2. NoFunding \in Fundings
    BY DEF NoFunding, Fundings
  <2> HIDE DEF SeasonRow, NoFunding
  <2> QED
    BY <1>2, <2>1, <2>2 DEF EmptyTables, IsTables
<1>5. LiquidationsMirrored /\ FeesMirrored
  BY <1>2, <1>3 DEF Init, LiquidationsMirrored, FeesMirrored
<1>6. SnapshotsMirrored
  BY <1>2, <1>3, SeasonConstants DEF Init, SnapshotsMirrored, CutSurvivors, Unsettled
<1>7. RowsMirrored
  BY <1>2, <1>3 DEF Init, RowsMirrored, RowTells, Unsettled, SeasonRow, Active, Distributing
<1>8. \A s : RowsOf({}, s) = {}
  BY DEF RowsOf
<1>9. RolloversMirrored
  <2>1. Total([row \in {} |-> row.share]) = 0
    <3>1. [row \in {} |-> row.share] \in [{} -> Nat]
      OBVIOUS
    <3> QED
      BY <3>1, TotalZero
  <2> QED
    BY <1>2, <1>3, <1>8, <2>1, FS_EmptySet DEF Init, RolloversMirrored
<1>10. BonusesMirrored /\ FundingMirrored
  <2>1. Total([row \in {} |-> row.amount]) = 0
    <3>1. [row \in {} |-> row.amount] \in [{} -> Nat]
      OBVIOUS
    <3> QED
      BY <3>1, TotalZero
  <2>2. bonus.claimed = {} /\ \A s \in Seasons : bonus.bonuses[s] = NoBonus
    BY <1>2 DEF Init, EmptyBonus
  <2>3. \A s \in Seasons : /\ bonus.bonuses[s].claimedTotal = 0
                          /\ {u \in Users : <<s, u>> \in bonus.claimed} = {}
    BY <2>2 DEF NoBonus
  <2>4. \A s \in Seasons : {row.user : row \in RowsOf(db.bonusClaim, s)} = {}
    BY <1>3, <1>8
  <2>5. BonusesMirrored
    BY <1>3, <1>8, <2>1, <2>3, <2>4, FS_EmptySet DEF BonusesMirrored
  <2>6. FundingMirrored
    <3>1. \A s \in Seasons : db.bonusFunding[s] = NoFunding
      BY <1>3
    <3>2. \A s \in Seasons : /\ bonus.bonuses[s].funded = FALSE
                            /\ bonus.bonuses[s].reserve = 0
                            /\ bonus.bonuses[s].finalized = FALSE
      BY <2>2 DEF NoBonus
    <3> QED
      BY <3>1, <3>2 DEF FundingMirrored, NoFunding
  <2> QED
    BY <2>5, <2>6
<1> QED
  BY <1>1, <1>2, <1>4, <1>5, <1>6, <1>7, <1>9, <1>10 DEF IndexInv, Mirroring, Mirrored

\* One table replaced.
LEMMA TableWrites ==
  ASSUME NEW d, IsTables(d), NEW v, NEW n
  PROVE  /\ n = [d EXCEPT !.rolloverClaim = v]
            => IsTables(n) /\ n.rolloverClaim = v /\ SameBut(d, n, {"rolloverClaim"})
         /\ n = [d EXCEPT !.bonusClaim = v]
            => IsTables(n) /\ n.bonusClaim = v /\ SameBut(d, n, {"bonusClaim"})
         /\ n = [d EXCEPT !.bonusFunding = v] /\ v \in [Seasons -> Fundings]
            => IsTables(n) /\ n.bonusFunding = v /\ SameBut(d, n, {"bonusFunding"})
         /\ n = [d EXCEPT !.prizeFees = v] /\ v \in [Seasons -> Nat]
            => /\ IsTables(n) /\ n.prizeFees = v /\ n.polFees = d.polFees
               /\ SameBut(d, n, {"fees"})
         /\ n = [d EXCEPT !.polFees = v]
            => /\ IsTables(n) /\ n.polFees = v /\ n.prizeFees = d.prizeFees
               /\ SameBut(d, n, {"fees"})
<1>1. ASSUME n = [d EXCEPT !.rolloverClaim = v]
      PROVE  IsTables(n) /\ n.rolloverClaim = v /\ SameBut(d, n, {"rolloverClaim"})
  BY <1>1 DEF IsTables, SameBut
<1>2. ASSUME n = [d EXCEPT !.bonusClaim = v]
      PROVE  IsTables(n) /\ n.bonusClaim = v /\ SameBut(d, n, {"bonusClaim"})
  BY <1>2 DEF IsTables, SameBut
<1>3. ASSUME n = [d EXCEPT !.bonusFunding = v], v \in [Seasons -> Fundings]
      PROVE  IsTables(n) /\ n.bonusFunding = v /\ SameBut(d, n, {"bonusFunding"})
  BY <1>3 DEF IsTables, SameBut
<1>4. ASSUME n = [d EXCEPT !.prizeFees = v], v \in [Seasons -> Nat]
      PROVE  IsTables(n) /\ n.prizeFees = v /\ n.polFees = d.polFees /\ SameBut(d, n, {"fees"})
  BY <1>4 DEF IsTables, SameBut
<1>5. ASSUME n = [d EXCEPT !.polFees = v]
      PROVE  IsTables(n) /\ n.polFees = v /\ n.prizeFees = d.prizeFees /\ SameBut(d, n, {"fees"})
  BY <1>5 DEF IsTables, SameBut
<1> QED
  BY <1>1, <1>2, <1>3, <1>4, <1>5

RolloverLog(s, u) ==
    [name |-> "RolloverClaimed", season |-> s, user |-> u,
     share |-> settlement[s].root.amountOf[u], winnerTokens |-> RolloverAmount(s, u)]

LEMMA ClaimRolloverMirrors ==
  ASSUME IndexInv, NEW s \in Seasons, NEW u \in Users, ClaimRollover(s, u),
         Emits(<<RolloverLog(s, u)>>), UNCHANGED firstLosers
  PROVE  Mirroring'
<1> DEFINE ev == RolloverLog(s, u)
           a == settlement[s].root.amountOf[u]
           row == [season |-> s, user |-> u, share |-> a, winnerTokens |-> RolloverAmount(s, u)]
           rows == db.rolloverClaim
<1>1. /\ ev.name = "RolloverClaimed" /\ ev.season = s /\ ev.user = u /\ ev.share = a
      /\ ev.winnerTokens = RolloverAmount(s, u)
  BY DEF RolloverLog
<1>2. /\ u \notin claimed[s]
      /\ claimed' = [claimed EXCEPT ![s] = @ \cup {u}]
      /\ claimedShares' = [claimedShares EXCEPT ![s] = @ + a]
      /\ UNCHANGED <<phase, liquidated, settlement, weth, polVault, feesIn, bonus>>
  BY DEF ClaimRollover, CanClaimRollover, vaultVars, historyVars
<1>3. /\ halted = FALSE /\ IsTables(db) /\ Mirrored /\ a \in Nat
      /\ claimed \in [Seasons -> SUBSET Users] /\ claimedShares \in [Seasons -> Nat]
  BY DEF IndexInv, Mirroring, SettleInv, VaultInv, MoneyTypes, ClaimsInv, Settlement, Trees
<1>4. /\ row.season = s /\ row.user = u /\ row.share = a
  OBVIOUS
<1> HIDE DEF ev, row, a
<1>5. /\ IsFiniteSet(rows) /\ \A r \in rows : r.share \in Nat
      /\ \A z \in Seasons : /\ {r.user : r \in RowsOf(rows, z)} = claimed[z]
                            /\ Total([r \in RowsOf(rows, z) |-> r.share]) = claimedShares[z]
  BY <1>3 DEF Mirrored, RolloversMirrored
<1>6. \A r \in rows : ~(r.season = s /\ r.user = u)
  BY <1>2, <1>5 DEF RowsOf
<1>7. ~Clashes(db, ev)
  BY <1>1, <1>6 DEF Clashes
<1>8. db' = Handled(db, ev) /\ halted' = FALSE
  BY <1>3, <1>7, EmitsOne DEF ev
<1>9. Handled(db, ev) = RolloverClaimed(db, ev)
  BY <1>1 DEF Handled
<1> DEFINE v == rows \cup {row}
<1>10. db' = [db EXCEPT !.rolloverClaim = v]
  BY <1>1, <1>8, <1>9 DEF RolloverClaimed, row
<1> HIDE DEF v
<1>11. IsTables(db') /\ db'.rolloverClaim = v /\ SameBut(db, db', {"rolloverClaim"})
  BY <1>3, <1>10, TableWrites
<1>12. RolloversMirrored'
  <2> DEFINE f == [r \in v |-> r.share]
  <2>1. f \in [v -> Nat] /\ f[row] = a /\ \A r \in v : f[r] = r.share
    BY <1>3, <1>4, <1>5 DEF v
  <2>2. IsFiniteSet(rows) /\ row \notin rows /\ v = rows \cup {row} /\ f \in [v -> Nat]
    BY <1>4, <1>5, <1>6, <2>1 DEF v
  <2> HIDE DEF f, rows
  <2>3. /\ RowsOf(v, s) = RowsOf(rows, s) \cup {row}
        /\ \A z : z # s => RowsOf(v, z) = RowsOf(rows, z)
        /\ Column(RowsOf(v, s), f) = Column(RowsOf(rows, s), f) + f[row]
        /\ Column(RowsOf(rows, s), f) \in Nat
    <3>1. f \in [rows \cup {row} -> Nat]
      BY <2>2
    <3>2. /\ RowsOf(rows \cup {row}, row.season) = RowsOf(rows, row.season) \cup {row}
          /\ \A z : z # row.season => RowsOf(rows \cup {row}, z) = RowsOf(rows, z)
          /\ Column(RowsOf(rows, row.season) \cup {row}, f)
                = Column(RowsOf(rows, row.season), f) + f[row]
          /\ Column(RowsOf(rows, row.season), f) \in Nat
      BY <2>2, <3>1, RowJoins
    <3> QED
      BY <1>4, <2>2, <3>2
  <2>4. RowsOf(v, s) \subseteq v /\ RowsOf(rows, s) \subseteq v
    BY DEF RowsOf, v
  <2>5. /\ Column(RowsOf(v, s), f) = Total([r \in RowsOf(v, s) |-> r.share])
        /\ Column(RowsOf(rows, s), f) = Total([r \in RowsOf(rows, s) |-> r.share])
    <3>1. /\ [r \in RowsOf(v, s) |-> f[r]] = [r \in RowsOf(v, s) |-> r.share]
          /\ [r \in RowsOf(rows, s) |-> f[r]] = [r \in RowsOf(rows, s) |-> r.share]
      BY <2>1, <2>4
    <3> QED
      BY <3>1 DEF Column
  <2>6. Total([r \in RowsOf(v, s) |-> r.share]) = claimedShares'[s]
    BY <1>2, <1>3, <1>5, <2>1, <2>3, <2>5
  <2>7. {r.user : r \in RowsOf(v, s)} = claimed'[s]
    <3>1. {r.user : r \in RowsOf(v, s)} = {r.user : r \in RowsOf(rows, s)} \cup {u}
      BY <1>4, <2>3
    <3> QED
      BY <1>2, <1>3, <1>5, <3>1
  <2>8. IsFiniteSet(v) /\ \A r \in v : r.share \in Nat
    BY <1>3, <1>4, <1>5, FS_AddElement DEF v
  <2>9. \A z \in Seasons : z # s => /\ {r.user : r \in RowsOf(v, z)} = claimed'[z]
                                    /\ Total([r \in RowsOf(v, z) |-> r.share]) = claimedShares'[z]
    BY <1>2, <1>3, <1>5, <2>3
  <2> QED
    BY <1>11, <2>6, <2>7, <2>8, <2>9 DEF RolloversMirrored
<1>13. Mirrored'
  BY <1>2, <1>3, <1>11, <1>12, MirrorKept DEF Mirrored, SameBut
<1> QED
  BY <1>8, <1>11, <1>13 DEF Mirroring

BonusLog(s, u) ==
    [name |-> "BonusClaimed", season |-> s, user |-> u,
     amount |-> bonus.bonuses[s].root.amountOf[u]]

\* What the funding tables show of a season's bonus.
SameFunding(b, n) == b.funded = n.funded /\ b.reserve = n.reserve /\ b.finalized = n.finalized

LEMMA FundingKept ==
  ASSUME FundingMirrored, db'.bonusFunding = db.bonusFunding,
         \A s \in Seasons : SameFunding(bonus.bonuses[s], bonus'.bonuses[s])
  PROVE  FundingMirrored'
BY DEF FundingMirrored, SameFunding

LEMMA ClaimBonusMirrors ==
  ASSUME IndexInv, NEW s \in Seasons, NEW u \in Users, ClaimBonus(s, u),
         Emits(<<BonusLog(s, u)>>), UNCHANGED firstLosers
  PROVE  Mirroring'
<1> DEFINE ev == BonusLog(s, u)
           a == bonus.bonuses[s].root.amountOf[u]
           row == [season |-> s, user |-> u, amount |-> a]
           rows == db.bonusClaim
<1>1. /\ ev.name = "BonusClaimed" /\ ev.season = s /\ ev.user = u /\ ev.amount = a
  BY DEF BonusLog
<1>2. /\ <<s, u>> \notin bonus.claimed /\ a <= bonus.balance /\ bonus' = BonusClaimed(bonus, s, u)
      /\ UNCHANGED <<phase, liquidated, settlement, weth, polVault, feesIn, claimVars>>
  BY DEF ClaimBonus, CanClaimBonus, vaultVars, historyVars
<1>3. /\ halted = FALSE /\ IsTables(db) /\ Mirrored /\ a \in Nat /\ bonus \in BonusState
      /\ \A z \in Seasons : bonus.bonuses[z] \in SeasonBonus
  BY DEF IndexInv, Mirroring, SettleInv, BonusInv, BonusOK, BonusState, SeasonBonus, Trees
<1>4. /\ row.season = s /\ row.user = u /\ row.amount = a
  OBVIOUS
<1>5. /\ bonus'.bonuses[s] = WithPaid(bonus.bonuses[s], a)
      /\ \A z \in Seasons \ {s} : bonus'.bonuses[z] = bonus.bonuses[z]
      /\ bonus'.claimed = bonus.claimed \cup {<<s, u>>}
  BY <1>2, <1>3, ClaimedWrites
<1> HIDE DEF ev, row, a
<1>6. /\ bonus'.bonuses[s].claimedTotal = bonus.bonuses[s].claimedTotal + a
      /\ \A z \in Seasons : SameFunding(bonus.bonuses[z], bonus'.bonuses[z])
  BY <1>3, <1>5, PaidFields DEF SameFunding
<1>7. /\ IsFiniteSet(rows) /\ \A r \in rows : r.amount \in Nat
      /\ \A z \in Seasons :
            /\ {r.user : r \in RowsOf(rows, z)} = {x \in Users : <<z, x>> \in bonus.claimed}
            /\ Total([r \in RowsOf(rows, z) |-> r.amount]) = bonus.bonuses[z].claimedTotal
  BY <1>3 DEF Mirrored, BonusesMirrored
<1>8. \A r \in rows : ~(r.season = s /\ r.user = u)
  BY <1>2, <1>7 DEF RowsOf
<1>9. ~Clashes(db, ev)
  BY <1>1, <1>8 DEF Clashes
<1>10. db' = Handled(db, ev) /\ halted' = FALSE
  BY <1>3, <1>9, EmitsOne DEF ev
<1>11. Handled(db, ev) = BonusClaimedHandler(db, ev)
  BY <1>1 DEF Handled
<1> DEFINE v == rows \cup {row}
<1>12. db' = [db EXCEPT !.bonusClaim = v]
  BY <1>1, <1>10, <1>11 DEF BonusClaimedHandler, row
<1> HIDE DEF v
<1>13. IsTables(db') /\ db'.bonusClaim = v /\ SameBut(db, db', {"bonusClaim"})
  BY <1>3, <1>12, TableWrites
<1>14. BonusesMirrored'
  <2> DEFINE f == [r \in v |-> r.amount]
  <2>1. f \in [v -> Nat] /\ f[row] = a /\ \A r \in v : f[r] = r.amount
    BY <1>3, <1>4, <1>7 DEF v
  <2>2. IsFiniteSet(rows) /\ row \notin rows /\ v = rows \cup {row} /\ f \in [v -> Nat]
    BY <1>4, <1>7, <1>8, <2>1 DEF v
  <2> HIDE DEF f, rows
  <2>3. /\ RowsOf(v, s) = RowsOf(rows, s) \cup {row}
        /\ \A z : z # s => RowsOf(v, z) = RowsOf(rows, z)
        /\ Column(RowsOf(v, s), f) = Column(RowsOf(rows, s), f) + f[row]
        /\ Column(RowsOf(rows, s), f) \in Nat
    <3>1. f \in [rows \cup {row} -> Nat]
      BY <2>2
    <3>2. /\ RowsOf(rows \cup {row}, row.season) = RowsOf(rows, row.season) \cup {row}
          /\ \A z : z # row.season => RowsOf(rows \cup {row}, z) = RowsOf(rows, z)
          /\ Column(RowsOf(rows, row.season) \cup {row}, f)
                = Column(RowsOf(rows, row.season), f) + f[row]
          /\ Column(RowsOf(rows, row.season), f) \in Nat
      BY <2>2, <3>1, RowJoins
    <3> QED
      BY <1>4, <2>2, <3>2
  <2>4. RowsOf(v, s) \subseteq v /\ RowsOf(rows, s) \subseteq v
    BY DEF RowsOf, v
  <2>5. /\ Column(RowsOf(v, s), f) = Total([r \in RowsOf(v, s) |-> r.amount])
        /\ Column(RowsOf(rows, s), f) = Total([r \in RowsOf(rows, s) |-> r.amount])
    <3>1. /\ [r \in RowsOf(v, s) |-> f[r]] = [r \in RowsOf(v, s) |-> r.amount]
          /\ [r \in RowsOf(rows, s) |-> f[r]] = [r \in RowsOf(rows, s) |-> r.amount]
      BY <2>1, <2>4
    <3> QED
      BY <3>1 DEF Column
  <2>6. Total([r \in RowsOf(v, s) |-> r.amount]) = bonus'.bonuses[s].claimedTotal
    BY <1>6, <1>7, <2>1, <2>3, <2>5
  <2>7. {r.user : r \in RowsOf(v, s)} = {x \in Users : <<s, x>> \in bonus'.claimed}
    <3>1. {r.user : r \in RowsOf(v, s)} = {r.user : r \in RowsOf(rows, s)} \cup {u}
      BY <1>4, <2>3
    <3>2. {x \in Users : <<s, x>> \in bonus'.claimed}
             = {x \in Users : <<s, x>> \in bonus.claimed} \cup {u}
      BY <1>5
    <3> QED
      BY <1>7, <3>1, <3>2
  <2>8. IsFiniteSet(v) /\ \A r \in v : r.amount \in Nat
    BY <1>3, <1>4, <1>7, FS_AddElement DEF v
  <2>9. ASSUME NEW z \in Seasons, z # s
        PROVE  /\ {r.user : r \in RowsOf(v, z)} = {x \in Users : <<z, x>> \in bonus'.claimed}
               /\ Total([r \in RowsOf(v, z) |-> r.amount]) = bonus'.bonuses[z].claimedTotal
    <3>1. RowsOf(v, z) = RowsOf(rows, z) /\ bonus'.bonuses[z] = bonus.bonuses[z]
      BY <1>5, <2>3, <2>9
    <3>2. {x \in Users : <<z, x>> \in bonus'.claimed} = {x \in Users : <<z, x>> \in bonus.claimed}
      BY <1>5, <2>9
    <3> QED
      BY <1>7, <3>1, <3>2
  <2> QED
    BY <1>13, <2>6, <2>7, <2>8, <2>9 DEF BonusesMirrored
<1>15. FundingMirrored'
  BY <1>3, <1>6, <1>13, FundingKept DEF Mirrored, SameBut
<1>16. Mirrored'
  BY <1>2, <1>3, <1>13, <1>14, <1>15, MirrorKept DEF Mirrored, SameBut
<1> QED
  BY <1>10, <1>13, <1>16 DEF Mirroring

LEMMA FundingMarked ==
  ASSUME NEW f \in Fundings, NEW g, g = [f EXCEPT !.rootPosted = TRUE]
  PROVE  /\ g \in Fundings
         /\ g = [inserted |-> f.inserted, reserve |-> f.reserve, rootPosted |-> TRUE]
BY DEF Fundings

\* postRoot marks the season's funding.
LEMMA PostRootMirrors ==
  ASSUME IndexInv, NEW s \in Seasons, NEW eligible \in SUBSET claimed[s], PostRoot(s, eligible),
         NEW ev, ev.name = "BonusRootPosted", ev.season = s, Emits(<<ev>>), UNCHANGED firstLosers
  PROVE  Mirroring'
<1> DEFINE f == db.bonusFunding[s]
           g == [f EXCEPT !.rootPosted = TRUE]
           v == [db.bonusFunding EXCEPT ![s] = g]
<1>1. PICK tree \in Trees : bonus' = RootPosted(bonus, s, tree)
  <2> DEFINE rolled == [x \in Users |-> RolloverAmount(s, x)]
             r == bonus.bonuses[s].reserve
             tree == BonusTree(eligible, rolled, r)
  <2>1. /\ eligible # {} /\ (\A x \in eligible : RolloverAmount(s, x) > 0)
        /\ posts[s] < MaxPosts /\ CanPostRoot(bonus, s)
        /\ bonus' = RootPosted(bonus, s, tree)
    BY DEF PostRoot
  <2>2. tree \in Trees
    BY <2>1, PostedTree DEF IndexInv, SettleInv
  <2> QED
    BY <2>1, <2>2
<1>2. UNCHANGED <<phase, liquidated, settlement, weth, polVault, feesIn, claimVars>>
  BY DEF PostRoot, vaultVars
<1>3. /\ halted = FALSE /\ IsTables(db) /\ Mirrored /\ bonus \in BonusState
      /\ \A z \in Seasons : bonus.bonuses[z] \in SeasonBonus
  BY DEF IndexInv, Mirroring, SettleInv, BonusInv, BonusOK, BonusState
<1>4. /\ bonus'.bonuses[s] = WithRoot(bonus.bonuses[s], tree)
      /\ \A z \in Seasons \ {s} : bonus'.bonuses[z] = bonus.bonuses[z]
      /\ bonus'.claimed = bonus.claimed
  BY <1>1, <1>3, PostedWrites
<1>5. /\ bonus'.bonuses[s].funded = bonus.bonuses[s].funded
      /\ bonus'.bonuses[s].reserve = bonus.bonuses[s].reserve
      /\ bonus'.bonuses[s].finalized = TRUE
      /\ \A z \in Seasons : bonus'.bonuses[z].claimedTotal = bonus.bonuses[z].claimedTotal
  <2> DEFINE x == bonus.bonuses[s]
             y == WithRoot(x, tree)
  <2>1. x \in SeasonBonus
    BY <1>3
  <2> HIDE DEF x
  <2>2. /\ y.funded = x.funded /\ y.reserve = x.reserve /\ y.finalized = TRUE
        /\ y.claimedTotal = x.claimedTotal
    BY <2>1, PostedFields
  <2> HIDE DEF y
  <2>3. bonus'.bonuses[s] = y
    BY <1>4 DEF x, y
  <2> QED
    BY <1>4, <2>2, <2>3 DEF x
<1>6. f = [inserted |-> bonus.bonuses[s].funded, reserve |-> bonus.bonuses[s].reserve,
           rootPosted |-> bonus.bonuses[s].finalized]
  BY <1>3 DEF Mirrored, FundingMirrored
<1>7. f \in Fundings
  BY <1>3 DEF IsTables
<1>8. g \in Fundings /\ g = [inserted |-> bonus.bonuses[s].funded,
                             reserve |-> bonus.bonuses[s].reserve, rootPosted |-> TRUE]
  <2>1. f.inserted = bonus.bonuses[s].funded /\ f.reserve = bonus.bonuses[s].reserve
    BY <1>6
  <2>2. g = [f EXCEPT !.rootPosted = TRUE]
    OBVIOUS
  <2> HIDE DEF f, g
  <2>3. /\ g \in Fundings
        /\ g = [inserted |-> f.inserted, reserve |-> f.reserve, rootPosted |-> TRUE]
    BY <1>7, <2>2, FundingMarked
  <2> QED
    BY <2>1, <2>3
<1>9. ~Clashes(db, ev)
  BY DEF Clashes
<1>10. db' = Handled(db, ev) /\ halted' = FALSE
  BY <1>3, <1>9, EmitsOne
<1>11. db' = [db EXCEPT !.bonusFunding = v]
  <2>1. db' = [db EXCEPT !.bonusFunding[s].rootPosted = TRUE]
    BY <1>10 DEF Handled
  <2> QED
    BY <2>1
<1>12. /\ v \in [Seasons -> Fundings] /\ v[s] = g
       /\ \A z \in Seasons \ {s} : v[z] = db.bonusFunding[z]
  <2> HIDE DEF g
  <2> QED
    BY <1>3, <1>8 DEF IsTables
<1> HIDE DEF v, g, f
<1>13. IsTables(db') /\ db'.bonusFunding = v /\ SameBut(db, db', {"bonusFunding"})
  BY <1>3, <1>11, <1>12, TableWrites
<1>14. FundingMirrored'
  <2>1. db'.bonusFunding[s] = [inserted |-> bonus'.bonuses[s].funded,
                               reserve |-> bonus'.bonuses[s].reserve,
                               rootPosted |-> bonus'.bonuses[s].finalized]
    BY <1>5, <1>8, <1>12, <1>13
  <2>2. \A z \in Seasons \ {s} :
           db'.bonusFunding[z] = [inserted |-> bonus'.bonuses[z].funded,
                                  reserve |-> bonus'.bonuses[z].reserve,
                                  rootPosted |-> bonus'.bonuses[z].finalized]
    BY <1>3, <1>4, <1>12, <1>13 DEF Mirrored, FundingMirrored
  <2> QED
    BY <2>1, <2>2 DEF FundingMirrored
<1>15. Mirrored'
  BY <1>2, <1>3, <1>4, <1>5, <1>13, <1>14, MirrorKept DEF Mirrored, SameBut
<1> QED
  BY <1>10, <1>13, <1>15 DEF Mirroring

\* What emits nothing and touches nothing that a table tells.
LEMMA SilentMirrors ==
  ASSUME IndexInv, Silent,
         UNCHANGED <<phase, liquidated, settlement, weth, polVault, feesIn, claimVars>>,
         bonus'.claimed = bonus.claimed,
         \A s \in Seasons : /\ SameFunding(bonus.bonuses[s], bonus'.bonuses[s])
                            /\ bonus'.bonuses[s].claimedTotal = bonus.bonuses[s].claimedTotal
  PROVE  Mirroring'
<1>1. halted = FALSE /\ IsTables(db) /\ Mirrored
  BY DEF IndexInv, Mirroring
<1>2. db' = db /\ halted' = FALSE /\ firstLosers' = firstLosers
  BY <1>1, EmitsNone DEF Silent
<1>3. FundingMirrored'
  BY <1>1, <1>2, FundingKept DEF Mirrored
<1>4. Mirrored'
  BY <1>1, <1>2, <1>3, MirrorKept DEF Mirrored
<1> QED
  BY <1>1, <1>2, <1>4 DEF Mirroring

LEMMA UnlockMirrors ==
  ASSUME IndexInv, NEW s \in Seasons, UnlockBonus(s), Silent
  PROVE  Mirroring'
<1>1. /\ bonus' = UnlockTimePassed(bonus, s)
      /\ UNCHANGED <<phase, liquidated, settlement, weth, polVault, feesIn, claimVars>>
  BY DEF UnlockBonus, vaultVars, historyVars
<1>2. bonus \in BonusState /\ \A z \in Seasons : bonus.bonuses[z] \in SeasonBonus
  BY DEF IndexInv, SettleInv, BonusInv, BonusOK, BonusState
<1>3. /\ bonus'.bonuses[s] = WithUnlocked(bonus.bonuses[s])
      /\ \A z \in Seasons \ {s} : bonus'.bonuses[z] = bonus.bonuses[z]
      /\ bonus'.claimed = bonus.claimed
  BY <1>1, <1>2, UnlockedWrites
<1>4. \A z \in Seasons : /\ SameFunding(bonus.bonuses[z], bonus'.bonuses[z])
                         /\ bonus'.bonuses[z].claimedTotal = bonus.bonuses[z].claimedTotal
  <2> DEFINE x == bonus.bonuses[s]
             y == WithUnlocked(x)
  <2>1. x \in SeasonBonus
    BY <1>2
  <2> HIDE DEF x
  <2>2. y.funded = x.funded /\ y.reserve = x.reserve /\ y.finalized = x.finalized
        /\ y.claimedTotal = x.claimedTotal
    BY <2>1, UnlockedFields
  <2> HIDE DEF y
  <2>3. bonus'.bonuses[s] = y
    BY <1>3 DEF x, y
  <2> QED
    BY <1>3, <2>2, <2>3 DEF x, SameFunding
<1> QED
  BY <1>1, <1>3, <1>4, SilentMirrors

LEMMA CreatorFeeMirrors ==
  ASSUME IndexInv, NEW t \in Tokens, DisableCreatorFee(t) \/ ClaimFees(t), Silent
  PROVE  Mirroring'
<1>1. UNCHANGED <<phase, liquidated, settlement, weth, polVault, feesIn, claimVars>> /\ bonus' = bonus
  BY DEF DisableCreatorFee, ClaimFees, vaultVars, historyVars
<1>2. \A z \in Seasons : /\ SameFunding(bonus.bonuses[z], bonus'.bonuses[z])
                         /\ bonus'.bonuses[z].claimedTotal = bonus.bonuses[z].claimedTotal
  BY <1>1 DEF SameFunding
<1> QED
  BY <1>1, <1>2, SilentMirrors

\* A fee collection adds its prize slice to the sum of where it went.
LEMMA CollectMirrors ==
  ASSUME IndexInv, NEW s \in Seasons, NEW t \in Tokens, NEW a \in WethFees, NEW k \in TokenFees,
         CollectFees(s, t, a, k), Emits(FeeLogs(s, t, a)), UNCHANGED firstLosers
  PROVE  Mirroring'
<1> DEFINE prize == FeeSplit(a).prize
<1>1. /\ UNCHANGED <<phase, liquidated, settlement, claimVars, bonus>>
      /\ IF t \in winnerSettled
         THEN /\ polVault' = [weth |-> polVault.weth + prize, recorded |-> polVault.recorded,
                              totalWethDeployed |-> polVault.totalWethDeployed]
              /\ UNCHANGED <<weth, feesIn>>
         ELSE /\ weth' = [weth EXCEPT ![s] = @ + prize]
              /\ feesIn' = [feesIn EXCEPT ![s] = @ + prize]
              /\ UNCHANGED polVault
  BY DEF CollectFees, vaultVars
<1>2. a \in Nat
  BY VaultConstants
<1>3. prize \in Nat /\ (a = 0 => prize = 0)
  <2> DEFINE split == FeeSplit(a)
  <2>1. /\ split.treasury \in Nat /\ split.mechanics \in Nat /\ split.creator \in Nat
        /\ split.prize \in Nat
        /\ a = split.treasury + split.mechanics + split.creator + split.prize
    BY <1>2, FeeSplits
  <2> HIDE DEF split
  <2>2. split.prize \in Nat /\ (a = 0 => split.prize = 0)
    BY <2>1
  <2> QED
    BY <2>2 DEF split
<1> HIDE DEF prize
<1>4. /\ halted = FALSE /\ IsTables(db) /\ Mirrored /\ FeesMirrored
      /\ weth \in [Seasons -> Nat] /\ feesIn \in [Seasons -> Nat] /\ polVault.weth \in Nat
  BY DEF IndexInv, Mirroring, Mirrored, SettleInv, VaultInv, MoneyTypes
<1>5. \A z \in Seasons : feesIn'[z] - weth'[z] = feesIn[z] - weth[z]
  <2>1. CASE t \in winnerSettled
    BY <1>1, <2>1
  <2>2. CASE t \notin winnerSettled
    BY <1>1, <1>3, <1>4, <2>2
  <2> QED
    BY <2>1, <2>2
<1>6. /\ db'.prizeFees = feesIn' /\ db'.polFees = polVault'.weth /\ IsTables(db')
      /\ SameBut(db, db', {"fees"}) /\ halted' = FALSE
  <2>1. CASE a = 0
    <3>1. db' = db /\ halted' = FALSE
      BY <1>4, <2>1, EmitsNone DEF FeeLogs
    <3>2. feesIn' = feesIn /\ polVault'.weth = polVault.weth
      BY <1>1, <1>3, <1>4, <2>1
    <3> QED
      BY <1>4, <3>1, <3>2 DEF FeesMirrored, SameBut
  <2>2. CASE a # 0
    <3> DEFINE ev == [name |-> IF t \in winnerSettled THEN "PostSettlementFeesCollected"
                               ELSE "FeesCollected",
                      season |-> s, prize |-> prize]
    <3>1. Emits(<<ev>>)
      BY <2>2 DEF FeeLogs, prize
    <3>2. /\ ev.name = IF t \in winnerSettled THEN "PostSettlementFeesCollected" ELSE "FeesCollected"
          /\ ev.season = s /\ ev.prize = prize
      OBVIOUS
    <3> HIDE DEF ev
    <3>3. ~Clashes(db, ev)
      BY <3>2 DEF Clashes
    <3>4. db' = Handled(db, ev) /\ halted' = FALSE
      BY <1>4, <3>1, <3>3, EmitsOne
    <3>5. CASE t \in winnerSettled
      <4> DEFINE v == db.polFees + prize
      <4>1. db' = [db EXCEPT !.polFees = v]
        BY <3>2, <3>4, <3>5 DEF Handled
      <4>2. v = polVault'.weth
        BY <1>1, <1>4, <3>5 DEF FeesMirrored
      <4> HIDE DEF v
      <4>3. IsTables(db') /\ db'.polFees = v /\ db'.prizeFees = db.prizeFees
            /\ SameBut(db, db', {"fees"})
        BY <1>4, <4>1, TableWrites
      <4> QED
        BY <1>1, <1>4, <3>4, <3>5, <4>2, <4>3 DEF FeesMirrored
    <3>6. CASE t \notin winnerSettled
      <4> DEFINE v == [db.prizeFees EXCEPT ![s] = @ + prize]
      <4>1. db' = [db EXCEPT !.prizeFees = v]
        <5>1. db' = [db EXCEPT !.prizeFees[s] = @ + prize]
          BY <3>2, <3>4, <3>6 DEF Handled
        <5> QED
          BY <5>1
      <4>2. v = feesIn' /\ v \in [Seasons -> Nat]
        BY <1>1, <1>3, <1>4, <3>6 DEF FeesMirrored
      <4> HIDE DEF v
      <4>3. IsTables(db') /\ db'.prizeFees = v /\ db'.polFees = db.polFees
            /\ SameBut(db, db', {"fees"})
        BY <1>4, <4>1, <4>2, TableWrites
      <4> QED
        BY <1>1, <1>4, <3>4, <3>6, <4>2, <4>3 DEF FeesMirrored
    <3> QED
      BY <3>5, <3>6
  <2> QED
    BY <2>1, <2>2
<1>7. FeesMirrored'
  BY <1>6 DEF FeesMirrored
<1>8. Mirrored'
  BY <1>1, <1>4, <1>5, <1>6, <1>7, MirrorKept DEF Mirrored, SameBut
<1> QED
  BY <1>6, <1>8 DEF Mirroring

\* A filter event's losers are flagged and listed, and the season's first one is the
\* anchor of its snapshot.
LEMMA FilterMirrors ==
  ASSUME IndexInv, NEW s \in Seasons, NEW losers \in SUBSET Tokens, NEW p \in Proceeds,
         ProcessFilterEvent(s, losers, p), Emits(FilterLogs(s, losers)),
         firstLosers' = IF liquidated[s] = {} THEN [firstLosers EXCEPT ![s] = losers]
                        ELSE firstLosers
  PROVE  Mirroring'
<1>1. /\ losers # {} /\ losers \subseteq SeasonTokens[s] /\ losers \cap liquidated[s] = {}
      /\ liquidated' = [liquidated EXCEPT ![s] = @ \cup losers]
      /\ UNCHANGED <<phase, settlement, claimVars, polVault, feesIn, bonus>>
      /\ phase[s] = Active
  BY DEF ProcessFilterEvent, CanFilter, historyVars
<1>2. /\ halted = FALSE /\ IsTables(db) /\ Mirrored
      /\ liquidated \in [Seasons -> SUBSET Tokens]
      /\ LiquidationsMirrored /\ SnapshotsMirrored /\ RowsMirrored
      /\ \A z \in Seasons : liquidated[z] \subseteq SeasonTokens[z]
  BY DEF IndexInv, Mirroring, Mirrored, SettleInv, VaultInv, MoneyTypes, LadderInv
<1>3. IsFiniteSet(losers)
  BY SeasonConstants, FS_Subset
<1>4. \A t \in losers : <<s, t>> \notin db.liquidation
  BY <1>1, <1>2 DEF LiquidationsMirrored
<1>5. (liquidated[s] = {}) => \A k \in db.holderSnapshot : ~(k[1] = s /\ k[2] = "CUT")
  <2> SUFFICES ASSUME liquidated[s] = {}, NEW k \in db.holderSnapshot, k[1] = s, k[2] = "CUT"
               PROVE  FALSE
    OBVIOUS
  <2>1. k = <<s, "CUT", k[3]>> /\ k[3] \in Tokens
    BY <1>2 DEF SnapshotsMirrored
  <2>2. k[3] \in CutSurvivors(s) /\ firstLosers[s] = {}
    BY <1>2, <2>1 DEF SnapshotsMirrored
  <2> QED
    BY <2>2 DEF CutSurvivors
<1>6. PICK m : LosersWritten(db, m, s, losers) /\ db' = FilterEventProcessed(m, ProcessedLog(s))
  BY <1>2, <1>3, <1>4, <1>5, EmitsLosers
<1>7. halted' = FALSE
  BY <1>2, <1>3, <1>4, <1>5, EmitsLosers
<1> DEFINE ev == ProcessedLog(s)
           first == liquidated[s] = {}
           T == SeasonTokens[s] \ (losers \cup ProtocolLaunched)
<1>8. ev.season = s /\ ev.first = first
  BY DEF ProcessedLog
<1> HIDE DEF ev
<1>9. /\ IsTables(db') /\ SameBut(m, db', {"holderSnapshot"})
      /\ db'.holderSnapshot = IF first THEN m.holderSnapshot \cup ({s} \X {"CUT"} \X T)
                              ELSE m.holderSnapshot
  <2>1. IsTables(m) /\ m.liquidated = db.liquidated \cup losers
    BY <1>6 DEF LosersWritten
  <2>2. CASE first
    <3>1. db' = Snapshot(m, s, "CUT", Survivors(m, s))
      BY <1>6, <1>8, <2>2 DEF FilterEventProcessed, ev
    <3>2. \A t \in SeasonTokens[s] : t \notin db.liquidated
      <4>1. \A z \in Seasons : z # s => SeasonTokens[z] \cap SeasonTokens[s] = {}
        BY VaultConstants
      <4> QED
        BY <1>2, <2>2, <4>1 DEF LiquidationsMirrored
    <3>3. Survivors(m, s) = T
      BY <2>1, <3>2 DEF Survivors
    <3>4. /\ IsTables(db') /\ SameBut(m, db', {"holderSnapshot"})
          /\ db'.holderSnapshot = m.holderSnapshot \cup ({s} \X {"CUT"} \X Survivors(m, s))
      BY <2>1, <3>1, SnapshotWrites
    <3> QED
      BY <2>2, <3>3, <3>4
  <2>3. CASE ~first
    <3>1. db' = m
      BY <1>6, <1>8, <2>3 DEF FilterEventProcessed, ev
    <3> QED
      BY <2>1, <2>3, <3>1 DEF SameBut
  <2> QED
    BY <2>2, <2>3
<1>10. /\ db'.liquidation = db.liquidation \cup ({s} \X losers)
       /\ db'.liquidated = db.liquidated \cup losers
       /\ db'.season = db.season /\ db'.rolloverClaim = db.rolloverClaim
       /\ db'.bonusClaim = db.bonusClaim /\ db'.bonusFunding = db.bonusFunding
       /\ db'.prizeFees = db.prizeFees /\ db'.polFees = db.polFees
       /\ m.holderSnapshot = db.holderSnapshot
  BY <1>6, <1>9 DEF LosersWritten, SameBut
<1>11. LiquidationsMirrored'
  <2>1. db'.liquidation = {k \in Seasons \X Tokens : k[2] \in liquidated'[k[1]]}
    BY <1>1, <1>2, <1>10 DEF LiquidationsMirrored
  <2>2. db'.liquidated = {t \in Tokens : \E z \in Seasons : t \in liquidated'[z]}
    BY <1>1, <1>2, <1>10 DEF LiquidationsMirrored
  <2> QED
    BY <2>1, <2>2 DEF LiquidationsMirrored
<1>12. SnapshotsMirrored'
  <2>1. /\ firstLosers \in [Seasons -> SUBSET Tokens]
        /\ \A z \in Seasons : firstLosers[z] = {} <=> liquidated[z] = {}
        /\ firstLosers' \in [Seasons -> SUBSET Tokens]
        /\ \A z \in Seasons \ {s} : firstLosers'[z] = firstLosers[z] /\ liquidated'[z] = liquidated[z]
        /\ firstLosers'[s] = IF first THEN losers ELSE firstLosers[s]
        /\ liquidated'[s] = liquidated[s] \cup losers
    BY <1>1, <1>2 DEF SnapshotsMirrored
  <2>2. \A z \in Seasons : firstLosers'[z] = {} <=> liquidated'[z] = {}
    BY <1>1, <2>1
  <2>3. /\ first => CutSurvivors(s)' = T /\ CutSurvivors(s) = {}
        /\ ~first => CutSurvivors(s)' = CutSurvivors(s)
        /\ \A z \in Seasons \ {s} : CutSurvivors(z)' = CutSurvivors(z)
    BY <1>1, <2>1 DEF CutSurvivors
  <2>4. T \subseteq Tokens
    BY VaultConstants
  <2> HIDE DEF T
  <2>5. db'.holderSnapshot \subseteq Seasons \X {"CUT", "FINALIZE"} \X Tokens
    BY <1>2, <1>9, <1>10, <2>4 DEF SnapshotsMirrored
  <2>6. ASSUME NEW z \in Seasons, NEW t \in Tokens
        PROVE  /\ <<z, "CUT", t>> \in db'.holderSnapshot <=> t \in CutSurvivors(z)'
               /\ <<z, "FINALIZE", t>> \in db'.holderSnapshot <=> t = settlement'[z].winner
    <3>1. /\ <<z, "CUT", t>> \in db.holderSnapshot <=> t \in CutSurvivors(z)
          /\ <<z, "FINALIZE", t>> \in db.holderSnapshot <=> t = settlement[z].winner
      BY <1>2 DEF SnapshotsMirrored
    <3>2. /\ <<z, "CUT", t>> \in db'.holderSnapshot
                <=> <<z, "CUT", t>> \in db.holderSnapshot \/ (first /\ z = s /\ t \in T)
          /\ <<z, "FINALIZE", t>> \in db'.holderSnapshot <=> <<z, "FINALIZE", t>> \in db.holderSnapshot
      BY <1>9, <1>10
    <3>3. CASE z = s
      BY <1>1, <2>3, <3>1, <3>2, <3>3
    <3>4. CASE z # s
      BY <1>1, <2>3, <3>1, <3>2, <3>4
    <3> QED
      BY <3>3, <3>4
  <2> QED
    BY <2>1, <2>2, <2>5, <2>6 DEF SnapshotsMirrored
<1>13. RowsMirrored'
  <2> SUFFICES ASSUME NEW z \in Seasons
               PROVE  RowTells(db'.season[z], settlement'[z], phase'[z] = Distributing,
                               feesIn'[z] - weth'[z])
    BY DEF RowsMirrored
  <2>1. RowTells(db.season[z], settlement[z], phase[z] = Distributing, feesIn[z] - weth[z])
    BY <1>2 DEF RowsMirrored
  <2>2. CASE z = s
    <3>1. phase[z] # Distributing
      BY <1>1, <2>2 DEF Active, Distributing
    <3> QED
      BY <1>1, <1>10, <2>1, <3>1 DEF RowTells
  <2>3. CASE z # s
    <3>1. weth'[z] = weth[z]
      BY <2>3 DEF ProcessFilterEvent, IndexInv, SettleInv, VaultInv, MoneyTypes
    <3> QED
      BY <1>1, <1>10, <2>1, <3>1
  <2> QED
    BY <2>2, <2>3
<1>14. Mirrored'
  BY <1>1, <1>2, <1>10, <1>11, <1>12, <1>13, MirrorKept DEF Mirrored
<1> QED
  BY <1>7, <1>9, <1>14 DEF Mirroring

SubmittedLog(s, S) == [name |-> "WinnerSubmitted", season |-> s, settlement |-> S]
FundedLog(s, S) == [name |-> "BonusFunded", season |-> s, reserve |-> S.bonusFunded]
FinalizedLog(s, S, residue) ==
    [name |-> "Finalized", season |-> s, settlement |-> S, residue |-> residue]

\* fundBonus writes a season's funding row.
LEMMA BonusFundedWrites ==
  ASSUME NEW d, IsTables(d), NEW s \in Seasons, NEW S \in Settlement, NEW n,
         n = BonusFundedHandler(d, FundedLog(s, S))
  PROVE  /\ IsTables(n) /\ SameBut(d, n, {"bonusFunding"})
         /\ n.bonusFunding[s] = [inserted |-> TRUE, reserve |-> S.bonusFunded, rootPosted |-> FALSE]
         /\ \A z \in Seasons \ {s} : n.bonusFunding[z] = d.bonusFunding[z]
<1> DEFINE g == [inserted |-> TRUE, reserve |-> S.bonusFunded, rootPosted |-> FALSE]
           v == [d.bonusFunding EXCEPT ![s] = g]
<1>1. g \in Fundings
  BY DEF Settlement, Fundings
<1>2. n = [d EXCEPT !.bonusFunding = v]
  BY DEF BonusFundedHandler, FundedLog
<1> HIDE DEF g
<1>3. v \in [Seasons -> Fundings] /\ v[s] = g /\ \A z \in Seasons \ {s} : v[z] = d.bonusFunding[z]
  BY <1>1 DEF IsTables
<1> HIDE DEF v
<1>4. IsTables(n) /\ n.bonusFunding = v /\ SameBut(d, n, {"bonusFunding"})
  BY <1>2, <1>3, TableWrites
<1> QED
  BY <1>3, <1>4 DEF g

LEMMA AppendOnto ==
  ASSUME NEW T, NEW a \in T, NEW b \in T, NEW c \in T
  PROVE  <<a>> \o <<b>> = <<a, b>> /\ <<a, b>> \o <<c>> = <<a, b, c>>
<1>1. <<a>> \in Seq(T) /\ <<b>> \in Seq(T) /\ <<c>> \in Seq(T) /\ <<a, b>> \in Seq(T) /\ <<a, b, c>> \in Seq(T)
  OBVIOUS
<1>2. Len(<<a>>) = 1 /\ Len(<<b>>) = 1 /\ Len(<<c>>) = 1 /\ Len(<<a, b>>) = 2 /\ Len(<<a, b, c>>) = 3
  OBVIOUS
<1>3. /\ <<a>> \o <<b>> \in Seq(T) /\ Len(<<a>> \o <<b>>) = 2
      /\ \A i \in 1 .. 2 : (<<a>> \o <<b>>)[i] = IF i <= 1 THEN <<a>>[i] ELSE <<b>>[i - 1]
  BY <1>1, <1>2, ConcatProperties
<1>4. /\ <<a, b>> \o <<c>> \in Seq(T) /\ Len(<<a, b>> \o <<c>>) = 3
      /\ \A i \in 1 .. 3 : (<<a, b>> \o <<c>>)[i] = IF i <= 2 THEN <<a, b>>[i] ELSE <<c>>[i - 2]
  BY <1>1, <1>2, ConcatProperties
<1>5. \A i \in 1 .. 2 : (<<a>> \o <<b>>)[i] = <<a, b>>[i]
  <2>1. (<<a>> \o <<b>>)[1] = a /\ (<<a>> \o <<b>>)[2] = b
    BY <1>3
  <2> QED
    BY <2>1
<1>6. \A i \in 1 .. 3 : (<<a, b>> \o <<c>>)[i] = <<a, b, c>>[i]
  <2>1. /\ (<<a, b>> \o <<c>>)[1] = a /\ (<<a, b>> \o <<c>>)[2] = b
        /\ (<<a, b>> \o <<c>>)[3] = c
    BY <1>4
  <2> QED
    BY <2>1
<1>7. <<a>> \o <<b>> = <<a, b>>
  BY <1>1, <1>2, <1>3, <1>5, SeqEqual
<1> QED
  BY <1>1, <1>2, <1>4, <1>6, <1>7, SeqEqual

LEMMA LogsJoin ==
  ASSUME NEW a, NEW b, NEW c
  PROVE  <<a>> \o <<>> \o <<c>> = <<a, c>> /\ <<a>> \o <<b>> \o <<c>> = <<a, b, c>>
<1> DEFINE T == {a, b, c}
<1>1. a \in T /\ b \in T /\ c \in T /\ <<a>> \in Seq(T)
  OBVIOUS
<1>2. <<a>> \o <<>> = <<a>>
  BY <1>1, ConcatEmptySeq
<1> HIDE DEF T
<1>3. <<a>> \o <<b>> = <<a, b>> /\ <<a, b>> \o <<c>> = <<a, b, c>>
  BY <1>1, AppendOnto
<1>4. <<a>> \o <<c>> = <<a, c>>
  BY <1>1, AppendOnto
<1> QED
  BY <1>2, <1>3, <1>4

\* The logs before Finalized: the tables m know the winner and the season's funding.
LEMMA SubmitRuns ==
  ASSUME halted = FALSE, IsTables(db), NEW s \in Seasons, NEW S \in Settlement, S = settlement'[s],
         ~db.bonusFunding[s].inserted \/ S.bonusFunded = 0,
         \A k \in db.holderSnapshot : ~(k[1] = s /\ k[2] = "FINALIZE"),
         Emits(SettlementLogs(s))
  PROVE  /\ halted' = FALSE
         /\ \E m : /\ IsTables(m) /\ SameBut(db, m, {"season", "bonusFunding"})
                   /\ m.season[s].winner = S.winner /\ m.season[s].rolloverRoot = S.root
                   /\ m.season[s].totalRolloverShares = S.totalRolloverShares
                   /\ \A z \in Seasons \ {s} : /\ m.season[z] = db.season[z]
                                               /\ m.bonusFunding[z] = db.bonusFunding[z]
                   /\ m.bonusFunding[s] =
                         IF S.bonusFunded > 0
                         THEN [inserted |-> TRUE, reserve |-> S.bonusFunded, rootPosted |-> FALSE]
                         ELSE db.bonusFunding[s]
                   /\ db' = Finalized(m, FinalizedLog(s, S, Residue(s)))
<1> DEFINE A == SubmittedLog(s, S)
           B == FundedLog(s, S)
           C == FinalizedLog(s, S, Residue(s))
           d == WinnerSubmitted(db, A)
           n == BonusFundedHandler(d, B)
<1>1. SettlementLogs(s) = <<A>> \o (IF S.bonusFunded > 0 THEN <<B>> ELSE <<>>) \o <<C>>
  BY DEF SettlementLogs, SubmittedLog, FundedLog, FinalizedLog
<1>2. /\ A.name = "WinnerSubmitted" /\ A.season = s /\ A.settlement = S
      /\ B.name = "BonusFunded" /\ B.season = s
      /\ C.name = "Finalized" /\ C.season = s
  BY DEF SubmittedLog, FundedLog, FinalizedLog
<1> HIDE DEF A, B, C
<1>3. ~Clashes(db, A) /\ Handled(db, A) = d
  BY <1>2 DEF Clashes, Handled
<1>4. PICK row : /\ RowWritten(db, d, s, row)
                 /\ row.winner = S.winner /\ row.rolloverRoot = S.root
                 /\ row.totalRolloverShares = S.totalRolloverShares
  BY <1>2, WinnerSubmittedWrites
<1> HIDE DEF d
<1>5. /\ IsTables(d) /\ SameBut(db, d, {"season"}) /\ d.season[s] = row
      /\ \A z \in Seasons \ {s} : d.season[z] = db.season[z]
  BY <1>4 DEF RowWritten
<1>6. d.bonusFunding = db.bonusFunding /\ d.holderSnapshot = db.holderSnapshot
  BY <1>5 DEF SameBut
<1>7. \A m : m.holderSnapshot = db.holderSnapshot => ~Clashes(m, C) /\ Handled(m, C) = Finalized(m, C)
  BY <1>2 DEF Clashes, Handled
<1>8. CASE S.bonusFunded > 0
  <2>1. Emits(<<A, B, C>>)
    <3>1. SettlementLogs(s) = <<A, B, C>>
      BY <1>1, <1>8, LogsJoin
    <3> QED
      BY <3>1
  <2>2. ~Clashes(d, B) /\ Handled(d, B) = n
    BY <1>2, <1>6, <1>8 DEF Clashes, Handled
  <2>3. /\ IsTables(n) /\ SameBut(d, n, {"bonusFunding"})
        /\ n.bonusFunding[s] = [inserted |-> TRUE, reserve |-> S.bonusFunded, rootPosted |-> FALSE]
        /\ \A z \in Seasons \ {s} : n.bonusFunding[z] = d.bonusFunding[z]
    BY <1>5, BonusFundedWrites DEF B
  <2> HIDE DEF n
  <2>4. n.holderSnapshot = db.holderSnapshot /\ n.season = d.season
        /\ SameBut(db, n, {"season", "bonusFunding"})
    BY <1>5, <1>6, <2>3 DEF SameBut
  <2>5. ~Clashes(n, C) /\ Handled(n, C) = Finalized(n, C)
    BY <1>7, <2>4
  <2>6. db' = Finalized(n, C) /\ halted' = FALSE
    <3>1. Handled(Handled(db, A), B) = n
      BY <1>3, <2>2
    <3>2. ~Clashes(Handled(db, A), B) /\ ~Clashes(Handled(Handled(db, A), B), C)
      BY <1>3, <2>2, <2>5, <3>1
    <3>3. db' = Handled(Handled(Handled(db, A), B), C) /\ halted' = FALSE
      BY <1>3, <2>1, <3>2, EmitsThree
    <3> QED
      BY <2>5, <3>1, <3>3
  <2> QED
    BY <1>4, <1>5, <1>6, <1>8, <2>3, <2>4, <2>6 DEF C
<1>9. CASE ~(S.bonusFunded > 0)
  <2>1. Emits(<<A, C>>)
    <3>1. SettlementLogs(s) = <<A, C>>
      BY <1>1, <1>9, LogsJoin
    <3> QED
      BY <3>1
  <2>2. ~Clashes(d, C) /\ Handled(d, C) = Finalized(d, C)
    BY <1>6, <1>7
  <2>3. db' = Finalized(d, C) /\ halted' = FALSE
    BY <1>3, <2>1, <2>2, EmitsTwo
  <2>4. SameBut(db, d, {"season", "bonusFunding"})
    BY <1>5 DEF SameBut
  <2> QED
    BY <1>4, <1>5, <1>6, <1>9, <2>3, <2>4 DEF C
<1> QED
  BY <1>8, <1>9

\* The books of the settled vault: what it has left over is its prize fees, and it
\* keeps nothing.
LEMMA SubmitBooks ==
  ASSUME SettleInv, SettleInv', NEW s \in Seasons, NEW w \in Tokens, NEW root \in RolloverTrees,
         NEW bought \in TokensBought, SubmitWinner(s, w, root, bought)
  PROVE  /\ settlement[s] = Unsettled /\ settlement'[s] \in Settlement
         /\ settlement'[s].winner = w /\ settlement'[s].bonusFunded = reserves[s].bonus
         /\ Residue(s) = feesIn[s] /\ feesIn[s] \in Nat /\ weth'[s] = 0
         /\ \A z \in Seasons \ {s} : /\ settlement'[z] = settlement[z] /\ phase'[z] = phase[z]
                                     /\ weth'[z] = weth[z]
         /\ phase'[s] = Distributing /\ polVault'.weth = polVault.weth
         /\ UNCHANGED <<liquidated, claimVars, feesIn>>
<1>1. /\ phase[s] = Active /\ MoneyTypes /\ settlement' \in [Seasons -> Settlement]
      /\ ReservesHeld /\ UnsettledWhileActive
  BY DEF SubmitWinner, CanSubmitWinner, SettleInv, VaultInv, MoneyTypes
<1>2. /\ weth' = [weth EXCEPT ![s] = weth[s] - reserves[s].bounty - reserves[s].bonus
                                      - reserves[s].rollover - Residue(s)]
      /\ phase' = [phase EXCEPT ![s] = Distributing]
      /\ \/ polVault' = polVault
         \/ polVault' = [weth |-> polVault.weth, recorded |-> polVault.recorded \cup {s},
                         totalWethDeployed |-> polVault.totalWethDeployed + polReserve[s].weth]
      /\ UNCHANGED <<liquidated, claimVars, feesIn>>
  BY <1>1 DEF SubmitWinner, historyVars, MoneyTypes
<1>3. /\ reserves[s].rollover \in Nat /\ reserves[s].bonus \in Nat /\ reserves[s].bounty \in Nat
      /\ weth[s] \in Nat /\ feesIn[s] \in Nat
  BY <1>1 DEF MoneyTypes, Reserves
<1>4. weth[s] = reserves[s].rollover + reserves[s].bonus + reserves[s].bounty + feesIn[s]
  BY <1>1 DEF ReservesHeld
<1>5. Residue(s) = feesIn[s]
  BY <1>3, <1>4 DEF Residue
<1>6. weth[s] - reserves[s].bounty - reserves[s].bonus - reserves[s].rollover - Residue(s) = 0
  BY <1>3, <1>4, <1>5
<1>7. weth'[s] = 0 /\ \A z \in Seasons \ {s} : weth'[z] = weth[z]
  BY <1>1, <1>2, <1>6 DEF MoneyTypes
<1>8. /\ settlement'[s].winner = w /\ settlement'[s].bonusFunded = reserves[s].bonus
      /\ \A z \in Seasons \ {s} : settlement'[z] = settlement[z]
  BY <1>1 DEF SubmitWinner, MoneyTypes
<1>9. phase'[s] = Distributing /\ \A z \in Seasons \ {s} : phase'[z] = phase[z]
  BY <1>1, <1>2 DEF MoneyTypes
<1>10. settlement[s] = Unsettled
  BY <1>1 DEF UnsettledWhileActive
<1> QED
  BY <1>1, <1>2, <1>3, <1>5, <1>7, <1>8, <1>9, <1>10

\* The distributor knows the season's bonus if there was one to fund.
LEMMA SubmitFunds ==
  ASSUME SettleInv, NEW s \in Seasons, NEW w \in Tokens, NEW root \in RolloverTrees,
         NEW bought \in TokensBought, SubmitWinner(s, w, root, bought)
  PROVE  LET a == reserves[s].bonus
             b == bonus.bonuses[s]
             n == bonus'.bonuses[s] IN
         /\ a \in Nat /\ bonus'.claimed = bonus.claimed
         /\ \A z \in Seasons : bonus'.bonuses[z].claimedTotal = bonus.bonuses[z].claimedTotal
         /\ \A z \in Seasons \ {s} : bonus'.bonuses[z] = bonus.bonuses[z]
         /\ a = 0 => n = b
         /\ a > 0 => /\ b.funded = FALSE /\ n.funded = TRUE
                     /\ n.reserve = a /\ n.finalized = FALSE
<1> DEFINE a == reserves[s].bonus
           b == bonus.bonuses[s]
<1>1. /\ a \in Nat /\ bonus \in BonusState /\ SeasonBonusOK(bonus, s, posts[s])
      /\ posts[s] \in Nat /\ \A z \in Seasons : bonus.bonuses[z] \in SeasonBonus
  BY VaultConstants DEF SettleInv, VaultInv, MoneyTypes, Reserves, BonusInv, BonusOK, BonusState
<1>2. /\ a > 0 => CanFundBonus(bonus, s) /\ bonus' = BonusFunded(bonus, s, a)
      /\ a = 0 => bonus' = bonus
  BY DEF SubmitWinner, CanSubmitWinner
<1>3. CASE a = 0
  BY <1>1, <1>2, <1>3
<1>4. CASE a # 0
  <2>1. a > 0
    BY <1>1, <1>4
  <2>2. ~b.funded /\ b \in SeasonBonus
    BY <1>1, <1>2, <2>1 DEF CanFundBonus
  <2>3. b.funded = FALSE /\ b.finalized = FALSE
    <3>1. ~b.finalized
      BY <1>1, <2>2 DEF SeasonBonusOK
    <3> QED
      BY <2>2, <3>1 DEF SeasonBonus
  <2>4. /\ bonus'.bonuses[s] = WithReserve(b, a) /\ bonus'.claimed = bonus.claimed
        /\ \A z \in Seasons \ {s} : bonus'.bonuses[z] = bonus.bonuses[z]
    BY <1>1, <1>2, <2>1, FundedWrites
  <2> HIDE DEF a, b
  <2>5. LET n == WithReserve(b, a) IN
        /\ n.funded = TRUE /\ n.reserve = a /\ n.claimedTotal = b.claimedTotal
        /\ n.finalized = b.finalized
    BY <1>1, <2>2, FundedFields
  <2>6. \A z \in Seasons : bonus'.bonuses[z].claimedTotal = bonus.bonuses[z].claimedTotal
    BY <2>4, <2>5 DEF b
  <2> QED
    BY <1>1, <2>1, <2>3, <2>4, <2>5, <2>6 DEF a, b
<1> QED
  BY <1>3, <1>4

\* Settlement: the winner's row and funding, the closing totals and the last snapshot.
LEMMA SubmitMirrors ==
  ASSUME IndexInv, SettleInv', NEW s \in Seasons, NEW w \in Tokens, NEW root \in RolloverTrees,
         NEW bought \in TokensBought, SubmitWinner(s, w, root, bought),
         Emits(SettlementLogs(s)), UNCHANGED firstLosers
  PROVE  Mirroring'
<1> DEFINE S == settlement'[s]
           a == reserves[s].bonus
<1>1. /\ settlement[s] = Unsettled /\ S \in Settlement /\ S.winner = w /\ S.bonusFunded = a
      /\ Residue(s) = feesIn[s] /\ feesIn[s] \in Nat /\ weth'[s] = 0
      /\ \A z \in Seasons \ {s} : /\ settlement'[z] = settlement[z] /\ phase'[z] = phase[z]
                                  /\ weth'[z] = weth[z]
      /\ phase'[s] = Distributing /\ polVault'.weth = polVault.weth
      /\ UNCHANGED <<liquidated, claimVars, feesIn>>
  BY SubmitBooks DEF IndexInv
<1>2. /\ a \in Nat /\ bonus'.claimed = bonus.claimed
      /\ \A z \in Seasons : bonus'.bonuses[z].claimedTotal = bonus.bonuses[z].claimedTotal
      /\ \A z \in Seasons \ {s} : bonus'.bonuses[z] = bonus.bonuses[z]
      /\ a = 0 => bonus'.bonuses[s] = bonus.bonuses[s]
      /\ a > 0 => /\ bonus.bonuses[s].funded = FALSE /\ bonus'.bonuses[s].funded = TRUE
                  /\ bonus'.bonuses[s].reserve = a /\ bonus'.bonuses[s].finalized = FALSE
  BY SubmitFunds DEF IndexInv
<1>3. /\ halted = FALSE /\ IsTables(db) /\ Mirrored
      /\ SnapshotsMirrored /\ RowsMirrored /\ FundingMirrored
  BY DEF IndexInv, Mirroring, Mirrored
<1>4. \A k \in db.holderSnapshot : ~(k[1] = s /\ k[2] = "FINALIZE")
  <2> SUFFICES ASSUME NEW k \in db.holderSnapshot, k[1] = s, k[2] = "FINALIZE" PROVE FALSE
    OBVIOUS
  <2>1. k = <<s, "FINALIZE", k[3]>> /\ k[3] \in Tokens
    BY <1>3 DEF SnapshotsMirrored
  <2>2. k[3] = settlement[s].winner
    <3>1. \A t \in Tokens : <<s, "FINALIZE", t>> \in db.holderSnapshot => t = settlement[s].winner
      BY <1>3 DEF SnapshotsMirrored
    <3>2. <<s, "FINALIZE", k[3]>> \in db.holderSnapshot
      BY <2>1
    <3> QED
      BY <2>1, <3>1, <3>2
  <2>3. settlement[s].winner = NoToken
    BY <1>1 DEF Unsettled
  <2> QED
    BY <2>1, <2>2, <2>3, SeasonConstants
<1>5. ~db.bonusFunding[s].inserted \/ S.bonusFunded = 0
  <2>1. db.bonusFunding[s].inserted = bonus.bonuses[s].funded
    <3>1. db.bonusFunding[s] = [inserted |-> bonus.bonuses[s].funded,
                                reserve |-> bonus.bonuses[s].reserve,
                                rootPosted |-> bonus.bonuses[s].finalized]
      BY <1>3 DEF FundingMirrored
    <3> QED
      BY <3>1
  <2>2. a = 0 \/ a > 0
    BY <1>2
  <2> QED
    BY <1>1, <1>2, <2>1, <2>2
<1>6. /\ halted' = FALSE
      /\ \E m : /\ IsTables(m) /\ SameBut(db, m, {"season", "bonusFunding"})
                /\ m.season[s].winner = S.winner /\ m.season[s].rolloverRoot = S.root
                /\ m.season[s].totalRolloverShares = S.totalRolloverShares
                /\ \A z \in Seasons \ {s} : /\ m.season[z] = db.season[z]
                                            /\ m.bonusFunding[z] = db.bonusFunding[z]
                /\ m.bonusFunding[s] =
                      IF S.bonusFunded > 0
                      THEN [inserted |-> TRUE, reserve |-> S.bonusFunded, rootPosted |-> FALSE]
                      ELSE db.bonusFunding[s]
                /\ db' = Finalized(m, FinalizedLog(s, S, Residue(s)))
  BY <1>1, <1>3, <1>4, <1>5, SubmitRuns
<1>7. PICK m : /\ IsTables(m) /\ SameBut(db, m, {"season", "bonusFunding"})
               /\ m.season[s].winner = S.winner /\ m.season[s].rolloverRoot = S.root
               /\ m.season[s].totalRolloverShares = S.totalRolloverShares
               /\ \A z \in Seasons \ {s} : /\ m.season[z] = db.season[z]
                                           /\ m.bonusFunding[z] = db.bonusFunding[z]
               /\ m.bonusFunding[s] =
                     IF S.bonusFunded > 0
                     THEN [inserted |-> TRUE, reserve |-> S.bonusFunded, rootPosted |-> FALSE]
                     ELSE db.bonusFunding[s]
               /\ db' = Finalized(m, FinalizedLog(s, S, Residue(s)))
  BY <1>6
<1> HIDE DEF S, a
<1> DEFINE ev == FinalizedLog(s, S, Residue(s))
<1>8. ev.season = s /\ ev.settlement = S /\ ev.residue = feesIn[s]
  BY <1>1 DEF FinalizedLog
<1> HIDE DEF ev
<1>9. PICK n, row :
        /\ RowWritten(m, n, s, row) /\ Closed(m.season[s], row, S, feesIn[s])
        /\ IsTables(db') /\ SameBut(n, db', {"holderSnapshot"})
        /\ db'.holderSnapshot =
              m.holderSnapshot \cup ({s} \X {"FINALIZE"} \X ({m.season[s].winner} \ {NoToken}))
  BY <1>1, <1>7, <1>8, FinalizedWrites DEF ev
<1>10. /\ db'.season[s] = row /\ \A z \in Seasons \ {s} : db'.season[z] = db.season[z]
       /\ db'.bonusFunding = m.bonusFunding
       /\ db'.liquidation = db.liquidation /\ db'.liquidated = db.liquidated
       /\ db'.rolloverClaim = db.rolloverClaim /\ db'.bonusClaim = db.bonusClaim
       /\ db'.prizeFees = db.prizeFees /\ db'.polFees = db.polFees
       /\ m.holderSnapshot = db.holderSnapshot
  BY <1>7, <1>9 DEF RowWritten, SameBut
<1>11. db'.holderSnapshot = db.holderSnapshot \cup ({s} \X {"FINALIZE"} \X {w})
  <2>1. {m.season[s].winner} \ {NoToken} = {w}
    BY <1>1, <1>7, SeasonConstants
  <2> QED
    BY <1>9, <1>10, <2>1
<1>12. SnapshotsMirrored'
  <2>1. db'.holderSnapshot \subseteq Seasons \X {"CUT", "FINALIZE"} \X Tokens
    BY <1>3, <1>11 DEF SnapshotsMirrored
  <2>2. \A z \in Seasons : CutSurvivors(z)' = CutSurvivors(z)
    BY DEF CutSurvivors
  <2>3. ASSUME NEW z \in Seasons, NEW t \in Tokens
        PROVE  /\ <<z, "CUT", t>> \in db'.holderSnapshot <=> t \in CutSurvivors(z)'
               /\ <<z, "FINALIZE", t>> \in db'.holderSnapshot <=> t = settlement'[z].winner
    <3>1. /\ <<z, "CUT", t>> \in db.holderSnapshot <=> t \in CutSurvivors(z)
          /\ <<z, "FINALIZE", t>> \in db.holderSnapshot <=> t = settlement[z].winner
      BY <1>3 DEF SnapshotsMirrored
    <3>2. /\ <<z, "CUT", t>> \in db'.holderSnapshot <=> <<z, "CUT", t>> \in db.holderSnapshot
          /\ <<z, "FINALIZE", t>> \in db'.holderSnapshot
                <=> <<z, "FINALIZE", t>> \in db.holderSnapshot \/ (z = s /\ t = w)
      BY <1>11
    <3>3. CASE z = s
      <4>1. t # settlement[s].winner
        BY <1>1, SeasonConstants DEF Unsettled
      <4> QED
        BY <1>1, <2>2, <3>1, <3>2, <3>3, <4>1 DEF S
    <3>4. CASE z # s
      BY <1>1, <2>2, <3>1, <3>2, <3>4
    <3> QED
      BY <3>3, <3>4
  <2> QED
    BY <1>1, <1>3, <2>1, <2>3 DEF SnapshotsMirrored
<1>13. RowsMirrored'
  <2> SUFFICES ASSUME NEW z \in Seasons
               PROVE  RowTells(db'.season[z], settlement'[z], phase'[z] = Distributing,
                               feesIn'[z] - weth'[z])
    BY DEF RowsMirrored
  <2>1. RowTells(db.season[z], settlement[z], phase[z] = Distributing, feesIn[z] - weth[z])
    BY <1>3 DEF RowsMirrored
  <2>2. CASE z = s
    <3>1. /\ S.rolloverSpent \in Nat /\ S.bonusFunded \in Nat /\ S.polDeployedWeth \in Nat
      BY <1>1 DEF Settlement
    <3>2. /\ row.totalPot = S.rolloverSpent + S.bonusFunded + S.polDeployedWeth + feesIn[s]
          /\ row.bonusReserve = S.bonusFunded
          /\ row.winner = S.winner /\ row.rolloverRoot = S.root
          /\ row.totalRolloverShares = S.totalRolloverShares
          /\ row.rolloverWinnerTokens = S.rolloverWinnerTokens /\ row.finalized = TRUE
      BY <1>7, <1>9 DEF Closed
    <3>3. row.totalPot - row.bonusReserve = S.rolloverSpent + S.polDeployedWeth + (feesIn[s] - 0)
      BY <1>1, <3>1, <3>2
    <3> QED
      BY <1>1, <1>10, <2>2, <3>2, <3>3 DEF RowTells, S
  <2>3. CASE z # s
    BY <1>1, <1>10, <2>1, <2>3
  <2> QED
    BY <2>2, <2>3
<1>14. FundingMirrored'
  <2> SUFFICES ASSUME NEW z \in Seasons
               PROVE  db'.bonusFunding[z] =
                         [inserted |-> bonus'.bonuses[z].funded,
                          reserve |-> bonus'.bonuses[z].reserve,
                          rootPosted |-> bonus'.bonuses[z].finalized]
    BY DEF FundingMirrored
  <2>1. db.bonusFunding[z] = [inserted |-> bonus.bonuses[z].funded,
                              reserve |-> bonus.bonuses[z].reserve,
                              rootPosted |-> bonus.bonuses[z].finalized]
    BY <1>3 DEF FundingMirrored
  <2>2. CASE z = s /\ a > 0
    BY <1>1, <1>2, <1>7, <1>10, <2>2
  <2>3. CASE z = s /\ a = 0
    BY <1>1, <1>2, <1>7, <1>10, <2>1, <2>3
  <2>4. CASE z # s
    BY <1>2, <1>7, <1>10, <2>1, <2>4
  <2> QED
    BY <1>2, <2>2, <2>3, <2>4
<1>15. Mirrored'
  BY <1>1, <1>2, <1>3, <1>10, <1>12, <1>13, <1>14, MirrorKept DEF Mirrored
<1> QED
  BY <1>6, <1>9, <1>15 DEF Mirroring

(***************************************************************************)
(* The whole step                                                          *)
(***************************************************************************)

\* Every step of the indexer is one of the settlement.
LEMMA IndexedSteps == IndexNext => Next
BY DEF IndexNext, Next

LEMMA IndexStep == IndexInv /\ [IndexNext]_indexVars => IndexInv'
<1> SUFFICES ASSUME IndexInv, [IndexNext]_indexVars PROVE IndexInv'
  OBVIOUS
<1>1. SettleInv'
  <2>1. [Next]_vars
    BY IndexedSteps DEF indexVars
  <2> QED
    BY <2>1, SettleStep DEF IndexInv
<1>2. Mirroring'
  <2>1. ASSUME NEW s \in Seasons, NEW losers \in SUBSET Tokens, NEW proceeds \in Proceeds,
               ProcessFilterEvent(s, losers, proceeds), Emits(FilterLogs(s, losers)),
               firstLosers' = IF liquidated[s] = {} THEN [firstLosers EXCEPT ![s] = losers]
                              ELSE firstLosers
        PROVE  Mirroring'
    BY <2>1, FilterMirrors
  <2>2. ASSUME NEW s \in Seasons, NEW w \in Tokens, NEW root \in RolloverTrees,
               NEW bought \in TokensBought, SubmitWinner(s, w, root, bought),
               Emits(SettlementLogs(s)), UNCHANGED firstLosers
        PROVE  Mirroring'
    BY <1>1, <2>2, SubmitMirrors
  <2>3. ASSUME NEW s \in Seasons, NEW u \in Users, ClaimRollover(s, u),
               Emits(<<[name |-> "RolloverClaimed", season |-> s, user |-> u,
                        share |-> settlement[s].root.amountOf[u],
                        winnerTokens |-> RolloverAmount(s, u)]>>),
               UNCHANGED firstLosers
        PROVE  Mirroring'
    BY <2>3, ClaimRolloverMirrors DEF RolloverLog
  <2>4. ASSUME NEW s \in Seasons, NEW u \in Users, ClaimBonus(s, u),
               Emits(<<[name |-> "BonusClaimed", season |-> s, user |-> u,
                        amount |-> bonus.bonuses[s].root.amountOf[u]]>>),
               UNCHANGED firstLosers
        PROVE  Mirroring'
    BY <2>4, ClaimBonusMirrors DEF BonusLog
  <2>5. ASSUME NEW s \in Seasons, NEW eligible \in SUBSET claimed[s], PostRoot(s, eligible),
               Emits(<<[name |-> "BonusRootPosted", season |-> s]>>), UNCHANGED firstLosers
        PROVE  Mirroring'
    BY <2>5, PostRootMirrors
  <2>6. ASSUME NEW s \in Seasons, UnlockBonus(s), Silent PROVE Mirroring'
    BY <2>6, UnlockMirrors
  <2>7. ASSUME NEW s \in Seasons, NEW t \in Tokens, NEW wethLeg \in WethFees,
               NEW tokenLeg \in TokenFees, CollectFees(s, t, wethLeg, tokenLeg),
               Emits(FeeLogs(s, t, wethLeg)), UNCHANGED firstLosers
        PROVE  Mirroring'
    BY <2>7, CollectMirrors
  <2>8. ASSUME NEW t \in Tokens, DisableCreatorFee(t) \/ ClaimFees(t), Silent PROVE Mirroring'
    BY <2>8, CreatorFeeMirrors
  <2>9. CASE UNCHANGED indexVars
    <3>1. /\ UNCHANGED <<phase, liquidated, settlement, weth, polVault, feesIn, claimVars, bonus>>
          /\ UNCHANGED <<db, halted, firstLosers>>
      BY <2>9 DEF indexVars, vars, vaultVars, historyVars
    <3>2. Mirrored'
      BY <3>1, MirrorKept DEF IndexInv, Mirroring, Mirrored
    <3>3. IsTables(db')
      BY <3>1 DEF IndexInv, Mirroring
    <3> QED
      BY <3>1, <3>2, <3>3 DEF IndexInv, Mirroring
  <2>10. ASSUME IndexNext PROVE Mirroring'
    BY <2>1, <2>2, <2>3, <2>4, <2>5, <2>6, <2>7, <2>8, <2>10 DEF IndexNext
  <2> QED
    BY <2>9, <2>10
<1> QED
  BY <1>1, <1>2 DEF IndexInv

LEMMA IndexInvariant == IndexSpec => []IndexInv
  BY InitIndex, IndexStep, PTL DEF IndexSpec

(***************************************************************************)
(* Theorems                                                                *)
(***************************************************************************)

\* The books of the WETH balance: an active vault's WETH is its reserves and its
\* fees whatever the split rounds away, no wei that reached a vault is lost or paid
\* twice, and a season's POL is deployed in one piece (processFilterEvent,
\* submitWinner, collectFees, SeasonPOLReserve, POLManager.deployPOL, POLVault).
THEOREM VaultKeepsItsBooks == Spec => []WethBooks
<1>1. VaultInv => WethBooks
  BY DEF VaultInv, WethBooks
<1> QED
  BY <1>1, InitVault, VaultStep, PTL DEF Spec

\* No call changes what a settled vault decided or counted.
THEOREM SettledVaultsAreFinal == Spec => SettlementIsFinal
  BY InitVault, VaultStep, FinalStep, PTL DEF Spec, SettlementIsFinal, LeavesSettledAlone

\* The registry's ladder tells what the vaults did, and no winner was ever
\* filtered (markFiltered, recordWeeklyWinner, and the guards of the vault).
THEOREM LadderIsTruthful == Spec => []LadderMatchesVault
<1>1. LadderInv => LadderMatchesVault
  BY DEF LadderInv
<1> QED
  BY <1>1, InitVault, VaultStep, InitLadder, LadderStep, PTL DEF Spec

\* Every variable of the settlement keeps its type: in particular no transfer of WETH
\* or of a winner's tokens ever takes a balance below zero.
THEOREM SettlementTypes == Spec => []TypeOK
  BY SettleInvariant, SettleTypes, PTL

\* A settled vault can pay every leaf that has not been claimed, for any tree, any yield
\* of the purchase and any order of the claims (submitWinner, claimRollover).
THEOREM RolloverIsCovered == Spec => []RolloverClaimsCovered
<1>1. SettleInv => RolloverClaimsCovered
  BY SettleTypes DEF SettleInv, ClaimsInv, ClaimsCovered, RolloverClaimsCovered, OwedLedger,
     ClaimedLedger
<1> QED
  BY <1>1, SettleInvariant, PTL

\* The bonus pot balances, and a season with one root never spends another season's
\* money (fundBonus, postRoot, claim, and the oracle's bonus tree).
THEOREM BonusStaysInReserve == Spec => []BonusWithinReserve
<1> SUFFICES ASSUME SettleInv PROVE BonusWithinReserve
  BY SettleInvariant, PTL
<1>1. BonusOK(bonus, posts) /\ posts \in [Seasons -> 0..MaxPosts]
  BY DEF SettleInv, BonusInv
<1>2. bonus.balance + Total([s \in Seasons |-> bonus.bonuses[s].claimedTotal]) =
         Total([s \in Seasons |-> bonus.bonuses[s].reserve])
  BY <1>1 DEF BonusOK, BonusClaims, BonusReserves
<1>3. ASSUME NEW s \in Seasons, posts[s] <= 1
      PROVE  bonus.bonuses[s].claimedTotal <= bonus.bonuses[s].reserve
  <2> DEFINE c == bonus.bonuses[s].claimedTotal
             r == bonus.bonuses[s].reserve
             a == bonus.bonuses[s].root.amountOf
             f == PaidLedger(bonus, s)
  <2>1. /\ SeasonBonusOK(bonus, s, posts[s]) /\ c \in Nat /\ r \in Nat /\ a \in [Users -> Nat]
        /\ posts[s] \in 0..MaxPosts
    BY <1>1 DEF BonusOK, BonusState, SeasonBonus, Trees
  <2>2. CASE posts[s] = 0
    BY <2>1, <2>2 DEF SeasonBonusOK
  <2>3. CASE posts[s] = 1
    <3>1. Total(a) <= r /\ c = Total(f)
      BY <2>1, <2>3 DEF SeasonBonusOK
    <3>2. f \in [Users -> Nat] /\ \A u \in Users : f[u] <= a[u]
      BY <2>1 DEF PaidLedger
    <3> HIDE DEF a, f
    <3>3. Total(f) <= Total(a) /\ Total(a) \in Nat /\ Total(f) \in Nat
      BY <2>1, <3>2, SeasonConstants, TotalMonotone, TotalType
    <3> QED
      BY <2>1, <3>1, <3>3
  <2>4. posts[s] = 0 \/ posts[s] = 1
    BY <1>3, <2>1, VaultConstants
  <2> QED
    BY <2>2, <2>3, <2>4
<1> QED
  BY <1>2, <1>3 DEF BonusWithinReserve

\* Creators' fees are backed to the wei, whoever collects, claims or disables when
\* (notifyFee, claim, disableCreatorFee).
THEOREM CreatorFeesAreBacked == Spec => []CreatorFeesBacked
<1>1. SettleInv => CreatorFeesBacked
  BY DEF SettleInv, FeesOK, PendingFees, CreatorFeesBacked
<1> QED
  BY <1>1, SettleInvariant, PTL

\* A settled vault of a season whose losers were all filtered is empty and stays empty
\* (submitWinner's residue sweep, markWinnerSettled, collectFees).
THEOREM SettledVaultsCloseClean == Spec => []ClosesCleanIfAllFiltered
<1>1. SettleInv => ClosesCleanIfAllFiltered
  BY DEF SettleInv, CloseInv, ClosesCleanIfAllFiltered
<1> QED
  BY <1>1, SettleInvariant, PTL

\* The indexer only watches: what is proved of the settlement holds of the settlement
\* that is being indexed (Ponder's handlers call nothing on the chain).
THEOREM IndexerOnlyWatches == IndexSpec => Spec
<1>1. IndexInit => Init
  BY DEF IndexInit
<1>2. [IndexNext]_indexVars => [Next]_vars
  BY IndexedSteps DEF indexVars
<1> QED
  BY <1>1, <1>2, PTL DEF IndexSpec, Spec

\* No log of the settlement ever stops the indexer, and what the API serves of a season
\* is what its contracts hold: the winner, the totals, the claims, the bonus, where the
\* fees went and the snapshots of the survivors (the handlers of SeasonVault.ts,
\* BonusDistributor.ts and FilterLpLocker.ts, in the order in which each transaction
\* emits its logs).
THEOREM SettlementStaysServed == IndexSpec => []TablesMirrorSettlement
  BY IndexInvariant, MirrorTells, PTL

==============================================================================

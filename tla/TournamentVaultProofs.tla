-------------------------- MODULE TournamentVaultProofs --------------------------
(***************************************************************************)
(* The pots of the quarters and years never eat into each other, and the   *)
(* titles of the ladder are earned and kept, in the registry and in what    *)
(* the indexer and the profiles make of its logs: for any seasons, tokens, *)
(* wallets, years, deposits, trees and totals.                             *)
(***************************************************************************)
EXTENDS ProfileApi, WeiProofs

LEMMA TournamentsFinite == IsFiniteSet(Tournaments)
<1>1. IsFiniteSet(Annual..LastQuarter)
  BY TournamentConstants, FS_Interval DEF Annual
<1> QED
  BY <1>1, TournamentConstants, FS_Product DEF Tournaments

\* Every quarter and every year is a tournament.
LEMMA TournamentKeys ==
  /\ Quarterlies \subseteq Tournaments
  /\ \A y \in Years : <<y, Annual>> \in Tournaments /\ <<y, Annual>> \notin Quarterlies
  /\ \A k \in Tournaments : k \in Quarterlies \/ \E y \in Years : k = <<y, Annual>>
  /\ \A k \in Quarterlies : k[2] # Annual
  BY TournamentConstants DEF Tournaments, Quarterlies, Quarters, Annual

(***************************************************************************)
(* Storage                                                                 *)
(***************************************************************************)

LEMMA PaidFields ==
  ASSUME NEW b \in VaultState, NEW P, NEW v
  PROVE  [b EXCEPT !.pots = P, !.balance = v]
            = [pots |-> P, rolloverClaimed |-> b.rolloverClaimed,
               bonusClaimed |-> b.bonusClaimed, balance |-> v]
<1> DEFINE m == [b EXCEPT !.pots = P]
           n == [m EXCEPT !.balance = v]
<1>1. [b EXCEPT !.pots = P, !.balance = v] = n
  BY Zenon
<1>2. m = [pots |-> P, rolloverClaimed |-> b.rolloverClaimed,
           bonusClaimed |-> b.bonusClaimed, balance |-> b.balance]
  BY DEF VaultState
<1> HIDE DEF m
<1>3. n = [pots |-> P, rolloverClaimed |-> b.rolloverClaimed,
           bonusClaimed |-> b.bonusClaimed, balance |-> v]
  BY <1>2
<1> QED
  BY <1>1, <1>3

LEMMA RolloverFields ==
  ASSUME NEW b \in VaultState, NEW C, NEW P, NEW v
  PROVE  [b EXCEPT !.rolloverClaimed = C, !.pots = P, !.balance = v]
            = [pots |-> P, rolloverClaimed |-> C, bonusClaimed |-> b.bonusClaimed, balance |-> v]
<1> DEFINE l == [b EXCEPT !.rolloverClaimed = C]
           m == [l EXCEPT !.pots = P]
           n == [m EXCEPT !.balance = v]
<1>1. [b EXCEPT !.rolloverClaimed = C, !.pots = P, !.balance = v] = n
  BY Zenon
<1>2. l = [pots |-> b.pots, rolloverClaimed |-> C, bonusClaimed |-> b.bonusClaimed,
           balance |-> b.balance]
  BY DEF VaultState
<1> HIDE DEF l
<1>3. m = [pots |-> P, rolloverClaimed |-> C, bonusClaimed |-> b.bonusClaimed,
           balance |-> b.balance]
  BY <1>2
<1> HIDE DEF m
<1>4. n = [pots |-> P, rolloverClaimed |-> C, bonusClaimed |-> b.bonusClaimed, balance |-> v]
  BY <1>3
<1> QED
  BY <1>1, <1>4

LEMMA BonusFields ==
  ASSUME NEW b \in VaultState, NEW D, NEW P, NEW v
  PROVE  [b EXCEPT !.bonusClaimed = D, !.pots = P, !.balance = v]
            = [pots |-> P, rolloverClaimed |-> b.rolloverClaimed, bonusClaimed |-> D,
               balance |-> v]
<1> DEFINE l == [b EXCEPT !.bonusClaimed = D]
           m == [l EXCEPT !.pots = P]
           n == [m EXCEPT !.balance = v]
<1>1. [b EXCEPT !.bonusClaimed = D, !.pots = P, !.balance = v] = n
  BY Zenon
<1>2. l = [pots |-> b.pots, rolloverClaimed |-> b.rolloverClaimed, bonusClaimed |-> D,
           balance |-> b.balance]
  BY DEF VaultState
<1> HIDE DEF l
<1>3. m = [pots |-> P, rolloverClaimed |-> b.rolloverClaimed, bonusClaimed |-> D,
           balance |-> b.balance]
  BY <1>2
<1> HIDE DEF m
<1>4. n = [pots |-> P, rolloverClaimed |-> b.rolloverClaimed, bonusClaimed |-> D,
           balance |-> v]
  BY <1>3
<1> QED
  BY <1>1, <1>4

\* What fund does to a pot.
FundedPot(p, a) == [p EXCEPT !.phase = "Open", !.funded = @ + a]

LEMMA FundedPotFields ==
  ASSUME NEW p \in Pot, NEW a \in Nat
  PROVE  LET n == FundedPot(p, a) IN
         /\ n \in Pot /\ n.phase = "Open" /\ n.funded = p.funded + a /\ n.winner = p.winner
         /\ n.claimedRolloverShares = p.claimedRolloverShares
         /\ n.claimedBonusAmount = p.claimedBonusAmount
<1> DEFINE m == [p EXCEPT !.phase = "Open"]
           n == [m EXCEPT !.funded = p.funded + a]
<1>1. FundedPot(p, a) = n
  BY Zenon DEF FundedPot
<1>2. /\ m \in Pot /\ m.phase = "Open" /\ m.winner = p.winner
      /\ m.claimedRolloverShares = p.claimedRolloverShares
      /\ m.claimedBonusAmount = p.claimedBonusAmount
  BY DEF Pot
<1>3. p.funded + a \in Nat
  BY DEF Pot
<1> HIDE DEF m
<1>4. /\ n \in Pot /\ n.phase = m.phase /\ n.funded = p.funded + a /\ n.winner = m.winner
      /\ n.claimedRolloverShares = m.claimedRolloverShares
      /\ n.claimedBonusAmount = m.claimedBonusAmount
  BY <1>2, <1>3 DEF Pot
<1> HIDE DEF n
<1> QED
  BY <1>1, <1>2, <1>4


(***************************************************************************)
(* The slices of a settled pot                                             *)
(***************************************************************************)

\* The slices of a pot are natural numbers that add up to it.
LEMMA SliceSplits ==
  ASSUME NEW p \in Nat, NEW slice, slice = Split(p)
  PROVE  /\ slice.bounty \in Nat /\ slice.rollover \in Nat /\ slice.bonus \in Nat
         /\ slice.mechanics \in Nat /\ slice.pol \in Nat /\ slice.treasury \in Nat
         /\ p = slice.bounty + slice.rollover + slice.bonus + slice.mechanics + slice.pol
                + slice.treasury
<1> DEFINE b == Bps(p, 250)
           r == p - b
           ro == Bps(r, 4500)
           bo == Bps(r, 2500)
           te == Bps(r, 1000)
<1>1. b \in Nat /\ b <= p
  BY DEF Bps
<1>2. r \in Nat
  BY <1>1
<1> HIDE DEF b, r
<1>3. /\ ro \in Nat /\ bo \in Nat /\ te \in Nat
      /\ 10000 * ro <= r * 4500 /\ 10000 * bo <= r * 2500 /\ 10000 * te <= r * 1000
  BY <1>2 DEF Bps
<1>4. /\ slice.bounty = b /\ slice.rollover = ro /\ slice.bonus = bo /\ slice.mechanics = te
      /\ slice.pol = te /\ slice.treasury = r - ro - bo - te - te
  BY DEF Split, b, r
<1> HIDE DEF ro, bo, te
<1>5. r - ro - bo - te - te \in Nat
  BY <1>2, <1>3
<1>6. p = b + r
  BY <1>1 DEF r
<1> QED
  BY <1>1, <1>2, <1>3, <1>4, <1>5, <1>6

\* What the wallets A have drawn from the rollover slice of p.
SharesOf(p, A) == Total([u \in A |-> Share(p, u)])
PaidTo(p, A) == Total([u \in A |-> RolloverAmount(p, u)])

\* What is left in pot p when the wallets A have claimed.
Held(p, A) ==
    IF p.phase = "Settled"
    THEN p.rolloverReserve - PaidTo(p, A) + p.bonusReserve - p.claimedBonusAmount
         + p.polAccumulated
    ELSE p.funded

\* A pot is claimed from only once it is settled, no further than the shares and
\* the bonus total that the oracle posted with it.
PotOK(p, A) ==
    /\ p \in Pot
    /\ p.phase # "Settled" => A = {} /\ p.claimedBonusAmount = 0
    /\ p.phase = "Settled" =>
          /\ p.totalRolloverShares > 0
          /\ p.claimedRolloverShares = SharesOf(p, A)
          /\ p.claimedRolloverShares <= p.totalRolloverShares
          /\ p.claimedBonusAmount <= p.totalBonusAmount
          /\ p.totalBonusAmount <= p.bonusReserve

LEMMA PotNumbers ==
  ASSUME NEW p \in Pot
  PROVE  /\ p.funded \in Nat /\ p.rolloverReserve \in Nat /\ p.bonusReserve \in Nat
         /\ p.polAccumulated \in Nat /\ p.totalRolloverShares \in Nat
         /\ p.claimedRolloverShares \in Nat /\ p.totalBonusAmount \in Nat
         /\ p.claimedBonusAmount \in Nat
         /\ p.rolloverRoot \in Trees /\ p.bonusRoot \in Trees
         /\ p.winner \in Tokens \cup {NoToken} /\ p.bonusUnlocked \in BOOLEAN
         /\ \A u \in Users : Share(p, u) \in Nat /\ p.bonusRoot.amountOf[u] \in Nat
<1>1. p.rolloverRoot \in Trees /\ p.bonusRoot \in Trees
  BY DEF Pot
<1>2. \A u \in Users : Share(p, u) \in Nat /\ p.bonusRoot.amountOf[u] \in Nat
  BY <1>1 DEF Trees, Share
<1> QED
  BY <1>1, <1>2 DEF Pot

LEMMA AmountType ==
  ASSUME NEW p \in Pot, p.totalRolloverShares > 0, NEW u \in Users
  PROVE  RolloverAmount(p, u) \in Nat
<1> DEFINE n == Share(p, u) * p.rolloverReserve   d == p.totalRolloverShares
<1>1. n \in Nat /\ d \in Nat /\ d > 0
  BY PotNumbers
<1>2. RolloverAmount(p, u) = n \div d
  BY DEF RolloverAmount
<1> HIDE DEF n, d
<1> QED
  BY <1>1, <1>2, Division

\* The floors of the pro-rata amounts never exceed the rollover slice, and the
\* bonus never exceeds the bonus slice.
LEMMA HeldType ==
  ASSUME NEW p, NEW A \in SUBSET Users, PotOK(p, A)
  PROVE  /\ Held(p, A) \in Nat
         /\ p.phase = "Settled" =>
              /\ PaidTo(p, A) \in Nat /\ PaidTo(p, A) <= p.rolloverReserve
              /\ p.claimedBonusAmount <= p.bonusReserve
<1>1. CASE p.phase # "Settled"
  BY <1>1, PotNumbers DEF Held, PotOK
<1>2. CASE p.phase = "Settled"
  <2> DEFINE f == [u \in A |-> Share(p, u)]
             g == [u \in A |-> RolloverAmount(p, u)]
             w == p.rolloverReserve
             all == p.totalRolloverShares
  <2>1. p \in Pot /\ all > 0 /\ all \in Nat /\ w \in Nat /\ IsFiniteSet(A)
    BY <1>2, PotNumbers, SeasonConstants, FS_Subset DEF PotOK
  <2>2. f \in [A -> Nat] /\ g \in [A -> Nat]
    BY <2>1, PotNumbers, AmountType
  <2>3. Total(f) <= all
    BY <1>2 DEF PotOK, SharesOf
  <2>4. \A u \in A : g[u] = (f[u] * w) \div all
    BY DEF RolloverAmount
  <2> HIDE DEF f, g, w, all
  <2>5. Total(g) <= w
    BY <2>1, <2>2, <2>3, <2>4, ProRata
  <2>6. Total(g) \in Nat
    BY <2>1, <2>2, TotalType
  <2>7. PaidTo(p, A) \in Nat /\ PaidTo(p, A) <= p.rolloverReserve
    BY <2>5, <2>6 DEF PaidTo, g, w
  <2>8. p.claimedBonusAmount <= p.bonusReserve
    BY <1>2, <2>1, PotNumbers DEF PotOK
  <2> QED
    BY <1>2, <2>1, <2>7, <2>8, PotNumbers DEF Held
<1> QED
  BY <1>1, <1>2

(***************************************************************************)
(* The vault's books                                                       *)
(***************************************************************************)

\* The wallets that have claimed rollover from pot k.
Claimers(b, k) == {v \in Users : <<k, v>> \in b.rolloverClaimed}

\* The inductive invariant of the money: every pot is in order, and the balance is
\* what is left in all of them.
BooksOK(b) ==
    /\ b \in VaultState
    /\ \A k \in Tournaments : PotOK(b.pots[k], Claimers(b, k))
    /\ b.balance = Total([k \in Tournaments |-> Held(b.pots[k], Claimers(b, k))])

LEMMA EmptyBooksOK == BooksOK(EmptyVault)
<1> DEFINE b == EmptyVault
           f == [k \in Tournaments |-> Held(b.pots[k], Claimers(b, k))]
<1>1. /\ IdlePot \in Pot /\ IdlePot.phase # "Settled" /\ IdlePot.funded = 0
      /\ IdlePot.claimedBonusAmount = 0
  BY DEF IdlePot, Pot, Trees, NoTree
<1>2. /\ b \in VaultState /\ b.balance = 0
      /\ \A k \in Tournaments : b.pots[k] = IdlePot /\ Claimers(b, k) = {}
  BY <1>1 DEF EmptyVault, VaultState, Claimers
<1>3. f \in [Tournaments -> Nat] /\ \A k \in Tournaments : f[k] = 0
  BY <1>1, <1>2 DEF Held
<1>4. Total(f) = 0
  <2> HIDE DEF f
  <2> QED
    BY <1>3, TotalZero
<1> QED
  BY <1>1, <1>2, <1>4 DEF BooksOK, PotOK

\* The books stay in order when one pot does, and the balance changes by as much
\* as what is left in that pot.
LEMMA OnePotOK ==
  ASSUME NEW b, BooksOK(b), NEW c \in VaultState, NEW k \in Tournaments,
         PotOK(c.pots[k], Claimers(c, k)),
         \A j \in Tournaments \ {k} :
             c.pots[j] = b.pots[j] /\ Claimers(c, j) = Claimers(b, j),
         c.balance + Held(b.pots[k], Claimers(b, k)) = b.balance + Held(c.pots[k], Claimers(c, k))
  PROVE  BooksOK(c)
<1> DEFINE f == [j \in Tournaments |-> Held(b.pots[j], Claimers(b, j))]
           g == [j \in Tournaments |-> Held(c.pots[j], Claimers(c, j))]
<1>1. \A j \in Tournaments : PotOK(c.pots[j], Claimers(c, j))
  BY DEF BooksOK
<1>2. \A j \in Tournaments : Claimers(b, j) \in SUBSET Users /\ Claimers(c, j) \in SUBSET Users
  BY DEF Claimers
<1>3. f \in [Tournaments -> Nat] /\ g \in [Tournaments -> Nat]
  <2>1. \A j \in Tournaments : Held(b.pots[j], Claimers(b, j)) \in Nat
    BY <1>2, HeldType DEF BooksOK
  <2>2. \A j \in Tournaments : Held(c.pots[j], Claimers(c, j)) \in Nat
    BY <1>1, <1>2, HeldType
  <2> QED
    BY <2>1, <2>2
<1>4. \A j \in Tournaments \ {k} : g[j] = f[j]
  OBVIOUS
<1>5. c.balance + f[k] = b.balance + g[k] /\ b.balance = Total(f)
  BY DEF BooksOK
<1>6. c.balance \in Nat /\ b.balance \in Nat
  BY DEF BooksOK, VaultState
<1> HIDE DEF f, g
<1>7. Total(g) + f[k] = Total(f) + g[k] /\ Total(f) \in Nat /\ Total(g) \in Nat
  BY <1>3, <1>4, TournamentsFinite, TotalUpdate, TotalType
<1>8. f[k] \in Nat /\ g[k] \in Nat
  BY <1>3
<1>9. c.balance = Total(g)
  BY <1>5, <1>6, <1>7, <1>8
<1> QED
  BY <1>1, <1>9 DEF BooksOK, g

\* The balance covers what is left in each pot.
LEMMA BalanceCoversPot ==
  ASSUME NEW b, BooksOK(b), NEW k \in Tournaments
  PROVE  Held(b.pots[k], Claimers(b, k)) <= b.balance
<1> DEFINE f == [j \in Tournaments |-> Held(b.pots[j], Claimers(b, j))]
<1>1. f \in [Tournaments -> Nat]
  <2>1. \A j \in Tournaments : Claimers(b, j) \in SUBSET Users
    BY DEF Claimers
  <2> QED
    BY <2>1, HeldType DEF BooksOK
<1>2. b.balance = Total(f) /\ f[k] = Held(b.pots[k], Claimers(b, k))
  BY DEF BooksOK
<1> HIDE DEF f
<1> QED
  BY <1>1, <1>2, TournamentsFinite, TotalMember

(***************************************************************************)
(* The steps of a pot                                                      *)
(***************************************************************************)

\* A step that exchanges pot k for p and the balance for v, and pays no rollover.
LEMMA SamePotOK ==
  ASSUME NEW b, BooksOK(b), NEW c, NEW k \in Tournaments, NEW p \in Pot, NEW v \in Nat,
         c.pots = [b.pots EXCEPT ![k] = p], c.rolloverClaimed = b.rolloverClaimed,
         c.balance = v, c \in VaultState,
         PotOK(p, Claimers(b, k)),
         v + Held(b.pots[k], Claimers(b, k)) = b.balance + Held(p, Claimers(b, k))
  PROVE  BooksOK(c)
<1>1. b.pots \in [Tournaments -> Pot]
  BY DEF BooksOK, VaultState
<1>2. c.pots[k] = p /\ \A j \in Tournaments \ {k} : c.pots[j] = b.pots[j]
  BY <1>1
<1>3. \A j \in Tournaments : Claimers(c, j) = Claimers(b, j)
  BY DEF Claimers
<1> QED
  BY <1>2, <1>3, OnePotOK

\* fundQuarterly, fundAnnual.
LEMMA FundStep ==
  ASSUME BooksOK(vault), NEW k \in Tournaments, NEW amount \in Nat, Fund(k, amount)
  PROVE  BooksOK(vault')
<1> DEFINE b == vault
           p == b.pots[k]
           q == FundedPot(p, amount)
           v == b.balance + amount
           A == Claimers(b, k)
<1>1. b \in VaultState /\ p \in Pot /\ b.balance \in Nat /\ b.pots \in [Tournaments -> Pot]
  BY DEF BooksOK, VaultState
<1>2. p.phase # "Settled"
  BY DEF Fund, CanFund
<1>3. /\ q \in Pot /\ q.phase = "Open" /\ q.funded = p.funded + amount
      /\ q.claimedBonusAmount = p.claimedBonusAmount
  <2> HIDE DEF p
  <2> QED
    BY <1>1, FundedPotFields
<1>4. vault' = [pots |-> [b.pots EXCEPT ![k] = q], rolloverClaimed |-> b.rolloverClaimed,
                bonusClaimed |-> b.bonusClaimed, balance |-> v]
  <2>1. q = [p EXCEPT !.phase = "Open", !.funded = p.funded + amount]
    BY Zenon DEF FundedPot
  <2>2. vault' = [b EXCEPT !.pots = [b.pots EXCEPT ![k] = q], !.balance = v]
    BY <2>1, Zenon DEF Fund
  <2> QED
    BY <1>1, <2>2, PaidFields
<1>5. PotOK(p, A)
  BY DEF BooksOK
<1>6. p.funded \in Nat /\ v \in Nat
  BY <1>1, PotNumbers
<1> HIDE DEF q
<1>7. PotOK(q, A) /\ Held(q, A) = Held(p, A) + amount
  BY <1>2, <1>3, <1>5 DEF PotOK, Held
<1>8. [b.pots EXCEPT ![k] = q] \in [Tournaments -> Pot]
  BY <1>1, <1>3
<1>9. vault' \in VaultState
  BY <1>1, <1>4, <1>6, <1>8 DEF VaultState
<1>10. Held(p, A) = p.funded
  BY <1>2 DEF Held
<1>11. v + Held(p, A) = b.balance + Held(q, A)
  BY <1>1, <1>6, <1>7, <1>10
<1>12. /\ vault'.pots = [b.pots EXCEPT ![k] = q] /\ vault'.rolloverClaimed = b.rolloverClaimed
       /\ vault'.balance = v
  BY <1>4
<1> HIDE DEF v
<1> QED
  BY <1>3, <1>6, <1>7, <1>9, <1>11, <1>12, SamePotOK DEF p, A

\* submitQuarterlyWinner, submitAnnualWinner.
LEMMA SettleStep ==
  ASSUME BooksOK(vault), NEW k \in Tournaments, NEW w \in Tokens, NEW o \in OracleRoots,
         SubmitWinner(k, w, o)
  PROVE  BooksOK(vault') /\ vault'.pots[k].winner = w
           /\ \A j \in Tournaments \ {k} : vault'.pots[j].winner = vault.pots[j].winner
<1> DEFINE b == vault
           p == b.pots[k]
           slice == Split(p.funded)
           q == [phase |-> "Settled", funded |-> p.funded, winner |-> w,
                 bountyAmount |-> slice.bounty, rolloverReserve |-> slice.rollover,
                 bonusReserve |-> slice.bonus, polAccumulated |-> slice.pol,
                 rolloverRoot |-> o.rolloverRoot,
                 totalRolloverShares |-> o.totalRolloverShares, claimedRolloverShares |-> 0,
                 bonusRoot |-> o.bonusRoot, totalBonusAmount |-> o.totalBonusAmount,
                 claimedBonusAmount |-> 0, bonusUnlocked |-> FALSE]
           v == b.balance - slice.bounty - slice.mechanics - slice.treasury
           A == Claimers(b, k)
<1>1. /\ b \in VaultState /\ p \in Pot /\ b.balance \in Nat /\ b.pots \in [Tournaments -> Pot]
      /\ PotOK(p, A) /\ p.funded \in Nat
  BY PotNumbers DEF BooksOK, VaultState
<1>2. p.phase = "Open" /\ o.totalBonusAmount <= slice.bonus
  BY DEF SubmitWinner, CanSettle
<1>3. /\ o.rolloverRoot \in Trees /\ o.totalRolloverShares \in Nat /\ o.totalRolloverShares > 0
      /\ o.bonusRoot \in Trees /\ o.totalBonusAmount \in Nat
  BY TournamentConstants
<1>4. /\ slice.bounty \in Nat /\ slice.rollover \in Nat /\ slice.bonus \in Nat
      /\ slice.mechanics \in Nat /\ slice.pol \in Nat /\ slice.treasury \in Nat
      /\ p.funded = slice.bounty + slice.rollover + slice.bonus + slice.mechanics + slice.pol
                    + slice.treasury
  <2> HIDE DEF p
  <2> QED
    BY <1>1, SliceSplits
<1>5. vault' = [pots |-> [b.pots EXCEPT ![k] = q], rolloverClaimed |-> b.rolloverClaimed,
                bonusClaimed |-> b.bonusClaimed, balance |-> v]
  <2>1. vault' = [b EXCEPT !.pots = [b.pots EXCEPT ![k] = q], !.balance = v]
    BY Zenon DEF SubmitWinner
  <2> QED
    BY <1>1, <2>1, PaidFields
<1>6. A = {} /\ Held(p, A) = p.funded
  BY <1>1, <1>2 DEF PotOK, Held
<1> HIDE DEF slice, p
<1>7. q \in Pot
  BY <1>1, <1>3, <1>4 DEF Pot
<1>8. /\ q.phase = "Settled" /\ q.totalRolloverShares = o.totalRolloverShares
      /\ q.claimedRolloverShares = 0 /\ q.claimedBonusAmount = 0
      /\ q.totalBonusAmount = o.totalBonusAmount /\ q.bonusReserve = slice.bonus
      /\ q.rolloverReserve = slice.rollover /\ q.polAccumulated = slice.pol /\ q.winner = w
  OBVIOUS
<1> HIDE DEF q
<1>9. SharesOf(q, {}) = 0 /\ PaidTo(q, {}) = 0
  <2> DEFINE f == [u \in {} |-> Share(q, u)]
             g == [u \in {} |-> RolloverAmount(q, u)]
  <2>1. f \in [{} -> Nat] /\ g \in [{} -> Nat]
    OBVIOUS
  <2> HIDE DEF f, g
  <2>2. Total(f) = 0 /\ Total(g) = 0
    BY <2>1, TotalZero
  <2> QED
    BY <2>2 DEF f, g, SharesOf, PaidTo
<1>10. PotOK(q, A)
  BY <1>2, <1>3, <1>6, <1>7, <1>8, <1>9 DEF PotOK
<1>11. Held(q, A) = slice.rollover + slice.bonus + slice.pol
  BY <1>4, <1>6, <1>8, <1>9 DEF Held
<1>12. p.funded <= b.balance
  BY <1>6, BalanceCoversPot DEF p
<1>13. v \in Nat /\ v + Held(p, A) = b.balance + Held(q, A)
  <2> DEFINE x == b.balance   bo == slice.bounty   ro == slice.rollover   nu == slice.bonus
             me == slice.mechanics   po == slice.pol   tr == slice.treasury   fu == p.funded
  <2>1. /\ x \in Nat /\ bo \in Nat /\ ro \in Nat /\ nu \in Nat /\ me \in Nat /\ po \in Nat
        /\ tr \in Nat /\ fu = bo + ro + nu + me + po + tr /\ fu <= x
    BY <1>1, <1>4, <1>12
  <2>2. v = x - bo - me - tr /\ Held(p, A) = fu /\ Held(q, A) = ro + nu + po
    BY <1>6, <1>11
  <2> HIDE DEF x, bo, ro, nu, me, po, tr, fu, v
  <2>3. x - bo - me - tr \in Nat /\ (x - bo - me - tr) + fu = x + (ro + nu + po)
    BY <2>1
  <2> QED
    BY <2>2, <2>3 DEF x
<1> HIDE DEF v
<1>14. [b.pots EXCEPT ![k] = q] \in [Tournaments -> Pot]
  BY <1>1, <1>7
<1>15. vault' \in VaultState
  BY <1>1, <1>5, <1>13, <1>14 DEF VaultState
<1>16. /\ vault'.pots = [b.pots EXCEPT ![k] = q] /\ vault'.rolloverClaimed = b.rolloverClaimed
       /\ vault'.balance = v
  BY <1>5
<1>17. BooksOK(vault')
  BY <1>7, <1>10, <1>13, <1>15, <1>16, SamePotOK DEF p, A
<1> QED
  BY <1>1, <1>8, <1>16, <1>17

\* The clock passes bonusUnlockTime.
LEMMA UnlockStep ==
  ASSUME BooksOK(vault), NEW k \in Tournaments, UnlockBonus(k)
  PROVE  BooksOK(vault')
<1> DEFINE b == vault
           p == b.pots[k]
           q == [p EXCEPT !.bonusUnlocked = TRUE]
           A == Claimers(b, k)
<1>1. /\ b \in VaultState /\ p \in Pot /\ b.balance \in Nat /\ b.pots \in [Tournaments -> Pot]
      /\ PotOK(p, A)
  BY DEF BooksOK, VaultState
<1>2. p.phase = "Settled"
  BY DEF UnlockBonus
<1>3. vault' = [b EXCEPT !.pots = [b.pots EXCEPT ![k] = q]]
  BY Zenon DEF UnlockBonus
<1> HIDE DEF p
<1>4. /\ q \in Pot /\ q.phase = p.phase /\ q.rolloverReserve = p.rolloverReserve
      /\ q.bonusReserve = p.bonusReserve /\ q.polAccumulated = p.polAccumulated
      /\ q.rolloverRoot = p.rolloverRoot /\ q.totalRolloverShares = p.totalRolloverShares
      /\ q.claimedRolloverShares = p.claimedRolloverShares
      /\ q.totalBonusAmount = p.totalBonusAmount /\ q.claimedBonusAmount = p.claimedBonusAmount
  BY <1>1 DEF Pot
<1> HIDE DEF q
<1>5. SharesOf(q, A) = SharesOf(p, A) /\ PaidTo(q, A) = PaidTo(p, A)
  BY <1>4 DEF SharesOf, PaidTo, Share, RolloverAmount
<1>6. PotOK(q, A) /\ Held(q, A) = Held(p, A)
  BY <1>1, <1>2, <1>4, <1>5 DEF PotOK, Held
<1>7. [b.pots EXCEPT ![k] = q] \in [Tournaments -> Pot]
  BY <1>1, <1>4
<1>8. /\ vault' \in VaultState /\ vault'.pots = [b.pots EXCEPT ![k] = q]
      /\ vault'.rolloverClaimed = b.rolloverClaimed /\ vault'.balance = b.balance
  BY <1>1, <1>3, <1>7 DEF VaultState
<1> QED
  BY <1>1, <1>4, <1>6, <1>8, SamePotOK DEF p, A

\* A wallet that claims joins the claimers of its pot, and of no other.
LEMMA ClaimersJoin ==
  ASSUME NEW b, NEW c, NEW k \in Tournaments, NEW u \in Users,
         c.rolloverClaimed = b.rolloverClaimed \cup {<<k, u>>}
  PROVE  /\ Claimers(c, k) = Claimers(b, k) \cup {u}
         /\ \A j \in Tournaments \ {k} : Claimers(c, j) = Claimers(b, j)
  BY DEF Claimers

\* claimQuarterlyRollover, claimAnnualRollover.
LEMMA RolloverStep ==
  ASSUME BooksOK(vault), NEW k \in Tournaments, NEW u \in Users, ClaimRollover(k, u)
  PROVE  BooksOK(vault')
<1> DEFINE b == vault
           p == b.pots[k]
           n == Share(p, u)
           a == RolloverAmount(p, u)
           q == [p EXCEPT !.claimedRolloverShares = @ + n]
           C == b.rolloverClaimed \cup {<<k, u>>}
           P == [b.pots EXCEPT ![k] = q]
           v == b.balance - a
           A == Claimers(b, k)
<1>1. /\ b \in VaultState /\ p \in Pot /\ b.balance \in Nat /\ b.pots \in [Tournaments -> Pot]
      /\ PotOK(p, A) /\ b.rolloverClaimed \subseteq Tournaments \X Users
      /\ b.bonusClaimed \subseteq Tournaments \X Users
  BY DEF BooksOK, VaultState
<1>2. /\ p.phase = "Settled" /\ <<k, u>> \notin b.rolloverClaimed
      /\ p.claimedRolloverShares + n <= p.totalRolloverShares /\ a <= b.balance
  BY DEF ClaimRollover, CanClaimRollover
<1>3. n \in Nat /\ p.claimedRolloverShares \in Nat /\ a \in Nat
  BY <1>1, <1>2, PotNumbers, AmountType DEF PotOK
<1>4. v \in Nat
  BY <1>1, <1>2, <1>3
<1>5. vault' = [b EXCEPT !.rolloverClaimed = C, !.pots = P, !.balance = v]
  BY Zenon DEF ClaimRollover
<1> HIDE DEF p, n, a
<1>6. /\ q \in Pot /\ q.phase = p.phase /\ q.rolloverReserve = p.rolloverReserve
      /\ q.bonusReserve = p.bonusReserve /\ q.polAccumulated = p.polAccumulated
      /\ q.rolloverRoot = p.rolloverRoot /\ q.totalRolloverShares = p.totalRolloverShares
      /\ q.claimedRolloverShares = p.claimedRolloverShares + n
      /\ q.totalBonusAmount = p.totalBonusAmount /\ q.claimedBonusAmount = p.claimedBonusAmount
  BY <1>1, <1>3 DEF Pot
<1> HIDE DEF q
<1>7. \A x \in Users : Share(q, x) = Share(p, x) /\ RolloverAmount(q, x) = RolloverAmount(p, x)
  BY <1>6 DEF Share, RolloverAmount
<1>8. P \in [Tournaments -> Pot] /\ P[k] = q /\ \A j \in Tournaments \ {k} : P[j] = b.pots[j]
  BY <1>1, <1>6
<1>9. C \subseteq Tournaments \X Users
  BY <1>1
<1> HIDE DEF C, P, v
<1>10. vault' = [pots |-> P, rolloverClaimed |-> C, bonusClaimed |-> b.bonusClaimed,
                 balance |-> v]
  BY <1>1, <1>5, RolloverFields
<1>11. /\ vault' \in VaultState /\ vault'.pots = P /\ vault'.rolloverClaimed = C
       /\ vault'.balance = v
  BY <1>1, <1>4, <1>8, <1>9, <1>10 DEF VaultState
<1>12. /\ Claimers(vault', k) = A \cup {u}
       /\ \A j \in Tournaments \ {k} : Claimers(vault', j) = Claimers(b, j)
  BY <1>11, ClaimersJoin DEF C
<1>13. A \in SUBSET Users /\ u \in Users \ A
  BY <1>2 DEF Claimers
<1> HIDE DEF A
<1>14. SharesOf(q, A \cup {u}) = SharesOf(p, A) + n
  <2> DEFINE w == [x \in Users |-> Share(p, x)]
             f == [x \in A |-> Share(p, x)]
             g == [x \in A \cup {u} |-> Share(q, x)]
  <2>5. \A x \in Users : Share(p, x) \in Nat
    BY <1>1, PotNumbers
  <2>1. /\ w \in [Users -> Nat] /\ f \in [A -> Nat] /\ g \in [A \cup {u} -> Nat]
        /\ (\A y \in A : f[y] = w[y]) /\ \A y \in A \cup {u} : g[y] = w[y]
    BY <2>5, <1>7, <1>13
  <2>2. w[u] = n
    BY DEF n
  <2> HIDE DEF w, f, g
  <2>3. Total(g) = Total(f) + w[u] /\ Total(f) \in Nat
    BY <1>13, <2>1, SeasonConstants, TotalJoin
  <2> QED
    BY <2>2, <2>3 DEF SharesOf, f, g
<1>15. PaidTo(q, A \cup {u}) = PaidTo(p, A) + a /\ PaidTo(p, A) \in Nat
  <2> DEFINE w == [x \in Users |-> RolloverAmount(p, x)]
             f == [x \in A |-> RolloverAmount(p, x)]
             g == [x \in A \cup {u} |-> RolloverAmount(q, x)]
  <2>1. \A x \in Users : RolloverAmount(p, x) \in Nat
    BY <1>1, <1>2, AmountType DEF PotOK
  <2>2. /\ w \in [Users -> Nat] /\ f \in [A -> Nat] /\ g \in [A \cup {u} -> Nat]
        /\ (\A y \in A : f[y] = w[y]) /\ \A y \in A \cup {u} : g[y] = w[y]
    BY <2>1, <1>7, <1>13
  <2>3. w[u] = a
    BY DEF a
  <2> HIDE DEF w, f, g
  <2>4. Total(g) = Total(f) + w[u] /\ Total(f) \in Nat
    BY <1>13, <2>2, SeasonConstants, TotalJoin
  <2> QED
    BY <2>3, <2>4 DEF PaidTo, f, g
<1>16. PotOK(q, A \cup {u})
  BY <1>1, <1>2, <1>3, <1>6, <1>14 DEF PotOK
<1>17. v + Held(p, A) = b.balance + Held(q, A \cup {u})
  <2> DEFINE x == b.balance   ro == p.rolloverReserve   nu == p.bonusReserve
             po == p.polAccumulated   cl == p.claimedBonusAmount   pd == PaidTo(p, A)
  <2>1. x \in Nat /\ ro \in Nat /\ nu \in Nat /\ po \in Nat /\ cl \in Nat /\ pd \in Nat
    BY <1>1, <1>15, PotNumbers
  <2>2. /\ v = x - a /\ Held(p, A) = ro - pd + nu - cl + po
        /\ Held(q, A \cup {u}) = ro - (pd + a) + nu - cl + po
    BY <1>2, <1>6, <1>15 DEF Held, v
  <2> HIDE DEF x, ro, nu, po, cl, pd
  <2>3. (x - a) + (ro - pd + nu - cl + po) = x + (ro - (pd + a) + nu - cl + po)
    BY <1>3, <2>1
  <2> QED
    BY <2>2, <2>3 DEF x
<1> QED
  BY <1>8, <1>11, <1>12, <1>16, <1>17, OnePotOK DEF A, p

\* claimQuarterlyBonus, claimAnnualBonus.
LEMMA BonusStep ==
  ASSUME BooksOK(vault), NEW k \in Tournaments, NEW u \in Users, ClaimBonus(k, u)
  PROVE  BooksOK(vault')
<1> DEFINE b == vault
           p == b.pots[k]
           a == p.bonusRoot.amountOf[u]
           q == [p EXCEPT !.claimedBonusAmount = @ + a]
           D == b.bonusClaimed \cup {<<k, u>>}
           P == [b.pots EXCEPT ![k] = q]
           v == b.balance - a
           A == Claimers(b, k)
<1>1. /\ b \in VaultState /\ p \in Pot /\ b.balance \in Nat /\ b.pots \in [Tournaments -> Pot]
      /\ PotOK(p, A) /\ b.rolloverClaimed \subseteq Tournaments \X Users
      /\ b.bonusClaimed \subseteq Tournaments \X Users
  BY DEF BooksOK, VaultState
<1>2. /\ p.phase = "Settled" /\ p.claimedBonusAmount + a <= p.totalBonusAmount
      /\ a <= b.balance
  BY DEF ClaimBonus, CanClaimBonus
<1>3. a \in Nat /\ p.claimedBonusAmount \in Nat
  BY <1>1, PotNumbers
<1>4. v \in Nat
  BY <1>1, <1>2, <1>3
<1>5. vault' = [b EXCEPT !.bonusClaimed = D, !.pots = P, !.balance = v]
  BY Zenon DEF ClaimBonus
<1> HIDE DEF p, a
<1>6. /\ q \in Pot /\ q.phase = p.phase /\ q.rolloverReserve = p.rolloverReserve
      /\ q.bonusReserve = p.bonusReserve /\ q.polAccumulated = p.polAccumulated
      /\ q.rolloverRoot = p.rolloverRoot /\ q.totalRolloverShares = p.totalRolloverShares
      /\ q.claimedRolloverShares = p.claimedRolloverShares
      /\ q.totalBonusAmount = p.totalBonusAmount
      /\ q.claimedBonusAmount = p.claimedBonusAmount + a
  BY <1>1, <1>3 DEF Pot
<1> HIDE DEF q
<1>7. SharesOf(q, A) = SharesOf(p, A) /\ PaidTo(q, A) = PaidTo(p, A)
  BY <1>6 DEF SharesOf, PaidTo, Share, RolloverAmount
<1>8. P \in [Tournaments -> Pot]
  BY <1>1, <1>6
<1>9. D \subseteq Tournaments \X Users
  BY <1>1
<1> HIDE DEF D, v
<1>10. vault' = [pots |-> P, rolloverClaimed |-> b.rolloverClaimed, bonusClaimed |-> D,
                 balance |-> v]
  BY <1>1, <1>5, BonusFields
<1>11. /\ vault' \in VaultState /\ vault'.pots = P
       /\ vault'.rolloverClaimed = b.rolloverClaimed /\ vault'.balance = v
  BY <1>1, <1>4, <1>8, <1>9, <1>10 DEF VaultState
<1>12. PotOK(q, A)
  BY <1>1, <1>2, <1>6, <1>7 DEF PotOK
<1>13. v + Held(p, A) = b.balance + Held(q, A)
  <2> DEFINE x == b.balance   ro == p.rolloverReserve   nu == p.bonusReserve
             po == p.polAccumulated   cl == p.claimedBonusAmount   pd == PaidTo(p, A)
  <2>1. x \in Nat /\ ro \in Nat /\ nu \in Nat /\ po \in Nat /\ cl \in Nat /\ pd \in Nat
    <3>1. A \in SUBSET Users
      BY DEF Claimers
    <3> QED
      BY <1>1, <1>2, <3>1, PotNumbers, HeldType
  <2>2. /\ v = x - a /\ Held(p, A) = ro - pd + nu - cl + po
        /\ Held(q, A) = ro - pd + nu - (cl + a) + po
    BY <1>2, <1>6, <1>7 DEF Held, v
  <2> HIDE DEF x, ro, nu, po, cl, pd
  <2>3. (x - a) + (ro - pd + nu - cl + po) = x + (ro - pd + nu - (cl + a) + po)
    BY <1>3, <2>1
  <2> QED
    BY <2>2, <2>3 DEF x
<1> QED
  BY <1>4, <1>6, <1>11, <1>12, <1>13, SamePotOK DEF A, p

(***************************************************************************)
(* The books and the settled pots, step by step                            *)
(***************************************************************************)

LEMMA BooksStep == BooksOK(vault) /\ [Next]_vars => BooksOK(vault')
<1> SUFFICES ASSUME BooksOK(vault), [Next]_vars PROVE BooksOK(vault')
  OBVIOUS
<1>1. ASSUME vault' = vault PROVE BooksOK(vault')
  BY <1>1
<1>2. ASSUME NEW s \in Seasons, NEW t \in Tokens, RecordWeeklyWinner(s, t)
      PROVE  BooksOK(vault')
  BY <1>1, <1>2 DEF RecordWeeklyWinner
<1>3. ASSUME NEW s \in Seasons, NEW losers \in SUBSET Tokens, MarkFiltered(s, losers)
      PROVE  BooksOK(vault')
  BY <1>1, <1>3 DEF MarkFiltered
<1>4. ASSUME NEW k \in Quarterlies, NEW entrants \in SUBSET Tokens,
             RecordQuarterlyFinalists(k, entrants)
      PROVE  BooksOK(vault')
  BY <1>1, <1>4 DEF RecordQuarterlyFinalists
<1>5. ASSUME NEW y \in Years, RecordAnnualFinalists(y)
      PROVE  BooksOK(vault')
  BY <1>1, <1>5 DEF RecordAnnualFinalists
<1>6. ASSUME NEW k \in Tournaments, NEW amount \in Deposits, Fund(k, amount)
      PROVE  BooksOK(vault')
  BY <1>6, FundStep, TournamentConstants
<1>7. ASSUME NEW k \in Tournaments, NEW w \in Tokens, NEW o \in OracleRoots,
             SubmitWinner(k, w, o)
      PROVE  BooksOK(vault')
  BY <1>7, SettleStep
<1>8. ASSUME NEW k \in Tournaments, NEW u \in Users, ClaimRollover(k, u) \/ ClaimBonus(k, u)
      PROVE  BooksOK(vault')
  BY <1>8, RolloverStep, BonusStep
<1>9. ASSUME NEW k \in Tournaments, UnlockBonus(k)
      PROVE  BooksOK(vault')
  BY <1>9, UnlockStep
<1>10. CASE UNCHANGED vars
  BY <1>1, <1>10 DEF vars
<1> QED
  BY <1>2, <1>3, <1>4, <1>5, <1>6, <1>7, <1>8, <1>9, <1>10, TournamentKeys
     DEF Next, FundQuarterly, FundAnnual, SubmitQuarterlyWinner, SubmitAnnualWinner,
         ClaimQuarterlyRollover, ClaimAnnualRollover, ClaimQuarterlyBonus, ClaimAnnualBonus

\* The slices of the pots are covered when the books are in order.
LEMMA BooksSegregate ==
  ASSUME BooksOK(vault), TypeOK
  PROVE  PotsAreSegregated
<1>1. ASSUME NEW k \in Tournaments
      PROVE  /\ RolloverPaid(k) <= vault.pots[k].rolloverReserve
             /\ vault.pots[k].claimedBonusAmount <= vault.pots[k].bonusReserve
             /\ HeldFor(k) = Held(vault.pots[k], Claimers(vault, k))
  <2> DEFINE p == vault.pots[k]
             A == Claimers(vault, k)
  <2>1. RolloverPaid(k) = PaidTo(p, A)
    BY DEF RolloverPaid, PaidTo, Claimers
  <2>2. HeldFor(k) = Held(p, A)
    BY <2>1 DEF HeldFor, Held
  <2>3. PotOK(p, A) /\ A \in SUBSET Users /\ p \in Pot
    BY DEF BooksOK, Claimers, PotOK
  <2>4. CASE p.phase = "Settled"
    BY <2>1, <2>2, <2>3, <2>4, HeldType
  <2>5. CASE p.phase # "Settled"
    <3> DEFINE g == [u \in A |-> RolloverAmount(p, u)]
    <3>1. A = {} /\ p.claimedBonusAmount = 0
      BY <2>3, <2>5 DEF PotOK
    <3>2. g \in [{} -> Nat]
      BY <3>1
    <3> HIDE DEF g
    <3>3. PaidTo(p, A) = 0
      <4>1. Total(g) = 0
        BY <3>2, TotalZero
      <4> QED
        BY <4>1 DEF PaidTo, g
    <3> QED
      BY <2>1, <2>2, <2>3, <3>1, <3>3, PotNumbers
  <2> QED
    BY <2>4, <2>5
<1> QED
  BY <1>1 DEF PotsAreSegregated, BooksOK

(***************************************************************************)
(* Settled pots                                                            *)
(***************************************************************************)

\* What a step may not do to settled pot p, which becomes q: as in
\* SettledPotsAreFinal.
OnlyClaimed(p, q) ==
    /\ q = [p EXCEPT !.claimedRolloverShares = q.claimedRolloverShares,
                     !.claimedBonusAmount = q.claimedBonusAmount,
                     !.bonusUnlocked = q.bonusUnlocked]
    /\ q.claimedRolloverShares >= p.claimedRolloverShares
    /\ q.claimedBonusAmount >= p.claimedBonusAmount
    /\ p.bonusUnlocked => q.bonusUnlocked

LEMMA OnlyClaimedFields ==
  ASSUME NEW p \in Pot, NEW x \in Nat, NEW y \in Nat, NEW z \in BOOLEAN, NEW q \in Pot,
         x >= p.claimedRolloverShares, y >= p.claimedBonusAmount, p.bonusUnlocked => z,
         q = [phase |-> p.phase, funded |-> p.funded, winner |-> p.winner,
              bountyAmount |-> p.bountyAmount, rolloverReserve |-> p.rolloverReserve,
              bonusReserve |-> p.bonusReserve, polAccumulated |-> p.polAccumulated,
              rolloverRoot |-> p.rolloverRoot,
              totalRolloverShares |-> p.totalRolloverShares, claimedRolloverShares |-> x,
              bonusRoot |-> p.bonusRoot, totalBonusAmount |-> p.totalBonusAmount,
              claimedBonusAmount |-> y, bonusUnlocked |-> z]
  PROVE  OnlyClaimed(p, q)
<1> DEFINE l == [p EXCEPT !.claimedRolloverShares = x]
           m == [l EXCEPT !.claimedBonusAmount = y]
           n == [m EXCEPT !.bonusUnlocked = z]
<1>1. /\ q.claimedRolloverShares = x /\ q.claimedBonusAmount = y /\ q.bonusUnlocked = z
  OBVIOUS
<1>2. [p EXCEPT !.claimedRolloverShares = x, !.claimedBonusAmount = y, !.bonusUnlocked = z] = n
  BY Zenon
<1>3. l = [phase |-> p.phase, funded |-> p.funded, winner |-> p.winner,
           bountyAmount |-> p.bountyAmount, rolloverReserve |-> p.rolloverReserve,
           bonusReserve |-> p.bonusReserve, polAccumulated |-> p.polAccumulated,
           rolloverRoot |-> p.rolloverRoot,
           totalRolloverShares |-> p.totalRolloverShares, claimedRolloverShares |-> x,
           bonusRoot |-> p.bonusRoot, totalBonusAmount |-> p.totalBonusAmount,
           claimedBonusAmount |-> p.claimedBonusAmount, bonusUnlocked |-> p.bonusUnlocked]
  BY DEF Pot
<1> HIDE DEF l
<1>8. m = [phase |-> p.phase, funded |-> p.funded, winner |-> p.winner,
           bountyAmount |-> p.bountyAmount, rolloverReserve |-> p.rolloverReserve,
           bonusReserve |-> p.bonusReserve, polAccumulated |-> p.polAccumulated,
           rolloverRoot |-> p.rolloverRoot,
           totalRolloverShares |-> p.totalRolloverShares, claimedRolloverShares |-> x,
           bonusRoot |-> p.bonusRoot, totalBonusAmount |-> p.totalBonusAmount,
           claimedBonusAmount |-> y, bonusUnlocked |-> p.bonusUnlocked]
  BY <1>3
<1> HIDE DEF m
<1>4. n = q
  BY <1>8
<1> HIDE DEF n
<1>5. q = [p EXCEPT !.claimedRolloverShares = x, !.claimedBonusAmount = y, !.bonusUnlocked = z]
  BY <1>2, <1>4
<1>6. q = [p EXCEPT !.claimedRolloverShares = q.claimedRolloverShares,
                    !.claimedBonusAmount = q.claimedBonusAmount,
                    !.bonusUnlocked = q.bonusUnlocked]
  BY <1>1, <1>5, Zenon
<1>7. /\ q.claimedRolloverShares >= p.claimedRolloverShares
      /\ q.claimedBonusAmount >= p.claimedBonusAmount
      /\ p.bonusUnlocked => q.bonusUnlocked
  BY <1>1
<1> QED
  BY <1>6, <1>7, Zenon DEF OnlyClaimed

LEMMA OnlyClaimedSame == ASSUME NEW p \in Pot PROVE OnlyClaimed(p, p)
<1>1. p = [phase |-> p.phase, funded |-> p.funded, winner |-> p.winner,
           bountyAmount |-> p.bountyAmount, rolloverReserve |-> p.rolloverReserve,
           bonusReserve |-> p.bonusReserve, polAccumulated |-> p.polAccumulated,
           rolloverRoot |-> p.rolloverRoot,
           totalRolloverShares |-> p.totalRolloverShares,
           claimedRolloverShares |-> p.claimedRolloverShares,
           bonusRoot |-> p.bonusRoot, totalBonusAmount |-> p.totalBonusAmount,
           claimedBonusAmount |-> p.claimedBonusAmount, bonusUnlocked |-> p.bonusUnlocked]
  BY DEF Pot
<1>2. /\ p.claimedRolloverShares \in Nat /\ p.claimedBonusAmount \in Nat
      /\ p.bonusUnlocked \in BOOLEAN
  BY PotNumbers
<1>3. /\ p.claimedRolloverShares >= p.claimedRolloverShares
      /\ p.claimedBonusAmount >= p.claimedBonusAmount
  BY <1>2
<1> QED
  BY <1>1, <1>2, <1>3, OnlyClaimedFields

LEMMA RolloverOnlyClaims ==
  ASSUME NEW p \in Pot, NEW n \in Nat
  PROVE  OnlyClaimed(p, [p EXCEPT !.claimedRolloverShares = @ + n])
<1> DEFINE x == p.claimedRolloverShares + n
           q == [p EXCEPT !.claimedRolloverShares = x]
<1>1. /\ x \in Nat /\ x >= p.claimedRolloverShares /\ p.claimedBonusAmount \in Nat
      /\ p.claimedBonusAmount >= p.claimedBonusAmount /\ p.bonusUnlocked \in BOOLEAN
  BY PotNumbers
<1> HIDE DEF x
<1>2. /\ q \in Pot
      /\ q = [phase |-> p.phase, funded |-> p.funded, winner |-> p.winner,
              bountyAmount |-> p.bountyAmount, rolloverReserve |-> p.rolloverReserve,
              bonusReserve |-> p.bonusReserve, polAccumulated |-> p.polAccumulated,
              rolloverRoot |-> p.rolloverRoot,
              totalRolloverShares |-> p.totalRolloverShares, claimedRolloverShares |-> x,
              bonusRoot |-> p.bonusRoot, totalBonusAmount |-> p.totalBonusAmount,
              claimedBonusAmount |-> p.claimedBonusAmount, bonusUnlocked |-> p.bonusUnlocked]
  BY <1>1 DEF Pot
<1> HIDE DEF q
<1>3. OnlyClaimed(p, q)
  BY <1>1, <1>2, OnlyClaimedFields
<1> QED
  BY <1>3, Zenon DEF q, x

LEMMA BonusOnlyClaims ==
  ASSUME NEW p \in Pot, NEW n \in Nat
  PROVE  OnlyClaimed(p, [p EXCEPT !.claimedBonusAmount = @ + n])
<1> DEFINE y == p.claimedBonusAmount + n
           q == [p EXCEPT !.claimedBonusAmount = y]
<1>1. /\ y \in Nat /\ y >= p.claimedBonusAmount /\ p.claimedRolloverShares \in Nat
      /\ p.claimedRolloverShares >= p.claimedRolloverShares /\ p.bonusUnlocked \in BOOLEAN
  BY PotNumbers
<1> HIDE DEF y
<1>2. /\ q \in Pot
      /\ q = [phase |-> p.phase, funded |-> p.funded, winner |-> p.winner,
              bountyAmount |-> p.bountyAmount, rolloverReserve |-> p.rolloverReserve,
              bonusReserve |-> p.bonusReserve, polAccumulated |-> p.polAccumulated,
              rolloverRoot |-> p.rolloverRoot,
              totalRolloverShares |-> p.totalRolloverShares,
              claimedRolloverShares |-> p.claimedRolloverShares,
              bonusRoot |-> p.bonusRoot, totalBonusAmount |-> p.totalBonusAmount,
              claimedBonusAmount |-> y, bonusUnlocked |-> p.bonusUnlocked]
  BY <1>1 DEF Pot
<1> HIDE DEF q
<1>3. OnlyClaimed(p, q)
  BY <1>1, <1>2, OnlyClaimedFields
<1> QED
  BY <1>3, Zenon DEF q, y

LEMMA UnlockOnlyClaims ==
  ASSUME NEW p \in Pot
  PROVE  OnlyClaimed(p, [p EXCEPT !.bonusUnlocked = TRUE])
<1> DEFINE z == TRUE
           q == [p EXCEPT !.bonusUnlocked = z]
<1>1. /\ z \in BOOLEAN /\ z
      /\ p.claimedBonusAmount \in Nat /\ p.claimedRolloverShares \in Nat
      /\ p.claimedBonusAmount >= p.claimedBonusAmount
      /\ p.claimedRolloverShares >= p.claimedRolloverShares
  BY PotNumbers
<1> HIDE DEF z
<1>2. p = [phase |-> p.phase, funded |-> p.funded, winner |-> p.winner,
           bountyAmount |-> p.bountyAmount, rolloverReserve |-> p.rolloverReserve,
           bonusReserve |-> p.bonusReserve, polAccumulated |-> p.polAccumulated,
           rolloverRoot |-> p.rolloverRoot,
           totalRolloverShares |-> p.totalRolloverShares,
           claimedRolloverShares |-> p.claimedRolloverShares,
           bonusRoot |-> p.bonusRoot, totalBonusAmount |-> p.totalBonusAmount,
           claimedBonusAmount |-> p.claimedBonusAmount, bonusUnlocked |-> p.bonusUnlocked]
  BY DEF Pot
<1>3. q = [phase |-> p.phase, funded |-> p.funded, winner |-> p.winner,
           bountyAmount |-> p.bountyAmount, rolloverReserve |-> p.rolloverReserve,
           bonusReserve |-> p.bonusReserve, polAccumulated |-> p.polAccumulated,
           rolloverRoot |-> p.rolloverRoot,
           totalRolloverShares |-> p.totalRolloverShares,
           claimedRolloverShares |-> p.claimedRolloverShares,
           bonusRoot |-> p.bonusRoot, totalBonusAmount |-> p.totalBonusAmount,
           claimedBonusAmount |-> p.claimedBonusAmount, bonusUnlocked |-> z]
  BY <1>2
<1>4. q \in Pot
  BY <1>1 DEF Pot
<1> HIDE DEF q
<1>5. OnlyClaimed(p, q)
  BY <1>1, <1>3, <1>4, OnlyClaimedFields
<1> QED
  BY <1>5, Zenon DEF q, z

\* What a step may not do to a settled pot: the action of SettledPotsAreFinal.
LeavesSettledPotsAlone ==
    \A k \in Tournaments :
        LET p == vault.pots[k]
            q == vault'.pots[k] IN
        p.phase = "Settled" =>
            /\ titles'.champion[k] = titles.champion[k]
            /\ q = [p EXCEPT !.claimedRolloverShares = q.claimedRolloverShares,
                            !.claimedBonusAmount = q.claimedBonusAmount,
                            !.bonusUnlocked = q.bonusUnlocked]
            /\ q.claimedRolloverShares >= p.claimedRolloverShares
            /\ q.claimedBonusAmount >= p.claimedBonusAmount
            /\ p.bonusUnlocked => q.bonusUnlocked

\* A step that exchanges one pot, open or only claimed from, and no champion.
LEMMA OnePotFinal ==
  ASSUME vault.pots \in [Tournaments -> Pot], NEW k \in Tournaments, NEW q,
         vault'.pots = [vault.pots EXCEPT ![k] = q],
         vault.pots[k].phase = "Settled" => OnlyClaimed(vault.pots[k], q),
         \A j \in Tournaments : vault.pots[j].phase = "Settled" =>
             titles'.champion[j] = titles.champion[j]
  PROVE  LeavesSettledPotsAlone
<1>1. vault'.pots[k] = q /\ \A j \in Tournaments \ {k} : vault'.pots[j] = vault.pots[j]
  OBVIOUS
<1>2. \A j \in Tournaments : vault.pots[j].phase = "Settled" =>
          OnlyClaimed(vault.pots[j], vault'.pots[j])
  BY <1>1, OnlyClaimedSame
<1> QED
  BY <1>2, Zenon DEF LeavesSettledPotsAlone, OnlyClaimed

LEMMA SamePotsFinal ==
  ASSUME vault.pots \in [Tournaments -> Pot], vault' = vault,
         titles'.champion = titles.champion
  PROVE  LeavesSettledPotsAlone
<1>1. \A j \in Tournaments : OnlyClaimed(vault.pots[j], vault'.pots[j])
  BY OnlyClaimedSame
<1>2. \A j \in Tournaments : titles'.champion[j] = titles.champion[j]
  OBVIOUS
<1> QED
  BY <1>1, <1>2, Zenon DEF LeavesSettledPotsAlone, OnlyClaimed

LEMMA ClaimedWinner ==
  ASSUME NEW p \in Pot, NEW q, OnlyClaimed(p, q)
  PROVE  q.winner = p.winner
<1> DEFINE l == [p EXCEPT !.claimedRolloverShares = q.claimedRolloverShares]
           m == [l EXCEPT !.claimedBonusAmount = q.claimedBonusAmount]
           n == [m EXCEPT !.bonusUnlocked = q.bonusUnlocked]
<1>1. q = n
  BY Zenon DEF OnlyClaimed
<1>2. l.winner = p.winner /\ m.winner = l.winner /\ n.winner = m.winner
  <2>1. l.winner = p.winner
    BY DEF Pot
  <2>2. m.winner = l.winner
    BY DEF Pot
  <2>3. n.winner = m.winner
    BY DEF Pot
  <2> QED
    BY <2>1, <2>2, <2>3
<1> QED
  BY <1>1, <1>2

\* Money and time touch one pot and no title; a settled pot only through claims.
LEMMA MoneyStep ==
  ASSUME vault \in VaultState, NEW k \in Tournaments,
         \/ \E amount \in Nat : Fund(k, amount)
         \/ \E u \in Users : ClaimRollover(k, u) \/ ClaimBonus(k, u)
         \/ UnlockBonus(k)
  PROVE  /\ UNCHANGED <<registry, titles>>
         /\ \E q : /\ vault'.pots = [vault.pots EXCEPT ![k] = q]
                   /\ vault.pots[k].phase = "Settled" => OnlyClaimed(vault.pots[k], q)
                   /\ q.winner = vault.pots[k].winner
<1> DEFINE b == vault
           p == b.pots[k]
           Touched(q) == /\ vault'.pots = [vault.pots EXCEPT ![k] = q]
                         /\ vault.pots[k].phase = "Settled" => OnlyClaimed(vault.pots[k], q)
                         /\ q.winner = vault.pots[k].winner
<1>1. b.pots \in [Tournaments -> Pot] /\ p \in Pot
  BY DEF VaultState
<1>2. UNCHANGED <<registry, titles>>
  BY DEF Fund, ClaimRollover, ClaimBonus, UnlockBonus
<1>3. ASSUME NEW amount \in Nat, Fund(k, amount) PROVE \E q : Touched(q)
  <2> DEFINE q == FundedPot(p, amount)
  <2>1. vault' = [b EXCEPT !.pots = [b.pots EXCEPT ![k] = q], !.balance = b.balance + amount]
    <3>1. q = [p EXCEPT !.phase = "Open", !.funded = p.funded + amount]
      BY Zenon DEF FundedPot
    <3> QED
      BY <1>3, <3>1, Zenon DEF Fund
  <2>2. q.winner = p.winner
    <3> HIDE DEF p
    <3> QED
      BY <1>1, FundedPotFields
  <2> HIDE DEF q
  <2>3. vault'.pots = [b.pots EXCEPT ![k] = q]
    BY <2>1, PaidFields
  <2>4. b.pots[k].phase # "Settled"
    BY <1>3 DEF Fund, CanFund
  <2>5. Touched(q)
    BY <2>2, <2>3, <2>4
  <2> QED
    BY <2>5
<1>4. ASSUME NEW u \in Users, ClaimRollover(k, u) PROVE \E q : Touched(q)
  <2> DEFINE n == Share(p, u)
             q == [p EXCEPT !.claimedRolloverShares = @ + n]
             C == b.rolloverClaimed \cup {<<k, u>>}
             v == b.balance - RolloverAmount(p, u)
  <2>1. vault' = [b EXCEPT !.rolloverClaimed = C, !.pots = [b.pots EXCEPT ![k] = q],
                           !.balance = v]
    BY <1>4, Zenon DEF ClaimRollover
  <2>2. OnlyClaimed(p, q)
    <3>1. n \in Nat
      BY <1>1, PotNumbers
    <3> HIDE DEF p, n
    <3> QED
      BY <1>1, <3>1, RolloverOnlyClaims
  <2> HIDE DEF q
  <2>3. vault'.pots = [b.pots EXCEPT ![k] = q]
    BY <2>1, RolloverFields
  <2>4. Touched(q)
    BY <1>1, <2>2, <2>3, ClaimedWinner
  <2> QED
    BY <2>4
<1>5. ASSUME NEW u \in Users, ClaimBonus(k, u) PROVE \E q : Touched(q)
  <2> DEFINE n == p.bonusRoot.amountOf[u]
             q == [p EXCEPT !.claimedBonusAmount = @ + n]
             D == b.bonusClaimed \cup {<<k, u>>}
             v == b.balance - n
  <2>1. vault' = [b EXCEPT !.bonusClaimed = D, !.pots = [b.pots EXCEPT ![k] = q],
                           !.balance = v]
    BY <1>5, Zenon DEF ClaimBonus
  <2>2. OnlyClaimed(p, q)
    <3>1. n \in Nat
      BY <1>1, PotNumbers
    <3> HIDE DEF p, n
    <3> QED
      BY <1>1, <3>1, BonusOnlyClaims
  <2> HIDE DEF q
  <2>3. vault'.pots = [b.pots EXCEPT ![k] = q]
    BY <2>1, BonusFields
  <2>4. Touched(q)
    BY <1>1, <2>2, <2>3, ClaimedWinner
  <2> QED
    BY <2>4
<1>6. ASSUME UnlockBonus(k) PROVE \E q : Touched(q)
  <2> DEFINE q == [p EXCEPT !.bonusUnlocked = TRUE]
  <2>1. vault' = [b EXCEPT !.pots = [b.pots EXCEPT ![k] = q]]
    BY <1>6, Zenon DEF UnlockBonus
  <2>2. OnlyClaimed(p, q)
    BY <1>1, UnlockOnlyClaims
  <2> HIDE DEF q
  <2>3. vault'.pots = [b.pots EXCEPT ![k] = q]
    BY <2>1 DEF VaultState
  <2>4. Touched(q)
    BY <1>1, <2>2, <2>3, ClaimedWinner
  <2> QED
    BY <2>4
<1> QED
  BY <1>2, <1>3, <1>4, <1>5, <1>6

LEMMA PotsStep == TypeOK /\ [Next]_vars => [LeavesSettledPotsAlone]_vars
<1> SUFFICES ASSUME TypeOK, [Next]_vars PROVE LeavesSettledPotsAlone \/ UNCHANGED vars
  OBVIOUS
<1> DEFINE b == vault
<1>1. b \in VaultState /\ b.pots \in [Tournaments -> Pot] /\ titles \in Titles
  BY DEF TypeOK, VaultState
<1>2. ASSUME NEW s \in Seasons, NEW t \in Tokens, RecordWeeklyWinner(s, t)
      PROVE  LeavesSettledPotsAlone
  BY <1>1, <1>2, SamePotsFinal DEF RecordWeeklyWinner
<1>3. ASSUME NEW s \in Seasons, NEW losers \in SUBSET Tokens, MarkFiltered(s, losers)
      PROVE  LeavesSettledPotsAlone
  BY <1>1, <1>3, SamePotsFinal DEF MarkFiltered
<1>4. ASSUME NEW k \in Quarterlies, NEW entrants \in SUBSET Tokens,
             RecordQuarterlyFinalists(k, entrants)
      PROVE  LeavesSettledPotsAlone
  <2>1. vault' = vault /\ titles'.champion = titles.champion
    BY <1>1, <1>4 DEF RecordQuarterlyFinalists, Titles
  <2> QED
    BY <1>1, <2>1, SamePotsFinal
<1>5. ASSUME NEW y \in Years, RecordAnnualFinalists(y)
      PROVE  LeavesSettledPotsAlone
  <2> DEFINE champions == {titles.champion[<<y, q>>] : q \in Quarters}
  <2>1. vault' = vault /\ titles' = [titles EXCEPT !.finalists[<<y, Annual>>] = champions]
    BY <1>5 DEF RecordAnnualFinalists
  <2> HIDE DEF champions
  <2>2. titles'.champion = titles.champion
    BY <1>1, <2>1 DEF Titles
  <2> QED
    BY <1>1, <2>1, <2>2, SamePotsFinal
<1>6. ASSUME NEW k \in Tournaments, NEW w \in Tokens, NEW o \in OracleRoots,
             SubmitWinner(k, w, o)
      PROVE  LeavesSettledPotsAlone
  <2>1. PICK q : \E v : vault' = [b EXCEPT !.pots = [b.pots EXCEPT ![k] = q], !.balance = v]
    BY <1>6, Zenon DEF SubmitWinner
  <2>2. vault'.pots = [b.pots EXCEPT ![k] = q]
    BY <1>1, <2>1, PaidFields
  <2>3. b.pots[k].phase # "Settled"
    BY <1>6 DEF SubmitWinner, CanSettle
  <2>4. \A j \in Tournaments \ {k} : titles'.champion[j] = titles.champion[j]
    BY <1>1, <1>6 DEF SubmitWinner, ChampionRecorded, Titles
  <2> QED
    BY <1>1, <2>2, <2>3, <2>4, OnePotFinal
<1>7. ASSUME NEW k \in Tournaments,
             \/ \E amount \in Deposits : Fund(k, amount)
             \/ \E u \in Users : ClaimRollover(k, u) \/ ClaimBonus(k, u)
             \/ UnlockBonus(k)
      PROVE  LeavesSettledPotsAlone
  <2>1. /\ UNCHANGED <<registry, titles>>
        /\ \E q : /\ vault'.pots = [vault.pots EXCEPT ![k] = q]
                  /\ vault.pots[k].phase = "Settled" => OnlyClaimed(vault.pots[k], q)
                  /\ q.winner = vault.pots[k].winner
    BY <1>1, <1>7, MoneyStep, TournamentConstants
  <2> QED
    BY <1>1, <2>1, OnePotFinal
<1>8. CASE UNCHANGED vars
  BY <1>8
<1> QED
  BY <1>2, <1>3, <1>4, <1>5, <1>6, <1>7, <1>8, TournamentKeys
     DEF Next, FundQuarterly, FundAnnual, SubmitQuarterlyWinner, SubmitAnnualWinner,
         ClaimQuarterlyRollover, ClaimAnnualRollover, ClaimQuarterlyBonus, ClaimAnnualBonus

(***************************************************************************)
(* The ladder                                                              *)
(***************************************************************************)

\* The five questions that TitleOf asks of the records h and of the weeks in r.
WonYear(h, t) == \E y \in Years : h.champion[<<y, Annual>>] = t
InYear(h, t) == \E y \in Years : t \in h.finalists[<<y, Annual>>]
WonQuarter(h, t) == \E k \in Quarterlies : h.champion[k] = t
InQuarter(h, t) == \E k \in Quarterlies : t \in h.finalists[k]
WonWeek(r, t) == \E s \in Seasons : r.weeklyWinnerOf[s] = t

BestTitle(r, h, t) ==
    IF WonYear(h, t) THEN "ANNUAL_CHAMPION"
    ELSE IF InYear(h, t) THEN "ANNUAL_FINALIST"
    ELSE IF WonQuarter(h, t) THEN "QUARTERLY_CHAMPION"
    ELSE IF InQuarter(h, t) THEN "QUARTERLY_FINALIST"
    ELSE IF WonWeek(r, t) THEN "WEEKLY_WINNER"
    ELSE "ACTIVE"

\* The status of t tells its best title.
Told(r, h, t) ==
    \/ r.statusOf[t] = BestTitle(r, h, t)
    \/ r.statusOf[t] = "FILTERED" /\ BestTitle(r, h, t) = "ACTIVE"

\* The parts of TitlesAreEarned: champions, quarters, years.
ChampionsOK(h) == \A k \in Tournaments : h.champion[k] \in h.finalists[k] \cup {NoToken}

QuartersOK(r, h) ==
    \A k \in Quarterlies : \A t \in h.finalists[k] :
        /\ WonWeek(r, t)
        /\ \A j \in Quarterlies : t \in h.finalists[j] => j = k

YearsOK(h) ==
    \A y \in Years : h.finalists[<<y, Annual>>] # {} =>
        h.finalists[<<y, Annual>>] = {h.champion[<<y, q>>] : q \in Quarters}

RungsOK(r, h) ==
    /\ r \in RegistryState /\ h \in Titles
    /\ ChampionsOK(h) /\ QuartersOK(r, h) /\ YearsOK(h)

\* The inductive invariant of the ladder.
LadderOK(r, h) == RungsOK(r, h) /\ \A t \in Tokens : Told(r, h, t)

LEMMA RungTypes ==
  ASSUME NEW r, NEW h, RungsOK(r, h)
  PROVE  /\ r.statusOf \in [Tokens -> TokenStatus]
         /\ r.weeklyWinnerOf \in [Seasons -> Tokens \cup {NoToken}]
         /\ h.finalists \in [Tournaments -> SUBSET Tokens]
         /\ h.champion \in [Tournaments -> Tokens \cup {NoToken}]
  BY DEF RungsOK, RegistryState, Titles

\* A token plays in at most one quarter; an annual finalist is the champion of a
\* quarter of its year, and plays in that quarter and in no other year.
LEMMA OneQuarter ==
  ASSUME NEW r, NEW h, RungsOK(r, h), NEW k \in Quarterlies, NEW j \in Quarterlies,
         NEW t, t \in h.finalists[k], t \in h.finalists[j]
  PROVE  j = k
  BY DEF RungsOK, QuartersOK

LEMMA QuarterChampion ==
  ASSUME NEW r, NEW h, RungsOK(r, h), NEW y \in Years, NEW t \in Tokens,
         t \in h.finalists[<<y, Annual>>]
  PROVE  \E q \in Quarters : /\ <<y, q>> \in Quarterlies
                             /\ h.champion[<<y, q>>] = t /\ t \in h.finalists[<<y, q>>]
<1>1. PICK q \in Quarters : h.champion[<<y, q>>] = t
  BY DEF RungsOK, YearsOK
<1>2. <<y, q>> \in Quarterlies /\ <<y, q>> \in Tournaments
  BY TournamentKeys DEF Quarterlies
<1>3. t \in h.finalists[<<y, q>>]
  BY <1>1, <1>2, SeasonConstants DEF RungsOK, ChampionsOK
<1> QED
  BY <1>1, <1>2, <1>3

LEMMA ChampionOfQuarter ==
  ASSUME NEW r, NEW h, RungsOK(r, h), NEW k \in Quarterlies, NEW t \in Tokens,
         t \in h.finalists[k], NEW y \in Years, t \in h.finalists[<<y, Annual>>]
  PROVE  h.champion[k] = t /\ k[1] = y
<1>1. PICK q \in Quarters : /\ <<y, q>> \in Quarterlies
                            /\ h.champion[<<y, q>>] = t /\ t \in h.finalists[<<y, q>>]
  BY QuarterChampion
<1>2. k = <<y, q>>
  BY <1>1, OneQuarter
<1> QED
  BY <1>1, <1>2

LEMMA OneYear ==
  ASSUME NEW r, NEW h, RungsOK(r, h), NEW y \in Years, NEW z \in Years, NEW t \in Tokens,
         t \in h.finalists[<<y, Annual>>], t \in h.finalists[<<z, Annual>>]
  PROVE  y = z
<1>1. PICK q \in Quarters : <<y, q>> \in Quarterlies /\ t \in h.finalists[<<y, q>>]
  BY QuarterChampion
<1>2. PICK p \in Quarters : <<z, p>> \in Quarterlies /\ t \in h.finalists[<<z, p>>]
  BY QuarterChampion
<1>3. <<y, q>> = <<z, p>>
  BY <1>1, <1>2, OneQuarter
<1> QED
  BY <1>3

\* A champion is among its finalists.
LEMMA ChampionPlays ==
  ASSUME NEW r, NEW h, RungsOK(r, h), NEW k \in Tournaments, h.champion[k] # NoToken
  PROVE  h.champion[k] \in h.finalists[k]
  BY DEF RungsOK, ChampionsOK

\* A quarterly finalist that is in no year has the title of its quarter, and before
\* the quarter is decided it is not in a year.
LEMMA QuarterTitle ==
  ASSUME NEW r, NEW h, LadderOK(r, h), NEW k \in Quarterlies, NEW t \in Tokens,
         t \in h.finalists[k]
  PROVE  /\ h.champion[k] = NoToken => r.statusOf[t] = "QUARTERLY_FINALIST"
         /\ h.champion[k] = t /\ ~InYear(h, t) => r.statusOf[t] = "QUARTERLY_CHAMPION"
         /\ h.champion[k] = NoToken => ~InYear(h, t) /\ ~WonYear(h, t)
<1>1. RungsOK(r, h) /\ Told(r, h, t) /\ t # NoToken
  BY SeasonConstants DEF LadderOK
<1>2. h.champion[k] = NoToken => ~InYear(h, t)
  <2> SUFFICES ASSUME h.champion[k] = NoToken, NEW y \in Years, t \in h.finalists[<<y, Annual>>]
               PROVE  FALSE
    BY DEF InYear
  <2>1. h.champion[k] = t
    BY <1>1, ChampionOfQuarter
  <2> QED
    BY <1>1, <2>1
<1>3. WonYear(h, t) => InYear(h, t)
  BY <1>1, ChampionPlays, TournamentKeys DEF WonYear, InYear
<1>4. h.champion[k] = NoToken => ~WonQuarter(h, t)
  <2> SUFFICES ASSUME h.champion[k] = NoToken, NEW j \in Quarterlies, h.champion[j] = t
               PROVE  FALSE
    BY DEF WonQuarter
  <2>1. t \in h.finalists[j]
    BY <1>1, ChampionPlays, TournamentKeys
  <2>2. j = k
    BY <1>1, <2>1, OneQuarter
  <2> QED
    BY <1>1, <2>2
<1>5. InQuarter(h, t)
  BY DEF InQuarter
<1>6. h.champion[k] = t => WonQuarter(h, t)
  BY DEF WonQuarter
<1> QED
  BY <1>1, <1>2, <1>3, <1>4, <1>5, <1>6 DEF Told, BestTitle

\* An annual finalist whose year is not decided has no higher title.
LEMMA YearTitle ==
  ASSUME NEW r, NEW h, LadderOK(r, h), NEW y \in Years, NEW t \in Tokens,
         t \in h.finalists[<<y, Annual>>], h.champion[<<y, Annual>>] = NoToken
  PROVE  r.statusOf[t] = "ANNUAL_FINALIST"
<1>1. RungsOK(r, h) /\ Told(r, h, t) /\ t # NoToken
  BY SeasonConstants DEF LadderOK
<1>2. ~WonYear(h, t)
  <2> SUFFICES ASSUME NEW z \in Years, h.champion[<<z, Annual>>] = t PROVE FALSE
    BY DEF WonYear
  <2>1. t \in h.finalists[<<z, Annual>>]
    BY <1>1, ChampionPlays, TournamentKeys
  <2>2. z = y
    BY <1>1, <2>1, OneYear
  <2> QED
    BY <1>1, <2>2
<1>3. InYear(h, t)
  BY DEF InYear
<1> QED
  BY <1>1, <1>2, <1>3 DEF Told, BestTitle

(***************************************************************************)
(* The steps of the ladder                                                 *)
(***************************************************************************)

\* What a step may do to the statuses: the action of LadderOnlyClimbs.
Climbs(r, n) ==
    \A t \in Tokens :
        n.statusOf[t] # r.statusOf[t] =>
            /\ r.statusOf[t] # "FILTERED"
            /\ \/ Rank[n.statusOf[t]] > Rank[r.statusOf[t]]
               \/ n.statusOf[t] = "FILTERED" /\ r.statusOf[t] = "ACTIVE"

LEMMA RankValues ==
  /\ Rank["ACTIVE"] = 0 /\ Rank["FILTERED"] = 0 /\ Rank["WEEKLY_WINNER"] = 1
  /\ Rank["QUARTERLY_FINALIST"] = 2 /\ Rank["QUARTERLY_CHAMPION"] = 3
  /\ Rank["ANNUAL_FINALIST"] = 4 /\ Rank["ANNUAL_CHAMPION"] = 5
  BY DEF Rank

LEMMA ElevatedFields ==
  ASSUME NEW r \in RegistryState, NEW T, NEW status \in TokenStatus, NEW n,
         n = Elevated(r, T, status)
  PROVE  /\ n \in RegistryState /\ n.weeklyWinnerOf = r.weeklyWinnerOf
         /\ \A t \in Tokens : n.statusOf[t] = IF t \in T THEN status ELSE r.statusOf[t]
<1> DEFINE S == [t \in Tokens |-> IF t \in T THEN status ELSE r.statusOf[t]]
<1>1. S \in [Tokens -> TokenStatus]
  BY DEF RegistryState
<1>2. n = [r EXCEPT !.statusOf = S]
  BY DEF Elevated
<1>3. \A t \in Tokens : S[t] = IF t \in T THEN status ELSE r.statusOf[t]
  OBVIOUS
<1> HIDE DEF S
<1>4. n.statusOf = S /\ n.weeklyWinnerOf = r.weeklyWinnerOf /\ n \in RegistryState
  BY <1>1, <1>2 DEF RegistryState
<1> QED
  BY <1>3, <1>4

\* Records with the finalists F, with the champion w, of tournament k.
WithFinalists(h, k, F) == [h EXCEPT !.finalists[k] = F]
WithChampion(h, k, w) == [h EXCEPT !.champion[k] = w]

LEMMA FinalistsFields ==
  ASSUME NEW h \in Titles, NEW k \in Tournaments, NEW F \in SUBSET Tokens, NEW g,
         g = WithFinalists(h, k, F)
  PROVE  /\ g \in Titles /\ g.champion = h.champion /\ g.finalists[k] = F
         /\ \A j \in Tournaments \ {k} : g.finalists[j] = h.finalists[j]
  BY DEF Titles, WithFinalists

LEMMA ChampionFields ==
  ASSUME NEW h \in Titles, NEW k \in Tournaments, NEW w \in Tokens, NEW g,
         g = WithChampion(h, k, w)
  PROVE  /\ g \in Titles /\ g.finalists = h.finalists /\ g.champion[k] = w
         /\ \A j \in Tournaments \ {k} : g.champion[j] = h.champion[j]
  BY DEF Titles, WithChampion

\* recordWeeklyWinner.
LEMMA WeekStep ==
  ASSUME NEW r, NEW h, LadderOK(r, h), NEW s \in Seasons, NEW t \in Tokens,
         CanRecordWeeklyWinner(r, s, t), NEW n, n = WeeklyWinnerRecorded(r, s, t)
  PROVE  LadderOK(n, h) /\ Climbs(r, n)
<1>1. RungsOK(r, h) /\ r \in RegistryState /\ \A u \in Tokens : Told(r, h, u)
  BY DEF LadderOK, RungsOK
<1>2. r.weeklyWinnerOf[s] = NoToken /\ r.statusOf[t] # "FILTERED" /\ t # NoToken
  BY SeasonConstants DEF CanRecordWeeklyWinner
<1>3. /\ r.statusOf \in [Tokens -> TokenStatus]
      /\ r.weeklyWinnerOf \in [Seasons -> Tokens \cup {NoToken}]
  BY <1>1, RungTypes
<1>4. /\ n.statusOf = [r.statusOf EXCEPT ![t] = IF @ = "ACTIVE" THEN "WEEKLY_WINNER" ELSE @]
      /\ n.weeklyWinnerOf = [r.weeklyWinnerOf EXCEPT ![s] = t]
  BY DEF WeeklyWinnerRecorded
<1>5. n \in RegistryState
  BY <1>3, Zenon DEF WeeklyWinnerRecorded, RegistryState, TokenStatus
<1>6. /\ \A u \in Tokens \ {t} : n.statusOf[u] = r.statusOf[u]
      /\ n.statusOf[t] = IF r.statusOf[t] = "ACTIVE" THEN "WEEKLY_WINNER" ELSE r.statusOf[t]
  BY <1>3, <1>4
<1>7. /\ n.weeklyWinnerOf[s] = t
      /\ \A z \in Seasons \ {s} : n.weeklyWinnerOf[z] = r.weeklyWinnerOf[z]
  BY <1>3, <1>4
<1>8. /\ \A u \in Tokens \ {t} : WonWeek(n, u) <=> WonWeek(r, u)
      /\ WonWeek(n, t) /\ \A u \in Tokens : WonWeek(r, u) => WonWeek(n, u)
  BY <1>2, <1>7, SeasonConstants DEF WonWeek
<1>9. RungsOK(n, h)
  <2>1. \A k \in Quarterlies : h.finalists[k] \subseteq Tokens
    BY <1>1, RungTypes, TournamentKeys
  <2>2. QuartersOK(n, h)
    BY <1>1, <1>8, <2>1 DEF QuartersOK, RungsOK
  <2> QED
    BY <1>1, <1>5, <2>2 DEF RungsOK
<1>10. \A u \in Tokens \ {t} : Told(n, h, u)
  BY <1>1, <1>6, <1>8 DEF Told, BestTitle
<1>11. Told(n, h, t)
  BY <1>1, <1>2, <1>6, <1>8 DEF Told, BestTitle
<1>12. Climbs(r, n)
  BY <1>6, RankValues DEF Climbs
<1> QED
  BY <1>9, <1>10, <1>11, <1>12 DEF LadderOK

\* markFiltered.
LEMMA MarkStep ==
  ASSUME NEW r, NEW h, LadderOK(r, h), NEW losers, NEW n, n = FilteredMarked(r, losers)
  PROVE  LadderOK(n, h) /\ Climbs(r, n)
<1>1. RungsOK(r, h) /\ \A u \in Tokens : Told(r, h, u)
  BY DEF LadderOK
<1>2. /\ r.statusOf \in [Tokens -> TokenStatus]
      /\ r.weeklyWinnerOf \in [Seasons -> Tokens \cup {NoToken}]
  BY <1>1, RungTypes
<1>3. /\ n.statusOf = [t \in Tokens |-> IF t \in losers /\ r.statusOf[t] = "ACTIVE"
                                        THEN "FILTERED" ELSE r.statusOf[t]]
      /\ n.weeklyWinnerOf = r.weeklyWinnerOf
  BY DEF FilteredMarked
<1>4. n \in RegistryState
  <2>1. n.statusOf \in [Tokens -> TokenStatus]
    BY <1>2, <1>3 DEF TokenStatus
  <2> QED
    BY <1>2, <2>1 DEF FilteredMarked, RegistryState
<1>5. \A t \in Tokens : n.statusOf[t] = IF t \in losers /\ r.statusOf[t] = "ACTIVE"
                                        THEN "FILTERED" ELSE r.statusOf[t]
  BY <1>3
<1>6. \A t : WonWeek(n, t) <=> WonWeek(r, t)
  BY <1>3 DEF WonWeek
<1>7. RungsOK(n, h)
  BY <1>1, <1>4, <1>6 DEF RungsOK, QuartersOK
<1>8. \A t \in Tokens : Told(n, h, t)
  BY <1>1, <1>5, <1>6 DEF Told, BestTitle
<1>9. Climbs(r, n)
  BY <1>5, RankValues DEF Climbs
<1> QED
  BY <1>7, <1>8, <1>9 DEF LadderOK

\* recordQuarterlyFinalists.
LEMMA QuarterStep ==
  ASSUME NEW r, NEW h, LadderOK(r, h), NEW k \in Quarterlies, NEW E \in SUBSET Tokens,
         h.finalists[k] = {}, \A t \in E : r.statusOf[t] = "WEEKLY_WINNER",
         NEW n, n = Elevated(r, E, "QUARTERLY_FINALIST"),
         NEW g, g = WithFinalists(h, k, E)
  PROVE  LadderOK(n, g) /\ Climbs(r, n)
<1>1. /\ RungsOK(r, h) /\ r \in RegistryState /\ h \in Titles /\ k \in Tournaments
      /\ \A u \in Tokens : Told(r, h, u)
  BY TournamentKeys DEF LadderOK, RungsOK
<1>2. /\ n \in RegistryState /\ n.weeklyWinnerOf = r.weeklyWinnerOf
      /\ \A t \in Tokens : n.statusOf[t] = IF t \in E THEN "QUARTERLY_FINALIST" ELSE r.statusOf[t]
  BY <1>1, ElevatedFields DEF TokenStatus
<1>3. /\ g \in Titles /\ g.champion = h.champion /\ g.finalists[k] = E
      /\ \A j \in Tournaments \ {k} : g.finalists[j] = h.finalists[j]
  BY <1>1, FinalistsFields
<1>4. \A y \in Years : g.finalists[<<y, Annual>>] = h.finalists[<<y, Annual>>]
  BY <1>3, TournamentKeys
<1>5. \A t : WonWeek(n, t) <=> WonWeek(r, t)
  BY <1>2 DEF WonWeek
<1>6. \A t \in E : /\ WonWeek(r, t) /\ ~InQuarter(h, t) /\ ~WonQuarter(h, t)
                   /\ ~InYear(h, t) /\ ~WonYear(h, t)
  BY <1>1 DEF Told, BestTitle
<1>7. /\ \A t : WonYear(g, t) <=> WonYear(h, t)
      /\ \A t : InYear(g, t) <=> InYear(h, t)
      /\ \A t : WonQuarter(g, t) <=> WonQuarter(h, t)
  BY <1>3, <1>4 DEF WonYear, InYear, WonQuarter
<1>8. /\ \A t \in E : InQuarter(g, t)
      /\ \A t \in Tokens \ E : InQuarter(g, t) <=> InQuarter(h, t)
  <2>1. \A t \in E : InQuarter(g, t)
    BY <1>3 DEF InQuarter
  <2>2. \A t \in Tokens \ E : \A j \in Quarterlies : t \in g.finalists[j] <=> t \in h.finalists[j]
    BY <1>3, TournamentKeys
  <2> QED
    BY <2>1, <2>2 DEF InQuarter
<1>9. \A t \in Tokens : Told(n, g, t)
  <2> SUFFICES ASSUME NEW t \in Tokens PROVE Told(n, g, t)
    OBVIOUS
  <2>1. CASE t \in E
    BY <2>1, <1>2, <1>5, <1>6, <1>7, <1>8 DEF Told, BestTitle
  <2>2. CASE t \notin E
    <3>1. BestTitle(n, g, t) = BestTitle(r, h, t)
      BY <2>2, <1>5, <1>7, <1>8 DEF BestTitle
    <3> QED
      BY <2>2, <3>1, <1>1, <1>2 DEF Told
  <2> QED
    BY <2>1, <2>2
<1>10. ChampionsOK(g)
  <2>1. h.champion[k] = NoToken
    BY <1>1, ChampionPlays
  <2> QED
    BY <1>1, <1>3, <2>1 DEF RungsOK, ChampionsOK
<1>11. QuartersOK(n, g)
  <2> SUFFICES ASSUME NEW j \in Quarterlies, NEW t \in g.finalists[j]
               PROVE  /\ WonWeek(n, t)
                      /\ \A i \in Quarterlies : t \in g.finalists[i] => i = j
    BY DEF QuartersOK
  <2>1. CASE t \in E
    <3>1. \A i \in Quarterlies \ {k} : t \notin g.finalists[i]
      BY <2>1, <1>3, <1>6, TournamentKeys DEF InQuarter
    <3> QED
      BY <2>1, <3>1, <1>5, <1>6
  <2>2. CASE t \notin E
    <3>1. j # k /\ t \in h.finalists[j]
      BY <2>2, <1>3, TournamentKeys
    <3>2. WonWeek(r, t) /\ \A i \in Quarterlies : t \in h.finalists[i] => i = j
      BY <1>1, <3>1 DEF RungsOK, QuartersOK
    <3> QED
      BY <2>2, <3>2, <1>3, <1>5, TournamentKeys
  <2> QED
    BY <2>1, <2>2
<1>12. YearsOK(g)
  BY <1>1, <1>3, <1>4 DEF RungsOK, YearsOK
<1>13. Climbs(r, n)
  BY <1>2, RankValues DEF Climbs
<1> QED
  BY <1>2, <1>3, <1>9, <1>10, <1>11, <1>12, <1>13 DEF LadderOK, RungsOK

\* recordAnnualFinalists.
LEMMA YearStep ==
  ASSUME NEW r, NEW h, LadderOK(r, h), NEW y \in Years,
         h.finalists[<<y, Annual>>] = {},
         NEW E, E = {h.champion[<<y, q>>] : q \in Quarters}, NoToken \notin E,
         NEW n, n = Elevated(r, E, "ANNUAL_FINALIST"),
         NEW g, g = WithFinalists(h, <<y, Annual>>, E)
  PROVE  LadderOK(n, g) /\ Climbs(r, n)
<1> DEFINE k == <<y, Annual>>
<1>1. /\ RungsOK(r, h) /\ r \in RegistryState /\ h \in Titles /\ k \in Tournaments
      /\ \A u \in Tokens : Told(r, h, u)
  BY TournamentKeys DEF LadderOK, RungsOK
<1>2. \A q \in Quarters : <<y, q>> \in Quarterlies /\ <<y, q>> \in Tournaments
  BY TournamentKeys DEF Quarterlies
<1>3. E \in SUBSET Tokens
  <2>1. h.champion \in [Tournaments -> Tokens \cup {NoToken}]
    BY <1>1, RungTypes
  <2>2. \A q \in Quarters : h.champion[<<y, q>>] \in Tokens \cup {NoToken}
    BY <1>2, <2>1
  <2> QED
    BY <2>2
<1>4. /\ n \in RegistryState /\ n.weeklyWinnerOf = r.weeklyWinnerOf
      /\ \A t \in Tokens : n.statusOf[t] = IF t \in E THEN "ANNUAL_FINALIST" ELSE r.statusOf[t]
  BY <1>1, ElevatedFields DEF TokenStatus
<1>5. /\ g \in Titles /\ g.champion = h.champion /\ g.finalists[k] = E
      /\ \A j \in Tournaments \ {k} : g.finalists[j] = h.finalists[j]
  BY <1>1, <1>3, FinalistsFields
<1>6. \A j \in Quarterlies : g.finalists[j] = h.finalists[j]
  BY <1>5, TournamentKeys
<1>7. \A t : WonWeek(n, t) <=> WonWeek(r, t)
  BY <1>4 DEF WonWeek
<1>8. \A t \in E : ~InYear(h, t) /\ ~WonYear(h, t) /\ r.statusOf[t] = "QUARTERLY_CHAMPION"
  <2> SUFFICES ASSUME NEW t \in E
               PROVE  ~InYear(h, t) /\ ~WonYear(h, t) /\ r.statusOf[t] = "QUARTERLY_CHAMPION"
    OBVIOUS
  <2>1. PICK q \in Quarters : h.champion[<<y, q>>] = t
    OBVIOUS
  <2>2. t \in Tokens /\ t # NoToken
    BY <1>3, SeasonConstants
  <2>3. t \in h.finalists[<<y, q>>] /\ <<y, q>> \in Quarterlies
    BY <1>1, <1>2, <2>1, <2>2, ChampionPlays
  <2>4. ~InYear(h, t)
    <3> SUFFICES ASSUME NEW z \in Years, t \in h.finalists[<<z, Annual>>] PROVE FALSE
      BY DEF InYear
    <3>1. <<y, q>>[1] = z
      BY <1>1, <2>2, <2>3, ChampionOfQuarter
    <3> QED
      BY <3>1
  <2>5. ~WonYear(h, t)
    BY <1>1, <2>2, <2>4, ChampionPlays, TournamentKeys DEF WonYear, InYear
  <2> QED
    BY <2>1, <2>2, <2>3, <2>4, <2>5, QuarterTitle
<1>9. /\ \A t : WonYear(g, t) <=> WonYear(h, t)
      /\ \A t : WonQuarter(g, t) <=> WonQuarter(h, t)
      /\ \A t : InQuarter(g, t) <=> InQuarter(h, t)
  BY <1>5, <1>6 DEF WonYear, WonQuarter, InQuarter
<1>10. /\ \A t \in E : InYear(g, t)
       /\ \A t \in Tokens \ E : InYear(g, t) <=> InYear(h, t)
  <2>1. \A t \in E : InYear(g, t)
    BY <1>5 DEF InYear
  <2>2. \A t \in Tokens \ E : \A z \in Years :
            t \in g.finalists[<<z, Annual>>] <=> t \in h.finalists[<<z, Annual>>]
    BY <1>5, TournamentKeys
  <2> QED
    BY <2>1, <2>2 DEF InYear
<1>11. \A t \in Tokens : Told(n, g, t)
  <2> SUFFICES ASSUME NEW t \in Tokens PROVE Told(n, g, t)
    OBVIOUS
  <2>1. CASE t \in E
    BY <2>1, <1>4, <1>8, <1>9, <1>10 DEF Told, BestTitle
  <2>2. CASE t \notin E
    <3>1. BestTitle(n, g, t) = BestTitle(r, h, t)
      BY <2>2, <1>7, <1>9, <1>10 DEF BestTitle
    <3> QED
      BY <2>2, <3>1, <1>1, <1>4 DEF Told
  <2> QED
    BY <2>1, <2>2
<1>12. ChampionsOK(g)
  <2>1. h.champion[k] = NoToken
    BY <1>1, ChampionPlays
  <2> QED
    BY <1>1, <1>5, <2>1 DEF RungsOK, ChampionsOK
<1>13. QuartersOK(n, g)
  BY <1>1, <1>6, <1>7 DEF RungsOK, QuartersOK
<1>14. YearsOK(g)
  <2> SUFFICES ASSUME NEW z \in Years, g.finalists[<<z, Annual>>] # {}
               PROVE  g.finalists[<<z, Annual>>] = {g.champion[<<z, q>>] : q \in Quarters}
    BY DEF YearsOK
  <2>1. CASE z = y
    <3>1. E = {g.champion[<<y, q>>] : q \in Quarters}
      BY <1>5
    <3>2. g.finalists[<<y, Annual>>] = E
      BY <1>5
    <3> QED
      BY <2>1, <3>1, <3>2
  <2>2. CASE z # y
    <3>1. g.finalists[<<z, Annual>>] = h.finalists[<<z, Annual>>]
      BY <2>2, <1>5, TournamentKeys
    <3>2. h.finalists[<<z, Annual>>] = {h.champion[<<z, q>>] : q \in Quarters}
      BY <3>1, <1>1 DEF RungsOK, YearsOK
    <3>3. {h.champion[<<z, q>>] : q \in Quarters} = {g.champion[<<z, q>>] : q \in Quarters}
      BY <1>5
    <3> QED
      BY <3>1, <3>2, <3>3
  <2> QED
    BY <2>1, <2>2
<1>15. Climbs(r, n)
  BY <1>4, <1>8, RankValues DEF Climbs
<1> QED
  BY <1>4, <1>5, <1>11, <1>12, <1>13, <1>14, <1>15 DEF LadderOK, RungsOK

\* recordQuarterlyChampion.
LEMMA QuarterChampionStep ==
  ASSUME NEW r, NEW h, LadderOK(r, h), NEW k \in Quarterlies, NEW w \in Tokens,
         h.champion[k] = NoToken, w \in h.finalists[k],
         NEW n, n = Elevated(r, {w}, "QUARTERLY_CHAMPION"),
         NEW g, g = WithChampion(h, k, w)
  PROVE  LadderOK(n, g) /\ Climbs(r, n)
<1>1. /\ RungsOK(r, h) /\ r \in RegistryState /\ h \in Titles /\ k \in Tournaments
      /\ k[2] # Annual /\ w # NoToken /\ \A u \in Tokens : Told(r, h, u)
  BY TournamentKeys, SeasonConstants DEF LadderOK, RungsOK
<1>2. /\ n \in RegistryState /\ n.weeklyWinnerOf = r.weeklyWinnerOf
      /\ n.statusOf[w] = "QUARTERLY_CHAMPION"
      /\ \A t \in Tokens \ {w} : n.statusOf[t] = r.statusOf[t]
  BY <1>1, ElevatedFields DEF TokenStatus
<1>3. /\ g \in Titles /\ g.finalists = h.finalists /\ g.champion[k] = w
      /\ \A j \in Tournaments \ {k} : g.champion[j] = h.champion[j]
  BY <1>1, ChampionFields
<1>4. \A z \in Years : g.champion[<<z, Annual>>] = h.champion[<<z, Annual>>]
  BY <1>1, <1>3, TournamentKeys
<1>5. \A t : WonWeek(n, t) <=> WonWeek(r, t)
  BY <1>2 DEF WonWeek
<1>6. ~InYear(h, w) /\ ~WonYear(h, w) /\ r.statusOf[w] = "QUARTERLY_FINALIST"
  BY QuarterTitle
<1>7. /\ \A t : WonYear(g, t) <=> WonYear(h, t)
      /\ \A t : InYear(g, t) <=> InYear(h, t)
      /\ \A t : InQuarter(g, t) <=> InQuarter(h, t)
  BY <1>3, <1>4 DEF WonYear, InYear, InQuarter
<1>8. /\ WonQuarter(g, w)
      /\ \A t \in Tokens \ {w} : WonQuarter(g, t) <=> WonQuarter(h, t)
  <2>1. WonQuarter(g, w)
    BY <1>3 DEF WonQuarter
  <2>2. \A t \in Tokens \ {w} : \A j \in Quarterlies : g.champion[j] = t <=> h.champion[j] = t
    BY <1>3, TournamentKeys, SeasonConstants
  <2> QED
    BY <2>1, <2>2 DEF WonQuarter
<1>9. Told(n, g, w)
  BY <1>2, <1>6, <1>7, <1>8 DEF Told, BestTitle
<1>10. \A t \in Tokens \ {w} : Told(n, g, t)
  <2> SUFFICES ASSUME NEW t \in Tokens \ {w} PROVE Told(n, g, t)
    OBVIOUS
  <2>1. BestTitle(n, g, t) = BestTitle(r, h, t)
    BY <1>5, <1>7, <1>8 DEF BestTitle
  <2> QED
    BY <2>1, <1>1, <1>2 DEF Told
<1>11. ChampionsOK(g)
  BY <1>1, <1>3 DEF RungsOK, ChampionsOK
<1>12. QuartersOK(n, g)
  BY <1>1, <1>3, <1>5 DEF RungsOK, QuartersOK
<1>13. YearsOK(g)
  <2> SUFFICES ASSUME NEW z \in Years, g.finalists[<<z, Annual>>] # {}
               PROVE  g.finalists[<<z, Annual>>] = {g.champion[<<z, q>>] : q \in Quarters}
    BY DEF YearsOK
  <2>1. h.finalists[<<z, Annual>>] = {h.champion[<<z, q>>] : q \in Quarters}
    BY <1>1, <1>3 DEF RungsOK, YearsOK
  <2>2. h.finalists[<<z, Annual>>] \subseteq Tokens
    BY <1>1, RungTypes, TournamentKeys
  <2>3. \A q \in Quarters : <<z, q>> \in Tournaments /\ <<z, q>> # k
    BY <1>1, <2>1, <2>2, SeasonConstants, TournamentKeys DEF Quarterlies
  <2>4. \A q \in Quarters : g.champion[<<z, q>>] = h.champion[<<z, q>>]
    BY <1>3, <2>3
  <2>5. {h.champion[<<z, q>>] : q \in Quarters} = {g.champion[<<z, q>>] : q \in Quarters}
    BY <2>4
  <2> QED
    BY <1>3, <2>1, <2>5
<1>14. Climbs(r, n)
  BY <1>2, <1>6, RankValues DEF Climbs
<1> QED
  BY <1>2, <1>3, <1>9, <1>10, <1>11, <1>12, <1>13, <1>14 DEF LadderOK, RungsOK

\* recordAnnualChampion.
LEMMA YearChampionStep ==
  ASSUME NEW r, NEW h, LadderOK(r, h), NEW y \in Years, NEW w \in Tokens,
         h.champion[<<y, Annual>>] = NoToken, w \in h.finalists[<<y, Annual>>],
         NEW n, n = Elevated(r, {w}, "ANNUAL_CHAMPION"),
         NEW g, g = WithChampion(h, <<y, Annual>>, w)
  PROVE  LadderOK(n, g) /\ Climbs(r, n)
<1> DEFINE k == <<y, Annual>>
<1>1. /\ RungsOK(r, h) /\ r \in RegistryState /\ h \in Titles /\ k \in Tournaments
      /\ w # NoToken /\ \A u \in Tokens : Told(r, h, u)
  BY TournamentKeys, SeasonConstants DEF LadderOK, RungsOK
<1>2. /\ n \in RegistryState /\ n.weeklyWinnerOf = r.weeklyWinnerOf
      /\ n.statusOf[w] = "ANNUAL_CHAMPION"
      /\ \A t \in Tokens \ {w} : n.statusOf[t] = r.statusOf[t]
  BY <1>1, ElevatedFields DEF TokenStatus
<1>3. /\ g \in Titles /\ g.finalists = h.finalists /\ g.champion[k] = w
      /\ \A j \in Tournaments \ {k} : g.champion[j] = h.champion[j]
  BY <1>1, ChampionFields
<1>4. \A j \in Quarterlies : g.champion[j] = h.champion[j]
  BY <1>3, TournamentKeys
<1>5. \A t : WonWeek(n, t) <=> WonWeek(r, t)
  BY <1>2 DEF WonWeek
<1>6. r.statusOf[w] = "ANNUAL_FINALIST"
  BY YearTitle
<1>7. /\ \A t : WonQuarter(g, t) <=> WonQuarter(h, t)
      /\ \A t : InYear(g, t) <=> InYear(h, t)
      /\ \A t : InQuarter(g, t) <=> InQuarter(h, t)
  BY <1>3, <1>4 DEF WonQuarter, InYear, InQuarter
<1>8. /\ WonYear(g, w)
      /\ \A t \in Tokens \ {w} : WonYear(g, t) <=> WonYear(h, t)
  <2>1. WonYear(g, w)
    BY <1>3 DEF WonYear
  <2>2. \A t \in Tokens \ {w} : \A z \in Years :
            g.champion[<<z, Annual>>] = t <=> h.champion[<<z, Annual>>] = t
    BY <1>3, TournamentKeys, SeasonConstants
  <2> QED
    BY <2>1, <2>2 DEF WonYear
<1>9. Told(n, g, w)
  BY <1>2, <1>8 DEF Told, BestTitle
<1>10. \A t \in Tokens \ {w} : Told(n, g, t)
  <2> SUFFICES ASSUME NEW t \in Tokens \ {w} PROVE Told(n, g, t)
    OBVIOUS
  <2>1. BestTitle(n, g, t) = BestTitle(r, h, t)
    BY <1>5, <1>7, <1>8 DEF BestTitle
  <2> QED
    BY <2>1, <1>1, <1>2 DEF Told
<1>11. ChampionsOK(g)
  BY <1>1, <1>3 DEF RungsOK, ChampionsOK
<1>12. QuartersOK(n, g)
  BY <1>1, <1>3, <1>5 DEF RungsOK, QuartersOK
<1>13. YearsOK(g)
  <2> SUFFICES ASSUME NEW z \in Years, g.finalists[<<z, Annual>>] # {}
               PROVE  g.finalists[<<z, Annual>>] = {g.champion[<<z, q>>] : q \in Quarters}
    BY DEF YearsOK
  <2>1. h.finalists[<<z, Annual>>] = {h.champion[<<z, q>>] : q \in Quarters}
    BY <1>1, <1>3 DEF RungsOK, YearsOK
  <2>2. \A q \in Quarters : g.champion[<<z, q>>] = h.champion[<<z, q>>]
    BY <1>4 DEF Quarterlies
  <2>3. {h.champion[<<z, q>>] : q \in Quarters} = {g.champion[<<z, q>>] : q \in Quarters}
    BY <2>2
  <2> QED
    BY <1>3, <2>1, <2>3
<1>14. Climbs(r, n)
  BY <1>2, <1>6, RankValues DEF Climbs
<1> QED
  BY <1>2, <1>3, <1>9, <1>10, <1>11, <1>12, <1>13, <1>14 DEF LadderOK, RungsOK

(***************************************************************************)
(* The inductive invariant and its steps                                   *)
(***************************************************************************)

\* The pots name the champions that the registry recorded.
WinnersOK == \A k \in Tournaments : titles.champion[k] = vault.pots[k].winner

TournamentInv == BooksOK(vault) /\ LadderOK(registry, titles) /\ WinnersOK

LEMMA InvTypes == TournamentInv => TypeOK
  BY DEF TournamentInv, BooksOK, LadderOK, RungsOK, TypeOK

LEMMA InitLadder == Init => LadderOK(registry, titles) /\ WinnersOK
<1> SUFFICES ASSUME Init PROVE LadderOK(registry, titles) /\ WinnersOK
  OBVIOUS
<1>1. /\ registry.statusOf = [t \in Tokens |-> "ACTIVE"]
      /\ registry.weeklyWinnerOf = [s \in Seasons |-> NoToken]
      /\ registry \in RegistryState
  BY DEF Init, EmptyRegistry, RegistryState, TokenStatus
<1>2. /\ titles.finalists = [k \in Tournaments |-> {}]
      /\ titles.champion = [k \in Tournaments |-> NoToken]
      /\ titles \in Titles
  BY DEF Init, NoTitles, Titles
<1>3. /\ \A k \in Tournaments : titles.finalists[k] = {} /\ titles.champion[k] = NoToken
      /\ \A k \in Quarterlies : titles.finalists[k] = {} /\ titles.champion[k] = NoToken
      /\ \A y \in Years : /\ titles.finalists[<<y, Annual>>] = {}
                          /\ titles.champion[<<y, Annual>>] = NoToken
  BY <1>2, TournamentKeys
<1>4. RungsOK(registry, titles)
  BY <1>1, <1>2, <1>3 DEF RungsOK, ChampionsOK, QuartersOK, YearsOK
<1>5. ASSUME NEW t \in Tokens PROVE Told(registry, titles, t)
  <2>1. /\ ~WonYear(titles, t) /\ ~InYear(titles, t) /\ ~WonQuarter(titles, t)
        /\ ~InQuarter(titles, t)
    BY <1>3, SeasonConstants DEF WonYear, InYear, WonQuarter, InQuarter
  <2>2. ~WonWeek(registry, t) /\ registry.statusOf[t] = "ACTIVE"
    BY <1>1, SeasonConstants DEF WonWeek
  <2> QED
    BY <2>1, <2>2 DEF Told, BestTitle
<1>6. WinnersOK
  BY <1>3 DEF WinnersOK, Init, EmptyVault, IdlePot
<1> QED
  BY <1>4, <1>5, <1>6 DEF LadderOK

LEMMA InitTournament == Init => TournamentInv
  BY EmptyBooksOK, InitLadder DEF Init, TournamentInv

\* Every step of the system climbs the ladder, and keeps the pots in line with it.
LEMMA LadderStep ==
  TournamentInv /\ [Next]_vars =>
      /\ LadderOK(registry', titles') /\ WinnersOK'
      /\ Climbs(registry, registry')
<1> SUFFICES ASSUME TournamentInv, [Next]_vars
             PROVE  LadderOK(registry', titles') /\ WinnersOK' /\ Climbs(registry, registry')
  OBVIOUS
<1>1. /\ BooksOK(vault) /\ LadderOK(registry, titles) /\ WinnersOK /\ vault \in VaultState
      /\ titles \in Titles /\ vault.pots \in [Tournaments -> Pot]
  BY DEF TournamentInv, BooksOK, LadderOK, RungsOK, VaultState
<1>2. ASSUME registry' = registry PROVE Climbs(registry, registry')
  BY <1>2 DEF Climbs
<1>3. ASSUME vault' = vault, titles'.champion = titles.champion PROVE WinnersOK'
  BY <1>1, <1>3 DEF WinnersOK
<1>4. ASSUME NEW s \in Seasons, NEW t \in Tokens, RecordWeeklyWinner(s, t)
      PROVE  LadderOK(registry', titles') /\ WinnersOK' /\ Climbs(registry, registry')
  <2>1. /\ CanRecordWeeklyWinner(registry, s, t) /\ titles' = titles /\ vault' = vault
        /\ registry' = WeeklyWinnerRecorded(registry, s, t)
    BY <1>4 DEF RecordWeeklyWinner
  <2>2. LadderOK(registry', titles) /\ Climbs(registry, registry')
    BY <1>1, <2>1, WeekStep
  <2> QED
    BY <1>3, <2>1, <2>2
<1>5. ASSUME NEW s \in Seasons, NEW losers \in SUBSET Tokens, MarkFiltered(s, losers)
      PROVE  LadderOK(registry', titles') /\ WinnersOK' /\ Climbs(registry, registry')
  <2>1. /\ titles' = titles /\ vault' = vault
        /\ registry' = FilteredMarked(registry, losers)
    BY <1>5 DEF MarkFiltered
  <2>2. LadderOK(registry', titles) /\ Climbs(registry, registry')
    BY <1>1, <2>1, MarkStep
  <2> QED
    BY <1>3, <2>1, <2>2
<1>6. ASSUME NEW k \in Quarterlies, NEW entrants \in SUBSET Tokens,
             RecordQuarterlyFinalists(k, entrants)
      PROVE  LadderOK(registry', titles') /\ WinnersOK' /\ Climbs(registry, registry')
  <2>1. /\ titles.finalists[k] = {} /\ vault' = vault
        /\ \A t \in entrants : registry.statusOf[t] = "WEEKLY_WINNER"
        /\ registry' = Elevated(registry, entrants, "QUARTERLY_FINALIST")
    BY <1>6 DEF RecordQuarterlyFinalists, CanRecordQuarterlyFinalists
  <2>2. titles' = WithFinalists(titles, k, entrants)
    BY <1>6, Zenon DEF RecordQuarterlyFinalists, WithFinalists
  <2>3. LadderOK(registry', titles') /\ Climbs(registry, registry')
    BY <1>1, <2>1, <2>2, QuarterStep
  <2>4. titles'.champion = titles.champion
    BY <1>1, <2>2, TournamentKeys, FinalistsFields
  <2> QED
    BY <1>3, <2>1, <2>3, <2>4
<1>7. ASSUME NEW y \in Years, RecordAnnualFinalists(y)
      PROVE  LadderOK(registry', titles') /\ WinnersOK' /\ Climbs(registry, registry')
  <2> DEFINE E == {titles.champion[<<y, q>>] : q \in Quarters}
  <2>1. /\ titles.finalists[<<y, Annual>>] = {} /\ vault' = vault /\ NoToken \notin E
        /\ registry' = Elevated(registry, E, "ANNUAL_FINALIST")
    BY <1>7 DEF RecordAnnualFinalists
  <2>2. titles' = WithFinalists(titles, <<y, Annual>>, E)
    BY <1>7, Zenon DEF RecordAnnualFinalists, WithFinalists
  <2>3. E = {titles.champion[<<y, q>>] : q \in Quarters}
    OBVIOUS
  <2>4. E \in SUBSET Tokens
    <3>1. \A q \in Quarters : <<y, q>> \in Tournaments
      BY TournamentKeys DEF Quarterlies
    <3>2. \A q \in Quarters : titles.champion[<<y, q>>] \in Tokens \cup {NoToken}
      BY <1>1, <3>1 DEF Titles
    <3> QED
      BY <2>1, <3>2
  <2> HIDE DEF E
  <2>5. LadderOK(registry', titles') /\ Climbs(registry, registry')
    BY <1>1, <2>1, <2>2, <2>3, YearStep
  <2>6. titles'.champion = titles.champion
    BY <1>1, <2>2, <2>4, TournamentKeys, FinalistsFields
  <2> QED
    BY <1>3, <2>1, <2>5, <2>6
<1>8. ASSUME NEW k \in Tournaments, NEW w \in Tokens, NEW o \in OracleRoots,
             SubmitWinner(k, w, o)
      PROVE  LadderOK(registry', titles') /\ WinnersOK' /\ Climbs(registry, registry')
  <2>1. /\ titles.champion[k] = NoToken /\ w \in titles.finalists[k]
        /\ registry' = Elevated(registry, {w}, IF k[2] = Annual THEN "ANNUAL_CHAMPION"
                                               ELSE "QUARTERLY_CHAMPION")
    BY <1>8 DEF SubmitWinner, CanSettle, CanRecordChampion, ChampionRecorded
  <2>2. titles' = WithChampion(titles, k, w)
    BY <1>8, Zenon DEF SubmitWinner, ChampionRecorded, WithChampion
  <2>3. LadderOK(registry', titles') /\ Climbs(registry, registry')
    <3>1. CASE k \in Quarterlies
      BY <3>1, <1>1, <2>1, <2>2, QuarterChampionStep, TournamentKeys
    <3>2. ASSUME NEW y \in Years, k = <<y, Annual>>
          PROVE  LadderOK(registry', titles') /\ Climbs(registry, registry')
      <4>1. registry' = Elevated(registry, {w}, "ANNUAL_CHAMPION")
        BY <2>1, <3>2
      <4> QED
        BY <1>1, <2>1, <2>2, <3>2, <4>1, YearChampionStep
    <3> QED
      BY <3>1, <3>2, TournamentKeys
  <2>4. WinnersOK'
    <3>1. /\ titles'.champion[k] = w
          /\ \A j \in Tournaments \ {k} : titles'.champion[j] = titles.champion[j]
      BY <1>1, <2>2, ChampionFields
    <3>2. /\ vault'.pots[k].winner = w
          /\ \A j \in Tournaments \ {k} : vault'.pots[j].winner = vault.pots[j].winner
      BY <1>1, <1>8, SettleStep
    <3> QED
      BY <1>1, <3>1, <3>2 DEF WinnersOK
  <2> QED
    BY <2>3, <2>4
<1>9. ASSUME NEW k \in Tournaments,
             \/ \E amount \in Deposits : Fund(k, amount)
             \/ \E u \in Users : ClaimRollover(k, u) \/ ClaimBonus(k, u)
             \/ UnlockBonus(k)
      PROVE  LadderOK(registry', titles') /\ WinnersOK' /\ Climbs(registry, registry')
  <2>1. UNCHANGED <<registry, titles>>
    BY <1>1, <1>9, MoneyStep, TournamentConstants
  <2>2. PICK q : vault'.pots = [vault.pots EXCEPT ![k] = q] /\ q.winner = vault.pots[k].winner
    BY <1>1, <1>9, MoneyStep, TournamentConstants
  <2>3. \A j \in Tournaments : vault'.pots[j].winner = vault.pots[j].winner
    BY <1>1, <2>2
  <2> QED
    BY <1>1, <1>2, <2>1, <2>3 DEF WinnersOK
<1>10. CASE UNCHANGED vars
  BY <1>1, <1>2, <1>3, <1>10 DEF vars
<1> QED
  BY <1>4, <1>5, <1>6, <1>7, <1>8, <1>9, <1>10, TournamentKeys
     DEF Next, FundQuarterly, FundAnnual, SubmitQuarterlyWinner, SubmitAnnualWinner,
         ClaimQuarterlyRollover, ClaimAnnualRollover, ClaimQuarterlyBonus, ClaimAnnualBonus

LEMMA TournamentStep == TournamentInv /\ [Next]_vars => TournamentInv'
  BY BooksStep, LadderStep DEF TournamentInv

LEMMA TournamentInvariant == Spec => []TournamentInv
  BY InitTournament, TournamentStep, PTL DEF Spec

\* The year's finalists are as many as its quarters.
LEMMA YearIsFull ==
  ASSUME NEW r, NEW h, RungsOK(r, h), NEW y \in Years, h.finalists[<<y, Annual>>] # {}
  PROVE  Cardinality(h.finalists[<<y, Annual>>]) = LastQuarter
<1> DEFINE F == h.finalists[<<y, Annual>>]
           f == [q \in Quarters |-> h.champion[<<y, q>>]]
<1>1. F = {h.champion[<<y, q>>] : q \in Quarters} /\ F \subseteq Tokens
  BY RungTypes, TournamentKeys DEF RungsOK, YearsOK
<1>2. f \in Surjection(Quarters, F)
  BY <1>1 DEF Surjection
<1>3. ASSUME NEW q \in Quarters, NEW p \in Quarters, f[q] = f[p] PROVE q = p
  <2>1. h.champion[<<y, q>>] = h.champion[<<y, p>>] /\ h.champion[<<y, q>>] # NoToken
    BY <1>1, <1>3, SeasonConstants
  <2>2. <<y, q>> \in Quarterlies /\ <<y, p>> \in Quarterlies
    BY DEF Quarterlies
  <2>3. /\ h.champion[<<y, q>>] \in h.finalists[<<y, q>>]
        /\ h.champion[<<y, q>>] \in h.finalists[<<y, p>>]
    BY <2>1, <2>2, ChampionPlays, TournamentKeys
  <2>4. <<y, p>> = <<y, q>>
    BY <2>2, <2>3, OneQuarter
  <2> QED
    BY <2>4
<1>4. f \in Bijection(Quarters, F)
  BY <1>2, <1>3 DEF Bijection, Injection, Surjection, IsInjective
<1>5. IsFiniteSet(Quarters) /\ Cardinality(Quarters) = LastQuarter
  BY FS_Interval, TournamentConstants DEF Quarters
<1> HIDE DEF f, F
<1>6. Cardinality(F) = LastQuarter
  BY <1>4, <1>5, FS_Bijection, FS_Surjection, FS_CardinalityType, SMTT(30) DEF ExistsBijection
<1> QED
  BY <1>6 DEF F

LEMMA LadderTells == TournamentInv => TitlesHold
<1> SUFFICES ASSUME TournamentInv PROVE TitlesHold
  OBVIOUS
<1>1. /\ RungsOK(registry, titles) /\ WinnersOK
      /\ \A t \in Tokens : Told(registry, titles, t)
  BY DEF TournamentInv, LadderOK
<1>2. ASSUME NEW t PROVE TitleOf(t) = BestTitle(registry, titles, t)
  BY DEF TitleOf, BestTitle, WonYear, InYear, WonQuarter, InQuarter, WonWeek
<1>3. StatusMatchesTitles
  BY <1>1, <1>2 DEF StatusMatchesTitles, Told
<1>4. TitlesAreEarned
  <2>1. \A k \in Tournaments :
            /\ titles.champion[k] \in titles.finalists[k] \cup {NoToken}
            /\ titles.champion[k] = vault.pots[k].winner
    BY <1>1 DEF RungsOK, ChampionsOK, WinnersOK
  <2>2. \A k \in Quarterlies : \A t \in titles.finalists[k] :
            /\ \E s \in Seasons : registry.weeklyWinnerOf[s] = t
            /\ \A j \in Quarterlies : t \in titles.finalists[j] => j = k
    BY <1>1 DEF RungsOK, QuartersOK, WonWeek
  <2>3. \A y \in Years : titles.finalists[<<y, Annual>>] # {} =>
            /\ titles.finalists[<<y, Annual>>] = {titles.champion[<<y, q>>] : q \in Quarters}
            /\ Cardinality(titles.finalists[<<y, Annual>>]) = LastQuarter
    BY <1>1, YearIsFull DEF RungsOK, YearsOK
  <2> QED
    BY <2>1, <2>2, <2>3 DEF TitlesAreEarned
<1> QED
  BY <1>3, <1>4 DEF TitlesHold

(***************************************************************************)
(* The indexer, log by log                                                 *)
(***************************************************************************)

\* A fold of the indexer over some of the indexes extends to one more.
LEMMA IndexedFoldGrows ==
  ASSUME NEW s, NEW base, NEW k \in Nat, NEW g, IsFold(g, Indexed, base, s, k)
  PROVE  \E h : IsFold(h, Indexed, base, s, k + 1)
<1> DEFINE h == [T \in SUBSET (1..(k + 1)) |->
                    IF T = {} THEN base ELSE Indexed(g[T \ {Max(T)}], s[Max(T)])]
<1>1. \A T \in SUBSET (1..(k + 1)) : T # {} => T \ {Max(T)} \in SUBSET (1..k)
  BY LargestOf, k + 1 \in Nat
<1>2. \A T \in SUBSET (1..k) : h[T] = g[T]
  BY SUBSET (1..k) \subseteq SUBSET (1..(k + 1)) DEF IsFold
<1>3. IsFold(h, Indexed, base, s, k + 1)
  BY <1>1, <1>2 DEF IsFold
<1> QED
  BY <1>3

\* So it is defined on all of them.
LEMMA IndexedFoldExists ==
  ASSUME NEW s, NEW base, NEW n \in Nat
  PROVE  \E h : IsFold(h, Indexed, base, s, n)
<1> DEFINE Folds(k) == \E h : IsFold(h, Indexed, base, s, k)
           folded == {k \in 0..n : Folds(k)}
<1>1. Folds(0)
  <2> DEFINE h == [T \in SUBSET (1..0) |-> IF T = {} THEN base ELSE Indexed(base, s[Max(T)])]
  <2>1. \A T \in SUBSET (1..0) : T = {}
    OBVIOUS
  <2>2. IsFold(h, Indexed, base, s, 0)
    BY <2>1 DEF IsFold
  <2> QED
    BY <2>2
<1>2. \A k \in Nat : Folds(k) => Folds(k + 1)
  BY IndexedFoldGrows
<1> HIDE DEF Folds
<1>3. 0 \in folded /\ \A k \in 1..n : k - 1 \in folded => k \in folded
  <2> SUFFICES ASSUME NEW k \in 1..n, k - 1 \in folded PROVE Folds(k)
    BY <1>1
  <2>1. k - 1 \in Nat /\ (k - 1) + 1 = k
    OBVIOUS
  <2> QED
    BY <1>2, <2>1
<1> QED
  BY <1>3, StepByStep DEF Folds

\* The fold of the indexer over logs goes log by log.
LEMMA IndexedRun ==
  ASSUME NEW S, NEW s \in Seq(S), NEW base
  PROVE  \E run : /\ run[0] = base
                  /\ \A i \in 1..Len(s) : run[i] = Indexed(run[i - 1], s[i])
                  /\ FoldLeft(Indexed, base, s) = run[Len(s)]
<1> DEFINE n == Len(s)
           h == CHOOSE g : IsFold(g, Indexed, base, s, n)
           run == [i \in 0..n |-> h[1..i]]
<1>1. n \in Nat /\ DOMAIN s = 1..n
  OBVIOUS
<1>2. FoldLeft(Indexed, base, s) = h[1..n]
  BY <1>1 DEF FoldLeft, MapThenFoldSet, IsFold
<1>3. IsFold(h, Indexed, base, s, n)
  BY <1>1, IndexedFoldExists
<1> HIDE DEF h, n
<1>4. 1..0 = {} /\ h[1..0] = base
  BY <1>1, <1>3 DEF IsFold
<1>5. ASSUME NEW i \in 1..n PROVE run[i] = Indexed(run[i - 1], s[i])
  <2>1. i - 1 \in Nat /\ (i - 1) + 1 = i /\ i \in 0..n /\ i - 1 \in 0..n /\ 1..i \subseteq 1..n
    BY <1>1
  <2>2. Max(1..i) = i /\ (1..i) \ {Max(1..i)} = 1..(i - 1) /\ 1..i # {}
    BY <2>1, LargestOfFirst
  <2>3. h[1..i] = Indexed(h[(1..i) \ {Max(1..i)}], s[Max(1..i)])
    BY <1>3, <2>1, <2>2 DEF IsFold
  <2> QED
    BY <2>1, <2>2, <2>3
<1>6. run[0] = base /\ run[n] = h[1..n]
  BY <1>1, <1>4
<1> HIDE DEF run
<1> QED
  BY <1>2, <1>5, <1>6 DEF n
\* The same for the fold that makes the logs of the losers.
LEMMA LosersFoldGrows ==
  ASSUME NEW s, NEW base, NEW k \in Nat, NEW g, IsFold(g, WithLoser, base, s, k)
  PROVE  \E h : IsFold(h, WithLoser, base, s, k + 1)
<1> DEFINE h == [T \in SUBSET (1..(k + 1)) |->
                    IF T = {} THEN base ELSE WithLoser(g[T \ {Max(T)}], s[Max(T)])]
<1>1. \A T \in SUBSET (1..(k + 1)) : T # {} => T \ {Max(T)} \in SUBSET (1..k)
  BY LargestOf, k + 1 \in Nat
<1>2. \A T \in SUBSET (1..k) : h[T] = g[T]
  BY SUBSET (1..k) \subseteq SUBSET (1..(k + 1)) DEF IsFold
<1>3. IsFold(h, WithLoser, base, s, k + 1)
  BY <1>1, <1>2 DEF IsFold
<1> QED
  BY <1>3

LEMMA LosersFoldExists ==
  ASSUME NEW s, NEW base, NEW n \in Nat
  PROVE  \E h : IsFold(h, WithLoser, base, s, n)
<1> DEFINE Folds(k) == \E h : IsFold(h, WithLoser, base, s, k)
           folded == {k \in 0..n : Folds(k)}
<1>1. Folds(0)
  <2> DEFINE h == [T \in SUBSET (1..0) |-> IF T = {} THEN base ELSE WithLoser(base, s[Max(T)])]
  <2>1. \A T \in SUBSET (1..0) : T = {}
    OBVIOUS
  <2>2. IsFold(h, WithLoser, base, s, 0)
    BY <2>1 DEF IsFold
  <2> QED
    BY <2>2
<1>2. \A k \in Nat : Folds(k) => Folds(k + 1)
  BY LosersFoldGrows
<1> HIDE DEF Folds
<1>3. 0 \in folded /\ \A k \in 1..n : k - 1 \in folded => k \in folded
  <2> SUFFICES ASSUME NEW k \in 1..n, k - 1 \in folded PROVE Folds(k)
    BY <1>1
  <2>1. k - 1 \in Nat /\ (k - 1) + 1 = k
    OBVIOUS
  <2> QED
    BY <1>2, <2>1
<1> QED
  BY <1>3, StepByStep DEF Folds

\* The logs of a filter event are made loser by loser.
LEMMA LosersRun ==
  ASSUME NEW S, NEW s \in Seq(S), NEW base
  PROVE  \E run : /\ run[0] = base
                  /\ \A i \in 1..Len(s) : run[i] = WithLoser(run[i - 1], s[i])
                  /\ FoldLeft(WithLoser, base, s) = run[Len(s)]
<1> DEFINE n == Len(s)
           h == CHOOSE g : IsFold(g, WithLoser, base, s, n)
           run == [i \in 0..n |-> h[1..i]]
<1>1. n \in Nat /\ DOMAIN s = 1..n
  OBVIOUS
<1>2. FoldLeft(WithLoser, base, s) = h[1..n]
  BY <1>1 DEF FoldLeft, MapThenFoldSet, IsFold
<1>3. IsFold(h, WithLoser, base, s, n)
  BY <1>1, LosersFoldExists
<1> HIDE DEF h, n
<1>4. 1..0 = {} /\ h[1..0] = base
  BY <1>1, <1>3 DEF IsFold
<1>5. ASSUME NEW i \in 1..n PROVE run[i] = WithLoser(run[i - 1], s[i])
  <2>1. i - 1 \in Nat /\ (i - 1) + 1 = i /\ i \in 0..n /\ i - 1 \in 0..n /\ 1..i \subseteq 1..n
    BY <1>1
  <2>2. Max(1..i) = i /\ (1..i) \ {Max(1..i)} = 1..(i - 1) /\ 1..i # {}
    BY <2>1, LargestOfFirst
  <2>3. h[1..i] = WithLoser(h[(1..i) \ {Max(1..i)}], s[Max(1..i)])
    BY <1>3, <2>1, <2>2 DEF IsFold
  <2> QED
    BY <2>1, <2>2, <2>3
<1>6. run[0] = base /\ run[n] = h[1..n]
  BY <1>1, <1>4
<1> HIDE DEF run
<1> QED
  BY <1>2, <1>5, <1>6 DEF n

(***************************************************************************)
(* The logs of a filter event                                              *)
(***************************************************************************)

\* The logs of a filter event: Liquidated for each loser, TokenFiltered for each that
\* still was active.
FilteredLog(t) == [name |-> "TokenFiltered", token |-> t]
LiquidatedLog(t) == [name |-> "Liquidated", token |-> t]
ActiveOf(losers) == {t \in losers : registry.statusOf[t] = "ACTIVE"}
LogsOfLosers(losers) ==
    {FilteredLog(t) : t \in ActiveOf(losers)} \cup {LiquidatedLog(t) : t \in losers}

\* The logs of one loser are logs of the filter event.
LEMMA LoserLogsOK ==
  ASSUME NEW losers, NEW t \in losers
  PROVE  /\ LoserLogs(t) \in Seq(LogsOfLosers(losers))
         /\ ToSet(LoserLogs(t)) = LogsOfLosers({t})
<1> DEFINE L == LogsOfLosers(losers)
           p == IF t \in ActiveOf(losers) THEN <<FilteredLog(t)>> ELSE <<>>
           q == <<LiquidatedLog(t)>>
<1>1. LiquidatedLog(t) \in L /\ (t \in ActiveOf(losers) => FilteredLog(t) \in L)
  BY DEF LogsOfLosers
<1>2. LoserLogs(t) = p \o q
  BY DEF LoserLogs, ActiveOf, FilteredLog, LiquidatedLog
<1>3. LogsOfLosers({t}) = {FilteredLog(u) : u \in {t} \cap ActiveOf(losers)} \cup {LiquidatedLog(t)}
  BY DEF LogsOfLosers, ActiveOf
<1> HIDE DEF L
<1>4. p \in Seq(L) /\ ToSet(p) = {FilteredLog(u) : u \in {t} \cap ActiveOf(losers)}
  BY <1>1 DEF ToSet
<1>5. q \in Seq(L) /\ ToSet(q) = {LiquidatedLog(t)}
  BY <1>1 DEF ToSet
<1> HIDE DEF p, q
<1>6. p \o q \in Seq(L) /\ ToSet(p \o q) = ToSet(p) \cup ToSet(q)
  BY <1>4, <1>5, ElemsJoin
<1>7. ToSet(p \o q) = LogsOfLosers({t})
  BY <1>3, <1>4, <1>5, <1>6
<1> QED
  BY <1>2, <1>6, <1>7, Zenon DEF L

\* And the filter event has all of them.
LEMMA FilteredLogsOK ==
  ASSUME NEW losers, IsFiniteSet(losers)
  PROVE  /\ FilteredLogs(losers) \in Seq(LogsOfLosers(losers))
         /\ LogsOfLosers(losers) \subseteq ToSet(FilteredLogs(losers))
<1> DEFINE s == SetToSeq(losers)
           n == Len(s)
           L == LogsOfLosers(losers)
<1>1. s \in Seq(losers) /\ n \in Nat /\ \A x \in losers : \E i \in 1..n : s[i] = x
  BY SetToSeqCovers
<1> HIDE DEF s
<1>2. PICK run : /\ run[0] = <<>>
                 /\ \A i \in 1..n : run[i] = WithLoser(run[i - 1], s[i])
                 /\ FoldLeft(WithLoser, <<>>, s) = run[n]
  BY <1>1, LosersRun
<1> HIDE DEF n, L
<1> DEFINE Good(i) == /\ run[i] \in Seq(L)
                      /\ \A j \in 1..i : LogsOfLosers({s[j]}) \subseteq ToSet(run[i])
           good == {i \in 0..n : Good(i)}
<1>3. Good(0)
  BY <1>2
<1>4. ASSUME NEW i \in 1..n, Good(i - 1) PROVE Good(i)
  <2>1. s[i] \in losers /\ i - 1 \in 0..n
    BY <1>1 DEF n
  <2>2. LoserLogs(s[i]) \in Seq(L) /\ ToSet(LoserLogs(s[i])) = LogsOfLosers({s[i]})
    BY <2>1, LoserLogsOK DEF L
  <2>3. run[i] = run[i - 1] \o LoserLogs(s[i])
    BY <1>2 DEF WithLoser
  <2>4. run[i] \in Seq(L) /\ ToSet(run[i]) = ToSet(run[i - 1]) \cup LogsOfLosers({s[i]})
    BY <1>4, <2>2, <2>3, ElemsJoin
  <2>5. \A j \in 1..i : j = i \/ j \in 1..(i - 1)
    BY <1>1
  <2> QED
    BY <1>4, <2>4, <2>5
<1> HIDE DEF Good
<1>5. 0 \in good /\ \A i \in 1..n : i - 1 \in good => i \in good
  BY <1>1, <1>3, <1>4
<1>6. Good(n)
  BY <1>1, <1>5, StepByStep
<1>7. FilteredLogs(losers) = run[n]
  BY <1>2 DEF FilteredLogs, s
<1>8. L \subseteq ToSet(run[n])
  <2>1. \A x \in losers : LogsOfLosers({x}) \subseteq ToSet(run[n])
    BY <1>1, <1>6 DEF Good
  <2>2. \A e \in L : \E x \in losers : e \in LogsOfLosers({x})
    BY DEF L, LogsOfLosers, ActiveOf
  <2> QED
    BY <2>1, <2>2
<1> QED
  BY <1>6, <1>7, <1>8 DEF Good, L

(***************************************************************************)
(* The tables and their handlers                                           *)
(***************************************************************************)

\* What the indexer stores.
Row == [status: TokenStatus \cup {"NONE"}, of: Tournaments \cup {NoTournament}]

IndexTables ==
    [tournamentStatus: [Tokens -> Row], entrant: SUBSET (Tournaments \X Tokens),
     isChampion: SUBSET (Tournaments \X Tokens), liquidated: SUBSET Tokens,
     winner: [Seasons -> Tokens \cup {NoToken}]]

\* The rows after the tokens of T got a new title, and the rest of the tables as it was.
RowsTitled(d, n, T, status, k) ==
    \A t \in Tokens : n.tournamentStatus[t] =
        IF t \in T THEN [status |-> status, of |-> k] ELSE d.tournamentStatus[t]

\* What writing a title leaves alone; the same below for every handler.
LEMMA TitledFields ==
  ASSUME NEW d \in IndexTables, NEW T, NEW status \in TokenStatus,
         NEW k \in Tournaments \cup {NoTournament}, NEW n, n = Titled(d, T, status, k)
  PROVE  /\ n \in IndexTables /\ RowsTitled(d, n, T, status, k)
         /\ n.entrant = d.entrant /\ n.isChampion = d.isChampion
         /\ n.liquidated = d.liquidated /\ n.winner = d.winner
<1> DEFINE F == [t \in Tokens |-> IF t \in T THEN [status |-> status, of |-> k]
                                  ELSE d.tournamentStatus[t]]
<1>1. n = [d EXCEPT !.tournamentStatus = F]
  BY DEF Titled
<1>2. F \in [Tokens -> Row]
  BY DEF IndexTables, Row
<1>3. \A t \in Tokens : F[t] = IF t \in T THEN [status |-> status, of |-> k]
                                ELSE d.tournamentStatus[t]
  OBVIOUS
<1> HIDE DEF F
<1>4. /\ n \in IndexTables /\ n.tournamentStatus = F
      /\ n.entrant = d.entrant /\ n.isChampion = d.isChampion
      /\ n.liquidated = d.liquidated /\ n.winner = d.winner
  BY <1>1, <1>2 DEF IndexTables
<1> QED
  BY <1>3, <1>4 DEF RowsTitled

LEMMA EnteredFields ==
  ASSUME NEW d \in IndexTables, NEW ev, ev.tournament \in Tournaments, ev.entrants \subseteq Tokens,
         NEW status \in TokenStatus, NEW n, n = Entered(d, ev, status)
  PROVE  /\ n \in IndexTables /\ RowsTitled(d, n, ev.entrants, status, ev.tournament)
         /\ n.entrant = d.entrant \cup ({ev.tournament} \X ev.entrants)
         /\ n.isChampion = d.isChampion
         /\ n.liquidated = d.liquidated /\ n.winner = d.winner
<1> DEFINE m == Titled(d, ev.entrants, status, ev.tournament)
<1>1. /\ m \in IndexTables /\ RowsTitled(d, m, ev.entrants, status, ev.tournament)
      /\ m.entrant = d.entrant /\ m.isChampion = d.isChampion
      /\ m.liquidated = d.liquidated /\ m.winner = d.winner
  BY TitledFields
<1>2. n = [m EXCEPT !.entrant = @ \cup ({ev.tournament} \X ev.entrants)]
  BY DEF Entered
<1> HIDE DEF m
<1>3. /\ n.entrant = m.entrant \cup ({ev.tournament} \X ev.entrants)
      /\ n.tournamentStatus = m.tournamentStatus
      /\ n.isChampion = m.isChampion /\ n.liquidated = m.liquidated /\ n.winner = m.winner
  BY <1>1, <1>2 DEF IndexTables
<1>4. {ev.tournament} \X ev.entrants \subseteq Tournaments \X Tokens
  OBVIOUS
<1>5. n \in IndexTables
  BY <1>1, <1>2, <1>4 DEF IndexTables
<1> QED
  BY <1>1, <1>3, <1>5 DEF RowsTitled

\* The tables after t was made the champion of k.
CrownWritten(d, n, k, t, status) ==
    /\ n \in IndexTables /\ RowsTitled(d, n, {t}, status, k)
    /\ n.entrant = d.entrant \cup ({k} \X {t})
    /\ n.isChampion = d.isChampion \cup ({k} \X {t})
    /\ n.liquidated = d.liquidated /\ n.winner = d.winner

LEMMA CrownedFields ==
  ASSUME NEW d \in IndexTables, NEW k \in Tournaments, NEW t \in Tokens,
         NEW ev, ev.tournament = k, ev.champion = t,
         NEW status \in TokenStatus, NEW n, n = Crowned(d, ev, status)
  PROVE  CrownWritten(d, n, k, t, status)
<1> DEFINE m == Titled(d, {t}, status, k)
           key == <<k, t>>
           l == [m EXCEPT !.entrant = m.entrant \cup {key}]
<1>1. /\ m \in IndexTables /\ RowsTitled(d, m, {t}, status, k)
      /\ m.entrant = d.entrant /\ m.isChampion = d.isChampion
      /\ m.liquidated = d.liquidated /\ m.winner = d.winner
  BY TitledFields
<1>2. n = [m EXCEPT !.entrant = @ \cup {key}, !.isChampion = @ \cup {key}]
  BY DEF Crowned
<1>3. key \in Tournaments \X Tokens
  OBVIOUS
<1> HIDE DEF m, key
<1>4. n = [l EXCEPT !.isChampion = l.isChampion \cup {key}]
  BY <1>1, <1>2 DEF IndexTables
<1>5. /\ l \in IndexTables /\ l.entrant = m.entrant \cup {key}
      /\ l.tournamentStatus = m.tournamentStatus
      /\ l.isChampion = m.isChampion /\ l.liquidated = m.liquidated /\ l.winner = m.winner
  BY <1>1, <1>3 DEF IndexTables
<1> HIDE DEF l
<1>6. /\ n \in IndexTables /\ n.entrant = l.entrant /\ n.isChampion = l.isChampion \cup {key}
      /\ n.tournamentStatus = l.tournamentStatus
      /\ n.liquidated = l.liquidated /\ n.winner = l.winner
  BY <1>3, <1>4, <1>5 DEF IndexTables
<1>7. {key} = {k} \X {t}
  BY DEF key
<1> QED
  BY <1>1, <1>5, <1>6, <1>7 DEF RowsTitled, CrownWritten

LEMMA LiquidatedFields ==
  ASSUME NEW d \in IndexTables, NEW t \in Tokens, NEW ev, ev.token = t,
         NEW n, n = LiquidatedHandler(d, ev)
  PROVE  /\ n \in IndexTables /\ n.liquidated = d.liquidated \cup {t}
         /\ n.tournamentStatus = d.tournamentStatus
         /\ n.entrant = d.entrant /\ n.isChampion = d.isChampion /\ n.winner = d.winner
  BY DEF LiquidatedHandler, IndexTables

LEMMA WinnerFields ==
  ASSUME NEW d \in IndexTables, NEW t \in Tokens, NEW s \in Seasons, NEW ev,
         ev.season = s, ev.winner = t, NEW n, n = WinnerSubmitted(d, ev)
  PROVE  /\ n \in IndexTables /\ n.winner = [d.winner EXCEPT ![s] = t]
         /\ n.tournamentStatus = d.tournamentStatus /\ n.liquidated = d.liquidated
         /\ n.entrant = d.entrant /\ n.isChampion = d.isChampion
<1>1. n = [d EXCEPT !.winner = [d.winner EXCEPT ![s] = t]]
  BY DEF WinnerSubmitted
<1>2. [d.winner EXCEPT ![s] = t] \in [Seasons -> Tokens \cup {NoToken}]
  BY DEF IndexTables
<1> QED
  BY <1>1, <1>2 DEF IndexTables

\* The effect of no log, of one and of two logs that no handler throws at.
LEMMA EmitsNone ==
  ASSUME halted = FALSE, Emits(<<>>)
  PROVE  db' = db /\ halted' = FALSE
<1> DEFINE base == [db |-> db, halted |-> halted]
           logs == <<>>
           done == FoldLeft(Indexed, base, logs)
<1>1. logs \in Seq({}) /\ Len(logs) = 0
  OBVIOUS
<1>2. db' = done.db /\ halted' = done.halted
  BY DEF Emits
<1>3. base.halted = FALSE /\ base.db = db
  OBVIOUS
<1> HIDE DEF base, logs
<1>4. PICK run : /\ run[0] = base
                 /\ \A i \in 1..Len(logs) : run[i] = Indexed(run[i - 1], logs[i])
                 /\ done = run[Len(logs)]
  BY <1>1, IndexedRun
<1>5. done = base
  BY <1>1, <1>4
<1> HIDE DEF done
<1> QED
  BY <1>2, <1>3, <1>5

LEMMA EmitsOne ==
  ASSUME halted = FALSE, NEW e, Emits(<<e>>), ~Clashes(db, e)
  PROVE  db' = Handled(db, e) /\ halted' = FALSE
<1> DEFINE base == [db |-> db, halted |-> halted]
           logs == <<e>>
           done == FoldLeft(Indexed, base, logs)
<1>1. logs \in Seq({e}) /\ Len(logs) = 1 /\ logs[1] = e
  OBVIOUS
<1>2. db' = done.db /\ halted' = done.halted
  BY DEF Emits
<1>3. base.halted = FALSE /\ base.db = db
  OBVIOUS
<1> HIDE DEF base, logs
<1>4. PICK run : /\ run[0] = base
                 /\ \A i \in 1..Len(logs) : run[i] = Indexed(run[i - 1], logs[i])
                 /\ done = run[Len(logs)]
  BY <1>1, IndexedRun
<1>5. done = Indexed(base, e)
  BY <1>1, <1>4
<1>6. Indexed(base, e) = [db |-> Handled(db, e), halted |-> FALSE]
  BY <1>3 DEF Indexed
<1> HIDE DEF done
<1> QED
  BY <1>2, <1>5, <1>6

LEMMA EmitsTwo ==
  ASSUME halted = FALSE, NEW e, NEW f, Emits(<<e, f>>),
         ~Clashes(db, e), ~Clashes(Handled(db, e), f)
  PROVE  db' = Handled(Handled(db, e), f) /\ halted' = FALSE
<1> DEFINE base == [db |-> db, halted |-> halted]
           logs == <<e, f>>
           done == FoldLeft(Indexed, base, logs)
           next == [db |-> Handled(db, e), halted |-> FALSE]
<1>1. logs \in Seq({e, f}) /\ Len(logs) = 2 /\ logs[1] = e /\ logs[2] = f
  OBVIOUS
<1>2. db' = done.db /\ halted' = done.halted
  BY DEF Emits
<1>3. base.halted = FALSE /\ base.db = db /\ next.halted = FALSE /\ next.db = Handled(db, e)
  OBVIOUS
<1>4. Indexed(base, e) = next
  BY <1>3 DEF Indexed
<1> HIDE DEF base, logs, next
<1>5. Indexed(next, f) = [db |-> Handled(Handled(db, e), f), halted |-> FALSE]
  BY <1>3 DEF Indexed
<1>6. PICK run : /\ run[0] = base
                 /\ \A i \in 1..Len(logs) : run[i] = Indexed(run[i - 1], logs[i])
                 /\ done = run[Len(logs)]
  BY <1>1, IndexedRun
<1>7. run[1] = Indexed(run[0], e) /\ run[2] = Indexed(run[1], f) /\ done = run[2]
  BY <1>1, <1>6
<1> HIDE DEF done
<1> QED
  BY <1>2, <1>4, <1>5, <1>6, <1>7

\* A loser's logs name it, and their names tell them apart.
LEMMA LoserLogNames ==
  /\ \A t, u : FilteredLog(t) = FilteredLog(u) => t = u
  /\ \A t, u : LiquidatedLog(t) = LiquidatedLog(u) => t = u
  /\ \A t, u : FilteredLog(t) # LiquidatedLog(u)
<1>1. \A t : FilteredLog(t).name = "TokenFiltered" /\ FilteredLog(t).token = t
  BY DEF FilteredLog
<1>2. \A t : LiquidatedLog(t).name = "Liquidated" /\ LiquidatedLog(t).token = t
  BY DEF LiquidatedLog
<1> QED
  BY <1>1, <1>2

\* The tables after the logs of T have been handled, with the rows of F filtered.
LosersWritten(d, n, F, T) ==
    /\ n \in IndexTables /\ RowsTitled(d, n, F, "FILTERED", NoTournament)
    /\ n.liquidated = d.liquidated \cup T
    /\ n.entrant = d.entrant /\ n.isChampion = d.isChampion /\ n.winner = d.winner

\* An indexer with the tables d that has not stopped.
Served(d) == [db |-> d, halted |-> FALSE]

\* One log of a loser handled: nothing throws, and one more token is written.
LEMMA OneLoserLog ==
  ASSUME NEW d \in IndexTables, NEW m, NEW F, NEW T, LosersWritten(d, m, F, T),
         NEW t \in Tokens
  PROVE  /\ \E n : /\ Indexed(Served(m), FilteredLog(t)) = Served(n)
                   /\ LosersWritten(d, n, F \cup {t}, T)
         /\ \E n : /\ Indexed(Served(m), LiquidatedLog(t)) = Served(n)
                   /\ LosersWritten(d, n, F, T \cup {t})
<1> DEFINE f == FilteredLog(t)
           l == LiquidatedLog(t)
<1>1. f.name = "TokenFiltered" /\ f.token = t /\ l.name = "Liquidated" /\ l.token = t
  BY DEF FilteredLog, LiquidatedLog
<1> HIDE DEF f, l
<1>2. ~Clashes(m, f) /\ ~Clashes(m, l)
  BY <1>1 DEF Clashes
<1>3. Handled(m, f) = Titled(m, {t}, "FILTERED", NoTournament)
  BY <1>1 DEF Handled, TokenFiltered
<1>4. Handled(m, l) = LiquidatedHandler(m, l)
  BY <1>1 DEF Handled
<1>5. m \in IndexTables
  BY DEF LosersWritten
<1>6. LosersWritten(d, Handled(m, f), F \cup {t}, T)
  <2>1. "FILTERED" \in TokenStatus /\ NoTournament \in Tournaments \cup {NoTournament}
    BY DEF TokenStatus
  <2> DEFINE n == Handled(m, f)
  <2>2. /\ n \in IndexTables /\ RowsTitled(m, n, {t}, "FILTERED", NoTournament)
        /\ n.entrant = m.entrant /\ n.isChampion = m.isChampion
        /\ n.liquidated = m.liquidated /\ n.winner = m.winner
    BY <1>3, <1>5, <2>1, TitledFields
  <2> HIDE DEF n
  <2>3. LosersWritten(d, n, F \cup {t}, T)
    BY <2>2 DEF LosersWritten, RowsTitled
  <2> QED
    BY <2>3 DEF n
<1>7. LosersWritten(d, Handled(m, l), F, T \cup {t})
  <2> DEFINE n == Handled(m, l)
  <2>1. /\ n \in IndexTables /\ n.liquidated = m.liquidated \cup {t}
        /\ n.tournamentStatus = m.tournamentStatus
        /\ n.entrant = m.entrant /\ n.isChampion = m.isChampion /\ n.winner = m.winner
    BY <1>1, <1>4, <1>5, LiquidatedFields
  <2> HIDE DEF n
  <2>2. LosersWritten(d, n, F, T \cup {t})
    BY <2>1 DEF LosersWritten, RowsTitled
  <2> QED
    BY <2>2 DEF n
<1>8. /\ Indexed(Served(m), f) = Served(Handled(m, f))
      /\ Indexed(Served(m), l) = Served(Handled(m, l))
  BY <1>2 DEF Indexed, Served
<1> QED
  BY <1>6, <1>7, <1>8 DEF f, l

\* All logs of a filter event handled, in any order that SetToSeq gives the losers.
LEMMA EmitsLosers ==
  ASSUME halted = FALSE, db \in IndexTables, NEW losers \in SUBSET Tokens, IsFiniteSet(losers),
         Emits(FilteredLogs(losers))
  PROVE  halted' = FALSE /\ LosersWritten(db, db', ActiveOf(losers), losers)
<1> DEFINE base == [db |-> db, halted |-> halted]
           logs == FilteredLogs(losers)
           done == FoldLeft(Indexed, base, logs)
           n == Len(logs)
           F(i) == {t \in losers : FilteredLog(t) \in {logs[j] : j \in 1..i}}
           T(i) == {t \in losers : LiquidatedLog(t) \in {logs[j] : j \in 1..i}}
<1>1. logs \in Seq(LogsOfLosers(losers)) /\ LogsOfLosers(losers) \subseteq ToSet(logs)
  BY FilteredLogsOK
<1>2. db' = done.db /\ halted' = done.halted
  BY DEF Emits
<1>3. base = Served(db)
  BY DEF Served
<1> HIDE DEF base, logs
<1>4. n \in Nat /\ \A i \in 1..n : logs[i] \in LogsOfLosers(losers)
  BY <1>1
<1>5. PICK run : /\ run[0] = base
                 /\ \A i \in 1..Len(logs) : run[i] = Indexed(run[i - 1], logs[i])
                 /\ done = run[Len(logs)]
  BY <1>1, IndexedRun
<1>6. F(n) = ActiveOf(losers) /\ T(n) = losers
  <2>1. ToSet(logs) = {logs[j] : j \in 1..n}
    BY DEF ToSet
  <2>2. {logs[j] : j \in 1..n} = LogsOfLosers(losers)
    BY <1>1, <1>4, <2>1
  <2>3. \A t \in losers : /\ LiquidatedLog(t) \in LogsOfLosers(losers)
                          /\ FilteredLog(t) \in LogsOfLosers(losers) <=> t \in ActiveOf(losers)
    BY LoserLogNames DEF LogsOfLosers
  <2> QED
    BY <2>2, <2>3 DEF ActiveOf
<1> DEFINE Good(i) == \E m : run[i] = Served(m) /\ LosersWritten(db, m, F(i), T(i))
           good == {i \in 0..n : Good(i)}
<1>7. Good(0)
  <2>1. F(0) = {} /\ T(0) = {}
    OBVIOUS
  <2>2. LosersWritten(db, db, {}, {})
    BY DEF LosersWritten, RowsTitled
  <2> QED
    BY <1>3, <1>5, <2>1, <2>2
<1>8. ASSUME NEW i \in 1..n, Good(i - 1) PROVE Good(i)
  <2>0. PICK m : run[i - 1] = Served(m) /\ LosersWritten(db, m, F(i - 1), T(i - 1))
    BY <1>8
  <2>1. \A j \in 1..i : j = i \/ j \in 1..(i - 1)
    BY <1>4
  <2>2. {logs[j] : j \in 1..i} = {logs[j] : j \in 1..(i - 1)} \cup {logs[i]}
    BY <1>4, <2>1
  <2>3. run[i] = Indexed(Served(m), logs[i])
    BY <1>5, <2>0
  <2>4. CASE \E t \in losers : logs[i] = FilteredLog(t)
    <3>1. PICK t \in losers : logs[i] = FilteredLog(t)
      BY <2>4
    <3>2. F(i) = F(i - 1) \cup {t} /\ T(i) = T(i - 1)
      BY <2>2, <3>1, LoserLogNames
    <3> HIDE DEF F, T
    <3>3. PICK o : /\ Indexed(Served(m), FilteredLog(t)) = Served(o)
                   /\ LosersWritten(db, o, F(i - 1) \cup {t}, T(i - 1))
      BY <2>0, OneLoserLog, t \in Tokens
    <3> QED
      BY <2>3, <3>1, <3>2, <3>3
  <2>5. CASE \E t \in losers : logs[i] = LiquidatedLog(t)
    <3>1. PICK t \in losers : logs[i] = LiquidatedLog(t)
      BY <2>5
    <3>2. F(i) = F(i - 1) /\ T(i) = T(i - 1) \cup {t}
      BY <2>2, <3>1, LoserLogNames
    <3> HIDE DEF F, T
    <3>3. PICK o : /\ Indexed(Served(m), LiquidatedLog(t)) = Served(o)
                   /\ LosersWritten(db, o, F(i - 1), T(i - 1) \cup {t})
      BY <2>0, OneLoserLog, t \in Tokens
    <3> QED
      BY <2>3, <3>1, <3>2, <3>3
  <2> QED
    BY <1>4, <2>4, <2>5 DEF LogsOfLosers, ActiveOf
<1> HIDE DEF Good
<1>9. 0 \in good /\ \A i \in 1..n : i - 1 \in good => i \in good
  BY <1>4, <1>7, <1>8
<1>10. Good(n)
  BY <1>4, <1>9, StepByStep
<1>11. PICK m : done = Served(m) /\ LosersWritten(db, m, ActiveOf(losers), losers)
  BY <1>5, <1>6, <1>10 DEF Good
<1> HIDE DEF done
<1> QED
  BY <1>2, <1>11 DEF Served

(***************************************************************************)
(* The mirror of the titles                                                *)
(***************************************************************************)

Weekly == {"ACTIVE", "FILTERED", "WEEKLY_WINNER"}
Quarterly == {"QUARTERLY_FINALIST", "QUARTERLY_CHAMPION"}

\* The tournaments that a title of t may be of: TournamentOf, for any records.
OfTitle(h, status, t) ==
    IF status \in Weekly THEN {NoTournament}
    ELSE IF status \in Quarterly THEN {k \in Quarterlies : t \in h.finalists[k]}
    ELSE {k \in Tournaments : k[2] = Annual /\ t \in h.finalists[k]}

\* The row of t tells its title and where it was won.
TitleRow(h, row, status, t) ==
    IF row = NoRow THEN status = "ACTIVE"
    ELSE row.status = status /\ OfTitle(h, status, t) = {row.of}

\* The tables d mirror the registry r and its records h.
Mirrored(d, r, h) ==
    /\ d \in IndexTables
    /\ \A t \in Tokens : TitleRow(h, d.tournamentStatus[t], r.statusOf[t], t)
    /\ d.entrant = {e \in Tournaments \X Tokens : e[2] \in h.finalists[e[1]]}
    /\ d.isChampion = {e \in Tournaments \X Tokens : h.champion[e[1]] = e[2]}
    /\ d.liquidated = {t \in Tokens : r.statusOf[t] = "FILTERED"}
    /\ d.winner = r.weeklyWinnerOf

\* A week is won by a token of its season.
WinnersInSeason(r) ==
    \A s \in Seasons : r.weeklyWinnerOf[s] \in SeasonTokens[s] \cup {NoToken}

\* A row just written for a title that has one tournament mirrors it.
LEMMA NewRow ==
  ASSUME NEW h, NEW status \in TokenStatus, NEW k, NEW t, OfTitle(h, status, t) = {k}
  PROVE  TitleRow(h, [status |-> status, of |-> k], status, t)
<1>1. [status |-> status, of |-> k] # NoRow
  BY DEF NoRow, TokenStatus
<1> QED
  BY <1>1 DEF TitleRow

\* Before its season is settled a token has no title at all.
LEMMA NoTitleYet ==
  ASSUME NEW r, NEW h, LadderOK(r, h), WinnersInSeason(r), NEW s \in Seasons,
         r.weeklyWinnerOf[s] = NoToken, NEW t \in SeasonTokens[s]
  PROVE  t \in Tokens /\ r.statusOf[t] \in {"ACTIVE", "FILTERED"}
<1>1. RungsOK(r, h) /\ t \in Tokens /\ t # NoToken /\ Told(r, h, t)
  BY SeasonConstants, TournamentConstants DEF LadderOK
<1>2. ~WonWeek(r, t)
  <2> SUFFICES ASSUME NEW z \in Seasons, r.weeklyWinnerOf[z] = t PROVE FALSE
    BY DEF WonWeek
  <2>1. t \in SeasonTokens[z]
    BY <1>1 DEF WinnersInSeason
  <2>2. z = s
    BY <2>1, TournamentConstants
  <2> QED
    BY <1>1, <2>2
<1>3. ~InQuarter(h, t)
  BY <1>1, <1>2 DEF InQuarter, RungsOK, QuartersOK
<1>4. ~WonQuarter(h, t)
  BY <1>1, <1>3, ChampionPlays, TournamentKeys DEF WonQuarter, InQuarter
<1>5. ~InYear(h, t)
  BY <1>1, <1>3, QuarterChampion DEF InYear, InQuarter
<1>6. WonYear(h, t) => InYear(h, t)
  BY <1>1, ChampionPlays, TournamentKeys DEF WonYear, InYear
<1> QED
  BY <1>1, <1>2, <1>3, <1>4, <1>5, <1>6 DEF Told, BestTitle

\* recordWeeklyWinner and its two logs.
LEMMA WeekMirrored ==
  ASSUME NEW r, NEW h, LadderOK(r, h), WinnersInSeason(r), NEW d, Mirrored(d, r, h),
         NEW s \in Seasons, NEW t \in SeasonTokens[s], CanRecordWeeklyWinner(r, s, t),
         NEW n, n = WeeklyWinnerRecorded(r, s, t),
         NEW l, RowsTitled(d, l, {t}, "WEEKLY_WINNER", NoTournament), l \in IndexTables,
         l.entrant = d.entrant, l.isChampion = d.isChampion,
         l.liquidated = d.liquidated, l.winner = [d.winner EXCEPT ![s] = t]
  PROVE  Mirrored(l, n, h) /\ WinnersInSeason(n)
<1>1. /\ r.statusOf \in [Tokens -> TokenStatus]
      /\ r.weeklyWinnerOf \in [Seasons -> Tokens \cup {NoToken}]
  BY RungTypes DEF LadderOK
<1>2. r.weeklyWinnerOf[s] = NoToken /\ r.statusOf[t] # "FILTERED"
  BY DEF CanRecordWeeklyWinner
<1>3. t \in Tokens /\ r.statusOf[t] = "ACTIVE"
  BY <1>2, NoTitleYet
<1>4. /\ n.statusOf = [r.statusOf EXCEPT ![t] = "WEEKLY_WINNER"]
      /\ n.weeklyWinnerOf = [r.weeklyWinnerOf EXCEPT ![s] = t]
  BY <1>3 DEF WeeklyWinnerRecorded
<1>5. /\ n.statusOf[t] = "WEEKLY_WINNER"
      /\ \A u \in Tokens \ {t} : n.statusOf[u] = r.statusOf[u]
  BY <1>1, <1>3, <1>4
<1>6. \A u \in Tokens : TitleRow(h, l.tournamentStatus[u], n.statusOf[u], u)
  <2>1. OfTitle(h, "WEEKLY_WINNER", t) = {NoTournament} /\ "WEEKLY_WINNER" \in TokenStatus
    BY DEF OfTitle, Weekly, TokenStatus
  <2>2. TitleRow(h, l.tournamentStatus[t], n.statusOf[t], t)
    BY <1>3, <1>5, <2>1, NewRow DEF RowsTitled
  <2>3. \A u \in Tokens \ {t} : l.tournamentStatus[u] = d.tournamentStatus[u]
    BY DEF RowsTitled
  <2> QED
    BY <1>5, <2>2, <2>3 DEF Mirrored
<1>7. {u \in Tokens : n.statusOf[u] = "FILTERED"} = {u \in Tokens : r.statusOf[u] = "FILTERED"}
  BY <1>3, <1>5
<1>8. WinnersInSeason(n)
  BY <1>1, <1>4 DEF WinnersInSeason
<1> QED
  BY <1>4, <1>6, <1>7, <1>8 DEF Mirrored

\* markFiltered and the logs of the losers.
LEMMA MarkMirrored ==
  ASSUME NEW r, NEW h, LadderOK(r, h), WinnersInSeason(r), NEW d, Mirrored(d, r, h),
         NEW s \in Seasons, NEW losers, losers \subseteq SeasonTokens[s],
         r.weeklyWinnerOf[s] = NoToken, NEW n, n = FilteredMarked(r, losers),
         NEW active, active = {t \in losers : r.statusOf[t] = "ACTIVE"},
         NEW l, LosersWritten(d, l, active, losers)
  PROVE  Mirrored(l, n, h) /\ WinnersInSeason(n)
<1>1. \A t \in losers : t \in Tokens /\ r.statusOf[t] \in {"ACTIVE", "FILTERED"}
  BY NoTitleYet
<1>2. /\ \A t \in Tokens : n.statusOf[t] = IF t \in active THEN "FILTERED" ELSE r.statusOf[t]
      /\ n.weeklyWinnerOf = r.weeklyWinnerOf
  BY DEF FilteredMarked
<1>3. \A t \in Tokens : TitleRow(h, l.tournamentStatus[t], n.statusOf[t], t)
  <2> SUFFICES ASSUME NEW t \in Tokens
               PROVE  TitleRow(h, l.tournamentStatus[t], n.statusOf[t], t)
    OBVIOUS
  <2>1. CASE t \in active
    <3>1. OfTitle(h, "FILTERED", t) = {NoTournament} /\ "FILTERED" \in TokenStatus
      BY DEF OfTitle, Weekly, TokenStatus
    <3> QED
      BY <1>2, <2>1, <3>1, NewRow DEF LosersWritten, RowsTitled
  <2>2. CASE t \notin active
    BY <1>2, <2>2 DEF LosersWritten, RowsTitled, Mirrored
  <2> QED
    BY <2>1, <2>2
<1>4. l.liquidated = {t \in Tokens : n.statusOf[t] = "FILTERED"}
  BY <1>1, <1>2 DEF LosersWritten, Mirrored
<1>5. WinnersInSeason(n)
  BY <1>2 DEF WinnersInSeason
<1> QED
  BY <1>2, <1>3, <1>4, <1>5 DEF Mirrored, LosersWritten

\* A finalist's title is of its one quarter, or of its one year.
LEMMA TitleOfQuarter ==
  ASSUME NEW r, NEW h, RungsOK(r, h), NEW k \in Quarterlies, NEW t \in h.finalists[k],
         NEW status \in Quarterly
  PROVE  OfTitle(h, status, t) = {k}
<1>1. status \notin Weekly
  BY DEF Quarterly, Weekly
<1>2. \A j \in Quarterlies : t \in h.finalists[j] => j = k
  BY OneQuarter
<1> QED
  BY <1>1, <1>2 DEF OfTitle

LEMMA TitleOfYear ==
  ASSUME NEW r, NEW h, RungsOK(r, h), NEW y \in Years, NEW t \in h.finalists[<<y, Annual>>],
         NEW status \in {"ANNUAL_FINALIST", "ANNUAL_CHAMPION"}
  PROVE  OfTitle(h, status, t) = {<<y, Annual>>}
<1>1. status \notin Weekly /\ status \notin Quarterly
  BY DEF Quarterly, Weekly
<1>2. <<y, Annual>> \in Tournaments /\ t \in Tokens
  BY RungTypes, TournamentKeys
<1>3. ASSUME NEW k \in Tournaments, k[2] = Annual, t \in h.finalists[k] PROVE k = <<y, Annual>>
  <2>1. PICK z \in Years : k = <<z, Annual>>
    BY <1>3 DEF Tournaments
  <2> QED
    BY <1>2, <1>3, <2>1, OneYear
<1> QED
  BY <1>1, <1>2, <1>3 DEF OfTitle

\* recordQuarterlyFinalists and recordAnnualFinalists with their logs.
LEMMA FinalistsMirrored ==
  ASSUME NEW r, NEW h, RungsOK(r, h), NEW d, Mirrored(d, r, h),
         NEW k \in Tournaments, NEW E \in SUBSET Tokens, h.finalists[k] = {},
         NEW status \in TokenStatus \ {"FILTERED"}, \A t \in E : r.statusOf[t] # "FILTERED",
         NEW n, n = Elevated(r, E, status), NEW g, g = WithFinalists(h, k, E),
         \A t \in E : OfTitle(g, status, t) = {k},
         NEW l, l \in IndexTables, RowsTitled(d, l, E, status, k),
         l.entrant = d.entrant \cup ({k} \X E), l.isChampion = d.isChampion,
         l.liquidated = d.liquidated, l.winner = d.winner
  PROVE  Mirrored(l, n, g)
<1>1. r \in RegistryState /\ h \in Titles
  BY DEF RungsOK
<1>2. /\ n.weeklyWinnerOf = r.weeklyWinnerOf
      /\ \A t \in Tokens : n.statusOf[t] = IF t \in E THEN status ELSE r.statusOf[t]
  BY <1>1, ElevatedFields
<1>3. /\ g.champion = h.champion /\ g.finalists[k] = E
      /\ \A j \in Tournaments \ {k} : g.finalists[j] = h.finalists[j]
  BY <1>1, FinalistsFields
<1>4. ASSUME NEW t \in Tokens
      PROVE  TitleRow(g, l.tournamentStatus[t], n.statusOf[t], t)
  <2>1. CASE t \in E
    BY <1>2, <2>1, NewRow DEF RowsTitled
  <2>2. CASE t \notin E
    <3>1. \A j \in Tournaments : t \in g.finalists[j] <=> t \in h.finalists[j]
      BY <1>3, <2>2
    <3>2. OfTitle(g, r.statusOf[t], t) = OfTitle(h, r.statusOf[t], t)
      BY <3>1, TournamentKeys DEF OfTitle
    <3>3. l.tournamentStatus[t] = d.tournamentStatus[t] /\ n.statusOf[t] = r.statusOf[t]
      BY <1>2, <2>2 DEF RowsTitled
    <3> QED
      BY <3>2, <3>3 DEF Mirrored, TitleRow
  <2> QED
    BY <2>1, <2>2
<1>5. l.entrant = {e \in Tournaments \X Tokens : e[2] \in g.finalists[e[1]]}
  <2>1. \A e \in Tournaments \X Tokens :
            e \in {k} \X E <=> e[1] = k /\ e[2] \in E
    OBVIOUS
  <2>2. {k} \X E \subseteq Tournaments \X Tokens
    OBVIOUS
  <2>3. \A e \in Tournaments \X Tokens : e[1] \in Tournaments
    OBVIOUS
  <2> QED
    BY <1>3, <2>1, <2>2, <2>3 DEF Mirrored
<1>6. {t \in Tokens : n.statusOf[t] = "FILTERED"} = {t \in Tokens : r.statusOf[t] = "FILTERED"}
  BY <1>2
<1> QED
  BY <1>2, <1>3, <1>4, <1>5, <1>6 DEF Mirrored

\* recordQuarterlyChampion and recordAnnualChampion with their logs.
LEMMA ChampionMirrored ==
  ASSUME NEW r, NEW h, RungsOK(r, h), NEW d, Mirrored(d, r, h),
         NEW k \in Tournaments, NEW t \in h.finalists[k], h.champion[k] = NoToken,
         NEW status \in TokenStatus \ {"FILTERED"}, r.statusOf[t] # "FILTERED",
         OfTitle(h, status, t) = {k},
         NEW n, n = Elevated(r, {t}, status), NEW g, g = WithChampion(h, k, t),
         NEW l, CrownWritten(d, l, k, t, status)
  PROVE  Mirrored(l, n, g)
<1>0. /\ l \in IndexTables /\ RowsTitled(d, l, {t}, status, k)
      /\ l.entrant = d.entrant \cup {<<k, t>>}
      /\ l.isChampion = d.isChampion \cup {<<k, t>>}
      /\ l.liquidated = d.liquidated /\ l.winner = d.winner
  BY DEF CrownWritten
<1>1. r \in RegistryState /\ h \in Titles /\ t \in Tokens
  BY RungTypes DEF RungsOK
<1>2. /\ n.weeklyWinnerOf = r.weeklyWinnerOf
      /\ n.statusOf[t] = status /\ \A u \in Tokens \ {t} : n.statusOf[u] = r.statusOf[u]
  BY <1>1, ElevatedFields
<1>3. /\ g.finalists = h.finalists /\ g.champion[k] = t
      /\ \A j \in Tournaments \ {k} : g.champion[j] = h.champion[j]
  BY <1>1, ChampionFields
<1>4. ASSUME NEW u \in Tokens
      PROVE  TitleRow(g, l.tournamentStatus[u], n.statusOf[u], u)
  <2>1. \A x : OfTitle(g, x, u) = OfTitle(h, x, u)
    BY <1>3 DEF OfTitle
  <2>2. CASE u = t
    <3>1. l.tournamentStatus[t] = [status |-> status, of |-> k]
      BY <1>0, <1>1 DEF RowsTitled
    <3>2. OfTitle(g, status, t) = {k}
      BY <2>1, <2>2
    <3>3. TitleRow(g, [status |-> status, of |-> k], status, t)
      BY <3>2, NewRow
    <3>4. TitleRow(g, l.tournamentStatus[t], n.statusOf[t], t)
      BY <1>2, <3>1, <3>3
    <3> QED
      BY <2>2, <3>4
  <2>3. CASE u # t
    <3>1. l.tournamentStatus[u] = d.tournamentStatus[u] /\ n.statusOf[u] = r.statusOf[u]
      BY <1>0, <1>2, <2>3 DEF RowsTitled
    <3>2. OfTitle(g, r.statusOf[u], u) = OfTitle(h, r.statusOf[u], u)
      BY <2>1
    <3> QED
      BY <3>1, <3>2 DEF Mirrored, TitleRow
  <2> QED
    BY <2>2, <2>3
<1>5. l.entrant = {e \in Tournaments \X Tokens : e[2] \in g.finalists[e[1]]}
  BY <1>0, <1>1, <1>3 DEF Mirrored
<1>6. l.isChampion = {e \in Tournaments \X Tokens : g.champion[e[1]] = e[2]}
  <2>1. \A e \in Tournaments \X Tokens : e[1] \in Tournaments /\ e[2] \in Tokens /\ e = <<e[1], e[2]>>
    OBVIOUS
  <2>2. h.champion[k] \notin Tokens
    BY SeasonConstants
  <2> QED
    BY <1>0, <1>1, <1>3, <2>1, <2>2 DEF Mirrored
<1>7. {u \in Tokens : n.statusOf[u] = "FILTERED"} = {u \in Tokens : r.statusOf[u] = "FILTERED"}
  BY <1>1, <1>2
<1> QED
  BY <1>0, <1>2, <1>4, <1>5, <1>6, <1>7 DEF Mirrored

\* The inductive invariant of the titles with their mirror.
IndexInv ==
    /\ TournamentInv
    /\ halted = FALSE
    /\ Mirrored(db, registry, titles)
    /\ WinnersInSeason(registry)

\* The empty tables mirror the empty registry.
LEMMA InitIndex == IndexInit => IndexInv
<1> SUFFICES ASSUME IndexInit PROVE IndexInv
  OBVIOUS
<1>1. TournamentInv /\ halted = FALSE /\ db = EmptyTables
  BY InitTournament DEF IndexInit
<1>2. /\ registry.statusOf = [t \in Tokens |-> "ACTIVE"]
      /\ registry.weeklyWinnerOf = [s \in Seasons |-> NoToken]
  BY DEF IndexInit, Init, EmptyRegistry
<1>3. /\ titles.finalists = [k \in Tournaments |-> {}]
      /\ titles.champion = [k \in Tournaments |-> NoToken]
  BY DEF IndexInit, Init, NoTitles
<1>4. /\ db.tournamentStatus = [t \in Tokens |-> NoRow]
      /\ db.entrant = {} /\ db.isChampion = {} /\ db.liquidated = {}
      /\ db.winner = [s \in Seasons |-> NoToken]
  BY <1>1 DEF EmptyTables
<1>5. NoRow \in Row
  BY DEF NoRow, Row
<1>6. db \in IndexTables
  BY <1>1, <1>5 DEF EmptyTables, IndexTables
<1>7. \A e \in Tournaments \X Tokens : e[1] \in Tournaments /\ e[2] \in Tokens
  OBVIOUS
<1>8. Mirrored(db, registry, titles)
  <2>1. \A t \in Tokens : TitleRow(titles, db.tournamentStatus[t], registry.statusOf[t], t)
    BY <1>2, <1>4 DEF TitleRow
  <2>2. /\ {e \in Tournaments \X Tokens : e[2] \in titles.finalists[e[1]]} = {}
        /\ {e \in Tournaments \X Tokens : titles.champion[e[1]] = e[2]} = {}
    BY <1>3, <1>7, SeasonConstants
  <2>3. {t \in Tokens : registry.statusOf[t] = "FILTERED"} = {}
    BY <1>2
  <2> QED
    BY <1>2, <1>4, <1>6, <2>1, <2>2, <2>3 DEF Mirrored
<1> QED
  BY <1>1, <1>2, <1>8 DEF IndexInv, WinnersInSeason

\* The steps of the indexed system, one by one.
LEMMA WeekIndexed ==
  ASSUME IndexInv, NEW s \in Seasons, NEW t \in Tokens,
         RecordWeeklyWinner(s, t), Emits(WeeklyWinnerLogs(s, t))
  PROVE  halted' = FALSE /\ Mirrored(db', registry', titles') /\ WinnersInSeason(registry')
<1> DEFINE e == [name |-> "WinnerSubmitted", season |-> s, winner |-> t]
           f == [name |-> "WeeklyWinnerRecorded", token |-> t]
           m == WinnerSubmitted(db, e)
           l == Titled(m, {t}, "WEEKLY_WINNER", NoTournament)
<1>1. /\ LadderOK(registry, titles) /\ WinnersInSeason(registry)
      /\ halted = FALSE /\ Mirrored(db, registry, titles) /\ db \in IndexTables
  BY DEF IndexInv, TournamentInv, Mirrored
<1>2. /\ t \in SeasonTokens[s] /\ CanRecordWeeklyWinner(registry, s, t)
      /\ registry' = WeeklyWinnerRecorded(registry, s, t) /\ titles' = titles
  BY DEF RecordWeeklyWinner
<1>3. e.name = "WinnerSubmitted" /\ e.season = s /\ e.winner = t
  OBVIOUS
<1>4. f.name = "WeeklyWinnerRecorded" /\ f.token = t
  OBVIOUS
<1>5. Emits(<<e, f>>)
  BY DEF WeeklyWinnerLogs
<1> HIDE DEF e, f
<1>6. Handled(db, e) = m
  BY <1>3 DEF Handled
<1>7. \A d : Handled(d, f) = Titled(d, {t}, "WEEKLY_WINNER", NoTournament)
  BY <1>4 DEF Handled, WeeklyWinnerRecordedHandler
<1>8. ~Clashes(db, e) /\ ~Clashes(Handled(db, e), f)
  BY <1>3, <1>4 DEF Clashes
<1>9. db' = Handled(Handled(db, e), f) /\ halted' = FALSE
  BY <1>1, <1>5, <1>8, EmitsTwo
<1>10. db' = l
  BY <1>6, <1>7, <1>9
<1>11. /\ m \in IndexTables /\ m.winner = [db.winner EXCEPT ![s] = t]
       /\ m.tournamentStatus = db.tournamentStatus /\ m.liquidated = db.liquidated
       /\ m.entrant = db.entrant /\ m.isChampion = db.isChampion
  BY <1>1, <1>3, WinnerFields
<1> HIDE DEF m
<1>0. "WEEKLY_WINNER" \in TokenStatus /\ NoTournament \in Tournaments \cup {NoTournament}
  BY DEF TokenStatus
<1>12. /\ l \in IndexTables /\ RowsTitled(m, l, {t}, "WEEKLY_WINNER", NoTournament)
       /\ l.entrant = m.entrant /\ l.isChampion = m.isChampion
       /\ l.liquidated = m.liquidated /\ l.winner = m.winner
  BY <1>0, <1>11, TitledFields
<1> HIDE DEF l
<1>13. RowsTitled(db, l, {t}, "WEEKLY_WINNER", NoTournament)
  BY <1>11, <1>12 DEF RowsTitled
<1>14. Mirrored(l, registry', titles) /\ WinnersInSeason(registry')
  BY <1>1, <1>2, <1>11, <1>12, <1>13, WeekMirrored
<1> QED
  BY <1>2, <1>9, <1>10, <1>14

LEMMA MarkIndexed ==
  ASSUME IndexInv, NEW s \in Seasons, NEW losers \in SUBSET Tokens,
         MarkFiltered(s, losers), Emits(FilteredLogs(losers))
  PROVE  halted' = FALSE /\ Mirrored(db', registry', titles') /\ WinnersInSeason(registry')
<1>1. /\ LadderOK(registry, titles) /\ WinnersInSeason(registry)
      /\ halted = FALSE /\ Mirrored(db, registry, titles) /\ db \in IndexTables
  BY DEF IndexInv, TournamentInv, Mirrored
<1>2. /\ losers \subseteq SeasonTokens[s] /\ registry.weeklyWinnerOf[s] = NoToken
      /\ registry' = FilteredMarked(registry, losers) /\ titles' = titles
  BY DEF MarkFiltered
<1>3. IsFiniteSet(losers)
  BY FS_Subset, SeasonConstants
<1>4. halted' = FALSE /\ LosersWritten(db, db', ActiveOf(losers), losers)
  BY <1>1, <1>3, EmitsLosers
<1>5. Mirrored(db', registry', titles) /\ WinnersInSeason(registry')
  BY <1>1, <1>2, <1>4, MarkMirrored DEF ActiveOf
<1> QED
  BY <1>2, <1>4, <1>5

LEMMA FinalistsIndexed ==
  ASSUME IndexInv, RungsOK(registry', titles'), NEW k \in Tournaments, NEW E \in SUBSET Tokens,
         titles.finalists[k] = {}, NEW status \in {"QUARTERLY_FINALIST", "ANNUAL_FINALIST"},
         \A t \in E : registry.statusOf[t] # "FILTERED",
         \A t \in E : OfTitle(titles', status, t) = {k},
         registry' = Elevated(registry, E, status), titles' = WithFinalists(titles, k, E),
         NEW e, e.tournament = k, e.entrants = E,
         e.name = IF status = "QUARTERLY_FINALIST" THEN "QuarterlyFinalistsRecorded"
                  ELSE "AnnualFinalistsRecorded",
         Emits(<<e>>)
  PROVE  halted' = FALSE /\ Mirrored(db', registry', titles') /\ WinnersInSeason(registry')
<1> DEFINE l == Entered(db, e, status)
<1>1. /\ RungsOK(registry, titles) /\ WinnersInSeason(registry)
      /\ halted = FALSE /\ Mirrored(db, registry, titles) /\ db \in IndexTables
  BY DEF IndexInv, TournamentInv, LadderOK, Mirrored
<1>2. Handled(db, e) = l
  BY DEF Handled, QuarterlyFinalistsRecorded, AnnualFinalistsRecorded
<1>3. ~Clashes(db, e)
  <2>1. ({k} \X E) \cap db.entrant = {}
    BY <1>1 DEF Mirrored
  <2> QED
    BY <2>1 DEF Clashes
<1>4. db' = l /\ halted' = FALSE
  BY <1>1, <1>2, <1>3, EmitsOne
<1>5. status \in TokenStatus \ {"FILTERED"}
  BY DEF TokenStatus
<1>6. /\ l \in IndexTables /\ RowsTitled(db, l, E, status, k)
      /\ l.entrant = db.entrant \cup ({k} \X E) /\ l.isChampion = db.isChampion
      /\ l.liquidated = db.liquidated /\ l.winner = db.winner
  BY <1>1, <1>5, EnteredFields
<1> HIDE DEF l
<1>7. Mirrored(l, registry', titles')
  BY <1>1, <1>5, <1>6, FinalistsMirrored
<1>8. registry'.weeklyWinnerOf = registry.weeklyWinnerOf
  BY <1>1, <1>5, ElevatedFields DEF RungsOK
<1> QED
  BY <1>1, <1>4, <1>7, <1>8 DEF WinnersInSeason

LEMMA ChampionIndexed ==
  ASSUME IndexInv, NEW k \in Tournaments, NEW t \in titles.finalists[k],
         titles.champion[k] = NoToken, NEW status \in {"QUARTERLY_CHAMPION", "ANNUAL_CHAMPION"},
         registry.statusOf[t] # "FILTERED", OfTitle(titles, status, t) = {k},
         registry' = Elevated(registry, {t}, status), titles' = WithChampion(titles, k, t),
         NEW e, e.tournament = k, e.champion = t,
         e.name = IF status = "QUARTERLY_CHAMPION" THEN "QuarterlyChampionRecorded"
                  ELSE "AnnualChampionRecorded",
         Emits(<<e>>)
  PROVE  halted' = FALSE /\ Mirrored(db', registry', titles') /\ WinnersInSeason(registry')
<1> DEFINE l == Crowned(db, e, status)
<1>1. /\ RungsOK(registry, titles) /\ WinnersInSeason(registry)
      /\ halted = FALSE /\ Mirrored(db, registry, titles) /\ db \in IndexTables
  BY DEF IndexInv, TournamentInv, LadderOK, Mirrored
<1>2. Handled(db, e) = l
  BY DEF Handled, QuarterlyChampionRecorded, AnnualChampionRecorded
<1>3. ~Clashes(db, e)
  BY DEF Clashes
<1>4. db' = l /\ halted' = FALSE
  BY <1>1, <1>2, <1>3, EmitsOne
<1>5. status \in TokenStatus \ {"FILTERED"} /\ t \in Tokens
  BY <1>1, RungTypes DEF TokenStatus
<1>9. /\ db \in IndexTables /\ status \in TokenStatus /\ t \in Tokens
      /\ l = Crowned(db, e, status)
  BY <1>1, <1>5
<1> HIDE DEF l
<1>6. CrownWritten(db, l, k, t, status)
  BY <1>9, CrownedFields
<1>7. Mirrored(l, registry', titles')
  BY <1>1, <1>5, <1>6, ChampionMirrored
<1>8. registry'.weeklyWinnerOf = registry.weeklyWinnerOf
  BY <1>1, <1>5, ElevatedFields DEF RungsOK
<1> QED
  BY <1>1, <1>4, <1>7, <1>8 DEF WinnersInSeason

\* A finalist is not filtered.
LEMMA FinalistTitle ==
  ASSUME NEW r, NEW h, LadderOK(r, h), NEW k \in Tournaments, NEW t \in h.finalists[k]
  PROVE  t \in Tokens /\ r.statusOf[t] # "FILTERED"
<1>1. RungsOK(r, h) /\ t \in Tokens /\ Told(r, h, t)
  BY RungTypes DEF LadderOK
<1>2. InQuarter(h, t) \/ InYear(h, t)
  BY TournamentKeys DEF InQuarter, InYear
<1> QED
  BY <1>1, <1>2 DEF Told, BestTitle

LEMMA QuarterIndexed ==
  ASSUME IndexInv, RungsOK(registry', titles'), NEW k \in Quarterlies, NEW E \in SUBSET Tokens,
         RecordQuarterlyFinalists(k, E), Emits(QuarterlyFinalistsLogs(k))
  PROVE  halted' = FALSE /\ Mirrored(db', registry', titles') /\ WinnersInSeason(registry')
<1> DEFINE e == [name |-> "QuarterlyFinalistsRecorded", tournament |-> k,
                 entrants |-> titles'.finalists[k]]
           status == "QUARTERLY_FINALIST"
<1>1. /\ titles.finalists[k] = {} /\ \A t \in E : registry.statusOf[t] # "FILTERED"
      /\ registry' = Elevated(registry, E, status) /\ k \in Tournaments /\ titles \in Titles
  BY TournamentKeys DEF RecordQuarterlyFinalists, CanRecordQuarterlyFinalists, IndexInv,
                        TournamentInv, LadderOK, RungsOK
<1>2. titles' = WithFinalists(titles, k, E)
  BY Zenon DEF RecordQuarterlyFinalists, WithFinalists
<1>3. titles'.finalists[k] = E
  BY <1>1, <1>2, FinalistsFields
<1>4. status \in Quarterly /\ status \in {"QUARTERLY_FINALIST", "ANNUAL_FINALIST"}
  BY DEF Quarterly
<1>5. \A t \in E : OfTitle(titles', status, t) = {k}
  BY <1>3, <1>4, TitleOfQuarter
<1>6. /\ e.tournament = k /\ e.entrants = E
      /\ e.name = IF status = "QUARTERLY_FINALIST" THEN "QuarterlyFinalistsRecorded"
                  ELSE "AnnualFinalistsRecorded"
  BY <1>3
<1>7. Emits(<<e>>)
  BY DEF QuarterlyFinalistsLogs
<1> HIDE DEF e, status
<1> QED
  BY <1>1, <1>2, <1>4, <1>5, <1>6, <1>7, FinalistsIndexed

LEMMA YearIndexed ==
  ASSUME IndexInv, RungsOK(registry', titles'), NEW y \in Years,
         RecordAnnualFinalists(y), Emits(AnnualFinalistsLogs(y))
  PROVE  halted' = FALSE /\ Mirrored(db', registry', titles') /\ WinnersInSeason(registry')
<1> DEFINE k == <<y, Annual>>
           E == {titles.champion[<<y, q>>] : q \in Quarters}
           e == [name |-> "AnnualFinalistsRecorded", tournament |-> k,
                 entrants |-> titles'.finalists[k]]
           status == "ANNUAL_FINALIST"
<1>1. /\ titles.finalists[k] = {} /\ NoToken \notin E /\ k \in Tournaments
      /\ registry' = Elevated(registry, E, status) /\ titles \in Titles
      /\ LadderOK(registry, titles) /\ RungsOK(registry, titles)
  BY TournamentKeys DEF RecordAnnualFinalists, IndexInv, TournamentInv, LadderOK, RungsOK
<1>2. titles' = WithFinalists(titles, k, E)
  BY Zenon DEF RecordAnnualFinalists, WithFinalists
<1>3. ASSUME NEW q \in Quarters
      PROVE  /\ titles.champion[<<y, q>>] \in Tokens
             /\ registry.statusOf[titles.champion[<<y, q>>]] # "FILTERED"
  <2>1. <<y, q>> \in Tournaments
    BY TournamentKeys DEF Quarterlies
  <2>2. titles.champion[<<y, q>>] \in titles.finalists[<<y, q>>]
    BY <1>1, <2>1, ChampionPlays
  <2> QED
    BY <1>1, <2>1, <2>2, FinalistTitle
<1>4. E \in SUBSET Tokens /\ \A t \in E : registry.statusOf[t] # "FILTERED"
  BY <1>3
<1> HIDE DEF E
<1>5. titles'.finalists[k] = E
  BY <1>1, <1>2, <1>4, FinalistsFields
<1>6. status \in {"QUARTERLY_FINALIST", "ANNUAL_FINALIST"}
      /\ status \in {"ANNUAL_FINALIST", "ANNUAL_CHAMPION"}
  OBVIOUS
<1>7. \A t \in E : OfTitle(titles', status, t) = {k}
  BY <1>5, <1>6, TitleOfYear
<1>8. /\ e.tournament = k /\ e.entrants = E
      /\ e.name = IF status = "QUARTERLY_FINALIST" THEN "QuarterlyFinalistsRecorded"
                  ELSE "AnnualFinalistsRecorded"
  BY <1>5
<1>9. Emits(<<e>>)
  BY DEF AnnualFinalistsLogs
<1> HIDE DEF e, status, k
<1> QED
  BY <1>1, <1>2, <1>4, <1>6, <1>7, <1>8, <1>9, FinalistsIndexed

LEMMA CrownIndexed ==
  ASSUME IndexInv, NEW k \in Tournaments, NEW w \in Tokens, NEW o, SubmitWinner(k, w, o),
         NEW logs, Emits(logs),
         logs = IF k[2] = Annual
                THEN <<[name |-> "AnnualChampionRecorded", tournament |-> k, champion |-> w]>>
                ELSE <<[name |-> "QuarterlyChampionRecorded", tournament |-> k, champion |-> w]>>
  PROVE  halted' = FALSE /\ Mirrored(db', registry', titles') /\ WinnersInSeason(registry')
<1> DEFINE status == IF k[2] = Annual THEN "ANNUAL_CHAMPION" ELSE "QUARTERLY_CHAMPION"
           e == [name |-> IF status = "QUARTERLY_CHAMPION" THEN "QuarterlyChampionRecorded"
                          ELSE "AnnualChampionRecorded",
                 tournament |-> k, champion |-> w]
<1>1. LadderOK(registry, titles) /\ RungsOK(registry, titles)
  BY DEF IndexInv, TournamentInv, LadderOK
<1>2. /\ titles.champion[k] = NoToken /\ w \in titles.finalists[k]
      /\ registry' = Elevated(registry, {w}, status)
  BY DEF SubmitWinner, CanSettle, CanRecordChampion, ChampionRecorded
<1>3. titles' = WithChampion(titles, k, w)
  BY Zenon DEF SubmitWinner, ChampionRecorded, WithChampion
<1>4. registry.statusOf[w] # "FILTERED"
  BY <1>1, <1>2, FinalistTitle
<1>5. OfTitle(titles, status, w) = {k}
  <2>1. CASE k \in Quarterlies
    <3>1. status \in Quarterly
      BY <2>1, TournamentKeys DEF Quarterly
    <3> HIDE DEF status
    <3> QED
      BY <1>1, <1>2, <2>1, <3>1, TitleOfQuarter
  <2>2. ASSUME NEW y \in Years, k = <<y, Annual>> PROVE OfTitle(titles, status, w) = {k}
    <3>1. status \in {"ANNUAL_FINALIST", "ANNUAL_CHAMPION"}
      BY <2>2
    <3> HIDE DEF status
    <3> QED
      BY <1>1, <1>2, <2>2, <3>1, TitleOfYear
  <2> QED
    BY <2>1, <2>2, TournamentKeys
<1>6. Emits(<<e>>)
  <2>1. CASE k[2] = Annual
    BY <2>1
  <2>2. CASE k[2] # Annual
    BY <2>2
  <2> QED
    BY <2>1, <2>2
<1>7. /\ e.tournament = k /\ e.champion = w
      /\ e.name = IF status = "QUARTERLY_CHAMPION" THEN "QuarterlyChampionRecorded"
                  ELSE "AnnualChampionRecorded"
  OBVIOUS
<1>8. status \in {"QUARTERLY_CHAMPION", "ANNUAL_CHAMPION"}
  OBVIOUS
<1> HIDE DEF e, status
<1> QED
  BY <1>1, <1>2, <1>3, <1>4, <1>5, <1>6, <1>7, <1>8, ChampionIndexed

\* A step of the indexed system is a step of the titles and pots.
LEMMA IndexNextIsNext == IndexNext => Next
  BY DEF IndexNext, Next, Money

LEMMA IndexStep == IndexInv /\ [IndexNext]_indexVars => IndexInv'
<1> SUFFICES ASSUME IndexInv, [IndexNext]_indexVars PROVE IndexInv'
  OBVIOUS
<1>1. [Next]_vars
  BY IndexNextIsNext DEF indexVars
<1>2. TournamentInv'
  BY <1>1, TournamentStep DEF IndexInv
<1>3. RungsOK(registry', titles')
  BY <1>2 DEF TournamentInv, LadderOK
<1> DEFINE Kept == halted' = FALSE /\ Mirrored(db', registry', titles') /\ WinnersInSeason(registry')
<1>4. ASSUME NEW s \in Seasons, NEW t \in Tokens,
             RecordWeeklyWinner(s, t), Emits(WeeklyWinnerLogs(s, t))
      PROVE  Kept
  BY <1>4, WeekIndexed
<1>5. ASSUME NEW s \in Seasons, NEW losers \in SUBSET Tokens,
             MarkFiltered(s, losers), Emits(FilteredLogs(losers))
      PROVE  Kept
  BY <1>5, MarkIndexed
<1>6. ASSUME NEW k \in Quarterlies, NEW entrants \in SUBSET Tokens,
             RecordQuarterlyFinalists(k, entrants), Emits(QuarterlyFinalistsLogs(k))
      PROVE  Kept
  BY <1>3, <1>6, QuarterIndexed
<1>7. ASSUME NEW y \in Years, RecordAnnualFinalists(y), Emits(AnnualFinalistsLogs(y))
      PROVE  Kept
  BY <1>3, <1>7, YearIndexed
<1>8. ASSUME NEW k \in Quarterlies, NEW w \in Tokens, NEW o \in OracleRoots,
             SubmitQuarterlyWinner(k, w, o), Emits(QuarterlyChampionLogs(k, w))
      PROVE  Kept
  <2>1. k \in Tournaments /\ k[2] # Annual /\ SubmitWinner(k, w, o)
    BY <1>8, TournamentKeys DEF SubmitQuarterlyWinner
  <2> QED
    BY <1>8, <2>1, CrownIndexed DEF QuarterlyChampionLogs
<1>9. ASSUME NEW y \in Years, NEW w \in Tokens, NEW o \in OracleRoots,
             SubmitAnnualWinner(y, w, o), Emits(AnnualChampionLogs(y, w))
      PROVE  Kept
  <2>1. /\ <<y, Annual>> \in Tournaments /\ <<y, Annual>>[2] = Annual
        /\ SubmitWinner(<<y, Annual>>, w, o)
    BY <1>9, TournamentKeys DEF SubmitAnnualWinner
  <2> QED
    BY <1>9, <2>1, CrownIndexed DEF AnnualChampionLogs
<1>10. ASSUME UNCHANGED <<registry, titles>>, UNCHANGED <<db, halted>> \/ Emits(<<>>)
       PROVE  Kept
  BY <1>10, EmitsNone DEF IndexInv
<1>11. Money => UNCHANGED <<registry, titles>>
  BY DEF Money, FundQuarterly, FundAnnual, Fund, ClaimQuarterlyRollover, ClaimAnnualRollover,
         ClaimRollover, ClaimQuarterlyBonus, ClaimAnnualBonus, ClaimBonus, UnlockBonus
<1>12. Kept
  BY <1>4, <1>5, <1>6, <1>7, <1>8, <1>9, <1>10, <1>11 DEF IndexNext, indexVars, vars
<1> QED
  BY <1>2, <1>12 DEF IndexInv

LEMMA IndexInvariant == IndexSpec => []IndexInv
  BY InitIndex, IndexStep, PTL DEF IndexSpec

\* A mirror of the titles tells them.
LEMMA MirrorTells == IndexInv => TitlesMirrored
<1> SUFFICES ASSUME IndexInv PROVE TitlesMirrored
  OBVIOUS
<1>1. ~halted /\ Mirrored(db, registry, titles)
  BY DEF IndexInv
<1>2. registry.statusOf \in [Tokens -> TokenStatus]
  BY RungTypes DEF IndexInv, TournamentInv, LadderOK
<1>3. ASSUME NEW t \in Tokens PROVE TournamentOf(t) = OfTitle(titles, registry.statusOf[t], t)
  BY <1>2 DEF TournamentOf, OfTitle, Weekly, Quarterly
<1>4. \A t \in Tokens :
          LET row == db.tournamentStatus[t] IN
          IF row = NoRow THEN registry.statusOf[t] = "ACTIVE"
          ELSE row.status = registry.statusOf[t] /\ TournamentOf(t) = {row.of}
  BY <1>1, <1>3 DEF Mirrored, TitleRow
<1> QED
  BY <1>1, <1>4 DEF TitlesMirrored, Mirrored

(***************************************************************************)
(* Profiles                                                                *)
(***************************************************************************)

\* The season of a token.
SeasonOf(t) == CHOOSE s \in Seasons : t \in SeasonTokens[s]

\* A token has one season, and only that one can be its win.
LEMMA WinIsOfItsSeason ==
  ASSUME NEW r, WinnersInSeason(r), NEW t \in Tokens
  PROVE  /\ SeasonOf(t) \in Seasons /\ t \in SeasonTokens[SeasonOf(t)]
         /\ \A s \in Seasons : r.weeklyWinnerOf[s] = t => s = SeasonOf(t)
         /\ WonWeek(r, t) <=> r.weeklyWinnerOf[SeasonOf(t)] = t
<1>1. SeasonOf(t) \in Seasons /\ t \in SeasonTokens[SeasonOf(t)]
  BY TokensAreLaunched DEF SeasonOf
<1>2. ASSUME NEW s \in Seasons, r.weeklyWinnerOf[s] = t PROVE s = SeasonOf(t)
  <2>1. t \in SeasonTokens[s]
    BY <1>2, SeasonConstants DEF WinnersInSeason
  <2> QED
    BY <1>1, <2>1, TournamentConstants
<1> QED
  BY <1>1, <1>2 DEF WonWeek

\* The columns of a created token's row.
LEMMA RowColumns ==
  ASSUME IndexInv, NEW t \in Tokens
  PROVE  /\ CreatedTokenRow(t).token = t
         /\ CreatedTokenRow(t).liquidated <=> registry.statusOf[t] = "FILTERED"
         /\ CreatedTokenRow(t).tournamentStatus = db.tournamentStatus[t].status
         /\ WonItsWeek(CreatedTokenRow(t)) <=> WonWeek(registry, t)
<1>1. Mirrored(db, registry, titles) /\ WinnersInSeason(registry)
  BY DEF IndexInv
<1>2. CreatedTokenRow(t).seasonWinner = registry.weeklyWinnerOf[SeasonOf(t)]
  BY <1>1 DEF CreatedTokenRow, SeasonOf, Mirrored
<1>3. CreatedTokenRow(t).token = t
  BY DEF CreatedTokenRow
<1>4. CreatedTokenRow(t).liquidated <=> registry.statusOf[t] = "FILTERED"
  BY <1>1 DEF CreatedTokenRow, Mirrored
<1>5. CreatedTokenRow(t).tournamentStatus = db.tournamentStatus[t].status
  BY DEF CreatedTokenRow
<1> QED
  BY <1>1, <1>2, <1>3, <1>4, <1>5, WinIsOfItsSeason DEF WonItsWeek

\* Only a token without a title is shown as active, only a filtered one as filtered.
LEMMA ShownStatus ==
  ASSUME IndexInv, NEW t \in Tokens,
         NEW shown, shown = CreatedTokenStatus(CreatedTokenRow(t)),
         NEW status, status = registry.statusOf[t]
  PROVE  /\ status \in {"ACTIVE", "FILTERED"} => shown = status
         /\ shown \in {"ACTIVE", "FILTERED"} => shown = status
<1> DEFINE row == CreatedTokenRow(t)
           db_row == db.tournamentStatus[t]
<1>1. /\ TitleRow(titles, db_row, status, t) /\ status \in TokenStatus
      /\ Told(registry, titles, t) /\ RungsOK(registry, titles)
  BY RungTypes DEF IndexInv, Mirrored, TournamentInv, LadderOK
<1>2. /\ row.liquidated <=> status = "FILTERED"
      /\ row.tournamentStatus = db_row.status
      /\ WonItsWeek(row) <=> WonWeek(registry, t)
  BY RowColumns
<1>3. row.tournamentStatus = status \/ (row.tournamentStatus = "NONE" /\ status = "ACTIVE")
  BY <1>1, <1>2 DEF TitleRow, NoRow
<1>4. status = "ACTIVE" => ~WonWeek(registry, t)
  BY <1>1 DEF Told, BestTitle
<1>5. status \in {"ANNUAL_FINALIST", "ANNUAL_CHAMPION"} => WonWeek(registry, t)
  <2> SUFFICES ASSUME status \in {"ANNUAL_FINALIST", "ANNUAL_CHAMPION"}
               PROVE  WonWeek(registry, t)
    OBVIOUS
  <2>1. WonYear(titles, t) \/ InYear(titles, t)
    BY <1>1 DEF Told, BestTitle
  <2>2. WonYear(titles, t) => InYear(titles, t)
    BY <1>1, ChampionPlays, TournamentKeys, SeasonConstants DEF WonYear, InYear
  <2>3. PICK y \in Years : t \in titles.finalists[<<y, Annual>>]
    BY <2>1, <2>2 DEF InYear
  <2>4. \E k \in Quarterlies : t \in titles.finalists[k]
    BY <1>1, <2>3, QuarterChampion
  <2> QED
    BY <1>1, <2>4 DEF RungsOK, QuartersOK
<1>6. shown = CreatedTokenStatus(row)
  OBVIOUS
<1> HIDE DEF row, db_row
<1>7. CASE status = "FILTERED"
  BY <1>2, <1>6, <1>7 DEF CreatedTokenStatus
<1>8. CASE status = "ACTIVE"
  <2>1. ~row.liquidated /\ ~WonItsWeek(row)
    BY <1>2, <1>4, <1>8
  <2>2. row.tournamentStatus \notin TokenStatus \ {"ACTIVE", "ANNUAL_FINALIST", "ANNUAL_CHAMPION"}
    BY <1>3, <1>8 DEF TokenStatus
  <2>3. shown = "ACTIVE"
    BY <1>6, <2>1, <2>2 DEF CreatedTokenStatus
  <2> QED
    BY <1>8, <2>3
<1>9. CASE status \in {"ANNUAL_FINALIST", "ANNUAL_CHAMPION"}
  <2>1. ~row.liquidated /\ WonItsWeek(row)
    BY <1>2, <1>5, <1>9
  <2>2. row.tournamentStatus \notin TokenStatus \ {"ACTIVE", "ANNUAL_FINALIST", "ANNUAL_CHAMPION"}
    BY <1>3, <1>9
  <2>3. shown = "WEEKLY_WINNER"
    BY <1>6, <2>1, <2>2 DEF CreatedTokenStatus
  <2> QED
    BY <1>9, <2>3
<1>10. CASE status \in {"WEEKLY_WINNER", "QUARTERLY_FINALIST", "QUARTERLY_CHAMPION"}
  <2>1. ~row.liquidated /\ row.tournamentStatus = status
    BY <1>2, <1>3, <1>10
  <2>2. row.tournamentStatus \in TokenStatus \ {"ACTIVE", "ANNUAL_FINALIST", "ANNUAL_CHAMPION"}
    BY <1>10, <2>1 DEF TokenStatus
  <2>3. shown = status
    BY <1>6, <2>1, <2>2 DEF CreatedTokenStatus
  <2> QED
    BY <1>10, <2>3
<1> QED
  BY <1>1, <1>7, <1>8, <1>9, <1>10 DEF TokenStatus

\* The wins of a profile are the seasons that its tokens won.
LEMMA WinsCounted ==
  ASSUME IndexInv, NEW T \in SUBSET Tokens
  PROVE  CountWeeklyWins(CreatedTokensByCreator(T))
            = Cardinality({s \in Seasons : registry.weeklyWinnerOf[s] \in T})
<1> DEFINE W == {s \in Seasons : registry.weeklyWinnerOf[s] \in T}
           R == {row \in CreatedTokensByCreator(T) : WonItsWeek(row)}
           Won(s) == CreatedTokenRow(registry.weeklyWinnerOf[s])
           f == [s \in W |-> Won(s)]
<1>1. WinnersInSeason(registry)
  BY DEF IndexInv
<1>2. ASSUME NEW s \in W PROVE Won(s) \in R /\ Won(s).token = registry.weeklyWinnerOf[s]
  <2> DEFINE t == registry.weeklyWinnerOf[s]
  <2>1. t \in T /\ t \in Tokens /\ WonWeek(registry, t)
    BY DEF WonWeek
  <2> HIDE DEF t
  <2>2. CreatedTokenRow(t).token = t /\ WonItsWeek(CreatedTokenRow(t))
    BY <2>1, RowColumns
  <2>3. CreatedTokenRow(t) \in R
    BY <2>1, <2>2 DEF CreatedTokensByCreator
  <2> QED
    BY <2>2, <2>3 DEF t
<1>3. ASSUME NEW s \in W, NEW z \in W, Won(s) = Won(z) PROVE s = z
  <2>1. registry.weeklyWinnerOf[s] = registry.weeklyWinnerOf[z]
    BY <1>2, <1>3
  <2> QED
    BY <1>1, <2>1, WinIsOfItsSeason
<1>4. ASSUME NEW row \in R PROVE \E s \in W : Won(s) = row
  <2>1. PICK t \in T : row = CreatedTokenRow(t)
    BY DEF CreatedTokensByCreator
  <2>2. WonWeek(registry, t)
    BY <2>1, RowColumns
  <2> QED
    BY <2>1, <2>2 DEF WonWeek
<1> HIDE DEF W, R, Won
<1>5. f \in Bijection(W, R)
  BY <1>2, <1>3, <1>4 DEF Bijection, Injection, Surjection, IsInjective
<1>6. IsFiniteSet(W)
  BY FS_Subset, SeasonConstants DEF W
<1>7. Cardinality(R) = Cardinality(W)
  BY <1>5, <1>6, FS_Bijection DEF ExistsBijection
<1> QED
  BY <1>7 DEF CountWeeklyWins, W, R

\* The badges of a quarter are those of the records.
LEMMA BadgesTold ==
  ASSUME IndexInv, NEW T \in SUBSET Tokens
  PROVE  /\ TournamentBadgeFlags(T).quarterlyFinalist
                <=> \E k \in Quarterlies : titles.finalists[k] \cap T # {}
         /\ TournamentBadgeFlags(T).quarterlyChampion
                <=> \E k \in Quarterlies : titles.champion[k] \in T
<1> DEFINE Among(rows) == {row \in rows : row[1][2] # Annual /\ row[2] \in T}
<1>1. /\ db.entrant = {e \in Tournaments \X Tokens : e[2] \in titles.finalists[e[1]]}
      /\ db.isChampion = {e \in Tournaments \X Tokens : titles.champion[e[1]] = e[2]}
  BY DEF IndexInv, Mirrored
<1>2. /\ TournamentBadgeFlags(T).quarterlyFinalist <=> Among(db.entrant) # {}
      /\ TournamentBadgeFlags(T).quarterlyChampion <=> Among(db.isChampion) # {}
  BY DEF TournamentBadgeFlags
<1>3. \A k \in Tournaments : k[2] # Annual <=> k \in Quarterlies
  BY TournamentKeys
<1>4. \A e \in Tournaments \X Tokens : e[1] \in Tournaments /\ e[2] \in Tokens
  OBVIOUS
<1>5. Among(db.entrant) # {} <=> \E k \in Quarterlies : titles.finalists[k] \cap T # {}
  <2>1. ASSUME NEW e \in Among(db.entrant)
        PROVE  \E k \in Quarterlies : titles.finalists[k] \cap T # {}
    BY <1>1, <1>3, <1>4
  <2>2. ASSUME NEW k \in Quarterlies, NEW t \in titles.finalists[k] \cap T
        PROVE  <<k, t>> \in Among(db.entrant)
    BY <1>1, <1>3, TournamentKeys
  <2> QED
    BY <2>1, <2>2
<1>6. Among(db.isChampion) # {} <=> \E k \in Quarterlies : titles.champion[k] \in T
  <2>1. ASSUME NEW e \in Among(db.isChampion)
        PROVE  \E k \in Quarterlies : titles.champion[k] \in T
    BY <1>1, <1>3, <1>4
  <2>2. ASSUME NEW k \in Quarterlies, titles.champion[k] \in T
        PROVE  <<k, titles.champion[k]>> \in Among(db.isChampion)
    BY <1>1, <1>3, <2>2, TournamentKeys
  <2> QED
    BY <2>1, <2>2
<1> QED
  BY <1>2, <1>5, <1>6

\* And the profiles made from it do.
LEMMA ProfilesTell == IndexInv => ProfilesTellTitles
<1> SUFFICES ASSUME IndexInv, NEW T \in SUBSET Tokens, NEW p, p = Profile(T, T)
             PROVE
        /\ p.wins = Cardinality({s \in Seasons : registry.weeklyWinnerOf[s] \in T})
        /\ \A t \in T :
              /\ registry.statusOf[t] \in {"ACTIVE", "FILTERED"} => p.status[t] = registry.statusOf[t]
              /\ p.status[t] \in {"ACTIVE", "FILTERED"} => p.status[t] = registry.statusOf[t]
        /\ "CHAMPION_CREATOR" \in p.badges <=> p.wins > 0
        /\ "QUARTERLY_FINALIST" \in p.badges <=>
              \E k \in Quarterlies : titles.finalists[k] \cap T # {}
        /\ "QUARTERLY_CHAMPION" \in p.badges <=> \E k \in Quarterlies : titles.champion[k] \in T
  BY DEF ProfilesTellTitles
<1> DEFINE wins == CountWeeklyWins(CreatedTokensByCreator(T))
           flags == TournamentBadgeFlags(T)
<1>1. /\ p.wins = wins /\ p.badges = DeriveBadges(wins > 0, flags)
      /\ p.status = [t \in T |-> CreatedTokenStatus(CreatedTokenRow(t))]
  BY DEF Profile
<1> HIDE DEF wins, flags
<1>2. \A won : /\ "CHAMPION_CREATOR" \in DeriveBadges(won, flags) <=> won
               /\ "QUARTERLY_FINALIST" \in DeriveBadges(won, flags) <=> flags.quarterlyFinalist
               /\ "QUARTERLY_CHAMPION" \in DeriveBadges(won, flags) <=> flags.quarterlyChampion
  BY DEF DeriveBadges
<1>3. p.wins = Cardinality({s \in Seasons : registry.weeklyWinnerOf[s] \in T})
  BY <1>1, WinsCounted DEF wins
<1>4. ASSUME NEW t \in T
      PROVE  /\ registry.statusOf[t] \in {"ACTIVE", "FILTERED"} => p.status[t] = registry.statusOf[t]
             /\ p.status[t] \in {"ACTIVE", "FILTERED"} => p.status[t] = registry.statusOf[t]
  BY <1>1, ShownStatus
<1>5. "CHAMPION_CREATOR" \in p.badges <=> p.wins > 0
  BY <1>1, <1>2
<1>6. /\ "QUARTERLY_FINALIST" \in p.badges <=> flags.quarterlyFinalist
      /\ "QUARTERLY_CHAMPION" \in p.badges <=> flags.quarterlyChampion
  BY <1>1, <1>2
<1>7. /\ flags.quarterlyFinalist <=> \E k \in Quarterlies : titles.finalists[k] \cap T # {}
      /\ flags.quarterlyChampion <=> \E k \in Quarterlies : titles.champion[k] \in T
  BY BadgesTold DEF flags
<1> QED
  BY <1>3, <1>4, <1>5, <1>6, <1>7

(***************************************************************************)
(* Theorems                                                                *)
(***************************************************************************)

\* The pots of all quarters and years share one WETH balance and never eat into each
\* other, whatever trees and totals the oracle posts (fund*, submit*Winner, claim*).
THEOREM PotsStaySegregated == Spec => []PotsAreSegregated
<1>1. TournamentInv => PotsAreSegregated
  BY InvTypes, BooksSegregate DEF TournamentInv
<1> QED
  BY <1>1, TournamentInvariant, PTL

\* The cached status is the best title on record, and every title was earned rung by
\* rung (recordQuarterlyFinalists, recordAnnualFinalists, record*Champion).
THEOREM TitlesAlwaysHold == Spec => []TitlesHold
  BY TournamentInvariant, LadderTells, PTL

\* A status only ever climbs, and FILTERED is terminal (TokenStatus).
THEOREM StatusOnlyClimbs == Spec => LadderOnlyClimbs
  BY InitTournament, TournamentStep, LadderStep, PTL DEF Spec, LadderOnlyClimbs, Climbs

\* A settled pot is never reopened, funded or settled again (TournamentVault's phase
\* checks and the registry's champion check).
THEOREM PotsStaySettled == Spec => SettledPotsAreFinal
  BY InitTournament, TournamentStep, InvTypes, PotsStep, PTL
     DEF Spec, SettledPotsAreFinal, LeavesSettledPotsAlone

\* The indexer's rows are the registry's titles, log for log, and the profiles made from
\* them tell them (TournamentRegistry.ts, api/profile.ts).
THEOREM TitlesStayServed == IndexSpec => []TitlesServed
<1>1. IndexInv => TitlesServed
  BY MirrorTells, ProfilesTell DEF TitlesServed
<1> QED
  BY <1>1, IndexInvariant, PTL
================================================================================

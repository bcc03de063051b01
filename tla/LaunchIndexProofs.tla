--------------------------- MODULE LaunchIndexProofs ---------------------------
(***************************************************************************)
(* The indexer of the launch mirrors the chain and its API answers what    *)
(* the chain says, for every finite set of seasons, creators and tickers,  *)
(* every threshold and every cost. The rows of a season add up to its      *)
(* running totals whatever is still to be handled; and every table lags    *)
(* behind the chain by exactly the logs that wait.                         *)
(***************************************************************************)
EXTENDS LaunchApi, FilterLauncherProofs, SequenceTheorems

\* The logs of a sequence, and those of a set that have a name.
Waiting(L) == {L[i] : i \in DOMAIN L}

Named(W, n) == {ev \in W : ev.name = n}

MoveNames ==
    {"TokenLaunched", "ReservationRefunded", "RefundFailed", "PendingRefundClaimed",
     "StakeRefunded", "StakeForfeited"}

\* Transactions whose only log it is.
LonelyNames ==
    {"SeasonStarted", "PhaseAdvanced", "FinalistsSet", "TickerBlocked", "WinnerTickerReserved",
     "PendingRefundClaimed"}

LogNames == MoveNames \cup LonelyNames \cup {"SlotReserved", "SeasonActivated", "SeasonAborted"}

\* The creator whose reservation the log is about.
By(ev) == IF ev.name = "TokenLaunched" THEN ev.token.creator ELSE ev.creator

Concerns(ev, s, c) == ev.season = s /\ By(ev) = c

\* The logs of W that change the status of a reservation.
Moves(W) == {ev \in W : ev.name \in MoveNames /\ By(ev) \in Creators}

\* The status that a log of this name finds, and the one it leaves.
Finds(n, st) ==
    \/ n \in {"TokenLaunched", "ReservationRefunded", "RefundFailed"} /\ st = "PENDING"
    \/ n = "PendingRefundClaimed" /\ st = "REFUND_PENDING"
    \/ n \in {"StakeRefunded", "StakeForfeited"} /\ st = "RELEASED"

Leaves(n, st) ==
    \/ n = "TokenLaunched" /\ st = "RELEASED"
    \/ n \in {"ReservationRefunded", "StakeRefunded"} /\ st = "REFUNDED"
    \/ n = "RefundFailed" /\ st = "REFUND_PENDING"
    \/ n = "PendingRefundClaimed" /\ st = "REFUND_CLAIMED"
    \/ n = "StakeForfeited" /\ st = "FORFEITED"

InfoSays(info, st) ==
    \/ info.refunded /\ st = "REFUNDED"
    \/ ~info.refunded /\ info.filteredEarly /\ st = "FORFEITED"
    \/ ~info.refunded /\ ~info.filteredEarly /\ st = "RELEASED"

\* An escrow storage e, a stake storage k and the tokens T give the deposit the
\* status st; they do not tell a claimed credit from a refund that was sent.
Says(e, k, T, s, c, st) ==
    \/ ~SlotOf(e, s, c).reserved /\ st = "NONE"
    \/ Live(SlotOf(e, s, c)) /\ st = "PENDING"
    \/ /\ SlotOf(e, s, c).released
       /\ \E t \in Community(T, s) : t.creator = c /\ InfoSays(k.launchInfo[t], st)
    \/ /\ SlotOf(e, s, c).refunded /\ e.pendingRefunds[<<s, c>>] > 0
       /\ st = "REFUND_PENDING"
    \/ /\ SlotOf(e, s, c).refunded /\ e.pendingRefunds[<<s, c>>] = 0
       /\ st \in {"REFUND_CLAIMED", "REFUNDED"}

\* The statuses of a reservation row, NONE for an absent one.
Statuses ==
    {"NONE", "PENDING", "RELEASED", "REFUNDED", "REFUND_PENDING", "REFUND_CLAIMED", "FORFEITED"}

\* The types of the indexer's tables.
Tables ==
    [season: SUBSET Seasons, phase: [Seasons -> Launch..Closed],
     phaseChange: SUBSET (Seasons \X LogIndexes), summary: [Seasons -> Summary],
     token: SUBSET Tokens, isFinalist: SUBSET Tokens,
     reservation: [Deposits -> [status: Statuses, escrowAmount: Nat]],
     seasonTicker: SUBSET [season: Seasons, ticker: Tickers, creator: Creators],
     pendingRefund: SUBSET [season: Seasons, creator: Creators, amount: Nat],
     claimed: SUBSET Deposits, blocklist: SUBSET Tickers, winnerTicker: SUBSET Tokens,
     unread: SUBSET Tokens]

\* The amounts of the season's rows with a status in S.
PartOf(d, s, S) ==
    [c \in Creators |-> IF d.reservation[<<s, c>>].status \in S
                        THEN d.reservation[<<s, c>>].escrowAmount ELSE 0]

Part(d, s, S) == Total(PartOf(d, s, S))

RowsOf(d, s) == {c \in Creators : d.reservation[<<s, c>>].status # "NONE"}

\* The running totals m of a season are sums over its rows.
AddsUp(d, s, m) ==
    /\ m.reservationCount = Cardinality(RowsOf(d, s))
    /\ m.totalEscrowed = Part(d, s, Statuses)
    /\ m.activated => /\ m.totalReleased = Part(d, s, {"RELEASED", "FORFEITED", "REFUNDED"})
                      /\ m.totalRefunded = Part(d, s, {"REFUND_CLAIMED"})
    /\ ~m.activated => /\ m.totalReleased = Part(d, s, {"RELEASED", "FORFEITED"})
                       /\ m.totalRefunded = Part(d, s, {"REFUND_CLAIMED", "REFUNDED"})
    /\ m.totalRefundPending = Part(d, s, {"REFUND_PENDING"})
    /\ m.totalForfeited <= Part(d, s, {"FORFEITED"})
    /\ FALSE \notin StakeModes => m.totalForfeited = Part(d, s, {"FORFEITED"})

Credit(s, c, a) == [season |-> s, creator |-> c, amount |-> a]

\* The other tables follow the row of a deposit.
RowFits(d, s, c, row) ==
    /\ row.status = "NONE" => row.escrowAmount = 0
    /\ <<s, c>> \in d.claimed <=> row.status = "REFUND_CLAIMED"
    /\ \A a \in Nat : Credit(s, c, a) \in d.pendingRefund
          <=> row.status \in {"REFUND_PENDING", "REFUND_CLAIMED"} /\ a = row.escrowAmount

RowsFit(d) == \A s \in Seasons, c \in Creators : RowFits(d, s, c, d.reservation[<<s, c>>])

TotalsFit(d) == \A s \in Seasons : AddsUp(d, s, d.summary[s])

Exclusive(d) == \A s \in Seasons : ~(d.summary[s].activated /\ d.summary[s].aborted)

\* What the tables satisfy between any two logs.
TablesFit(d) == d \in Tables /\ RowsFit(d) /\ TotalsFit(d) /\ Exclusive(d)

LEMMA PartType ==
  ASSUME NEW d \in Tables, NEW s \in Seasons, NEW S
  PROVE  PartOf(d, s, S) \in [Creators -> Nat] /\ Part(d, s, S) \in Nat
<1>1. \A c \in Creators : d.reservation[<<s, c>>].escrowAmount \in Nat
  BY DEF Tables, Deposits
<1>2. PartOf(d, s, S) \in [Creators -> Nat]
  BY <1>1 DEF PartOf
<1> QED
  BY <1>2, EscrowConstants, TotalType DEF Part

\* The part of two disjoint sets of statuses is the sum of theirs.
LEMMA PartJoin ==
  ASSUME NEW d \in Tables, NEW s \in Seasons, NEW S, NEW T, NEW U, S \cap T = {}, U = S \cup T
  PROVE  Part(d, s, U) = Part(d, s, S) + Part(d, s, T)
<1> DEFINE f == PartOf(d, s, S)
           g == PartOf(d, s, T)
           h == PartOf(d, s, U)
<1>1. f \in [Creators -> Nat] /\ g \in [Creators -> Nat] /\ h \in [Creators -> Nat]
  BY PartType
<1>2. \A c \in Creators : d.reservation[<<s, c>>].escrowAmount \in Nat
  BY DEF Tables, Deposits
<1>3. \A c \in Creators : h[c] = f[c] + g[c]
  BY <1>2 DEF PartOf
<1>4. Part(d, s, U) = Total(h) /\ Part(d, s, S) = Total(f) /\ Part(d, s, T) = Total(g)
  BY DEF Part
<1>5. IsFiniteSet(Creators)
  BY EscrowConstants
<1> HIDE DEF f, g, h
<1> QED
  BY <1>1, <1>3, <1>4, <1>5, TotalAdd

\* A part is a matter of the season's own rows.
LEMMA PartSame ==
  ASSUME NEW d, NEW n, NEW s \in Seasons, NEW S,
         \A c \in Creators : n.reservation[<<s, c>>] = d.reservation[<<s, c>>]
  PROVE  Part(n, s, S) = Part(d, s, S) /\ RowsOf(n, s) = RowsOf(d, s)
<1>1. PartOf(n, s, S) = PartOf(d, s, S)
  BY DEF PartOf
<1> QED
  BY <1>1 DEF Part, RowsOf

\* When one row of a season changes, every part changes by what the row held and
\* holds.
LEMMA PartMoves ==
  ASSUME NEW d \in Tables, NEW n \in Tables, NEW s \in Seasons, NEW c \in Creators,
         \A k \in Creators \ {c} : n.reservation[<<s, k>>] = d.reservation[<<s, k>>],
         NEW old, old = d.reservation[<<s, c>>], NEW new, new = n.reservation[<<s, c>>]
  PROVE  /\ \A S : old.status \notin S /\ new.status \notin S => Part(n, s, S) = Part(d, s, S)
         /\ \A S : old.status \notin S /\ new.status \in S =>
               Part(n, s, S) = Part(d, s, S) + new.escrowAmount
         /\ \A S : old.status \in S /\ new.status \notin S =>
               Part(d, s, S) = Part(n, s, S) + old.escrowAmount
         /\ \A S : old.status \in S /\ new.status \in S /\ old.escrowAmount = new.escrowAmount =>
               Part(n, s, S) = Part(d, s, S)
<1>0. old.escrowAmount \in Nat /\ new.escrowAmount \in Nat
  BY DEF Tables, Deposits
<1>1. ASSUME NEW S
      PROVE  /\ Part(n, s, S) \in Nat /\ Part(d, s, S) \in Nat
             /\ Part(n, s, S) + PartOf(d, s, S)[c] = Part(d, s, S) + PartOf(n, s, S)[c]
  <2>1. PartOf(d, s, S) \in [Creators -> Nat] /\ PartOf(n, s, S) \in [Creators -> Nat]
    BY PartType
  <2>2. \A k \in Creators \ {c} : PartOf(n, s, S)[k] = PartOf(d, s, S)[k]
    BY DEF PartOf
  <2>3. Total(PartOf(n, s, S)) + PartOf(d, s, S)[c] = Total(PartOf(d, s, S)) + PartOf(n, s, S)[c]
    BY <2>1, <2>2, EscrowConstants, TotalUpdate
  <2> QED
    BY <2>3, PartType DEF Part
<1>2. \A S : /\ PartOf(d, s, S)[c] = IF old.status \in S THEN old.escrowAmount ELSE 0
             /\ PartOf(n, s, S)[c] = IF new.status \in S THEN new.escrowAmount ELSE 0
  BY DEF PartOf
<1>3. ASSUME NEW S
      PROVE  /\ old.status \notin S /\ new.status \notin S => Part(n, s, S) = Part(d, s, S)
             /\ old.status \notin S /\ new.status \in S =>
                   Part(n, s, S) = Part(d, s, S) + new.escrowAmount
             /\ old.status \in S /\ new.status \notin S =>
                   Part(d, s, S) = Part(n, s, S) + old.escrowAmount
             /\ old.status \in S /\ new.status \in S /\ old.escrowAmount = new.escrowAmount =>
                   Part(n, s, S) = Part(d, s, S)
  BY <1>0, <1>1, <1>2
<1> QED
  BY <1>3

\* A part, summed up over the rows themselves.
LEMMA PartOfRows ==
  ASSUME NEW d \in Tables, RowsFit(d), NEW s \in Seasons, NEW S, NEW C \in SUBSET Creators,
         \A c \in Creators : d.reservation[<<s, c>>].status \in S /\ d.reservation[<<s, c>>].status # "NONE"
                                <=> c \in C,
         NEW f \in [C -> Nat], \A c \in C : f[c] = d.reservation[<<s, c>>].escrowAmount
  PROVE  Total(f) = Part(d, s, S)
<1>1. \A c \in Creators : d.reservation[<<s, c>>].escrowAmount \in Nat
  BY DEF Tables, Deposits
<1>2. PartOf(d, s, S) \in [Creators -> Nat]
  BY PartType
<1>3. \A c \in C : PartOf(d, s, S)[c] = f[c]
  BY DEF PartOf
<1>4. \A c \in Creators \ C : PartOf(d, s, S)[c] = 0
  BY DEF PartOf, RowsFit, RowFits
<1> DEFINE g == PartOf(d, s, S)
<1>5. g \in [Creators -> Nat] /\ (\A c \in C : g[c] = f[c]) /\ (\A c \in Creators \ C : g[c] = 0)
      /\ IsFiniteSet(Creators) /\ Part(d, s, S) = Total(g)
  BY <1>2, <1>3, <1>4, EscrowConstants DEF Part
<1> HIDE DEF g
<1> QED
  BY <1>2, <1>5, TotalOver

\* StatusAddsUp of one season: its running totals and its slot grid.
GridAddsUp(sum, grid) ==
    /\ sum.reservationCount = Cardinality(DOMAIN grid)
    /\ sum.totalEscrowed = Total([c \in DOMAIN grid |-> grid[c].escrowAmount])
    /\ sum.totalEscrowed =
          sum.totalReleased + sum.totalRefunded + sum.totalRefundPending
              + AmountsOf(grid, {"PENDING"})
    /\ sum.totalRefundPending = AmountsOf(grid, {"REFUND_PENDING"})
    /\ sum.totalForfeited <= AmountsOf(grid, {"FORFEITED"})
    /\ FALSE \notin StakeModes => sum.totalForfeited = AmountsOf(grid, {"FORFEITED"})
    /\ ~(sum.activated /\ sum.aborted)

\* The launch page adds up because the tables do.
LEMMA TablesAddUp ==
  ASSUME TablesFit(db)
  PROVE  StatusAddsUp
<1>0. ASSUME \A s \in db.season : GridAddsUp(db.summary[s], [c \in Rows(s) |-> db.reservation[<<s, c>>]])
      PROVE  StatusAddsUp
  BY <1>0 DEF StatusAddsUp, LaunchStatus, GridAddsUp
<1> SUFFICES ASSUME NEW s \in db.season,
                    NEW sum, sum = db.summary[s], NEW grid, grid = [c \in Rows(s) |-> db.reservation[<<s, c>>]]
             PROVE  GridAddsUp(sum, grid)
  BY <1>0
<1>1. s \in Seasons /\ db \in Tables /\ RowsFit(db) /\ AddsUp(db, s, sum) /\ ~(sum.activated /\ sum.aborted)
  BY DEF TablesFit, Tables, TotalsFit, Exclusive
<1>2. \A c \in Creators : db.reservation[<<s, c>>] # NoRow <=> db.reservation[<<s, c>>].status # "NONE"
  <2>1. \A c \in Creators : /\ db.reservation[<<s, c>>] \in [status: Statuses, escrowAmount: Nat]
                            /\ db.reservation[<<s, c>>].status = "NONE" => db.reservation[<<s, c>>].escrowAmount = 0
    BY <1>1 DEF Tables, Deposits, RowsFit, RowFits
  <2> QED
    BY <2>1 DEF NoRow
<1>3. DOMAIN grid = Rows(s) /\ Rows(s) = RowsOf(db, s) /\ RowsOf(db, s) \in SUBSET Creators
  BY <1>2 DEF Rows, RowsOf
<1>4. \A c \in RowsOf(db, s) : grid[c] = db.reservation[<<s, c>>]
  BY <1>3
<1>5. ASSUME NEW S, "NONE" \notin S
      PROVE  AmountsOf(grid, S) = Part(db, s, S)
  <2> DEFINE C == {c \in Creators : db.reservation[<<s, c>>].status \in S}
             f == [c \in C |-> db.reservation[<<s, c>>].escrowAmount]
  <2>1. C = {x \in DOMAIN grid : grid[x].status \in S}
    BY <1>3, <1>4, <1>5 DEF RowsOf
  <2>2. f = [c \in {x \in DOMAIN grid : grid[x].status \in S} |-> grid[c].escrowAmount]
    BY <2>1, <1>3, <1>4, <1>5 DEF RowsOf
  <2>3. Total(f) = Part(db, s, S)
    <3>1. \A c \in Creators : db.reservation[<<s, c>>].status \in S /\ db.reservation[<<s, c>>].status # "NONE"
                                <=> c \in C
      BY <1>5
    <3> HIDE DEF C
    <3>2. C \in SUBSET Creators
      BY DEF C
    <3>3. f \in [C -> Nat] /\ \A c \in C : f[c] = db.reservation[<<s, c>>].escrowAmount
      BY <1>1, <3>2 DEF Tables, Deposits
    <3> HIDE DEF f
    <3> QED
      BY <1>1, <3>1, <3>2, <3>3, PartOfRows
  <2> QED
    BY <2>2, <2>3 DEF AmountsOf
<1>6. Total([c \in DOMAIN grid |-> grid[c].escrowAmount]) = Part(db, s, Statuses)
  <2> DEFINE C == RowsOf(db, s)
             f == [c \in C |-> db.reservation[<<s, c>>].escrowAmount]
  <2>1. f = [c \in DOMAIN grid |-> grid[c].escrowAmount]
    BY <1>3, <1>4
  <2>2. \A c \in Creators : db.reservation[<<s, c>>].status \in Statuses /\ db.reservation[<<s, c>>].status # "NONE"
                                <=> c \in C
    BY <1>1 DEF RowsOf, Tables, Deposits
  <2>3. Total(f) = Part(db, s, Statuses)
    <3>1. f \in [C -> Nat] /\ \A c \in C : f[c] = db.reservation[<<s, c>>].escrowAmount
      BY <1>1, <1>3 DEF Tables, Deposits
    <3> HIDE DEF f
    <3> QED
      BY <1>1, <1>3, <2>2, <3>1, PartOfRows
  <2> QED
    BY <2>1, <2>3
<1>7. Part(db, s, Statuses) = sum.totalReleased + sum.totalRefunded + sum.totalRefundPending + Part(db, s, {"PENDING"})
  <2> DEFINE P(S) == Part(db, s, S)
  <2>1. \A S : P(S) \in Nat
    BY <1>1, PartType
  <2>2. P({"NONE"}) = 0
    <3>1. PartOf(db, s, {"NONE"}) \in [Creators -> Nat] /\ \A c \in Creators : PartOf(db, s, {"NONE"})[c] = 0
      BY <1>1, PartType DEF PartOf, RowsFit, RowFits
    <3> QED
      BY <3>1, TotalZero DEF Part
  <2>3. P(Statuses) = P({"NONE", "PENDING", "RELEASED", "FORFEITED"}) + P({"REFUNDED", "REFUND_PENDING", "REFUND_CLAIMED"})
    BY <1>1, PartJoin DEF Statuses
  <2>4. P({"NONE", "PENDING", "RELEASED", "FORFEITED"}) = P({"NONE", "PENDING"}) + P({"RELEASED", "FORFEITED"})
    BY <1>1, PartJoin
  <2>5. P({"NONE", "PENDING"}) = P({"NONE"}) + P({"PENDING"})
    BY <1>1, PartJoin
  <2>6. P({"REFUNDED", "REFUND_PENDING", "REFUND_CLAIMED"}) = P({"REFUND_CLAIMED", "REFUNDED"}) + P({"REFUND_PENDING"})
    BY <1>1, PartJoin
  <2>7. P({"REFUND_CLAIMED", "REFUNDED"}) = P({"REFUND_CLAIMED"}) + P({"REFUNDED"})
    BY <1>1, PartJoin
  <2>8. P({"RELEASED", "FORFEITED", "REFUNDED"}) = P({"RELEASED", "FORFEITED"}) + P({"REFUNDED"})
    BY <1>1, PartJoin
  <2>9. /\ sum.activated => sum.totalReleased = P({"RELEASED", "FORFEITED", "REFUNDED"}) /\ sum.totalRefunded = P({"REFUND_CLAIMED"})
        /\ ~sum.activated => sum.totalReleased = P({"RELEASED", "FORFEITED"}) /\ sum.totalRefunded = P({"REFUND_CLAIMED", "REFUNDED"})
        /\ sum.totalRefundPending = P({"REFUND_PENDING"})
    BY <1>1 DEF AddsUp
  <2> HIDE DEF P
  <2>10. P(Statuses) = sum.totalReleased + sum.totalRefunded + sum.totalRefundPending + P({"PENDING"})
    BY <2>1, <2>2, <2>3, <2>4, <2>5, <2>6, <2>7, <2>8, <2>9
  <2> QED
    BY <2>10 DEF P
<1>8. "NONE" \notin {"PENDING"} /\ "NONE" \notin {"REFUND_PENDING"} /\ "NONE" \notin {"FORFEITED"}
  OBVIOUS
<1> QED
  BY <1>1, <1>3, <1>5, <1>6, <1>7, <1>8 DEF AddsUp, GridAddsUp

\* Two versions of the tables differ in nothing but the row of one deposit, what
\* follows from it, and the season's totals.
SameBut(n, d, s, c) ==
    /\ \A r \in Seasons, k \in Creators :
          r # s \/ k # c => n.reservation[<<r, k>>] = d.reservation[<<r, k>>]
    /\ \A r \in Seasons, k \in Creators :
          r # s \/ k # c =>
             /\ <<r, k>> \in n.claimed <=> <<r, k>> \in d.claimed
             /\ \A a \in Nat : Credit(r, k, a) \in n.pendingRefund <=> Credit(r, k, a) \in d.pendingRefund
    /\ \A r \in Seasons : r # s => n.summary[r] = d.summary[r]

\* The tables still fit after one row and its season's totals changed together.
LEMMA RowStep ==
  ASSUME NEW d, TablesFit(d), NEW n \in Tables, NEW s \in Seasons, NEW c \in Creators,
         SameBut(n, d, s, c), RowFits(n, s, c, n.reservation[<<s, c>>]),
         AddsUp(n, s, n.summary[s]), ~(n.summary[s].activated /\ n.summary[s].aborted)
  PROVE  TablesFit(n)
<1>1. RowsFit(n)
  <2> SUFFICES ASSUME NEW r \in Seasons, NEW k \in Creators PROVE RowFits(n, r, k, n.reservation[<<r, k>>])
    BY DEF RowsFit
  <2>1. CASE r = s /\ k = c
    BY <2>1
  <2>2. CASE r # s \/ k # c
    <3>1. RowFits(d, r, k, d.reservation[<<r, k>>])
      BY DEF TablesFit, RowsFit
    <3> QED
      BY <2>2, <3>1 DEF RowFits, SameBut
  <2> QED
    BY <2>1, <2>2
<1>2. TotalsFit(n)
  <2> SUFFICES ASSUME NEW r \in Seasons PROVE AddsUp(n, r, n.summary[r])
    BY DEF TotalsFit
  <2>1. CASE r = s
    BY <2>1
  <2>2. CASE r # s
    <3>1. AddsUp(d, r, d.summary[r]) /\ n.summary[r] = d.summary[r]
      BY <2>2 DEF TablesFit, TotalsFit, SameBut
    <3>2. \A k \in Creators : n.reservation[<<r, k>>] = d.reservation[<<r, k>>]
      BY <2>2 DEF SameBut
    <3>3. RowsOf(n, r) = RowsOf(d, r) /\ \A S : Part(n, r, S) = Part(d, r, S)
      BY <3>2, PartSame
    <3> QED
      BY <3>1, <3>3 DEF AddsUp
  <2> QED
    BY <2>1, <2>2
<1>3. Exclusive(n)
  BY DEF Exclusive, SameBut, TablesFit
<1> QED
  BY <1>1, <1>2, <1>3 DEF TablesFit

\* The row of the deposit has the status and holds the amount.
RowIs(d, s, c, st, a) ==
    d.reservation[<<s, c>>].status = st /\ d.reservation[<<s, c>>].escrowAmount = a

\* What becomes of the parts of a season when one row of it turns from one status
\* to another.
LEMMA RowTurns ==
  ASSUME NEW d \in Tables, NEW n \in Tables, NEW s \in Seasons, NEW c \in Creators,
         SameBut(n, d, s, c), NEW was, NEW st, was # "NONE", st # "NONE", NEW a \in Nat,
         RowIs(d, s, c, was, a), RowIs(n, s, c, st, a)
  PROVE  /\ RowsOf(n, s) = RowsOf(d, s)
         /\ \A S : Part(n, s, S) \in Nat /\ Part(d, s, S) \in Nat
         /\ \A S : was \notin S /\ st \notin S => Part(n, s, S) = Part(d, s, S)
         /\ \A S : was \notin S /\ st \in S => Part(n, s, S) = Part(d, s, S) + a
         /\ \A S : was \in S /\ st \notin S => Part(d, s, S) = Part(n, s, S) + a
         /\ \A S : was \in S /\ st \in S => Part(n, s, S) = Part(d, s, S)
<1>2. \A k \in Creators \ {c} : n.reservation[<<s, k>>] = d.reservation[<<s, k>>]
  BY DEF SameBut
<1>3. RowsOf(n, s) = RowsOf(d, s)
  BY <1>2 DEF RowsOf, RowIs
<1>4. /\ d.reservation[<<s, c>>].status = was /\ d.reservation[<<s, c>>].escrowAmount = a
      /\ n.reservation[<<s, c>>].status = st /\ n.reservation[<<s, c>>].escrowAmount = a
  BY DEF RowIs
<1>5. \A S : Part(n, s, S) \in Nat /\ Part(d, s, S) \in Nat
  BY PartType
<1> DEFINE old == d.reservation[<<s, c>>]
           new == n.reservation[<<s, c>>]
<1>6. /\ \A S : old.status \notin S /\ new.status \notin S => Part(n, s, S) = Part(d, s, S)
      /\ \A S : old.status \notin S /\ new.status \in S =>
               Part(n, s, S) = Part(d, s, S) + new.escrowAmount
      /\ \A S : old.status \in S /\ new.status \notin S =>
               Part(d, s, S) = Part(n, s, S) + old.escrowAmount
      /\ \A S : old.status \in S /\ new.status \in S /\ old.escrowAmount = new.escrowAmount =>
               Part(n, s, S) = Part(d, s, S)
  <2>1. old = d.reservation[<<s, c>>] /\ new = n.reservation[<<s, c>>]
    OBVIOUS
  <2> HIDE DEF old, new
  <2> QED
    BY <1>2, <2>1, PartMoves
<1> QED
  BY <1>3, <1>4, <1>5, <1>6

\* The tables that no reservation's log touches.
SameTables(n, d) ==
    /\ n.season = d.season /\ n.phase = d.phase /\ n.isFinalist = d.isFinalist
    /\ n.blocklist = d.blocklist /\ n.winnerTicker = d.winnerTicker /\ n.unread = d.unread

SameFlags(n, d) ==
    \A r \in Seasons : /\ n.summary[r].activated <=> d.summary[r].activated
                       /\ n.summary[r].aborted <=> d.summary[r].aborted

LEMMA StatusFields ==
  ASSUME NEW d \in Tables, NEW ev, ev.season \in Seasons, ev.creator \in Creators,
         NEW st \in Statuses, NEW x, x = Status(d, ev, st)
  PROVE  /\ x \in Tables
         /\ x.reservation[<<ev.season, ev.creator>>] =
               [status |-> st, escrowAmount |-> d.reservation[<<ev.season, ev.creator>>].escrowAmount]
         /\ \A r \in Seasons, k \in Creators : r # ev.season \/ k # ev.creator =>
               x.reservation[<<r, k>>] = d.reservation[<<r, k>>]
         /\ x.summary = d.summary /\ x.claimed = d.claimed /\ x.pendingRefund = d.pendingRefund
         /\ SameTables(x, d) /\ x.token = d.token /\ x.seasonTicker = d.seasonTicker
<1>1. d.reservation \in [Deposits -> [status: Statuses, escrowAmount: Nat]]
  BY DEF Tables
<1>2. <<ev.season, ev.creator>> \in Deposits /\ \A r \in Seasons, k \in Creators : <<r, k>> \in Deposits
  BY DEF Deposits
<1>3. x.reservation = [d.reservation EXCEPT ![<<ev.season, ev.creator>>].status = st]
  BY DEF Status, Tables
<1>4. x.reservation[<<ev.season, ev.creator>>] =
         [status |-> st, escrowAmount |-> d.reservation[<<ev.season, ev.creator>>].escrowAmount]
  BY <1>1, <1>2, <1>3
<1>5. \A r \in Seasons, k \in Creators : r # ev.season \/ k # ev.creator =>
         x.reservation[<<r, k>>] = d.reservation[<<r, k>>]
  BY <1>1, <1>2, <1>3
<1>6. x \in Tables
  <2>1. PICK rows : rows = x.reservation
    OBVIOUS
  <2>2. x = [d EXCEPT !.reservation = rows]
    BY <2>1 DEF Status, Tables
  <2>3. rows \in [Deposits -> [status: Statuses, escrowAmount: Nat]]
    BY <1>1, <1>2, <1>3, <2>1
  <2> HIDE <2>1
  <2> QED
    BY <2>2, <2>3 DEF Tables
<1>7. x.summary = d.summary /\ x.claimed = d.claimed /\ x.pendingRefund = d.pendingRefund
      /\ SameTables(x, d) /\ x.token = d.token /\ x.seasonTicker = d.seasonTicker
  BY DEF Status, Tables, SameTables
<1> QED
  BY <1>4, <1>5, <1>6, <1>7

\* The fields of a summary that no log about one reservation changes.
SameCount(w, m) ==
    /\ w.reservationCount = m.reservationCount /\ w.totalEscrowed = m.totalEscrowed
    /\ w.activated = m.activated /\ w.aborted = m.aborted

\* A deposit of amount a goes from status was to st, and the totals from m to w.
Counted(m, w, was, st, a) ==
    \/ /\ was = "PENDING" /\ st = "RELEASED"
       /\ w.totalReleased = m.totalReleased + a /\ w.totalRefunded = m.totalRefunded
       /\ w.totalRefundPending = m.totalRefundPending /\ w.totalForfeited = m.totalForfeited
    \/ /\ was = "PENDING" /\ st = "REFUNDED" /\ ~m.activated
       /\ w.totalReleased = m.totalReleased /\ w.totalRefunded = m.totalRefunded + a
       /\ w.totalRefundPending = m.totalRefundPending /\ w.totalForfeited = m.totalForfeited
    \/ /\ was = "PENDING" /\ st = "REFUND_PENDING"
       /\ w.totalReleased = m.totalReleased /\ w.totalRefunded = m.totalRefunded
       /\ w.totalRefundPending = m.totalRefundPending + a /\ w.totalForfeited = m.totalForfeited
    \/ /\ was = "REFUND_PENDING" /\ st = "REFUND_CLAIMED"
       /\ w.totalReleased = m.totalReleased /\ w.totalRefunded = m.totalRefunded + a
       /\ w.totalRefundPending = (IF m.totalRefundPending > a THEN m.totalRefundPending - a ELSE 0)
       /\ w.totalForfeited = m.totalForfeited
    \/ /\ was = "RELEASED" /\ st = "REFUNDED" /\ m.activated
       /\ w.totalReleased = m.totalReleased /\ w.totalRefunded = m.totalRefunded
       /\ w.totalRefundPending = m.totalRefundPending /\ w.totalForfeited = m.totalForfeited
    \/ /\ was = "RELEASED" /\ st = "FORFEITED"
       /\ w.totalReleased = m.totalReleased /\ w.totalRefunded = m.totalRefunded
       /\ w.totalRefundPending = m.totalRefundPending
       /\ \E b \in 0..a : /\ w.totalForfeited = m.totalForfeited + b
                          /\ FALSE \notin StakeModes => b = a

\* The running totals follow a row that turns from one status to another.
LEMMA TotalsFollow ==
  ASSUME NEW d \in Tables, NEW n \in Tables, NEW s \in Seasons, NEW c \in Creators,
         SameBut(n, d, s, c), NEW was, NEW st, NEW a \in Nat,
         RowIs(d, s, c, was, a), RowIs(n, s, c, st, a),
         NEW m \in Summary, NEW w \in Summary, SameCount(w, m), Counted(m, w, was, st, a),
         AddsUp(d, s, m)
  PROVE  AddsUp(n, s, w)
<1>0. was # "NONE" /\ st # "NONE" /\ was \in Statuses /\ st \in Statuses
  BY DEF Counted, Statuses
<1>1. /\ RowsOf(n, s) = RowsOf(d, s)
      /\ \A S : Part(n, s, S) \in Nat /\ Part(d, s, S) \in Nat
      /\ \A S : was \notin S /\ st \notin S => Part(n, s, S) = Part(d, s, S)
      /\ \A S : was \notin S /\ st \in S => Part(n, s, S) = Part(d, s, S) + a
      /\ \A S : was \in S /\ st \notin S => Part(d, s, S) = Part(n, s, S) + a
      /\ \A S : was \in S /\ st \in S => Part(n, s, S) = Part(d, s, S)
  BY <1>0, RowTurns
<1> DEFINE whole == FALSE \notin StakeModes
           RFR == {"RELEASED", "FORFEITED", "REFUNDED"}
           RF == {"RELEASED", "FORFEITED"}
           CR == {"REFUND_CLAIMED", "REFUNDED"}
           C == {"REFUND_CLAIMED"}
           P == {"REFUND_PENDING"}
           F == {"FORFEITED"}
<1>2. \A S : Part(n, s, S) \in Nat /\ Part(d, s, S) \in Nat
  BY <1>1
<1>3. /\ w.reservationCount = Cardinality(RowsOf(n, s)) /\ w.totalEscrowed = Part(n, s, Statuses)
  BY <1>0, <1>1 DEF AddsUp, SameCount
<1>4. /\ m.activated => m.totalReleased = Part(d, s, RFR) /\ m.totalRefunded = Part(d, s, C)
      /\ ~m.activated => m.totalReleased = Part(d, s, RF) /\ m.totalRefunded = Part(d, s, CR)
      /\ m.totalRefundPending = Part(d, s, P)
      /\ m.totalForfeited <= Part(d, s, F)
      /\ whole => m.totalForfeited = Part(d, s, F)
      /\ m.totalForfeited \in Nat
      /\ w.activated = m.activated
  BY DEF AddsUp, Summary, SameCount
<1> DEFINE Goal == /\ m.activated => w.totalReleased = Part(n, s, RFR) /\ w.totalRefunded = Part(n, s, C)
                   /\ ~m.activated => w.totalReleased = Part(n, s, RF) /\ w.totalRefunded = Part(n, s, CR)
                   /\ w.totalRefundPending = Part(n, s, P)
                   /\ w.totalForfeited <= Part(n, s, F)
                   /\ whole => w.totalForfeited = Part(n, s, F)
<1>5. ASSUME was = "PENDING" /\ st = "RELEASED" PROVE Goal
  <2>1. /\ Part(n, s, RFR) = Part(d, s, RFR) + a /\ Part(n, s, RF) = Part(d, s, RF) + a
        /\ Part(n, s, C) = Part(d, s, C) /\ Part(n, s, CR) = Part(d, s, CR)
        /\ Part(n, s, P) = Part(d, s, P) /\ Part(n, s, F) = Part(d, s, F)
    BY <1>1, <1>5
  <2>2. /\ w.totalReleased = m.totalReleased + a /\ w.totalRefunded = m.totalRefunded
        /\ w.totalRefundPending = m.totalRefundPending /\ w.totalForfeited = m.totalForfeited
    BY <1>5 DEF Counted
  <2> HIDE DEF whole, RFR, RF, CR, C, P, F
  <2> QED
    BY <1>4, <2>1, <2>2
<1>6. ASSUME was = "PENDING" /\ st = "REFUNDED" PROVE Goal
  <2>1. /\ Part(n, s, RF) = Part(d, s, RF) /\ Part(n, s, CR) = Part(d, s, CR) + a
        /\ Part(n, s, P) = Part(d, s, P) /\ Part(n, s, F) = Part(d, s, F)
    BY <1>1, <1>6
  <2>2. /\ ~m.activated
        /\ w.totalReleased = m.totalReleased /\ w.totalRefunded = m.totalRefunded + a
        /\ w.totalRefundPending = m.totalRefundPending /\ w.totalForfeited = m.totalForfeited
    BY <1>6 DEF Counted
  <2> HIDE DEF whole, RFR, RF, CR, C, P, F
  <2> QED
    BY <1>4, <2>1, <2>2
<1>7. ASSUME was = "PENDING" /\ st = "REFUND_PENDING" PROVE Goal
  <2>1. /\ Part(n, s, RFR) = Part(d, s, RFR) /\ Part(n, s, RF) = Part(d, s, RF)
        /\ Part(n, s, C) = Part(d, s, C) /\ Part(n, s, CR) = Part(d, s, CR)
        /\ Part(n, s, P) = Part(d, s, P) + a /\ Part(n, s, F) = Part(d, s, F)
    BY <1>1, <1>7
  <2>2. /\ w.totalReleased = m.totalReleased /\ w.totalRefunded = m.totalRefunded
        /\ w.totalRefundPending = m.totalRefundPending + a /\ w.totalForfeited = m.totalForfeited
    BY <1>7 DEF Counted
  <2> HIDE DEF whole, RFR, RF, CR, C, P, F
  <2> QED
    BY <1>4, <2>1, <2>2
<1>8. ASSUME was = "REFUND_PENDING" /\ st = "REFUND_CLAIMED" PROVE Goal
  <2>1. /\ Part(n, s, RFR) = Part(d, s, RFR) /\ Part(n, s, RF) = Part(d, s, RF)
        /\ Part(n, s, C) = Part(d, s, C) + a /\ Part(n, s, CR) = Part(d, s, CR) + a
        /\ Part(d, s, P) = Part(n, s, P) + a /\ Part(n, s, F) = Part(d, s, F)
    BY <1>1, <1>8
  <2>2. /\ w.totalReleased = m.totalReleased /\ w.totalRefunded = m.totalRefunded + a
        /\ m.totalRefundPending > a => w.totalRefundPending = m.totalRefundPending - a
        /\ ~(m.totalRefundPending > a) => w.totalRefundPending = 0
        /\ w.totalForfeited = m.totalForfeited
    BY <1>8 DEF Counted
  <2> HIDE DEF whole, RFR, RF, CR, C, P, F
  <2>3. w.totalRefundPending = Part(n, s, P)
    BY <1>2, <1>4, <2>1, <2>2
  <2> QED
    BY <1>4, <2>1, <2>2, <2>3
<1>9. ASSUME was = "RELEASED" /\ st = "REFUNDED" PROVE Goal
  <2>1. /\ Part(n, s, RFR) = Part(d, s, RFR)
        /\ Part(n, s, C) = Part(d, s, C)
        /\ Part(n, s, P) = Part(d, s, P) /\ Part(n, s, F) = Part(d, s, F)
    BY <1>1, <1>9
  <2>2. /\ m.activated
        /\ w.totalReleased = m.totalReleased /\ w.totalRefunded = m.totalRefunded
        /\ w.totalRefundPending = m.totalRefundPending /\ w.totalForfeited = m.totalForfeited
    BY <1>9 DEF Counted
  <2> HIDE DEF whole, RFR, RF, CR, C, P, F
  <2> QED
    BY <1>4, <2>1, <2>2
<1>10. ASSUME was = "RELEASED" /\ st = "FORFEITED" PROVE Goal
  <2>1. /\ Part(n, s, RFR) = Part(d, s, RFR) /\ Part(n, s, RF) = Part(d, s, RF)
        /\ Part(n, s, C) = Part(d, s, C) /\ Part(n, s, CR) = Part(d, s, CR)
        /\ Part(n, s, P) = Part(d, s, P) /\ Part(n, s, F) = Part(d, s, F) + a
    BY <1>1, <1>10
  <2>2. /\ w.totalReleased = m.totalReleased /\ w.totalRefunded = m.totalRefunded
        /\ w.totalRefundPending = m.totalRefundPending
    BY <1>10 DEF Counted
  <2>3. PICK b \in 0..a : w.totalForfeited = m.totalForfeited + b /\ (whole => b = a)
    BY <1>10 DEF Counted
  <2> HIDE DEF whole, RFR, RF, CR, C, P, F
  <2>4. w.totalForfeited <= Part(n, s, F) /\ (whole => w.totalForfeited = Part(n, s, F))
    BY <1>2, <1>4, <2>1, <2>3
  <2> QED
    BY <1>4, <2>1, <2>2, <2>4
<1>11. Goal
  BY <1>5, <1>6, <1>7, <1>8, <1>9, <1>10 DEF Counted
<1> QED
  BY <1>3, <1>4, <1>11 DEF AddsUp

\* A log has moved the deposit from status was to st and kept the tables fit.
Turned(n, d, s, c, was, st) ==
    /\ TablesFit(n) /\ SameBut(n, d, s, c) /\ SameTables(n, d) /\ SameFlags(n, d)
    /\ \E a \in Nat : RowIs(d, s, c, was, a) /\ RowIs(n, s, c, st, a)

\* A handler that turns one row and counts it keeps the tables fitting.
LEMMA TablesTurn ==
  ASSUME NEW d, TablesFit(d), NEW n \in Tables, NEW s \in Seasons, NEW c \in Creators,
         SameBut(n, d, s, c), SameTables(n, d), NEW was, NEW st, NEW a \in Nat,
         RowIs(d, s, c, was, a), RowIs(n, s, c, st, a), RowFits(n, s, c, n.reservation[<<s, c>>]),
         SameCount(n.summary[s], d.summary[s]), Counted(d.summary[s], n.summary[s], was, st, a)
  PROVE  Turned(n, d, s, c, was, st)
<1>1. /\ d \in Tables /\ d.summary[s] \in Summary /\ n.summary[s] \in Summary
      /\ AddsUp(d, s, d.summary[s]) /\ ~(d.summary[s].activated /\ d.summary[s].aborted)
  BY DEF TablesFit, Tables, TotalsFit, Exclusive
<1>2. AddsUp(n, s, n.summary[s])
  BY <1>1, TotalsFollow
<1>3. ~(n.summary[s].activated /\ n.summary[s].aborted)
  BY <1>1 DEF SameCount
<1>4. TablesFit(n)
  BY <1>2, <1>3, RowStep
<1>5. SameFlags(n, d)
  BY DEF SameFlags, SameBut, SameCount
<1> QED
  BY <1>4, <1>5 DEF Turned

\* ReservationRefunded.
LEMMA RefundedTables ==
  ASSUME NEW d, TablesFit(d), NEW ev, ev.season \in Seasons, ev.creator \in Creators,
         NEW a \in Nat, RowIs(d, ev.season, ev.creator, "PENDING", a), ev.amount = a,
         ~d.summary[ev.season].activated, NEW n, n = ReservationRefunded(d, ev)
  PROVE  /\ Turned(n, d, ev.season, ev.creator, "PENDING", "REFUNDED")
         /\ n.token = d.token /\ n.seasonTicker = d.seasonTicker
<1> DEFINE s == ev.season
           c == ev.creator
           x == Status(d, ev, "REFUNDED")
           m == d.summary[s]
           w == n.summary[s]
<1>1. d \in Tables /\ d.summary \in [Seasons -> Summary] /\ RowFits(d, s, c, d.reservation[<<s, c>>])
  BY DEF TablesFit, Tables, RowsFit
<1>2. "REFUNDED" \in Statuses
  BY DEF Statuses
<1>3. /\ x \in Tables
      /\ x.reservation[<<s, c>>] = [status |-> "REFUNDED", escrowAmount |-> d.reservation[<<s, c>>].escrowAmount]
      /\ \A r \in Seasons, k \in Creators : r # s \/ k # c => x.reservation[<<r, k>>] = d.reservation[<<r, k>>]
      /\ x.summary = d.summary /\ x.claimed = d.claimed /\ x.pendingRefund = d.pendingRefund
      /\ SameTables(x, d) /\ x.token = d.token /\ x.seasonTicker = d.seasonTicker
  <2>1. x = Status(d, ev, "REFUNDED")
    OBVIOUS
  <2> HIDE DEF x
  <2> QED
    BY <1>1, <1>2, <2>1, StatusFields
<1>4. n = [x EXCEPT !.summary[s].totalRefunded = @ + a]
  BY DEF ReservationRefunded
<1> HIDE DEF x
<1>5. n.summary = [d.summary EXCEPT ![s].totalRefunded = m.totalRefunded + a]
  BY <1>3, <1>4 DEF Tables
<1>6. n.summary \in [Seasons -> Summary]
  BY <1>1, <1>5 DEF Summary
<1>7. n \in Tables /\ n.reservation = x.reservation /\ n.claimed = d.claimed
      /\ n.pendingRefund = d.pendingRefund /\ n.token = d.token /\ n.seasonTicker = d.seasonTicker
  BY <1>3, <1>4, <1>6 DEF Tables
<1>8. SameTables(n, d)
  BY <1>3, <1>4 DEF Tables, SameTables
<1>9. /\ w.totalRefunded = m.totalRefunded + a /\ w.reservationCount = m.reservationCount
      /\ w.totalEscrowed = m.totalEscrowed /\ w.totalReleased = m.totalReleased
      /\ w.totalRefundPending = m.totalRefundPending /\ w.totalForfeited = m.totalForfeited
      /\ w.activated = m.activated /\ w.aborted = m.aborted
      /\ \A r \in Seasons : r # s => n.summary[r] = d.summary[r]
  BY <1>1, <1>5 DEF Summary
<1>10. SameBut(n, d, s, c)
  BY <1>3, <1>7, <1>9 DEF SameBut
<1>11. RowIs(n, s, c, "REFUNDED", a)
  BY <1>3, <1>7 DEF RowIs
<1>12. RowFits(n, s, c, n.reservation[<<s, c>>])
  BY <1>1, <1>7, <1>11 DEF RowFits, RowIs
<1>13. SameCount(w, m) /\ Counted(m, w, "PENDING", "REFUNDED", a)
  BY <1>9 DEF SameCount, Counted
<1> HIDE DEF s, c
<1>14. s \in Seasons /\ c \in Creators /\ RowIs(d, s, c, "PENDING", a)
  BY DEF s, c
<1>15. Turned(n, d, s, c, "PENDING", "REFUNDED")
  BY <1>7, <1>8, <1>10, <1>11, <1>12, <1>13, <1>14, TablesTurn
<1> QED
  BY <1>7, <1>15 DEF s, c

\* RefundFailed.
LEMMA FailedTables ==
  ASSUME NEW d, TablesFit(d), NEW ev, ev.season \in Seasons, ev.creator \in Creators,
         NEW a \in Nat, RowIs(d, ev.season, ev.creator, "PENDING", a), ev.amount = a,
         NEW n, n = RefundFailed(d, ev)
  PROVE  /\ Turned(n, d, ev.season, ev.creator, "PENDING", "REFUND_PENDING")
         /\ n.token = d.token /\ n.seasonTicker = d.seasonTicker
<1> DEFINE s == ev.season
           c == ev.creator
           x == Status(d, ev, "REFUND_PENDING")
           m == d.summary[s]
           w == n.summary[s]
<1>1. /\ d \in Tables /\ d.summary \in [Seasons -> Summary] /\ RowFits(d, s, c, d.reservation[<<s, c>>])
      /\ d.pendingRefund \subseteq [season: Seasons, creator: Creators, amount: Nat]
  BY DEF TablesFit, Tables, RowsFit
<1>2. "REFUND_PENDING" \in Statuses
  BY DEF Statuses
<1>3. /\ x \in Tables
      /\ x.reservation[<<s, c>>] = [status |-> "REFUND_PENDING", escrowAmount |-> d.reservation[<<s, c>>].escrowAmount]
      /\ \A r \in Seasons, k \in Creators : r # s \/ k # c => x.reservation[<<r, k>>] = d.reservation[<<r, k>>]
      /\ x.summary = d.summary /\ x.claimed = d.claimed /\ x.pendingRefund = d.pendingRefund
      /\ SameTables(x, d) /\ x.token = d.token /\ x.seasonTicker = d.seasonTicker
  <2>1. x = Status(d, ev, "REFUND_PENDING")
    OBVIOUS
  <2> HIDE DEF x
  <2> QED
    BY <1>1, <1>2, <2>1, StatusFields
<1>4. n = [x EXCEPT !.pendingRefund = @ \cup {Credit(s, c, a)}, !.summary[s].totalRefundPending = @ + a]
  BY DEF RefundFailed, Credit
<1> HIDE DEF x
<1>5. PICK refunds, totals : /\ refunds = x.pendingRefund \cup {Credit(s, c, a)}
                            /\ totals = [x.summary EXCEPT ![s].totalRefundPending = @ + a]
  OBVIOUS
<1>6. /\ totals = [d.summary EXCEPT ![s].totalRefundPending = m.totalRefundPending + a]
      /\ totals \in [Seasons -> Summary]
  BY <1>1, <1>3, <1>5 DEF Summary
<1>7. /\ refunds = d.pendingRefund \cup {Credit(s, c, a)}
      /\ refunds \subseteq [season: Seasons, creator: Creators, amount: Nat]
  BY <1>1, <1>3, <1>5 DEF Credit
<1>8. n = [x EXCEPT !.pendingRefund = refunds, !.summary = totals]
  BY <1>4, <1>5
<1> HIDE <1>4, <1>5
<1>9. /\ n \in Tables /\ n.reservation = x.reservation /\ n.claimed = d.claimed
      /\ n.token = d.token /\ n.seasonTicker = d.seasonTicker
      /\ n.pendingRefund = refunds /\ n.summary = totals
  <2>1. totals \in [Seasons -> Summary]
    BY <1>6
  <2>2. refunds \in SUBSET [season: Seasons, creator: Creators, amount: Nat]
    BY <1>7
  <2>3. x \in Tables
    BY <1>3
  <2>4. n \in Tables
    BY <2>1, <2>2, <2>3, <1>8 DEF Tables
  <2> QED
    BY <1>3, <2>3, <2>4, <1>8 DEF Tables
<1>10. SameTables(n, d)
  BY <1>3, <1>8 DEF Tables, SameTables
<1>11. /\ w.totalRefunded = m.totalRefunded /\ w.reservationCount = m.reservationCount
      /\ w.totalEscrowed = m.totalEscrowed /\ w.totalReleased = m.totalReleased
      /\ w.totalRefundPending = m.totalRefundPending + a /\ w.totalForfeited = m.totalForfeited
      /\ w.activated = m.activated /\ w.aborted = m.aborted
      /\ \A r \in Seasons : r # s => n.summary[r] = d.summary[r]
  BY <1>1, <1>6, <1>9 DEF Summary
<1>12. \A r \in Seasons, k \in Creators, b \in Nat :
          Credit(r, k, b) \in n.pendingRefund <=>
             Credit(r, k, b) \in d.pendingRefund \/ (r = s /\ k = c /\ b = a)
  BY <1>7, <1>9 DEF Credit
<1>13. SameBut(n, d, s, c)
  BY <1>3, <1>9, <1>11, <1>12 DEF SameBut
<1>14. RowIs(n, s, c, "REFUND_PENDING", a)
  BY <1>3, <1>9 DEF RowIs
<1>15. RowFits(n, s, c, n.reservation[<<s, c>>])
  BY <1>1, <1>9, <1>12, <1>14 DEF RowFits, RowIs
<1>16. SameCount(w, m) /\ Counted(m, w, "PENDING", "REFUND_PENDING", a)
  BY <1>11 DEF SameCount, Counted
<1> HIDE DEF s, c
<1>17. s \in Seasons /\ c \in Creators /\ RowIs(d, s, c, "PENDING", a)
  BY DEF s, c
<1>18. Turned(n, d, s, c, "PENDING", "REFUND_PENDING")
  BY <1>9, <1>10, <1>13, <1>14, <1>15, <1>16, <1>17, TablesTurn
<1> QED
  BY <1>9, <1>18 DEF s, c

\* PendingRefundClaimed.
LEMMA ClaimedTables ==
  ASSUME NEW d, TablesFit(d), NEW ev, ev.season \in Seasons, ev.creator \in Creators,
         NEW a \in Nat, RowIs(d, ev.season, ev.creator, "REFUND_PENDING", a), ev.amount = a,
         NEW n, n = RefundClaimed(d, ev)
  PROVE  /\ Turned(n, d, ev.season, ev.creator, "REFUND_PENDING", "REFUND_CLAIMED")
         /\ n.token = d.token /\ n.seasonTicker = d.seasonTicker
<1> DEFINE s == ev.season
           c == ev.creator
           x == Status(d, ev, "REFUND_CLAIMED")
           m == d.summary[s]
           w == n.summary[s]
           left == IF m.totalRefundPending > a THEN m.totalRefundPending - a ELSE 0
<1>1. /\ d \in Tables /\ d.summary \in [Seasons -> Summary] /\ RowFits(d, s, c, d.reservation[<<s, c>>])
      /\ m \in Summary /\ left \in Nat
  <2>1. d \in Tables /\ d.summary \in [Seasons -> Summary] /\ RowFits(d, s, c, d.reservation[<<s, c>>])
    BY DEF TablesFit, Tables, RowsFit
  <2>2. m \in Summary /\ m.totalRefundPending \in Nat
    BY <2>1 DEF Summary
  <2> QED
    BY <2>1, <2>2
<1>2. "REFUND_CLAIMED" \in Statuses
  BY DEF Statuses
<1>3. /\ x \in Tables
      /\ x.reservation[<<s, c>>] = [status |-> "REFUND_CLAIMED", escrowAmount |-> d.reservation[<<s, c>>].escrowAmount]
      /\ \A r \in Seasons, k \in Creators : r # s \/ k # c => x.reservation[<<r, k>>] = d.reservation[<<r, k>>]
      /\ x.summary = d.summary /\ x.claimed = d.claimed /\ x.pendingRefund = d.pendingRefund
      /\ SameTables(x, d) /\ x.token = d.token /\ x.seasonTicker = d.seasonTicker
  <2>1. x = Status(d, ev, "REFUND_CLAIMED")
    OBVIOUS
  <2> HIDE DEF x
  <2> QED
    BY <1>1, <1>2, <2>1, StatusFields
<1>4. n = [x EXCEPT !.claimed = @ \cup {<<s, c>>},
                    !.summary[s].totalRefundPending = IF @ > a THEN @ - a ELSE 0,
                    !.summary[s].totalRefunded = @ + a]
  BY DEF RefundClaimed
<1> HIDE DEF x
<1>5. PICK claims, totals : /\ claims = x.claimed \cup {<<s, c>>}
                           /\ totals = [x.summary EXCEPT
                                 ![s].totalRefundPending = IF @ > a THEN @ - a ELSE 0,
                                 ![s].totalRefunded = @ + a]
  OBVIOUS
<1>6. /\ totals = [d.summary EXCEPT ![s].totalRefundPending = left,
                                    ![s].totalRefunded = m.totalRefunded + a]
      /\ totals \in [Seasons -> Summary]
  <2>1. [d.summary EXCEPT ![s].totalRefundPending = left][s].totalRefunded = m.totalRefunded
    BY <1>1 DEF Summary
  <2>2. totals = [d.summary EXCEPT ![s].totalRefundPending = left,
                                   ![s].totalRefunded = m.totalRefunded + a]
    <3>1. totals = [d.summary EXCEPT ![s].totalRefundPending = IF @ > a THEN @ - a ELSE 0,
                                     ![s].totalRefunded = @ + a]
      BY <1>3, <1>5
    <3> QED
      BY <1>1, <2>1, <3>1
  <2> HIDE DEF left
  <2>3. [d.summary EXCEPT ![s].totalRefundPending = left,
                          ![s].totalRefunded = m.totalRefunded + a] \in [Seasons -> Summary]
    BY <1>1 DEF Summary
  <2> QED
    BY <2>2, <2>3
<1> HIDE DEF left
<1>7. claims = d.claimed \cup {<<s, c>>} /\ claims \subseteq Deposits
  BY <1>1, <1>3, <1>5 DEF Tables, Deposits
<1>8. /\ n \in Tables /\ n.reservation = x.reservation /\ n.pendingRefund = d.pendingRefund
      /\ n.token = d.token /\ n.seasonTicker = d.seasonTicker
      /\ n.claimed = claims /\ n.summary = totals /\ SameTables(n, d)
  <2>1. n = [x EXCEPT !.claimed = claims, !.summary = totals]
    BY <1>4, <1>5
  <2> HIDE <1>4, <1>5
  <2>2. totals \in [Seasons -> Summary]
    BY <1>6
  <2>3. claims \in SUBSET Deposits
    BY <1>7
  <2>4. x \in Tables
    BY <1>3
  <2>5. n \in Tables
    BY <2>1, <2>2, <2>3, <2>4 DEF Tables
  <2>6. SameTables(n, x) /\ n.reservation = x.reservation /\ n.pendingRefund = x.pendingRefund
        /\ n.token = x.token /\ n.seasonTicker = x.seasonTicker
        /\ n.claimed = claims /\ n.summary = totals
    BY <2>1, <2>4 DEF Tables, SameTables
  <2> QED
    BY <1>3, <2>5, <2>6 DEF SameTables
<1>9. n.claimed = d.claimed \cup {<<s, c>>} /\ SameTables(n, d)
  BY <1>7, <1>8
<1>10. /\ w.totalRefunded = m.totalRefunded + a /\ w.reservationCount = m.reservationCount
      /\ w.totalEscrowed = m.totalEscrowed /\ w.totalReleased = m.totalReleased
      /\ w.totalRefundPending = left /\ w.totalForfeited = m.totalForfeited
      /\ w.activated = m.activated /\ w.aborted = m.aborted
      /\ \A r \in Seasons : r # s => n.summary[r] = d.summary[r]
  <2>1. w = totals[s]
    BY <1>8
  <2>2. /\ totals[s] = [m EXCEPT !.totalRefundPending = left, !.totalRefunded = m.totalRefunded + a]
        /\ \A r \in Seasons : r # s => totals[r] = d.summary[r]
    BY <1>1, <1>6 DEF Summary
  <2> HIDE DEF w, m
  <2>3. m \in Summary
    BY <1>1
  <2> QED
    BY <1>8, <2>1, <2>2, <2>3 DEF Summary
<1>11. SameBut(n, d, s, c)
  BY <1>3, <1>8, <1>9, <1>10 DEF SameBut
<1>12. RowIs(n, s, c, "REFUND_CLAIMED", a)
  BY <1>3, <1>8 DEF RowIs
<1>13. RowFits(n, s, c, n.reservation[<<s, c>>])
  BY <1>1, <1>8, <1>9, <1>12 DEF RowFits, RowIs
<1>14. SameCount(w, m) /\ Counted(m, w, "REFUND_PENDING", "REFUND_CLAIMED", a)
  BY <1>10 DEF SameCount, Counted, left
<1> HIDE DEF s, c
<1>15. s \in Seasons /\ c \in Creators /\ RowIs(d, s, c, "REFUND_PENDING", a)
  BY DEF s, c
<1>16. Turned(n, d, s, c, "REFUND_PENDING", "REFUND_CLAIMED")
  BY <1>8, <1>9, <1>11, <1>12, <1>13, <1>14, <1>15, TablesTurn
<1> QED
  BY <1>8, <1>16 DEF s, c

\* StakeRefunded.
LEMMA SurvivedTables ==
  ASSUME NEW d, TablesFit(d), NEW ev, ev.season \in Seasons, ev.creator \in Creators,
         NEW a \in Nat, RowIs(d, ev.season, ev.creator, "RELEASED", a),
         d.summary[ev.season].activated, NEW n, n = Status(d, ev, "REFUNDED")
  PROVE  /\ Turned(n, d, ev.season, ev.creator, "RELEASED", "REFUNDED")
         /\ n.token = d.token /\ n.seasonTicker = d.seasonTicker
<1> DEFINE s == ev.season
           c == ev.creator
           m == d.summary[s]
           w == n.summary[s]
<1>1. d \in Tables /\ RowFits(d, s, c, d.reservation[<<s, c>>])
  BY DEF TablesFit, RowsFit
<1>2. "REFUNDED" \in Statuses
  BY DEF Statuses
<1>3. /\ n \in Tables
      /\ n.reservation[<<s, c>>] = [status |-> "REFUNDED", escrowAmount |-> d.reservation[<<s, c>>].escrowAmount]
      /\ \A r \in Seasons, k \in Creators : r # s \/ k # c => n.reservation[<<r, k>>] = d.reservation[<<r, k>>]
      /\ n.summary = d.summary /\ n.claimed = d.claimed /\ n.pendingRefund = d.pendingRefund
      /\ SameTables(n, d) /\ n.token = d.token /\ n.seasonTicker = d.seasonTicker
  BY <1>1, <1>2, StatusFields
<1>4. SameBut(n, d, s, c)
  BY <1>3 DEF SameBut
<1>5. RowIs(n, s, c, "REFUNDED", a)
  BY <1>3 DEF RowIs
<1>6. RowFits(n, s, c, n.reservation[<<s, c>>])
  BY <1>1, <1>3, <1>5 DEF RowFits, RowIs
<1>7. SameCount(w, m) /\ Counted(m, w, "RELEASED", "REFUNDED", a)
  BY <1>3 DEF SameCount, Counted
<1> HIDE DEF s, c
<1>8. s \in Seasons /\ c \in Creators /\ RowIs(d, s, c, "RELEASED", a)
  BY DEF s, c
<1>9. Turned(n, d, s, c, "RELEASED", "REFUNDED")
  BY <1>3, <1>4, <1>5, <1>6, <1>7, <1>8, TablesTurn
<1> QED
  BY <1>3, <1>9 DEF s, c

\* StakeForfeited: a part of the deposit, or all of it if stakes are never switched off.
ForfeitOf(ev, a) == ev.amount \in 0..a /\ (FALSE \notin StakeModes => ev.amount = a)

LEMMA ForfeitedTables ==
  ASSUME NEW d, TablesFit(d), NEW ev, ev.season \in Seasons, ev.creator \in Creators,
         NEW a \in Nat, RowIs(d, ev.season, ev.creator, "RELEASED", a),
         ForfeitOf(ev, a), NEW n, n = StakeForfeited(d, ev)
  PROVE  /\ Turned(n, d, ev.season, ev.creator, "RELEASED", "FORFEITED")
         /\ n.token = d.token /\ n.seasonTicker = d.seasonTicker
<1> DEFINE s == ev.season
           c == ev.creator
           x == Status(d, ev, "FORFEITED")
           m == d.summary[s]
           w == n.summary[s]
           b == ev.amount
<1>0. b \in 0..a /\ (FALSE \notin StakeModes => b = a)
  BY DEF ForfeitOf
<1>1. d \in Tables /\ d.summary \in [Seasons -> Summary] /\ RowFits(d, s, c, d.reservation[<<s, c>>])
  BY DEF TablesFit, Tables, RowsFit
<1>2. "FORFEITED" \in Statuses
  BY DEF Statuses
<1>3. /\ x \in Tables
      /\ x.reservation[<<s, c>>] = [status |-> "FORFEITED", escrowAmount |-> d.reservation[<<s, c>>].escrowAmount]
      /\ \A r \in Seasons, k \in Creators : r # s \/ k # c => x.reservation[<<r, k>>] = d.reservation[<<r, k>>]
      /\ x.summary = d.summary /\ x.claimed = d.claimed /\ x.pendingRefund = d.pendingRefund
      /\ SameTables(x, d) /\ x.token = d.token /\ x.seasonTicker = d.seasonTicker
  <2>1. x = Status(d, ev, "FORFEITED")
    OBVIOUS
  <2> HIDE DEF x
  <2> QED
    BY <1>1, <1>2, <2>1, StatusFields
<1>4. n = [x EXCEPT !.summary[s].totalForfeited = @ + b]
  BY DEF StakeForfeited
<1> HIDE DEF x, b
<1>5. n.summary = [d.summary EXCEPT ![s].totalForfeited = m.totalForfeited + b]
  BY <1>3, <1>4 DEF Tables
<1>6. n.summary \in [Seasons -> Summary]
  BY <1>0, <1>1, <1>5 DEF Summary
<1>7. n \in Tables /\ n.reservation = x.reservation /\ n.claimed = d.claimed
      /\ n.pendingRefund = d.pendingRefund /\ n.token = d.token /\ n.seasonTicker = d.seasonTicker
  BY <1>3, <1>4, <1>6 DEF Tables
<1>8. SameTables(n, d)
  BY <1>3, <1>4 DEF Tables, SameTables
<1>9. /\ w.totalRefunded = m.totalRefunded /\ w.reservationCount = m.reservationCount
      /\ w.totalEscrowed = m.totalEscrowed /\ w.totalReleased = m.totalReleased
      /\ w.totalRefundPending = m.totalRefundPending /\ w.totalForfeited = m.totalForfeited + b
      /\ w.activated = m.activated /\ w.aborted = m.aborted
      /\ \A r \in Seasons : r # s => n.summary[r] = d.summary[r]
  BY <1>0, <1>1, <1>5 DEF Summary
<1>10. SameBut(n, d, s, c)
  BY <1>3, <1>7, <1>9 DEF SameBut
<1>11. RowIs(n, s, c, "FORFEITED", a)
  BY <1>3, <1>7 DEF RowIs
<1>12. RowFits(n, s, c, n.reservation[<<s, c>>])
  BY <1>1, <1>7, <1>11 DEF RowFits, RowIs
<1>13. SameCount(w, m) /\ Counted(m, w, "RELEASED", "FORFEITED", a)
  BY <1>0, <1>9 DEF SameCount, Counted
<1> HIDE DEF s, c
<1>14. s \in Seasons /\ c \in Creators /\ RowIs(d, s, c, "RELEASED", a)
  BY DEF s, c
<1>15. Turned(n, d, s, c, "RELEASED", "FORFEITED")
  BY <1>7, <1>8, <1>10, <1>11, <1>12, <1>13, <1>14, TablesTurn
<1> QED
  BY <1>7, <1>15 DEF s, c

\* TokenLaunched for a token of a creator.
LEMMA LaunchedTables ==
  ASSUME NEW d, TablesFit(d), NEW ev, ev.season \in Seasons, ev.token \in Tokens,
         ev.token.creator \in Creators,
         NEW a \in Nat, RowIs(d, ev.season, ev.token.creator, "PENDING", a),
         NEW n, n = TokenLaunched(d, ev)
  PROVE  /\ Turned(n, d, ev.season, ev.token.creator, "PENDING", "RELEASED")
         /\ n.token = d.token \cup {ev.token} /\ n.seasonTicker = d.seasonTicker
<1> DEFINE s == ev.season
           c == ev.token.creator
           key == <<s, c>>
           x == [d EXCEPT !.token = @ \cup {ev.token}]
           m == d.summary[s]
           w == n.summary[s]
<1>1. /\ d \in Tables /\ d.summary \in [Seasons -> Summary] /\ RowFits(d, s, c, d.reservation[key])
      /\ d.reservation \in [Deposits -> [status: Statuses, escrowAmount: Nat]] /\ key \in Deposits
  BY DEF TablesFit, Tables, RowsFit, Deposits
<1>2. "RELEASED" \in Statuses /\ d.reservation[key].escrowAmount = a /\ d.reservation[key].status = "PENDING"
  BY DEF Statuses, RowIs
<1>3. /\ x \in Tables /\ x.reservation = d.reservation
      /\ x.summary = d.summary /\ x.claimed = d.claimed /\ x.pendingRefund = d.pendingRefund
      /\ SameTables(x, d) /\ x.token = d.token \cup {ev.token} /\ x.seasonTicker = d.seasonTicker
  BY <1>1 DEF Tables, SameTables
<1>4. n = [x EXCEPT !.reservation[key].status = "RELEASED", !.summary[s].totalReleased = @ + a]
  <2>1. d.reservation[key] # NoRow
    BY <1>2 DEF NoRow
  <2> QED
    BY <1>1, <1>2, <2>1 DEF TokenLaunched
<1> HIDE DEF x
<1>5. n.summary = [d.summary EXCEPT ![s].totalReleased = m.totalReleased + a]
  BY <1>3, <1>4 DEF Tables
<1>6. n.reservation = [d.reservation EXCEPT ![key].status = "RELEASED"]
  BY <1>3, <1>4 DEF Tables
<1>7. n.summary \in [Seasons -> Summary]
  BY <1>1, <1>5 DEF Summary
<1>8. n.reservation \in [Deposits -> [status: Statuses, escrowAmount: Nat]]
  BY <1>1, <1>2, <1>6
<1>9. n \in Tables /\ n.claimed = d.claimed /\ n.pendingRefund = d.pendingRefund
      /\ n.token = d.token \cup {ev.token} /\ n.seasonTicker = d.seasonTicker
  BY <1>3, <1>4, <1>7, <1>8 DEF Tables
<1>10. SameTables(n, d)
  BY <1>3, <1>4 DEF Tables, SameTables
<1>11. /\ w.totalRefunded = m.totalRefunded /\ w.reservationCount = m.reservationCount
      /\ w.totalEscrowed = m.totalEscrowed /\ w.totalReleased = m.totalReleased + a
      /\ w.totalRefundPending = m.totalRefundPending /\ w.totalForfeited = m.totalForfeited
      /\ w.activated = m.activated /\ w.aborted = m.aborted
      /\ \A r \in Seasons : r # s => n.summary[r] = d.summary[r]
  BY <1>1, <1>5 DEF Summary
<1>12. \A r \in Seasons, k \in Creators : r # s \/ k # c => n.reservation[<<r, k>>] = d.reservation[<<r, k>>]
  BY <1>1, <1>6 DEF Deposits
<1>13. SameBut(n, d, s, c)
  BY <1>9, <1>11, <1>12 DEF SameBut
<1>14. RowIs(n, s, c, "RELEASED", a)
  BY <1>1, <1>2, <1>6 DEF RowIs
<1>15. RowFits(n, s, c, n.reservation[<<s, c>>])
  BY <1>1, <1>2, <1>9, <1>14 DEF RowFits, RowIs
<1>16. SameCount(w, m) /\ Counted(m, w, "PENDING", "RELEASED", a)
  BY <1>11 DEF SameCount, Counted
<1> HIDE DEF s, c
<1>17. s \in Seasons /\ c \in Creators /\ RowIs(d, s, c, "PENDING", a)
  BY DEF s, c
<1>18. Turned(n, d, s, c, "PENDING", "RELEASED")
  BY <1>9, <1>10, <1>13, <1>14, <1>15, <1>16, <1>17, TablesTurn
<1> QED
  BY <1>9, <1>18 DEF s, c

\* The tables that are about reservations.
SameRows(n, d) ==
    /\ n.reservation = d.reservation /\ n.summary = d.summary
    /\ n.claimed = d.claimed /\ n.pendingRefund = d.pendingRefund

LEMMA QuietTables ==
  ASSUME NEW d, TablesFit(d), NEW n \in Tables, SameRows(n, d)
  PROVE  TablesFit(n)
<1>1. RowsFit(n)
  <2> SUFFICES ASSUME NEW s \in Seasons, NEW c \in Creators
               PROVE  RowFits(n, s, c, n.reservation[<<s, c>>])
    BY DEF RowsFit
  <2>1. PICK row : row = d.reservation[<<s, c>>]
    OBVIOUS
  <2>2. RowFits(d, s, c, row)
    BY <2>1 DEF TablesFit, RowsFit
  <2>3. n.reservation[<<s, c>>] = row
    BY <2>1 DEF SameRows
  <2>4. RowFits(n, s, c, row)
    BY <2>2 DEF RowFits, SameRows
  <2> QED
    BY <2>3, <2>4
<1>2. TotalsFit(n)
  <2> SUFFICES ASSUME NEW s \in Seasons PROVE AddsUp(n, s, n.summary[s])
    BY DEF TotalsFit
  <2>1. AddsUp(d, s, d.summary[s]) /\ n.summary[s] = d.summary[s]
    BY DEF TablesFit, TotalsFit, SameRows
  <2>2. RowsOf(n, s) = RowsOf(d, s) /\ \A S : Part(n, s, S) = Part(d, s, S)
    BY PartSame DEF SameRows
  <2> QED
    BY <2>1, <2>2 DEF AddsUp
<1> QED
  BY <1>1, <1>2 DEF TablesFit, Exclusive, SameRows

\* SlotReserved.
LEMMA ReservedTables ==
  ASSUME NEW d, TablesFit(d), NEW ev, ev.season \in Seasons, ev.creator \in Creators,
         ev.ticker \in Tickers, NEW a \in Nat, ev.amount = a,
         RowIs(d, ev.season, ev.creator, "NONE", 0), NEW n, n = SlotReserved(d, ev)
  PROVE  /\ TablesFit(n) /\ SameBut(n, d, ev.season, ev.creator) /\ SameTables(n, d) /\ SameFlags(n, d)
         /\ RowIs(n, ev.season, ev.creator, "PENDING", a)
         /\ n.token = d.token
         /\ n.seasonTicker = d.seasonTicker
               \cup {[season |-> ev.season, ticker |-> ev.ticker, creator |-> ev.creator]}
<1> DEFINE s == ev.season
           c == ev.creator
           key == <<s, c>>
           new == [status |-> "PENDING", escrowAmount |-> a]
           claim == [season |-> ev.season, ticker |-> ev.ticker, creator |-> ev.creator]
           m == d.summary[s]
           w == n.summary[s]
<1>1. /\ d \in Tables /\ d.summary \in [Seasons -> Summary] /\ RowFits(d, s, c, d.reservation[key])
      /\ d.reservation \in [Deposits -> [status: Statuses, escrowAmount: Nat]] /\ key \in Deposits
      /\ d.seasonTicker \subseteq [season: Seasons, ticker: Tickers, creator: Creators]
      /\ AddsUp(d, s, m) /\ ~(m.activated /\ m.aborted)
  BY DEF TablesFit, Tables, RowsFit, Deposits, TotalsFit, Exclusive
<1>2. "PENDING" \in Statuses /\ d.reservation[key].escrowAmount = 0 /\ d.reservation[key].status = "NONE"
  BY DEF Statuses, RowIs
<1>3. n = [d EXCEPT !.reservation[key] = new, !.seasonTicker = @ \cup {claim},
                    !.summary[s].reservationCount = @ + 1, !.summary[s].totalEscrowed = @ + a]
  BY DEF SlotReserved
<1>4. claim \in [season: Seasons, ticker: Tickers, creator: Creators]
  OBVIOUS
<1>5. n.summary = [d.summary EXCEPT ![s].reservationCount = m.reservationCount + 1,
                                    ![s].totalEscrowed = m.totalEscrowed + a]
  <2>1. n.summary = [d.summary EXCEPT ![s].reservationCount = @ + 1, ![s].totalEscrowed = @ + a]
    BY <1>1, <1>3 DEF Tables
  <2>2. [d.summary EXCEPT ![s].reservationCount = m.reservationCount + 1][s].totalEscrowed = m.totalEscrowed
    BY <1>1 DEF Summary
  <2> QED
    BY <1>1, <2>1, <2>2
<1>6. n.reservation = [d.reservation EXCEPT ![key] = new]
  BY <1>1, <1>3 DEF Tables
<1>7. n.summary \in [Seasons -> Summary]
  BY <1>1, <1>5 DEF Summary
<1>8. n.reservation \in [Deposits -> [status: Statuses, escrowAmount: Nat]]
  BY <1>1, <1>2, <1>6
<1>9. n.seasonTicker = d.seasonTicker \cup {claim}
  BY <1>1, <1>3 DEF Tables
<1>10. n \in Tables /\ n.claimed = d.claimed /\ n.pendingRefund = d.pendingRefund /\ n.token = d.token
  <2>1. n.seasonTicker \subseteq [season: Seasons, ticker: Tickers, creator: Creators]
    BY <1>1, <1>4, <1>9
  <2> HIDE DEF new, claim, w, m
  <2> QED
    BY <1>1, <1>3, <1>7, <1>8, <2>1 DEF Tables
<1>11. SameTables(n, d)
  BY <1>1, <1>3 DEF Tables, SameTables
<1>12. /\ w.totalRefunded = m.totalRefunded /\ w.reservationCount = m.reservationCount + 1
      /\ w.totalEscrowed = m.totalEscrowed + a /\ w.totalReleased = m.totalReleased
      /\ w.totalRefundPending = m.totalRefundPending /\ w.totalForfeited = m.totalForfeited
      /\ w.activated = m.activated /\ w.aborted = m.aborted
      /\ \A r \in Seasons : r # s => n.summary[r] = d.summary[r]
  BY <1>1, <1>5 DEF Summary
<1>13. \A r \in Seasons, k \in Creators : r # s \/ k # c => n.reservation[<<r, k>>] = d.reservation[<<r, k>>]
  BY <1>1, <1>6 DEF Deposits
<1>14. SameBut(n, d, s, c)
  BY <1>9, <1>10, <1>12, <1>13 DEF SameBut
<1>15. RowIs(n, s, c, "PENDING", a)
  BY <1>1, <1>6 DEF RowIs
<1>16. RowFits(n, s, c, n.reservation[<<s, c>>])
  BY <1>1, <1>2, <1>10, <1>15 DEF RowFits, RowIs
<1>17. SameFlags(n, d)
  BY <1>12 DEF SameFlags
<1>18. AddsUp(n, s, w)
  <2> HIDE DEF key, new, claim, m, w, s, c
  <2>1. s \in Seasons /\ c \in Creators /\ d \in Tables /\ n \in Tables
    BY <1>1, <1>10 DEF s, c
  <2>2. \A k \in Creators \ {c} : n.reservation[<<s, k>>] = d.reservation[<<s, k>>]
    BY <1>13, <2>1
  <2>3. /\ d.reservation[<<s, c>>].status = "NONE"
        /\ n.reservation[<<s, c>>].status = "PENDING" /\ n.reservation[<<s, c>>].escrowAmount = a
    BY <1>2, <1>15 DEF RowIs, key
  <2>4. /\ \A S : "NONE" \notin S /\ "PENDING" \notin S => Part(n, s, S) = Part(d, s, S)
        /\ Part(n, s, Statuses \ {"NONE"}) = Part(d, s, Statuses \ {"NONE"}) + a
        /\ Part(n, s, {"NONE"}) = 0 /\ Part(d, s, {"NONE"}) = 0
    <3> DEFINE old == d.reservation[<<s, c>>]
               now == n.reservation[<<s, c>>]
    <3>1. /\ \A S : old.status \notin S /\ now.status \notin S => Part(n, s, S) = Part(d, s, S)
          /\ \A S : old.status \notin S /\ now.status \in S => Part(n, s, S) = Part(d, s, S) + now.escrowAmount
      <4>1. old = d.reservation[<<s, c>>] /\ now = n.reservation[<<s, c>>]
        OBVIOUS
      <4> HIDE DEF old, now
      <4> QED
        BY <2>1, <2>2, <4>1, PartMoves
    <3>2. \A k \in Creators : d.reservation[<<s, k>>].status = "NONE" => d.reservation[<<s, k>>].escrowAmount = 0
      BY <2>1 DEF TablesFit, RowsFit, RowFits
    <3>3. \A k \in Creators : n.reservation[<<s, k>>].status = "NONE" => n.reservation[<<s, k>>].escrowAmount = 0
      BY <2>2, <2>3, <3>2
    <3>4. PartOf(d, s, {"NONE"}) \in [Creators -> Nat] /\ \A k \in Creators : PartOf(d, s, {"NONE"})[k] = 0
      BY <2>1, <3>2, PartType DEF PartOf
    <3>5. PartOf(n, s, {"NONE"}) \in [Creators -> Nat] /\ \A k \in Creators : PartOf(n, s, {"NONE"})[k] = 0
      BY <2>1, <3>3, PartType DEF PartOf
    <3>6. Part(d, s, {"NONE"}) = 0 /\ Part(n, s, {"NONE"}) = 0
      BY <3>4, <3>5, TotalZero DEF Part
    <3>7. old.status = "NONE" /\ now.status = "PENDING" /\ now.escrowAmount = a /\ "PENDING" \in Statuses
      BY <1>2, <2>3
    <3> HIDE DEF old, now
    <3> QED
      BY <3>1, <3>6, <3>7
  <2>5. Part(n, s, Statuses) = Part(d, s, Statuses) + a
    <3>1. /\ Part(n, s, Statuses) = Part(n, s, {"NONE"}) + Part(n, s, Statuses \ {"NONE"})
          /\ Part(d, s, Statuses) = Part(d, s, {"NONE"}) + Part(d, s, Statuses \ {"NONE"})
      BY <2>1, PartJoin DEF Statuses
    <3>2. Part(d, s, Statuses \ {"NONE"}) \in Nat
      BY <2>1, PartType
    <3> QED
      BY <2>4, <3>1, <3>2
  <2>6. RowsOf(n, s) = RowsOf(d, s) \cup {c} /\ c \notin RowsOf(d, s)
    BY <2>1, <2>2, <2>3 DEF RowsOf
  <2>7. Cardinality(RowsOf(n, s)) = Cardinality(RowsOf(d, s)) + 1
    <3>1. IsFiniteSet(RowsOf(d, s))
      BY EscrowConstants, FS_Subset DEF RowsOf
    <3> QED
      BY <2>6, <3>1, FS_AddElement
  <2>8. /\ Part(n, s, {"RELEASED", "FORFEITED", "REFUNDED"}) = Part(d, s, {"RELEASED", "FORFEITED", "REFUNDED"})
        /\ Part(n, s, {"RELEASED", "FORFEITED"}) = Part(d, s, {"RELEASED", "FORFEITED"})
        /\ Part(n, s, {"REFUND_CLAIMED"}) = Part(d, s, {"REFUND_CLAIMED"})
        /\ Part(n, s, {"REFUND_CLAIMED", "REFUNDED"}) = Part(d, s, {"REFUND_CLAIMED", "REFUNDED"})
        /\ Part(n, s, {"REFUND_PENDING"}) = Part(d, s, {"REFUND_PENDING"})
        /\ Part(n, s, {"FORFEITED"}) = Part(d, s, {"FORFEITED"})
    BY <2>4
  <2> QED
    BY <1>1, <1>12, <2>5, <2>7, <2>8 DEF AddsUp
<1> HIDE DEF s, c, claim
<1>19. s \in Seasons /\ c \in Creators
  BY DEF s, c
<1>20. TablesFit(n)
  BY <1>1, <1>10, <1>12, <1>14, <1>16, <1>18, <1>19, RowStep
<1> QED
  BY <1>9, <1>10, <1>11, <1>14, <1>15, <1>17, <1>20 DEF s, c, claim

\* The tables after a handler that has no operator of its own.
WithSeason(d, ev) == [d EXCEPT !.season = @ \cup {ev.season}]

WithActivation(d, ev) == [d EXCEPT !.summary[ev.season].activated = TRUE]

WithBlocked(d, ev) == [d EXCEPT !.blocklist = @ \cup {ev.ticker}]

WithWinner(d, ev) == [d EXCEPT !.winnerTicker = @ \cup {ev.token}]

\* Two versions of the tables have the same rows and, but for the totals of one
\* season, the same summaries.
SameReservations(n, d) ==
    n.reservation = d.reservation /\ n.claimed = d.claimed /\ n.pendingRefund = d.pendingRefund

LEMMA FlagTables ==
  ASSUME NEW d, TablesFit(d), NEW n \in Tables, SameReservations(n, d), NEW s \in Seasons,
         \A r \in Seasons : r # s => n.summary[r] = d.summary[r],
         AddsUp(d, s, n.summary[s]), ~(n.summary[s].activated /\ n.summary[s].aborted)
  PROVE  TablesFit(n)
<1>1. RowsFit(n)
  <2> SUFFICES ASSUME NEW r \in Seasons, NEW k \in Creators PROVE RowFits(n, r, k, n.reservation[<<r, k>>])
    BY DEF RowsFit
  <2>1. RowFits(d, r, k, d.reservation[<<r, k>>])
    BY DEF TablesFit, RowsFit
  <2> QED
    BY <2>1 DEF RowFits, SameReservations
<1>2. TotalsFit(n)
  <2> SUFFICES ASSUME NEW r \in Seasons PROVE AddsUp(n, r, n.summary[r])
    BY DEF TotalsFit
  <2>1. RowsOf(n, r) = RowsOf(d, r) /\ \A S : Part(n, r, S) = Part(d, r, S)
    BY PartSame DEF SameReservations
  <2>2. AddsUp(d, r, n.summary[r])
    BY DEF TablesFit, TotalsFit
  <2> QED
    BY <2>1, <2>2 DEF AddsUp
<1> QED
  BY <1>1, <1>2 DEF TablesFit, Exclusive

\* SeasonActivated: no reservation of the season is refunded yet.
LEMMA ActivatedTables ==
  ASSUME NEW d, TablesFit(d), NEW ev, ev.season \in Seasons,
         \A c \in Creators : d.reservation[<<ev.season, c>>].status # "REFUNDED",
         ~d.summary[ev.season].aborted,
         NEW n, n = WithActivation(d, ev)
  PROVE  /\ TablesFit(n) /\ SameTables(n, d) /\ n.reservation = d.reservation
         /\ n.token = d.token /\ n.seasonTicker = d.seasonTicker
         /\ n.summary[ev.season].activated /\ ~n.summary[ev.season].aborted
         /\ \A r \in Seasons : r # ev.season => n.summary[r] = d.summary[r]
<1> DEFINE s == ev.season
           m == d.summary[s]
           w == n.summary[s]
<1>0. n = [d EXCEPT !.summary[s].activated = TRUE]
  BY DEF WithActivation
<1>1. d \in Tables /\ d.summary \in [Seasons -> Summary] /\ AddsUp(d, s, m) /\ s \in Seasons
  BY DEF TablesFit, Tables, TotalsFit
<1>2. n.summary = [d.summary EXCEPT ![s].activated = TRUE]
  BY <1>0, <1>1 DEF Tables
<1>3. n.summary \in [Seasons -> Summary]
  <2>1. m \in Summary
    BY <1>1
  <2>2. [m EXCEPT !.activated = TRUE] \in Summary
    BY <2>1 DEF Summary
  <2> QED
    BY <1>1, <1>2, <2>2
<1>4. /\ n \in Tables /\ n.reservation = d.reservation /\ n.claimed = d.claimed
      /\ n.pendingRefund = d.pendingRefund /\ n.token = d.token /\ n.seasonTicker = d.seasonTicker
  BY <1>0, <1>1, <1>3 DEF Tables
<1>5. SameTables(n, d)
  BY <1>0, <1>1 DEF Tables, SameTables
<1>6. /\ w.totalRefunded = m.totalRefunded /\ w.reservationCount = m.reservationCount
      /\ w.totalEscrowed = m.totalEscrowed /\ w.totalReleased = m.totalReleased
      /\ w.totalRefundPending = m.totalRefundPending /\ w.totalForfeited = m.totalForfeited
      /\ w.activated = TRUE /\ w.aborted = m.aborted
      /\ \A r \in Seasons : r # s => n.summary[r] = d.summary[r]
  BY <1>1, <1>2 DEF Summary
<1>8. /\ Part(d, s, {"RELEASED", "FORFEITED", "REFUNDED"}) = Part(d, s, {"RELEASED", "FORFEITED"})
      /\ Part(d, s, {"REFUND_CLAIMED", "REFUNDED"}) = Part(d, s, {"REFUND_CLAIMED"})
  <2>1. PartOf(d, s, {"REFUNDED"}) \in [Creators -> Nat] /\ \A c \in Creators : PartOf(d, s, {"REFUNDED"})[c] = 0
    BY <1>1, PartType DEF PartOf
  <2>2. Part(d, s, {"REFUNDED"}) = 0
    BY <2>1, TotalZero DEF Part
  <2>3. /\ Part(d, s, {"RELEASED", "FORFEITED", "REFUNDED"}) = Part(d, s, {"RELEASED", "FORFEITED"}) + Part(d, s, {"REFUNDED"})
        /\ Part(d, s, {"REFUND_CLAIMED", "REFUNDED"}) = Part(d, s, {"REFUND_CLAIMED"}) + Part(d, s, {"REFUNDED"})
    BY <1>1, PartJoin
  <2>4. Part(d, s, {"RELEASED", "FORFEITED"}) \in Nat /\ Part(d, s, {"REFUND_CLAIMED"}) \in Nat
    BY <1>1, PartType
  <2> QED
    BY <2>2, <2>3, <2>4
<1>9. AddsUp(d, s, w)
  BY <1>1, <1>6, <1>8 DEF AddsUp
<1>10. SameReservations(n, d) /\ ~(w.activated /\ w.aborted)
  BY <1>4, <1>6 DEF SameReservations
<1>11. TablesFit(n)
  <2> HIDE DEF s, w
  <2>1. w = n.summary[s] /\ s \in Seasons
    BY DEF w, s
  <2> QED
    BY <1>4, <1>6, <1>9, <1>10, <2>1, FlagTables
<1> QED
  BY <1>4, <1>5, <1>6, <1>11

\* SeasonAborted.
LEMMA AbortedTables ==
  ASSUME NEW d, TablesFit(d), NEW ev, ev.season \in Seasons,
         ~d.summary[ev.season].activated, NEW n, n = SeasonAborted(d, ev)
  PROVE  /\ TablesFit(n) /\ SameTables(n, d) /\ n.reservation = d.reservation
         /\ n.token = d.token
         /\ n.seasonTicker = {row \in d.seasonTicker : row.season # ev.season}
         /\ n.summary[ev.season].aborted /\ ~n.summary[ev.season].activated
         /\ \A r \in Seasons : r # ev.season => n.summary[r] = d.summary[r]
<1> DEFINE s == ev.season
           m == d.summary[s]
           w == n.summary[s]
           kept == {row \in d.seasonTicker : row.season # s}
<1>1. d \in Tables /\ d.summary \in [Seasons -> Summary] /\ AddsUp(d, s, m) /\ s \in Seasons
  BY DEF TablesFit, Tables, TotalsFit
<1>2. n = [d EXCEPT !.summary[s].aborted = TRUE, !.seasonTicker = kept]
  BY DEF SeasonAborted
<1>3. kept \subseteq [season: Seasons, ticker: Tickers, creator: Creators]
  BY <1>1 DEF Tables
<1> HIDE DEF kept
<1>4. n.summary = [d.summary EXCEPT ![s].aborted = TRUE]
  BY <1>1, <1>2 DEF Tables
<1>5. n.summary \in [Seasons -> Summary]
  <2>1. m \in Summary
    BY <1>1
  <2>2. [m EXCEPT !.aborted = TRUE] \in Summary
    BY <2>1 DEF Summary
  <2> QED
    BY <1>1, <1>4, <2>2
<1>6. /\ n \in Tables /\ n.reservation = d.reservation /\ n.claimed = d.claimed
      /\ n.pendingRefund = d.pendingRefund /\ n.token = d.token /\ n.seasonTicker = kept
  BY <1>1, <1>2, <1>3, <1>5 DEF Tables
<1>7. SameTables(n, d)
  BY <1>1, <1>2 DEF Tables, SameTables
<1>8. /\ w.totalRefunded = m.totalRefunded /\ w.reservationCount = m.reservationCount
      /\ w.totalEscrowed = m.totalEscrowed /\ w.totalReleased = m.totalReleased
      /\ w.totalRefundPending = m.totalRefundPending /\ w.totalForfeited = m.totalForfeited
      /\ w.activated = m.activated /\ w.aborted = TRUE
      /\ \A r \in Seasons : r # s => n.summary[r] = d.summary[r]
  BY <1>1, <1>4 DEF Summary
<1>9. AddsUp(d, s, w)
  BY <1>1, <1>8 DEF AddsUp
<1>10. SameReservations(n, d) /\ ~(w.activated /\ w.aborted)
  BY <1>6, <1>8 DEF SameReservations
<1>11. TablesFit(n)
  <2> HIDE DEF s, w
  <2>1. w = n.summary[s] /\ s \in Seasons
    BY DEF w, s
  <2> QED
    BY <1>6, <1>8, <1>9, <1>10, <2>1, FlagTables
<1> QED
  BY <1>6, <1>7, <1>8, <1>11 DEF kept

(***************************************************************************)
(* What a handled log does to each table                                   *)
(***************************************************************************)

SeasonEffect(n, d, ev) ==
    n.season = IF ev.name = "SeasonStarted" THEN d.season \cup {ev.season} ELSE d.season

TokenEffect(n, d, ev) ==
    n.token = IF ev.name = "TokenLaunched" THEN d.token \cup {ev.token} ELSE d.token

PhaseEffect(n, d, ev) ==
    n.phase = IF ev.name = "PhaseAdvanced" THEN [d.phase EXCEPT ![ev.season] = ev.newPhase] ELSE d.phase

\* The tokens a list marks, and those whose entry could not be read.
Found(d, ev) ==
    IF ev.relayed THEN ({t \in d.token : t.season = ev.season} \cap ev.entries) \ ev.unread
    ELSE ev.list \cap d.token

Missed(d, ev) == {t \in d.token : t.season = ev.season} \cap ev.unread

FinalistEffect(n, d, ev) ==
    IF ev.name = "FinalistsSet"
    THEN /\ n.isFinalist = d.isFinalist \cup Found(d, ev)
         /\ n.unread = (d.unread \cup Missed(d, ev)) \ (d.isFinalist \cup Found(d, ev))
    ELSE n.isFinalist = d.isFinalist /\ n.unread = d.unread

BlockEffect(n, d, ev) ==
    n.blocklist = IF ev.name = "TickerBlocked" THEN d.blocklist \cup {ev.ticker} ELSE d.blocklist

WinnerEffect(n, d, ev) ==
    n.winnerTicker = IF ev.name = "WinnerTickerReserved" THEN d.winnerTicker \cup {ev.token}
                     ELSE d.winnerTicker

Claim(s, t, c) == [season |-> s, ticker |-> t, creator |-> c]

TickerEffect(n, d, ev) ==
    /\ ev.name = "SlotReserved" =>
          n.seasonTicker = d.seasonTicker \cup {Claim(ev.season, ev.ticker, ev.creator)}
    /\ ev.name = "SeasonAborted" => n.seasonTicker = {row \in d.seasonTicker : row.season # ev.season}
    /\ ev.name \notin {"SlotReserved", "SeasonAborted"} => n.seasonTicker = d.seasonTicker

FlagEffect(n, d, ev) ==
    \A r \in Seasons :
        /\ n.summary[r].activated <=>
              d.summary[r].activated \/ (ev.name = "SeasonActivated" /\ ev.season = r)
        /\ n.summary[r].aborted <=>
              d.summary[r].aborted \/ (ev.name = "SeasonAborted" /\ ev.season = r)

RowEffect(n, d, ev) ==
    /\ \A r \in Seasons, k \in Creators :
          \/ n.reservation[<<r, k>>] = d.reservation[<<r, k>>]
          \/ (ev.name = "SlotReserved" \/ ev \in Moves({ev})) /\ Concerns(ev, r, k)
    /\ ev.name = "SlotReserved" => RowIs(n, ev.season, ev.creator, "PENDING", ev.amount)
    /\ ev \in Moves({ev}) =>
          \E a \in Nat, was, st \in Statuses :
             /\ Finds(ev.name, was) /\ Leaves(ev.name, st)
             /\ RowIs(d, ev.season, By(ev), was, a) /\ RowIs(n, ev.season, By(ev), st, a)

Effect(n, d, ev) ==
    /\ SeasonEffect(n, d, ev) /\ TokenEffect(n, d, ev) /\ PhaseEffect(n, d, ev)
    /\ FinalistEffect(n, d, ev) /\ BlockEffect(n, d, ev) /\ WinnerEffect(n, d, ev)
    /\ TickerEffect(n, d, ev) /\ FlagEffect(n, d, ev) /\ RowEffect(n, d, ev)

\* The logs of one table each.
OneTable(d, ev, n) ==
    \/ ev.name = "SeasonStarted" /\ ev.season \in Seasons /\ n = WithSeason(d, ev)
    \/ ev.name = "PhaseAdvanced" /\ ev.season \in Seasons /\ ev.newPhase \in Launch..Closed
       /\ ev.logIndex \in LogIndexes /\ n = PhaseAdvanced(d, ev)
    \/ ev.name = "FinalistsSet" /\ n = FinalistsSet(d, ev)
    \/ ev.name = "TickerBlocked" /\ ev.ticker \in Tickers /\ n = WithBlocked(d, ev)
    \/ ev.name = "WinnerTickerReserved" /\ ev.token \in Tokens
       /\ n = WithWinner(d, ev)

\* The handlers that touch one table without totals keep the tables fitting.
LEMMA LonelyTables ==
  ASSUME NEW d, TablesFit(d), NEW ev, NEW n, OneTable(d, ev, n)
  PROVE  /\ TablesFit(n) /\ SameRows(n, d) /\ n.token = d.token /\ n.seasonTicker = d.seasonTicker
         /\ SeasonEffect(n, d, ev) /\ PhaseEffect(n, d, ev) /\ FinalistEffect(n, d, ev)
         /\ BlockEffect(n, d, ev) /\ WinnerEffect(n, d, ev)
<1> USE DEF SeasonEffect, PhaseEffect, FinalistEffect, BlockEffect, WinnerEffect
<1>1. d \in Tables
  BY DEF TablesFit
<1>2. CASE ev.name = "SeasonStarted"
  <2>1. n = [d EXCEPT !.season = @ \cup {ev.season}] /\ ev.season \in Seasons
    BY <1>2 DEF OneTable, WithSeason
  <2>2. n \in Tables /\ SameRows(n, d)
    BY <1>1, <2>1 DEF Tables, SameRows
  <2>3. TablesFit(n)
    BY <2>2, QuietTables
  <2>4. n.season = d.season \cup {ev.season} /\ n.phase = d.phase /\ n.isFinalist = d.isFinalist
        /\ n.unread = d.unread /\ n.blocklist = d.blocklist /\ n.winnerTicker = d.winnerTicker
        /\ n.token = d.token /\ n.seasonTicker = d.seasonTicker
    BY <1>1, <2>1 DEF Tables
  <2> QED
    BY <1>2, <2>2, <2>3, <2>4
<1>3. CASE ev.name = "PhaseAdvanced"
  <2>1. n = [d EXCEPT !.phase[ev.season] = ev.newPhase,
                      !.phaseChange = @ \cup {<<ev.season, ev.logIndex>>}]
        /\ ev.season \in Seasons /\ ev.newPhase \in Launch..Closed /\ ev.logIndex \in LogIndexes
    BY <1>3 DEF OneTable, PhaseAdvanced
  <2>2. n \in Tables /\ SameRows(n, d)
    <3>1. [d.phase EXCEPT ![ev.season] = ev.newPhase] \in [Seasons -> Launch..Closed]
      BY <1>1, <2>1 DEF Tables
    <3>2. d.phaseChange \cup {<<ev.season, ev.logIndex>>} \subseteq Seasons \X LogIndexes
      BY <1>1, <2>1 DEF Tables
    <3> QED
      BY <1>1, <2>1, <3>1, <3>2 DEF Tables, SameRows
  <2>3. TablesFit(n)
    BY <2>2, QuietTables
  <2>4. n.season = d.season /\ n.phase = [d.phase EXCEPT ![ev.season] = ev.newPhase] /\ n.isFinalist = d.isFinalist
        /\ n.unread = d.unread /\ n.blocklist = d.blocklist /\ n.winnerTicker = d.winnerTicker
        /\ n.token = d.token /\ n.seasonTicker = d.seasonTicker
    BY <1>1, <2>1 DEF Tables
  <2> QED
    BY <1>3, <2>2, <2>3, <2>4
<1>4. CASE ev.name = "FinalistsSet"
  <2> DEFINE found == Found(d, ev)
             missed == Missed(d, ev)
  <2>1. n = [d EXCEPT !.isFinalist = d.isFinalist \cup found,
                      !.unread = (d.unread \cup missed) \ (d.isFinalist \cup found)]
    BY <1>1, <1>4 DEF OneTable, FinalistsSet, Found, Missed, Tables
  <2>2. found \subseteq d.token /\ missed \subseteq d.token /\ d.token \subseteq Tokens
    BY <1>1 DEF Tables, Found, Missed
  <2> HIDE DEF found, missed
  <2>3. n \in Tables /\ SameRows(n, d)
    BY <1>1, <2>1, <2>2 DEF Tables, SameRows
  <2>4. TablesFit(n)
    BY <2>3, QuietTables
  <2>5. n.season = d.season /\ n.phase = d.phase /\ n.isFinalist = d.isFinalist \cup found
        /\ n.unread = (d.unread \cup missed) \ (d.isFinalist \cup found)
        /\ n.blocklist = d.blocklist /\ n.winnerTicker = d.winnerTicker
        /\ n.token = d.token /\ n.seasonTicker = d.seasonTicker
    BY <1>1, <2>1 DEF Tables
  <2> QED
    BY <1>4, <2>3, <2>4, <2>5 DEF found, missed
<1>5. CASE ev.name = "TickerBlocked"
  <2>1. n = [d EXCEPT !.blocklist = @ \cup {ev.ticker}] /\ ev.ticker \in Tickers
    BY <1>5 DEF OneTable, WithBlocked
  <2>2. n \in Tables /\ SameRows(n, d)
    BY <1>1, <2>1 DEF Tables, SameRows
  <2>3. TablesFit(n)
    BY <2>2, QuietTables
  <2>4. n.season = d.season /\ n.phase = d.phase /\ n.isFinalist = d.isFinalist
        /\ n.unread = d.unread /\ n.blocklist = d.blocklist \cup {ev.ticker} /\ n.winnerTicker = d.winnerTicker
        /\ n.token = d.token /\ n.seasonTicker = d.seasonTicker
    BY <1>1, <2>1 DEF Tables
  <2> QED
    BY <1>5, <2>2, <2>3, <2>4
<1>6. CASE ev.name = "WinnerTickerReserved"
  <2>1. n = [d EXCEPT !.winnerTicker = @ \cup {ev.token}] /\ ev.token \in Tokens
    BY <1>6 DEF OneTable, WithWinner
  <2>2. n \in Tables /\ SameRows(n, d)
    BY <1>1, <2>1 DEF Tables, SameRows
  <2>3. TablesFit(n)
    BY <2>2, QuietTables
  <2>4. n.season = d.season /\ n.phase = d.phase /\ n.isFinalist = d.isFinalist
        /\ n.unread = d.unread /\ n.blocklist = d.blocklist /\ n.winnerTicker = d.winnerTicker \cup {ev.token}
        /\ n.token = d.token /\ n.seasonTicker = d.seasonTicker
    BY <1>1, <2>1 DEF Tables
  <2> QED
    BY <1>6, <2>2, <2>3, <2>4
<1> QED
  BY <1>2, <1>3, <1>4, <1>5, <1>6 DEF OneTable

(***************************************************************************)
(* How far the tables d lag behind the chain while the logs W wait         *)
(***************************************************************************)

\* The season row is inserted by SeasonStarted, and only by it.
SeasonsBehind(d, W) ==
    /\ \A s \in Seasons : s <= currentSeasonId
          <=> s \in d.season \/ \E ev \in Named(W, "SeasonStarted") : ev.season = s
    /\ \A ev \in Named(W, "SeasonStarted") : ev.season \in Seasons /\ ev.season \notin d.season

\* A token is in its table or its TokenLaunched waits, never both.
TokensBehind(d, W) ==
    /\ \A t \in Tokens : t \in tokens <=> t \in d.token \/ LaunchedLog(t) \in W
    /\ \A ev \in Named(W, "TokenLaunched") :
          ev.token \in Tokens /\ ev = LaunchedLog(ev.token) /\ ev.token \notin d.token

PhasesBehind(d, W) ==
    /\ \A s \in Seasons : d.phase[s] = phaseOf[s] \/ \E ev \in Named(W, "PhaseAdvanced") : ev.season = s
    /\ \A ev \in Named(W, "PhaseAdvanced") :
          ev.season \in Seasons /\ ev.newPhase = phaseOf[ev.season] /\ ev.logIndex \in LogIndexes

FinalistsBehind(d, W) ==
    /\ d.isFinalist \subseteq d.token
    /\ \A t \in d.isFinalist : \E s \in Seasons : <<s, t>> \in finalists
    /\ \A t \in tokens : <<t.season, t>> \in finalists /\ t \notin d.isFinalist \cup d.unread =>
          \E ev \in Named(W, "FinalistsSet") : ev.season = t.season /\ t \in ev.list
    /\ \A ev \in Named(W, "FinalistsSet") :
          /\ ev.season \in Seasons /\ ev.list \subseteq ev.entries
          /\ ev.entries = {t \in Tokens : <<ev.season, t>> \in finalists}

BlocksBehind(d, W) ==
    /\ \A t \in Tickers :
          /\ (t \in d.blocklist \/ \E ev \in Named(W, "TickerBlocked") : ev.ticker = t)
                => t \in tickerBlocklist
          /\ t \in tickerBlocklist \ SeededTickers =>
                t \in d.blocklist \/ \E ev \in Named(W, "TickerBlocked") : ev.ticker = t
    /\ \A ev \in Named(W, "TickerBlocked") : ev.ticker \in Tickers

WinnersBehind(d, W) ==
    /\ \A t \in Tokens : winnerTickers[t.ticker] = t
          <=> t \in d.winnerTicker \/ \E ev \in Named(W, "WinnerTickerReserved") : ev.token = t
    /\ \A ev \in Named(W, "WinnerTickerReserved") :
          ev.token \in Tokens /\ \A t \in d.winnerTicker : t.ticker # ev.token.ticker

\* The rows of a ticker are there until the season's SeasonAborted is handled.
TickersBehind(d, W) ==
    /\ \A s \in Seasons, t \in Tickers, c \in Creators :
          Claim(s, t, c) \in d.seasonTicker
             \/ (\E ev \in Named(W, "SlotReserved") : ev.season = s /\ ev.ticker = t /\ ev.creator = c)
          <=> /\ seasonTickers[s][t] = c
              /\ s \notin aborted \/ \E ev \in Named(W, "SeasonAborted") : ev.season = s
    /\ \A ev \in Named(W, "SlotReserved"), row \in d.seasonTicker :
          ~(row.season = ev.season /\ row.ticker = ev.ticker)

\* While the log of an activation waits, no reservation of the season is refunded.
FlagsBehind(d, W) ==
    /\ \A s \in Seasons :
          /\ d.summary[s].activated <=>
                s \in activated /\ \A ev \in Named(W, "SeasonActivated") : ev.season # s
          /\ d.summary[s].aborted <=>
                s \in aborted /\ \A ev \in Named(W, "SeasonAborted") : ev.season # s
    /\ \A ev \in Named(W, "SeasonActivated") :
          /\ ev.season \in activated
          /\ \A c \in Creators : ~Says(escrow, stake, tokens, ev.season, c, "REFUNDED")
    /\ \A ev \in Named(W, "SeasonAborted") : ev.season \in aborted
    /\ \A ev, m \in Named(W, "SeasonActivated") : ev = m
    /\ \A ev, m \in Named(W, "SeasonAborted") : ev = m

\* The row of a deposit: untouched while its SlotReserved waits; with another log,
\* in the status that the log finds; without, in the status that the chain says.
RowBehind(row, W, s, c) ==
    /\ (\E ev \in Named(W, "SlotReserved") : Concerns(ev, s, c)) => row = NoRow
    /\ (\A ev \in Named(W, "SlotReserved") : ~Concerns(ev, s, c)) =>
          /\ row.escrowAmount = AmountIn(escrow, s, c)
          /\ \A ev \in Moves(W) : Concerns(ev, s, c) => Finds(ev.name, row.status)
          /\ (\A ev \in Moves(W) : ~Concerns(ev, s, c)) =>
                Says(escrow, stake, tokens, s, c, row.status)

SlotLogFits(ev, W) ==
    /\ ev.season \in Seasons /\ ev.creator \in Creators /\ ev.ticker \in Tickers
    /\ ev.amount = AmountIn(escrow, ev.season, ev.creator)
    /\ \A m \in Moves(W) : Concerns(m, ev.season, ev.creator) => m.name = "TokenLaunched"
    /\ (\A m \in Moves(W) : ~Concerns(m, ev.season, ev.creator)) =>
          Says(escrow, stake, tokens, ev.season, ev.creator, "PENDING")

\* A log that changes a status leaves the one that the chain says.
MoveFits(ev) ==
    /\ ev.season \in Seasons
    /\ \A st \in Statuses : Leaves(ev.name, st) => Says(escrow, stake, tokens, ev.season, By(ev), st)
    /\ ev.name \in {"ReservationRefunded", "RefundFailed", "PendingRefundClaimed"} =>
          ev.amount = AmountIn(escrow, ev.season, By(ev))
    /\ ev.name = "ReservationRefunded" => ev.season \in aborted
    /\ ev.name = "StakeRefunded" => ev.season \in activated
    /\ ev.name = "StakeForfeited" =>
          /\ ev.amount \in {0, AmountIn(escrow, ev.season, By(ev))}
          /\ FALSE \notin StakeModes => ev.amount = AmountIn(escrow, ev.season, By(ev))

RowsBehind(d, W) ==
    /\ \A s \in Seasons, c \in Creators : RowBehind(d.reservation[<<s, c>>], W, s, c)
    /\ \A ev \in Named(W, "SlotReserved") : SlotLogFits(ev, W)
    /\ \A ev \in W : ev.name \in MoveNames => ev \in Moves(W) \/ ev.name = "TokenLaunched"
    /\ \A ev \in Moves(W) : MoveFits(ev)
    /\ \A ev, m \in Moves(W) : ev.season = m.season /\ By(ev) = By(m) => ev = m

\* The shape of the logs of one transaction.
LogFits(L) ==
    /\ \E S : L \in Seq(S)
    /\ \A i \in DOMAIN L : /\ L[i].name \in LogNames
                           /\ i > 1 => L[i].name # "SlotReserved"
                           /\ L[i].name \in LonelyNames => Len(L) = 1
    /\ \A i, j \in DOMAIN L : L[i] = L[j] => i = j

\* All tables lag behind the chain by exactly the logs W.
Behind(d, W) ==
    /\ SeasonsBehind(d, W) /\ TokensBehind(d, W) /\ PhasesBehind(d, W) /\ FinalistsBehind(d, W)
    /\ BlocksBehind(d, W) /\ WinnersBehind(d, W) /\ TickersBehind(d, W) /\ FlagsBehind(d, W)
    /\ RowsBehind(d, W)

\* What the mirror needs to know of the chain: only a settled season has a winner,
\* only one past its launch phase a list of finalists; an empty slot holds nothing; and
\* while stakes cannot be switched off, an unresolved stake is the whole cost.
WinnersFit ==
    \A k \in Tickers : winnerTickers[k] # NoToken =>
        winnerTickers[k].ticker = k /\ winnerTickers[k].season \in settled

ListsFit == \A s \in Seasons, t \in Tokens : <<s, t>> \in finalists => phaseOf[s] # Launch

EmptySlotsFit ==
    \A s \in Seasons, c \in Creators : ~SlotOf(escrow, s, c).reserved => SlotOf(escrow, s, c).amount = 0

StakesKept ==
    FALSE \notin StakeModes =>
        /\ refundableStakeEnabled
        /\ \A t \in tokens : ~IsProtocolLaunched(t) /\ ~Resolved(stake.launchInfo[t]) =>
              stake.launchInfo[t].stakeAmount = stake.launchInfo[t].costPaid

ChainFits == WinnersFit /\ ListsFit /\ EmptySlotsFit /\ StakesKept

\* The inductive invariant: chain, tables and waiting logs fit together; a stopped
\* indexer stands before a log whose key may repeat.
IndexInv ==
    /\ ChainFits /\ TablesFit(db)
    /\ halted => log # <<>> /\ Head(log).name \in {"TickerBlocked", "PhaseAdvanced"}
    /\ ~halted => LogFits(log) /\ Behind(db, Waiting(log))

LEMMA HeadOfLog ==
  ASSUME NEW L, LogFits(L), L # <<>>, NEW ev, ev = Head(L)
  PROVE  /\ ev \in Waiting(L) /\ Waiting(Tail(L)) = Waiting(L) \ {ev} /\ LogFits(Tail(L))
         /\ ev.name \in LogNames /\ Named(Waiting(L) \ {ev}, "SlotReserved") = {}
         /\ ev.name \in LonelyNames => Waiting(L) \ {ev} = {}
         /\ \A m \in Waiting(L) : m.name \in LonelyNames => m = ev
<1>1. PICK S : L \in Seq(S)
  BY DEF LogFits
<1> DEFINE T == Tail(L)
<1>2. /\ T \in Seq(S) /\ Len(L) > 0 /\ Len(L) \in Nat /\ Len(T) = Len(L) - 1 /\ ev = L[1]
      /\ DOMAIN L = 1..Len(L) /\ DOMAIN T = 1..Len(T)
      /\ \A i \in 1..Len(T) : T[i] = L[i + 1]
  BY <1>1
<1>3. ev \in Waiting(L) /\ ev.name \in LogNames
  BY <1>2 DEF Waiting, LogFits
<1> HIDE DEF T
<1>4. Waiting(T) = Waiting(L) \ {ev}
  <2>1. \A i \in 1..Len(T) : i + 1 \in 1..Len(L) /\ L[i + 1] # ev
    BY <1>2 DEF LogFits
  <2>2. \A i \in 1..Len(L) : L[i] # ev => i - 1 \in 1..Len(T) /\ T[i - 1] = L[i]
    BY <1>2
  <2>3. Waiting(T) = {T[i] : i \in 1..Len(T)} /\ Waiting(L) = {L[i] : i \in 1..Len(L)}
    BY <1>2 DEF Waiting
  <2>4. ASSUME NEW x \in Waiting(T) PROVE x \in Waiting(L) /\ x # ev
    BY <1>2, <2>1, <2>3
  <2>5. ASSUME NEW x \in Waiting(L), x # ev PROVE x \in Waiting(T)
    BY <2>2, <2>3, <2>5
  <2> QED
    BY <2>4, <2>5
<1>5. LogFits(T)
  <2>1. \A i \in DOMAIN T : /\ i + 1 \in DOMAIN L /\ i + 1 > 1 /\ T[i] = L[i + 1] /\ Len(L) # 1
    BY <1>2
  <2>2. \A i \in DOMAIN T : T[i].name \in LogNames /\ T[i].name # "SlotReserved" /\ T[i].name \notin LonelyNames
    BY <2>1 DEF LogFits
  <2>3. \A i, j \in DOMAIN T : T[i] = T[j] => i = j
    <3>1. \A i, j \in DOMAIN T : T[i] = T[j] => i + 1 = j + 1
      BY <2>1 DEF LogFits
    <3> QED
      BY <1>2, <3>1
  <2> QED
    BY <1>2, <2>2, <2>3 DEF LogFits
<1>6. ASSUME NEW m \in Waiting(L), m # ev PROVE m.name # "SlotReserved" /\ m.name \notin LonelyNames /\ Len(L) # 1
  BY <1>2, <1>6 DEF Waiting, LogFits
<1>7. ev.name \in LonelyNames => Waiting(L) \ {ev} = {}
  BY <1>2, <1>6 DEF LogFits
<1> QED
  BY <1>3, <1>4, <1>5, <1>6, <1>7 DEF T, Named

\* A log of one table has that effect alone.
LEMMA LonelyEffect ==
  ASSUME NEW d, TablesFit(d), NEW ev, NEW n, OneTable(d, ev, n)
  PROVE  TablesFit(n) /\ Effect(n, d, ev)
<1>1. /\ TablesFit(n) /\ SameRows(n, d) /\ n.token = d.token /\ n.seasonTicker = d.seasonTicker
      /\ SeasonEffect(n, d, ev) /\ PhaseEffect(n, d, ev) /\ FinalistEffect(n, d, ev)
      /\ BlockEffect(n, d, ev) /\ WinnerEffect(n, d, ev)
  BY LonelyTables
<1>2. ev.name \in {"SeasonStarted", "PhaseAdvanced", "FinalistsSet", "TickerBlocked", "WinnerTickerReserved"}
  BY DEF OneTable
<1>3. ev \notin Moves({ev})
  BY <1>2 DEF Moves, MoveNames
<1>4. RowEffect(n, d, ev) /\ FlagEffect(n, d, ev)
  BY <1>1, <1>2, <1>3 DEF RowEffect, FlagEffect, SameRows
<1>5. TickerEffect(n, d, ev) /\ TokenEffect(n, d, ev)
  BY <1>1, <1>2 DEF TickerEffect, TokenEffect
<1> QED
  BY <1>1, <1>4, <1>5 DEF Effect

\* A log that turns a status has the effect of its table lemma.
LEMMA TurnEffect ==
  ASSUME NEW d, NEW ev, ev.name \in MoveNames, By(ev) \in Creators, ev.season \in Seasons,
         NEW was \in Statuses, NEW st \in Statuses, Finds(ev.name, was), Leaves(ev.name, st),
         NEW n, Turned(n, d, ev.season, By(ev), was, st),
         TokenEffect(n, d, ev), n.seasonTicker = d.seasonTicker
  PROVE  TablesFit(n) /\ Effect(n, d, ev)
<1>1. /\ TablesFit(n) /\ SameBut(n, d, ev.season, By(ev)) /\ SameTables(n, d) /\ SameFlags(n, d)
      /\ \E a \in Nat : RowIs(d, ev.season, By(ev), was, a) /\ RowIs(n, ev.season, By(ev), st, a)
  BY DEF Turned
<1>2. /\ ev.name \notin {"SeasonStarted", "PhaseAdvanced", "FinalistsSet", "TickerBlocked", "WinnerTickerReserved"}
      /\ ev.name \notin {"SlotReserved", "SeasonActivated", "SeasonAborted"}
      /\ ev \in Moves({ev})
  BY DEF MoveNames, Moves
<1>3. SeasonEffect(n, d, ev) /\ PhaseEffect(n, d, ev) /\ BlockEffect(n, d, ev) /\ WinnerEffect(n, d, ev)
      /\ FinalistEffect(n, d, ev)
  BY <1>1, <1>2 DEF SeasonEffect, PhaseEffect, BlockEffect, WinnerEffect, FinalistEffect, SameTables
<1>4. TickerEffect(n, d, ev) /\ FlagEffect(n, d, ev)
  BY <1>1, <1>2 DEF TickerEffect, FlagEffect, SameFlags
<1>5. \A r \in Seasons, k \in Creators :
          n.reservation[<<r, k>>] = d.reservation[<<r, k>>] \/ Concerns(ev, r, k)
  BY <1>1 DEF SameBut, Concerns
<1>6. RowEffect(n, d, ev)
  BY <1>1, <1>2, <1>5 DEF RowEffect
<1> QED
  BY <1>1, <1>3, <1>4, <1>6 DEF Effect

\* Handled, one log name at a time.
LEMMA HandledIs ==
  ASSUME NEW d, NEW ev, NEW n, n = Handled(d, ev)
  PROVE  /\ ev.name = "SeasonStarted" => n = WithSeason(d, ev)
         /\ ev.name = "TokenLaunched" => n = TokenLaunched(d, ev)
         /\ ev.name = "PhaseAdvanced" => n = PhaseAdvanced(d, ev)
         /\ ev.name = "FinalistsSet" => n = FinalistsSet(d, ev)
         /\ ev.name = "SeasonActivated" => n = WithActivation(d, ev)
         /\ ev.name = "SeasonAborted" => n = SeasonAborted(d, ev)
         /\ ev.name = "TickerBlocked" => n = WithBlocked(d, ev)
         /\ ev.name = "WinnerTickerReserved" => n = WithWinner(d, ev)
         /\ ev.name = "SlotReserved" => n = SlotReserved(d, ev)
         /\ ev.name = "ReservationRefunded" => n = ReservationRefunded(d, ev)
         /\ ev.name = "RefundFailed" => n = RefundFailed(d, ev)
         /\ ev.name = "PendingRefundClaimed" => n = RefundClaimed(d, ev)
         /\ ev.name = "StakeRefunded" => n = Status(d, ev, "REFUNDED")
         /\ ev.name = "StakeForfeited" => n = StakeForfeited(d, ev)
  BY DEF Handled, WithSeason, WithActivation, WithBlocked, WithWinner

LEMMA MoveEffect ==
  ASSUME TypeOK, OneOutcome, TablesFit(db), NEW W, RowsBehind(db, W), FlagsBehind(db, W), TokensBehind(db, W),
         NEW ev \in Moves(W), Named(W, "SlotReserved") = {}, NEW n, n = Handled(db, ev)
  PROVE  TablesFit(n) /\ Effect(n, db, ev)
<1> DEFINE s == ev.season
           c == By(ev)
           a == AmountIn(escrow, s, c)
<1>1. /\ ev \in W /\ ev.name \in MoveNames /\ c \in Creators /\ s \in Seasons /\ MoveFits(ev)
  BY DEF Moves, RowsBehind, MoveFits
<1>2. a \in Nat
  BY <1>1 DEF TypeOK, EscrowTypeOK, EscrowState, Deposits, Reservation, AmountIn
<1>3. RowIs(db, s, c, db.reservation[<<s, c>>].status, a) /\ Finds(ev.name, db.reservation[<<s, c>>].status)
  <2>1. RowBehind(db.reservation[<<s, c>>], W, s, c)
    BY <1>1 DEF RowsBehind
  <2> QED
    BY <2>1 DEF RowBehind, Concerns, RowIs
<1>4. /\ ev.name \in {"TokenLaunched", "ReservationRefunded", "RefundFailed"} => RowIs(db, s, c, "PENDING", a)
      /\ ev.name = "PendingRefundClaimed" => RowIs(db, s, c, "REFUND_PENDING", a)
      /\ ev.name \in {"StakeRefunded", "StakeForfeited"} => RowIs(db, s, c, "RELEASED", a)
  BY <1>3 DEF Finds
<1>5. {"PENDING", "REFUND_PENDING", "RELEASED", "REFUNDED", "REFUND_CLAIMED", "FORFEITED"} \subseteq Statuses
  BY DEF Statuses
<1>6. ev.name # "TokenLaunched" => c = ev.creator
  BY DEF By
<1> DEFINE Goal == TablesFit(n) /\ Effect(n, db, ev)
<1>7. ASSUME ev.name = "TokenLaunched" PROVE Goal
  <2>1. n = TokenLaunched(db, ev)
    BY <1>7, HandledIs
  <2>2. ev.token \in Tokens /\ ev.token.creator = c
    BY <1>1, <1>7 DEF TokensBehind, Named, By
  <2>3. Turned(n, db, s, c, "PENDING", "RELEASED") /\ n.token = db.token \cup {ev.token} /\ n.seasonTicker = db.seasonTicker
    <3> HIDE DEF a
    <3>1. a \in Nat /\ RowIs(db, s, ev.token.creator, "PENDING", a) /\ ev.token.creator \in Creators
      BY <1>1, <1>2, <1>4, <1>7, <2>2
    <3> QED
      BY <1>1, <2>1, <2>2, <3>1, LaunchedTables
  <2>4. Finds(ev.name, "PENDING") /\ Leaves(ev.name, "RELEASED") /\ TokenEffect(n, db, ev)
    BY <1>7, <2>3 DEF Finds, Leaves, TokenEffect
  <2> QED
    BY <1>1, <1>5, <2>3, <2>4, TurnEffect
<1>8. ASSUME ev.name = "ReservationRefunded" PROVE Goal
  <2>1. n = ReservationRefunded(db, ev) /\ ev.creator = c
    BY <1>6, <1>8, HandledIs
  <2>2. ~db.summary[s].activated
    BY <1>1, <1>8 DEF MoveFits, OneOutcome, AllOrNothing, FlagsBehind
  <2>3. Turned(n, db, s, c, "PENDING", "REFUNDED") /\ n.token = db.token /\ n.seasonTicker = db.seasonTicker
    <3>1. ev.amount = a
      BY <1>1, <1>8 DEF MoveFits
    <3> HIDE DEF a
    <3>2. a \in Nat /\ RowIs(db, s, ev.creator, "PENDING", a) /\ ev.creator \in Creators
      BY <1>1, <1>2, <1>4, <1>8, <2>1
    <3> QED
      BY <1>1, <2>1, <2>2, <3>1, <3>2, RefundedTables
  <2>4. Finds(ev.name, "PENDING") /\ Leaves(ev.name, "REFUNDED") /\ TokenEffect(n, db, ev)
    BY <1>8, <2>3 DEF Finds, Leaves, TokenEffect
  <2> QED
    BY <1>1, <1>5, <2>3, <2>4, TurnEffect
<1>9. ASSUME ev.name = "RefundFailed" PROVE Goal
  <2>1. n = RefundFailed(db, ev) /\ ev.creator = c
    BY <1>6, <1>9, HandledIs
  <2>3. Turned(n, db, s, c, "PENDING", "REFUND_PENDING") /\ n.token = db.token /\ n.seasonTicker = db.seasonTicker
    <3>1. ev.amount = a
      BY <1>1, <1>9 DEF MoveFits
    <3> HIDE DEF a
    <3>2. a \in Nat /\ RowIs(db, s, ev.creator, "PENDING", a) /\ ev.creator \in Creators
      BY <1>1, <1>2, <1>4, <1>9, <2>1
    <3> QED
      BY <1>1, <2>1, <3>1, <3>2, FailedTables
  <2>4. Finds(ev.name, "PENDING") /\ Leaves(ev.name, "REFUND_PENDING") /\ TokenEffect(n, db, ev)
    BY <1>9, <2>3 DEF Finds, Leaves, TokenEffect
  <2> QED
    BY <1>1, <1>5, <2>3, <2>4, TurnEffect
<1>10. ASSUME ev.name = "PendingRefundClaimed" PROVE Goal
  <2>1. n = RefundClaimed(db, ev) /\ ev.creator = c
    BY <1>6, <1>10, HandledIs
  <2>3. Turned(n, db, s, c, "REFUND_PENDING", "REFUND_CLAIMED") /\ n.token = db.token /\ n.seasonTicker = db.seasonTicker
    <3>1. ev.amount = a
      BY <1>1, <1>10 DEF MoveFits
    <3> HIDE DEF a
    <3>2. a \in Nat /\ RowIs(db, s, ev.creator, "REFUND_PENDING", a) /\ ev.creator \in Creators
      BY <1>1, <1>2, <1>4, <1>10, <2>1
    <3> QED
      BY <1>1, <2>1, <3>1, <3>2, ClaimedTables
  <2>4. Finds(ev.name, "REFUND_PENDING") /\ Leaves(ev.name, "REFUND_CLAIMED") /\ TokenEffect(n, db, ev)
    BY <1>10, <2>3 DEF Finds, Leaves, TokenEffect
  <2> QED
    BY <1>1, <1>5, <2>3, <2>4, TurnEffect
<1>11. ASSUME ev.name = "StakeRefunded" PROVE Goal
  <2>1. n = Status(db, ev, "REFUNDED") /\ ev.creator = c
    BY <1>6, <1>11, HandledIs
  <2>2. db.summary[s].activated
    <3>1. s \in activated /\ Says(escrow, stake, tokens, s, c, "REFUNDED")
      BY <1>1, <1>5, <1>11 DEF MoveFits, Leaves
    <3> QED
      BY <1>1, <3>1 DEF FlagsBehind
  <2>3. Turned(n, db, s, c, "RELEASED", "REFUNDED") /\ n.token = db.token /\ n.seasonTicker = db.seasonTicker
    <3> HIDE DEF a
    <3>2. a \in Nat /\ RowIs(db, s, ev.creator, "RELEASED", a) /\ ev.creator \in Creators
      BY <1>1, <1>2, <1>4, <1>11, <2>1
    <3> QED
      BY <1>1, <2>1, <2>2, <3>2, SurvivedTables
  <2>4. Finds(ev.name, "RELEASED") /\ Leaves(ev.name, "REFUNDED") /\ TokenEffect(n, db, ev)
    BY <1>11, <2>3 DEF Finds, Leaves, TokenEffect
  <2> QED
    BY <1>1, <1>5, <2>3, <2>4, TurnEffect
<1>12. ASSUME ev.name = "StakeForfeited" PROVE Goal
  <2>1. n = StakeForfeited(db, ev) /\ ev.creator = c
    BY <1>6, <1>12, HandledIs
  <2>3. Turned(n, db, s, c, "RELEASED", "FORFEITED") /\ n.token = db.token /\ n.seasonTicker = db.seasonTicker
    <3>1. ev.amount \in {0, a} /\ (FALSE \notin StakeModes => ev.amount = a)
      BY <1>1, <1>12 DEF MoveFits
    <3> HIDE DEF a
    <3>3. 0 \in 0..a /\ a \in 0..a
      BY <1>2
    <3>4. ForfeitOf(ev, a)
      BY <3>1, <3>3 DEF ForfeitOf
    <3>2. a \in Nat /\ RowIs(db, s, ev.creator, "RELEASED", a) /\ ev.creator \in Creators
      BY <1>1, <1>2, <1>4, <1>12, <2>1
    <3> QED
      BY <1>1, <2>1, <3>2, <3>4, ForfeitedTables
  <2>4. Finds(ev.name, "RELEASED") /\ Leaves(ev.name, "FORFEITED") /\ TokenEffect(n, db, ev)
    BY <1>12, <2>3 DEF Finds, Leaves, TokenEffect
  <2> QED
    BY <1>1, <1>5, <2>3, <2>4, TurnEffect
<1>13. ev.name \in {"TokenLaunched", "ReservationRefunded", "RefundFailed", "PendingRefundClaimed",
                    "StakeRefunded", "StakeForfeited"}
  BY <1>1 DEF MoveNames
<1> QED
  BY <1>7, <1>8, <1>9, <1>10, <1>11, <1>12, <1>13

\* TokenLaunched for a protocol token.
LEMMA ProtocolEffect ==
  ASSUME NEW d, TablesFit(d), NEW ev, ev.name = "TokenLaunched", ev.token \in Tokens,
         ev.token.creator \notin Creators, NEW n, n = TokenLaunched(d, ev)
  PROVE  TablesFit(n) /\ Effect(n, d, ev)
<1>1. d \in Tables
  BY DEF TablesFit
<1>2. <<ev.season, ev.token.creator>> \notin Deposits
  BY DEF Deposits
<1>3. n = [d EXCEPT !.token = @ \cup {ev.token}]
  BY <1>2 DEF TokenLaunched
<1>4. n \in Tables /\ SameRows(n, d)
  BY <1>1, <1>3 DEF Tables, SameRows
<1>5. TablesFit(n)
  BY <1>4, QuietTables
<1>6. n.season = d.season /\ n.phase = d.phase /\ n.isFinalist = d.isFinalist
      /\ n.unread = d.unread /\ n.blocklist = d.blocklist /\ n.winnerTicker = d.winnerTicker
      /\ n.token = d.token \cup {ev.token} /\ n.seasonTicker = d.seasonTicker
  BY <1>1, <1>3 DEF Tables
<1>7. ev \notin Moves({ev})
  BY DEF Moves, By
<1> QED
  BY <1>4, <1>5, <1>6, <1>7 DEF Effect, SeasonEffect, TokenEffect, PhaseEffect, FinalistEffect,
     BlockEffect, WinnerEffect, TickerEffect, FlagEffect, RowEffect, SameRows

LEMMA ActivatedEffect ==
  ASSUME OneOutcome, TablesFit(db), NEW W, RowsBehind(db, W), FlagsBehind(db, W),
         Named(W, "SlotReserved") = {}, activated \subseteq Seasons,
         NEW ev \in W, ev.name = "SeasonActivated", NEW n, n = Handled(db, ev)
  PROVE  TablesFit(n) /\ Effect(n, db, ev)
<1>1. /\ ev.season \in activated /\ ev.season \in Seasons
      /\ \A c \in Creators : ~Says(escrow, stake, tokens, ev.season, c, "REFUNDED")
  BY DEF FlagsBehind, Named
<1>2. \A c \in Creators : db.reservation[<<ev.season, c>>].status # "REFUNDED"
  <2> SUFFICES ASSUME NEW c \in Creators, db.reservation[<<ev.season, c>>].status = "REFUNDED" PROVE FALSE
    OBVIOUS
  <2>1. RowBehind(db.reservation[<<ev.season, c>>], W, ev.season, c)
    BY <1>1 DEF RowsBehind
  <2>2. \A m : ~Finds(m, "REFUNDED")
    BY DEF Finds
  <2> QED
    BY <1>1, <2>1, <2>2 DEF RowBehind
<1>3. ~db.summary[ev.season].aborted
  BY <1>1 DEF OneOutcome, AllOrNothing, FlagsBehind
<1>4. n = WithActivation(db, ev)
  BY HandledIs
<1>5. /\ TablesFit(n) /\ SameTables(n, db) /\ n.reservation = db.reservation
      /\ n.token = db.token /\ n.seasonTicker = db.seasonTicker
      /\ n.summary[ev.season].activated /\ ~n.summary[ev.season].aborted
      /\ \A r \in Seasons : r # ev.season => n.summary[r] = db.summary[r]
  BY <1>1, <1>2, <1>3, <1>4, ActivatedTables
<1>6. ev \notin Moves({ev})
  BY DEF Moves, MoveNames
<1>7. FlagEffect(n, db, ev)
  BY <1>3, <1>5 DEF FlagEffect
<1>8. RowEffect(n, db, ev)
  BY <1>5, <1>6 DEF RowEffect
<1> QED
  BY <1>5, <1>7, <1>8 DEF Effect, SeasonEffect, TokenEffect, PhaseEffect, FinalistEffect,
     BlockEffect, WinnerEffect, TickerEffect, SameTables

LEMMA AbortedEffect ==
  ASSUME OneOutcome, TablesFit(db), NEW W, FlagsBehind(db, W), aborted \subseteq Seasons,
         NEW ev \in W, ev.name = "SeasonAborted", NEW n, n = Handled(db, ev)
  PROVE  TablesFit(n) /\ Effect(n, db, ev)
<1>1. ev.season \in aborted /\ ev.season \in Seasons
  BY DEF FlagsBehind, Named
<1>3. ~db.summary[ev.season].activated
  BY <1>1 DEF OneOutcome, AllOrNothing, FlagsBehind
<1>4. n = SeasonAborted(db, ev)
  BY HandledIs
<1>5. /\ TablesFit(n) /\ SameTables(n, db) /\ n.reservation = db.reservation
      /\ n.token = db.token
      /\ n.seasonTicker = {row \in db.seasonTicker : row.season # ev.season}
      /\ n.summary[ev.season].aborted /\ ~n.summary[ev.season].activated
      /\ \A r \in Seasons : r # ev.season => n.summary[r] = db.summary[r]
  BY <1>1, <1>3, <1>4, AbortedTables
<1>6. ev \notin Moves({ev})
  BY DEF Moves, MoveNames
<1>7. FlagEffect(n, db, ev)
  BY <1>3, <1>5 DEF FlagEffect
<1>8. RowEffect(n, db, ev)
  BY <1>5, <1>6 DEF RowEffect
<1> QED
  BY <1>5, <1>7, <1>8 DEF Effect, SeasonEffect, TokenEffect, PhaseEffect, FinalistEffect,
     BlockEffect, WinnerEffect, TickerEffect, SameTables

LEMMA ReservedEffect ==
  ASSUME TypeOK, TablesFit(db), NEW W, RowsBehind(db, W),
         NEW ev \in W, ev.name = "SlotReserved", NEW n, n = Handled(db, ev)
  PROVE  TablesFit(n) /\ Effect(n, db, ev)
<1> DEFINE a == AmountIn(escrow, ev.season, ev.creator)
<1>1. /\ ev.season \in Seasons /\ ev.creator \in Creators /\ ev.ticker \in Tickers /\ ev.amount = a
  BY DEF RowsBehind, SlotLogFits, Named
<1>2. a \in Nat
  BY <1>1 DEF TypeOK, EscrowTypeOK, EscrowState, Deposits, Reservation, AmountIn
<1>3. RowIs(db, ev.season, ev.creator, "NONE", 0)
  <2>1. RowBehind(db.reservation[<<ev.season, ev.creator>>], W, ev.season, ev.creator)
    BY <1>1 DEF RowsBehind
  <2>2. ev \in Named(W, "SlotReserved") /\ Concerns(ev, ev.season, ev.creator)
    BY DEF Named, Concerns, By
  <2>3. db.reservation[<<ev.season, ev.creator>>] = NoRow
    BY <2>1, <2>2 DEF RowBehind
  <2> QED
    BY <2>3 DEF RowIs, NoRow
<1>4. n = SlotReserved(db, ev)
  BY HandledIs
<1> HIDE DEF a
<1>5. /\ TablesFit(n) /\ SameBut(n, db, ev.season, ev.creator) /\ SameTables(n, db) /\ SameFlags(n, db)
      /\ RowIs(n, ev.season, ev.creator, "PENDING", a)
      /\ n.token = db.token
      /\ n.seasonTicker = db.seasonTicker
            \cup {[season |-> ev.season, ticker |-> ev.ticker, creator |-> ev.creator]}
  BY <1>1, <1>2, <1>3, <1>4, ReservedTables
<1>6. ev \notin Moves({ev}) /\ By(ev) = ev.creator
  BY DEF Moves, MoveNames, By
<1>7. TickerEffect(n, db, ev)
  BY <1>5 DEF TickerEffect, Claim
<1>8. RowEffect(n, db, ev)
  BY <1>1, <1>5, <1>6 DEF RowEffect, SameBut, Concerns
<1> QED
  BY <1>5, <1>7, <1>8 DEF Effect, SeasonEffect, TokenEffect, PhaseEffect, FinalistEffect,
     BlockEffect, WinnerEffect, FlagEffect, SameTables, SameFlags

\* What each handler does to the tables, and that they still fit.
LEMMA HandledEffect ==
  ASSUME TypeOK, OneOutcome, TablesFit(db), NEW W, Behind(db, W), NEW ev \in W, ev.name \in LogNames,
         ev.name # "SlotReserved" => Named(W, "SlotReserved") = {}, NEW n, n = Handled(db, ev)
  PROVE  TablesFit(n) /\ Effect(n, db, ev)
<1>1. /\ SeasonsBehind(db, W) /\ TokensBehind(db, W) /\ PhasesBehind(db, W) /\ FinalistsBehind(db, W)
      /\ BlocksBehind(db, W) /\ WinnersBehind(db, W) /\ TickersBehind(db, W) /\ FlagsBehind(db, W)
      /\ RowsBehind(db, W)
  BY DEF Behind
<1>2. activated \subseteq Seasons /\ aborted \subseteq Seasons /\ phaseOf \in [Seasons -> Launch..Closed]
  BY DEF TypeOK
<1>3. CASE ev.name \in MoveNames /\ By(ev) \in Creators
  <2>1. ev \in Moves(W) /\ ev.name # "SlotReserved"
    BY <1>3 DEF Moves, MoveNames
  <2> QED
    BY <1>1, <2>1, MoveEffect
<1>4. CASE ev.name \in MoveNames /\ By(ev) \notin Creators
  <2>1. ev.name = "TokenLaunched"
    BY <1>1, <1>4 DEF RowsBehind, Moves
  <2>2. n = TokenLaunched(db, ev)
    BY <2>1, HandledIs
  <2>3. ev.token \in Tokens /\ ev.token.creator \notin Creators
    BY <1>1, <1>4, <2>1 DEF TokensBehind, Named, By
  <2> QED
    BY <2>1, <2>2, <2>3, ProtocolEffect
<1>5. CASE ev.name \in LonelyNames /\ ev.name # "PendingRefundClaimed"
  <2>1. OneTable(db, ev, n)
    <3>1. ev.name = "SeasonStarted" => OneTable(db, ev, n)
      BY <1>1, HandledIs DEF OneTable, SeasonsBehind, Named
    <3>2. ev.name = "PhaseAdvanced" => OneTable(db, ev, n)
      <4>1. ev.name = "PhaseAdvanced" => /\ ev.season \in Seasons /\ ev.logIndex \in LogIndexes
                                        /\ ev.newPhase \in Launch..Closed
        BY <1>1, <1>2 DEF PhasesBehind, Named
      <4> QED
        BY <4>1, HandledIs DEF OneTable
    <3>3. ev.name = "FinalistsSet" => OneTable(db, ev, n)
      BY HandledIs DEF OneTable
    <3>4. ev.name = "TickerBlocked" => OneTable(db, ev, n)
      BY <1>1, HandledIs DEF OneTable, BlocksBehind, Named
    <3>5. ev.name = "WinnerTickerReserved" => OneTable(db, ev, n)
      BY <1>1, HandledIs DEF OneTable, WinnersBehind, Named
    <3> QED
      BY <1>5, <3>1, <3>2, <3>3, <3>4, <3>5 DEF LonelyNames
  <2> QED
    BY <2>1, LonelyEffect
<1>6. CASE ev.name = "SlotReserved"
  BY <1>1, <1>6, ReservedEffect
<1>7. CASE ev.name = "SeasonActivated"
  BY <1>1, <1>2, <1>7, ActivatedEffect
<1>8. CASE ev.name = "SeasonAborted"
  BY <1>1, <1>2, <1>8, AbortedEffect
<1>9. ev.name = "PendingRefundClaimed" => ev.name \in MoveNames
  BY DEF MoveNames
<1> QED
  BY <1>3, <1>4, <1>5, <1>6, <1>7, <1>8, <1>9 DEF LogNames

\* Only a ticker blocked twice or two phases at one position clash with a row.
LEMMA NoClash ==
  ASSUME TablesFit(db), NEW W, Behind(db, W), NEW ev \in W, Named(W \ {ev}, "SlotReserved") = {},
         ev.name \notin {"TickerBlocked", "PhaseAdvanced"}
  PROVE  ~Clashes(db, ev)
<1>1. /\ SeasonsBehind(db, W) /\ TokensBehind(db, W) /\ WinnersBehind(db, W) /\ TickersBehind(db, W)
      /\ RowsBehind(db, W) /\ db \in Tables /\ RowsFit(db)
  BY DEF Behind, TablesFit
<1>2. ~(ev.name = "SeasonStarted" /\ ev.season \in db.season)
  BY <1>1 DEF SeasonsBehind, Named
<1>3. ~(ev.name = "TokenLaunched" /\ ev.token \in db.token)
  BY <1>1 DEF TokensBehind, Named
<1>4. ~(ev.name = "WinnerTickerReserved" /\ \E t \in db.winnerTicker : t.ticker = ev.token.ticker)
  BY <1>1 DEF WinnersBehind, Named
<1>5. ASSUME ev.name = "SlotReserved"
      PROVE  /\ db.reservation[<<ev.season, ev.creator>>] = NoRow
             /\ ~ \E row \in db.seasonTicker : row.season = ev.season /\ row.ticker = ev.ticker
  <2>1. ev \in Named(W, "SlotReserved") /\ By(ev) = ev.creator
    BY <1>5 DEF Named, By
  <2>2. ev.season \in Seasons /\ ev.creator \in Creators
    BY <1>1, <2>1 DEF RowsBehind, SlotLogFits
  <2>3. RowBehind(db.reservation[<<ev.season, ev.creator>>], W, ev.season, ev.creator)
    BY <1>1, <2>2 DEF RowsBehind
  <2> QED
    BY <1>1, <2>1, <2>3 DEF RowBehind, Concerns, TickersBehind
<1>6. ASSUME ev.name = "RefundFailed", NEW row \in db.pendingRefund,
             row.season = ev.season, row.creator = ev.creator
      PROVE  FALSE
  <2>1. ev \in Moves(W) /\ By(ev) = ev.creator /\ ev.name # "SlotReserved"
    BY <1>1, <1>6 DEF RowsBehind, MoveNames, By
  <2>2. ev.season \in Seasons /\ ev.creator \in Creators
    BY <1>1, <2>1 DEF RowsBehind, MoveFits, Moves
  <2>3. RowBehind(db.reservation[<<ev.season, ev.creator>>], W, ev.season, ev.creator)
    BY <1>1, <2>2 DEF RowsBehind
  <2>4. Named(W, "SlotReserved") = {}
    BY <2>1 DEF Named
  <2>5. Finds(ev.name, db.reservation[<<ev.season, ev.creator>>].status)
    BY <2>1, <2>3, <2>4 DEF RowBehind, Concerns
  <2>6. db.reservation[<<ev.season, ev.creator>>].status = "PENDING"
    BY <1>6, <2>5 DEF Finds
  <2>7. row.amount \in Nat /\ row = Credit(ev.season, ev.creator, row.amount)
    BY <1>1, <1>6 DEF Tables, Credit
  <2>8. RowFits(db, ev.season, ev.creator, db.reservation[<<ev.season, ev.creator>>])
    BY <1>1, <2>2 DEF RowsFit
  <2> QED
    BY <1>6, <2>6, <2>7, <2>8 DEF RowFits
<1> QED
  BY <1>2, <1>3, <1>4, <1>5, <1>6 DEF Clashes

\* Every table lags behind by one log less when its log is handled.
LEMMA NamedRest ==
  ASSUME NEW W, NEW ev, NEW x
  PROVE  /\ Named(W \ {ev}, x) = Named(W, x) \ {ev}
         /\ ev.name # x => Named(W \ {ev}, x) = Named(W, x)
  BY DEF Named

\* One table at a time: when the log ev is handled, the table is behind by the rest.
LEMMA SeasonsFollow ==
  ASSUME NEW d, NEW n, NEW W, NEW ev \in W, SeasonsBehind(d, W), SeasonEffect(n, d, ev),
         ev.name \in LonelyNames => W \ {ev} = {}
  PROVE  SeasonsBehind(n, W \ {ev})
<1>1. CASE ev.name = "SeasonStarted"
  <2>1. W \ {ev} = {} /\ n.season = d.season \cup {ev.season} /\ Named(W, "SeasonStarted") = {ev}
    BY <1>1 DEF SeasonEffect, LonelyNames, Named
  <2>2. Named(W \ {ev}, "SeasonStarted") = {}
    BY <2>1 DEF Named
  <2> QED
    BY <2>1, <2>2 DEF SeasonsBehind
<1>2. CASE ev.name # "SeasonStarted"
  BY <1>2, NamedRest DEF SeasonsBehind, SeasonEffect
<1> QED
  BY <1>1, <1>2

LEMMA TokensFollow ==
  ASSUME NEW d, NEW n, NEW W, NEW ev \in W, TokensBehind(d, W), TokenEffect(n, d, ev)
  PROVE  TokensBehind(n, W \ {ev})
<1>1. CASE ev.name = "TokenLaunched"
  <2>1. n.token = d.token \cup {ev.token} /\ ev.token \in Tokens /\ ev = LaunchedLog(ev.token)
    BY <1>1 DEF TokenEffect, TokensBehind, Named
  <2>2. \A t \in Tokens : LaunchedLog(t) \in W \ {ev} <=> LaunchedLog(t) \in W /\ t # ev.token
    BY <2>1 DEF LaunchedLog
  <2>3. \A m \in Named(W \ {ev}, "TokenLaunched") : m \in Named(W, "TokenLaunched") /\ m # ev
    BY DEF Named
  <2>4. \A m \in Named(W \ {ev}, "TokenLaunched") : m.token # ev.token
    BY <2>1, <2>3 DEF TokensBehind
  <2>5. ev \in W
    OBVIOUS
  <2> QED
    BY <2>1, <2>2, <2>3, <2>4, <2>5 DEF TokensBehind
<1>2. CASE ev.name # "TokenLaunched"
  <2>1. \A t \in Tokens : LaunchedLog(t) \in W \ {ev} <=> LaunchedLog(t) \in W
    BY <1>2 DEF LaunchedLog
  <2> QED
    BY <1>2, <2>1, NamedRest DEF TokensBehind, TokenEffect
<1> QED
  BY <1>1, <1>2

LEMMA PhasesFollow ==
  ASSUME NEW d \in Tables, NEW n, NEW W, NEW ev \in W, PhasesBehind(d, W), PhaseEffect(n, d, ev),
         ev.name \in LonelyNames => W \ {ev} = {}
  PROVE  PhasesBehind(n, W \ {ev})
<1>1. CASE ev.name = "PhaseAdvanced"
  <2>1. W \ {ev} = {} /\ n.phase = [d.phase EXCEPT ![ev.season] = ev.newPhase] /\ Named(W, "PhaseAdvanced") = {ev}
    BY <1>1 DEF PhaseEffect, LonelyNames, Named
  <2>2. Named(W \ {ev}, "PhaseAdvanced") = {}
    BY <2>1 DEF Named
  <2>3. DOMAIN d.phase = Seasons
    BY DEF Tables
  <2>4. ev.season \in Seasons /\ ev.newPhase = phaseOf[ev.season]
    BY <2>1 DEF PhasesBehind
  <2>5. \A s \in Seasons : s # ev.season => d.phase[s] = phaseOf[s]
    BY <2>1 DEF PhasesBehind
  <2>6. \A s \in Seasons : n.phase[s] = phaseOf[s]
    BY <2>1, <2>3, <2>4, <2>5
  <2> QED
    BY <2>2, <2>6 DEF PhasesBehind
<1>2. CASE ev.name # "PhaseAdvanced"
  BY <1>2, NamedRest DEF PhasesBehind, PhaseEffect
<1> QED
  BY <1>1, <1>2

LEMMA BlocksFollow ==
  ASSUME NEW d, NEW n, NEW W, NEW ev \in W, BlocksBehind(d, W), BlockEffect(n, d, ev),
         ev.name \in LonelyNames => W \ {ev} = {}
  PROVE  BlocksBehind(n, W \ {ev})
<1>1. CASE ev.name = "TickerBlocked"
  <2>1. W \ {ev} = {} /\ n.blocklist = d.blocklist \cup {ev.ticker} /\ Named(W, "TickerBlocked") = {ev}
    BY <1>1 DEF BlockEffect, LonelyNames, Named
  <2>2. Named(W \ {ev}, "TickerBlocked") = {}
    BY <2>1 DEF Named
  <2> QED
    BY <2>1, <2>2 DEF BlocksBehind
<1>2. CASE ev.name # "TickerBlocked"
  BY <1>2, NamedRest DEF BlocksBehind, BlockEffect
<1> QED
  BY <1>1, <1>2

LEMMA WinnersFollow ==
  ASSUME NEW d, NEW n, NEW W, NEW ev \in W, WinnersBehind(d, W), WinnerEffect(n, d, ev),
         ev.name \in LonelyNames => W \ {ev} = {}
  PROVE  WinnersBehind(n, W \ {ev})
<1>1. CASE ev.name = "WinnerTickerReserved"
  <2>1. W \ {ev} = {} /\ n.winnerTicker = d.winnerTicker \cup {ev.token}
        /\ Named(W, "WinnerTickerReserved") = {ev}
    BY <1>1 DEF WinnerEffect, LonelyNames, Named
  <2>2. Named(W \ {ev}, "WinnerTickerReserved") = {}
    BY <2>1 DEF Named
  <2> QED
    BY <2>1, <2>2 DEF WinnersBehind
<1>2. CASE ev.name # "WinnerTickerReserved"
  BY <1>2, NamedRest DEF WinnersBehind, WinnerEffect
<1> QED
  BY <1>1, <1>2

\* A list waits alone, so that all its season's tokens are there; of those it names,
\* both ways of reading it leave out only those whose entry could not be read.
LEMMA FinalistsFollow ==
  ASSUME NEW d, NEW n, NEW W, NEW ev \in W, FinalistsBehind(d, W), FinalistEffect(n, d, ev),
         TokensBehind(d, W), TokenEffect(n, d, ev), tokens \subseteq Tokens,
         ev.name \in LonelyNames => W \ {ev} = {}
  PROVE  FinalistsBehind(n, W \ {ev})
<1>1. CASE ev.name = "FinalistsSet"
  <2> DEFINE found == Found(d, ev)
             missed == Missed(d, ev)
  <2>1. /\ W = {ev} /\ Named(W, "FinalistsSet") = {ev} /\ n.token = d.token
        /\ n.isFinalist = d.isFinalist \cup found
        /\ n.unread = (d.unread \cup missed) \ (d.isFinalist \cup found)
    BY <1>1 DEF FinalistEffect, TokenEffect, LonelyNames, Named
  <2>2. Named(W \ {ev}, "FinalistsSet") = {}
    BY <2>1 DEF Named
  <2>3. /\ ev.season \in Seasons /\ ev.list \subseteq ev.entries
        /\ ev.entries = {t \in Tokens : <<ev.season, t>> \in finalists}
    BY <2>1 DEF FinalistsBehind
  <2>4. tokens \subseteq d.token
    BY <1>1, <2>1 DEF TokensBehind, LaunchedLog
  <2>5. found \subseteq d.token /\ found \subseteq ev.entries
    BY <2>3 DEF Found
  <2>6. \A t \in d.token : t.season = ev.season /\ t \in ev.list => t \in found \cup missed
    BY <2>3 DEF Found, Missed
  <2> HIDE DEF found, missed
  <2>7. n.isFinalist \subseteq n.token /\ \A t \in n.isFinalist : \E s \in Seasons : <<s, t>> \in finalists
    BY <2>1, <2>3, <2>5 DEF FinalistsBehind
  <2>8. \A t \in tokens : <<t.season, t>> \in finalists => t \in n.isFinalist \cup n.unread
    <3> SUFFICES ASSUME NEW t \in tokens, <<t.season, t>> \in finalists,
                        t \notin d.isFinalist \cup d.unread
                 PROVE  t \in found \cup missed
      BY <2>1
    <3>1. ev.season = t.season /\ t \in ev.list
      BY <2>1 DEF FinalistsBehind
    <3> QED
      BY <2>4, <2>6, <3>1
  <2> QED
    BY <2>2, <2>7, <2>8 DEF FinalistsBehind
<1>2. CASE ev.name # "FinalistsSet"
  <2>1. n.isFinalist = d.isFinalist /\ n.unread = d.unread /\ d.token \subseteq n.token
    BY <1>2 DEF FinalistEffect, TokenEffect
  <2>2. Named(W \ {ev}, "FinalistsSet") = Named(W, "FinalistsSet")
    BY <1>2, NamedRest
  <2> QED
    BY <2>1, <2>2 DEF FinalistsBehind
<1> QED
  BY <1>1, <1>2

LEMMA TickersFollow ==
  ASSUME NEW d, NEW n, NEW W, NEW ev \in W, TickersBehind(d, W), TickerEffect(n, d, ev),
         FlagsBehind(d, W), Named(W \ {ev}, "SlotReserved") = {}
  PROVE  TickersBehind(n, W \ {ev})
<1> DEFINE Waits(s, t, c) == \E m \in Named(W, "SlotReserved") : m.season = s /\ m.ticker = t /\ m.creator = c
<1>1. \A s \in Seasons, t \in Tickers, c \in Creators :
         Claim(s, t, c) \in d.seasonTicker \/ Waits(s, t, c)
         <=> /\ seasonTickers[s][t] = c
             /\ s \notin aborted \/ \E m \in Named(W, "SeasonAborted") : m.season = s
  BY DEF TickersBehind
<1>2. SUFFICES \A s \in Seasons, t \in Tickers, c \in Creators :
         Claim(s, t, c) \in n.seasonTicker
         <=> /\ seasonTickers[s][t] = c
             /\ s \notin aborted \/ \E m \in Named(W \ {ev}, "SeasonAborted") : m.season = s
  BY DEF TickersBehind
<1> HIDE DEF Waits
<1>3. CASE ev.name = "SlotReserved"
  <2>1. Named(W, "SlotReserved") = {ev} /\ n.seasonTicker = d.seasonTicker \cup {Claim(ev.season, ev.ticker, ev.creator)}
    BY <1>3 DEF TickerEffect, Named
  <2>2. Named(W \ {ev}, "SeasonAborted") = Named(W, "SeasonAborted")
    BY <1>3, NamedRest
  <2>3. \A s \in Seasons, t \in Tickers, c \in Creators :
           Claim(s, t, c) = Claim(ev.season, ev.ticker, ev.creator) <=> Waits(s, t, c)
    BY <2>1 DEF Claim, Waits
  <2> QED
    BY <1>1, <2>1, <2>2, <2>3
<1>4. ASSUME ev.name # "SlotReserved" PROVE \A s, t, c : ~Waits(s, t, c)
  BY <1>4, NamedRest DEF Waits
<1>5. CASE ev.name = "SeasonAborted"
  <2>1. n.seasonTicker = {row \in d.seasonTicker : row.season # ev.season}
    BY <1>5 DEF TickerEffect
  <2>2. Named(W, "SeasonAborted") = {ev} /\ Named(W \ {ev}, "SeasonAborted") = {} /\ ev.season \in aborted
    BY <1>5 DEF FlagsBehind, Named
  <2>3. \A s, t, c : Claim(s, t, c).season = s
    BY DEF Claim
  <2>4. \A s \in Seasons, t \in Tickers, c \in Creators :
           Claim(s, t, c) \in n.seasonTicker <=> Claim(s, t, c) \in d.seasonTicker /\ s # ev.season
    BY <2>1, <2>3
  <2> QED
    BY <1>1, <1>4, <1>5, <2>2, <2>4
<1>6. CASE ev.name \notin {"SlotReserved", "SeasonAborted"}
  <2>1. n.seasonTicker = d.seasonTicker /\ Named(W \ {ev}, "SeasonAborted") = Named(W, "SeasonAborted")
    BY <1>6, NamedRest DEF TickerEffect
  <2> QED
    BY <1>1, <1>4, <1>6, <2>1
<1> QED
  BY <1>3, <1>5, <1>6

LEMMA FlagsFollow ==
  ASSUME NEW d, NEW n, NEW W, NEW ev \in W, FlagsBehind(d, W), FlagEffect(n, d, ev)
  PROVE  FlagsBehind(n, W \ {ev})
<1>1. /\ \A m \in Named(W \ {ev}, "SeasonActivated") : m \in Named(W, "SeasonActivated")
      /\ \A m \in Named(W \ {ev}, "SeasonAborted") : m \in Named(W, "SeasonAborted")
  BY DEF Named
<1>2. \A s \in Seasons : n.summary[s].activated <=>
         s \in activated /\ \A m \in Named(W \ {ev}, "SeasonActivated") : m.season # s
  <2>1. CASE ev.name = "SeasonActivated"
    <3>1. Named(W, "SeasonActivated") = {ev} /\ Named(W \ {ev}, "SeasonActivated") = {} /\ ev.season \in activated
      BY <2>1 DEF FlagsBehind, Named
    <3> QED
      BY <2>1, <3>1 DEF FlagsBehind, FlagEffect
  <2>2. CASE ev.name # "SeasonActivated"
    BY <2>2, NamedRest DEF FlagsBehind, FlagEffect
  <2> QED
    BY <2>1, <2>2
<1>3. \A s \in Seasons : n.summary[s].aborted <=>
         s \in aborted /\ \A m \in Named(W \ {ev}, "SeasonAborted") : m.season # s
  <2>1. CASE ev.name = "SeasonAborted"
    <3>1. Named(W, "SeasonAborted") = {ev} /\ Named(W \ {ev}, "SeasonAborted") = {} /\ ev.season \in aborted
      BY <2>1 DEF FlagsBehind, Named
    <3> QED
      BY <2>1, <3>1 DEF FlagsBehind, FlagEffect
  <2>2. CASE ev.name # "SeasonAborted"
    BY <2>2, NamedRest DEF FlagsBehind, FlagEffect
  <2> QED
    BY <2>1, <2>2
<1> QED
  BY <1>1, <1>2, <1>3 DEF FlagsBehind

\* The row that the log concerns is then the one that the rest of the logs expect;
\* the other rows expect what they did.
LEMMA RowsFollow ==
  ASSUME NEW d, NEW n, NEW W, NEW ev \in W, RowsBehind(d, W), RowEffect(n, d, ev),
         Named(W \ {ev}, "SlotReserved") = {}
  PROVE  RowsBehind(n, W \ {ev})
<1> DEFINE V == W \ {ev}
<1>1. /\ \A m \in Moves(V) : m \in Moves(W) /\ m # ev
      /\ \A m \in Moves(W) : m # ev => m \in Moves(V)
      /\ ev \in Moves({ev}) <=> ev \in Moves(W)
  BY DEF Moves
<1>2. /\ \A m \in V : m.name \in MoveNames => m \in Moves(V) \/ m.name = "TokenLaunched"
      /\ \A m \in Moves(V) : MoveFits(m)
      /\ \A m, k \in Moves(V) : m.season = k.season /\ By(m) = By(k) => m = k
  BY <1>1 DEF RowsBehind
<1>3. ASSUME NEW s \in Seasons, NEW c \in Creators
      PROVE  RowBehind(n.reservation[<<s, c>>], V, s, c)
  <2> DEFINE row == n.reservation[<<s, c>>]
             old == d.reservation[<<s, c>>]
  <2>1. RowBehind(old, W, s, c)
    BY DEF RowsBehind
  <2> SUFFICES /\ row.escrowAmount = AmountIn(escrow, s, c)
               /\ \A m \in Moves(V) : Concerns(m, s, c) => Finds(m.name, row.status)
               /\ (\A m \in Moves(V) : ~Concerns(m, s, c)) => Says(escrow, stake, tokens, s, c, row.status)
    BY DEF RowBehind
  <2>2. CASE ev.name = "SlotReserved" /\ Concerns(ev, s, c)
    <3>1. /\ ev \in Named(W, "SlotReserved") /\ SlotLogFits(ev, W) /\ By(ev) = ev.creator
          /\ ev.season = s /\ ev.creator = c
      BY <2>2 DEF Named, RowsBehind, Concerns, By
    <3>2. row.status = "PENDING" /\ row.escrowAmount = AmountIn(escrow, s, c)
      BY <2>2, <3>1 DEF RowEffect, RowIs, SlotLogFits
    <3>3. \A m \in Moves(V) : Concerns(m, s, c) => Finds(m.name, "PENDING")
      BY <1>1, <3>1 DEF SlotLogFits, Finds
    <3>4. (\A m \in Moves(V) : ~Concerns(m, s, c)) => \A m \in Moves(W) : ~Concerns(m, s, c)
      BY <1>1, <2>2 DEF Moves, MoveNames
    <3> QED
      BY <3>1, <3>2, <3>3, <3>4 DEF SlotLogFits
  <2>3. CASE ev \in Moves(W) /\ Concerns(ev, s, c)
    <3>1. Named(W, "SlotReserved") = {}
      BY <2>3, NamedRest DEF Moves, MoveNames
    <3>2. old.escrowAmount = AmountIn(escrow, s, c) /\ ev.season = s /\ By(ev) = c
      BY <2>1, <2>3, <3>1 DEF RowBehind, Concerns
    <3>3. PICK a \in Nat, was \in Statuses, st \in Statuses :
             /\ Finds(ev.name, was) /\ Leaves(ev.name, st)
             /\ RowIs(d, ev.season, By(ev), was, a) /\ RowIs(n, ev.season, By(ev), st, a)
      BY <1>1, <2>3 DEF RowEffect
    <3>4. row.status = st /\ row.escrowAmount = AmountIn(escrow, s, c)
      BY <3>2, <3>3 DEF RowIs
    <3>5. Says(escrow, stake, tokens, s, c, st)
      BY <2>3, <3>2, <3>3 DEF RowsBehind, MoveFits
    <3>6. \A m \in Moves(V) : ~Concerns(m, s, c)
      BY <1>1, <2>3 DEF RowsBehind, Concerns
    <3> QED
      BY <3>4, <3>5, <3>6
  <2>4. CASE ~((ev.name = "SlotReserved" \/ ev \in Moves(W)) /\ Concerns(ev, s, c))
    <3>1. row = old
      BY <1>1, <2>4 DEF RowEffect
    <3>2. \A m \in Named(W, "SlotReserved") : ~Concerns(m, s, c)
      BY <2>4 DEF Named
    <3>3. \A m \in Moves(W) : Concerns(m, s, c) <=> m \in Moves(V) /\ Concerns(m, s, c)
      BY <1>1, <2>4
    <3> QED
      BY <1>1, <2>1, <3>1, <3>2, <3>3 DEF RowBehind
  <2> QED
    BY <2>2, <2>3, <2>4
<1> QED
  BY <1>2, <1>3 DEF RowsBehind

\* A handled log is one log less that the tables are behind.
LEMMA HandleBehind ==
  ASSUME TypeOK, OneOutcome, TablesFit(db), NEW W, Behind(db, W), NEW ev \in W, ev.name \in LogNames,
         Named(W \ {ev}, "SlotReserved") = {}, ev.name \in LonelyNames => W \ {ev} = {},
         NEW n, n = Handled(db, ev)
  PROVE  TablesFit(n) /\ Behind(n, W \ {ev})
<1>1. TablesFit(n) /\ Effect(n, db, ev)
  BY NamedRest, HandledEffect
<1>2. /\ SeasonEffect(n, db, ev) /\ TokenEffect(n, db, ev) /\ PhaseEffect(n, db, ev)
      /\ FinalistEffect(n, db, ev) /\ BlockEffect(n, db, ev) /\ WinnerEffect(n, db, ev)
      /\ TickerEffect(n, db, ev) /\ FlagEffect(n, db, ev) /\ RowEffect(n, db, ev)
  BY <1>1 DEF Effect
<1>3. /\ SeasonsBehind(db, W) /\ TokensBehind(db, W) /\ PhasesBehind(db, W) /\ FinalistsBehind(db, W)
      /\ BlocksBehind(db, W) /\ WinnersBehind(db, W) /\ TickersBehind(db, W) /\ FlagsBehind(db, W)
      /\ RowsBehind(db, W)
  BY DEF Behind
<1>4. db \in Tables /\ tokens \subseteq Tokens
  BY DEF TablesFit, TypeOK
<1>5. SeasonsBehind(n, W \ {ev}) /\ TokensBehind(n, W \ {ev})
  BY <1>2, <1>3, SeasonsFollow, TokensFollow
<1>6. PhasesBehind(n, W \ {ev}) /\ BlocksBehind(n, W \ {ev}) /\ WinnersBehind(n, W \ {ev})
  BY <1>2, <1>3, <1>4, PhasesFollow, BlocksFollow, WinnersFollow
<1>7. FinalistsBehind(n, W \ {ev})
  BY <1>2, <1>3, <1>4, FinalistsFollow
<1>8. TickersBehind(n, W \ {ev}) /\ FlagsBehind(n, W \ {ev}) /\ RowsBehind(n, W \ {ev})
  BY <1>2, <1>3, TickersFollow, FlagsFollow, RowsFollow
<1> QED
  BY <1>1, <1>5, <1>6, <1>7, <1>8 DEF Behind

\* How far the tables lag behind is a matter of the chain's state alone.
LEMMA SameChain ==
  ASSUME UNCHANGED vars, NEW d, NEW W, Behind(d, W)
  PROVE  Behind(d, W)'
<1> USE DEF vars, seasonVars, tokenVars, tickerVars, queueVars, configVars, moneyVars, historyVars
<1>1. SeasonsBehind(d, W)' /\ TokensBehind(d, W)'
  BY DEF Behind, SeasonsBehind, TokensBehind
<1>2. PhasesBehind(d, W)' /\ FinalistsBehind(d, W)'
  BY DEF Behind, PhasesBehind, FinalistsBehind
<1>3. BlocksBehind(d, W)' /\ WinnersBehind(d, W)' /\ TickersBehind(d, W)'
  BY DEF Behind, BlocksBehind, WinnersBehind, TickersBehind
<1>4. FlagsBehind(d, W)'
  BY DEF Behind, FlagsBehind
<1>5. RowsBehind(d, W)'
  BY DEF Behind, RowsBehind, RowBehind, SlotLogFits, MoveFits
<1> QED
  BY <1>1, <1>2, <1>3, <1>4, <1>5 DEF Behind

\* The indexer's next log.
LEMMA HandleStep ==
  ASSUME TypeOK, OneOutcome, IndexInv, Handle
  PROVE  IndexInv'
<1> DEFINE ev == Head(log)
           W == Waiting(log)
<1>1. log # <<>> /\ ~halted /\ ChainFits /\ TablesFit(db) /\ LogFits(log) /\ Behind(db, W)
  BY DEF Handle, IndexInv
<1>2. /\ ev \in W /\ Waiting(Tail(log)) = W \ {ev} /\ LogFits(Tail(log))
      /\ ev.name \in LogNames /\ Named(W \ {ev}, "SlotReserved") = {}
      /\ ev.name \in LonelyNames => W \ {ev} = {}
  BY <1>1, HeadOfLog
<1>3. UNCHANGED vars
  BY DEF Handle
<1>4. ChainFits'
  BY <1>1, <1>3 DEF ChainFits, WinnersFit, ListsFit, EmptySlotsFit, StakesKept, vars, seasonVars, tokenVars, tickerVars, queueVars, configVars,
                    moneyVars, historyVars, SlotOf
<1>5. CASE Clashes(db, ev)
  <2>1. ev.name \in {"TickerBlocked", "PhaseAdvanced"}
    BY <1>1, <1>2, <1>5, NoClash
  <2>2. halted' = TRUE /\ UNCHANGED <<log, db>>
    BY <1>5 DEF Handle
  <2>3. TablesFit(db)'
    BY <1>1, <2>2
  <2> QED
    BY <1>1, <1>4, <2>1, <2>2, <2>3 DEF IndexInv
<1>6. CASE ~Clashes(db, ev)
  <2>1. db' = Handled(db, ev) /\ log' = Tail(log) /\ halted' = halted
    BY <1>6 DEF Handle
  <2> HIDE DEF ev, W
  <2>2. TablesFit(db') /\ Behind(db', W \ {ev})
    BY <1>1, <1>2, <2>1, HandleBehind
  <2>3. PICK V : V = W \ {ev}
    OBVIOUS
  <2>4. Behind(db', V) /\ Waiting(log') = V /\ LogFits(log') /\ TablesFit(db)'
    BY <1>2, <2>1, <2>2, <2>3 DEF ev
  <2>5. Behind(db, Waiting(log))'
    BY <1>3, <2>4, SameChain
  <2> QED
    BY <1>1, <1>4, <2>1, <2>4, <2>5 DEF IndexInv
<1> QED
  BY <1>5, <1>6

(***************************************************************************)
(* A transaction emits its logs when none waits, so that the tables d have *)
(* caught up before it and lag behind by its logs W after it.              *)
(***************************************************************************)

\* A transaction: an indexer that was caught up is behind by the logs it emits.
LEMMA EmitStep ==
  ASSUME IndexInv, ChainFits', NEW logs, Emits(logs), NEW W, Waiting(logs) = W, LogFits(logs),
         TablesFit(db) /\ Behind(db, {}) /\ UNCHANGED db => Behind(db, W)'
  PROVE  IndexInv'
<1>1. db' = db /\ halted' = halted /\ TablesFit(db)'
  BY DEF Emits, IndexInv
<1>2. CASE halted
  <2>1. log' = log
    BY <1>2 DEF Emits
  <2> QED
    BY <1>1, <1>2, <2>1 DEF IndexInv
<1>3. CASE ~halted
  <2>1. log = <<>> /\ log' = logs /\ Waiting(log) = {}
    BY <1>3 DEF Emits, Waiting
  <2>2. TablesFit(db) /\ Behind(db, {})
    BY <1>3, <2>1 DEF IndexInv
  <2>3. Behind(db, W)'
    BY <1>1, <2>2
  <2>4. Behind(db, Waiting(log))'
    BY <2>1, <2>3
  <2> QED
    BY <1>1, <1>3, <2>1, <2>4 DEF IndexInv
<1> QED
  BY <1>2, <1>3

\* A table keeps up if nothing it mirrors changes and no log of its own is emitted.
LEMMA SeasonsKeep ==
  ASSUME NEW d, NEW W, SeasonsBehind(d, {}), UNCHANGED currentSeasonId,
         Named(W, "SeasonStarted") = {}
  PROVE  SeasonsBehind(d, W)'
  BY DEF SeasonsBehind, Named

LEMMA TokensKeep ==
  ASSUME NEW d, NEW W, TokensBehind(d, {}), UNCHANGED tokens, Named(W, "TokenLaunched") = {}
  PROVE  TokensBehind(d, W)'
  BY DEF TokensBehind, Named, LaunchedLog

LEMMA PhasesKeep ==
  ASSUME NEW d, NEW W, PhasesBehind(d, {}), UNCHANGED phaseOf, Named(W, "PhaseAdvanced") = {}
  PROVE  PhasesBehind(d, W)'
  BY DEF PhasesBehind, Named

\* Tokens of a season that is still in its launch phase are on no list.
LEMMA FinalistsKeep ==
  ASSUME NEW d, NEW W, FinalistsBehind(d, {}), UNCHANGED finalists, Named(W, "FinalistsSet") = {},
         \A t \in tokens' \ tokens : <<t.season, t>> \notin finalists
  PROVE  FinalistsBehind(d, W)'
  BY DEF FinalistsBehind, Named

LEMMA BlocksKeep ==
  ASSUME NEW d, NEW W, BlocksBehind(d, {}), UNCHANGED tickerBlocklist,
         Named(W, "TickerBlocked") = {}
  PROVE  BlocksBehind(d, W)'
  BY DEF BlocksBehind, Named

LEMMA WinnersKeep ==
  ASSUME NEW d, NEW W, WinnersBehind(d, {}), UNCHANGED winnerTickers,
         Named(W, "WinnerTickerReserved") = {}
  PROVE  WinnersBehind(d, W)'
  BY DEF WinnersBehind, Named

\* The owner's tickers are no reservations.
LEMMA TickersKeep ==
  ASSUME NEW d, NEW W, TickersBehind(d, {}), UNCHANGED aborted,
         Named(W, "SeasonAborted") = {},
         \A s \in Seasons, t \in Tickers, c \in Creators :
            seasonTickers'[s][t] = c <=> seasonTickers[s][t] = c,
         Named(W, "SlotReserved") = {}
  PROVE  TickersBehind(d, W)'
<1>1. Named({}, "SlotReserved") = {}
  BY DEF Named
<1>2. ASSUME NEW s \in Seasons, NEW t \in Tickers, NEW c \in Creators
      PROVE  Claim(s, t, c) \in d.seasonTicker <=> seasonTickers[s][t] = c /\ s \notin aborted
  BY <1>1 DEF TickersBehind, Named
<1> QED
  BY <1>1, <1>2 DEF TickersBehind

LEMMA FlagsKeep ==
  ASSUME NEW d, NEW W, FlagsBehind(d, {}), UNCHANGED <<activated, aborted>>,
         Named(W, "SeasonActivated") = {}, Named(W, "SeasonAborted") = {}
  PROVE  FlagsBehind(d, W)'
  BY DEF FlagsBehind, Named

\* A deposit whose slot, credit and stake stay as they are.
LEMMA RowsKeep ==
  ASSUME NEW d, NEW W, RowsBehind(d, {}), Named(W, "SlotReserved") = {}, Moves(W) = {},
         \A ev \in W : ev.name \in MoveNames => ev.name = "TokenLaunched",
         \A s \in Seasons, c \in Creators :
            /\ AmountIn(escrow', s, c) = AmountIn(escrow, s, c)
            /\ \A st : Says(escrow, stake, tokens, s, c, st)
                  => Says(escrow', stake', tokens', s, c, st)
  PROVE  RowsBehind(d, W)'
<1> SUFFICES ASSUME NEW s \in Seasons, NEW c \in Creators
             PROVE  RowBehind(d.reservation[<<s, c>>], W, s, c)'
  BY DEF RowsBehind
<1>1. RowBehind(d.reservation[<<s, c>>], {}, s, c)
  BY DEF RowsBehind
<1>2. /\ d.reservation[<<s, c>>].escrowAmount = AmountIn(escrow, s, c)
      /\ Says(escrow, stake, tokens, s, c, d.reservation[<<s, c>>].status)
  BY <1>1 DEF RowBehind, Named, Moves
<1> QED
  BY <1>2 DEF RowBehind

\* Logs that are told of in one table.
OneTableNames ==
    {"SeasonStarted", "PhaseAdvanced", "FinalistsSet", "TickerBlocked", "WinnerTickerReserved"}

\* Transactions about no deposit and no token.
LEMMA CoreKeeps ==
  ASSUME NEW d, NEW W, Behind(d, {}), \A ev \in W : ev.name \in OneTableNames,
         UNCHANGED <<tokens, seasonTickers, activated, aborted, escrow, stake>>
  PROVE  /\ TokensBehind(d, W)' /\ TickersBehind(d, W)' /\ FlagsBehind(d, W)'
         /\ RowsBehind(d, W)'
<1>1. /\ Named(W, "TokenLaunched") = {} /\ Named(W, "SlotReserved") = {}
      /\ Named(W, "SeasonActivated") = {} /\ Named(W, "SeasonAborted") = {}
      /\ Moves(W) = {} /\ \A ev \in W : ev.name \notin MoveNames
  BY DEF Named, Moves, MoveNames, OneTableNames
<1>2. TokensBehind(d, W)' /\ TickersBehind(d, W)' /\ FlagsBehind(d, W)'
  BY <1>1, TokensKeep, TickersKeep, FlagsKeep DEF Behind
<1>3. RowsBehind(d, W)'
  BY <1>1, RowsKeep DEF Behind
<1> QED
  BY <1>2, <1>3

\* setLaunchConfig, pause, unpause and the passing of time.
LEMMA QuietBehind ==
  ASSUME NEW d, Behind(d, {}),
         UNCHANGED <<currentSeasonId, phaseOf, tokenVars, tickerVars, activated, aborted, escrow, stake>>
  PROVE  Behind(d, {})'
<1>0. \A n : Named({}, n) = {}
  BY DEF Named
<1>1. UNCHANGED <<currentSeasonId, phaseOf, tokens, finalists, seasonTickers, winnerTickers,
                  tickerBlocklist, activated, aborted, escrow, stake>>
  BY DEF tokenVars, tickerVars
<1>2. /\ TokensBehind(d, {})' /\ TickersBehind(d, {})' /\ FlagsBehind(d, {})' /\ RowsBehind(d, {})'
  BY <1>1, CoreKeeps
<1>3. SeasonsBehind(d, {})' /\ PhasesBehind(d, {})' /\ FinalistsBehind(d, {})'
  BY <1>0, <1>1, SeasonsKeep, PhasesKeep, FinalistsKeep DEF Behind
<1>4. BlocksBehind(d, {})' /\ WinnersBehind(d, {})'
  BY <1>0, <1>1, BlocksKeep, WinnersKeep DEF Behind
<1> QED
  BY <1>2, <1>3, <1>4 DEF Behind

\* The transactions with one log and no deposit, one after the other.
LEMMA BlockBehind ==
  ASSUME TypeOK, NEW d, Behind(d, {}), NEW k \in Tickers, AddTickerToBlocklist(k),
         NEW ev, ev = [name |-> "TickerBlocked", ticker |-> k], NEW W, W = {ev}
  PROVE  Behind(d, W)'
<1>1. /\ UNCHANGED <<currentSeasonId, phaseOf, tokens, finalists, seasonTickers, winnerTickers,
                     activated, aborted, escrow, stake>>
      /\ tickerBlocklist' = tickerBlocklist \cup {k}
  BY DEF AddTickerToBlocklist, seasonVars, tokenVars, queueVars, moneyVars
<1>2. ev.name = "TickerBlocked" /\ ev.ticker = k
  OBVIOUS
<1>3. \A n : n # "TickerBlocked" => Named(W, n) = {}
  BY <1>2 DEF Named
<1>4. \A m \in W : m.name \in OneTableNames
  BY <1>2 DEF OneTableNames
<1>5. TokensBehind(d, W)' /\ TickersBehind(d, W)' /\ FlagsBehind(d, W)' /\ RowsBehind(d, W)'
  BY <1>1, <1>4, CoreKeeps
<1>6. SeasonsBehind(d, W)' /\ PhasesBehind(d, W)'
  BY <1>1, <1>3, SeasonsKeep, PhasesKeep DEF Behind
<1>6a. FinalistsBehind(d, W)' /\ WinnersBehind(d, W)'
  BY <1>1, <1>3, FinalistsKeep, WinnersKeep DEF Behind
<1>7. BlocksBehind(d, W)'
  <2>1. Named(W, "TickerBlocked") = {ev} /\ Named({}, "TickerBlocked") = {}
    BY <1>2 DEF Named
  <2>2. BlocksBehind(d, {})
    BY DEF Behind
  <2> QED
    BY <1>1, <1>2, <2>1, <2>2 DEF BlocksBehind
<1> QED
  BY <1>5, <1>6, <1>6a, <1>7 DEF Behind

LEMMA StartBehind ==
  ASSUME TypeOK, NEW d, TablesFit(d), Behind(d, {}), StartSeason,
         NEW ev, ev.name = "SeasonStarted", ev.season = currentSeasonId', NEW W, W = {ev}
  PROVE  Behind(d, W)'
<1>1. /\ UNCHANGED <<phaseOf, tokens, finalists, seasonTickers, winnerTickers, tickerBlocklist,
                     activated, aborted, escrow, stake>>
      /\ currentSeasonId' = currentSeasonId + 1 /\ currentSeasonId + 1 \in Seasons
  BY DEF StartSeason, tokenVars, tickerVars, queueVars, moneyVars
<1>3. \A n : n # "SeasonStarted" => Named(W, n) = {}
  BY DEF Named
<1>4. \A m \in W : m.name \in OneTableNames
  BY DEF OneTableNames
<1>5. TokensBehind(d, W)' /\ TickersBehind(d, W)' /\ FlagsBehind(d, W)' /\ RowsBehind(d, W)'
  BY <1>1, <1>4, CoreKeeps
<1>6. BlocksBehind(d, W)' /\ PhasesBehind(d, W)'
  BY <1>1, <1>3, BlocksKeep, PhasesKeep DEF Behind
<1>6a. FinalistsBehind(d, W)' /\ WinnersBehind(d, W)'
  BY <1>1, <1>3, FinalistsKeep, WinnersKeep DEF Behind
<1>7. SeasonsBehind(d, W)'
  <2>1. Named(W, "SeasonStarted") = {ev} /\ Named({}, "SeasonStarted") = {}
    BY DEF Named
  <2>2. \A s \in Seasons : s <= currentSeasonId <=> s \in d.season
    BY <2>1 DEF Behind, SeasonsBehind
  <2>3. \A s \in Seasons : s \in Nat
    BY LauncherConstants, EscrowConstants, FS_CardinalityType
  <2>4. currentSeasonId \in Nat
    BY DEF TypeOK
  <2>5. \A s \in Seasons : s <= currentSeasonId + 1 <=> s <= currentSeasonId \/ s = currentSeasonId + 1
    BY <2>3, <2>4
  <2>6. ~(currentSeasonId + 1 <= currentSeasonId)
    BY <2>4
  <2> QED
    BY <1>1, <2>1, <2>2, <2>5, <2>6 DEF SeasonsBehind
<1> QED
  BY <1>5, <1>6, <1>6a, <1>7 DEF Behind

LEMMA PhaseBehind ==
  ASSUME TypeOK, NEW d, Behind(d, {}), NEW s \in Seasons, AdvancePhase(s), NEW ev,
         ev.name = "PhaseAdvanced", ev.season = s, ev.newPhase = phaseOf'[s], ev.logIndex \in LogIndexes,
         NEW W, W = {ev}
  PROVE  Behind(d, W)'
<1>1. /\ UNCHANGED <<currentSeasonId, tokens, finalists, seasonTickers, winnerTickers,
                     tickerBlocklist, activated, aborted, escrow, stake>>
      /\ \A r \in Seasons : r # s => phaseOf'[r] = phaseOf[r]
  BY DEF AdvancePhase, tokenVars, tickerVars, queueVars, moneyVars, TypeOK
<1>3. \A n : n # "PhaseAdvanced" => Named(W, n) = {}
  BY DEF Named
<1>4. \A m \in W : m.name \in OneTableNames
  BY DEF OneTableNames
<1>5. TokensBehind(d, W)' /\ TickersBehind(d, W)' /\ FlagsBehind(d, W)' /\ RowsBehind(d, W)'
  BY <1>1, <1>4, CoreKeeps
<1>6. BlocksBehind(d, W)' /\ SeasonsBehind(d, W)'
  BY <1>1, <1>3, BlocksKeep, SeasonsKeep DEF Behind
<1>6a. FinalistsBehind(d, W)' /\ WinnersBehind(d, W)'
  BY <1>1, <1>3, FinalistsKeep, WinnersKeep DEF Behind
<1>7. PhasesBehind(d, W)'
  <2>1. Named(W, "PhaseAdvanced") = {ev} /\ Named({}, "PhaseAdvanced") = {}
    BY DEF Named
  <2>2. \A r \in Seasons : d.phase[r] = phaseOf[r]
    BY <2>1 DEF Behind, PhasesBehind
  <2> QED
    BY <1>1, <2>1, <2>2 DEF PhasesBehind
<1> QED
  BY <1>5, <1>6, <1>6a, <1>7 DEF Behind

LEMMA ListBehind ==
  ASSUME TypeOK, NEW d, Behind(d, {}), NEW s \in Seasons, NEW list \in FinalistLists,
         SetFinalists(s, list), NEW ev,
         ev.name = "FinalistsSet", ev.season = s, ev.list = list,
         ev.entries = FinalistEntries(s), NEW W, W = {ev}
  PROVE  Behind(d, W)'
<1>1. /\ UNCHANGED <<currentSeasonId, phaseOf, tokens, seasonTickers, winnerTickers,
                     tickerBlocklist, activated, aborted, escrow, stake>>
      /\ finalists' = finalists \cup ({s} \X list) /\ list \subseteq Tokens
  BY LauncherConstants DEF SetFinalists, seasonVars, tickerVars, queueVars, moneyVars
<1>3. \A n : n # "FinalistsSet" => Named(W, n) = {}
  BY DEF Named
<1>4. \A m \in W : m.name \in OneTableNames
  BY DEF OneTableNames
<1>5. TokensBehind(d, W)' /\ TickersBehind(d, W)' /\ FlagsBehind(d, W)' /\ RowsBehind(d, W)'
  BY <1>1, <1>4, CoreKeeps
<1>6. BlocksBehind(d, W)' /\ SeasonsBehind(d, W)'
  BY <1>1, <1>3, BlocksKeep, SeasonsKeep DEF Behind
<1>6a. PhasesBehind(d, W)' /\ WinnersBehind(d, W)'
  BY <1>1, <1>3, PhasesKeep, WinnersKeep DEF Behind
<1>7. FinalistsBehind(d, W)'
  <2>1. Named(W, "FinalistsSet") = {ev} /\ Named({}, "FinalistsSet") = {}
    BY DEF Named
  <2>2. /\ d.isFinalist \subseteq d.token
        /\ \A t \in d.isFinalist : \E r \in Seasons : <<r, t>> \in finalists
        /\ \A t \in tokens : <<t.season, t>> \in finalists => t \in d.isFinalist \cup d.unread
    BY <2>1 DEF Behind, FinalistsBehind
  <2>3. \A r, t : <<r, t>> \in finalists' <=> <<r, t>> \in finalists \/ (r = s /\ t \in list)
    BY <1>1
  <2>4. list \subseteq ev.entries
    BY <1>1, <2>3 DEF FinalistEntries
  <2> QED
    BY <1>1, <2>1, <2>2, <2>3, <2>4 DEF FinalistsBehind, FinalistEntries
<1> QED
  BY <1>5, <1>6, <1>6a, <1>7 DEF Behind

\* The ticker is no other season's: only a settled season has a winner.
LEMMA WinnerBehind ==
  ASSUME TypeOK, ChainFits, NEW d, TablesFit(d), Behind(d, {}), NEW s \in Seasons, NEW t \in tokens,
         SetWinnerTicker(s, t), NEW ev, ev.name = "WinnerTickerReserved", ev.token = t,
         NEW W, W = {ev}
  PROVE  Behind(d, W)'
<1>1. /\ UNCHANGED <<currentSeasonId, phaseOf, tokens, finalists, seasonTickers,
                     tickerBlocklist, activated, aborted, escrow, stake>>
      /\ winnerTickers' = [winnerTickers EXCEPT ![t.ticker] = t]
      /\ s \notin settled /\ t.season = s /\ winnerTickers[t.ticker] \in {NoToken, t}
      /\ t \in Tokens /\ t.ticker \in Tickers
  BY DEF SetWinnerTicker, CanSetWinnerTicker, seasonVars, tokenVars, queueVars, moneyVars, TypeOK, Tokens
<1>2. winnerTickers[t.ticker] = NoToken /\ NoToken \notin Tokens
  BY <1>1, LauncherConstants DEF ChainFits, WinnersFit
<1>3. \A n : n # "WinnerTickerReserved" => Named(W, n) = {}
  BY DEF Named
<1>4. \A m \in W : m.name \in OneTableNames
  BY DEF OneTableNames
<1>5. TokensBehind(d, W)' /\ TickersBehind(d, W)' /\ FlagsBehind(d, W)' /\ RowsBehind(d, W)'
  BY <1>1, <1>4, CoreKeeps
<1>6. BlocksBehind(d, W)' /\ SeasonsBehind(d, W)'
  BY <1>1, <1>3, BlocksKeep, SeasonsKeep DEF Behind
<1>6a. PhasesBehind(d, W)' /\ FinalistsBehind(d, W)'
  BY <1>1, <1>3, PhasesKeep, FinalistsKeep DEF Behind
<1>7. WinnersBehind(d, W)'
  <2>1. Named(W, "WinnerTickerReserved") = {ev} /\ Named({}, "WinnerTickerReserved") = {}
    BY DEF Named
  <2>2. \A u \in Tokens : winnerTickers[u.ticker] = u <=> u \in d.winnerTicker
    BY <2>1 DEF Behind, WinnersBehind
  <2>3. d.winnerTicker \subseteq Tokens
    BY DEF TablesFit, Tables
  <2>4. \A u \in Tokens : winnerTickers'[u.ticker] = u <=> winnerTickers[u.ticker] = u \/ u = t
    <3>1. DOMAIN winnerTickers = Tickers /\ \A u \in Tokens : u.ticker \in Tickers
      BY DEF TypeOK, Tokens
    <3>2. \A k \in Tickers : winnerTickers'[k] = IF k = t.ticker THEN t ELSE winnerTickers[k]
      BY <1>1, <3>1
    <3> QED
      BY <1>1, <1>2, <3>1, <3>2
  <2>5. \A u \in d.winnerTicker : u.ticker # t.ticker
    BY <1>2, <2>2, <2>3
  <2> QED
    BY <1>1, <2>1, <2>2, <2>4, <2>5 DEF WinnersBehind
<1> QED
  BY <1>5, <1>6, <1>6a, <1>7 DEF Behind

(***************************************************************************)
(* Transactions about deposits                                             *)
(***************************************************************************)

\* A step deploys the tokens D of season s, with fresh records.
Deploys(D, s) ==
    /\ D \subseteq Tokens /\ D \cap tokens = {} /\ tokens' = tokens \cup D
    /\ \A t \in D :
          /\ t.season = s /\ t.creator \in Creators
          /\ ~stake'.launchInfo[t].refunded /\ ~stake'.launchInfo[t].filteredEarly
          /\ refundableStakeEnabled => stake'.launchInfo[t].stakeAmount = stake'.launchInfo[t].costPaid
    /\ \A t \in Tokens \ D : stake'.launchInfo[t] = stake.launchInfo[t]
    /\ \A t, u \in D : t.creator = u.creator => t = u

\* The escrow storage f is e with the slots of the tokens D released.
ReleasedFor(f, e, D, s) ==
    /\ \A r \in Seasons, k \in Creators :
          /\ SlotOf(f, r, k).reserved <=> SlotOf(e, r, k).reserved
          /\ SlotOf(f, r, k).amount = SlotOf(e, r, k).amount
          /\ SlotOf(f, r, k).refunded <=> SlotOf(e, r, k).refunded
          /\ SlotOf(f, r, k).released <=>
                SlotOf(e, r, k).released \/ (r = s /\ \E t \in D : t.creator = k)
    /\ f.pendingRefunds = e.pendingRefunds

\* _deployToken for the entries of a queue.
LEMMA DeployFacts ==
  ASSUME NEW e \in EscrowState, tokens \subseteq Tokens, NEW s \in Seasons,
         NEW prs \in SUBSET PendingReservation, \A p, q \in prs : p.creator = q.creator => p = q,
         TokensFit(tokens, e), DeployTokens(s, prs, e)
  PROVE  \E D : /\ Deploys(D, s) /\ ReleasedFor(escrow', e, D, s)
                /\ \A k : (\E t \in D : t.creator = k) <=> \E pr \in prs : pr.creator = k
                /\ \A t \in D : Live(SlotOf(e, s, t.creator))
<1> DEFINE D == {TokenOf(s, pr) : pr \in prs}
           C == {pr.creator : pr \in prs}
           cost == [t \in D |-> e.escrows[<<s, t.creator>>].amount]
           slotOf == [t \in D |-> (CHOOSE pr \in prs : TokenOf(s, pr) = t).slotIndex]
<1>1. /\ CanRelease(e, s, C) /\ escrow' = Released(e, s, C)
      /\ tokens' = tokens \cup D
      /\ stake' = LaunchesRecorded(stake, cost, slotOf, refundableStakeEnabled)
  BY DEF DeployTokens
<1>2. C \in SUBSET Creators
  BY DEF PendingReservation
<1>3. \A t \in D : t \in Tokens /\ t.creator \in C /\ t.season = s /\ ~IsProtocolLaunched(t)
  BY <1>2, TokenConstants DEF PendingReservation, TokenOf, Tokens, IsProtocolLaunched
<1>4. \A k : (\E t \in D : t.creator = k) <=> \E pr \in prs : pr.creator = k
  BY TokenOfFields
<1>5. \A t \in D : Live(SlotOf(e, s, t.creator))
  BY <1>1, <1>3 DEF CanRelease, SlotOf
<1>6. D \cap tokens = {}
  BY <1>3, <1>5 DEF TokensFit, Community, Live
<1>7. \A t, u \in D : t.creator = u.creator => t = u
  <2> SUFFICES ASSUME NEW p \in prs, NEW q \in prs, TokenOf(s, p).creator = TokenOf(s, q).creator
               PROVE  TokenOf(s, p) = TokenOf(s, q)
    OBVIOUS
  <2> QED
    BY TokenOfFields
<1>8. /\ \A t \in D : /\ ~stake'.launchInfo[t].refunded /\ ~stake'.launchInfo[t].filteredEarly
                      /\ refundableStakeEnabled =>
                            stake'.launchInfo[t].stakeAmount = stake'.launchInfo[t].costPaid
      /\ \A t \in Tokens \ D : stake'.launchInfo[t] = stake.launchInfo[t]
  <2> DEFINE infoOf(t) == [slotIndex |-> slotOf[t], costPaid |-> cost[t],
                           stakeAmount |-> IF refundableStakeEnabled THEN cost[t] ELSE 0,
                           refunded |-> FALSE, filteredEarly |-> FALSE]
  <2>1. stake'.launchInfo = [t \in Tokens |-> IF t \in DOMAIN cost THEN infoOf(t)
                                              ELSE stake.launchInfo[t]]
    BY <1>1, Zenon DEF LaunchesRecorded
  <2>2. DOMAIN cost = D
    OBVIOUS
  <2> HIDE DEF D, cost, slotOf
  <2>3. ASSUME NEW t \in D
        PROVE  /\ ~stake'.launchInfo[t].refunded /\ ~stake'.launchInfo[t].filteredEarly
               /\ refundableStakeEnabled =>
                     stake'.launchInfo[t].stakeAmount = stake'.launchInfo[t].costPaid
    <3>1. stake'.launchInfo[t] = infoOf(t)
      BY <1>3, <2>1, <2>2
    <3>2. /\ infoOf(t).refunded = FALSE /\ infoOf(t).filteredEarly = FALSE
          /\ refundableStakeEnabled => infoOf(t).stakeAmount = infoOf(t).costPaid
      OBVIOUS
    <3> HIDE DEF infoOf
    <3> QED
      BY <3>1, <3>2
  <2>4. \A t \in Tokens \ D : stake'.launchInfo[t] = stake.launchInfo[t]
    BY <2>1, <2>2
  <2> QED
    BY <2>3, <2>4
<1>9. ReleasedFor(escrow', e, D, s)
  <2>1. escrow'.escrows = Marked(e, {s} \X C, {}) /\ escrow'.pendingRefunds = e.pendingRefunds
    BY <1>1 DEF Released
  <2>2. \A k : k \in C <=> \E t \in D : t.creator = k
    BY <1>4
  <2> HIDE DEF C, D
  <2>3. ASSUME NEW r \in Seasons, NEW k \in Creators
        PROVE  /\ SlotOf(escrow', r, k).reserved <=> SlotOf(e, r, k).reserved
               /\ SlotOf(escrow', r, k).amount = SlotOf(e, r, k).amount
               /\ SlotOf(escrow', r, k).refunded <=> SlotOf(e, r, k).refunded
               /\ SlotOf(escrow', r, k).released <=>
                     SlotOf(e, r, k).released \/ (r = s /\ k \in C)
    <3>1. <<r, k>> \in Deposits /\ (<<r, k>> \in {s} \X C <=> r = s /\ k \in C)
      BY DEF Deposits
    <3> QED
      BY <2>1, <3>1, MarkedFields DEF SlotOf
  <2> QED
    BY <2>1, <2>2, <2>3 DEF ReleasedFor
<1>10. Deploys(D, s)
  <2> HIDE DEF D
  <2> QED
    BY <1>1, <1>2, <1>3, <1>6, <1>7, <1>8 DEF Deploys
<1> QED
  BY <1>4, <1>5, <1>9, <1>10

\* A reservation of c: the escrow storage held has the new slot and nothing else,
\* from which the step deploys the tokens D, none, the new slot's or the whole queue's.
ReservedNow(held, s, c, D) ==
    /\ SlotOf(held, s, c).reserved /\ ~SlotOf(held, s, c).released /\ ~SlotOf(held, s, c).refunded
    /\ \A r \in Seasons, k \in Creators : r # s \/ k # c => SlotOf(held, r, k) = SlotOf(escrow, r, k)
    /\ held.pendingRefunds = escrow.pendingRefunds
    /\ Deploys(D, s) /\ ReleasedFor(escrow', held, D, s)
    /\ \A t \in D : Live(SlotOf(held, s, t.creator))
    /\ \/ D = {} /\ activated' = activated
       \/ /\ s \in activated /\ activated' = activated
          /\ \A k : (\E t \in D : t.creator = k) <=> k = c
       \/ /\ s \notin activated /\ activated' = activated \cup {s}
          /\ \A k : (\E t \in D : t.creator = k) <=> k \in Reservers(escrow', s)

\* reserve: a slot of an open season, and perhaps deployments.
LEMMA ReserveFacts ==
  ASSUME SafeInv, BooksInv, NEW c \in Creators, NEW t \in Tickers, Reserve(c, t),
         NEW s, s = currentSeasonId
  PROVE  /\ s \in Seasons /\ phaseOf[s] = Launch /\ s \notin aborted
         /\ ~SlotOf(escrow, s, c).reserved /\ seasonTickers[s][t] = NoOne
         /\ seasonTickers' = [seasonTickers EXCEPT ![s][t] = c]
         /\ UNCHANGED <<currentSeasonId, phaseOf, finalists, winnerTickers, tickerBlocklist, aborted,
                        refundableStakeEnabled, settled>>
         /\ \E held, D : ReservedNow(held, s, c, D)
<1> DEFINE count == ReservationCountOf(escrow, s)
           pr == [creator |-> c, ticker |-> t, slotIndex |-> count]
           held == Reserved(escrow, s, c, count, SlotCost(count))
<1>1. /\ escrow \in EscrowState /\ stake \in StakeState /\ tokens \subseteq Tokens
      /\ pending \in [Seasons -> SUBSET PendingReservation] /\ AllOrNothing(escrow)
      /\ activated \subseteq Seasons
  BY DEF SafeInv, TypeOK, EscrowTypeOK, OneOutcome
<1>2. /\ s \in Seasons /\ count < MaxLaunches /\ ~SlotOf(escrow, s, c).reserved
      /\ phaseOf[s] = Launch /\ s \notin aborted /\ seasonTickers[s][t] = NoOne
      /\ seasonTickers' = [seasonTickers EXCEPT ![s][t] = c]
      /\ UNCHANGED <<currentSeasonId, phaseOf, finalists, winnerTickers, tickerBlocklist, aborted,
                     refundableStakeEnabled, settled>>
  BY DEF Reserve, Started, CanReserveSlot, CanReserve, SlotOf, seasonVars, configVars, historyVars
<1>3. count \in Nat /\ SlotCost(count) \in Nat
  BY CountType, CostType DEF SafeInv, TypeOK
<1>4. \/ /\ s \in activated /\ DeployTokens(s, {pr}, held)
         /\ UNCHANGED <<pending, activated>>
      \/ /\ s \notin activated
         /\ activated' = activated \cup {s}
         /\ DeployTokens(s, pending[s] \cup {pr}, held)
      \/ /\ s \notin activated
         /\ escrow' = held
         /\ UNCHANGED <<tokens, activated, stake>>
  BY DEF Reserve
<1>5. pr \in PendingReservation /\ pr.creator = c
  BY <1>3 DEF PendingReservation
<1>6. SlotsNumbered(escrow) /\ QueueFits(pending, escrow, activated) /\ TokensFit(tokens, escrow)
  BY DEF BooksInv
<1>7. held \in EscrowState /\ held.pendingRefunds = escrow.pendingRefunds
  <2>1. EscrowOK(escrow) /\ CanReserve(escrow, s, c)
    BY InvEscrowOK DEF Reserve, CanReserveSlot
  <2>2. EscrowOK(held)
    BY <1>2, <1>3, <2>1, ReservedOK
  <2> QED
    BY <2>2 DEF EscrowOK, Reserved
<1>8. /\ SlotOf(held, s, c) = [reserved |-> TRUE, amount |-> SlotCost(count),
                               slotIndex |-> count, released |-> FALSE, refunded |-> FALSE]
      /\ \A r \in Seasons, k \in Creators : r # s \/ k # c => SlotOf(held, r, k) = SlotOf(escrow, r, k)
      /\ \A r \in Seasons, k \in Creators : SlotOf(held, r, k).released = SlotOf(escrow, r, k).released
      /\ Reservers(held, s) = Reservers(escrow, s) \cup {c}
  BY <1>1, <1>2, <1>3, <1>6, HeldSlots
<1>9. TokensFit(tokens, held)
  <2>1. \A r \in Seasons : \A u \in Community(tokens, r) : u.creator \in Creators
    BY <1>1 DEF Community, Tokens, IsProtocolLaunched
  <2> QED
    BY <1>6, <1>8, <2>1 DEF TokensFit
<1> HIDE DEF held, count
<1>10. /\ SlotOf(held, s, c).reserved /\ ~SlotOf(held, s, c).released /\ ~SlotOf(held, s, c).refunded
  BY <1>8
<1>11. ASSUME NEW prs \in SUBSET PendingReservation, \A p, q \in prs : p.creator = q.creator => p = q,
              DeployTokens(s, prs, held)
       PROVE  \E D : /\ Deploys(D, s) /\ ReleasedFor(escrow', held, D, s)
                     /\ \A k : (\E u \in D : u.creator = k) <=> \E p \in prs : p.creator = k
                     /\ \A u \in D : Live(SlotOf(held, s, u.creator))
  BY <1>1, <1>2, <1>7, <1>9, <1>11, DeployFacts
<1>12. CASE s \in activated /\ DeployTokens(s, {pr}, held) /\ activated' = activated
  <2>1. PICK D : /\ Deploys(D, s) /\ ReleasedFor(escrow', held, D, s)
                 /\ \A k : (\E u \in D : u.creator = k) <=> \E p \in {pr} : p.creator = k
                 /\ \A u \in D : Live(SlotOf(held, s, u.creator))
    BY <1>5, <1>11, <1>12
  <2>2. ReservedNow(held, s, c, D)
    BY <1>5, <1>7, <1>8, <1>10, <1>12, <2>1 DEF ReservedNow
  <2> QED
    BY <1>2, <2>2
<1>13. CASE /\ s \notin activated /\ activated' = activated \cup {s}
            /\ DeployTokens(s, pending[s] \cup {pr}, held)
  <2> DEFINE prs == pending[s] \cup {pr}
  <2>1. /\ \A k \in Reservers(escrow, s) : \E p \in pending[s] : p.creator = k
        /\ \A p \in pending[s] : SlotOf(escrow, s, p.creator).reserved /\ p.creator \in Creators
        /\ \A p, q \in pending[s] : p.creator = q.creator => p = q
    BY <1>1, <1>2, <1>6, <1>13 DEF QueueFits, PendingReservation
  <2>2. prs \in SUBSET PendingReservation /\ \A p, q \in prs : p.creator = q.creator => p = q
    BY <1>1, <1>2, <1>5, <2>1
  <2>3. \A k : (\E p \in prs : p.creator = k) <=> k \in Reservers(held, s)
    BY <1>5, <1>8, <2>1 DEF Reservers, SlotOf
  <2> HIDE DEF prs
  <2>4. PICK D : /\ Deploys(D, s) /\ ReleasedFor(escrow', held, D, s)
                 /\ \A k : (\E u \in D : u.creator = k) <=> \E p \in prs : p.creator = k
                 /\ \A u \in D : Live(SlotOf(held, s, u.creator))
    BY <1>11, <1>13, <2>2 DEF prs
  <2>5. Reservers(escrow', s) = Reservers(held, s)
    BY <1>2, <2>4 DEF ReleasedFor, Reservers, SlotOf
  <2>6. ReservedNow(held, s, c, D)
    BY <1>7, <1>8, <1>10, <1>13, <2>3, <2>4, <2>5 DEF ReservedNow
  <2> QED
    BY <1>2, <2>6
<1>14. CASE s \notin activated /\ escrow' = held /\ UNCHANGED <<tokens, activated, stake>>
  <2>1. Deploys({}, s) /\ ReleasedFor(escrow', held, {}, s)
    BY <1>14 DEF Deploys, ReleasedFor
  <2>2. ReservedNow(held, s, c, {})
    BY <1>7, <1>8, <1>10, <1>14, <2>1 DEF ReservedNow
  <2> QED
    BY <1>2, <2>2
<1> QED
  BY <1>4, <1>12, <1>13, <1>14

\* abortSeason: every slot of the season is refunded, and credited or not.
LEMMA AbortFacts ==
  ASSUME SafeInv, NEW s \in Seasons, NEW rejecting \in SUBSET Creators, AbortSeason(s, rejecting)
  PROVE  /\ s \notin activated /\ s \notin aborted /\ aborted' = aborted \cup {s}
         /\ UNCHANGED <<currentSeasonId, phaseOf, tokens, finalists, seasonTickers, winnerTickers,
                        tickerBlocklist, activated, stake, refundableStakeEnabled, settled>>
         /\ \A r \in Seasons, k \in Creators :
               /\ SlotOf(escrow', r, k).reserved <=> SlotOf(escrow, r, k).reserved
               /\ SlotOf(escrow', r, k).amount = SlotOf(escrow, r, k).amount
               /\ SlotOf(escrow', r, k).released <=> SlotOf(escrow, r, k).released
               /\ r # s => /\ SlotOf(escrow', r, k).refunded <=> SlotOf(escrow, r, k).refunded
                           /\ escrow'.pendingRefunds[<<r, k>>] = escrow.pendingRefunds[<<r, k>>]
         /\ \A k \in Creators :
               /\ SlotOf(escrow, s, k).reserved =>
                     Live(SlotOf(escrow, s, k)) /\ SlotOf(escrow', s, k).refunded
               /\ ~SlotOf(escrow, s, k).reserved => ~SlotOf(escrow', s, k).refunded
               /\ escrow'.pendingRefunds[<<s, k>>] \in Nat
               /\ escrow'.pendingRefunds[<<s, k>>] > 0 =>
                     escrow'.pendingRefunds[<<s, k>>] = SlotOf(escrow, s, k).amount
<1> DEFINE L == {s} \X LiveCreators(escrow, s)
<1>1. /\ escrow \in EscrowState /\ AllOrNothing(escrow)
      /\ activated = escrow.activated /\ aborted = escrow.aborted
  BY DEF SafeInv, TypeOK, EscrowTypeOK, OneOutcome
<1>2. /\ s \notin activated /\ s \notin aborted /\ aborted' = aborted \cup {s}
      /\ UNCHANGED <<currentSeasonId, phaseOf, tokens, finalists, seasonTickers, winnerTickers,
                     tickerBlocklist, activated, stake, refundableStakeEnabled, settled>>
      /\ escrow' = RefundedAll(escrow, s, rejecting)
  BY DEF AbortSeason, CanAbortSeason, seasonVars, tokenVars, tickerVars, queueVars, configVars,
         historyVars
<1>3. /\ escrow'.escrows = Marked(escrow, {}, L)
      /\ escrow'.pendingRefunds = [d \in Deposits |->
            IF d \in {s} \X Owed(escrow, s, rejecting) THEN escrow.escrows[d].amount
            ELSE escrow.pendingRefunds[d]]
  BY <1>2 DEF RefundedAll
<1>4. ASSUME NEW r \in Seasons, NEW k \in Creators
      PROVE  /\ SlotOf(escrow', r, k).reserved <=> SlotOf(escrow, r, k).reserved
             /\ SlotOf(escrow', r, k).amount = SlotOf(escrow, r, k).amount
             /\ SlotOf(escrow', r, k).released <=> SlotOf(escrow, r, k).released
             /\ SlotOf(escrow', r, k).refunded <=> SlotOf(escrow, r, k).refunded \/ <<r, k>> \in L
  <2>1. <<r, k>> \in Deposits
    BY DEF Deposits
  <2> QED
    BY <1>1, <1>3, <2>1, MarkedFields DEF SlotOf
<1>5. \A r \in Seasons, k \in Creators :
         <<r, k>> \in L <=> r = s /\ Live(SlotOf(escrow, s, k))
  BY DEF LiveCreators, SlotOf
<1>6. \A k \in Creators : ~SlotOf(escrow, s, k).released /\ ~SlotOf(escrow, s, k).refunded
                          /\ escrow.pendingRefunds[<<s, k>>] = 0
  BY <1>1, <1>2 DEF AllOrNothing, SlotOf
<1>7. \A r \in Seasons, k \in Creators : r # s =>
         escrow'.pendingRefunds[<<r, k>>] = escrow.pendingRefunds[<<r, k>>]
  BY <1>3 DEF Deposits
<1>8. ASSUME NEW k \in Creators
      PROVE  /\ escrow'.pendingRefunds[<<s, k>>] \in Nat
             /\ escrow'.pendingRefunds[<<s, k>>] > 0 =>
                   escrow'.pendingRefunds[<<s, k>>] = SlotOf(escrow, s, k).amount
  <2>1. <<s, k>> \in Deposits /\ escrow.escrows[<<s, k>>].amount \in Nat
    BY <1>1 DEF Deposits, EscrowState, Reservation
  <2>2. escrow'.pendingRefunds[<<s, k>>] \in {0, SlotOf(escrow, s, k).amount}
    BY <1>3, <1>6, <2>1 DEF SlotOf
  <2> QED
    BY <2>1, <2>2 DEF SlotOf
<1> HIDE DEF L
<1>9. \A k \in Creators :
               /\ SlotOf(escrow, s, k).reserved =>
                     Live(SlotOf(escrow, s, k)) /\ SlotOf(escrow', s, k).refunded
               /\ ~SlotOf(escrow, s, k).reserved => ~SlotOf(escrow', s, k).refunded
  BY <1>4, <1>5, <1>6 DEF Live
<1> QED
  BY <1>2, <1>4, <1>5, <1>7, <1>8, <1>9

\* claimPendingRefund: one credit is gone.
LEMMA ClaimFacts ==
  ASSUME SafeInv, NEW s \in Seasons, NEW c \in Creators, ClaimPendingRefund(s, c)
  PROVE  /\ UNCHANGED <<currentSeasonId, phaseOf, tokens, finalists, seasonTickers, winnerTickers,
                        tickerBlocklist, activated, aborted, stake, refundableStakeEnabled, settled>>
         /\ \A r \in Seasons, k \in Creators : SlotOf(escrow', r, k) = SlotOf(escrow, r, k)
         /\ escrow'.pendingRefunds = [escrow.pendingRefunds EXCEPT ![<<s, c>>] = 0]
         /\ escrow.pendingRefunds \in [Deposits -> Nat] /\ <<s, c>> \in Deposits
         /\ escrow.pendingRefunds[<<s, c>>] > 0
         /\ escrow.pendingRefunds[<<s, c>>] = SlotOf(escrow, s, c).amount
         /\ SlotOf(escrow, s, c).refunded
<1>1. escrow \in EscrowState /\ AllOrNothing(escrow)
  BY DEF SafeInv, TypeOK, EscrowTypeOK, OneOutcome
<1>2. /\ UNCHANGED <<currentSeasonId, phaseOf, tokens, finalists, seasonTickers, winnerTickers,
                     tickerBlocklist, activated, aborted, stake, refundableStakeEnabled, settled>>
      /\ escrow.pendingRefunds[<<s, c>>] > 0
      /\ escrow' = PendingRefundClaimed(escrow, s, c)
  BY DEF ClaimPendingRefund, EscrowClaim, CanClaimPendingRefund, seasonVars, tokenVars, tickerVars,
         queueVars, configVars, historyVars
<1>3. /\ escrow'.escrows = escrow.escrows
      /\ escrow'.pendingRefunds = [escrow.pendingRefunds EXCEPT ![<<s, c>>] = 0]
  BY <1>2 DEF PendingRefundClaimed
<1>4. escrow.pendingRefunds \in [Deposits -> Nat] /\ <<s, c>> \in Deposits
  BY <1>1 DEF EscrowState, Deposits
<1>5. escrow.pendingRefunds[<<s, c>>] = SlotOf(escrow, s, c).amount /\ SlotOf(escrow, s, c).refunded
  <2>1. escrow.pendingRefunds[<<s, c>>] # 0
    BY <1>2, <1>4
  <2> QED
    BY <1>1, <2>1 DEF AllOrNothing, SlotOf
<1>6. \A r \in Seasons, k \in Creators : SlotOf(escrow', r, k) = SlotOf(escrow, r, k)
  BY <1>3 DEF SlotOf
<1> QED
  BY <1>2, <1>3, <1>4, <1>5, <1>6

\* applySoftFilter: each token of the batch was unresolved and gets one mark.
LEMMA FilterFacts ==
  ASSUME SafeInv, NEW s \in Seasons, NEW S \in SUBSET CommunityTokens(s),
         NEW F \in SUBSET CommunityTokens(s), ApplySoftFilter(s, S, F)
  PROVE  /\ UNCHANGED <<currentSeasonId, phaseOf, tokens, finalists, seasonTickers, winnerTickers,
                        tickerBlocklist, activated, aborted, escrow, refundableStakeEnabled, settled>>
         /\ phaseOf[s] # Launch /\ S \cap F = {} /\ S \cup F \subseteq Community(tokens, s)
         /\ \A t \in S \cup F : ~Resolved(stake.launchInfo[t])
         /\ \A t \in Tokens :
               /\ stake'.launchInfo[t].costPaid = stake.launchInfo[t].costPaid
               /\ stake'.launchInfo[t].refunded <=> stake.launchInfo[t].refunded \/ t \in S
               /\ stake'.launchInfo[t].filteredEarly <=> stake.launchInfo[t].filteredEarly \/ t \in F
               /\ t \notin S \cup F =>
                     stake'.launchInfo[t].stakeAmount = stake.launchInfo[t].stakeAmount
<1>1. /\ UNCHANGED <<currentSeasonId, phaseOf, tokens, finalists, seasonTickers, winnerTickers,
                     tickerBlocklist, activated, aborted, escrow, refundableStakeEnabled, settled>>
      /\ phaseOf[s] # Launch /\ S \cap F = {}
      /\ \A t \in S \cup F : ~Resolved(stake.launchInfo[t])
      /\ stake' = SoftFilterApplied(stake, S, F)
  BY DEF ApplySoftFilter, CanApplySoftFilter, seasonVars, tokenVars, tickerVars, queueVars,
         configVars, historyVars
<1>2. S \cup F \subseteq Community(tokens, s)
  BY DEF CommunityTokens, Community
<1>3. ASSUME NEW t \in Tokens
      PROVE  /\ stake'.launchInfo[t].costPaid = stake.launchInfo[t].costPaid
             /\ stake'.launchInfo[t].refunded <=> stake.launchInfo[t].refunded \/ t \in S
             /\ stake'.launchInfo[t].filteredEarly <=> stake.launchInfo[t].filteredEarly \/ t \in F
             /\ t \notin S \cup F =>
                   stake'.launchInfo[t].stakeAmount = stake.launchInfo[t].stakeAmount
  <2> DEFINE info == stake.launchInfo[t]
             next == stake'.launchInfo[t]
             Z == S \cup F
  <2>1. next = [slotIndex |-> info.slotIndex, costPaid |-> info.costPaid,
                stakeAmount |-> IF t \in Z THEN 0 ELSE info.stakeAmount,
                refunded |-> info.refunded \/ t \in S,
                filteredEarly |-> info.filteredEarly \/ t \in F]
    BY <1>1, Zenon DEF SoftFilterApplied, Settled
  <2> HIDE DEF info, next, Z
  <2>2. /\ next.costPaid = info.costPaid
        /\ next.stakeAmount = IF t \in Z THEN 0 ELSE info.stakeAmount
        /\ next.refunded <=> (info.refunded \/ t \in S)
        /\ next.filteredEarly <=> (info.filteredEarly \/ t \in F)
    BY <2>1
  <2> QED
    BY <2>2 DEF info, next, Z
<1> QED
  BY <1>1, <1>2, <1>3

\* What the mirror needs of the chain stays true.
LEMMA DeployedStakes ==
  ASSUME StakesKept, tokens \subseteq Tokens, NEW s, NEW D, Deploys(D, s),
         UNCHANGED refundableStakeEnabled
  PROVE  StakesKept'
<1> SUFFICES ASSUME FALSE \notin StakeModes, NEW t \in tokens', ~IsProtocolLaunched(t),
                    ~Resolved(stake'.launchInfo[t])
             PROVE  stake'.launchInfo[t].stakeAmount = stake'.launchInfo[t].costPaid
  BY DEF StakesKept, IsProtocolLaunched, Resolved
<1>1. refundableStakeEnabled
  BY DEF StakesKept
<1>2. CASE t \in D
  BY <1>1, <1>2 DEF Deploys
<1>3. CASE t \notin D
  <2>1. t \in tokens /\ stake'.launchInfo[t] = stake.launchInfo[t]
    BY <1>3 DEF Deploys
  <2> QED
    BY <2>1 DEF StakesKept
<1> QED
  BY <1>2, <1>3

\* What the mirror needs to know of the chain is kept by every step of the launcher.
LEMMA ChainStep ==
  ASSUME SafeInv, BooksInv, ChainFits, [Next]_vars
  PROVE  ChainFits'
<1> USE DEF seasonVars, tokenVars, tickerVars, queueVars, configVars, moneyVars, historyVars
<1>0. WinnersFit /\ ListsFit /\ EmptySlotsFit /\ StakesKept /\ TypeOK
  BY DEF ChainFits, SafeInv
<1>1. UNCHANGED <<winnerTickers, settled>> => WinnersFit'
  BY <1>0 DEF WinnersFit
<1>2. UNCHANGED <<finalists, phaseOf>> => ListsFit'
  BY <1>0 DEF ListsFit
<1>3. UNCHANGED escrow => EmptySlotsFit'
  BY <1>0 DEF EmptySlotsFit
<1>4. UNCHANGED <<refundableStakeEnabled, tokens, stake>> => StakesKept'
  BY <1>0 DEF StakesKept, IsProtocolLaunched, Resolved
<1>5. CASE UNCHANGED vars
  BY <1>1, <1>2, <1>3, <1>4, <1>5 DEF vars, ChainFits
<1>6. ASSUME NEW cost \in BaseLaunchCosts, NEW enabled \in StakeModes, SetLaunchConfig(cost, enabled)
      PROVE  ChainFits'
  <2>1. /\ UNCHANGED <<winnerTickers, settled, finalists, phaseOf, escrow, tokens, stake>>
        /\ refundableStakeEnabled' = enabled
    BY <1>6 DEF SetLaunchConfig
  <2>2. StakesKept'
    BY <1>0, <2>1, LauncherConstants DEF StakesKept, IsProtocolLaunched, Resolved
  <2> QED
    BY <1>1, <1>2, <1>3, <2>1, <2>2 DEF ChainFits
<1>7. ASSUME UNCHANGED <<winnerTickers, settled, finalists, phaseOf, escrow, refundableStakeEnabled,
                         tokens, stake>>
      PROVE  ChainFits'
  BY <1>1, <1>2, <1>3, <1>4, <1>7 DEF ChainFits
<1>8. ASSUME NEW k \in Blockable, AddTickerToBlocklist(k) PROVE ChainFits'
  BY <1>7, <1>8 DEF AddTickerToBlocklist
<1>9. ASSUME NEW p \in BOOLEAN, SetPaused(p) PROVE ChainFits'
  BY <1>7, <1>9 DEF SetPaused
<1>10. ASSUME StartSeason PROVE ChainFits'
  BY <1>7, <1>10 DEF StartSeason
<1>11. ASSUME NEW s \in Seasons, CloseWindow(s) PROVE ChainFits'
  BY <1>7, <1>11 DEF CloseWindow
<1>12. ASSUME NEW s \in Seasons, AdvancePhase(s) PROVE ChainFits'
  <2>1. /\ UNCHANGED <<winnerTickers, settled, finalists, escrow, refundableStakeEnabled, tokens, stake>>
        /\ phaseOf' = [phaseOf EXCEPT ![s] = @ + 1]
    BY <1>12 DEF AdvancePhase
  <2>2. ListsFit'
    <3>1. phaseOf[s] \in Launch..Closed /\ DOMAIN phaseOf = Seasons
      BY <1>0 DEF TypeOK
    <3>2. phaseOf[s] + 1 # Launch
      BY <3>1 DEF Launch, Closed
    <3> QED
      BY <1>0, <2>1, <3>1, <3>2 DEF ListsFit
  <2> QED
    BY <1>1, <1>3, <1>4, <2>1, <2>2 DEF ChainFits
<1>13. ASSUME NEW s \in Seasons, NEW list \in FinalistLists, SetFinalists(s, list) PROVE ChainFits'
  <2>1. /\ UNCHANGED <<winnerTickers, settled, phaseOf, escrow, refundableStakeEnabled, tokens, stake>>
        /\ finalists' = finalists \cup ({s} \X list) /\ phaseOf[s] = Filter
    BY <1>13 DEF SetFinalists
  <2>2. ListsFit'
    BY <1>0, <2>1 DEF ListsFit, Launch, Filter
  <2> QED
    BY <1>1, <1>3, <1>4, <2>1, <2>2 DEF ChainFits
<1>14. ASSUME NEW s \in Seasons, NEW t \in tokens, SetWinnerTicker(s, t) PROVE ChainFits'
  <2>1. /\ UNCHANGED <<finalists, phaseOf, escrow, refundableStakeEnabled, tokens, stake>>
        /\ winnerTickers' = [winnerTickers EXCEPT ![t.ticker] = t] /\ settled' = settled \cup {s}
        /\ t.season = s
    BY <1>14 DEF SetWinnerTicker, CanSetWinnerTicker
  <2>2. \A k \in Tickers : winnerTickers'[k] = IF k = t.ticker THEN t ELSE winnerTickers[k]
    BY <1>0, <2>1 DEF TypeOK
  <2>3. WinnersFit'
    BY <1>0, <2>1, <2>2 DEF WinnersFit
  <2> QED
    BY <1>2, <1>3, <1>4, <2>1, <2>3 DEF ChainFits
<1>15. ASSUME NEW c \in Creators, NEW t \in Tickers, Reserve(c, t) PROVE ChainFits'
  <2> DEFINE s == currentSeasonId
  <2>1. /\ UNCHANGED <<winnerTickers, settled, finalists, phaseOf, refundableStakeEnabled>>
        /\ s \in Seasons /\ \E held, D : ReservedNow(held, s, c, D)
    BY <1>15, ReserveFacts
  <2> HIDE DEF s
  <2>2. PICK held, D : ReservedNow(held, s, c, D)
    BY <2>1
  <2>3. StakesKept'
    BY <1>0, <2>1, <2>2, DeployedStakes DEF ReservedNow, TypeOK
  <2>4. EmptySlotsFit'
    <3>1. \A r \in Seasons, k \in Creators :
             ~SlotOf(escrow', r, k).reserved => SlotOf(escrow', r, k).amount = SlotOf(escrow, r, k).amount
                                                /\ ~SlotOf(escrow, r, k).reserved
      BY <2>2 DEF ReservedNow, ReleasedFor
    <3> QED
      BY <1>0, <3>1 DEF EmptySlotsFit
  <2> QED
    BY <1>1, <1>2, <2>1, <2>3, <2>4 DEF ChainFits
<1>16. ASSUME NEW s \in Seasons, NEW rejecting \in SUBSET Creators, AbortSeason(s, rejecting)
       PROVE  ChainFits'
  <2>1. /\ UNCHANGED <<winnerTickers, settled, finalists, phaseOf, refundableStakeEnabled, tokens, stake>>
        /\ \A r \in Seasons, k \in Creators :
               /\ SlotOf(escrow', r, k).reserved <=> SlotOf(escrow, r, k).reserved
               /\ SlotOf(escrow', r, k).amount = SlotOf(escrow, r, k).amount
    BY <1>16, AbortFacts
  <2>2. EmptySlotsFit'
    BY <1>0, <2>1 DEF EmptySlotsFit
  <2> QED
    BY <1>1, <1>2, <1>4, <2>1, <2>2 DEF ChainFits
<1>17. ASSUME NEW s \in Seasons, NEW c \in Creators, ClaimPendingRefund(s, c) PROVE ChainFits'
  <2>1. /\ UNCHANGED <<winnerTickers, settled, finalists, phaseOf, refundableStakeEnabled, tokens, stake>>
        /\ \A r \in Seasons, k \in Creators : SlotOf(escrow', r, k) = SlotOf(escrow, r, k)
    BY <1>17, ClaimFacts
  <2>2. EmptySlotsFit'
    BY <1>0, <2>1 DEF EmptySlotsFit
  <2> QED
    BY <1>1, <1>2, <1>4, <2>1, <2>2 DEF ChainFits
<1>18. ASSUME NEW k \in ProtocolTickers, LaunchProtocolToken(k) PROVE ChainFits'
  <2> DEFINE new == [season |-> currentSeasonId, ticker |-> k, creator |-> Owner]
  <2>1. /\ UNCHANGED <<winnerTickers, settled, finalists, phaseOf, escrow, refundableStakeEnabled, stake>>
        /\ tokens' = tokens \cup {new}
    BY <1>18 DEF LaunchProtocolToken
  <2>2. IsProtocolLaunched(new)
    BY DEF IsProtocolLaunched
  <2> HIDE DEF new
  <2>3. StakesKept'
    BY <1>0, <2>1, <2>2 DEF StakesKept, IsProtocolLaunched, Resolved
  <2> QED
    BY <1>1, <1>2, <1>3, <2>1, <2>3 DEF ChainFits
<1>19. ASSUME NEW s \in Seasons, NEW S \in SUBSET CommunityTokens(s), NEW F \in SUBSET CommunityTokens(s),
              ApplySoftFilter(s, S, F)
       PROVE  ChainFits'
  <2>1. /\ UNCHANGED <<winnerTickers, settled, finalists, phaseOf, escrow, refundableStakeEnabled, tokens>>
        /\ \A t \in Tokens :
               /\ stake'.launchInfo[t].costPaid = stake.launchInfo[t].costPaid
               /\ stake'.launchInfo[t].refunded <=> stake.launchInfo[t].refunded \/ t \in S
               /\ stake'.launchInfo[t].filteredEarly <=> stake.launchInfo[t].filteredEarly \/ t \in F
               /\ t \notin S \cup F =>
                     stake'.launchInfo[t].stakeAmount = stake.launchInfo[t].stakeAmount
    BY <1>19, FilterFacts
  <2>2. StakesKept'
    <3> SUFFICES ASSUME FALSE \notin StakeModes, NEW t \in tokens, ~IsProtocolLaunched(t),
                        ~Resolved(stake'.launchInfo[t])
                 PROVE  stake'.launchInfo[t].stakeAmount = stake'.launchInfo[t].costPaid
      BY <1>0, <2>1 DEF StakesKept, IsProtocolLaunched, Resolved
    <3>1. t \in Tokens
      BY <1>0 DEF TypeOK
    <3>2. t \notin S \cup F /\ ~Resolved(stake.launchInfo[t])
      BY <2>1, <3>1 DEF Resolved
    <3> QED
      BY <1>0, <2>1, <3>1, <3>2 DEF StakesKept
  <2> QED
    BY <1>1, <1>2, <1>3, <2>1, <2>2 DEF ChainFits
<1>20. CASE Next
  BY <1>6, <1>8, <1>9, <1>10, <1>11, <1>12, <1>13, <1>14, <1>15, <1>16, <1>17, <1>18, <1>19, <1>20
  DEF Next
<1> QED
  BY <1>5, <1>20

\* A deposit whose slot, credit and token's record stay has the status it had.
LEMMA SaysSame ==
  ASSUME NEW e, NEW f, NEW k, NEW l, NEW T, NEW U, NEW s, NEW c,
         SlotOf(f, s, c).reserved <=> SlotOf(e, s, c).reserved,
         SlotOf(f, s, c).released <=> SlotOf(e, s, c).released,
         SlotOf(f, s, c).refunded <=> SlotOf(e, s, c).refunded,
         f.pendingRefunds[<<s, c>>] = e.pendingRefunds[<<s, c>>],
         \A t \in Community(T, s) : t.creator = c =>
            /\ t \in Community(U, s)
            /\ l.launchInfo[t].refunded <=> k.launchInfo[t].refunded
            /\ l.launchInfo[t].filteredEarly <=> k.launchInfo[t].filteredEarly,
         NEW st, Says(e, k, T, s, c, st)
  PROVE  Says(f, l, U, s, c, st)
  BY DEF Says, InfoSays, Live

\* The rows after the logs W: a deposit with a slot in W had none, and each other log
\* that changes a status finds the one the chain said before.
LEMMA RowsTurn ==
  ASSUME NEW d, TablesFit(d), RowsBehind(d, {}), NEW W,
         \A ev \in W : ev.name \in MoveNames => ev \in Moves(W) \/ ev.name = "TokenLaunched",
         \A ev \in Named(W, "SlotReserved") : SlotLogFits(ev, W)',
         \A ev \in Moves(W) : MoveFits(ev)',
         \A ev, m \in Moves(W) : ev.season = m.season /\ By(ev) = By(m) => ev = m,
         \A s \in Seasons, c \in Creators : (\E ev \in Named(W, "SlotReserved") : Concerns(ev, s, c)) =>
            \A st : Says(escrow, stake, tokens, s, c, st) => st = "NONE",
         \A s \in Seasons, c \in Creators : (\A ev \in Named(W, "SlotReserved") : ~Concerns(ev, s, c)) =>
            /\ AmountIn(escrow', s, c) = AmountIn(escrow, s, c)
            /\ \A st : Says(escrow, stake, tokens, s, c, st) =>
                  /\ \A ev \in Moves(W) : Concerns(ev, s, c) => Finds(ev.name, st)
                  /\ (\A ev \in Moves(W) : ~Concerns(ev, s, c)) =>
                        Says(escrow', stake', tokens', s, c, st)
  PROVE  RowsBehind(d, W)'
<1>1. ASSUME NEW s \in Seasons, NEW c \in Creators
      PROVE  RowBehind(d.reservation[<<s, c>>], W, s, c)'
  <2> DEFINE row == d.reservation[<<s, c>>]
  <2>1. RowBehind(row, {}, s, c)
    BY DEF RowsBehind
  <2>2. /\ row.escrowAmount = AmountIn(escrow, s, c)
        /\ Says(escrow, stake, tokens, s, c, row.status)
    BY <2>1 DEF RowBehind, Named, Moves
  <2>3. row.status = "NONE" => row = NoRow
    <3>1. row \in [status: Statuses, escrowAmount: Nat] /\ RowFits(d, s, c, row)
      BY DEF TablesFit, RowsFit, Tables, Deposits
    <3> QED
      BY <3>1 DEF RowFits, NoRow
  <2> HIDE DEF row
  <2>4. CASE \E ev \in Named(W, "SlotReserved") : Concerns(ev, s, c)
    BY <2>2, <2>3, <2>4 DEF RowBehind, row
  <2>5. CASE \A ev \in Named(W, "SlotReserved") : ~Concerns(ev, s, c)
    BY <2>2, <2>5 DEF RowBehind, row
  <2> QED
    BY <2>4, <2>5
<1> QED
  BY <1>1 DEF RowsBehind

\* A deposit is in one place, so that the chain says one thing of it.
LEMMA SaysNone ==
  ASSUME NEW e, NEW k, NEW T, NEW s \in Seasons, NEW c \in Creators, AllOrNothing(e),
         NEW st, Says(e, k, T, s, c, st), ~SlotOf(e, s, c).reserved
  PROVE  st = "NONE"
<1>1. /\ SlotOf(e, s, c).released => SlotOf(e, s, c).reserved
      /\ SlotOf(e, s, c).refunded => SlotOf(e, s, c).reserved
  BY DEF AllOrNothing, SlotOf
<1> QED
  BY <1>1 DEF Says, Live

LEMMA SaysPending ==
  ASSUME NEW e, NEW k, NEW T, NEW s \in Seasons, NEW c \in Creators,
         NEW st, Says(e, k, T, s, c, st), Live(SlotOf(e, s, c))
  PROVE  st = "PENDING"
  BY DEF Says, Live

LEMMA SaysOwed ==
  ASSUME NEW e, NEW k, NEW T, NEW s \in Seasons, NEW c \in Creators, AllOrNothing(e),
         NEW st, Says(e, k, T, s, c, st), SlotOf(e, s, c).refunded, e.pendingRefunds[<<s, c>>] > 0
  PROVE  st = "REFUND_PENDING"
<1>1. /\ SlotOf(e, s, c).refunded => SlotOf(e, s, c).reserved
      /\ ~(SlotOf(e, s, c).released /\ SlotOf(e, s, c).refunded)
  BY DEF AllOrNothing, SlotOf
<1>2. ~(e.pendingRefunds[<<s, c>>] = 0)
  OBVIOUS
<1> QED
  BY <1>1, <1>2 DEF Says, Live

\* A protocol token moves no deposit: it has no reservation.
LEMMA ProtocolBehind ==
  ASSUME SafeInv, TickerInv, ChainFits, NEW d, TablesFit(d), Behind(d, {}), NEW t \in ProtocolTickers,
         LaunchProtocolToken(t), NEW k, k = [season |-> currentSeasonId, ticker |-> t, creator |-> Owner],
         NEW W, W = {LaunchedLog(k)}
  PROVE  Behind(d, W)' /\ tokens' = tokens \cup {k} /\ k \notin tokens
<1> DEFINE s == currentSeasonId
           ev == LaunchedLog(k)
<1>1. /\ s \in Seasons /\ t \in Tickers /\ phaseOf[s] = Launch /\ seasonTickers[s][t] = NoOne
      /\ tokens' = tokens \cup {k}
      /\ seasonTickers' = [seasonTickers EXCEPT ![s][t] = Owner]
      /\ UNCHANGED <<currentSeasonId, phaseOf, finalists, winnerTickers, tickerBlocklist, activated,
                     aborted, escrow, stake>>
  BY LauncherConstants DEF LaunchProtocolToken, CanLaunchProtocolToken, Started, seasonVars, queueVars, moneyVars
<1>2. k \in Tokens /\ k.season = s /\ k.ticker = t /\ k.creator = Owner /\ IsProtocolLaunched(k)
  BY <1>1 DEF Tokens, IsProtocolLaunched
<1> HIDE DEF s
<1>3. k \notin tokens
  <2>1. Owner # NoOne /\ Owner \in Creators \cup {Owner}
    BY LauncherConstants
  <2>2. ~Claims(tokens, pending, s, t, Owner)
    BY <1>1, <2>1 DEF TickerInv, OnlyClaimant
  <2> QED
    BY <1>2, <2>2 DEF Claims
<1>4. ev.name = "TokenLaunched" /\ ev.season = s /\ ev.token = k /\ By(ev) = Owner
  BY <1>2 DEF LaunchedLog, By
<1>5. W = {ev}
  OBVIOUS
<1> HIDE DEF ev
<1>6. \A n : n # "TokenLaunched" => Named(W, n) = {}
  BY <1>4, <1>5 DEF Named
<1>7. SeasonsBehind(d, W)' /\ PhasesBehind(d, W)'
  BY <1>1, <1>6, SeasonsKeep, PhasesKeep DEF Behind
<1>8. BlocksBehind(d, W)' /\ WinnersBehind(d, W)' /\ FlagsBehind(d, W)'
  BY <1>1, <1>6, BlocksKeep, WinnersKeep, FlagsKeep DEF Behind
<1>9. FinalistsBehind(d, W)'
  <2>1. \A u \in tokens' \ tokens : <<u.season, u>> \notin finalists
    BY <1>1, <1>2 DEF ChainFits, ListsFit
  <2> QED
    BY <1>1, <1>6, <2>1, FinalistsKeep DEF Behind
<1>10. TokensBehind(d, W)'
  <2>1. Named({}, "TokenLaunched") = {} /\ Named(W, "TokenLaunched") = {ev}
    BY <1>4, <1>5 DEF Named
  <2>2. \A u \in Tokens : u \in tokens <=> u \in d.token
    BY <2>1 DEF Behind, TokensBehind
  <2>3. \A u \in Tokens : LaunchedLog(u) \in W <=> u = k
    <3>1. \A u : LaunchedLog(u).token = u
      BY DEF LaunchedLog
    <3> QED
      BY <1>4, <1>5, <3>1 DEF ev
  <2>4. ev = LaunchedLog(ev.token)
    BY <1>4 DEF ev
  <2> QED
    BY <1>1, <1>2, <1>3, <1>4, <2>1, <2>2, <2>3, <2>4 DEF TokensBehind
<1>11. TickersBehind(d, W)'
  <2>1. \A r \in Seasons, x \in Tickers, c \in Creators :
           seasonTickers'[r][x] = c <=> seasonTickers[r][x] = c
    <3>1. seasonTickers \in [Seasons -> [Tickers -> Creators \cup {Owner, NoOne}]]
      BY DEF SafeInv, TypeOK
    <3>2. \A r \in Seasons, x \in Tickers :
             seasonTickers'[r][x] = IF r = s /\ x = t THEN Owner ELSE seasonTickers[r][x]
      BY <1>1, <3>1
    <3> QED
      BY <1>1, <3>2, TokenConstants, LauncherConstants
  <2> QED
    BY <1>1, <1>6, <2>1, TickersKeep DEF Behind
<1>12. RowsBehind(d, W)'
  <2>1. Moves(W) = {}
    BY <1>4, <1>5, TokenConstants DEF Moves
  <2>2. \A r : Community(tokens', r) = Community(tokens, r)
    BY <1>1, <1>2 DEF Community
  <2>3. \A r \in Seasons, c \in Creators :
            /\ AmountIn(escrow', r, c) = AmountIn(escrow, r, c)
            /\ \A st : Says(escrow, stake, tokens, r, c, st)
                  => Says(escrow', stake', tokens', r, c, st)
    <3>1. UNCHANGED <<escrow, stake>>
      BY <1>1
    <3>2. PICK e, f : e = escrow /\ f = stake
      OBVIOUS
    <3>3. \A r \in Seasons, c \in Creators : \A st :
             Says(e, f, tokens, r, c, st) => Says(e, f, tokens', r, c, st)
      BY <2>2 DEF Says
    <3> QED
      BY <3>1, <3>2, <3>3
  <2> QED
    BY <1>4, <1>5, <1>6, <2>1, <2>3, RowsKeep DEF Behind
<1> QED
  BY <1>1, <1>3, <1>7, <1>8, <1>9, <1>10, <1>11, <1>12 DEF Behind

\* A claim turns the status of one deposit.
LEMMA ClaimBehind ==
  ASSUME SafeInv, NEW d, TablesFit(d), Behind(d, {}), NEW s \in Seasons, NEW c \in Creators,
         ClaimPendingRefund(s, c), NEW ev, ev.name = "PendingRefundClaimed", ev.season = s,
         ev.creator = c, ev.amount = escrow.pendingRefunds[<<s, c>>], NEW W, W = {ev}
  PROVE  Behind(d, W)'
<1>1. /\ UNCHANGED <<currentSeasonId, phaseOf, tokens, finalists, seasonTickers, winnerTickers,
                     tickerBlocklist, activated, aborted, stake>>
      /\ \A r \in Seasons, k \in Creators : SlotOf(escrow', r, k) = SlotOf(escrow, r, k)
      /\ escrow'.pendingRefunds = [escrow.pendingRefunds EXCEPT ![<<s, c>>] = 0]
      /\ escrow.pendingRefunds \in [Deposits -> Nat] /\ <<s, c>> \in Deposits
      /\ escrow.pendingRefunds[<<s, c>>] > 0
      /\ escrow.pendingRefunds[<<s, c>>] = SlotOf(escrow, s, c).amount
      /\ SlotOf(escrow, s, c).refunded
  BY ClaimFacts
<1>2. \A n : n # "PendingRefundClaimed" => Named(W, n) = {}
  BY DEF Named
<1>3. SeasonsBehind(d, W)' /\ PhasesBehind(d, W)' /\ TokensBehind(d, W)'
  BY <1>1, <1>2, SeasonsKeep, PhasesKeep, TokensKeep DEF Behind
<1>4. BlocksBehind(d, W)' /\ WinnersBehind(d, W)' /\ FlagsBehind(d, W)'
  BY <1>1, <1>2, BlocksKeep, WinnersKeep, FlagsKeep DEF Behind
<1>5. FinalistsBehind(d, W)' /\ TickersBehind(d, W)'
  BY <1>1, <1>2, FinalistsKeep, TickersKeep DEF Behind
<1>6. By(ev) = c /\ Moves(W) = {ev}
  BY DEF By, Moves, MoveNames
<1>7. RowsBehind(d, W)'
  <2>1. MoveFits(ev)'
    <3>1. SlotOf(escrow', s, c).refunded /\ escrow'.pendingRefunds[<<s, c>>] = 0
          /\ AmountIn(escrow', s, c) = SlotOf(escrow, s, c).amount
      BY <1>1 DEF SlotOf, AmountIn
    <3>2. \A st \in Statuses : Leaves(ev.name, st) => st = "REFUND_CLAIMED"
      BY DEF Leaves
    <3>3. Says(escrow', stake', tokens', s, c, "REFUND_CLAIMED")
      BY <3>1 DEF Says
    <3>4. ev.amount = AmountIn(escrow', s, c)
      BY <1>1, <3>1
    <3> QED
      BY <1>6, <3>2, <3>3, <3>4 DEF MoveFits
  <2>2. ASSUME NEW r \in Seasons, NEW k \in Creators, NEW st, Says(escrow, stake, tokens, r, k, st)
        PROVE  /\ Concerns(ev, r, k) => Finds(ev.name, st)
               /\ ~Concerns(ev, r, k) => Says(escrow', stake', tokens', r, k, st)
    <3>1. CASE r = s /\ k = c
      <4>1. AllOrNothing(escrow)
        BY DEF SafeInv, OneOutcome
      <4>1a. /\ Says(escrow, stake, tokens, s, c, st) /\ SlotOf(escrow, s, c).refunded
             /\ escrow.pendingRefunds[<<s, c>>] > 0
        BY <1>1, <2>2, <3>1
      <4>2. st = "REFUND_PENDING"
        BY <4>1, <4>1a, SaysOwed
      <4> QED
        BY <1>6, <3>1, <4>2 DEF Finds, Concerns
    <3>2. CASE ~(r = s /\ k = c)
      <4>1. escrow'.pendingRefunds[<<r, k>>] = escrow.pendingRefunds[<<r, k>>]
        BY <1>1, <3>2 DEF Deposits
      <4>2. SlotOf(escrow', r, k) = SlotOf(escrow, r, k)
        BY <1>1
      <4>3. Says(escrow', stake', tokens', r, k, st)
        BY <1>1, <2>2, <4>1, <4>2 DEF Says
      <4> QED
        BY <1>6, <3>2, <4>3 DEF Concerns
    <3> QED
      BY <3>1, <3>2
  <2>3. \A r \in Seasons, k \in Creators : AmountIn(escrow', r, k) = AmountIn(escrow, r, k)
    BY <1>1 DEF SlotOf, AmountIn
  <2>4. Named(W, "SlotReserved") = {} /\ \A m \in W : m.name \in MoveNames => m \in Moves(W)
    BY <1>2, <1>6
  <2> QED
    BY <1>6, <2>1, <2>2, <2>3, <2>4, RowsTurn DEF Behind
<1> QED
  BY <1>3, <1>4, <1>5, <1>7 DEF Behind

\* The log of a refund, from the escrow storage after it.
RefundLog(e, s, k) ==
    [name |-> IF e.pendingRefunds[<<s, k>>] > 0 THEN "RefundFailed" ELSE "ReservationRefunded",
     season |-> s, creator |-> k, amount |-> AmountIn(e, s, k)]

LEMMA RefundLogFields ==
  ASSUME NEW e, NEW s, NEW k, NEW ev, ev = RefundLog(e, s, k)
  PROVE  /\ ev.season = s /\ ev.creator = k /\ ev.amount = AmountIn(e, s, k) /\ By(ev) = k
         /\ e.pendingRefunds[<<s, k>>] > 0 => ev.name = "RefundFailed"
         /\ ~(e.pendingRefunds[<<s, k>>] > 0) => ev.name = "ReservationRefunded"
         /\ ev.name \in {"RefundFailed", "ReservationRefunded"}
  BY DEF RefundLog, By

\* abortSeason: each reserver's log, and SeasonAborted, are what the tables lack.
LEMMA AbortBehind ==
  ASSUME SafeInv, NEW d, TablesFit(d), Behind(d, {}), NEW s \in Seasons,
         NEW rejecting \in SUBSET Creators, AbortSeason(s, rejecting), NEW ab,
         ab.name = "SeasonAborted", ab.season = s,
         NEW W, W = {RefundLog(escrow', s, k) : k \in Reservers(escrow', s)} \cup {ab}
  PROVE  Behind(d, W)'
<1>1. /\ s \notin activated /\ s \notin aborted /\ aborted' = aborted \cup {s}
      /\ UNCHANGED <<currentSeasonId, phaseOf, tokens, finalists, seasonTickers, winnerTickers,
                     tickerBlocklist, activated, stake>>
  BY AbortFacts
<1>2. \A r \in Seasons, k \in Creators :
         /\ SlotOf(escrow', r, k).reserved <=> SlotOf(escrow, r, k).reserved
         /\ SlotOf(escrow', r, k).amount = SlotOf(escrow, r, k).amount
         /\ SlotOf(escrow', r, k).released <=> SlotOf(escrow, r, k).released
         /\ r # s => /\ SlotOf(escrow', r, k).refunded <=> SlotOf(escrow, r, k).refunded
                     /\ escrow'.pendingRefunds[<<r, k>>] = escrow.pendingRefunds[<<r, k>>]
  BY AbortFacts
<1>3. \A k \in Creators :
         /\ SlotOf(escrow, s, k).reserved =>
               Live(SlotOf(escrow, s, k)) /\ SlotOf(escrow', s, k).refunded
         /\ ~SlotOf(escrow, s, k).reserved => ~SlotOf(escrow', s, k).refunded
         /\ escrow'.pendingRefunds[<<s, k>>] \in Nat
  BY AbortFacts
<1> DEFINE R == {RefundLog(escrow', s, k) : k \in Reservers(escrow', s)}
<1>4. \A k \in Creators : k \in Reservers(escrow', s) <=> SlotOf(escrow, s, k).reserved
  BY <1>2 DEF Reservers, SlotOf
<1>5. Reservers(escrow', s) \subseteq Creators
  BY DEF Reservers
<1>6. \A ev \in R : /\ ev.name \in {"RefundFailed", "ReservationRefunded"} /\ By(ev) \in Creators
                    /\ By(ev) \in Reservers(escrow', s) /\ ev.season = s
                    /\ ev = RefundLog(escrow', s, By(ev))
  <2> SUFFICES ASSUME NEW ev \in R
               PROVE  /\ ev.name \in {"RefundFailed", "ReservationRefunded"}
                      /\ By(ev) \in Creators /\ By(ev) \in Reservers(escrow', s) /\ ev.season = s
                      /\ ev = RefundLog(escrow', s, By(ev))
    OBVIOUS
  <2>1. PICK k \in Reservers(escrow', s) : ev = RefundLog(escrow', s, k)
    OBVIOUS
  <2>2. By(ev) = k /\ ev.season = s /\ ev.name \in {"RefundFailed", "ReservationRefunded"}
    BY <2>1 DEF RefundLog, By
  <2> QED
    BY <1>5, <2>1, <2>2
<1>6a. \A k \in Reservers(escrow', s) : RefundLog(escrow', s, k) \in R
  OBVIOUS
<1>7. W = R \cup {ab}
  OBVIOUS
<1> HIDE DEF R
<1>8. \A n : n \notin {"RefundFailed", "ReservationRefunded", "SeasonAborted"} => Named(W, n) = {}
  BY <1>6, <1>7 DEF Named
<1>9. SeasonsBehind(d, W)' /\ PhasesBehind(d, W)' /\ TokensBehind(d, W)'
  BY <1>1, <1>8, SeasonsKeep, PhasesKeep, TokensKeep DEF Behind
<1>10. BlocksBehind(d, W)' /\ WinnersBehind(d, W)' /\ FinalistsBehind(d, W)'
  BY <1>1, <1>8, BlocksKeep, WinnersKeep, FinalistsKeep DEF Behind
<1>11. Named(W, "SeasonAborted") = {ab} /\ Named(W, "SeasonActivated") = {} /\ Named(W, "SlotReserved") = {}
  BY <1>6, <1>7, <1>8 DEF Named
<1>12. \A n : Named({}, n) = {}
  BY DEF Named
<1>13. FlagsBehind(d, W)'
  BY <1>1, <1>11, <1>12 DEF Behind, FlagsBehind
<1>14. TickersBehind(d, W)'
  <2>1. \A r \in Seasons, t \in Tickers, c \in Creators :
           Claim(r, t, c) \in d.seasonTicker <=> seasonTickers[r][t] = c /\ r \notin aborted
    BY <1>12 DEF Behind, TickersBehind
  <2>2. \A r \in Seasons : r \notin aborted' \/ (\E ev \in {ab} : ev.season = r) <=> r \notin aborted
    BY <1>1
  <2> QED
    BY <1>1, <1>11, <2>1, <2>2 DEF TickersBehind
<1>15. Moves(W) = R
  BY <1>6, <1>7 DEF Moves, MoveNames
<1>16. \A ev \in Moves(W) : MoveFits(ev)'
  <2> SUFFICES ASSUME NEW ev \in R PROVE MoveFits(ev)'
    BY <1>15
  <2> DEFINE k == By(ev)
  <2>1. k \in Creators /\ k \in Reservers(escrow', s) /\ ev = RefundLog(escrow', s, k)
    BY <1>6
  <2> HIDE DEF k
  <2>2. SlotOf(escrow', s, k).refunded /\ escrow'.pendingRefunds[<<s, k>>] \in Nat
    BY <1>3, <1>4, <2>1
  <2>3. /\ ev.season = s /\ ev.amount = AmountIn(escrow', s, k)
        /\ escrow'.pendingRefunds[<<s, k>>] > 0 => ev.name = "RefundFailed"
        /\ ~(escrow'.pendingRefunds[<<s, k>>] > 0) => ev.name = "ReservationRefunded"
        /\ ev.name \in {"RefundFailed", "ReservationRefunded"}
    BY <2>1, RefundLogFields
  <2>4. \A st \in Statuses : Leaves(ev.name, st) => Says(escrow', stake', tokens', s, k, st)
    <3>1. CASE escrow'.pendingRefunds[<<s, k>>] > 0
      BY <2>2, <2>3, <3>1 DEF Leaves, Says
    <3>2. CASE escrow'.pendingRefunds[<<s, k>>] = 0
      BY <2>2, <2>3, <3>2 DEF Leaves, Says
    <3> QED
      BY <2>2, <3>1, <3>2
  <2>5. s \in aborted'
    BY <1>1
  <2> QED
    BY <2>3, <2>4, <2>5 DEF MoveFits, k
<1>17. ASSUME NEW r \in Seasons, NEW k \in Creators, NEW st, Says(escrow, stake, tokens, r, k, st)
       PROVE  /\ \A ev \in Moves(W) : Concerns(ev, r, k) => Finds(ev.name, st)
              /\ (\A ev \in Moves(W) : ~Concerns(ev, r, k)) =>
                    Says(escrow', stake', tokens', r, k, st)
  <2>1. CASE r = s /\ SlotOf(escrow, s, k).reserved
    <3>1. AllOrNothing(escrow)
      BY DEF SafeInv, OneOutcome
    <3>2. Says(escrow, stake, tokens, s, k, st) /\ Live(SlotOf(escrow, s, k))
      BY <1>3, <1>17, <2>1
    <3>3. st = "PENDING"
      BY <3>2, SaysPending
    <3>4. \E ev \in R : Concerns(ev, r, k)
      <4>1. PICK ev : ev = RefundLog(escrow', s, k)
        OBVIOUS
      <4>2. By(ev) = k /\ ev.season = s
        BY <4>1 DEF RefundLog, By
      <4>3. ev \in R
        BY <1>4, <1>6a, <2>1, <4>1
      <4> QED
        BY <2>1, <4>2, <4>3 DEF Concerns
    <3> QED
      BY <1>6, <1>15, <3>3, <3>4 DEF Finds
  <2>2. CASE r = s /\ ~SlotOf(escrow, s, k).reserved
    <3>1. AllOrNothing(escrow)
      BY DEF SafeInv, OneOutcome
    <3>2. Says(escrow, stake, tokens, s, k, st)
      BY <1>17, <2>2
    <3>3. st = "NONE"
      BY <2>2, <3>1, <3>2, SaysNone
    <3>4. Says(escrow', stake', tokens', r, k, st)
      BY <1>2, <2>2, <3>3 DEF Says
    <3>5. \A ev \in R : ~Concerns(ev, r, k)
      BY <1>4, <1>6, <2>2 DEF Concerns
    <3> QED
      BY <1>15, <3>4, <3>5
  <2>3. CASE r # s
    <3>1. Says(escrow', stake', tokens', r, k, st)
      BY <1>1, <1>2, <1>17, <2>3 DEF Says, Live
    <3> QED
      BY <1>6, <1>15, <2>3, <3>1 DEF Concerns
  <2> QED
    BY <2>1, <2>2, <2>3
<1>18. RowsBehind(d, W)'
  <2>1. \A r \in Seasons, k \in Creators : AmountIn(escrow', r, k) = AmountIn(escrow, r, k)
    BY <1>2 DEF SlotOf, AmountIn
  <2>2. \A ev \in W : ev.name \in MoveNames => ev \in Moves(W)
    BY <1>7, <1>15 DEF MoveNames
  <2>3. \A ev, m \in Moves(W) : ev.season = m.season /\ By(ev) = By(m) => ev = m
    BY <1>6, <1>15
  <2>4. \A r \in Seasons, k \in Creators : \A st : Says(escrow, stake, tokens, r, k, st) =>
           /\ \A ev \in Moves(W) : Concerns(ev, r, k) => Finds(ev.name, st)
           /\ (\A ev \in Moves(W) : ~Concerns(ev, r, k)) => Says(escrow', stake', tokens', r, k, st)
    BY <1>17
  <2>5. Named(W, "SlotReserved") = {} /\ RowsBehind(d, {})
    BY <1>11 DEF Behind
  <2> QED
    BY <1>16, <2>1, <2>2, <2>3, <2>4, <2>5, RowsTurn
<1> QED
  BY <1>9, <1>10, <1>13, <1>14, <1>18 DEF Behind

\* The log of a stake that the soft filter resolves, from the storage k before it.
StakeLog(k, S, t) ==
    [name |-> IF t \in S THEN "StakeRefunded" ELSE "StakeForfeited",
     season |-> t.season, creator |-> t.creator, amount |-> k.launchInfo[t].stakeAmount]

\* applySoftFilter: each token's log is what the tables lack.
LEMMA FilterBehind ==
  ASSUME SafeInv, BooksInv, ChainFits, NEW d, TablesFit(d), Behind(d, {}), NEW s \in Seasons,
         NEW S \in SUBSET CommunityTokens(s), NEW F \in SUBSET CommunityTokens(s),
         ApplySoftFilter(s, S, F), NEW W, W = {StakeLog(stake, S, t) : t \in S \cup F}
  PROVE  Behind(d, W)'
<1> DEFINE Z == S \cup F
<1>1. /\ UNCHANGED <<currentSeasonId, phaseOf, tokens, finalists, seasonTickers, winnerTickers,
                     tickerBlocklist, activated, aborted, escrow>>
      /\ phaseOf[s] # Launch /\ S \cap F = {} /\ Z \subseteq Community(tokens, s)
      /\ \A t \in Z : ~Resolved(stake.launchInfo[t])
      /\ \A t \in Tokens :
            /\ stake'.launchInfo[t].refunded <=> stake.launchInfo[t].refunded \/ t \in S
            /\ stake'.launchInfo[t].filteredEarly <=> stake.launchInfo[t].filteredEarly \/ t \in F
  BY FilterFacts
<1>2. tokens \subseteq Tokens /\ s \in activated /\ AllOrNothing(escrow)
  BY <1>1 DEF SafeInv, TypeOK, OneOutcome
<1>3. TokensFit(tokens, escrow) /\ RecordsFit(stake, tokens, escrow) /\ StakesKept
  BY DEF BooksInv, ChainFits
<1>4. ASSUME NEW t \in Z
      PROVE  /\ t \in Tokens /\ t \in tokens /\ t \in Community(tokens, s) /\ t.season = s
             /\ ~IsProtocolLaunched(t) /\ t.creator \in Creators /\ (t \in S \/ t \in F)
             /\ SlotOf(escrow, s, t.creator).released
  <2>1. /\ t \in Tokens /\ t \in tokens /\ t \in Community(tokens, s) /\ t.season = s
        /\ ~IsProtocolLaunched(t)
    BY <1>1, <1>2 DEF Community
  <2>2. t.creator \in Creators
    BY <2>1 DEF Tokens, IsProtocolLaunched
  <2> QED
    BY <1>3, <2>1, <2>2 DEF TokensFit
<1>5. \A ev \in W : \E t \in Z : ev = StakeLog(stake, S, t)
  OBVIOUS
<1>6. \A t \in Z : StakeLog(stake, S, t) \in W
  OBVIOUS
<1>7. ASSUME NEW t \in Z, NEW ev, ev = StakeLog(stake, S, t)
      PROVE  /\ By(ev) = t.creator /\ ev.season = s /\ ev.amount = stake.launchInfo[t].stakeAmount
             /\ t \in S => ev.name = "StakeRefunded"
             /\ t \notin S => ev.name = "StakeForfeited"
             /\ ev.name \in {"StakeRefunded", "StakeForfeited"}
  BY <1>4, <1>7 DEF StakeLog, By
<1> HIDE DEF Z
<1>8. \A ev \in W : /\ ev.name \in {"StakeRefunded", "StakeForfeited"}
                    /\ ev.season = s /\ By(ev) \in Creators
  <2> SUFFICES ASSUME NEW ev \in W
               PROVE  /\ ev.name \in {"StakeRefunded", "StakeForfeited"}
                      /\ ev.season = s /\ By(ev) \in Creators
    OBVIOUS
  <2>1. PICK t \in Z : ev = StakeLog(stake, S, t)
    BY <1>5
  <2> QED
    BY <1>4, <1>7, <2>1
<1>9. Moves(W) = W /\ \A n : n \notin {"StakeRefunded", "StakeForfeited"} => Named(W, n) = {}
  BY <1>8 DEF Named, Moves, MoveNames
<1>10. SeasonsBehind(d, W)' /\ PhasesBehind(d, W)' /\ TokensBehind(d, W)'
  BY <1>1, <1>9, SeasonsKeep, PhasesKeep, TokensKeep DEF Behind
<1>11. BlocksBehind(d, W)' /\ WinnersBehind(d, W)' /\ FlagsBehind(d, W)'
  BY <1>1, <1>9, BlocksKeep, WinnersKeep, FlagsKeep DEF Behind
<1>12. FinalistsBehind(d, W)' /\ TickersBehind(d, W)'
  BY <1>1, <1>9, FinalistsKeep, TickersKeep DEF Behind
<1>13. \A ev \in Moves(W) : MoveFits(ev)'
  <2> SUFFICES ASSUME NEW ev \in W PROVE MoveFits(ev)'
    BY <1>9
  <2>1. PICK t \in Z : ev = StakeLog(stake, S, t)
    BY <1>5
  <2>2. /\ By(ev) = t.creator /\ ev.season = s /\ ev.amount = stake.launchInfo[t].stakeAmount
        /\ t \in S => ev.name = "StakeRefunded"
        /\ t \notin S => ev.name = "StakeForfeited"
        /\ ev.name \in {"StakeRefunded", "StakeForfeited"}
    BY <1>7, <2>1
  <2> HIDE <2>1
  <2> DEFINE c == t.creator
  <2>3. /\ t \in Tokens /\ t \in Community(tokens', s) /\ c \in Creators /\ (t \in S \/ t \in F)
        /\ SlotOf(escrow', s, c).released /\ t \in tokens /\ ~IsProtocolLaunched(t) /\ t.season = s
    BY <1>1, <1>4
  <2>4. ev.amount \in {0, AmountIn(escrow', s, c)}
    BY <1>1, <1>3, <2>2, <2>3 DEF RecordsFit, RecordFits, AmountIn, SlotOf
  <2>5. FALSE \notin StakeModes => ev.amount = AmountIn(escrow', s, c)
    <3>1. FALSE \notin StakeModes => stake.launchInfo[t].stakeAmount = stake.launchInfo[t].costPaid
      BY <1>1, <1>3, <2>3 DEF StakesKept
    <3> QED
      BY <1>1, <1>3, <2>2, <2>3, <3>1 DEF RecordsFit, RecordFits, AmountIn, SlotOf
  <2>6. \A st \in Statuses : Leaves(ev.name, st) => Says(escrow', stake', tokens', s, c, st)
    <3> SUFFICES ASSUME NEW st, Leaves(ev.name, st) PROVE InfoSays(stake'.launchInfo[t], st)
      BY <2>3 DEF Says
    <3>1. CASE t \in S
      BY <1>1, <2>2, <2>3, <3>1 DEF Leaves, InfoSays
    <3>2. CASE t \notin S
      <4>1. t \in F /\ ~stake.launchInfo[t].refunded
        BY <1>1, <2>3, <3>2 DEF Resolved
      <4> QED
        BY <1>1, <2>2, <2>3, <3>2, <4>1 DEF Leaves, InfoSays
    <3> QED
      BY <3>1, <3>2
  <2>7. s \in activated'
    BY <1>1, <1>2
  <2> QED
    BY <2>2, <2>4, <2>5, <2>6, <2>7 DEF MoveFits
<1>14. \A r \in Seasons, c \in Creators : \A st : Says(escrow, stake, tokens, r, c, st) =>
           /\ \A ev \in Moves(W) : Concerns(ev, r, c) => Finds(ev.name, st)
           /\ (\A ev \in Moves(W) : ~Concerns(ev, r, c)) => Says(escrow', stake', tokens', r, c, st)
  <2> SUFFICES ASSUME NEW r \in Seasons, NEW c \in Creators, NEW st,
                      Says(escrow, stake, tokens, r, c, st)
               PROVE  /\ \A ev \in W : Concerns(ev, r, c) => Finds(ev.name, st)
                      /\ (\A ev \in W : ~Concerns(ev, r, c)) =>
                            Says(escrow', stake', tokens', r, c, st)
    BY <1>9
  <2>1. ASSUME NEW ev \in W, Concerns(ev, r, c) PROVE Finds(ev.name, st)
    <3>1. PICK t \in Z : ev = StakeLog(stake, S, t)
      BY <1>5
    <3>2. By(ev) = t.creator /\ ev.season = s /\ ev.name \in {"StakeRefunded", "StakeForfeited"}
      BY <1>7, <3>1
    <3> HIDE <3>1
    <3>3. r = s /\ t.creator = c
      BY <2>1, <3>2 DEF Concerns
    <3>4. t \in Community(tokens, s) /\ SlotOf(escrow, s, c).released
      BY <1>4, <3>3
    <3>5. Says(escrow, stake, tokens, s, c, st)
      BY <3>3
    <3>6. PICK u \in Community(tokens, s) : u.creator = c /\ InfoSays(stake.launchInfo[u], st)
      <4>1. SlotOf(escrow, s, c).reserved /\ ~SlotOf(escrow, s, c).refunded
        BY <1>2, <3>4 DEF AllOrNothing, SlotOf
      <4> QED
        BY <3>4, <3>5, <4>1 DEF Says, Live
    <3>7. u = t
      BY <1>3, <3>3, <3>4, <3>6 DEF TokensFit
    <3> QED
      BY <1>1, <3>2, <3>6, <3>7 DEF InfoSays, Finds, Resolved
  <2>2. ASSUME \A ev \in W : ~Concerns(ev, r, c) PROVE Says(escrow', stake', tokens', r, c, st)
    <3>1. ASSUME NEW t \in Community(tokens, r), t.creator = c PROVE t \notin Z
      <4> SUFFICES ASSUME t \in Z PROVE FALSE
        OBVIOUS
      <4>1. PICK ev : ev = StakeLog(stake, S, t)
        OBVIOUS
      <4>2. By(ev) = c /\ ev.season = s /\ ev \in W
        BY <1>6, <1>7, <3>1, <4>1
      <4>3. r = s
        BY <1>4 DEF Community
      <4> QED
        BY <2>2, <4>2, <4>3 DEF Concerns
    <3>2. \A t \in Community(tokens, r) : t.creator = c =>
             /\ t \in Community(tokens', r)
             /\ stake'.launchInfo[t].refunded <=> stake.launchInfo[t].refunded
             /\ stake'.launchInfo[t].filteredEarly <=> stake.launchInfo[t].filteredEarly
      BY <1>1, <1>2, <3>1 DEF Z, Community
    <3>3. /\ SlotOf(escrow', r, c).reserved <=> SlotOf(escrow, r, c).reserved
          /\ SlotOf(escrow', r, c).released <=> SlotOf(escrow, r, c).released
          /\ SlotOf(escrow', r, c).refunded <=> SlotOf(escrow, r, c).refunded
          /\ escrow'.pendingRefunds[<<r, c>>] = escrow.pendingRefunds[<<r, c>>]
      BY <1>1
    <3> QED
      BY <3>2, <3>3, SaysSame
  <2> QED
    BY <2>1, <2>2
<1>15. RowsBehind(d, W)'
  <2>1. \A r \in Seasons, c \in Creators : AmountIn(escrow', r, c) = AmountIn(escrow, r, c)
    BY <1>1
  <2>2. \A ev, m \in Moves(W) : ev.season = m.season /\ By(ev) = By(m) => ev = m
    <3> SUFFICES ASSUME NEW ev \in W, NEW m \in W, By(ev) = By(m) PROVE ev = m
      BY <1>9
    <3>1. PICK t \in Z : ev = StakeLog(stake, S, t)
      BY <1>5
    <3>2. PICK u \in Z : m = StakeLog(stake, S, u)
      BY <1>5
    <3>3. By(ev) = t.creator /\ By(m) = u.creator
      BY <1>7, <3>1, <3>2
    <3>4. t = u
      BY <1>3, <1>4, <3>3 DEF TokensFit
    <3> QED
      BY <3>1, <3>2, <3>4
  <2>3. Named(W, "SlotReserved") = {} /\ RowsBehind(d, {}) /\ \A ev \in W : ev \in Moves(W)
    BY <1>9 DEF Behind
  <2> QED
    BY <1>13, <1>14, <2>1, <2>2, <2>3, RowsTurn
<1> QED
  BY <1>10, <1>11, <1>12, <1>15 DEF Behind

\* The logs of a reservation: the slot's, those of the tokens D and those of A.
ReserveTold(W, sl, D, A) == W = {sl} \cup {LaunchedLog(u) : u \in D} \cup A

\* A reservation: the slot's log, one for each token that the step deploys, and one
\* for the activation.
LEMMA ReserveBehind ==
  ASSUME SafeInv, SafeInv', BooksInv, ChainFits, NEW d, TablesFit(d), Behind(d, {}),
         NEW c \in Creators, NEW t \in Tickers, Reserve(c, t), NEW s, s = currentSeasonId,
         NEW held, NEW D, ReservedNow(held, s, c, D),
         NEW sl, sl.name = "SlotReserved", sl.season = s, sl.creator = c, sl.ticker = t,
         sl.amount = AmountIn(escrow', s, c),
         NEW A, \A ev \in A : ev.name = "SeasonActivated" /\ ev.season = s, \A ev, m \in A : ev = m,
         A = {} <=> activated' = activated,
         NEW W, ReserveTold(W, sl, D, A)
  PROVE  Behind(d, W)'
<1>1. /\ s \in Seasons /\ phaseOf[s] = Launch /\ s \notin aborted
      /\ ~SlotOf(escrow, s, c).reserved /\ seasonTickers[s][t] = NoOne
      /\ seasonTickers' = [seasonTickers EXCEPT ![s][t] = c]
      /\ UNCHANGED <<currentSeasonId, phaseOf, finalists, winnerTickers, tickerBlocklist, aborted>>
  BY ReserveFacts
<1>2. /\ SlotOf(held, s, c).reserved /\ ~SlotOf(held, s, c).released /\ ~SlotOf(held, s, c).refunded
      /\ \A r \in Seasons, k \in Creators : r # s \/ k # c => SlotOf(held, r, k) = SlotOf(escrow, r, k)
      /\ Deploys(D, s) /\ ReleasedFor(escrow', held, D, s)
      /\ \A u \in D : Live(SlotOf(held, s, u.creator))
      /\ escrow'.pendingRefunds = escrow.pendingRefunds
      /\ activated' = activated \/ (s \notin activated /\ activated' = activated \cup {s})
  BY DEF ReservedNow, ReleasedFor
<1>3. /\ D \subseteq Tokens /\ D \cap tokens = {} /\ tokens' = tokens \cup D
      /\ \A u \in D : /\ u.season = s /\ u.creator \in Creators /\ u \in Community(tokens', s)
                      /\ ~stake'.launchInfo[u].refunded /\ ~stake'.launchInfo[u].filteredEarly
      /\ \A u \in Tokens \ D : stake'.launchInfo[u] = stake.launchInfo[u]
      /\ \A u, v \in D : u.creator = v.creator => u = v
  <2>1. \A u \in D : u.season = s /\ u.creator \in Creators /\ u \in tokens'
    BY <1>2 DEF Deploys
  <2>2. \A u \in D : u \in Community(tokens', s)
    BY <2>1, TokenConstants DEF Community, IsProtocolLaunched
  <2> QED
    BY <1>2, <2>2 DEF Deploys
<1>4. /\ tokens \subseteq Tokens /\ AllOrNothing(escrow) /\ AllOrNothing(escrow')
      /\ escrow.activated = activated /\ escrow'.aborted = aborted /\ TokensFit(tokens, escrow)
  BY <1>1 DEF SafeInv, TypeOK, OneOutcome, BooksInv
<1> DEFINE L == {LaunchedLog(u) : u \in D}
<1>5. ASSUME NEW u \in D, NEW ev, ev = LaunchedLog(u)
      PROVE  ev.name = "TokenLaunched" /\ ev.season = s /\ ev.token = u /\ By(ev) = u.creator
  BY <1>3, <1>5 DEF LaunchedLog, By
<1>6. (\A ev \in L : \E u \in D : ev = LaunchedLog(u)) /\ \A u \in D : LaunchedLog(u) \in L
  OBVIOUS
<1>7. W = {sl} \cup L \cup A
  BY DEF ReserveTold
<1> HIDE DEF L
<1>8. \A ev \in L : ev.name = "TokenLaunched" /\ ev.season = s /\ ev.token \in D /\ By(ev) = ev.token.creator
                    /\ By(ev) \in Creators /\ ev = LaunchedLog(ev.token)
  <2> SUFFICES ASSUME NEW ev \in L
               PROVE  /\ ev.name = "TokenLaunched" /\ ev.season = s /\ ev.token \in D
                      /\ By(ev) = ev.token.creator /\ By(ev) \in Creators /\ ev = LaunchedLog(ev.token)
    OBVIOUS
  <2>1. PICK u \in D : ev = LaunchedLog(u)
    BY <1>6
  <2>2. ev.name = "TokenLaunched" /\ ev.season = s /\ ev.token = u /\ By(ev) = u.creator
    BY <1>5, <2>1
  <2> QED
    BY <1>3, <2>1, <2>2
<1>9. /\ Named(W, "SlotReserved") = {sl} /\ Named(W, "TokenLaunched") = L
      /\ Named(W, "SeasonActivated") = A /\ Moves(W) = L
      /\ \A n : n \notin {"SlotReserved", "TokenLaunched", "SeasonActivated"} => Named(W, n) = {}
  BY <1>7, <1>8 DEF Named, Moves, MoveNames
<1>10. SeasonsBehind(d, W)' /\ PhasesBehind(d, W)'
  BY <1>1, <1>9, SeasonsKeep, PhasesKeep DEF Behind
<1>11. BlocksBehind(d, W)' /\ WinnersBehind(d, W)'
  BY <1>1, <1>9, BlocksKeep, WinnersKeep DEF Behind
<1>12. FinalistsBehind(d, W)'
  <2>1. \A u \in tokens' \ tokens : <<u.season, u>> \notin finalists
    BY <1>1, <1>3 DEF ChainFits, ListsFit
  <2> QED
    BY <1>1, <1>9, <2>1, FinalistsKeep DEF Behind
<1>13. \A n : Named({}, n) = {}
  BY DEF Named
<1>14. TokensBehind(d, W)'
  <2>1. \A u \in Tokens : u \in tokens <=> u \in d.token
    BY <1>13 DEF Behind, TokensBehind
  <2>2. \A u \in Tokens : LaunchedLog(u) \in W <=> u \in D
    <3> SUFFICES ASSUME NEW u \in Tokens, LaunchedLog(u) \in W PROVE u \in D
      BY <1>6, <1>7
    <3>1. LaunchedLog(u).name = "TokenLaunched" /\ LaunchedLog(u).token = u
      BY DEF LaunchedLog
    <3>2. LaunchedLog(u) \in L
      BY <1>9, <3>1 DEF Named
    <3> QED
      BY <1>8, <3>1, <3>2
  <2> QED
    BY <1>3, <1>8, <1>9, <2>1, <2>2 DEF TokensBehind
<1>15. TickersBehind(d, W)'
  <2>1. \A r \in Seasons, x \in Tickers, k \in Creators :
           Claim(r, x, k) \in d.seasonTicker <=> seasonTickers[r][x] = k /\ r \notin aborted
    BY <1>13 DEF Behind, TickersBehind
  <2>2. \A r \in Seasons, x \in Tickers, k \in Creators :
           seasonTickers'[r][x] = k <=> seasonTickers[r][x] = k \/ (r = s /\ x = t /\ k = c)
    <3>1. seasonTickers \in [Seasons -> [Tickers -> Creators \cup {Owner, NoOne}]]
      BY DEF SafeInv, TypeOK
    <3>2. \A r \in Seasons, x \in Tickers :
             seasonTickers'[r][x] = IF r = s /\ x = t THEN c ELSE seasonTickers[r][x]
      BY <1>1, <3>1
    <3> QED
      BY <1>1, <3>2, LauncherConstants
  <2>3. \A row \in d.seasonTicker : ~(row.season = s /\ row.ticker = t)
    <3> SUFFICES ASSUME NEW row \in d.seasonTicker, row.season = s, row.ticker = t PROVE FALSE
      OBVIOUS
    <3>1. row \in [season: Seasons, ticker: Tickers, creator: Creators]
      BY DEF TablesFit, Tables
    <3>2. row = Claim(s, t, row.creator) /\ row.creator \in Creators
      BY <3>1 DEF Claim
    <3> QED
      BY <1>1, <2>1, <3>2, LauncherConstants
  <2>4. \A r \in Seasons, x \in Tickers, k \in Creators :
           /\ (\E ev \in {sl} : ev.season = r /\ ev.ticker = x /\ ev.creator = k) <=> r = s /\ x = t /\ k = c
           /\ Claim(r, x, k) \in d.seasonTicker \/ (r = s /\ x = t /\ k = c)
                 <=> seasonTickers'[r][x] = k /\ r \notin aborted'
    BY <1>1, <2>1, <2>2
  <2>5. /\ Named(W, "SlotReserved") = {sl} /\ Named(W, "SeasonAborted") = {}
        /\ \A ev \in {sl}, row \in d.seasonTicker : ~(row.season = ev.season /\ row.ticker = ev.ticker)
    BY <1>9, <2>3
  <2> QED
    BY <2>4, <2>5 DEF TickersBehind
<1>16. FlagsBehind(d, W)'
  <2>1. \A r \in Seasons : /\ d.summary[r].activated <=> r \in activated
                           /\ d.summary[r].aborted <=> r \in aborted
    BY <1>13 DEF Behind, FlagsBehind
  <2>2. \A r \in Seasons : r \in activated <=> r \in activated' /\ \A ev \in A : ev.season # r
    <3>1. CASE A = {}
      BY <3>1
    <3>2. CASE A # {}
      BY <1>2, <3>2
    <3> QED
      BY <3>1, <3>2
  <2>3. ASSUME A # {} PROVE s \in activated' /\ \A k \in Creators : ~Says(escrow', stake', tokens', s, k, "REFUNDED")
    <3>1. s \in activated' /\ s \notin activated
      BY <1>2, <2>3
    <3> SUFFICES ASSUME NEW k \in Creators PROVE ~Says(escrow', stake', tokens', s, k, "REFUNDED")
      BY <3>1
    <3>2. ~SlotOf(escrow', s, k).refunded
      BY <1>1, <1>4 DEF AllOrNothing, SlotOf
    <3>3. ASSUME NEW u \in Community(tokens', s) PROVE u \in D
      <4> SUFFICES ASSUME u \in tokens PROVE FALSE
        BY <1>3, <3>3 DEF Community
      <4>1. u \in Community(tokens, s) /\ u \in Tokens /\ ~IsProtocolLaunched(u)
        BY <1>4, <3>3 DEF Community
      <4>2. u.creator \in Creators
        BY <4>1 DEF Tokens, IsProtocolLaunched
      <4>3. SlotOf(escrow, s, u.creator).released
        BY <1>1, <1>4, <4>1 DEF TokensFit
      <4> QED
        BY <1>1, <1>4, <3>1, <4>2, <4>3 DEF AllOrNothing, SlotOf
    <3>4. \A u \in Community(tokens', s) : ~InfoSays(stake'.launchInfo[u], "REFUNDED")
      BY <1>3, <3>3 DEF InfoSays
    <3> QED
      BY <3>2, <3>4 DEF Says
  <2>4. \A ev \in A : /\ ev.season \in activated'
                      /\ \A k \in Creators : ~Says(escrow', stake', tokens', ev.season, k, "REFUNDED")
    BY <2>3
  <2>5. Named(W, "SeasonActivated") = A /\ Named(W, "SeasonAborted") = {} /\ aborted' = aborted
    BY <1>1, <1>9
  <2> QED
    BY <2>1, <2>2, <2>4, <2>5 DEF FlagsBehind
<1>17. RowsBehind(d, W)'
  <2>1. \A ev \in Named(W, "SlotReserved") : SlotLogFits(ev, W)'
    <3>1. By(sl) = c
      BY DEF By
    <3>2. \A m \in Moves(W) : m.name = "TokenLaunched"
      BY <1>8, <1>9
    <3>3. (\A m \in Moves(W) : ~Concerns(m, s, c)) => Says(escrow', stake', tokens', s, c, "PENDING")
      <4> SUFFICES ASSUME \A m \in L : ~Concerns(m, s, c) PROVE Live(SlotOf(escrow', s, c))
        BY <1>9 DEF Says
      <4>1. \A u \in D : u.creator # c
        <5> SUFFICES ASSUME NEW u \in D, u.creator = c PROVE FALSE
          OBVIOUS
        <5>1. PICK m : m = LaunchedLog(u)
          OBVIOUS
        <5>2. m \in L /\ m.season = s /\ By(m) = c
          BY <1>5, <1>6, <5>1
        <5> QED
          BY <5>2 DEF Concerns
      <4> QED
        BY <1>1, <1>2, <4>1 DEF Live, ReleasedFor
    <3> QED
      BY <1>1, <1>9, <3>2, <3>3 DEF SlotLogFits
  <2>2. \A ev \in Moves(W) : MoveFits(ev)'
    <3> SUFFICES ASSUME NEW ev \in L PROVE MoveFits(ev)'
      BY <1>9
    <3> DEFINE u == ev.token
               k == u.creator
    <3>1. ev.name = "TokenLaunched" /\ ev.season = s /\ u \in D /\ By(ev) = k /\ k \in Creators
      BY <1>8
    <3> HIDE DEF u
    <3>2. SlotOf(escrow', s, k).released
      BY <1>1, <1>2, <3>1 DEF ReleasedFor
    <3>3. u \in Community(tokens', s) /\ InfoSays(stake'.launchInfo[u], "RELEASED")
      BY <1>3, <3>1 DEF InfoSays
    <3>4. Says(escrow', stake', tokens', s, k, "RELEASED")
      BY <3>2, <3>3 DEF Says
    <3>5. \A st \in Statuses : Leaves(ev.name, st) => st = "RELEASED"
      BY <3>1 DEF Leaves
    <3> QED
      BY <1>1, <3>1, <3>4, <3>5 DEF MoveFits
  <2>3. \A ev, m \in Moves(W) : ev.season = m.season /\ By(ev) = By(m) => ev = m
    BY <1>3, <1>8, <1>9
  <2>4. \A r \in Seasons, k \in Creators : (\E ev \in Named(W, "SlotReserved") : Concerns(ev, r, k)) =>
           \A st : Says(escrow, stake, tokens, r, k, st) => st = "NONE"
    <3> SUFFICES ASSUME NEW st, Says(escrow, stake, tokens, s, c, st) PROVE st = "NONE"
      BY <1>9 DEF Concerns, By
    <3> QED
      BY <1>1, <1>4, SaysNone
  <2>5. ASSUME NEW r \in Seasons, NEW k \in Creators, \A ev \in Named(W, "SlotReserved") : ~Concerns(ev, r, k)
        PROVE  /\ AmountIn(escrow', r, k) = AmountIn(escrow, r, k)
               /\ \A st : Says(escrow, stake, tokens, r, k, st) =>
                     /\ \A ev \in Moves(W) : Concerns(ev, r, k) => Finds(ev.name, st)
                     /\ (\A ev \in Moves(W) : ~Concerns(ev, r, k)) =>
                           Says(escrow', stake', tokens', r, k, st)
    <3>1. r # s \/ k # c
      BY <1>9, <2>5 DEF Concerns, By
    <3>2. SlotOf(held, r, k) = SlotOf(escrow, r, k)
      BY <1>2, <3>1
    <3>3. AmountIn(escrow', r, k) = AmountIn(escrow, r, k)
      BY <1>2, <3>2 DEF ReleasedFor, SlotOf, AmountIn
    <3> SUFFICES ASSUME NEW st, Says(escrow, stake, tokens, r, k, st)
                 PROVE  /\ \A ev \in L : Concerns(ev, r, k) => Finds(ev.name, st)
                        /\ (\A ev \in L : ~Concerns(ev, r, k)) => Says(escrow', stake', tokens', r, k, st)
      BY <1>9, <3>3
    <3>4. ASSUME NEW ev \in L, Concerns(ev, r, k) PROVE Finds(ev.name, st)
      <4>1. r = s /\ ev.token \in D /\ ev.token.creator = k /\ ev.name = "TokenLaunched"
        BY <1>8, <3>4 DEF Concerns
      <4>2. Live(SlotOf(escrow, s, k)) /\ Says(escrow, stake, tokens, s, k, st)
        BY <1>2, <3>2, <4>1
      <4>3. st = "PENDING"
        BY <1>1, <4>2, SaysPending
      <4> QED
        BY <4>1, <4>3 DEF Finds
    <3>5. ASSUME \A ev \in L : ~Concerns(ev, r, k) PROVE Says(escrow', stake', tokens', r, k, st)
      <4>1. ~(r = s /\ \E u \in D : u.creator = k)
        <5> SUFFICES ASSUME r = s, NEW u \in D, u.creator = k PROVE FALSE
          OBVIOUS
        <5>1. PICK m : m = LaunchedLog(u)
          OBVIOUS
        <5>2. m \in L /\ m.season = s /\ By(m) = k
          BY <1>5, <1>6, <5>1
        <5> QED
          BY <3>5, <5>2 DEF Concerns
      <4>2. /\ SlotOf(escrow', r, k).reserved <=> SlotOf(escrow, r, k).reserved
            /\ SlotOf(escrow', r, k).released <=> SlotOf(escrow, r, k).released
            /\ SlotOf(escrow', r, k).refunded <=> SlotOf(escrow, r, k).refunded
            /\ escrow'.pendingRefunds[<<r, k>>] = escrow.pendingRefunds[<<r, k>>]
        BY <1>2, <3>2, <4>1 DEF ReleasedFor
      <4>3. \A u \in Community(tokens, r) : u.creator = k =>
               /\ u \in Community(tokens', r)
               /\ stake'.launchInfo[u].refunded <=> stake.launchInfo[u].refunded
               /\ stake'.launchInfo[u].filteredEarly <=> stake.launchInfo[u].filteredEarly
        BY <1>3, <1>4 DEF Community
      <4> QED
        BY <4>2, <4>3, SaysSame
    <3> QED
      BY <3>4, <3>5
  <2>6. RowsBehind(d, {}) /\ \A ev \in W : ev.name \in MoveNames => ev \in Moves(W)
    BY <1>7, <1>8, <1>9 DEF Behind, MoveNames
  <2> QED
    <3>1. \A r \in Seasons, k \in Creators : (\A ev \in Named(W, "SlotReserved") : ~Concerns(ev, r, k)) =>
             /\ AmountIn(escrow', r, k) = AmountIn(escrow, r, k)
             /\ \A st : Says(escrow, stake, tokens, r, k, st) =>
                   /\ \A ev \in Moves(W) : Concerns(ev, r, k) => Finds(ev.name, st)
                   /\ (\A ev \in Moves(W) : ~Concerns(ev, r, k)) =>
                         Says(escrow', stake', tokens', r, k, st)
      BY <2>5
    <3> QED
      BY <2>1, <2>2, <2>3, <2>4, <2>6, <3>1, RowsTurn
<1> QED
  BY <1>10, <1>11, <1>12, <1>14, <1>15, <1>16, <1>17 DEF Behind

(***************************************************************************)
(* The logs of a transaction as a sequence                                 *)
(***************************************************************************)

\* f names each member of S once.
Lists(f, S) ==
    /\ f \in [1..Cardinality(S) -> S]
    /\ \A x \in S : \E i \in 1..Cardinality(S) : f[i] = x
    /\ \A i, j \in 1..Cardinality(S) : f[i] = f[j] => i = j

\* Logs that may follow others, each of them once.
Follows(L) ==
    /\ \E S : L \in Seq(S)
    /\ \A i \in DOMAIN L : L[i].name \in LogNames \ LonelyNames /\ L[i].name # "SlotReserved"
    /\ \A i, j \in DOMAIN L : L[i] = L[j] => i = j

\* A log g[x] for each member x of S, and those logs in the order f.
Tells(g, S) ==
    /\ \A x \in S : g[x].name \in LogNames \ LonelyNames /\ g[x].name # "SlotReserved"
    /\ \A x, y \in S : g[x] = g[y] => x = y

LogsOf(g, S) == {g[x] : x \in S}

InThatOrder(L, g, f, S) ==
    /\ \E V : L \in [1..Cardinality(S) -> V]
    /\ \A i \in 1..Cardinality(S) : L[i] = g[f[i]]

LEMMA OntoLists ==
  ASSUME NEW S, IsFiniteSet(S), NEW f \in [1..Cardinality(S) -> S],
         \A x \in S : \E i \in 1..Cardinality(S) : f[i] = x
  PROVE  Lists(f, S)
<1>1. PICK n : n = Cardinality(S)
  OBVIOUS
<1>2. n \in Nat /\ IsFiniteSet(1..n) /\ Cardinality(1..n) = n
  BY <1>1, FS_CardinalityType, FS_Interval
<1>3. f \in Surjection(1..n, S)
  BY <1>1 DEF Surjection
<1>4. f \in Injection(1..n, S)
  BY <1>1, <1>2, <1>3, FS_SurjSameCardinalityImpliesInj
<1> QED
  BY <1>1, <1>4 DEF Injection, IsInjective, Lists

LEMMA ListedLists ==
  ASSUME NEW S, IsFiniteSet(S)
  PROVE  Lists(Listed(S), S)
<1>1. PICK f \in Bijection(1..Cardinality(S), S) : TRUE
  BY FS_CardinalityType DEF ExistsBijection
<1>2. f \in [1..Cardinality(S) -> S] /\ \A x \in S : \E i \in DOMAIN f : f[i] = x
  BY <1>1 DEF Bijection, Surjection, Injection
<1>3. Listed(S) \in [1..Cardinality(S) -> S] /\ \A x \in S : \E i \in DOMAIN Listed(S) : Listed(S)[i] = x
  BY <1>2 DEF Listed
<1> QED
  BY <1>3, OntoLists

\* The reservers of a season in the order of their slots.
SlotOrder(e, s) ==
    [i \in 1..ReservationCountOf(e, s) |->
        CHOOSE c \in Reservers(e, s) : e.escrows[<<s, c>>].slotIndex = i - 1]

LEMMA SlotOrderLists ==
  ASSUME NEW e, SlotsNumbered(e), NEW s \in Seasons
  PROVE  Lists(SlotOrder(e, s), Reservers(e, s))
<1>1. IsFiniteSet(Reservers(e, s))
  BY ReserversFinite
<1> DEFINE R == Reservers(e, s)
           n == Cardinality(R)
           x == [c \in R |-> SlotOf(e, s, c).slotIndex]
           f == SlotOrder(e, s)
<1>2. n \in Nat /\ n = ReservationCountOf(e, s)
  BY <1>1, FS_CardinalityType DEF ReservationCountOf
<1>3. {SlotOf(e, s, c).slotIndex : c \in R} = 0..(n - 1)
  BY <1>2 DEF SlotsNumbered
<1>4. x \in Surjection(R, 0..(n - 1))
  BY <1>3 DEF Surjection
<1> HIDE DEF x
<1>5. Cardinality(0..(n - 1)) = n
  <2>1. n - 1 \in Int /\ (0 > n - 1 => n = 0) /\ (~(0 > n - 1) => n - 1 - 0 + 1 = n)
    BY <1>2
  <2> QED
    BY <1>2, <2>1, FS_Interval
<1>6. x \in Injection(R, 0..(n - 1))
  BY <1>1, <1>4, <1>5, FS_SurjSameCardinalityImpliesInj
<1>7. \A b, c \in R : SlotOf(e, s, b).slotIndex = SlotOf(e, s, c).slotIndex => b = c
  BY <1>6 DEF Injection, IsInjective, x
<1>8. \A i \in 1..n : f[i] \in R /\ SlotOf(e, s, f[i]).slotIndex = i - 1
  <2> SUFFICES ASSUME NEW i \in 1..n PROVE f[i] \in R /\ SlotOf(e, s, f[i]).slotIndex = i - 1
    OBVIOUS
  <2>1. i - 1 \in 0..(n - 1)
    BY <1>2
  <2>2. \E c \in R : SlotOf(e, s, c).slotIndex = i - 1
    BY <1>3, <2>1
  <2>3. f[i] = CHOOSE c \in R : SlotOf(e, s, c).slotIndex = i - 1
    BY <1>2 DEF SlotOrder, SlotOf
  <2> QED
    BY <2>2, <2>3
<1>9. f \in [1..n -> R]
  BY <1>2, <1>8 DEF SlotOrder
<1>10. \A c \in R : \E i \in 1..n : f[i] = c
  <2> SUFFICES ASSUME NEW c \in R PROVE \E i \in 1..n : f[i] = c
    OBVIOUS
  <2>1. PICK k : k = SlotOf(e, s, c).slotIndex
    OBVIOUS
  <2>2. k \in 0..(n - 1)
    BY <1>3, <2>1
  <2>3. k + 1 \in 1..n /\ (k + 1) - 1 = k
    BY <1>2, <2>2
  <2>4. f[k + 1] = c
    BY <1>7, <1>8, <2>1, <2>3
  <2> QED
    BY <2>3, <2>4
<1> HIDE DEF R, n, f
<1> QED
  BY <1>1, <1>9, <1>10, OntoLists DEF R, n, f

\* One listing after another.
LEMMA JoinLists ==
  ASSUME NEW S, NEW T, IsFiniteSet(S), IsFiniteSet(T), S \cap T = {},
         NEW f, NEW g, Lists(f, S), Lists(g, T)
  PROVE  /\ Lists(f \o g, S \cup T) /\ Len(f \o g) = Cardinality(S \cup T)
         /\ \A i \in 1..Len(f \o g) : (f \o g)[i] \in S <=> i <= Cardinality(S)
<1>1. PICK m, n : m = Cardinality(S) /\ n = Cardinality(T)
  OBVIOUS
<1>2. m \in Nat /\ n \in Nat
  BY <1>1, FS_CardinalityType
<1>3. IsFiniteSet(S \cup T) /\ Cardinality(S \cup T) = m + n
  <2>1. /\ IsFiniteSet(S \cup T)
        /\ Cardinality(S \cup T) = Cardinality(S) + Cardinality(T) - Cardinality(S \cap T)
    BY FS_Union
  <2>2. Cardinality(S \cap T) = 0
    BY FS_EmptySet
  <2> QED
    BY <1>1, <1>2, <2>1, <2>2
<1>4. f \in [1..m -> S] /\ g \in [1..n -> T]
  BY <1>1 DEF Lists
<1>5. f \in Seq(S \cup T) /\ g \in Seq(S \cup T) /\ Len(f) = m /\ Len(g) = n
  BY <1>2, <1>4
<1>6. PICK h : h = f \o g
  OBVIOUS
<1>7. /\ h \in Seq(S \cup T) /\ Len(h) = m + n
      /\ \A i \in 1..(m + n) : h[i] = IF i <= m THEN f[i] ELSE g[i - m]
  <2>1. h \in Seq(S \cup T)
    BY <1>5, <1>6
  <2>2. Len(h) = m + n
    <3>1. Len(f \o g) = Len(f) + Len(g)
      BY <1>5
    <3> QED
      BY <1>5, <1>6, <3>1
  <2>3. \A i \in 1..(m + n) : h[i] = IF i <= m THEN f[i] ELSE g[i - m]
    BY <1>5, <1>6
  <2> QED
    BY <2>1, <2>2, <2>3
<1>8. h \in [1..(m + n) -> S \cup T]
  BY <1>7
<1>9. \A i \in 1..(m + n) : /\ i <= m => i \in 1..m /\ h[i] = f[i]
                            /\ ~(i <= m) => i - m \in 1..n /\ h[i] = g[i - m]
  BY <1>2, <1>7
<1>10. \A x \in S \cup T : \E i \in 1..(m + n) : h[i] = x
  <2>1. ASSUME NEW x \in S PROVE \E i \in 1..(m + n) : h[i] = x
    <3>1. PICK i \in 1..m : f[i] = x
      BY <1>1 DEF Lists
    <3>2. i \in 1..(m + n) /\ i <= m
      BY <1>2
    <3> QED
      BY <1>9, <3>1, <3>2
  <2>2. ASSUME NEW x \in T PROVE \E i \in 1..(m + n) : h[i] = x
    <3>1. PICK i \in 1..n : g[i] = x
      BY <1>1 DEF Lists
    <3>2. i + m \in 1..(m + n) /\ ~(i + m <= m) /\ (i + m) - m = i
      BY <1>2
    <3>3. h[i + m] = g[i]
      BY <1>9, <3>2
    <3> QED
      BY <3>1, <3>2, <3>3
  <2> QED
    BY <2>1, <2>2
<1>11. Lists(h, S \cup T)
  BY <1>3, <1>8, <1>10, OntoLists
<1>12. \A i \in 1..(m + n) : h[i] \in S <=> i <= m
  BY <1>4, <1>9
<1> QED
  BY <1>1, <1>3, <1>6, <1>7, <1>11, <1>12

LEMMA MapLogs ==
  ASSUME NEW S, IsFiniteSet(S), NEW f, Lists(f, S), NEW g, Tells(g, S), NEW L, InThatOrder(L, g, f, S)
  PROVE  Follows(L) /\ Waiting(L) = LogsOf(g, S)
<1> USE DEF Tells
<1>0. PICK V : /\ L \in [1..Cardinality(S) -> V]
               /\ \A i \in 1..Cardinality(S) : L[i] = g[f[i]]
  BY DEF InThatOrder
<1>1. PICK n : n = Cardinality(S)
  OBVIOUS
<1>2. n \in Nat
  BY <1>1, FS_CardinalityType
<1>3. DOMAIN L = 1..n /\ \A i \in 1..n : L[i] = g[f[i]] /\ f[i] \in S
  BY <1>0, <1>1 DEF Lists
<1>4. \A x \in S : \E i \in 1..n : f[i] = x
  BY <1>1 DEF Lists
<1>5. \A i, j \in 1..n : f[i] = f[j] => i = j
  BY <1>1 DEF Lists
<1>6. L \in Seq(V)
  BY <1>0, <1>1, <1>2
<1>7. Waiting(L) = LogsOf(g, S)
  BY <1>3, <1>4 DEF Waiting, LogsOf
<1>8. \A i, j \in DOMAIN L : L[i] = L[j] => i = j
  BY <1>3, <1>5
<1>9. \A i \in DOMAIN L : L[i].name \in LogNames \ LonelyNames /\ L[i].name # "SlotReserved"
  BY <1>3
<1> QED
  BY <1>6, <1>7, <1>8, <1>9 DEF Follows

LEMMA FollowsFits ==
  ASSUME NEW L, Follows(L) PROVE LogFits(L)
  BY DEF Follows, LogFits

LEMMA NoLogs == Follows(<<>>) /\ Waiting(<<>>) = {}
<1>1. <<>> \in Seq({}) /\ DOMAIN <<>> = {}
  OBVIOUS
<1> QED
  BY <1>1 DEF Follows, Waiting

LEMMA OneFollows ==
  ASSUME NEW ev, ev.name \in LogNames \ LonelyNames, ev.name # "SlotReserved"
  PROVE  Follows(<<ev>>) /\ Waiting(<<ev>>) = {ev}
<1>1. <<ev>> \in Seq({ev}) /\ DOMAIN <<ev>> = {1} /\ <<ev>>[1] = ev
  OBVIOUS
<1> QED
  BY <1>1 DEF Follows, Waiting

LEMMA OneFits ==
  ASSUME NEW ev, ev.name \in LogNames
  PROVE  LogFits(<<ev>>) /\ Waiting(<<ev>>) = {ev}
<1>1. PICK L : L = <<ev>>
  OBVIOUS
<1>2. L \in Seq({ev}) /\ DOMAIN L = {1} /\ L[1] = ev /\ Len(L) = 1
  BY <1>1
<1>3. LogFits(L) /\ Waiting(L) = {ev}
  BY <1>2 DEF LogFits, Waiting
<1> QED
  BY <1>1, <1>3

LEMMA JoinFollows ==
  ASSUME NEW L, NEW M, Follows(L), Follows(M), Waiting(L) \cap Waiting(M) = {}
  PROVE  Follows(L \o M) /\ Waiting(L \o M) = Waiting(L) \cup Waiting(M)
<1>1. PICK S : L \in Seq(S)
  BY DEF Follows
<1>2. PICK T : M \in Seq(T)
  BY DEF Follows
<1>3. L \in Seq(S \cup T) /\ M \in Seq(S \cup T)
  BY <1>1, <1>2
<1>4. PICK m, n : m = Len(L) /\ n = Len(M)
  OBVIOUS
<1>5. m \in Nat /\ n \in Nat /\ DOMAIN L = 1..m /\ DOMAIN M = 1..n
  BY <1>1, <1>2, <1>4
<1>6. PICK h : h = L \o M
  OBVIOUS
<1>7. /\ h \in Seq(S \cup T) /\ DOMAIN h = 1..(m + n)
      /\ \A i \in 1..(m + n) : h[i] = IF i <= m THEN L[i] ELSE M[i - m]
  BY <1>3, <1>4, <1>5, <1>6
<1>8. \A i \in 1..(m + n) : /\ i <= m => i \in 1..m /\ h[i] = L[i]
                            /\ ~(i <= m) => i - m \in 1..n /\ h[i] = M[i - m]
  BY <1>5, <1>7
<1>9. (\A i \in 1..m : L[i] \in Waiting(L)) /\ \A i \in 1..n : M[i] \in Waiting(M)
  BY <1>5 DEF Waiting
<1>10. \A i, j \in 1..(m + n) : h[i] = h[j] => i = j
  <2> SUFFICES ASSUME NEW i \in 1..(m + n), NEW j \in 1..(m + n), h[i] = h[j] PROVE i = j
    OBVIOUS
  <2>1. CASE i <= m /\ j <= m
    BY <1>5, <1>8, <2>1 DEF Follows
  <2>2. CASE ~(i <= m) /\ ~(j <= m)
    <3>1. i - m \in 1..n /\ j - m \in 1..n /\ M[i - m] = M[j - m]
      BY <1>8, <2>2
    <3>2. \A k, l \in 1..n : M[k] = M[l] => k = l
      BY <1>5 DEF Follows
    <3>3. i - m = j - m
      BY <3>1, <3>2
    <3> QED
      BY <1>5, <3>3
  <2>3. CASE (i <= m) # (j <= m)
    BY <1>8, <1>9, <2>3
  <2> QED
    BY <2>1, <2>2, <2>3
<1>11. \A i \in 1..(m + n) : h[i].name \in LogNames \ LonelyNames /\ h[i].name # "SlotReserved"
  BY <1>5, <1>8 DEF Follows
<1>12. Waiting(h) = Waiting(L) \cup Waiting(M)
  <2>1. \A i \in 1..m : i \in 1..(m + n) /\ h[i] = L[i]
    BY <1>5, <1>8
  <2>2. \A i \in 1..n : i + m \in 1..(m + n) /\ h[i + m] = M[i]
    <3> SUFFICES ASSUME NEW i \in 1..n PROVE i + m \in 1..(m + n) /\ h[i + m] = M[i]
      OBVIOUS
    <3>1. i + m \in 1..(m + n) /\ ~(i + m <= m) /\ (i + m) - m = i
      BY <1>5
    <3> QED
      BY <1>8, <3>1
  <2>3. Waiting(h) = {h[i] : i \in 1..(m + n)} /\ Waiting(L) = {L[i] : i \in 1..m}
        /\ Waiting(M) = {M[i] : i \in 1..n}
    BY <1>5, <1>7 DEF Waiting
  <2> QED
    BY <1>8, <2>1, <2>2, <2>3
<1>13. Follows(h)
  BY <1>7, <1>10, <1>11 DEF Follows
<1> QED
  BY <1>6, <1>12, <1>13

\* The log of a slot, and others after it.
LEMMA SlotFirst ==
  ASSUME NEW ev, ev.name = "SlotReserved", NEW M, Follows(M)
  PROVE  LogFits(<<ev>> \o M) /\ Waiting(<<ev>> \o M) = {ev} \cup Waiting(M)
<1>1. PICK T : M \in Seq(T)
  BY DEF Follows
<1>2. <<ev>> \in Seq({ev} \cup T) /\ M \in Seq({ev} \cup T) /\ Len(<<ev>>) = 1 /\ <<ev>>[1] = ev
  BY <1>1
<1>3. PICK n : n = Len(M)
  OBVIOUS
<1>4. n \in Nat /\ DOMAIN M = 1..n
  BY <1>1, <1>3
<1>5. PICK h : h = <<ev>> \o M
  OBVIOUS
<1>6. /\ h \in Seq({ev} \cup T) /\ DOMAIN h = 1..(1 + n)
      /\ \A i \in 1..(1 + n) : h[i] = IF i <= 1 THEN <<ev>>[i] ELSE M[i - 1]
  BY <1>2, <1>3, <1>4, <1>5
<1>7. h[1] = ev /\ \A i \in 1..(1 + n) : i # 1 => i > 1 /\ i - 1 \in 1..n /\ h[i] = M[i - 1]
  BY <1>2, <1>4, <1>6
<1>8. \A i \in 1..n : i + 1 \in 1..(1 + n) /\ h[i + 1] = M[i]
  <2> SUFFICES ASSUME NEW i \in 1..n PROVE i + 1 \in 1..(1 + n) /\ h[i + 1] = M[i]
    OBVIOUS
  <2>1. i + 1 \in 1..(1 + n) /\ i + 1 # 1 /\ (i + 1) - 1 = i
    BY <1>4
  <2> QED
    BY <1>7, <2>1
<1>9. \A i \in 1..n : M[i].name \in LogNames \ LonelyNames /\ M[i].name # "SlotReserved"
  BY <1>4 DEF Follows
<1>10. "SlotReserved" \in LogNames \ LonelyNames
  BY DEF LogNames, LonelyNames
<1>11. \A i \in 1..(1 + n) : /\ h[i].name \in LogNames \ LonelyNames
                             /\ i > 1 => h[i].name # "SlotReserved"
  BY <1>7, <1>9, <1>10
<1>12. \A i, j \in 1..(1 + n) : h[i] = h[j] => i = j
  <2> SUFFICES ASSUME NEW i \in 1..(1 + n), NEW j \in 1..(1 + n), h[i] = h[j] PROVE i = j
    OBVIOUS
  <2>1. CASE i = 1 \/ j = 1
    BY <1>7, <1>9, <2>1
  <2>2. CASE i # 1 /\ j # 1
    <3>1. i - 1 = j - 1
      BY <1>4, <1>7, <2>2 DEF Follows
    <3> QED
      BY <1>4, <3>1
  <2> QED
    BY <2>1, <2>2
<1>13. Waiting(h) = {ev} \cup Waiting(M)
  <2>1. Waiting(h) = {h[i] : i \in 1..(1 + n)} /\ Waiting(M) = {M[i] : i \in 1..n}
    BY <1>4, <1>6 DEF Waiting
  <2>2. 1 \in 1..(1 + n)
    BY <1>4
  <2> QED
    BY <1>7, <1>8, <2>1, <2>2
<1>14. LogFits(h)
  BY <1>6, <1>11, <1>12 DEF LogFits
<1> QED
  BY <1>5, <1>13, <1>14

\* The logs of an abort are one for each reserver, and SeasonAborted.
LEMMA AbortLogsFit ==
  ASSUME NEW e, e = escrow', SlotsNumbered(e), NEW s \in Seasons,
         NEW ab, ab = [name |-> "SeasonAborted", season |-> s]
  PROVE  /\ LogFits(AbortLogs(s))
         /\ Waiting(AbortLogs(s)) = {RefundLog(e, s, k) : k \in Reservers(e, s)} \cup {ab}
<1> DEFINE R == Reservers(e, s)
           f == SlotOrder(e, s)
           g == [k \in R |-> RefundLog(e, s, k)]
           L == [i \in 1..Cardinality(R) |-> RefundLog(e, s, f[i])]
<1>1. IsFiniteSet(R) /\ Lists(f, R)
  BY ReserversFinite, SlotOrderLists
<1>2. AbortLogs(s) = L \o <<ab>>
  <2>1. BySlot(s) = f /\ ReservationCountOf(escrow', s) = Cardinality(R)
    BY DEF BySlot, SlotOrder, ReservationCountOf
  <2> QED
    BY <2>1 DEF AbortLogs, RefundLog
<1>3. ASSUME NEW k, NEW ev, ev = RefundLog(e, s, k)
      PROVE  ev.name \in {"RefundFailed", "ReservationRefunded"} /\ ev.creator = k
  BY <1>3 DEF RefundLog
<1>4. \A k : RefundLog(e, s, k).name \in {"RefundFailed", "ReservationRefunded"} /\ RefundLog(e, s, k).creator = k
  BY <1>3
<1>5. Follows(L) /\ Waiting(L) = LogsOf(g, R)
  <2>1. \A k \in R : g[k].name \in LogNames \ LonelyNames /\ g[k].name # "SlotReserved"
    BY <1>4 DEF LogNames, LonelyNames, MoveNames
  <2>2. \A j, k \in R : g[j] = g[k] => j = k
    BY <1>4
  <2>3. \A i \in 1..Cardinality(R) : f[i] \in R
    BY <1>1 DEF Lists
  <2>4. L \in [1..Cardinality(R) -> {RefundLog(e, s, k) : k \in R}]
    BY <2>3
  <2>5. \A i \in 1..Cardinality(R) : L[i] = g[f[i]]
    BY <2>3
  <2> HIDE DEF R, f, g, L
  <2>6. Tells(g, R) /\ InThatOrder(L, g, f, R)
    BY <2>1, <2>2, <2>4, <2>5 DEF Tells, InThatOrder
  <2> QED
    BY <1>1, <2>6, MapLogs
<1>6. Follows(<<ab>>) /\ Waiting(<<ab>>) = {ab}
  <2>1. ab.name \in LogNames \ LonelyNames /\ ab.name # "SlotReserved"
    BY DEF LogNames, LonelyNames, MoveNames
  <2> HIDE <1>2
  <2> QED
    BY <2>1, OneFollows
<1>7. LogsOf(g, R) = {RefundLog(e, s, k) : k \in R}
  BY DEF LogsOf
<1>8. Waiting(L) \cap Waiting(<<ab>>) = {}
  <2>1. \A ev \in Waiting(L) : ev.name # "SeasonAborted"
    BY <1>4, <1>5, <1>7
  <2> QED
    BY <1>6, <2>1
<1> HIDE DEF R, f, g, L
<1>9. Follows(L \o <<ab>>) /\ Waiting(L \o <<ab>>) = Waiting(L) \cup Waiting(<<ab>>)
  BY <1>5, <1>6, <1>8, JoinFollows
<1> QED
  BY <1>2, <1>5, <1>6, <1>7, <1>9, FollowsFits DEF R

\* The logs of a soft filter are one for each token of the batch.
LEMMA FilterLogsFit ==
  ASSUME tokens \subseteq Tokens, NEW S \in SUBSET tokens, NEW F \in SUBSET tokens, S \cap F = {},
         \A t, u \in S \cup F : t.season = u.season /\ t.creator = u.creator => t = u
  PROVE  /\ LogFits(SoftFilterLogs(S, F))
         /\ Waiting(SoftFilterLogs(S, F)) = {StakeLog(stake, S, t) : t \in S \cup F}
<1> DEFINE Z == S \cup F
           f == Listed(S) \o Listed(F)
           g == [t \in Z |-> StakeLog(stake, S, t)]
           L == SoftFilterLogs(S, F)
<1>1. IsFiniteSet(S) /\ IsFiniteSet(F) /\ IsFiniteSet(Z)
  BY TokensFinite, FS_Subset
<1>2. Lists(Listed(S), S) /\ Lists(Listed(F), F)
  BY <1>1, ListedLists
<1>3. /\ Lists(f, Z) /\ Len(f) = Cardinality(Z)
      /\ \A i \in 1..Len(f) : f[i] \in S <=> i <= Cardinality(S)
  BY <1>1, <1>2, JoinLists
<1>4. L = [i \in 1..Cardinality(Z) |->
             [name |-> IF i <= Cardinality(S) THEN "StakeRefunded" ELSE "StakeForfeited",
              season |-> f[i].season, creator |-> f[i].creator,
              amount |-> stake.launchInfo[f[i]].stakeAmount]]
  BY <1>3 DEF SoftFilterLogs
<1> HIDE DEF f, L, Z
<1>5. \A i \in 1..Cardinality(Z) : f[i] \in Z
  BY <1>3 DEF Lists
<1>6. \A i \in 1..Cardinality(Z) : L[i] = StakeLog(stake, S, f[i])
  BY <1>3, <1>4 DEF StakeLog
<1>7. \E V : L \in [1..Cardinality(Z) -> V]
  <2>1. PICK h : h = [i \in 1..Cardinality(Z) |->
             [name |-> IF i <= Cardinality(S) THEN "StakeRefunded" ELSE "StakeForfeited",
              season |-> f[i].season, creator |-> f[i].creator,
              amount |-> stake.launchInfo[f[i]].stakeAmount]]
    OBVIOUS
  <2>2. h \in [1..Cardinality(Z) -> {h[i] : i \in 1..Cardinality(Z)}]
    BY <2>1
  <2> QED
    BY <1>4, <2>1, <2>2
<1>8. \A i \in 1..Cardinality(Z) : L[i] = g[f[i]]
  BY <1>5, <1>6
<1>9. \A t \in Z : /\ g[t].name \in LogNames \ LonelyNames /\ g[t].name # "SlotReserved"
                   /\ g[t].season = t.season /\ g[t].creator = t.creator
  BY DEF StakeLog, LogNames, LonelyNames, MoveNames
<1>11. LogsOf(g, Z) = {StakeLog(stake, S, t) : t \in Z}
  BY DEF LogsOf
<1> HIDE DEF g
<1>10. \A t, u \in Z : g[t] = g[u] => t = u
  <2> SUFFICES ASSUME NEW t \in Z, NEW u \in Z, g[t] = g[u] PROVE t = u
    OBVIOUS
  <2>1. t.season = u.season /\ t.creator = u.creator
    BY <1>9
  <2> QED
    BY <2>1 DEF Z
<1>12. Follows(L) /\ Waiting(L) = LogsOf(g, Z)
  <2>1. Tells(g, Z) /\ InThatOrder(L, g, f, Z)
    BY <1>7, <1>8, <1>9, <1>10 DEF Tells, InThatOrder
  <2> QED
    BY <1>1, <1>3, <2>1, MapLogs
<1> QED
  BY <1>11, <1>12, FollowsFits DEF L, Z

\* The logs of the tokens D, in the order f of their creators.
LaunchLogs(D, f, n) == [i \in 1..n |-> LaunchedLog(CHOOSE u \in D : u.creator = f[i])]

\* One TokenLaunched for each token deployed.
LEMMA LaunchLogsFit ==
  ASSUME NEW D, NEW C, IsFiniteSet(C), \A u \in D : u.creator \in C,
         \A k \in C : \E u \in D : u.creator = k, \A u, v \in D : u.creator = v.creator => u = v,
         NEW f, Lists(f, C), NEW n, n = Cardinality(C)
  PROVE  Follows(LaunchLogs(D, f, n)) /\ Waiting(LaunchLogs(D, f, n)) = {LaunchedLog(u) : u \in D}
<1> DEFINE L == [i \in 1..Cardinality(C) |-> LaunchedLog(CHOOSE u \in D : u.creator = f[i])]
           of == [k \in C |-> CHOOSE u \in D : u.creator = k]
           g == [k \in C |-> LaunchedLog(of[k])]
<1>1. \A k \in C : of[k] \in D /\ of[k].creator = k
  OBVIOUS
<1>2. \A i \in 1..Cardinality(C) : f[i] \in C
  BY DEF Lists
<1>3. \A i \in 1..Cardinality(C) : L[i] = g[f[i]]
  BY <1>2
<1>4. \E V : L \in [1..Cardinality(C) -> V]
  <2>1. L \in [1..Cardinality(C) -> {L[i] : i \in 1..Cardinality(C)}]
    OBVIOUS
  <2> QED
    BY <2>1
<1> HIDE DEF of, L
<1>5. \A u : LaunchedLog(u).token = u /\ LaunchedLog(u).name = "TokenLaunched"
  BY DEF LaunchedLog
<1>6. \A k \in C : g[k].name \in LogNames \ LonelyNames /\ g[k].name # "SlotReserved"
  BY <1>5 DEF LogNames, LonelyNames, MoveNames
<1>7. \A j, k \in C : g[j] = g[k] => j = k
  <2> SUFFICES ASSUME NEW j \in C, NEW k \in C, g[j] = g[k] PROVE j = k
    OBVIOUS
  <2>1. of[j] = of[k]
    BY <1>5
  <2> QED
    BY <1>1, <2>1
<1>8. LogsOf(g, C) = {LaunchedLog(u) : u \in D}
  <2>1. \A u \in D : u.creator \in C /\ of[u.creator] = u
    BY <1>1
  <2> QED
    BY <1>1, <2>1 DEF LogsOf
<1> HIDE DEF g
<1>9. Follows(L) /\ Waiting(L) = LogsOf(g, C)
  <2>1. Tells(g, C) /\ InThatOrder(L, g, f, C)
    BY <1>3, <1>4, <1>6, <1>7 DEF Tells, InThatOrder
  <2> QED
    BY <2>1, MapLogs
<1> QED
  BY <1>8, <1>9 DEF L, LaunchLogs

\* The logs of a reservation: SlotReserved first, then the tokens, then SeasonActivated.
LEMMA ReserveLogsFit ==
  ASSUME NEW e, e = escrow', SlotsNumbered(e), NEW s \in Seasons, NEW c \in Creators, NEW t \in Tickers,
         NEW held, NEW D, ReservedNow(held, s, c, D),
         NEW sl, sl = [name |-> "SlotReserved", season |-> s, creator |-> c, ticker |-> t,
                       amount |-> AmountIn(escrow', s, c)],
         NEW A, A = IF activated' # activated THEN {[name |-> "SeasonActivated", season |-> s]} ELSE {}
  PROVE  /\ LogFits(ReserveLogs(s, c, t))
         /\ ReserveTold(Waiting(ReserveLogs(s, c, t)), sl, D, A)
<1> DEFINE new == tokens' \ tokens
           order == IF new = {} THEN <<>> ELSE IF s \in activated THEN <<c>> ELSE BySlot(s)
           L == LaunchLogs(new, order, Len(order))
           act == [name |-> "SeasonActivated", season |-> s]
           M == IF activated' # activated THEN <<act>> ELSE <<>>
<1>1. ReserveLogs(s, c, t) = (<<sl>> \o L) \o M
  BY DEF ReserveLogs, LaunchLogs
<1>2. new = D /\ \A u, v \in D : u.creator = v.creator => u = v
  BY DEF ReservedNow, Deploys
<1>3. sl.name = "SlotReserved"
  OBVIOUS
<1>4. Follows(M) /\ Waiting(M) = A
  <2>1. act.name = "SeasonActivated"
    OBVIOUS
  <2> HIDE DEF act
  <2>2. act.name \in LogNames \ LonelyNames /\ act.name # "SlotReserved"
    BY <2>1 DEF LogNames, LonelyNames, MoveNames
  <2>3. Follows(<<act>>) /\ Waiting(<<act>>) = {act}
    BY <2>2, OneFollows
  <2>4. A = IF activated' # activated THEN {act} ELSE {}
    BY DEF act
  <2> QED
    BY <2>3, <2>4, NoLogs
<1>5. \A ev \in A : ev.name = "SeasonActivated"
  OBVIOUS
<1>6. \E C : /\ IsFiniteSet(C) /\ Lists(order, C) /\ Len(order) = Cardinality(C)
             /\ (\A u \in D : u.creator \in C) /\ \A k \in C : \E u \in D : u.creator = k
  <2>1. CASE D = {}
    <3>1. order = <<>>
      BY <1>2, <2>1
    <3> HIDE DEF order
    <3>2. IsFiniteSet({}) /\ Cardinality({}) = 0
      BY FS_EmptySet
    <3>3. order \in [1..0 -> {}] /\ Len(order) = 0
      BY <3>1
    <3>4. Lists(order, {})
      BY <3>2, <3>3 DEF Lists
    <3> QED
      BY <2>1, <3>2, <3>3, <3>4
  <2>2. CASE D # {} /\ s \in activated
    <3>1. order = <<c>>
      BY <1>2, <2>2
    <3> HIDE DEF order
    <3>2. IsFiniteSet({c}) /\ Cardinality({c}) = 1
      BY FS_Singleton
    <3>3. order \in [1..1 -> {c}] /\ Len(order) = 1 /\ order[1] = c
      BY <3>1
    <3>4. Lists(order, {c})
      <4>1. 1..Cardinality({c}) = 1..1
        BY <3>2
      <4>2. \A i \in 1..1 : i = 1
        OBVIOUS
      <4>3. order \in [1..Cardinality({c}) -> {c}]
        BY <3>3, <4>1
      <4>4. order[1] = c /\ 1 \in 1..1
        BY <3>3
      <4>5. \A x \in {c} : \E i \in 1..Cardinality({c}) : order[i] = x
        BY <4>1, <4>4
      <4>6. \A i, j \in 1..Cardinality({c}) : i = j
        BY <4>1, <4>2
      <4> QED
        BY <4>3, <4>5, <4>6 DEF Lists
    <3>5. \A k : (\E u \in D : u.creator = k) <=> k = c
      BY <2>2 DEF ReservedNow
    <3> QED
      BY <3>2, <3>3, <3>4, <3>5
  <2>3. CASE D # {} /\ s \notin activated
    <3> DEFINE C == Reservers(e, s)
    <3>1. order = SlotOrder(e, s)
      BY <1>2, <2>3 DEF BySlot, SlotOrder
    <3> HIDE DEF order
    <3>2. IsFiniteSet(C) /\ Lists(order, C)
      BY <3>1, ReserversFinite, SlotOrderLists
    <3>3. Cardinality(C) \in Nat /\ order \in [1..Cardinality(C) -> C]
      BY <3>2, FS_CardinalityType DEF Lists
    <3>4. Len(order) = Cardinality(C)
      <4>1. PICK n : n = Cardinality(C)
        OBVIOUS
      <4> QED
        BY <3>3, <4>1
    <3>5. \A k : (\E u \in D : u.creator = k) <=> k \in C
      BY <2>3 DEF ReservedNow
    <3> QED
      BY <3>2, <3>4, <3>5
  <2> QED
    BY <2>1, <2>2, <2>3
<1> HIDE DEF new, order, act, M
<1>7. Follows(L) /\ Waiting(L) = {LaunchedLog(u) : u \in D}
  <2>1. PICK C : /\ IsFiniteSet(C) /\ Lists(order, C) /\ Len(order) = Cardinality(C)
                 /\ (\A u \in D : u.creator \in C) /\ \A k \in C : \E u \in D : u.creator = k
    BY <1>6
  <2>2. PICK n : n = Len(order)
    OBVIOUS
  <2>3. n = Cardinality(C)
    BY <2>1, <2>2
  <2>4. Follows(LaunchLogs(D, order, n)) /\ Waiting(LaunchLogs(D, order, n)) = {LaunchedLog(u) : u \in D}
    BY <1>2, <2>1, <2>3, LaunchLogsFit
  <2> QED
    BY <1>2, <2>2, <2>4
<1> HIDE DEF L
<1>8. Waiting(L) \cap Waiting(M) = {}
  BY <1>4, <1>5, <1>7 DEF LaunchedLog
<1>9. Follows(L \o M) /\ Waiting(L \o M) = Waiting(L) \cup Waiting(M)
  BY <1>4, <1>7, <1>8, JoinFollows
<1>10. LogFits(<<sl>> \o (L \o M)) /\ Waiting(<<sl>> \o (L \o M)) = {sl} \cup Waiting(L \o M)
  <2>1. PICK N : N = L \o M
    OBVIOUS
  <2>2. Follows(N)
    BY <1>9, <2>1
  <2>3. PICK x : x = sl
    OBVIOUS
  <2>4. x.name = "SlotReserved"
    BY <1>3, <2>3
  <2>5. LogFits(<<x>> \o N) /\ Waiting(<<x>> \o N) = {x} \cup Waiting(N)
    BY <2>2, <2>4, SlotFirst
  <2> QED
    BY <2>1, <2>3, <2>5
<1>11. (<<sl>> \o L) \o M = <<sl>> \o (L \o M)
  <2>1. PICK U : L \in Seq(U)
    BY <1>7 DEF Follows
  <2>2. PICK V : M \in Seq(V)
    BY <1>4 DEF Follows
  <2>3. PICK S : S = {sl} \cup U \cup V
    OBVIOUS
  <2>4. <<sl>> \in Seq(S) /\ L \in Seq(S) /\ M \in Seq(S)
    BY <2>1, <2>2, <2>3
  <2> QED
    BY <2>4, ConcatAssociative
<1> QED
  BY <1>1, <1>4, <1>7, <1>9, <1>10, <1>11 DEF ReserveTold

\* A transaction that emits one log.
LEMMA EmitOne ==
  ASSUME IndexInv, ChainFits', NEW ev, ev.name \in LogNames, Emits(<<ev>>), NEW d, d = db', NEW W, W = {ev},
         TablesFit(d) /\ Behind(d, {}) => Behind(d, W)'
  PROVE  IndexInv'
<1>1. PICK L : L = <<ev>>
  OBVIOUS
<1>2. Emits(L) /\ LogFits(L) /\ Waiting(L) = W
  BY <1>1, OneFits
<1>3. ASSUME TablesFit(db), Behind(db, {}), UNCHANGED db PROVE Behind(db, W)'
  BY <1>3
<1> QED
  BY <1>2, <1>3, EmitStep

\* A transaction without logs that no table tells of.
LEMMA EmitNone ==
  ASSUME IndexInv, ChainFits', Emits(<<>>),
         UNCHANGED <<currentSeasonId, phaseOf, tokenVars, tickerVars, activated, aborted, escrow, stake>>
  PROVE  IndexInv'
<1>1. PICK L : L = <<>>
  OBVIOUS
<1>2. PICK W : W = {}
  OBVIOUS
<1>3. Emits(L) /\ LogFits(L) /\ Waiting(L) = W
  BY <1>1, <1>2, NoLogs, FollowsFits
<1>4. ASSUME TablesFit(db), Behind(db, {}), UNCHANGED db PROVE Behind(db, W)'
  <2>1. PICK d : d = db
    OBVIOUS
  <2>2. Behind(d, {})'
    BY <1>4, <2>1, QuietBehind
  <2> QED
    BY <1>2, <1>4, <2>1, <2>2
<1> QED
  BY <1>3, <1>4, EmitStep

(***************************************************************************)
(* Every step of the launcher with its indexer                             *)
(***************************************************************************)

\* Both sides of a step of the chain.
ChainInv == SafeInv /\ BooksInv /\ TickerInv

LEMMA PlainTransactions ==
  ASSUME ChainInv, IndexInv, ChainFits'
  PROVE  /\ \A cost \in BaseLaunchCosts, enabled \in StakeModes :
               SetLaunchConfig(cost, enabled) /\ Emits(<<>>) => IndexInv'
         /\ \A p \in BOOLEAN : SetPaused(p) /\ Emits(<<>>) => IndexInv'
         /\ \A s \in Seasons : CloseWindow(s) /\ Emits(<<>>) => IndexInv'
<1> USE DEF seasonVars, tokenVars, tickerVars, queueVars, moneyVars
<1>1. ASSUME NEW cost \in BaseLaunchCosts, NEW enabled \in StakeModes, SetLaunchConfig(cost, enabled),
             Emits(<<>>)
      PROVE  IndexInv'
  <2>1. UNCHANGED <<currentSeasonId, phaseOf, tokenVars, tickerVars, activated, aborted, escrow, stake>>
    BY <1>1 DEF SetLaunchConfig
  <2> QED
    BY <1>1, <2>1, EmitNone
<1>2. ASSUME NEW p \in BOOLEAN, SetPaused(p), Emits(<<>>) PROVE IndexInv'
  <2>1. UNCHANGED <<currentSeasonId, phaseOf, tokenVars, tickerVars, activated, aborted, escrow, stake>>
    BY <1>2 DEF SetPaused
  <2> QED
    BY <1>2, <2>1, EmitNone
<1>3. ASSUME NEW s \in Seasons, CloseWindow(s), Emits(<<>>) PROVE IndexInv'
  <2>1. UNCHANGED <<currentSeasonId, phaseOf, tokenVars, tickerVars, activated, aborted, escrow, stake>>
    BY <1>3 DEF CloseWindow
  <2> QED
    BY <1>3, <2>1, EmitNone
<1> QED
  BY <1>1, <1>2, <1>3

\* One lemma for each transaction: it keeps IndexInv, with the logs that it emits.
LEMMA BlockMirrored ==
  ASSUME ChainInv, IndexInv, ChainFits', NEW k \in Blockable, AddTickerToBlocklist(k),
         Emits(<<[name |-> "TickerBlocked", ticker |-> k]>>)
  PROVE  IndexInv'
<1>1. PICK ev : ev = [name |-> "TickerBlocked", ticker |-> k]
  OBVIOUS
<1>2. PICK W : W = {ev}
  OBVIOUS
<1>3. PICK d : d = db'
  OBVIOUS
<1>4. ev.name \in LogNames /\ Emits(<<ev>>) /\ k \in Tickers /\ TypeOK
  BY <1>1, LauncherConstants DEF LogNames, LonelyNames, ChainInv, SafeInv
<1>5. ASSUME TablesFit(d), Behind(d, {}) PROVE Behind(d, W)'
  BY <1>1, <1>2, <1>4, <1>5, BlockBehind
<1> QED
  BY <1>2, <1>3, <1>4, <1>5, EmitOne

LEMMA StartMirrored ==
  ASSUME ChainInv, IndexInv, ChainFits', StartSeason,
         Emits(<<[name |-> "SeasonStarted", season |-> currentSeasonId']>>)
  PROVE  IndexInv'
<1>1. PICK ev : ev = [name |-> "SeasonStarted", season |-> currentSeasonId']
  OBVIOUS
<1>2. PICK W : W = {ev}
  OBVIOUS
<1>3. PICK d : d = db'
  OBVIOUS
<1>4. /\ ev.name = "SeasonStarted" /\ ev.season = currentSeasonId' /\ ev.name \in LogNames
      /\ Emits(<<ev>>) /\ TypeOK
  BY <1>1 DEF LogNames, LonelyNames, ChainInv, SafeInv
<1> HIDE <1>1
<1>5. ASSUME TablesFit(d), Behind(d, {}) PROVE Behind(d, W)'
  BY <1>2, <1>4, <1>5, StartBehind
<1> QED
  BY <1>2, <1>3, <1>4, <1>5, EmitOne

LEMMA PhaseMirrored ==
  ASSUME ChainInv, IndexInv, ChainFits', NEW s \in Seasons, NEW i \in LogIndexes, AdvancePhase(s),
         Emits(<<[name |-> "PhaseAdvanced", season |-> s, newPhase |-> phaseOf'[s], logIndex |-> i]>>)
  PROVE  IndexInv'
<1>1. PICK ev : ev = [name |-> "PhaseAdvanced", season |-> s, newPhase |-> phaseOf'[s], logIndex |-> i]
  OBVIOUS
<1>2. PICK W : W = {ev}
  OBVIOUS
<1>3. PICK d : d = db'
  OBVIOUS
<1>4. /\ ev.name = "PhaseAdvanced" /\ ev.season = s /\ ev.newPhase = phaseOf'[s]
      /\ ev.logIndex \in LogIndexes /\ ev.name \in LogNames /\ Emits(<<ev>>) /\ TypeOK
  BY <1>1 DEF LogNames, LonelyNames, ChainInv, SafeInv
<1> HIDE <1>1
<1>5. ASSUME TablesFit(d), Behind(d, {}) PROVE Behind(d, W)'
  BY <1>2, <1>4, <1>5, PhaseBehind
<1> QED
  BY <1>2, <1>3, <1>4, <1>5, EmitOne

LEMMA ListMirrored ==
  ASSUME ChainInv, IndexInv, ChainFits', NEW s \in Seasons, NEW list \in FinalistLists,
         NEW relayed \in BOOLEAN, NEW unread, SetFinalists(s, list),
         Emits(<<[name |-> "FinalistsSet", season |-> s, list |-> list,
                  relayed |-> relayed, entries |-> FinalistEntries(s),
                  unread |-> unread]>>)
  PROVE  IndexInv'
<1>1. PICK ev : ev = [name |-> "FinalistsSet", season |-> s, list |-> list,
                      relayed |-> relayed, entries |-> FinalistEntries(s), unread |-> unread]
  OBVIOUS
<1>2. PICK W : W = {ev}
  OBVIOUS
<1>3. PICK d : d = db'
  OBVIOUS
<1>4. /\ ev.name = "FinalistsSet" /\ ev.season = s /\ ev.list = list
      /\ ev.entries = FinalistEntries(s)
      /\ ev.name \in LogNames /\ Emits(<<ev>>) /\ TypeOK
  BY <1>1 DEF LogNames, LonelyNames, ChainInv, SafeInv
<1> HIDE <1>1
<1>5. ASSUME TablesFit(d), Behind(d, {}) PROVE Behind(d, W)'
  BY <1>2, <1>4, <1>5, ListBehind
<1> QED
  BY <1>2, <1>3, <1>4, <1>5, EmitOne

LEMMA WinnerMirrored ==
  ASSUME ChainInv, IndexInv, ChainFits', NEW s \in Seasons, NEW t \in tokens, SetWinnerTicker(s, t),
         Emits(<<[name |-> "WinnerTickerReserved", season |-> s, token |-> t]>>)
  PROVE  IndexInv'
<1>1. PICK ev : ev = [name |-> "WinnerTickerReserved", season |-> s, token |-> t]
  OBVIOUS
<1>2. PICK W : W = {ev}
  OBVIOUS
<1>3. PICK d : d = db'
  OBVIOUS
<1>4. /\ ev.name = "WinnerTickerReserved" /\ ev.token = t
      /\ ev.name \in LogNames /\ Emits(<<ev>>) /\ TypeOK /\ ChainFits
  BY <1>1 DEF LogNames, LonelyNames, ChainInv, SafeInv, IndexInv
<1> HIDE <1>1
<1>5. ASSUME TablesFit(d), Behind(d, {}) PROVE Behind(d, W)'
  BY <1>2, <1>4, <1>5, WinnerBehind
<1> QED
  BY <1>2, <1>3, <1>4, <1>5, EmitOne

LEMMA ClaimMirrored ==
  ASSUME ChainInv, IndexInv, ChainFits', NEW s \in Seasons, NEW c \in Creators, ClaimPendingRefund(s, c),
         Emits(<<[name |-> "PendingRefundClaimed", season |-> s, creator |-> c,
                  amount |-> escrow.pendingRefunds[<<s, c>>]]>>)
  PROVE  IndexInv'
<1>1. PICK ev : ev = [name |-> "PendingRefundClaimed", season |-> s, creator |-> c,
                      amount |-> escrow.pendingRefunds[<<s, c>>]]
  OBVIOUS
<1>2. PICK W : W = {ev}
  OBVIOUS
<1>3. PICK d : d = db'
  OBVIOUS
<1>4. /\ ev.name = "PendingRefundClaimed" /\ ev.season = s /\ ev.creator = c
      /\ ev.amount = escrow.pendingRefunds[<<s, c>>]
      /\ ev.name \in LogNames /\ Emits(<<ev>>) /\ SafeInv
  BY <1>1 DEF LogNames, LonelyNames, ChainInv
<1> HIDE <1>1
<1>5. ASSUME TablesFit(d), Behind(d, {}) PROVE Behind(d, W)'
  BY <1>2, <1>4, <1>5, ClaimBehind
<1> QED
  BY <1>2, <1>3, <1>4, <1>5, EmitOne

LEMMA ProtocolMirrored ==
  ASSUME ChainInv, IndexInv, ChainFits', NEW t \in ProtocolTickers, LaunchProtocolToken(t),
         Emits(<<LaunchedLog([season |-> currentSeasonId, ticker |-> t, creator |-> Owner])>>)
  PROVE  IndexInv'
<1>1. PICK k : k = [season |-> currentSeasonId, ticker |-> t, creator |-> Owner]
  OBVIOUS
<1>2. PICK ev : ev = LaunchedLog(k)
  OBVIOUS
<1>3. PICK W : W = {LaunchedLog(k)}
  OBVIOUS
<1>4. PICK d : d = db'
  OBVIOUS
<1>5. /\ ev.name \in LogNames /\ SafeInv /\ TickerInv /\ ChainFits /\ W = {ev}
  BY <1>2, <1>3 DEF LogNames, MoveNames, ChainInv, IndexInv, LaunchedLog
<1>6. ASSUME TablesFit(d), Behind(d, {})
      PROVE  Behind(d, W)' /\ tokens' = tokens \cup {k} /\ k \notin tokens
  BY <1>1, <1>3, <1>5, <1>6, ProtocolBehind
<1>7. Emits(<<ev>>)
  BY <1>1, <1>2
<1> HIDE <1>2
<1> QED
  BY <1>4, <1>5, <1>6, <1>7, EmitOne

LEMMA AbortMirrored ==
  ASSUME ChainInv, ChainInv', IndexInv, ChainFits', NEW s \in Seasons, NEW rejecting \in SUBSET Creators,
         AbortSeason(s, rejecting), Emits(AbortLogs(s))
  PROVE  IndexInv'
<1>1. PICK e : e = escrow'
  OBVIOUS
<1>2. PICK ab : ab = [name |-> "SeasonAborted", season |-> s]
  OBVIOUS
<1>3. PICK W : W = {RefundLog(e, s, k) : k \in Reservers(e, s)} \cup {ab}
  OBVIOUS
<1>4. SlotsNumbered(e) /\ SafeInv /\ ab.name = "SeasonAborted" /\ ab.season = s
  BY <1>1, <1>2 DEF ChainInv, BooksInv
<1>5. PICK L : L = AbortLogs(s)
  OBVIOUS
<1>6. LogFits(L) /\ Waiting(L) = W
  BY <1>1, <1>2, <1>3, <1>4, <1>5, AbortLogsFit
<1>7. W = {RefundLog(escrow', s, k) : k \in Reservers(escrow', s)} \cup {ab}
  BY <1>1, <1>3
<1> HIDE <1>1, <1>2, <1>3, <1>5
<1>8. ASSUME TablesFit(db), Behind(db, {}), UNCHANGED db PROVE Behind(db, W)'
  <2>1. PICK d : d = db
    OBVIOUS
  <2>2. TablesFit(d) /\ Behind(d, {})
    BY <1>8, <2>1
  <2>3. Behind(d, W)'
    BY <1>4, <1>7, <2>2, AbortBehind
  <2> QED
    BY <1>8, <2>1, <2>3
<1>9. Emits(L)
  BY <1>5
<1> QED
  BY <1>6, <1>8, <1>9, EmitStep

LEMMA FilterMirrored ==
  ASSUME ChainInv, IndexInv, ChainFits', NEW s \in Seasons, NEW S \in SUBSET CommunityTokens(s),
         NEW F \in SUBSET CommunityTokens(s), ApplySoftFilter(s, S, F), Emits(SoftFilterLogs(S, F))
  PROVE  IndexInv'
<1>1. PICK W : W = {StakeLog(stake, S, t) : t \in S \cup F}
  OBVIOUS
<1>2. PICK L : L = SoftFilterLogs(S, F)
  OBVIOUS
<1>3. SafeInv /\ BooksInv /\ ChainFits /\ tokens \subseteq Tokens
  BY DEF ChainInv, IndexInv, SafeInv, TypeOK
<1>4. S \cap F = {} /\ S \in SUBSET tokens /\ F \in SUBSET tokens
  BY <1>3, FilterFacts DEF CommunityTokens
<1>5. \A t, u \in S \cup F : t.season = u.season /\ t.creator = u.creator => t = u
  <2>1. \A t, u \in Community(tokens, s) : t.creator = u.creator => t = u
    BY <1>3 DEF BooksInv, TokensFit
  <2>2. CommunityTokens(s) = Community(tokens, s)
    BY DEF CommunityTokens, Community
  <2> QED
    BY <2>1, <2>2
<1>6. LogFits(L) /\ Waiting(L) = W
  BY <1>1, <1>2, <1>3, <1>4, <1>5, FilterLogsFit
<1>7. Emits(L)
  BY <1>2
<1> HIDE <1>2
<1>8. ASSUME TablesFit(db), Behind(db, {}), UNCHANGED db PROVE Behind(db, W)'
  <2>1. PICK d : d = db
    OBVIOUS
  <2>2. TablesFit(d) /\ Behind(d, {})
    BY <1>8, <2>1
  <2>3. Behind(d, W)'
    BY <1>1, <1>3, <2>2, FilterBehind
  <2> QED
    BY <1>8, <2>1, <2>3
<1> QED
  BY <1>6, <1>7, <1>8, EmitStep

LEMMA ReserveMirrored ==
  ASSUME ChainInv, ChainInv', IndexInv, ChainFits', NEW c \in Creators, NEW t \in Tickers,
         Reserve(c, t), Emits(ReserveLogs(currentSeasonId, c, t))
  PROVE  IndexInv'
<1>1. PICK s : s = currentSeasonId
  OBVIOUS
<1>2. SafeInv /\ SafeInv' /\ BooksInv /\ ChainFits
  BY DEF ChainInv, IndexInv
<1>3. s \in Seasons /\ \E held, D : ReservedNow(held, s, c, D)
  BY <1>1, <1>2, ReserveFacts
<1>4. PICK held, D : ReservedNow(held, s, c, D)
  BY <1>3
<1>5. PICK e : e = escrow'
  OBVIOUS
<1>6. SlotsNumbered(e)
  BY <1>5 DEF ChainInv, BooksInv
<1>7. PICK sl : sl = [name |-> "SlotReserved", season |-> s, creator |-> c, ticker |-> t,
                      amount |-> AmountIn(escrow', s, c)]
  OBVIOUS
<1>8. PICK A : A = IF activated' # activated THEN {[name |-> "SeasonActivated", season |-> s]} ELSE {}
  OBVIOUS
<1>16. PICK act : act = [name |-> "SeasonActivated", season |-> s]
  OBVIOUS
<1>9. PICK L : L = ReserveLogs(s, c, t)
  OBVIOUS
<1>10. PICK W : W = Waiting(L)
  OBVIOUS
<1>11. LogFits(L) /\ ReserveTold(W, sl, D, A)
  BY <1>3, <1>4, <1>5, <1>6, <1>7, <1>8, <1>9, <1>10, ReserveLogsFit
<1>12. /\ sl.name = "SlotReserved" /\ sl.season = s /\ sl.creator = c /\ sl.ticker = t
       /\ sl.amount = AmountIn(escrow', s, c)
  BY <1>7
<1>13. /\ \A ev \in A : ev.name = "SeasonActivated" /\ ev.season = s
       /\ \A ev, m \in A : ev = m
       /\ A = {} <=> activated' = activated
  <2>1. act.name = "SeasonActivated" /\ act.season = s
    BY <1>16
  <2>2. A = IF activated' # activated THEN {act} ELSE {}
    BY <1>8, <1>16
  <2> HIDE <1>8, <1>16
  <2> QED
    BY <2>1, <2>2
<1>14. Emits(L)
  BY <1>1, <1>9
<1> HIDE <1>5, <1>7, <1>8, <1>9, <1>16
<1>15. ASSUME TablesFit(db), Behind(db, {}), UNCHANGED db PROVE Behind(db, W)'
  <2>1. PICK d : d = db
    OBVIOUS
  <2>2. TablesFit(d) /\ Behind(d, {})
    BY <1>15, <2>1
  <2>3. Behind(d, W)'
    BY <1>1, <1>2, <1>4, <1>11, <1>12, <1>13, <2>2, ReserveBehind
  <2> QED
    BY <1>15, <2>1, <2>3
<1> QED
  BY <1>10, <1>11, <1>14, <1>15, EmitStep

LEMMA TransactionMirrored ==
  ASSUME ChainInv, ChainInv', IndexInv, ChainFits', Transaction
  PROVE  IndexInv'
<1>1. CASE \/ \E cost \in BaseLaunchCosts, enabled \in StakeModes :
                 SetLaunchConfig(cost, enabled) /\ Emits(<<>>)
           \/ \E p \in BOOLEAN : SetPaused(p) /\ Emits(<<>>)
           \/ \E s \in Seasons : CloseWindow(s) /\ Emits(<<>>)
  BY <1>1, PlainTransactions
<1>2. CASE \/ \E t \in Blockable :
                 AddTickerToBlocklist(t) /\ Emits(<<[name |-> "TickerBlocked", ticker |-> t]>>)
           \/ StartSeason /\ Emits(<<[name |-> "SeasonStarted", season |-> currentSeasonId']>>)
           \/ \E s \in Seasons, i \in LogIndexes :
                 /\ AdvancePhase(s)
                 /\ Emits(<<[name |-> "PhaseAdvanced", season |-> s, newPhase |-> phaseOf'[s],
                             logIndex |-> i]>>)
           \/ \E s \in Seasons, list \in FinalistLists, relayed \in BOOLEAN :
                 /\ SetFinalists(s, list)
                 /\ \E unread \in SUBSET (IF relayed THEN FinalistEntries(s) ELSE {}) :
                       Emits(<<[name |-> "FinalistsSet", season |-> s, list |-> list,
                                relayed |-> relayed, entries |-> FinalistEntries(s),
                                unread |-> unread]>>)
  BY <1>2, BlockMirrored, StartMirrored, PhaseMirrored, ListMirrored
<1>3. CASE \/ \E c \in Creators, t \in Tickers :
                 Reserve(c, t) /\ Emits(ReserveLogs(currentSeasonId, c, t))
           \/ \E s \in Seasons, rejecting \in SUBSET Creators :
                 AbortSeason(s, rejecting) /\ Emits(AbortLogs(s))
  BY <1>3, ReserveMirrored, AbortMirrored
<1>4. CASE \/ \E s \in Seasons, c \in Creators :
                 /\ ClaimPendingRefund(s, c)
                 /\ Emits(<<[name |-> "PendingRefundClaimed", season |-> s, creator |-> c,
                             amount |-> escrow.pendingRefunds[<<s, c>>]]>>)
           \/ \E t \in ProtocolTickers :
                 /\ LaunchProtocolToken(t)
                 /\ Emits(<<LaunchedLog([season |-> currentSeasonId, ticker |-> t, creator |-> Owner])>>)
           \/ \E s \in Seasons, t \in tokens :
                 /\ SetWinnerTicker(s, t)
                 /\ Emits(<<[name |-> "WinnerTickerReserved", season |-> s, token |-> t]>>)
  BY <1>4, ClaimMirrored, ProtocolMirrored, WinnerMirrored
<1>5. CASE \E s \in Seasons : \E S, F \in SUBSET CommunityTokens(s) :
              ApplySoftFilter(s, S, F) /\ Emits(SoftFilterLogs(S, F))
  BY <1>5, FilterMirrored
<1> QED
  BY <1>1, <1>2, <1>3, <1>4, <1>5 DEF Transaction

\* Every transaction is a step of the launcher, and a handler changes nothing of it.
LEMMA IndexNextChain ==
  ASSUME [IndexNext]_indexVars
  PROVE  [Next]_vars
<1>1. CASE Transaction
  BY <1>1 DEF Transaction, Next
<1>2. CASE Handle \/ UNCHANGED indexVars
  BY <1>2 DEF Handle, indexVars
<1> QED
  BY <1>1, <1>2 DEF IndexNext

\* IndexInv is inductive, next to the invariants of the launcher.
LEMMA IndexStep ==
  ASSUME ChainInv, ChainInv', IndexInv, [IndexNext]_indexVars
  PROVE  IndexInv'
<1>1. ChainFits'
  BY IndexNextChain, ChainStep DEF ChainInv, IndexInv
<1>2. CASE Transaction
  BY <1>1, <1>2, TransactionMirrored
<1>3. CASE Handle
  BY <1>3, HandleStep DEF ChainInv, SafeInv
<1>4. CASE UNCHANGED indexVars
  <2>1. UNCHANGED vars /\ UNCHANGED <<log, db, halted>>
    BY <1>4 DEF indexVars
  <2>2. PICK d, W : d = db /\ W = Waiting(log)
    OBVIOUS
  <2>3. Behind(d, W) => Behind(d, W)'
    BY <2>1, SameChain
  <2>4. d = db' /\ W = Waiting(log)' /\ TablesFit(db)' /\ (~halted => Behind(d, W))
    BY <2>1, <2>2 DEF IndexInv
  <2> QED
    BY <1>1, <2>1, <2>3, <2>4 DEF IndexInv
<1> QED
  BY <1>2, <1>3, <1>4 DEF IndexNext

LEMMA EmptyTablesFit == TablesFit(EmptyTables)
<1> DEFINE d == EmptyTables
<1>1. d \in Tables
  BY LauncherConstants DEF EmptyTables, Tables, NewSummary, Summary, NoRow, Statuses, Deposits,
     Launch, Closed
<1>2. \A s \in Seasons, c \in Creators : d.reservation[<<s, c>>] = NoRow
  BY DEF EmptyTables, Deposits
<1>3. d.claimed = {} /\ d.pendingRefund = {} /\ \A s \in Seasons : d.summary[s] = NewSummary
  BY DEF EmptyTables
<1> HIDE DEF d
<1>4. ASSUME NEW s \in Seasons, NEW c \in Creators
      PROVE  RowFits(d, s, c, d.reservation[<<s, c>>])
  <2>1. PICK row : row = d.reservation[<<s, c>>]
    OBVIOUS
  <2>2. row.status = "NONE" /\ row.escrowAmount = 0
    BY <1>2, <2>1 DEF NoRow
  <2>3. RowFits(d, s, c, row)
    BY <1>3, <2>2 DEF RowFits
  <2> QED
    BY <2>1, <2>3
<1>5. Exclusive(d)
  BY <1>3 DEF Exclusive, NewSummary
<1>6. ASSUME NEW s \in Seasons PROVE AddsUp(d, s, d.summary[s])
  <2>1. \A S : Part(d, s, S) = 0
    <3> SUFFICES ASSUME NEW S PROVE Part(d, s, S) = 0
      OBVIOUS
    <3>1. PartOf(d, s, S) \in [Creators -> Nat]
      BY <1>1, PartType
    <3>2. \A c \in Creators : PartOf(d, s, S)[c] = 0
      BY <1>2 DEF PartOf, NoRow
    <3> QED
      BY <3>1, <3>2, TotalZero DEF Part
  <2>2. RowsOf(d, s) = {}
    BY <1>2 DEF RowsOf, NoRow
  <2>3. Cardinality(RowsOf(d, s)) = 0
    BY <2>2, FS_EmptySet
  <2>4. PICK m : m = d.summary[s]
    OBVIOUS
  <2>5. /\ m.reservationCount = 0 /\ m.totalEscrowed = 0 /\ m.totalReleased = 0 /\ m.totalRefunded = 0
        /\ m.totalRefundPending = 0 /\ m.totalForfeited = 0
    BY <1>3, <2>4 DEF NewSummary
  <2>6. AddsUp(d, s, m)
    <3> DEFINE P(S) == Part(d, s, S)
    <3>1. /\ P(Statuses) = 0 /\ P({"RELEASED", "FORFEITED", "REFUNDED"}) = 0
          /\ P({"REFUND_CLAIMED"}) = 0 /\ P({"RELEASED", "FORFEITED"}) = 0
          /\ P({"REFUND_CLAIMED", "REFUNDED"}) = 0 /\ P({"REFUND_PENDING"}) = 0
          /\ P({"FORFEITED"}) = 0
      BY <2>1
    <3> QED
      BY <2>3, <2>5, <3>1 DEF AddsUp
  <2> QED
    BY <2>4, <2>6
<1>7. TablesFit(d)
  BY <1>1, <1>4, <1>5, <1>6 DEF TablesFit, TotalsFit, RowsFit
<1> QED
  BY <1>7 DEF d

LEMMA IndexStart ==
  ASSUME IndexInit
  PROVE  IndexInv
<1>1. Init /\ log = <<>> /\ db = EmptyTables /\ ~halted
  BY DEF IndexInit
<1>2. TypeOK
  BY <1>1, InitInv DEF SafeInv
<1>3. /\ currentSeasonId = 0 /\ phaseOf = [s \in Seasons |-> Launch] /\ tokens = {} /\ finalists = {}
      /\ seasonTickers = [s \in Seasons |-> [t \in Tickers |-> NoOne]]
      /\ winnerTickers = [t \in Tickers |-> NoToken] /\ tickerBlocklist = SeededTickers
      /\ activated = {} /\ aborted = {} /\ refundableStakeEnabled = TRUE
      /\ escrow = EmptyEscrow
  BY <1>1 DEF Init, EscrowInit
<1>4. \A s \in Seasons, c \in Creators :
         ~SlotOf(escrow, s, c).reserved /\ SlotOf(escrow, s, c).amount = 0
  BY <1>3 DEF EmptyEscrow, SlotOf, Deposits, NoReservation
<1>5. ChainFits
  BY <1>3, <1>4 DEF ChainFits, WinnersFit, ListsFit, EmptySlotsFit, StakesKept
<1>6. LogFits(log) /\ Waiting(log) = {}
  BY <1>1, NoLogs, FollowsFits
<1>7. PICK d, W : d = db /\ W = {}
  OBVIOUS
<1>8. /\ d.season = {} /\ d.token = {} /\ d.isFinalist = {} /\ d.seasonTicker = {}
      /\ d.blocklist = {} /\ d.winnerTicker = {} /\ d.unread = {}
      /\ \A s \in Seasons : d.phase[s] = Launch /\ d.summary[s] = NewSummary
      /\ \A s \in Seasons, c \in Creators : d.reservation[<<s, c>>] = NoRow
  BY <1>1, <1>7 DEF EmptyTables, Deposits
<1>9. \A n : Named(W, n) = {}
  BY <1>7 DEF Named
<1>10. SeasonsBehind(d, W)
  <2>1. \A s \in Seasons : s \in Nat /\ s >= 1
    BY LauncherConstants, EscrowConstants, FS_CardinalityType
  <2> QED
    BY <1>3, <1>8, <1>9, <2>1 DEF SeasonsBehind
<1>11. TokensBehind(d, W) /\ PhasesBehind(d, W) /\ FinalistsBehind(d, W)
  BY <1>3, <1>7, <1>8, <1>9 DEF TokensBehind, PhasesBehind, FinalistsBehind
<1>12. BlocksBehind(d, W) /\ FlagsBehind(d, W)
  BY <1>3, <1>7, <1>8, <1>9 DEF BlocksBehind, FlagsBehind, NewSummary
<1>13. WinnersBehind(d, W) /\ TickersBehind(d, W)
  BY <1>3, <1>7, <1>8, <1>9, LauncherConstants DEF WinnersBehind, TickersBehind, Tokens
<1>14. RowsBehind(d, W)
  <2>1. Moves(W) = {}
    BY <1>7 DEF Moves
  <2> QED
    BY <1>4, <1>7, <1>8, <1>9, <2>1 DEF RowsBehind, RowBehind, NoRow, Says, SlotOf, AmountIn
<1>15. Behind(d, W)
  BY <1>10, <1>11, <1>12, <1>13, <1>14 DEF Behind
<1> QED
  BY <1>1, <1>5, <1>6, <1>7, <1>15, EmptyTablesFit DEF IndexInv

(***************************************************************************)
(* What a reader of the tables finds                                       *)
(***************************************************************************)

\* Once the logs are handled, the tables are not behind at all.
LEMMA CaughtUpTables ==
  ASSUME IndexInv, CaughtUp, NEW d, d = db
  PROVE  TablesFit(d) /\ Behind(d, {})
<1>1. PICK W : W = Waiting(log)
  OBVIOUS
<1>2. TablesFit(d) /\ Behind(d, W)
  BY <1>1 DEF IndexInv, CaughtUp
<1>3. W = {}
  BY <1>1, NoLogs DEF CaughtUp
<1> QED
  BY <1>2, <1>3

\* The row of a deposit, once no log waits.
LEMMA SettledRow ==
  ASSUME SafeInv, NEW d, TablesFit(d), Behind(d, {}), NEW s \in Seasons, NEW c \in Creators,
         NEW row, row = d.reservation[<<s, c>>]
  PROVE  /\ row.status \in Statuses /\ row.escrowAmount \in Nat
         /\ row.escrowAmount = AmountIn(escrow, s, c)
         /\ Says(escrow, stake, tokens, s, c, row.status)
         /\ row.status = "NONE" <=> ~SlotOf(escrow, s, c).reserved
         /\ row.status = "REFUND_PENDING" <=> escrow.pendingRefunds[<<s, c>>] > 0
         /\ escrow.pendingRefunds[<<s, c>>] \in Nat
         /\ escrow.pendingRefunds[<<s, c>>] > 0 => escrow.pendingRefunds[<<s, c>>] = row.escrowAmount
         /\ SlotOf(escrow, s, c).released <=>
               \/ row.status \in {"RELEASED", "FORFEITED"}
               \/ row.status = "REFUNDED" /\ s \in activated
         /\ SlotOf(escrow, s, c).refunded <=>
               \/ row.status \in {"REFUND_PENDING", "REFUND_CLAIMED"}
               \/ row.status = "REFUNDED" /\ s \notin activated
         /\ s \in activated => row.status \notin {"REFUND_PENDING", "REFUND_CLAIMED"}
<1>1. row.status \in Statuses /\ row.escrowAmount \in Nat
  BY DEF TablesFit, Tables, Deposits
<1>2. RowBehind(row, {}, s, c)
  BY DEF Behind, RowsBehind
<1>3. /\ row.escrowAmount = AmountIn(escrow, s, c)
      /\ Says(escrow, stake, tokens, s, c, row.status)
  BY <1>2 DEF RowBehind, Named, Moves
<1>4. AllOrNothing(escrow) /\ activated = escrow.activated /\ escrow \in EscrowState
  BY DEF SafeInv, OneOutcome, TypeOK, EscrowTypeOK
<1>5. PICK r : r = SlotOf(escrow, s, c)
  OBVIOUS
<1>6. PICK owed : owed = escrow.pendingRefunds[<<s, c>>]
  OBVIOUS
<1>7. /\ r.released => r.reserved /\ s \in activated /\ ~r.refunded
      /\ r.refunded => r.reserved /\ s \notin activated
      /\ owed # 0 => r.refunded /\ owed = r.amount
  BY <1>4, <1>5, <1>6 DEF AllOrNothing, SlotOf
<1>8. owed \in Nat
  BY <1>4, <1>6 DEF EscrowState, Deposits
<1>9. owed # 0 => owed = row.escrowAmount
  BY <1>3, <1>5, <1>7 DEF AmountIn, SlotOf
<1>10. PICK st : st = row.status
  OBVIOUS
<1>11. \/ ~r.reserved /\ st = "NONE"
       \/ r.reserved /\ ~r.released /\ ~r.refunded /\ st = "PENDING"
       \/ r.released /\ st \in {"RELEASED", "FORFEITED", "REFUNDED"}
       \/ r.refunded /\ owed > 0 /\ st = "REFUND_PENDING"
       \/ r.refunded /\ owed = 0 /\ st \in {"REFUND_CLAIMED", "REFUNDED"}
  BY <1>3, <1>5, <1>6, <1>10 DEF Says, Live, InfoSays
<1>12. /\ st = "NONE" <=> ~r.reserved
       /\ st = "REFUND_PENDING" <=> owed > 0
       /\ r.released <=> st \in {"RELEASED", "FORFEITED"} \/ (st = "REFUNDED" /\ s \in activated)
       /\ r.refunded <=> \/ st \in {"REFUND_PENDING", "REFUND_CLAIMED"}
                         \/ st = "REFUNDED" /\ s \notin activated
       /\ s \in activated => st \notin {"REFUND_PENDING", "REFUND_CLAIMED"}
  BY <1>7, <1>8, <1>11
<1> QED
  BY <1>1, <1>3, <1>5, <1>6, <1>8, <1>9, <1>10, <1>12

\* IndexMirrorsSeasons of the tables d.
LEMMA MirroredTokens ==
  ASSUME SafeInv, ChainFits, NEW d, TablesFit(d), Behind(d, {})
  PROVE  /\ d.token = tokens
         /\ tickerBlocklist \ SeededTickers \subseteq d.blocklist
         /\ d.blocklist \subseteq tickerBlocklist
         /\ d.winnerTicker = {winnerTickers[t] : t \in Tickers} \ {NoToken}
         /\ \A s \in Seasons : d.phase[s] = phaseOf[s]
         /\ \A t \in tokens :
               /\ t \in d.isFinalist => \E s \in Seasons : <<s, t>> \in finalists
               /\ <<t.season, t>> \in finalists => t \in d.isFinalist \cup d.unread
         /\ d.isFinalist \subseteq tokens
<1>0. \A n : Named({}, n) = {}
  BY DEF Named
<1>1. /\ tokens \subseteq Tokens /\ tickerBlocklist \subseteq Tickers
      /\ winnerTickers \in [Tickers -> Tokens \cup {NoToken}]
  BY DEF SafeInv, TypeOK
<1>2. d.token \subseteq Tokens /\ d.blocklist \subseteq Tickers /\ d.winnerTicker \subseteq Tokens
  BY DEF TablesFit, Tables
<1>3. d.token = tokens
  BY <1>0, <1>1, <1>2 DEF Behind, TokensBehind
<1>4. tickerBlocklist \ SeededTickers \subseteq d.blocklist /\ d.blocklist \subseteq tickerBlocklist
  BY <1>0, <1>1, <1>2 DEF Behind, BlocksBehind
<1>5. d.winnerTicker = {winnerTickers[t] : t \in Tickers} \ {NoToken}
  <2>1. \A t \in Tokens : t \in d.winnerTicker <=> winnerTickers[t.ticker] = t
    BY <1>0 DEF Behind, WinnersBehind
  <2>2. \A t \in Tokens : t.ticker \in Tickers /\ t # NoToken
    BY LauncherConstants DEF Tokens
  <2>3. \A k \in Tickers : winnerTickers[k] # NoToken =>
           winnerTickers[k] \in Tokens /\ winnerTickers[k].ticker = k
    BY <1>1 DEF ChainFits, WinnersFit
  <2> QED
    BY <1>2, <2>1, <2>2, <2>3
<1>6. \A s \in Seasons : d.phase[s] = phaseOf[s]
  BY <1>0 DEF Behind, PhasesBehind
<1>7. /\ \A t \in d.isFinalist : \E s \in Seasons : <<s, t>> \in finalists
      /\ \A t \in tokens : <<t.season, t>> \in finalists => t \in d.isFinalist \cup d.unread
      /\ d.isFinalist \subseteq tokens
  BY <1>0, <1>3 DEF Behind, FinalistsBehind
<1> QED
  BY <1>3, <1>4, <1>5, <1>6, <1>7

\* The reservation rows of a ticker.
LEMMA MirroredTicker ==
  ASSUME SafeInv, NEW d, TablesFit(d), Behind(d, {}), NEW s \in Seasons, NEW t \in Tickers,
         NEW taken, taken = {row \in d.seasonTicker : row.season = s /\ row.ticker = t}
  PROVE  {row.creator : row \in taken}
            = IF s \in aborted THEN {} ELSE {seasonTickers[s][t]} \ {NoOne, Owner}
<1>0. \A n : Named({}, n) = {}
  BY DEF Named
<1>1. \A c \in Creators :
         Claim(s, t, c) \in d.seasonTicker <=> seasonTickers[s][t] = c /\ s \notin aborted
  BY <1>0 DEF Behind, TickersBehind
<1>2. d.seasonTicker \subseteq [season: Seasons, ticker: Tickers, creator: Creators]
  BY DEF TablesFit, Tables
<1>3. seasonTickers[s][t] \in Creators \cup {Owner, NoOne}
  BY DEF SafeInv, TypeOK
<1>4. \A row \in taken : row.creator \in Creators /\ row = Claim(s, t, row.creator)
  BY <1>2 DEF Claim
<1>5. \A c \in Creators : Claim(s, t, c) \in d.seasonTicker =>
         Claim(s, t, c) \in taken /\ Claim(s, t, c).creator = c
  BY DEF Claim
<1>6. \A row \in taken : row \in d.seasonTicker
  OBVIOUS
<1>7. Owner \notin Creators /\ NoOne \notin Creators
  BY TokenConstants, LauncherConstants
<1>8. \A c : c \in {row.creator : row \in taken} <=> c \in Creators /\ seasonTickers[s][t] = c /\ s \notin aborted
  <2> SUFFICES ASSUME NEW c
               PROVE  c \in {row.creator : row \in taken}
                         <=> c \in Creators /\ seasonTickers[s][t] = c /\ s \notin aborted
    OBVIOUS
  <2>1. ASSUME NEW row \in taken, c = row.creator
        PROVE  c \in Creators /\ seasonTickers[s][t] = c /\ s \notin aborted
    BY <1>1, <1>4, <1>6, <2>1
  <2>2. ASSUME c \in Creators, seasonTickers[s][t] = c, s \notin aborted
        PROVE  c \in {row.creator : row \in taken}
    BY <1>1, <1>5, <2>2
  <2> QED
    BY <2>1, <2>2
<1> HIDE DEF Claim
<1> QED
  BY <1>3, <1>7, <1>8

LEMMA SeasonsMirrored ==
  ASSUME SafeInv, IndexInv
  PROVE  IndexMirrorsSeasons
<1> SUFFICES ASSUME CaughtUp PROVE IndexMirrorsSeasons
  BY DEF IndexMirrorsSeasons
<1>1. PICK d : d = db
  OBVIOUS
<1>2. TablesFit(d) /\ Behind(d, {}) /\ ChainFits
  BY <1>1, CaughtUpTables DEF IndexInv
<1>3. \A s \in Seasons, t \in Tickers :
         {row.creator : row \in {r \in d.seasonTicker : r.season = s /\ r.ticker = t}}
            = IF s \in aborted THEN {} ELSE {seasonTickers[s][t]} \ {NoOne, Owner}
  <2> SUFFICES ASSUME NEW s \in Seasons, NEW t \in Tickers
               PROVE  {row.creator : row \in {r \in d.seasonTicker : r.season = s /\ r.ticker = t}}
                         = IF s \in aborted THEN {} ELSE {seasonTickers[s][t]} \ {NoOne, Owner}
    OBVIOUS
  <2>1. PICK taken : taken = {r \in d.seasonTicker : r.season = s /\ r.ticker = t}
    OBVIOUS
  <2>2. SafeInv
    OBVIOUS
  <2>3. {row.creator : row \in taken}
           = IF s \in aborted THEN {} ELSE {seasonTickers[s][t]} \ {NoOne, Owner}
    BY <1>2, <2>1, <2>2, MirroredTicker
  <2> QED
    BY <2>1, <2>3
<1> QED
  BY <1>1, <1>2, <1>3, MirroredTokens DEF IndexMirrorsSeasons

\* The status of a row is the one that the API's reader works out from the chain.
LEMMA MirroredStatus ==
  ASSUME SafeInv, BooksInv, NEW d, d = db, TablesFit(d), Behind(d, {}), NEW s \in Seasons,
         NEW c \in Creators, NEW st, st = d.reservation[<<s, c>>].status
  PROVE  st \in StatusOnChain(s, c)
<1>1. PICK row : row = d.reservation[<<s, c>>]
  OBVIOUS
<1>2. PICK r : r = escrow.escrows[<<s, c>>]
  OBVIOUS
<1>3. PICK owed : owed = escrow.pendingRefunds[<<s, c>>]
  OBVIOUS
<1>4. PICK paid : paid = (<<s, c>> \in db.claimed)
  OBVIOUS
<1>5. PICK infos : infos = {stake.launchInfo[t] : t \in {k \in CommunityTokens(s) : k.creator = c}}
  OBVIOUS
<1>6. /\ Says(escrow, stake, tokens, s, c, st) /\ owed \in Nat
      /\ st = "NONE" <=> ~r.reserved
      /\ st = "REFUND_PENDING" <=> owed > 0
      /\ r.released <=> st \in {"RELEASED", "FORFEITED"} \/ (st = "REFUNDED" /\ s \in activated)
      /\ r.refunded <=> \/ st \in {"REFUND_PENDING", "REFUND_CLAIMED"}
                        \/ st = "REFUNDED" /\ s \notin activated
  BY <1>1, <1>2, <1>3, SettledRow DEF SlotOf
<1>7. paid <=> st = "REFUND_CLAIMED"
  BY <1>4 DEF TablesFit, RowsFit, RowFits
<1>8. r.released => \E t \in Community(tokens, s) : t.creator = c /\ InfoSays(stake.launchInfo[t], st)
  BY <1>2, <1>6 DEF Says, SlotOf, Live
<1>9. \A t, u \in Community(tokens, s) : t.creator = u.creator => t = u
  BY DEF BooksInv, TokensFit
<1>10. r.released => \E i : infos = {i} /\ InfoSays(i, st)
  BY <1>5, <1>8, <1>9 DEF Community, CommunityTokens
<1>11. StatusOnChain(s, c) =
          CASE ~r.reserved -> {"NONE"}
            [] Live(r) -> {"PENDING"}
            [] r.released -> {IF \E i \in infos : i.refunded THEN "REFUNDED"
                              ELSE IF \E i \in infos : i.filteredEarly THEN "FORFEITED"
                              ELSE "RELEASED"}
            [] owed > 0 -> {"REFUND_PENDING"}
            [] paid -> {"REFUND_CLAIMED"}
            [] OTHER -> {"REFUNDED"}
  BY <1>2, <1>3, <1>4, <1>5 DEF StatusOnChain
<1>12. st \in Statuses
  BY DEF TablesFit, Tables, Deposits
<1>13. Live(r) <=> st = "PENDING"
  BY <1>2, <1>6, <1>12, Zenon DEF Live, Says, SlotOf, InfoSays
<1> HIDE <1>1, <1>2, <1>3, <1>4, <1>5
<1>14. CASE st \in {"NONE", "PENDING", "REFUND_PENDING", "REFUND_CLAIMED"}
  BY <1>6, <1>7, <1>11, <1>13, <1>14
<1>15. CASE r.released
  <2>1. PICK i : infos = {i} /\ InfoSays(i, st)
    BY <1>10, <1>15
  <2>2. st = IF \E j \in infos : j.refunded THEN "REFUNDED"
             ELSE IF \E j \in infos : j.filteredEarly THEN "FORFEITED" ELSE "RELEASED"
    BY <2>1 DEF InfoSays
  <2>3. r.reserved /\ ~Live(r) /\ ~(owed > 0) /\ ~paid
    BY <1>6, <1>7, <1>13, <1>15
  <2>4. StatusOnChain(s, c) =
           {IF \E j \in infos : j.refunded THEN "REFUNDED"
            ELSE IF \E j \in infos : j.filteredEarly THEN "FORFEITED" ELSE "RELEASED"}
    BY <1>11, <1>15, <2>3
  <2> QED
    BY <2>2, <2>4
<1>16. CASE st = "REFUNDED" /\ ~r.released
  BY <1>6, <1>7, <1>11, <1>13, <1>16
<1> QED
  BY <1>6, <1>12, <1>14, <1>15, <1>16 DEF Statuses

\* The ether of the deposits of C, summed up in the escrow and in the table.
LEMMA MirroredAmount ==
  ASSUME SafeInv, NEW d, TablesFit(d), Behind(d, {}), NEW s \in Seasons, NEW S,
         NEW C \in SUBSET Creators,
         \A c \in Creators : d.reservation[<<s, c>>].status \in S /\ d.reservation[<<s, c>>].status # "NONE"
                                <=> c \in C
  PROVE  Total([c \in C |-> AmountIn(escrow, s, c)]) = Part(d, s, S)
<1> DEFINE f == [c \in C |-> AmountIn(escrow, s, c)]
<1>1. d \in Tables /\ RowsFit(d)
  BY DEF TablesFit
<1>2. \A c \in Creators : AmountIn(escrow, s, c) = d.reservation[<<s, c>>].escrowAmount
                          /\ AmountIn(escrow, s, c) \in Nat
  <2> SUFFICES ASSUME NEW c \in Creators
               PROVE  AmountIn(escrow, s, c) = d.reservation[<<s, c>>].escrowAmount
                      /\ AmountIn(escrow, s, c) \in Nat
    OBVIOUS
  <2>1. PICK row : row = d.reservation[<<s, c>>]
    OBVIOUS
  <2>2. row.escrowAmount \in Nat /\ row.escrowAmount = AmountIn(escrow, s, c)
    BY <2>1, SettledRow
  <2> QED
    BY <2>1, <2>2
<1>3. f \in [C -> Nat] /\ \A c \in C : f[c] = d.reservation[<<s, c>>].escrowAmount
  BY <1>2
<1> HIDE DEF f
<1>4. Total(f) = Part(d, s, S)
  BY <1>1, <1>3, PartOfRows
<1> QED
  BY <1>4 DEF f

\* The running totals of a season, as the escrow's storage adds them up.
LEMMA MirroredTotals ==
  ASSUME SafeInv, NEW d, TablesFit(d), Behind(d, {}), NEW s \in Seasons, NEW sum, sum = d.summary[s],
         NEW owed, owed = Total([c \in Creators |-> escrow.pendingRefunds[<<s, c>>]])
  PROVE  /\ sum.reservationCount = ReservationCountOf(escrow, s)
         /\ sum.totalEscrowed = Total([c \in Creators |-> AmountIn(escrow, s, c)])
         /\ sum.totalReleased =
               Total([c \in {k \in Creators : escrow.escrows[<<s, k>>].released} |-> AmountIn(escrow, s, c)])
         /\ sum.totalRefundPending = owed
         /\ sum.totalRefunded + owed =
               Total([c \in {k \in Creators : escrow.escrows[<<s, k>>].refunded} |-> AmountIn(escrow, s, c)])
         /\ sum.activated = (s \in activated) /\ sum.aborted = (s \in aborted)
<1> DEFINE status(c) == d.reservation[<<s, c>>].status
           slot(c) == SlotOf(escrow, s, c)
           live == s \in activated
           out == IF live THEN {"RELEASED", "FORFEITED", "REFUNDED"} ELSE {"RELEASED", "FORFEITED"}
           back == IF live THEN {"REFUND_CLAIMED"} ELSE {"REFUND_CLAIMED", "REFUNDED"}
           whole == back \cup {"REFUND_PENDING"}
<1>1. d \in Tables /\ AddsUp(d, s, sum)
  BY DEF TablesFit, TotalsFit
<1>2. \A c \in Creators :
         /\ status(c) \in Statuses
         /\ status(c) = "NONE" <=> ~slot(c).reserved
         /\ status(c) = "REFUND_PENDING" <=> escrow.pendingRefunds[<<s, c>>] > 0
         /\ escrow.pendingRefunds[<<s, c>>] \in Nat
         /\ escrow.pendingRefunds[<<s, c>>] > 0 =>
               escrow.pendingRefunds[<<s, c>>] = d.reservation[<<s, c>>].escrowAmount
         /\ slot(c).released <=> status(c) \in {"RELEASED", "FORFEITED"} \/ (status(c) = "REFUNDED" /\ live)
         /\ slot(c).refunded <=> \/ status(c) \in {"REFUND_PENDING", "REFUND_CLAIMED"}
                                 \/ status(c) = "REFUNDED" /\ ~live
         /\ live => status(c) \notin {"REFUND_PENDING", "REFUND_CLAIMED"}
  BY SettledRow
<1>3. Part(d, s, Statuses) = Total([c \in Creators |-> AmountIn(escrow, s, c)])
  <2>1. \A c \in Creators :
           /\ d.reservation[<<s, c>>].status \in Statuses
           /\ d.reservation[<<s, c>>].escrowAmount = AmountIn(escrow, s, c)
    BY SettledRow
  <2>2. PartOf(d, s, Statuses) = [c \in Creators |-> AmountIn(escrow, s, c)]
    BY <2>1 DEF PartOf
  <2> QED
    BY <2>2 DEF Part
<1>4. RowsOf(d, s) = Reservers(escrow, s)
  BY <1>2 DEF RowsOf, Reservers, SlotOf
<1>5. Part(d, s, {"REFUND_PENDING"}) = owed
  <2>1. \A c \in Creators :
           escrow.pendingRefunds[<<s, c>>] = IF status(c) = "REFUND_PENDING"
                                             THEN d.reservation[<<s, c>>].escrowAmount ELSE 0
    BY <1>2
  <2>2. PartOf(d, s, {"REFUND_PENDING"}) = [c \in Creators |-> escrow.pendingRefunds[<<s, c>>]]
    BY <2>1 DEF PartOf
  <2> QED
    BY <2>2 DEF Part
<1>6. /\ sum.activated \in BOOLEAN /\ sum.aborted \in BOOLEAN
      /\ sum.activated <=> live
      /\ sum.aborted <=> s \in aborted
  BY DEF Behind, FlagsBehind, Named, TablesFit, Tables, Summary
<1>7. /\ Part(d, s, out) = Total([c \in {k \in Creators : escrow.escrows[<<s, k>>].released} |->
                                      AmountIn(escrow, s, c)])
      /\ Part(d, s, whole) = Total([c \in {k \in Creators : escrow.escrows[<<s, k>>].refunded} |->
                                        AmountIn(escrow, s, c)])
  <2> DEFINE R == {k \in Creators : escrow.escrows[<<s, k>>].released}
             B == {k \in Creators : escrow.escrows[<<s, k>>].refunded}
  <2>1. \A c \in Creators :
           /\ status(c) \in out /\ status(c) # "NONE" <=> c \in R
           /\ status(c) \in whole /\ status(c) # "NONE" <=> c \in B
    BY <1>2 DEF SlotOf
  <2>2. R \in SUBSET Creators /\ B \in SUBSET Creators
    OBVIOUS
  <2> HIDE DEF R, B, out, whole
  <2>3. Total([c \in R |-> AmountIn(escrow, s, c)]) = Part(d, s, out)
    BY <2>1, <2>2, MirroredAmount
  <2>4. Total([c \in B |-> AmountIn(escrow, s, c)]) = Part(d, s, whole)
    BY <2>1, <2>2, MirroredAmount
  <2> QED
    BY <2>3, <2>4 DEF R, B
<1>8. Part(d, s, whole) = Part(d, s, back) + Part(d, s, {"REFUND_PENDING"})
  <2>1. back \cap {"REFUND_PENDING"} = {}
    OBVIOUS
  <2>2. PICK b, w : b = back /\ w = whole
    OBVIOUS
  <2>3. b \cap {"REFUND_PENDING"} = {} /\ w = b \cup {"REFUND_PENDING"}
    BY <2>1, <2>2
  <2>4. Part(d, s, w) = Part(d, s, b) + Part(d, s, {"REFUND_PENDING"})
    BY <1>1, <2>3, PartJoin
  <2> QED
    BY <2>2, <2>4
<1>9. /\ sum.reservationCount = Cardinality(RowsOf(d, s))
      /\ sum.totalEscrowed = Part(d, s, Statuses)
      /\ sum.totalReleased = Part(d, s, out)
      /\ sum.totalRefunded = Part(d, s, back)
      /\ sum.totalRefundPending = Part(d, s, {"REFUND_PENDING"})
  <2>1. CASE live
    BY <1>1, <1>6, <2>1 DEF AddsUp
  <2>2. CASE ~live
    BY <1>1, <1>6, <2>2 DEF AddsUp
  <2> QED
    BY <2>1, <2>2
<1> QED
  BY <1>3, <1>4, <1>5, <1>6, <1>7, <1>8, <1>9 DEF ReservationCountOf

LEMMA EscrowMirrored ==
  ASSUME SafeInv, BooksInv, IndexInv
  PROVE  IndexMirrorsEscrow
<1> SUFFICES ASSUME CaughtUp PROVE IndexMirrorsEscrow
  BY DEF IndexMirrorsEscrow
<1>1. PICK d : d = db
  OBVIOUS
<1>2. TablesFit(d) /\ Behind(d, {})
  BY <1>1, CaughtUpTables
<1>3. \A s \in Seasons, c \in Creators : d.reservation[<<s, c>>].status \in StatusOnChain(s, c)
  BY <1>1, <1>2, MirroredStatus
<1> QED
  BY <1>1, <1>2, <1>3, MirroredTotals DEF IndexMirrorsEscrow

\* GET /wallet/:address/pending-refunds
LEMMA ServedRefunds ==
  ASSUME SafeInv, IndexInv, CaughtUp, NEW c \in Creators
  PROVE  PendingRefunds(c) = {[season |-> s, amount |-> escrow.pendingRefunds[<<s, c>>]] :
                                 s \in {x \in Seasons : escrow.pendingRefunds[<<x, c>>] > 0}}
<1>1. PICK d : d = db
  OBVIOUS
<1>2. TablesFit(d) /\ Behind(d, {})
  BY <1>1, CaughtUpTables
<1> DEFINE owed(s) == escrow.pendingRefunds[<<s, c>>]
           answer(s, a) == [season |-> s, amount |-> a]
<1>3. \A s \in Seasons :
         /\ owed(s) \in Nat
         /\ owed(s) > 0 <=> d.reservation[<<s, c>>].status = "REFUND_PENDING"
         /\ owed(s) > 0 => owed(s) = d.reservation[<<s, c>>].escrowAmount
  BY <1>2, SettledRow
<1>4. \A s \in Seasons, a \in Nat :
         Credit(s, c, a) \in d.pendingRefund /\ <<s, c>> \notin d.claimed <=> owed(s) > 0 /\ a = owed(s)
  <2> SUFFICES ASSUME NEW s \in Seasons, NEW a \in Nat
               PROVE  Credit(s, c, a) \in d.pendingRefund /\ <<s, c>> \notin d.claimed
                         <=> owed(s) > 0 /\ a = owed(s)
    OBVIOUS
  <2>1. PICK row : row = d.reservation[<<s, c>>]
    OBVIOUS
  <2>2. RowFits(d, s, c, row)
    BY <1>2, <2>1 DEF TablesFit, RowsFit
  <2>3. /\ <<s, c>> \in d.claimed <=> row.status = "REFUND_CLAIMED"
        /\ Credit(s, c, a) \in d.pendingRefund
              <=> row.status \in {"REFUND_PENDING", "REFUND_CLAIMED"} /\ a = row.escrowAmount
    BY <2>2 DEF RowFits
  <2> HIDE DEF owed
  <2> QED
    BY <1>3, <2>1, <2>3
<1>5. d.pendingRefund \subseteq [season: Seasons, creator: Creators, amount: Nat]
  BY <1>2 DEF TablesFit, Tables
<1> HIDE DEF owed
<1>6. \A x : x \in PendingRefunds(c) <=> \E s \in Seasons : owed(s) > 0 /\ x = answer(s, owed(s))
  <2> SUFFICES ASSUME NEW x
               PROVE  x \in PendingRefunds(c) <=> \E s \in Seasons : owed(s) > 0 /\ x = answer(s, owed(s))
    OBVIOUS
  <2>1. ASSUME x \in PendingRefunds(c)
        PROVE  \E s \in Seasons : owed(s) > 0 /\ x = answer(s, owed(s))
    <3>1. PICK row \in d.pendingRefund : /\ row.creator = c /\ <<row.season, c>> \notin d.claimed
                                         /\ x = answer(row.season, row.amount)
      BY <1>1, <2>1 DEF PendingRefunds
    <3>2. row.season \in Seasons /\ row.amount \in Nat /\ row = Credit(row.season, c, row.amount)
      BY <1>5, <3>1 DEF Credit
    <3> HIDE DEF answer
    <3> QED
      BY <1>4, <3>1, <3>2
  <2>2. ASSUME NEW s \in Seasons, owed(s) > 0, x = answer(s, owed(s))
        PROVE  x \in PendingRefunds(c)
    <3>1. PICK row : row = Credit(s, c, owed(s))
      OBVIOUS
    <3>2. row \in d.pendingRefund /\ <<s, c>> \notin d.claimed
      BY <1>3, <1>4, <2>2, <3>1
    <3>3. row.season = s /\ row.creator = c /\ row.amount = owed(s)
      BY <3>1 DEF Credit
    <3> HIDE <3>1
    <3> QED
      BY <1>1, <2>2, <3>2, <3>3 DEF PendingRefunds
  <2> QED
    BY <2>1, <2>2
<1> QED
  BY <1>6 DEF owed

\* GET /season/:id/tickers/check
LEMMA ServedTickers ==
  ASSUME SafeInv, IndexInv, CaughtUp, NEW s \in Seasons, NEW t \in Tickers
  PROVE  TickersCheck(s, t) = "available" <=>
            /\ t \notin tickerBlocklist \/ t \in UntoldTickers
            /\ winnerTickers[t] = NoToken
            /\ seasonTickers[s][t] \in {NoOne, Owner} \/ s \in aborted
<1>1. PICK d : d = db
  OBVIOUS
<1>2. TablesFit(d) /\ Behind(d, {}) /\ ChainFits
  BY <1>1, CaughtUpTables DEF IndexInv
<1>3. PICK taken : taken = {row \in d.seasonTicker : row.season = s /\ row.ticker = t}
  OBVIOUS
<1>4. PICK gone : gone = \E k \in d.winnerTicker : k.ticker = t
  OBVIOUS
<1>5. PICK blocked : blocked = (t \in d.blocklist)
  OBVIOUS
<1>6. TickersCheck(s, t) =
         CASE blocked -> "blocklisted"
           [] ~blocked /\ gone -> "winner_taken"
           [] OTHER -> IF taken # {} THEN "season_taken" ELSE "available"
  BY <1>1, <1>3, <1>4, <1>5 DEF TickersCheck
<1>7. TickersCheck(s, t) = "available" <=> ~blocked /\ ~gone /\ taken = {}
  <2> HIDE <1>3, <1>4, <1>5
  <2>1. CASE blocked
    BY <1>6, <2>1
  <2>2. CASE ~blocked /\ gone
    BY <1>6, <2>2
  <2>3. CASE ~blocked /\ ~gone
    BY <1>6, <2>3
  <2> QED
    BY <2>1, <2>2, <2>3
<1>8. /\ tickerBlocklist \ SeededTickers \subseteq d.blocklist
      /\ d.blocklist \subseteq tickerBlocklist
      /\ d.winnerTicker = {winnerTickers[k] : k \in Tickers} \ {NoToken}
  BY <1>2, MirroredTokens
<1>9. gone <=> winnerTickers[t] # NoToken
  BY <1>2, <1>4, <1>8 DEF ChainFits, WinnersFit
<1>10. {row.creator : row \in taken} = IF s \in aborted THEN {} ELSE {seasonTickers[s][t]} \ {NoOne, Owner}
  BY <1>2, <1>3, MirroredTicker
<1>11. taken = {} <=> seasonTickers[s][t] \in {NoOne, Owner} \/ s \in aborted
  <2>1. PICK C : C = {row.creator : row \in taken}
    OBVIOUS
  <2>2. taken = {} <=> C = {}
    BY <2>1
  <2>3. C = IF s \in aborted THEN {} ELSE {seasonTickers[s][t]} \ {NoOne, Owner}
    BY <1>10, <2>1
  <2> HIDE <1>3, <2>1
  <2> QED
    BY <2>2, <2>3
<1>12. ~blocked <=> t \notin tickerBlocklist \/ t \in UntoldTickers
  BY <1>1, <1>5, <1>8 DEF UntoldTickers
<1> QED
  BY <1>7, <1>9, <1>11, <1>12

\* GET /season
LEMMA ServedSeason ==
  ASSUME SafeInv, BooksInv, IndexInv, CaughtUp
  PROVE  SeasonResponse =
            {[seasonId |-> s, phase |-> ApiPhase(phaseOf[s]), launchCount |-> launchCount[s]] :
                s \in {x \in {currentSeasonId} : x # 0}}
<1>1. PICK d : d = db
  OBVIOUS
<1>2. TablesFit(d) /\ Behind(d, {}) /\ ChainFits
  BY <1>1, CaughtUpTables DEF IndexInv
<1>3. d.token = tokens /\ \A s \in Seasons : d.phase[s] = phaseOf[s]
  BY <1>2, MirroredTokens
<1>4. \A s \in Seasons : s <= currentSeasonId <=> s \in d.season
  BY <1>2 DEF Behind, SeasonsBehind, Named
<1>5. d.season \subseteq Seasons
  BY <1>2 DEF TablesFit, Tables
<1>6. currentSeasonId \in 0..Cardinality(Seasons) /\ Seasons = 1..Cardinality(Seasons)
      /\ Cardinality(Seasons) \in Nat
  BY LauncherConstants, EscrowConstants, FS_CardinalityType DEF SafeInv, TypeOK
<1>7. {x \in d.season : \A y \in d.season : y <= x} = {x \in {currentSeasonId} : x # 0}
  <2>1. PICK n : n = Cardinality(Seasons)
    OBVIOUS
  <2>2. n \in Nat /\ currentSeasonId \in 0..n /\ \A x : x \in Seasons <=> x \in 1..n
    BY <1>6, <2>1
  <2>3. \A x : x \in d.season <=> x \in 1..n /\ x <= currentSeasonId
    BY <1>4, <1>5, <2>2
  <2> HIDE <2>1
  <2> QED
    BY <2>2, <2>3
<1>8. \A s \in Seasons : PublicLaunchCount(s) = launchCount[s]
  <2> SUFFICES ASSUME NEW s \in Seasons PROVE PublicLaunchCount(s) = launchCount[s]
    OBVIOUS
  <2>1. {t \in db.token : t.season = s /\ t.creator # Owner} = CommunityTokens(s)
    BY <1>1, <1>3 DEF CommunityTokens, IsProtocolLaunched
  <2> QED
    BY <2>1 DEF PublicLaunchCount, BooksInv, CountsFit
<1>9. \A s \in {x \in {currentSeasonId} : x # 0} : s \in Seasons
  BY <1>6
<1> DEFINE now == {x \in {currentSeasonId} : x # 0}
<1>10. SeasonResponse = {[seasonId |-> s, phase |-> ApiPhase(d.phase[s]), launchCount |-> PublicLaunchCount(s)] : s \in now}
  BY <1>1, <1>7 DEF SeasonResponse
<1>11. \A s \in now : /\ ApiPhase(d.phase[s]) = ApiPhase(phaseOf[s])
                      /\ PublicLaunchCount(s) = launchCount[s]
  BY <1>3, <1>8, <1>9
<1> HIDE DEF now, ApiPhase
<1>12. SeasonResponse = {[seasonId |-> s, phase |-> ApiPhase(phaseOf[s]), launchCount |-> launchCount[s]] : s \in now}
  BY <1>10, <1>11
<1> QED
  BY <1>12 DEF now

(***************************************************************************)
(* Theorems                                                                *)
(***************************************************************************)

\* The launcher keeps its own promises with an indexer next to it, so that what is
\* proved of Spec holds of the chain that the tables mirror.
THEOREM IndexedLauncher == IndexSpec => Spec
<1>1. IndexInit => Init
  BY DEF IndexInit
<1>2. [IndexNext]_indexVars => [Next]_vars
  BY IndexNextChain
<1> QED
  BY <1>1, <1>2, PTL DEF IndexSpec, Spec

\* Once the logs are handled the tables hold what the contracts hold, but for the tickers
\* of the constructor and finalists whose entry could not be read; a handler throws only on
\* a repeated block or a phase advance at a used position, the launch page adds up after
\* every single log, and the endpoints answer what the contracts would, but for the three
\* kinds of ticker that AnswersAreTheChains names.
THEOREM LaunchStaysServed == IndexSpec => []LaunchIsServed
<1>1. Spec => []SafeInv
  BY InitInv, StepInv, PTL DEF Spec
<1>2. SafeInv /\ BooksInv /\ TickerInv => ChainInv
  BY DEF ChainInv
<1>3. IndexInit => IndexInv
  BY IndexStart
<1>4. ChainInv /\ ChainInv' /\ IndexInv /\ [IndexNext]_indexVars => IndexInv'
  BY IndexStep
<1>5. ASSUME SafeInv, BooksInv, IndexInv PROVE LaunchIsServed
  <2>1. IndexMirrorsChain
    <3>1. StopsOnlyOnRepeats
      BY <1>5 DEF IndexInv, StopsOnlyOnRepeats
    <3> QED
      BY <1>5, <3>1, EscrowMirrored, SeasonsMirrored DEF IndexMirrorsChain
  <2>2. StatusAddsUp
    BY <1>5, TablesAddUp DEF IndexInv
  <2>3. AnswersAreTheChains
    BY <1>5, ServedRefunds, ServedTickers, ServedSeason DEF AnswersAreTheChains
  <2> QED
    BY <2>1, <2>2, <2>3 DEF LaunchIsServed
<1>6. SafeInv /\ BooksInv /\ IndexInv => LaunchIsServed
  BY <1>5
<1> QED
  BY <1>1, <1>2, <1>3, <1>4, <1>6, IndexedLauncher, BooksInvariant, TickerInvariant, PTL DEF IndexSpec

==============================================================================

----------------------------- MODULE LaunchIndex -----------------------------
(***************************************************************************)
(* The launch side of the chain and its mirror in the indexer: every step  *)
(* of FilterLauncher emits its logs, and the handlers of FilterLauncher.ts,*)
(* LaunchEscrow.ts and LauncherStakeAdmin.ts turn them, one at a time and  *)
(* in order, into rows.                                                    *)
(*                                                                         *)
(* A log whose handler only broadcasts (ReservationReleased, the escrow's  *)
(* SeasonAborted) is left out. An insert throws if its key exists; Ponder  *)
(* then stops with the log unprocessed. "find" before "update" makes sure  *)
(* of rows that the order of the logs puts there anyway.                   *)
(***************************************************************************)
EXTENDS FilterLauncher, Sequences

CONSTANT LogIndexes     \* positions in its block that a PhaseAdvanced log may have

VARIABLES
    log,      \* logs the indexer has not processed, oldest first
    db,       \* the indexer's tables
    halted    \* a handler has thrown

indexVars == <<vars, log, db, halted>>

Summary ==
    [reservationCount: Nat, totalEscrowed: Nat, totalReleased: Nat, totalRefunded: Nat,
     totalRefundPending: Nat, totalForfeited: Nat, activated: BOOLEAN, aborted: BOOLEAN]

NewSummary ==
    [reservationCount |-> 0, totalEscrowed |-> 0, totalReleased |-> 0, totalRefunded |-> 0,
     totalRefundPending |-> 0, totalForfeited |-> 0, activated |-> FALSE, aborted |-> FALSE]

NoRow == [status |-> "NONE", escrowAmount |-> 0]

EmptyTables ==
    [season |-> {},                                   \* started seasons
     phase |-> [s \in Seasons |-> Launch],            \* season.phase
     phaseChange |-> {},                              \* ids: <<season, log index>>
     summary |-> [s \in Seasons |-> NewSummary],      \* launchEscrowSummary
     token |-> {}, isFinalist |-> {},
     reservation |-> [d \in Deposits |-> NoRow],
     seasonTicker |-> {},                             \* seasonTickerReservation
     pendingRefund |-> {},                            \* rows, keyed by season and creator
     claimed |-> {},                                  \* keys of those with claimed set
     blocklist |-> {}, winnerTicker |-> {},
     \* history, not a table: finalists whose entry a handler failed to read, and
     \* that no handler has marked since
     unread |-> {}]

(***************************************************************************)
(* What each transaction emits                                             *)
(***************************************************************************)

\* The reservers of a season in the order of their slots.
BySlot(s) ==
    [i \in 1..ReservationCountOf(escrow', s) |->
        CHOOSE c \in Reservers(escrow', s) : escrow'.escrows[<<s, c>>].slotIndex = i - 1]

\* A set in some order.
Listed(S) ==
    CHOOSE f \in [1..Cardinality(S) -> S] : \A x \in S : \E i \in DOMAIN f : f[i] = x

AmountIn(e, s, c) == e.escrows[<<s, c>>].amount

\* The tokens that the launcher holds for finalists of the season after the call.
FinalistEntries(s) == {t \in Tokens : <<s, t>> \in finalists'}

LaunchedLog(t) == [name |-> "TokenLaunched", season |-> t.season, token |-> t]

\* The escrow's SlotReserved, then _deployToken's logs and SeasonActivated.
ReserveLogs(s, c, t) ==
    LET new == tokens' \ tokens
        order == IF new = {} THEN <<>> ELSE IF s \in activated THEN <<c>> ELSE BySlot(s)
    IN  <<[name |-> "SlotReserved", season |-> s, creator |-> c, ticker |-> t,
           amount |-> AmountIn(escrow', s, c)]>>
        \o [i \in 1..Len(order) |-> LaunchedLog(CHOOSE k \in new : k.creator = order[i])]
        \o (IF activated' # activated THEN <<[name |-> "SeasonActivated", season |-> s]>> ELSE <<>>)

\* refundAll's log for every reserver comes before the launcher's SeasonAborted.
AbortLogs(s) ==
    [i \in 1..ReservationCountOf(escrow', s) |->
        [name |-> IF escrow'.pendingRefunds[<<s, BySlot(s)[i]>>] > 0 THEN "RefundFailed"
                  ELSE "ReservationRefunded",
         season |-> s, creator |-> BySlot(s)[i], amount |-> AmountIn(escrow', s, BySlot(s)[i])]]
    \o <<[name |-> "SeasonAborted", season |-> s]>>

SoftFilterLogs(S, F) ==
    LET list == Listed(S) \o Listed(F) IN
    [i \in 1..Len(list) |->
        [name |-> IF i <= Cardinality(S) THEN "StakeRefunded" ELSE "StakeForfeited",
         season |-> list[i].season, creator |-> list[i].creator,
         amount |-> stake.launchInfo[list[i]].stakeAmount]]

\* Bound: the chain waits for the indexer, which handles logs in order and reads
\* nothing but its rows and the logs, so that running ahead changes nothing. A
\* stopped indexer leaves the rest of the chain's logs alone.
Emits(logs) ==
    /\ halted \/ log = <<>>
    /\ log' = IF halted THEN log ELSE logs
    /\ UNCHANGED <<db, halted>>

Transaction ==
    \/ \E cost \in BaseLaunchCosts, enabled \in StakeModes :
          SetLaunchConfig(cost, enabled) /\ Emits(<<>>)
    \/ \E p \in BOOLEAN : SetPaused(p) /\ Emits(<<>>)
    \/ \E t \in Blockable :
          AddTickerToBlocklist(t) /\ Emits(<<[name |-> "TickerBlocked", ticker |-> t]>>)
    \/ StartSeason /\ Emits(<<[name |-> "SeasonStarted", season |-> currentSeasonId']>>)
    \/ \E s \in Seasons : CloseWindow(s) /\ Emits(<<>>)
    \/ \E s \in Seasons, i \in LogIndexes :
          /\ AdvancePhase(s)
          /\ Emits(<<[name |-> "PhaseAdvanced", season |-> s, newPhase |-> phaseOf'[s],
                      logIndex |-> i]>>)
    \/ \E s \in Seasons, list \in FinalistLists, relayed \in BOOLEAN :
          \* relayed: the oracle calls through another contract, whose calldata
          \* the handler cannot read; it then asks for the entries one by one, and
          \* its calls for those in unread fail
          /\ SetFinalists(s, list)
          /\ \E unread \in SUBSET (IF relayed THEN FinalistEntries(s) ELSE {}) :
                Emits(<<[name |-> "FinalistsSet", season |-> s, list |-> list,
                         relayed |-> relayed, entries |-> FinalistEntries(s),
                         unread |-> unread]>>)
    \/ \E c \in Creators, t \in Tickers :
          Reserve(c, t) /\ Emits(ReserveLogs(currentSeasonId, c, t))
    \/ \E s \in Seasons, rejecting \in SUBSET Creators :
          AbortSeason(s, rejecting) /\ Emits(AbortLogs(s))
    \/ \E s \in Seasons, c \in Creators :
          /\ ClaimPendingRefund(s, c)
          /\ Emits(<<[name |-> "PendingRefundClaimed", season |-> s, creator |-> c,
                      amount |-> escrow.pendingRefunds[<<s, c>>]]>>)
    \/ \E t \in ProtocolTickers :
          /\ LaunchProtocolToken(t)
          /\ Emits(<<LaunchedLog([season |-> currentSeasonId, ticker |-> t, creator |-> Owner])>>)
    \/ \E s \in Seasons : \E survivors, forfeited \in SUBSET CommunityTokens(s) :
          /\ ApplySoftFilter(s, survivors, forfeited)
          /\ Emits(SoftFilterLogs(survivors, forfeited))
    \/ \E s \in Seasons, t \in tokens :
          /\ SetWinnerTicker(s, t)
          /\ Emits(<<[name |-> "WinnerTickerReserved", season |-> s, token |-> t]>>)

(***************************************************************************)
(* The handlers                                                            *)
(***************************************************************************)

\* The log's handler inserts a row under a key that exists.
Clashes(d, ev) ==
    \/ ev.name = "SeasonStarted" /\ ev.season \in d.season
    \/ ev.name = "TokenLaunched" /\ ev.token \in d.token
    \/ /\ ev.name = "SlotReserved"
       /\ \/ d.reservation[<<ev.season, ev.creator>>] # NoRow
          \/ \E row \in d.seasonTicker : row.season = ev.season /\ row.ticker = ev.ticker
    \/ /\ ev.name = "RefundFailed"
       /\ \E row \in d.pendingRefund : row.season = ev.season /\ row.creator = ev.creator
    \/ ev.name = "PhaseAdvanced" /\ <<ev.season, ev.logIndex>> \in d.phaseChange
    \/ ev.name = "TickerBlocked" /\ ev.ticker \in d.blocklist
    \/ ev.name = "WinnerTickerReserved" /\ \E t \in d.winnerTicker : t.ticker = ev.token.ticker

\* The reservation of the log's creator gets the status.
Status(d, ev, status) ==
    [d EXCEPT !.reservation[<<ev.season, ev.creator>>].status = status]

SlotReserved(d, ev) ==
    [d EXCEPT
        !.reservation[<<ev.season, ev.creator>>] =
            [status |-> "PENDING", escrowAmount |-> ev.amount],
        !.seasonTicker = @ \cup {[season |-> ev.season, ticker |-> ev.ticker, creator |-> ev.creator]},
        !.summary[ev.season].reservationCount = @ + 1,
        !.summary[ev.season].totalEscrowed = @ + ev.amount]

\* A protocol launch has no reservation to mark.
TokenLaunched(d, ev) ==
    LET inserted == [d EXCEPT !.token = @ \cup {ev.token}]
        key == <<ev.season, ev.token.creator>>
    IN  IF key \notin Deposits \/ d.reservation[key] = NoRow THEN inserted
        ELSE [inserted EXCEPT
                 !.reservation[key].status = "RELEASED",
                 !.summary[ev.season].totalReleased = @ + d.reservation[key].escrowAmount]

ReservationRefunded(d, ev) ==
    [Status(d, ev, "REFUNDED") EXCEPT !.summary[ev.season].totalRefunded = @ + ev.amount]

RefundFailed(d, ev) ==
    [Status(d, ev, "REFUND_PENDING") EXCEPT
        !.pendingRefund =
            @ \cup {[season |-> ev.season, creator |-> ev.creator, amount |-> ev.amount]},
        !.summary[ev.season].totalRefundPending = @ + ev.amount]

\* Slip: the amount stays in totalRefundPending.
PendingRefundCounted(d, ev) ==
    [Status(d, ev, "REFUND_CLAIMED") EXCEPT
        !.claimed = @ \cup {<<ev.season, ev.creator>>},
        !.summary[ev.season].totalRefunded = @ + ev.amount]

RefundClaimed(d, ev) ==
    [Status(d, ev, "REFUND_CLAIMED") EXCEPT
        !.claimed = @ \cup {<<ev.season, ev.creator>>},
        !.summary[ev.season].totalRefundPending = IF @ > ev.amount THEN @ - ev.amount ELSE 0,
        !.summary[ev.season].totalRefunded = @ + ev.amount]

StakeForfeited(d, ev) ==
    [Status(d, ev, "FORFEITED") EXCEPT !.summary[ev.season].totalForfeited = @ + ev.amount]

SeasonAborted(d, ev) ==
    [d EXCEPT !.summary[ev.season].aborted = TRUE,
              !.seasonTicker = {row \in @ : row.season # ev.season}]

PhaseAdvanced(d, ev) ==
    [d EXCEPT !.phase[ev.season] = ev.newPhase,
              !.phaseChange = @ \cup {<<ev.season, ev.logIndex>>}]

\* From the calldata, or by asking the launcher about each token of the season. A
\* call that fails is logged and passed over, and nothing asks again.
FinalistsSet(d, ev) ==
    LET asked == {t \in d.token : t.season = ev.season}
        found == IF ev.relayed THEN (asked \cap ev.entries) \ ev.unread ELSE ev.list \cap d.token
        marked == d.isFinalist \cup found
    IN  [d EXCEPT !.isFinalist = marked,
                  !.unread = (@ \cup (asked \cap ev.unread)) \ marked]

Handled(d, ev) ==
    CASE ev.name = "SeasonStarted" -> [d EXCEPT !.season = @ \cup {ev.season}]
      [] ev.name = "TokenLaunched" -> TokenLaunched(d, ev)
      [] ev.name = "PhaseAdvanced" -> PhaseAdvanced(d, ev)
      [] ev.name = "FinalistsSet" -> FinalistsSet(d, ev)
      [] ev.name = "SeasonActivated" -> [d EXCEPT !.summary[ev.season].activated = TRUE]
      [] ev.name = "SeasonAborted" -> SeasonAborted(d, ev)
      [] ev.name = "TickerBlocked" -> [d EXCEPT !.blocklist = @ \cup {ev.ticker}]
      [] ev.name = "WinnerTickerReserved" -> [d EXCEPT !.winnerTicker = @ \cup {ev.token}]
      [] ev.name = "SlotReserved" -> SlotReserved(d, ev)
      [] ev.name = "ReservationRefunded" -> ReservationRefunded(d, ev)
      [] ev.name = "RefundFailed" -> RefundFailed(d, ev)
      [] ev.name = "PendingRefundClaimed" -> RefundClaimed(d, ev)
      [] ev.name = "StakeRefunded" -> Status(d, ev, "REFUNDED")
      [] ev.name = "StakeForfeited" -> StakeForfeited(d, ev)

Handle ==
    /\ log # <<>> /\ ~halted
    /\ IF Clashes(db, Head(log))
       THEN halted' = TRUE /\ UNCHANGED <<log, db>>
       ELSE db' = Handled(db, Head(log)) /\ log' = Tail(log) /\ UNCHANGED halted
    /\ UNCHANGED vars

IndexInit == Init /\ log = <<>> /\ db = EmptyTables /\ halted = FALSE

IndexNext == Transaction \/ Handle

IndexSpec == IndexInit /\ [][IndexNext]_indexVars

(***************************************************************************)
(* Properties                                                              *)
(***************************************************************************)

\* What the reservation's row says of a deposit, read off the contracts.
StatusOnChain(s, c) ==
    LET r == escrow.escrows[<<s, c>>]
        infos == {stake.launchInfo[t] : t \in {k \in CommunityTokens(s) : k.creator = c}}
    IN  CASE ~r.reserved -> {"NONE"}
          [] Live(r) -> {"PENDING"}
          [] r.released -> {IF \E i \in infos : i.refunded THEN "REFUNDED"
                            ELSE IF \E i \in infos : i.filteredEarly THEN "FORFEITED"
                            ELSE "RELEASED"}
          [] escrow.pendingRefunds[<<s, c>>] > 0 -> {"REFUND_PENDING"}
          [] <<s, c>> \in db.claimed -> {"REFUND_CLAIMED"}
          [] OTHER -> {"REFUNDED"}

CaughtUp == log = <<>> /\ ~halted

\* Money: once the logs are handled, the row of every deposit has the status the
\* three contracts together give it, and a season's running totals are the sums
\* over the escrow's own storage, through activation, abort, failed pushes,
\* claims and soft filter (the API serves both, and nothing reconciles them).
IndexMirrorsEscrow ==
    CaughtUp =>
        \A s \in Seasons :
            LET sum == db.summary[s]
                amount(C) == Total([c \in C |-> AmountIn(escrow, s, c)])
                owed == Total([c \in Creators |-> escrow.pendingRefunds[<<s, c>>]])
                rs == escrow.escrows
            IN  /\ \A c \in Creators : db.reservation[<<s, c>>].status \in StatusOnChain(s, c)
                /\ sum.reservationCount = ReservationCountOf(escrow, s)
                /\ sum.totalEscrowed = amount(Creators)
                /\ sum.totalReleased = amount({c \in Creators : rs[<<s, c>>].released})
                /\ sum.totalRefundPending = owed
                /\ sum.totalRefunded + owed = amount({c \in Creators : rs[<<s, c>>].refunded})
                /\ sum.activated = (s \in activated) /\ sum.aborted = (s \in aborted)

\* Seasons: tokens, phases and winners are those of the chain. The blocklist is the
\* chain's but for tickers of the constructor, of which no log tells. A token is a
\* finalist only if some season's list named it; if its own did, it is one, whichever
\* way the handler read the list, unless the call that read its entry failed: then
\* it stays unmarked until a later list is read. The tickers of a season are its
\* reservations' until it is aborted (seasonTickerReservation).
IndexMirrorsSeasons ==
    CaughtUp =>
        /\ db.token = tokens
        /\ tickerBlocklist \ SeededTickers \subseteq db.blocklist
        /\ db.blocklist \subseteq tickerBlocklist
        /\ db.winnerTicker = {winnerTickers[t] : t \in Tickers} \ {NoToken}
        /\ \A s \in Seasons : db.phase[s] = phaseOf[s]
        /\ \A t \in tokens :
              /\ t \in db.isFinalist => \E s \in Seasons : <<s, t>> \in finalists
              /\ <<t.season, t>> \in finalists => t \in db.isFinalist \cup db.unread
        /\ db.isFinalist \subseteq tokens
        /\ \A s \in Seasons, t \in Tickers :
              {row.creator : row \in {r \in db.seasonTicker : r.season = s /\ r.ticker = t}}
                  = IF s \in aborted THEN {} ELSE {seasonTickers[s][t]} \ {NoOne, Owner}

\* The contracts' rules make the indexer's keys unique: the only logs that can
\* stop it are a ticker blocked twice and two phase advances of a season at the
\* same position of their blocks, whose keys nothing on the chain keeps apart.
StopsOnlyOnRepeats == halted => Head(log).name \in {"TickerBlocked", "PhaseAdvanced"}

\* The mirror, in one formula: what the API serves is what the chain holds, and
\* no order of launches, aborts, claims and soft filters throws in a handler.
IndexMirrorsChain == IndexMirrorsEscrow /\ IndexMirrorsSeasons /\ StopsOnlyOnRepeats
=============================================================================

---------------------------- MODULE FilterLauncher ----------------------------
(***************************************************************************)
(* FilterLauncher.sol with the two contracts it drives, LaunchEscrow and   *)
(* LauncherStakeAdmin: seasons, the reservation queue that deploys as a    *)
(* whole at the activation threshold, ticker uniqueness, and the ether of  *)
(* every slot from the reservation to its last owner.                      *)
(*                                                                         *)
(* One action is one transaction; a transaction that would revert is a     *)
(* step that is not there. Time is the set windowClosed of seasons whose   *)
(* 48 hour window has passed. A creator sends at least the slot cost and   *)
(* gets the excess back in the same call, so only the cost appears. The    *)
(* owner does not reserve slots for itself. Roles and one-shot wiring are  *)
(* not modelled: every privileged call is made by who may make it.         *)
(***************************************************************************)
EXTENDS LauncherStakeAdmin

CONSTANTS
    MaxLaunches,           \* 12 slots in a season
    ActivationThreshold,   \* 4 reservations deploy the season
    BaseLaunchCosts,       \* values the owner gives baseLaunchCost
    StakeModes,            \* values the owner gives refundableStakeEnabled
    SeededTickers,         \* tickers that the constructor blocks, without a log
    Blockable,             \* tickers the multisig may put on the blocklist
    ProtocolTickers,       \* tickers the owner may launch as protocol tokens
    FinalistLists,         \* lists of addresses the oracle may pass to setFinalists
    NoToken, NoOne         \* address(0) of a token, of a creator

ASSUME LauncherConstants ==
    /\ Seasons = 1..Cardinality(Seasons)
    /\ MaxLaunches \in Nat /\ ActivationThreshold \in 1..MaxLaunches
    /\ BaseLaunchCosts \subseteq Nat /\ BaseLaunchCosts # {}
    /\ StakeModes \subseteq BOOLEAN
    /\ SeededTickers \cup Blockable \cup ProtocolTickers \subseteq Tickers
    /\ FinalistLists \subseteq SUBSET Tokens
    /\ NoToken \notin Tokens /\ NoOne \notin Creators \cup {Owner}

VARIABLES
    currentSeasonId, phaseOf,
    windowClosed,               \* seasons whose launchEndTime has passed
    tokens,                     \* _tokens and _entry of all seasons
    finalists,                  \* <<season, token>> with isFinalist set
    seasonTickers, winnerTickers, tickerBlocklist,
    pending, activated, aborted, launchCount,
    paused, baseLaunchCost, refundableStakeEnabled,
    forfeitReceived,            \* ether forwarded to forfeitRecipient so far
    settled,                    \* seasons whose vault has submitted its winner
    winnersAtStart              \* history: winner tickers when the season started

seasonVars == <<currentSeasonId, phaseOf, windowClosed>>
tokenVars == <<tokens, finalists>>
tickerVars == <<seasonTickers, winnerTickers, tickerBlocklist>>
queueVars == <<pending, activated, launchCount>>
configVars == <<paused, baseLaunchCost, refundableStakeEnabled>>
moneyVars == <<escrow, stake, forfeitReceived>>
historyVars == <<settled, winnersAtStart>>

vars == <<seasonVars, tokenVars, tickerVars, queueVars, aborted, configVars, moneyVars, historyVars>>

\* The Phase enum, in order.
Launch == 0
Filter == 1
Finals == 2
Settlement == 3
Closed == 4

PendingReservation == [creator: Creators, ticker: Tickers, slotIndex: Nat]

TokenOf(s, pr) == [season |-> s, ticker |-> pr.ticker, creator |-> pr.creator]

IsProtocolLaunched(t) == t.creator = Owner

CommunityTokens(s) == {t \in tokens : t.season = s /\ ~IsProtocolLaunched(t)}

\* startSeason has set the season's launchEndTime.
Started(s) == s \in Seasons /\ s <= currentSeasonId

\* _slotCost
SlotCost(slot) ==
    (baseLaunchCost * (MaxLaunches * MaxLaunches + slot * slot)) \div (MaxLaunches * MaxLaunches)

Init ==
    /\ currentSeasonId = 0
    /\ phaseOf = [s \in Seasons |-> Launch]
    /\ windowClosed = {}
    /\ tokens = {} /\ finalists = {}
    /\ seasonTickers = [s \in Seasons |-> [t \in Tickers |-> NoOne]]
    /\ winnerTickers = [t \in Tickers |-> NoToken]
    /\ tickerBlocklist = SeededTickers       \* _seedBlocklist
    /\ pending = [s \in Seasons |-> {}]
    /\ activated = {} /\ aborted = {}
    /\ launchCount = [s \in Seasons |-> 0]
    /\ paused = FALSE
    /\ baseLaunchCost \in BaseLaunchCosts
    /\ refundableStakeEnabled = TRUE
    /\ forfeitReceived = 0
    /\ settled = {}
    /\ winnersAtStart = [s \in Seasons |-> {}]
    /\ EscrowInit
    /\ stake = NoStakes

(***************************************************************************)
(* Owner and multisig settings                                             *)
(***************************************************************************)

SetLaunchConfig(cost, enabled) ==
    /\ baseLaunchCost' = cost
    /\ refundableStakeEnabled' = enabled
    /\ UNCHANGED <<seasonVars, tokenVars, tickerVars, queueVars, aborted, paused, moneyVars,
                   historyVars>>

AddTickerToBlocklist(t) ==
    /\ tickerBlocklist' = tickerBlocklist \cup {t}
    /\ UNCHANGED <<seasonVars, tokenVars, seasonTickers, winnerTickers, queueVars, aborted,
                   configVars, moneyVars, historyVars>>

\* _pause reverts when paused, _unpause when not.
SetPaused(p) ==
    /\ paused # p
    /\ paused' = p
    /\ UNCHANGED <<seasonVars, tokenVars, tickerVars, queueVars, aborted, baseLaunchCost,
                   refundableStakeEnabled, moneyVars, historyVars>>

(***************************************************************************)
(* Season lifecycle                                                        *)
(***************************************************************************)

\* Nothing asks whether the previous season is settled or aborted.
StartSeason ==
    /\ ~paused
    /\ currentSeasonId + 1 \in Seasons       \* bound: the model has finitely many seasons
    /\ currentSeasonId' = currentSeasonId + 1
    /\ winnersAtStart' = [winnersAtStart EXCEPT ![currentSeasonId + 1] =
                              {t \in Tickers : winnerTickers[t] # NoToken}]
    /\ UNCHANGED <<phaseOf, windowClosed, tokenVars, tickerVars, queueVars, aborted, configVars,
                   moneyVars, settled>>

\* Time passes the season's launchEndTime; all windows are equally long.
CloseWindow(s) ==
    /\ Started(s) /\ s \notin windowClosed
    /\ \A r \in Seasons : r < s => r \in windowClosed
    /\ windowClosed' = windowClosed \cup {s}
    /\ UNCHANGED <<currentSeasonId, phaseOf, tokenVars, tickerVars, queueVars, aborted,
                   configVars, moneyVars, historyVars>>

AdvancePhase(s) ==
    /\ ~paused
    /\ phaseOf[s] < Closed
    /\ phaseOf[s] = Launch => s \in activated
    /\ phaseOf' = [phaseOf EXCEPT ![s] = @ + 1]
    /\ UNCHANGED <<currentSeasonId, windowClosed, tokenVars, tickerVars, queueVars, aborted,
                   configVars, moneyVars, historyVars>>

\* The list is taken as it is: an address that is no token of the season is
\* marked too.
SetFinalists(s, list) ==
    /\ ~paused
    /\ phaseOf[s] = Filter
    /\ finalists' = finalists \cup ({s} \X list)
    /\ UNCHANGED <<seasonVars, tokens, tickerVars, queueVars, aborted, configVars, moneyVars,
                   historyVars>>

(***************************************************************************)
(* Reservation, activation, abort                                          *)
(***************************************************************************)

\* _deployToken for every reservation of prs, on an escrow storage e that
\* already holds them. The released ether becomes the stake or, with stakes
\* switched off, goes to forfeitRecipient; none stays in the launcher.
DeployTokens(s, prs, e) ==
    LET deployed == {TokenOf(s, pr) : pr \in prs}
        creators == {pr.creator : pr \in prs}
        cost == [t \in deployed |-> e.escrows[<<s, t.creator>>].amount]
        slotOf == [t \in deployed |-> (CHOOSE pr \in prs : TokenOf(s, pr) = t).slotIndex]
    IN  /\ CanRelease(e, s, creators)
        /\ escrow' = Released(e, s, creators)
        /\ tokens' = tokens \cup deployed
        /\ stake' = LaunchesRecorded(stake, cost, slotOf, refundableStakeEnabled)
        /\ forfeitReceived' =
              forfeitReceived + (IF refundableStakeEnabled THEN 0 ELSE Total(cost))
        /\ launchCount' = [launchCount EXCEPT ![s] = @ + Cardinality(prs)]

\* Slip: the tickers of past winners are not looked up.
CanReserveWonTicker(s, c, t) ==
    /\ ~paused
    /\ phaseOf[s] = Launch
    /\ s \notin aborted
    /\ Started(s) /\ s \notin windowClosed
    /\ ~escrow.escrows[<<s, c>>].reserved
    /\ ReservationCountOf(escrow, s) < MaxLaunches
    /\ t \notin tickerBlocklist
    /\ seasonTickers[s][t] = NoOne
    /\ CanReserve(escrow, s, c)

\* The checks of reserve before any state changes, in the order of the code.
CanReserveSlot(s, c, t) ==
    /\ ~paused
    /\ phaseOf[s] = Launch
    /\ s \notin aborted
    /\ Started(s) /\ s \notin windowClosed
    /\ ~escrow.escrows[<<s, c>>].reserved
    /\ ReservationCountOf(escrow, s) < MaxLaunches
    /\ t \notin tickerBlocklist
    /\ winnerTickers[t] = NoToken
    /\ seasonTickers[s][t] = NoOne
    /\ CanReserve(escrow, s, c)

Reserve(c, t) ==
    LET s == currentSeasonId
        count == ReservationCountOf(escrow, s)
        pr == [creator |-> c, ticker |-> t, slotIndex |-> count]
        held == Reserved(escrow, s, c, count, SlotCost(count))
    IN  /\ Started(s)
        /\ CanReserveSlot(s, c, t)
        /\ seasonTickers' = [seasonTickers EXCEPT ![s][t] = c]
        /\ \/ \* Slots after the threshold deploy on entry.
              /\ s \in activated
              /\ DeployTokens(s, {pr}, held)
              /\ UNCHANGED <<pending, activated>>
           \/ \* _activate: the threshold reservation deploys the whole queue.
              /\ s \notin activated
              /\ count + 1 = ActivationThreshold
              /\ Cardinality(pending[s] \cup {pr}) = ActivationThreshold
              /\ activated' = activated \cup {s}
              /\ DeployTokens(s, pending[s] \cup {pr}, held)
              /\ pending' = [pending EXCEPT ![s] = {}]
           \/ \* Earlier slots queue.
              /\ s \notin activated
              /\ count + 1 # ActivationThreshold
              /\ pending' = [pending EXCEPT ![s] = @ \cup {pr}]
              /\ escrow' = held
              /\ UNCHANGED <<tokens, activated, launchCount, stake, forfeitReceived>>
        /\ UNCHANGED <<seasonVars, finalists, winnerTickers, tickerBlocklist, aborted, configVars,
                       historyVars>>

\* Slip: a pause stops the abort.
CanAbortUnlessPaused(s) ==
    /\ ~paused
    /\ Started(s) /\ s \in windowClosed
    /\ s \notin activated /\ s \notin aborted
    /\ CanRefundAll(escrow, s)

\* Not stopped by a pause.
CanAbortSeason(s) ==
    /\ Started(s) /\ s \in windowClosed
    /\ s \notin activated /\ s \notin aborted
    /\ CanRefundAll(escrow, s)

\* The queue of an aborted season is left as it is.
AbortSeason(s, rejecting) ==
    /\ CanAbortSeason(s)
    /\ aborted' = aborted \cup {s}
    /\ escrow' = RefundedAll(escrow, s, rejecting)
    /\ UNCHANGED <<seasonVars, tokenVars, tickerVars, queueVars, configVars, stake,
                   forfeitReceived, historyVars>>

ClaimPendingRefund(s, c) ==
    /\ EscrowClaim(s, c)
    /\ UNCHANGED <<seasonVars, tokenVars, tickerVars, queueVars, aborted, configVars, stake,
                   forfeitReceived, historyVars>>

\* Slip: the ticker may be taken.
CanLaunchOverTicker(s, t) == Started(s) /\ phaseOf[s] = Launch /\ s \notin aborted

\* No look at the blocklist or at winnerTickers; not stopped by a pause or a
\* closed window.
CanLaunchProtocolToken(s, t) ==
    /\ Started(s)
    /\ phaseOf[s] = Launch
    /\ s \notin aborted
    /\ seasonTickers[s][t] = NoOne

\* The owner's path for $FILTER: no slot and no escrow.
LaunchProtocolToken(t) ==
    LET s == currentSeasonId IN
    /\ CanLaunchProtocolToken(s, t)
    /\ seasonTickers' = [seasonTickers EXCEPT ![s][t] = Owner]
    /\ tokens' = tokens \cup {[season |-> s, ticker |-> t, creator |-> Owner]}
    /\ UNCHANGED <<seasonVars, finalists, winnerTickers, tickerBlocklist, queueVars, aborted,
                   configVars, moneyVars, historyVars>>

(***************************************************************************)
(* After launch                                                            *)
(***************************************************************************)

\* LauncherStakeAdmin.applySoftFilter, with the checks it reads off the launcher.
ApplySoftFilter(s, survivors, forfeited) ==
    /\ phaseOf[s] # Launch
    /\ survivors \cup forfeited \subseteq CommunityTokens(s)
    /\ CanApplySoftFilter(stake, survivors, forfeited)
    /\ stake' = SoftFilterApplied(stake, survivors, forfeited)
    /\ forfeitReceived' =
          forfeitReceived + StakeOf(stake, forfeited)
    /\ UNCHANGED <<seasonVars, tokenVars, tickerVars, queueVars, aborted, configVars, escrow,
                   historyVars>>

CanSetWinnerTicker(s, t) ==
    /\ s \notin settled
    /\ t \in tokens /\ t.season = s
    /\ winnerTickers[t.ticker] \in {NoToken, t}

\* The season's vault settles on token t (SeasonVault.submitWinner, once per
\* season, whatever the launcher's phase is) and reserves its ticker.
SetWinnerTicker(s, t) ==
    /\ CanSetWinnerTicker(s, t)
    /\ winnerTickers' = [winnerTickers EXCEPT ![t.ticker] = t]
    /\ settled' = settled \cup {s}
    /\ UNCHANGED <<seasonVars, tokenVars, seasonTickers, tickerBlocklist, queueVars, aborted,
                   configVars, moneyVars, winnersAtStart>>

Next ==
    \/ \E cost \in BaseLaunchCosts, enabled \in StakeModes : SetLaunchConfig(cost, enabled)
    \/ \E t \in Blockable : AddTickerToBlocklist(t)
    \/ \E p \in BOOLEAN : SetPaused(p)
    \/ StartSeason
    \/ \E s \in Seasons : CloseWindow(s) \/ AdvancePhase(s)
    \/ \E s \in Seasons, list \in FinalistLists : SetFinalists(s, list)
    \/ \E c \in Creators, t \in Tickers : Reserve(c, t)
    \/ \E s \in Seasons, rejecting \in SUBSET Creators : AbortSeason(s, rejecting)
    \/ \E s \in Seasons, c \in Creators : ClaimPendingRefund(s, c)
    \/ \E t \in ProtocolTickers : LaunchProtocolToken(t)
    \/ \E s \in Seasons : \E survivors, forfeited \in SUBSET CommunityTokens(s) :
          ApplySoftFilter(s, survivors, forfeited)
    \/ \E s \in Seasons, t \in tokens : SetWinnerTicker(s, t)

Spec == Init /\ [][Next]_vars

\* Time passes, and somebody with the oracle key aborts a sparse season: the
\* runbook has the operator do it when the scheduler does not.
Fairness ==
    \A s \in Seasons :
        /\ WF_vars(CloseWindow(s))
        /\ WF_vars(\E rejecting \in SUBSET Creators : AbortSeason(s, rejecting))

FairSpec == Spec /\ Fairness

(***************************************************************************)
(* Properties                                                              *)
(***************************************************************************)

\* Every storage slot of the three contracts has its declared type.
TypeOK ==
    /\ currentSeasonId \in 0..Cardinality(Seasons)
    /\ phaseOf \in [Seasons -> Launch..Closed]
    /\ windowClosed \subseteq Seasons
    /\ tokens \subseteq Tokens
    /\ finalists \subseteq Seasons \X Tokens
    /\ seasonTickers \in [Seasons -> [Tickers -> Creators \cup {Owner, NoOne}]]
    /\ winnerTickers \in [Tickers -> Tokens \cup {NoToken}]
    /\ tickerBlocklist \subseteq Tickers
    /\ pending \in [Seasons -> SUBSET PendingReservation]
    /\ activated \subseteq Seasons /\ aborted \subseteq Seasons /\ settled \subseteq Seasons
    /\ launchCount \in [Seasons -> Nat]
    /\ paused \in BOOLEAN /\ baseLaunchCost \in Nat /\ refundableStakeEnabled \in BOOLEAN
    /\ forfeitReceived \in Nat
    /\ winnersAtStart \in [Seasons -> SUBSET Tickers]
    /\ EscrowTypeOK
    /\ stake \in StakeState

\* The stake admin holds exactly the stakes it has not paid out yet, through
\* batched launches, mode switches and soft-filter batches.
StakeCustody == CoversStakes(stake)

\* Launcher and escrow keep the outcome of a season twice. The two agree, no
\* season is both activated and aborted, deposits share their season's fate,
\* only activated seasons leave the launch phase, only closed ones abort.
OneOutcome ==
    /\ activated = escrow.activated /\ aborted = escrow.aborted
    /\ AllOrNothing(escrow)
    /\ \A s \in Seasons : phaseOf[s] # Launch => s \in activated
    /\ aborted \subseteq windowClosed

\* reservationCount and launchCount (natspec of launchCount): before activation
\* nothing is deployed and every reservation is queued, short of the threshold;
\* from activation on the two march in lockstep and the queue stays empty.
\* Slots are numbered without a gap.
Lockstep ==
    \A s \in Seasons :
        LET reservers == Reservers(escrow, s)
            count == Cardinality(reservers)
        IN  /\ {escrow.escrows[<<s, c>>].slotIndex : c \in reservers} = 0..(count - 1)
            /\ count <= MaxLaunches
            /\ launchCount[s] = Cardinality(CommunityTokens(s))
            /\ IF s \in activated
               THEN launchCount[s] = count /\ count >= ActivationThreshold /\ pending[s] = {}
               ELSE /\ launchCount[s] = 0 /\ count < ActivationThreshold
                    /\ {pr.creator : pr \in pending[s]} = reservers
                    /\ Cardinality(pending[s]) = count

\* Three contracts describe one slot and agree: a released reservation has one
\* token, whose recorded cost and slot are those of the escrow, and whose stake
\* is the whole cost or nothing, and nothing once the soft filter resolved it.
SlotLedgersAgree ==
    /\ \A s \in Seasons, c \in Creators :
          escrow.escrows[<<s, c>>].released
              <=> Cardinality({t \in CommunityTokens(s) : t.creator = c}) = 1
    /\ \A t \in Tokens :
          LET r == escrow.escrows[<<t.season, t.creator>>]
              info == stake.launchInfo[t]
          IN  IF t \in tokens /\ ~IsProtocolLaunched(t)
              THEN /\ info.costPaid = r.amount /\ info.slotIndex = r.slotIndex
                   /\ info.stakeAmount \in {0, info.costPaid}
                   /\ Resolved(info) => info.stakeAmount = 0
                   /\ ~(info.refunded /\ info.filteredEarly)
              ELSE info = NoLaunch

\* The counters of the launcher, the escrow's slots and the stake admin's records
\* are one set of books, before and after activation.
BooksAgree == Lockstep /\ SlotLedgersAgree

\* Within a season a ticker has one claimant, community or protocol, queued or
\* deployed, and it is the one seasonTickers names.
TickerHasOneClaimant ==
    \A s \in Seasons, t \in Tickers :
        LET claimants == {tok.creator : tok \in {k \in tokens : k.season = s /\ k.ticker = t}}
                         \cup {pr.creator : pr \in {p \in pending[s] : p.ticker = t}}
        IN  claimants = {seasonTickers[s][t]} \ {NoOne}

\* A ticker that had won before a season opened is not launched in that season
\* by the community (winnerTickers: permanent reservation across all future
\* seasons).
WinnerTickersStayReserved ==
    \A tok \in tokens :
        ~IsProtocolLaunched(tok) => tok.ticker \notin winnersAtStart[tok.season]

\* The fate of every deposit, in the terms of DepositFates.
Outcome == [s \in Seasons |-> IF s \in activated THEN "launched"
                              ELSE IF s \in aborted THEN "cancelled" ELSE "open"]

SettledDeposit(s, c) ==
    \E t \in CommunityTokens(s) : t.creator = c /\ Resolved(stake.launchInfo[t])

PlaceOf(s, c) ==
    LET r == escrow.escrows[<<s, c>>] IN
    CASE ~r.reserved -> "absent"
      [] Live(r) -> "held"
      [] r.released -> IF SettledDeposit(s, c) THEN "settled" ELSE "deployed"
      [] OTHER -> IF escrow.pendingRefunds[<<s, c>>] > 0 THEN "owed" ELSE "returned"

Fates == INSTANCE DepositFates WITH
            outcome <- Outcome, place <- [d \in Deposits |-> PlaceOf(d[1], d[2])]

\* The launcher, escrow and stake admin together keep the promise DepositFates
\* makes to a creator: a season is decided as a whole and a deposit only moves
\* forward.
KeepsDepositPromise == Fates!Spec

\* No ether stays in escrow for ever: every live reservation is deployed,
\* refunded or credited in the end, even while the launcher is paused.
EscrowEmptiesEventually ==
    \A s \in Seasons, c \in Creators :
        Live(escrow.escrows[<<s, c>>]) ~> ~Live(escrow.escrows[<<s, c>>])

(***************************************************************************)
(* The inductive invariant of FilterLauncherProofs                         *)
(***************************************************************************)

\* A storage k of stakes fits a storage e of the escrow: only the token of a
\* released reservation has a stake. It is what keeps a deployment from
\* overwriting a stake that is still held.
StakesFit(k, e) ==
    \A t \in Tokens :
        k.launchInfo[t].stakeAmount # 0 =>
            t.creator \in Creators /\ e.escrows[<<t.season, t.creator>>].released

SafeInv ==
    /\ TypeOK /\ Custody /\ StakeCustody /\ OneOutcome
    /\ StakesFit(stake, escrow)
    /\ \A s \in Seasons : IsFiniteSet(pending[s])
==============================================================================

------------------------------- MODULE TickEngine -------------------------------
(***************************************************************************)
(* tick.ts with detectors.ts, and the queries of events/index.ts: a timer  *)
(* starts ticks that read the indexer's tables query by query while the    *)
(* chain goes on writing them, compare what they read with the snapshot of *)
(* the last tick that went through, and pass the differences through the   *)
(* pipeline to the hub. A query may fail at any await.                     *)
(*                                                                         *)
(* The tables are db: the latest season with its phase, the tokens it has, *)
(* their order by score, which of them are liquidated, and the fee rows of *)
(* large trades. Spikes of HP and of volume are any set: the scores and    *)
(* the fee sums behind them are not modelled. What the queries return is   *)
(* what the tables hold when they run.                                     *)
(*                                                                         *)
(* An operator under the word Slip is a variant with a plausible bug, as   *)
(* in LaunchEscrow; nothing refers to it.                                  *)
(***************************************************************************)
EXTENDS EventPipeline, FiniteSets

CONSTANTS
    Runs,                   \* ticks that the timer has started and may overlap
    SeasonTokens,           \* the tokens of season i are SeasonTokens[i]
    Orders,                 \* orders of all tokens by score, best first
    SpikeSets,              \* sets of <<token, type>> that may spike in one tick
    CutLine, NearAbove, NearBelow,  \* 6, 1 and 2 in the code
    RankChangeMin,
    CutAfter,               \* from a season's start to its filter and its settlement
    CountdownThreshold,
    MaxTrades,              \* bound: fee rows
    MaxTime,                \* bound: the clock
    MaxWrites,              \* bound: writes of the chain handlers
    MaxFailures,            \* bound: queries that fail
    NoSnapshot

LastSeason == Len(SeasonTokens)
ContractPhases == <<"Launch", "Filter", "Finals", "Settlement", "Closed">>
Time == 0..MaxTime

\* What a tick reads of the tables, as the next one compares with it.
Snapshots == [takenAt: Nat, season: 1..LastSeason, phase: Nat,
              nextCut: SUBSET ((1..LastSeason) \X Nat), tokens: SUBSET Tokens,
              order: Seq(Tokens), liquidated: SUBSET Tokens]

ASSUME TickConstants ==
    /\ SeasonTokens \in Seq(SUBSET Tokens) /\ LastSeason > 0
    /\ \A i, j \in 1..LastSeason : i # j => SeasonTokens[i] \cap SeasonTokens[j] = {}
    /\ IsFiniteSet(Tokens)
    /\ Orders \subseteq Seq(Tokens)
    /\ \A order \in Orders : ToSet(order) = Tokens /\ Len(order) = Cardinality(Tokens)
    /\ SpikeSets \subseteq SUBSET (Tokens \X {"HP_SPIKE", "VOLUME_SPIKE"})
    /\ {CutLine, NearAbove, NearBelow, RankChangeMin, CountdownThreshold} \subseteq Nat
    /\ CutAfter \in [{"first", "final"} -> Nat]
    /\ {MaxTrades, MaxTime, MaxWrites, MaxFailures} \subseteq Nat
    /\ NoSnapshot \notin Snapshots

VARIABLES
    now,             \* the wall clock, in periods of the timer
    timer,           \* the period in which the timer fires next
    db,              \* the tables that the chain handlers write
    runs,            \* the ticks under way
    inFlight,        \* the re-entry guard
    prevSnapshot,
    pipelineState,
    writes, failures, \* history: writes of the chain, and queries that failed
    log,             \* history: the events emitted of late, with their times
    fired,           \* history: FILTER_FIRED events emitted for each token
    countdowns,      \* history: cuts announced, as <<season, time of the cut>>, in order
    seenAlive        \* history: tokens that a snapshot had before their liquidation

history == <<failures, log, fired, countdowns, seenAlive>>
engine == <<runs, inFlight, prevSnapshot, pipelineState>>
vars == <<now, timer, db, writes, engine, history>>

Idle == [at |-> "idle", prev |-> NoSnapshot, current |-> NoSnapshot, trades |-> {}]

Init ==
    /\ now = 0 /\ timer = 0
    /\ db \in [season: {1}, phase: {1}, startedAt: {0}, launched: SUBSET SeasonTokens[1],
               order: Orders, liquidated: {{}}, trades: {{}}]
    /\ runs = [r \in Runs |-> Idle]
    /\ inFlight = FALSE
    /\ prevSnapshot = NoSnapshot
    /\ pipelineState = MakeState
    /\ writes = 0 /\ failures = 0 /\ log = <<>> /\ countdowns = <<>>
    /\ fired = [t \in Tokens |-> 0]
    /\ seenAlive = {}
-------------------------------------------------------------------------------
(* The chain handlers and the clock, between any two awaits. *)

Chain ==
    /\ writes < MaxWrites /\ writes' = writes + 1
    /\ UNCHANGED <<now, timer, engine, history>>

Launch(t) ==
    /\ db.phase = 1 /\ t \in SeasonTokens[db.season] \ db.launched
    /\ db' = [db EXCEPT !.launched = @ \cup {t}]
    /\ Chain

Rescore(order) ==
    /\ order # db.order
    /\ db' = [db EXCEPT !.order = order]
    /\ Chain

Liquidate(t) ==
    /\ t \in db.launched \ db.liquidated
    /\ db' = [db EXCEPT !.liquidated = @ \cup {t}]
    /\ Chain

AdvancePhase ==
    /\ db.phase < Len(ContractPhases)
    /\ db' = [db EXCEPT !.phase = @ + 1]
    /\ Chain

StartSeason ==
    /\ db.season < LastSeason
    /\ db' = [db EXCEPT !.season = @ + 1, !.phase = 1, !.startedAt = now]
    /\ Chain

\* A fee row is written some time after the block it is from.
Trade(t, at) ==
    /\ t \in db.launched \ db.liquidated /\ at <= now
    /\ Cardinality(db.trades) < MaxTrades
    /\ db' = [db EXCEPT !.trades =
                 @ \cup {[id |-> Cardinality(@) + 1, token |-> t, at |-> at]}]
    /\ Chain

ClockTicks ==
    /\ now < MaxTime
    /\ now' = now + 1
    /\ UNCHANGED <<timer, db, writes, engine, history>>
-------------------------------------------------------------------------------
(* The detectors. *)

\* nextCutEpochSec: none once the season is settled.
NextCuts(season, phase, startedAt) ==
    IF phase > 3 THEN {}
    ELSE {<<season, startedAt + CutAfter[IF phase = 3 THEN "final" ELSE "first"]>>}

Detected(type, t) == [type |-> type, token |-> t, nearCut |-> FALSE, trade |-> 0]

\* Rank among the tokens that the snapshot has; 0 for others.
RankOf(s, t) ==
    IF t \in s.tokens THEN SelectInSeq(s.order, LAMBDA o : o = t) ELSE 0

DetectRankAndCutLine(prev, cur, t) ==
    LET from == RankOf(prev, t)
        to == RankOf(cur, t)
        distance == IF from > to THEN from - to ELSE to - from
    IN  CASE t \notin prev.tokens \/ from = to -> <<>>
          [] (from <= CutLine) # (to <= CutLine) /\ t \in prev.tokens ->
                <<Detected("CUT_LINE_CROSSED", t)>>
          [] (from <= CutLine) = (to <= CutLine) /\ from # to /\ t \in prev.tokens
                /\ distance >= RankChangeMin -> <<Detected("RANK_CHANGED", t)>>
          [] OTHER -> <<>>

\* HP is compared with the previous snapshot, volume only with the fee tables.
DetectSpike(prev, spikes, type, t) ==
    IF <<t, type>> \in spikes /\ (type = "HP_SPIKE" => t \in prev.tokens)
    THEN <<Detected(type, t)>> ELSE <<>>

DetectLargeTrade(cur, trade) ==
    LET rank == RankOf(cur, trade.token)
    IN  IF trade.token \notin cur.tokens THEN <<>>
        ELSE <<[type |-> "LARGE_TRADE", token |-> trade.token, trade |-> trade.id,
                nearCut |-> rank + NearAbove >= CutLine /\ rank <= CutLine + NearBelow]>>

DetectFilter(prev, cur, t) ==
    IF t \in prev.tokens \ prev.liquidated /\ t \in cur.liquidated
    THEN <<Detected("FILTER_FIRED", t)>> ELSE <<>>

\* Time left to a cut within the threshold; a cut that has passed is none.
Near(cut, at) == at <= cut[2] /\ cut[2] - at <= CountdownThreshold
NearOrPast(cut, at) == cut[2] <= at + CountdownThreshold

DetectCountdown(prev, cur) ==
    IF /\ \E cut \in cur.nextCut : Near(cut, cur.takenAt)
       /\ \A cut \in prev.nextCut : ~NearOrPast(cut, prev.takenAt)
    THEN <<Detected("FILTER_COUNTDOWN", NoToken)>> ELSE <<>>

DetectPhase(prev, cur) ==
    IF prev.phase # cur.phase THEN <<Detected("PHASE_ADVANCED", NoToken)>> ELSE <<>>

\* diffSnapshots: detector by detector, token by token in the order of the rows.
DiffSnapshots(prev, cur, trades, spikes) ==
    LET rows == SetToSeq(cur.tokens)
        ForRows(Detect(_)) == FlattenSeq([i \in DOMAIN rows |-> Detect(rows[i])])
        ById == [i \in 1..Cardinality(trades) |->
                    CHOOSE a \in trades : Cardinality({b \in trades : b.id < a.id}) = i - 1]
    IN  ForRows(LAMBDA t : DetectRankAndCutLine(prev, cur, t))
        \o ForRows(LAMBDA t : DetectSpike(prev, spikes, "HP_SPIKE", t))
        \o ForRows(LAMBDA t : DetectSpike(prev, spikes, "VOLUME_SPIKE", t))
        \o FlattenSeq([i \in DOMAIN ById |-> DetectLargeTrade(cur, ById[i])])
        \o ForRows(LAMBDA t : DetectFilter(prev, cur, t))
        \o DetectCountdown(prev, cur)
        \o DetectPhase(prev, cur)
-------------------------------------------------------------------------------
(* A tick, await by await. *)

Tables == UNCHANGED <<now, db, writes>>
Engine == UNCHANGED timer /\ Tables

\* setInterval: a tick starts once in every period. One that finds another under
\* way returns at once.
Fires == timer <= now /\ timer' = now + 1

Lapped ==
    /\ Fires /\ inFlight
    /\ UNCHANGED <<engine, history>> /\ Tables

BeginSlipOverlap(r) ==
    /\ Fires /\ runs[r].at = "idle"
    /\ inFlight' = TRUE
    /\ runs' = [runs EXCEPT ![r] = [Idle EXCEPT !.at = "season", !.prev = prevSnapshot]]
    /\ UNCHANGED <<prevSnapshot, pipelineState, history>> /\ Tables

Begin(r) ==
    /\ Fires /\ runs[r].at = "idle" /\ ~inFlight
    /\ inFlight' = TRUE
    /\ runs' = [runs EXCEPT ![r] = [Idle EXCEPT !.at = "season", !.prev = prevSnapshot]]
    /\ UNCHANGED <<prevSnapshot, pipelineState, history>> /\ Tables

ReadSeason(r) ==
    /\ runs[r].at = "season"
    /\ runs' = [runs EXCEPT ![r].at = "tokens",
                  ![r].current = [takenAt |-> now, season |-> db.season, phase |-> db.phase,
                                  nextCut |-> NextCuts(db.season, db.phase, db.startedAt),
                                  tokens |-> {}, order |-> <<>>, liquidated |-> {}]]
    /\ UNCHANGED <<inFlight, prevSnapshot, pipelineState, history>> /\ Engine

\* The token rows of the season read before, then the scores of those tokens.
ReadTokens(r) ==
    LET tokens == db.launched \cap SeasonTokens[runs[r].current.season]
    IN  /\ runs[r].at = "tokens"
        /\ runs' = [runs EXCEPT ![r].at = "scores",
                                ![r].current.tokens = tokens,
                                ![r].current.liquidated = db.liquidated \cap tokens]
        /\ UNCHANGED <<inFlight, prevSnapshot, pipelineState, history>> /\ Engine

ReadScores(r) ==
    /\ runs[r].at = "scores"
    /\ runs' = [runs EXCEPT ![r].at = IF runs[r].prev = NoSnapshot THEN "diff" ELSE "fees",
                            ![r].current.order = Those(db.order, runs[r].current.tokens)]
    /\ UNCHANGED <<inFlight, prevSnapshot, pipelineState, history>> /\ Engine

ReadFees(r) ==
    /\ runs[r].at = "fees"
    /\ runs' = [runs EXCEPT ![r].at = "diff",
                  ![r].trades = {row \in db.trades : row.at >= runs[r].prev.takenAt}]
    /\ UNCHANGED <<inFlight, prevSnapshot, pipelineState, history>> /\ Engine

\* What a batch adds to the history. The log keeps what a window can still reach.
Horizon == Max({DedupeWindow, ThrottleWindow, FilterMomentWindow})

Chronicle(r, result) ==
    LET emitted == result.emitted
        firings(t) == {i \in DOMAIN emitted :
                          emitted[i].type = "FILTER_FIRED" /\ emitted[i].token = t}
        Entry(d) == [type |-> d.type, token |-> d.token, priority |-> PriorityOf(d), at |-> now]
        current == runs[r].current
    IN  /\ log' = Those(log, {e \in ToSet(log) : now - e.at < Horizon})
                     \o [i \in DOMAIN emitted |-> Entry(emitted[i])]
        /\ fired' = [t \in Tokens |-> fired[t] + Cardinality(firings(t))]
        /\ countdowns' = countdowns \o
              (IF \E d \in ToSet(emitted) : d.type = "FILTER_COUNTDOWN"
               THEN SetToSeq(current.nextCut) ELSE <<>>)
        /\ seenAlive' = seenAlive \cup (current.tokens \ current.liquidated)
        /\ UNCHANGED failures

\* From the last await on: diff, pipeline, broadcast, and the snapshot moves on.
Publish(r, spikes) ==
    LET run == runs[r]
        detected == IF run.prev = NoSnapshot THEN <<>>
                    ELSE DiffSnapshots(run.prev, run.current, run.trades, spikes)
        result == RunPipeline(pipelineState, detected, now)
    IN  /\ run.at = "diff"
        /\ (run.prev = NoSnapshot) => (spikes = {})
        /\ pipelineState' = result.state
        /\ prevSnapshot' = run.current
        /\ runs' = [runs EXCEPT ![r] = Idle]
        /\ inFlight' = FALSE
        /\ Chronicle(r, result) /\ Engine

Querying == {"season", "tokens", "scores", "fees"}

\* A query throws: nothing is emitted and the next tick compares with the same snapshot.
FailSlipMovesOn(r) ==
    /\ runs[r].at \in Querying /\ failures < MaxFailures
    /\ failures' = failures + 1
    /\ runs' = [runs EXCEPT ![r] = Idle]
    /\ inFlight' = FALSE
    /\ prevSnapshot' = IF runs[r].at = "fees" THEN runs[r].current ELSE prevSnapshot
    /\ UNCHANGED <<pipelineState, log, fired, countdowns, seenAlive>> /\ Engine

Fail(r) ==
    /\ runs[r].at \in Querying /\ failures < MaxFailures
    /\ failures' = failures + 1
    /\ runs' = [runs EXCEPT ![r] = Idle]
    /\ inFlight' = FALSE
    /\ UNCHANGED <<prevSnapshot, pipelineState, log, fired, countdowns, seenAlive>>
    /\ Engine
-------------------------------------------------------------------------------
Next ==
    \/ \E t \in Tokens : Launch(t) \/ Liquidate(t)
    \/ \E order \in Orders : Rescore(order)
    \/ AdvancePhase \/ StartSeason \/ ClockTicks
    \/ \E t \in Tokens, at \in Time : Trade(t, at)
    \/ Lapped
    \/ \E r \in Runs : Begin(r) \/ ReadSeason(r) \/ ReadTokens(r) \/ ReadScores(r)
                     \/ ReadFees(r) \/ Fail(r)
    \/ \E r \in Runs : \E spikes \in SpikeSets : Publish(r, spikes)

Spec == Init /\ [][Next]_vars
-------------------------------------------------------------------------------
(* What holds. *)

\* Types, and inFlight is up exactly while one tick, and never two, is under way.
TypeOK ==
    /\ now \in Time /\ timer \in 0..(MaxTime + 1)
    /\ db.season \in 1..LastSeason /\ db.phase \in DOMAIN ContractPhases
    /\ db.liquidated \subseteq db.launched /\ db.launched \subseteq Tokens
    /\ prevSnapshot # NoSnapshot =>
          /\ DOMAIN prevSnapshot = DOMAIN [takenAt |-> 0, season |-> 0, phase |-> 0,
                nextCut |-> 0, tokens |-> 0, order |-> 0, liquidated |-> 0]
          /\ prevSnapshot.takenAt \in 0..now
          /\ prevSnapshot.liquidated \subseteq prevSnapshot.tokens
          /\ ToSet(prevSnapshot.order) = prevSnapshot.tokens
    /\ \A k \in DOMAIN pipelineState.dedupeSeen : pipelineState.dedupeSeen[k] \in 0..now
    /\ pipelineState.throttleCounts \in [Tokens -> Seq(Time)]
    /\ inFlight <=> \E r \in Runs : runs[r].at # "idle"
    /\ \A r, q \in Runs : runs[r].at # "idle" /\ runs[q].at # "idle" => r = q

\* The operator's runbook expects "a FILTER_FIRED per non-finalist": a token that a
\* completed tick has seen before its liquidation and another after it is announced
\* exactly once, whatever ticks fail or are slow between, and no cut is counted
\* down twice.
FiltersAnnouncedOnce ==
    /\ \A t \in Tokens : fired[t] <= 1
    /\ prevSnapshot # NoSnapshot =>
          \A t \in prevSnapshot.tokens :
             (fired[t] = 1) <=> (t \in prevSnapshot.liquidated /\ t \in seenAlive)
    /\ \A i, j \in DOMAIN countdowns : countdowns[i] = countdowns[j] => i = j

\* "step on each other's prevSnapshot reads / writes": a snapshot replaces the very
\* one it was compared with, and is not older.
SnapshotsOnlyAdvance ==
    [][prevSnapshot' # prevSnapshot =>
          /\ \E r \in Runs : runs[r].at = "diff" /\ runs[r].prev = prevSnapshot
          /\ prevSnapshot # NoSnapshot => prevSnapshot.takenAt <= prevSnapshot'.takenAt]_vars

\* Over ticks and within one batch: no token and type twice within the dedupe window,
\* no more than the quota of non-HIGH events for a token within the throttle window,
\* and only HIGH events for a filter moment after each FILTER_FIRED.
EmissionsSpaced ==
    \A j \in DOMAIN log : LET e == log[j] IN
        /\ \A i \in 1..(j - 1) :
              /\ (log[i].type = e.type /\ log[i].token = e.token) =>
                    (e.at - log[i].at >= DedupeWindow)
              /\ (log[i].type = "FILTER_FIRED" /\ e.at - log[i].at < FilterMomentWindow) =>
                    (e.priority = "HIGH")
        /\ (e.token # NoToken /\ e.priority # "HIGH") =>
              Cardinality({i \in 1..j : log[i].token = e.token /\ log[i].priority # "HIGH"
                                          /\ e.at - log[i].at < ThrottleWindow})
                 <= ThrottlePerTokenMax
==============================================================================

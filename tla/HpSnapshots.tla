----------------------------- MODULE HpSnapshots -----------------------------
(***************************************************************************)
(* The indexer's table of HP snapshots: hpRecomputeWriter.ts with the      *)
(* handlers that call it, finalityAdvancer.ts, and the scheduler's phase   *)
(* ticks of hpPhaseRecompute.ts, which ask for a cohort-wide ranking at    *)
(* the season's boundaries.                                                *)
(*                                                                         *)
(* Ponder runs one handler at a time: the logs of a block first, then the  *)
(* block handlers that are due. The scheduler runs beside it. A snapshot   *)
(* is its key, its trigger and its finality: what the score is does not    *)
(* matter here, only which trades it has seen.                             *)
(***************************************************************************)
EXTENDS Naturals, FiniteSets

CONSTANTS
    Tokens, SeasonOf,     \* the tokens and the season of each
    Seasons,              \* season ids, 1..n
    PerTokenTriggers,     \* SWAP and HOLDER_SNAPSHOT; the writer treats them alike
    BlockSeconds,         \* 2 on Base
    CoalesceWindow,       \* COALESCE_WINDOW_SEC
    SnapshotInterval,     \* HpSnapshot block filter, 150
    AdvancerInterval,     \* HpFinalityAdvancer block filter, 6
    SoftBlocks, FinalBlocks,
    Boundaries,           \* the season's boundaries the scheduler fires at
    Tolerance,            \* BOUNDARY_TOLERANCE_SEC
    Ticks,                \* phase ticks the scheduler runs
    MaxBlock              \* bound: the last block

ASSUME SnapshotConstants ==
    /\ PerTokenTriggers \subseteq {"SWAP", "HOLDER_SNAPSHOT"}
    /\ 1 \in Seasons /\ Seasons = 1..Cardinality(Seasons) /\ SeasonOf \in [Tokens -> Seasons]
    /\ {BlockSeconds, SnapshotInterval, AdvancerInterval, SoftBlocks, MaxBlock} \subseteq Nat \ {0}
    /\ {CoalesceWindow, FinalBlocks, Tolerance} \subseteq Nat
    /\ SoftBlocks <= FinalBlocks
    \* The window of a second reaches no earlier block.
    /\ CoalesceWindow < BlockSeconds
    /\ IsFiniteSet(Boundaries)
    /\ Boundaries \subseteq [at: Nat, trigger: {"PHASE_BOUNDARY", "CUT", "FINALIZE"}]
    \* The ranges of two boundaries are a day apart.
    /\ \A a, b \in Boundaries : a.at < b.at => a.at + 2 * Tolerance < b.at

VARIABLES
    head,          \* number of the block whose handlers run
    due,           \* block handlers of the head that have not run yet
    season,        \* newest row of the table season
    launched,      \* rows of the table token
    hpSnapshot,    \* rows of the table hpSnapshot
    halted,        \* a handler threw and Ponder has stopped
    tick,          \* state of each phase tick
    firedFor,      \* PhaseRecomputeState.firedFor
    missed,        \* history: block of the oldest trade no snapshot has seen, or NoTrade
    lastAdvance,   \* history: head of the last finality pass
    excused        \* history: boundaries with overlapping ticks or a lost answer

tableVars == <<season, launched, hpSnapshot>>
schedulerVars == <<tick, firedFor, excused>>
vars == <<head, due, tableVars, halted, schedulerVars, missed, lastAdvance>>

Triggers == PerTokenTriggers \cup {"BLOCK_TICK", "PHASE_BOUNDARY", "CUT", "FINALIZE"}
Finalities == {"tip", "soft", "final"}
Snapshot == [token: Tokens, block: 0..MaxBlock, trigger: Triggers, finality: Finalities]

NoTrade == MaxBlock + 1
NoBoundary == [at |-> 0, trigger |-> "none"]

\* block.timestamp of block b.
TimeOf(b) == BlockSeconds * b

IsCohortWideTrigger(trigger) == trigger \notin PerTokenTriggers

InitialFinalityForTrigger(trigger) == IF trigger \in {"CUT", "FINALIZE"} THEN "final" ELSE "tip"

\* The tokens of the newest season.
Cohort == {t \in launched : SeasonOf[t] = season}

SnapshotOf(t, trigger) ==
    [token |-> t, block |-> head, trigger |-> trigger,
     finality |-> InitialFinalityForTrigger(trigger)]

\* The primary key `${token}:${snapshotAtSec}`.
KeyOf(row) == <<row.token, TimeOf(row.block)>>

HandlersAt(b) ==
    {h \in {"HpSnapshot", "HpFinalityAdvancer"} :
        b % (IF h = "HpSnapshot" THEN SnapshotInterval ELSE AdvancerInterval) = 0}

Init ==
    /\ head = 1 /\ due = HandlersAt(1)
    /\ season = 1 /\ launched = {} /\ hpSnapshot = {}
    /\ halted = FALSE
    /\ tick = [i \in Ticks |-> [at |-> "idle", for |-> NoBoundary]]
    /\ firedFor = {} /\ excused = {}
    /\ missed = [t \in Tokens |-> NoTrade]
    /\ lastAdvance = 0

(***************************************************************************)
(* Blocks and their logs                                                   *)
(***************************************************************************)

NextBlock ==
    /\ ~halted /\ due = {} /\ head < MaxBlock
    /\ head' = head + 1
    /\ due' = HandlersAt(head + 1)
    /\ UNCHANGED <<tableVars, halted, schedulerVars, missed, lastAdvance>>

\* The logs of a block come before its block handlers.
InLogs == ~halted /\ due = HandlersAt(head)

SeasonStarted ==
    /\ InLogs
    /\ season + 1 \in Seasons
    /\ season' = season + 1
    /\ UNCHANGED <<head, due, launched, hpSnapshot, halted, schedulerVars, missed, lastAdvance>>

TokenLaunched(t) ==
    /\ InLogs
    /\ t \notin launched /\ SeasonOf[t] = season
    /\ launched' = launched \cup {t}
    /\ UNCHANGED <<head, due, season, hpSnapshot, halted, schedulerVars, missed, lastAdvance>>

(***************************************************************************)
(* recomputeAndStampHp                                                     *)
(***************************************************************************)

\* Slip: a window of two seconds reaches into the previous block.
CoalescedByWiderWindow(t) ==
    \E row \in hpSnapshot :
        row.token = t /\ TimeOf(row.block) + CoalesceWindow + 1 >= TimeOf(head)

\* A row of the token within the window before this block makes a per-token
\* trigger return without a row.
Coalesced(t) ==
    \E row \in hpSnapshot : row.token = t /\ TimeOf(row.block) + CoalesceWindow >= TimeOf(head)

\* The tokens that get a row; t is ignored by the cohort-wide triggers.
Targets(t, trigger) ==
    IF IsCohortWideTrigger(trigger) THEN Cohort
    ELSE {u \in Cohort : u = t /\ ~Coalesced(t)}

\* insert(hpSnapshot).values(row) throws on a key that is there.
Collides(rows) ==
    \E row \in rows, old \in hpSnapshot : KeyOf(row) = KeyOf(old)

\* A row is computed from all that was indexed before it.
SeenBy(m, targets) == [t \in Tokens |-> IF t \in targets THEN NoTrade ELSE m[t]]

\* One call from a handler, when the trades of m are indexed. An insert that
\* throws undoes the handler and stops Ponder.
Stamp(t, trigger, m) ==
    LET targets == Targets(t, trigger)
        rows == {SnapshotOf(u, trigger) : u \in targets}
    IN  IF Collides(rows)
        THEN halted' = TRUE /\ UNCHANGED <<hpSnapshot, missed>>
        ELSE /\ hpSnapshot' = hpSnapshot \cup rows
             /\ missed' = SeenBy(m, targets)
             /\ UNCHANGED halted

\* A V4 swap of the token's pool, or a transfer of the token, whose own row or
\* balances are written first.
Trade(t, trigger) ==
    /\ InLogs /\ t \in launched
    /\ Stamp(t, trigger, [missed EXCEPT ![t] = IF @ = NoTrade THEN head ELSE @])
    /\ UNCHANGED <<head, due, season, launched, schedulerVars, lastAdvance>>

BlockTick ==
    /\ ~halted /\ "HpSnapshot" \in due
    /\ due' = due \ {"HpSnapshot"}
    /\ \E t \in Tokens : Stamp(t, "BLOCK_TICK", missed)
    /\ UNCHANGED <<head, season, launched, schedulerVars, lastAdvance>>

(***************************************************************************)
(* Finality                                                                *)
(***************************************************************************)

\* row.blockNumber <= head - depth.
Deep(row, depth) == row.block + depth <= head

\* nextFinality, the truth table the tests pin; the same value if no change.
NextFinality(row) ==
    IF row.finality = "final" \/ Deep(row, FinalBlocks) THEN "final"
    ELSE IF row.finality = "tip" /\ Deep(row, SoftBlocks) THEN "soft"
    ELSE row.finality

\* Slip: the second pass takes every soft row.
PassesWithoutCutoff(rows) ==
    LET tipRows == {r \in rows : r.finality = "tip" /\ Deep(r, SoftBlocks)}
        first == (rows \ tipRows) \cup {[r EXCEPT !.finality = "soft"] : r \in tipRows}
        softRows == {r \in first : r.finality = "soft"}
    IN  (first \ softRows) \cup {[r EXCEPT !.finality = "final"] : r \in softRows}

\* runFinalityAdvancer: one pass over the tip rows, then one over the soft ones.
AdvancerPasses(rows) ==
    LET tipRows == {r \in rows : r.finality = "tip" /\ Deep(r, SoftBlocks)}
        first == (rows \ tipRows) \cup
                 {[r EXCEPT !.finality = IF Deep(r, FinalBlocks) THEN "final" ELSE "soft"] :
                     r \in tipRows}
        softRows == {r \in first : r.finality = "soft" /\ Deep(r, FinalBlocks)}
    IN  (first \ softRows) \cup {[r EXCEPT !.finality = "final"] : r \in softRows}

AdvanceFinality ==
    /\ ~halted /\ "HpFinalityAdvancer" \in due
    /\ due' = due \ {"HpFinalityAdvancer"}
    /\ hpSnapshot' = AdvancerPasses(hpSnapshot)
    /\ lastAdvance' = head
    /\ UNCHANGED <<head, season, launched, halted, schedulerVars, missed>>

(***************************************************************************)
(* The scheduler's phase ticks                                             *)
(***************************************************************************)

\* boundaryForTick.
InWindow(b, now) == b.at <= now + Tolerance /\ now <= b.at + Tolerance

\* Tick i awaits the webhook.
UnderWay(i) == tick[i].at \in {"sent", "landed", "refused"}

\* Slip: a boundary that has fired is not looked up.
CanFireAgain(b) == InWindow(b, TimeOf(head))

CanFire(b) == InWindow(b, TimeOf(head)) /\ b \notin firedFor

\* runPhaseTick up to the awaited webhook, with the newest season's boundaries
\* (here the first season has them). A tick with nothing to fire changes nothing.
BeginTick(i, b) ==
    /\ tick[i].at = "idle" /\ season = 1
    /\ CanFire(b)
    /\ tick' = [tick EXCEPT ![i] = [at |-> "sent", for |-> b]]
    /\ excused' = excused \cup {c \in {b} : \E j \in Ticks : UnderWay(j) /\ tick[j].for = c}
    /\ UNCHANGED <<head, due, tableVars, halted, firedFor, missed, lastAdvance>>

\* The webhook reaches the indexer, at whatever block it is, and asks the
\* writer for a ranking of the cohort.
WebhookLands(i) ==
    LET b == tick[i].for
        rows == {SnapshotOf(t, b.trigger) : t \in Cohort}
        ok == ~halted /\ ~Collides(rows)
    IN  /\ tick[i].at = "sent"
        /\ tick' = [tick EXCEPT ![i].at = IF ok THEN "landed" ELSE "refused"]
        /\ hpSnapshot' = IF ok THEN hpSnapshot \cup rows ELSE hpSnapshot
        /\ missed' = IF ok THEN SeenBy(missed, Cohort) ELSE missed
        /\ UNCHANGED <<head, due, season, launched, halted, firedFor, excused, lastAdvance>>

FiredAfter(i) == firedFor \cup {b \in {tick[i].for} : tick[i].at = "landed"}

\* The answer arrives. The next tick in the window retries what was refused.
WebhookAnswers(i) ==
    /\ UnderWay(i) /\ tick[i].at # "sent"
    /\ firedFor' = FiredAfter(i)
    /\ tick' = [tick EXCEPT ![i].at = "done"]
    /\ UNCHANGED <<head, due, tableVars, halted, excused, missed, lastAdvance>>

\* The request or its answer is lost: the webhook resolves to false.
WebhookFails(i) ==
    /\ tick[i].at \in {"sent", "landed"}
    /\ tick' = [tick EXCEPT ![i].at = "done"]
    /\ excused' = excused \cup {b \in {tick[i].for} : tick[i].at = "landed"}
    /\ UNCHANGED <<head, due, tableVars, halted, firedFor, missed, lastAdvance>>

Next ==
    \/ NextBlock \/ SeasonStarted \/ BlockTick \/ AdvanceFinality
    \/ \E t \in Tokens : TokenLaunched(t)
    \/ \E t \in Tokens, trigger \in PerTokenTriggers : Trade(t, trigger)
    \/ \E i \in Ticks, b \in Boundaries : BeginTick(i, b)
    \/ \E i \in Ticks : WebhookLands(i) \/ WebhookAnswers(i) \/ WebhookFails(i)

Spec == Init /\ [][Next]_vars

(***************************************************************************)
(* Properties                                                              *)
(***************************************************************************)

\* Every table and every piece of the scheduler's state has its type.
TypeOK ==
    /\ head \in 1..MaxBlock /\ due \subseteq HandlersAt(head) /\ lastAdvance \in 0..head
    /\ season \in Seasons /\ launched \subseteq Tokens /\ hpSnapshot \subseteq Snapshot
    /\ halted \in BOOLEAN
    /\ tick \in [Ticks -> [at: {"idle", "sent", "landed", "refused", "done"},
                           for: Boundaries \cup {NoBoundary}]]
    /\ firedFor \subseteq Boundaries /\ excused \subseteq Boundaries
    /\ missed \in [Tokens -> 0..NoTrade]

\* Coalescing costs a trade of the running season little: it stays unseen only
\* behind a row of its own block, and no longer than to the next periodic
\* snapshot, the floor under every token (recomputeAndStampHp, HpSnapshot.ts).
ScoresKeepUp ==
    \A t \in Cohort :
        missed[t] # NoTrade =>
            /\ \E row \in hpSnapshot : row.token = t /\ row.block = missed[t]
            /\ \A b \in (missed[t] + 1)..head :
                  "HpSnapshot" \in HandlersAt(b) => b = head /\ (halted \/ "HpSnapshot" \in due)

\* The two SQL passes keep every row that is not an anchor at the finality its
\* depth had at the last pass: soft from 6 blocks, final from 12, tip before,
\* whenever it was written and whatever it went through (finalityAdvancer.ts).
FinalityFollowsDepth ==
    \A row \in hpSnapshot :
        InitialFinalityForTrigger(row.trigger) = "tip" =>
            row.finality = IF row.block + FinalBlocks <= lastAdvance THEN "final"
                           ELSE IF row.block + SoftBlocks <= lastAdvance THEN "soft"
                           ELSE "tip"

\* Rows are never deleted and change only as nextFinality says, so that a final
\* row is not demoted (hp-methodology: "final rows never demote").
RowsOnlyAdvance ==
    [][\A row \in hpSnapshot :
          \/ row \in hpSnapshot'
          \/ [row EXCEPT !.finality = NextFinality(row)] \in hpSnapshot']_vars

\* The boundaries with the trigger of b: the cut and the finalize are alone with
\* theirs, the others share PHASE_BOUNDARY.
Alike(b) == {c \in Boundaries : c.trigger = b.trigger}

\* The blocks with a ranking by the trigger of b.
RankedAt(b) == {row.block : row \in {r \in hpSnapshot : r.trigger = b.trigger}}

\* Within a boundary's window a second tick is a no-op: a boundary gets one
\* ranking, however late the webhook lands, unless two ticks overlap or an
\* answer is lost (runPhaseTick, firedFor). There are no more rankings by a
\* trigger than boundaries that have it.
AnchorsAreSingle ==
    \A b \in Boundaries :
        (Alike(b) \cap excused = {}) => (Cardinality(RankedAt(b)) <= Cardinality(Alike(b)))

(***************************************************************************)
(* What comments say and the code does not do                              *)
(***************************************************************************)

\* "Multiple triggers landing in the same block-second collide and the latest
\* write wins" (buildHpSnapshotInsert): the second insert throws instead, which
\* undoes the handler and stops the indexer.
LatestWriteWins == ~halted
=============================================================================

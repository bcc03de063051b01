--------------------------- MODULE EventStreamProofs ---------------------------
(***************************************************************************)
(* The indexer's event stream: TickEngine, which makes events of what it   *)
(* reads, and EventHub, which brings them to the streams.                  *)
(*                                                                         *)
(* TickEngine, for any tables, windows and number of ticks: a snapshot     *)
(* replaces the one it was compared with, and is not older. The argument   *)
(* is that of the re-entry guard: while a tick is under way inFlight keeps *)
(* any other from beginning, so no other tick can have moved prevSnapshot  *)
(* since this one captured it. And the emissions are spaced, over ticks    *)
(* and in one batch: the pipeline remembers of the log whatever a window   *)
(* can still hold it to (Remembers, Silences), each of its stages is a     *)
(* fold that is followed event by event, and detectors give it events and  *)
(* nothing else (IsBatch). And each elimination and each cut is announced  *)
(* once: the tables only grow, so two snapshots differ in an elimination   *)
(* once (Known), and the folds keep it (Sieve).                            *)
(*                                                                         *)
(* EventHub, for any number of streams, addresses, slots and events: the   *)
(* loop and the hub agree on who waits, the slots of an address are its    *)
(* open streams, and a stream carries the broadcast, in order and once,    *)
(* less what evictOne may shed. For the last every open stream accounts    *)
(* for each event it was sent: written, in hand, queued, shed, or of       *)
(* another season. What a broadcast makes of a queue is a fold, which is   *)
(* followed event by event (PushRun).                                      *)
(***************************************************************************)
EXTENDS TickEngine, EventHub, WeiProofs, SequenceTheorems

(***************************************************************************)
(* The tick engine                                                         *)
(***************************************************************************)

Steps == {"idle", "season", "tokens", "scores", "fees", "diff"}

\* A tick has the shape of Idle, and compares with the snapshot there is. After
\* its first query it has a snapshot of its own, taken neither before that one
\* nor in the future.
RunOK(run, snapshot, time) ==
    /\ DOMAIN run = {"at", "prev", "current", "trades"} /\ run.at \in Steps
    /\ (run.at # "idle") => (run.prev = snapshot)
    /\ (run.at \notin {"idle", "season"}) =>
          /\ "takenAt" \in DOMAIN run.current /\ run.current.takenAt \in Nat
          /\ run.current.takenAt <= time
          /\ (snapshot # NoSnapshot) => (snapshot.takenAt <= run.current.takenAt)

TickInv ==
    /\ now \in Nat
    /\ (prevSnapshot # NoSnapshot) =>
          (prevSnapshot.takenAt \in Nat /\ prevSnapshot.takenAt <= now)
    /\ DOMAIN runs = Runs
    /\ \A r \in Runs : RunOK(runs[r], prevSnapshot, now) /\ (runs[r].at # "idle" => inFlight)
    /\ \A r, q \in Runs : runs[r].at # "idle" /\ runs[q].at # "idle" => r = q

LEMMA InitTick ==
  ASSUME Init
  PROVE  TickInv
BY DEF Init, TickInv, RunOK, Idle, Steps

\* The clock runs, and all the tick engine has stays.
LEMMA QuietTick ==
  ASSUME TickInv, UNCHANGED engine, now' = now \/ now' = now + 1
  PROVE  TickInv'
BY DEF TickInv, RunOK, engine

\* A tick goes on to its next await.
LEMMA TickMovesOn ==
  ASSUME TickInv, NEW r \in Runs, NEW run, runs' = [runs EXCEPT ![r] = run],
         UNCHANGED <<now, inFlight, prevSnapshot>>,
         runs[r].at # "idle", run.at # "idle", RunOK(run, prevSnapshot, now)
  PROVE  TickInv'
<1>1. \A q \in Runs : runs'[q] = IF q = r THEN run ELSE runs[q]
  BY DEF TickInv
<1>2. \A q \in Runs : RunOK(runs'[q], prevSnapshot', now')
  BY <1>1 DEF TickInv
<1> QED
  BY <1>1, <1>2 DEF TickInv

\* A tick ends, whatever snapshot it leaves.
LEMMA TickEnds ==
  ASSUME TickInv, NEW r \in Runs, runs' = [runs EXCEPT ![r] = Idle],
         runs[r].at # "idle", now' = now,
         (prevSnapshot' # NoSnapshot) =>
            (prevSnapshot'.takenAt \in Nat /\ prevSnapshot'.takenAt <= now)
  PROVE  TickInv'
<1>1. \A q \in Runs : runs'[q] = IF q = r THEN Idle ELSE runs[q]
  BY DEF TickInv
<1>2. \A q \in Runs : runs'[q].at = "idle" /\ DOMAIN runs'[q] = {"at", "prev", "current", "trades"}
  BY <1>1 DEF TickInv, RunOK, Idle
<1> QED
  BY <1>2 DEF TickInv, RunOK, Steps

LEMMA BeginTick ==
  ASSUME TickInv, NEW r \in Runs, Begin(r)
  PROVE  TickInv'
<1> DEFINE run == [Idle EXCEPT !.at = "season", !.prev = prevSnapshot]
<1>1. runs' = [runs EXCEPT ![r] = run] /\ inFlight' = TRUE /\ ~inFlight
      /\ UNCHANGED <<now, prevSnapshot>>
  BY DEF Begin, Tables
<1>2. \A q \in Runs : runs'[q] = IF q = r THEN run ELSE runs[q]
  BY <1>1 DEF TickInv
<1>3. \A q \in Runs : runs[q].at = "idle"
  BY <1>1 DEF TickInv
<1> QED
  BY <1>1, <1>2, <1>3 DEF TickInv, RunOK, Steps, Idle

LEMMA QueryTick ==
  ASSUME TickInv, NEW r \in Runs, ReadSeason(r) \/ ReadTokens(r) \/ ReadScores(r) \/ ReadFees(r)
  PROVE  TickInv'
<1>1. RunOK(runs[r], prevSnapshot, now) /\ UNCHANGED <<now, inFlight, prevSnapshot>>
  BY DEF TickInv, ReadSeason, ReadTokens, ReadScores, ReadFees, Engine, Tables
<1>2. CASE ReadSeason(r)
  <2> DEFINE snapshot == [takenAt |-> now, season |-> db.season, phase |-> db.phase,
                          nextCut |-> NextCuts(db.season, db.phase, db.startedAt),
                          tokens |-> {}, order |-> <<>>, liquidated |-> {}]
             run == [runs[r] EXCEPT !.at = "tokens", !.current = snapshot]
  <2>1. runs' = [runs EXCEPT ![r] = run] /\ runs[r].at = "season"
    BY <1>2 DEF ReadSeason, TickInv
  <2>2. RunOK(run, prevSnapshot, now) /\ run.at # "idle"
    BY <1>1, <2>1 DEF RunOK, Steps, TickInv
  <2> HIDE DEF run
  <2> QED
    BY <1>1, <2>1, <2>2, TickMovesOn
<1>3. CASE ReadTokens(r)
  <2> DEFINE tokens == db.launched \cap SeasonTokens[runs[r].current.season]
             run == [runs[r] EXCEPT !.at = "scores", !.current.tokens = tokens,
                                    !.current.liquidated = db.liquidated \cap tokens]
  <2>1. runs' = [runs EXCEPT ![r] = run] /\ runs[r].at = "tokens"
    BY <1>3 DEF ReadTokens, TickInv
  <2>2. RunOK(run, prevSnapshot, now) /\ run.at # "idle"
    BY <1>1, <2>1 DEF RunOK, Steps
  <2> HIDE DEF run
  <2> QED
    BY <1>1, <2>1, <2>2, TickMovesOn
<1>4. CASE ReadScores(r)
  <2> DEFINE order == Those(db.order, runs[r].current.tokens)
             at == IF runs[r].prev = NoSnapshot THEN "diff" ELSE "fees"
             run == [runs[r] EXCEPT !.at = at, !.current.order = order]
  <2>1. runs' = [runs EXCEPT ![r] = run] /\ runs[r].at = "scores"
    BY <1>4 DEF ReadScores, TickInv
  <2> HIDE DEF order
  <2>2. RunOK(run, prevSnapshot, now) /\ run.at # "idle"
    BY <1>1, <2>1 DEF RunOK, Steps
  <2> HIDE DEF run
  <2> QED
    BY <1>1, <2>1, <2>2, TickMovesOn
<1>5. CASE ReadFees(r)
  <2> DEFINE rows == {row \in db.trades : row.at >= runs[r].prev.takenAt}
             run == [runs[r] EXCEPT !.at = "diff", !.trades = rows]
  <2>1. runs' = [runs EXCEPT ![r] = run] /\ runs[r].at = "fees"
    BY <1>5 DEF ReadFees, TickInv
  <2> HIDE DEF rows
  <2>2. RunOK(run, prevSnapshot, now) /\ run.at # "idle"
    BY <1>1, <2>1 DEF RunOK, Steps
  <2> HIDE DEF run
  <2> QED
    BY <1>1, <2>1, <2>2, TickMovesOn
<1> QED
  BY <1>2, <1>3, <1>4, <1>5

LEMMA PublishTick ==
  ASSUME TickInv, NEW r \in Runs, NEW spikes, Publish(r, spikes)
  PROVE  /\ TickInv'
         /\ runs[r].at = "diff" /\ runs[r].prev = prevSnapshot
         /\ (prevSnapshot # NoSnapshot) => (prevSnapshot.takenAt <= prevSnapshot'.takenAt)
<1>1. /\ runs[r].at = "diff" /\ prevSnapshot' = runs[r].current
      /\ runs' = [runs EXCEPT ![r] = Idle] /\ now' = now
  BY DEF Publish, Engine, Tables
<1>2. RunOK(runs[r], prevSnapshot, now)
  BY DEF TickInv
<1>3. /\ prevSnapshot'.takenAt \in Nat /\ prevSnapshot'.takenAt <= now
      /\ (prevSnapshot # NoSnapshot) => (prevSnapshot.takenAt <= prevSnapshot'.takenAt)
  BY <1>1, <1>2 DEF RunOK
<1> QED
  BY <1>1, <1>2, <1>3, TickEnds DEF RunOK

LEMMA NextTick ==
  ASSUME TickInv, [Next]_vars
  PROVE  TickInv'
<1>1. CASE UNCHANGED vars
  BY <1>1, QuietTick DEF vars
<1>2. CASE \/ \E t \in Tokens : Launch(t) \/ Liquidate(t)
           \/ \E order \in Orders : Rescore(order)
           \/ AdvancePhase \/ StartSeason \/ ClockTicks
           \/ \E t \in Tokens, at \in Time : Trade(t, at)
  <2>1. UNCHANGED engine /\ (now' = now \/ now' = now + 1)
    BY <1>2 DEF Launch, Liquidate, Rescore, AdvancePhase, StartSeason, ClockTicks, Trade, Chain
  <2> QED
    BY <2>1, QuietTick
<1>3. CASE Lapped
  BY <1>3, QuietTick DEF Lapped, Tables
<1>4. ASSUME NEW r \in Runs, Fail(r)
      PROVE  TickInv'
  <2>1. runs[r].at # "idle" /\ runs' = [runs EXCEPT ![r] = Idle]
        /\ UNCHANGED <<now, prevSnapshot>>
    BY <1>4 DEF Fail, Querying, Engine, Tables
  <2> QED
    BY <2>1, TickEnds DEF TickInv
<1>5. ASSUME NEW r \in Runs, NEW spikes \in SpikeSets, Publish(r, spikes)
      PROVE  TickInv'
  BY <1>5, PublishTick
<1> QED
  BY <1>1, <1>2, <1>3, <1>4, <1>5, BeginTick, QueryTick DEF Next

\* Only a tick that publishes moves the snapshot.
LEMMA OnlyPublishMoves ==
  ASSUME TickInv, [Next]_vars, prevSnapshot' # prevSnapshot
  PROVE  \E r \in Runs : \E spikes \in SpikeSets : Publish(r, spikes)
BY DEF Next, vars, engine, Launch, Liquidate, Rescore, AdvancePhase, StartSeason, ClockTicks,
       Trade, Chain, Lapped, Begin, ReadSeason, ReadTokens, ReadScores, ReadFees, Fail

\* "step on each other's prevSnapshot reads / writes": however ticks, failures and
\* the chain interleave, no snapshot is replaced by one that was compared with
\* another, nor by an older one.
THEOREM SnapshotsAdvance == Spec => SnapshotsOnlyAdvance
<1>1. Init => TickInv
  BY InitTick
<1>2. TickInv /\ [Next]_vars => TickInv'
  BY NextTick
<1>3. ASSUME TickInv, [Next]_vars
      PROVE  [prevSnapshot' # prevSnapshot =>
                /\ \E r \in Runs : runs[r].at = "diff" /\ runs[r].prev = prevSnapshot
                /\ prevSnapshot # NoSnapshot => prevSnapshot.takenAt <= prevSnapshot'.takenAt]_vars
  BY <1>3, OnlyPublishMoves, PublishTick
<1> QED
  BY <1>1, <1>2, <1>3, PTL DEF Spec, SnapshotsOnlyAdvance

(***************************************************************************)
(* The stages as folds                                                     *)
(***************************************************************************)

\* One step of Those, and what the fold recurses along.
Keep(S, acc, x) == IF x \in S THEN Append(acc, x) ELSE acc

KeepFold(h, S, s, n) ==
    h = [T \in SUBSET (1..n) |->
            IF T = {} THEN <<>> ELSE Keep(S, h[T \ {Max(T)}], s[Max(T)])]

LEMMA KeepFoldGrows ==
  ASSUME NEW S, NEW s, NEW k \in Nat, NEW g, KeepFold(g, S, s, k)
  PROVE  \E h : KeepFold(h, S, s, k + 1)
<1> DEFINE h == [T \in SUBSET (1..(k + 1)) |->
                    IF T = {} THEN <<>> ELSE Keep(S, g[T \ {Max(T)}], s[Max(T)])]
<1>1. \A T \in SUBSET (1..(k + 1)) : T # {} => T \ {Max(T)} \in SUBSET (1..k)
  BY LargestOf, k + 1 \in Nat
<1>2. \A T \in SUBSET (1..k) : h[T] = g[T]
  BY SUBSET (1..k) \subseteq SUBSET (1..(k + 1)) DEF KeepFold
<1>3. KeepFold(h, S, s, k + 1)
  BY <1>1, <1>2 DEF KeepFold
<1> QED
  BY <1>3

LEMMA KeepFoldExists ==
  ASSUME NEW S, NEW s, NEW n \in Nat
  PROVE  \E h : KeepFold(h, S, s, n)
<1> DEFINE Folds(k) == \E h : KeepFold(h, S, s, k)
           folded == {k \in 0..n : Folds(k)}
<1>1. Folds(0)
  <2> DEFINE h == [T \in SUBSET (1..0) |->
                      IF T = {} THEN <<>> ELSE Keep(S, <<>>, s[Max(T)])]
  <2>1. \A T \in SUBSET (1..0) : T = {}
    OBVIOUS
  <2>2. KeepFold(h, S, s, 0)
    BY <2>1 DEF KeepFold
  <2> QED
    BY <2>2
<1>2. \A k \in Nat : Folds(k) => Folds(k + 1)
  BY KeepFoldGrows
<1> HIDE DEF Folds
<1>3. 0 \in folded /\ \A k \in 1..n : k - 1 \in folded => k \in folded
  <2> SUFFICES ASSUME NEW k \in 1..n, k - 1 \in folded PROVE Folds(k)
    BY <1>1
  <2>1. k - 1 \in Nat /\ (k - 1) + 1 = k
    OBVIOUS
  <2> QED
    BY <1>2, <2>1
<1> QED
  BY <1>3, StepByStep DEF Folds

\* Those goes through the sequence element by element.
LEMMA ThoseRun ==
  ASSUME NEW D, NEW s \in Seq(D), NEW S
  PROVE  \E run : /\ run[0] = <<>>
                  /\ \A i \in 1..Len(s) : run[i] = Keep(S, run[i - 1], s[i])
                  /\ Those(s, S) = run[Len(s)]
<1> DEFINE n == Len(s)
           h == CHOOSE g : KeepFold(g, S, s, n)
           run == [i \in 0..n |-> h[1..i]]
<1>1. n \in Nat /\ DOMAIN s = 1..n
  OBVIOUS
<1>2. Those(s, S) = h[1..n]
  BY <1>1 DEF Those, FoldLeft, MapThenFoldSet, KeepFold, Keep
<1>3. KeepFold(h, S, s, n)
  BY <1>1, KeepFoldExists
<1> HIDE DEF h, n
<1>4. 1..0 = {} /\ h[1..0] = <<>>
  BY <1>1, <1>3 DEF KeepFold
<1>5. ASSUME NEW i \in 1..n PROVE run[i] = Keep(S, run[i - 1], s[i])
  <2>1. i - 1 \in Nat /\ (i - 1) + 1 = i /\ i \in 0..n /\ i - 1 \in 0..n /\ 1..i \subseteq 1..n
    BY <1>1
  <2>2. Max(1..i) = i /\ (1..i) \ {Max(1..i)} = 1..(i - 1) /\ 1..i # {}
    BY <2>1, LargestOfFirst
  <2>3. h[1..i] = Keep(S, h[(1..i) \ {Max(1..i)}], s[Max(1..i)])
    BY <1>3, <2>1, <2>2 DEF KeepFold
  <2> QED
    BY <2>1, <2>2, <2>3
<1>6. run[0] = <<>> /\ run[n] = h[1..n]
  BY <1>1, <1>4
<1> HIDE DEF run
<1> QED
  BY <1>2, <1>5, <1>6 DEF n

\* One step of stage 1, and what its fold recurses along.
Screen(time, acc, d) ==
    IF time < acc.endsAt /\ PriorityOf(d) # "HIGH" THEN acc
    ELSE [endsAt |-> IF d.type = "FILTER_FIRED" THEN time + FilterMomentWindow ELSE acc.endsAt,
          kept |-> Append(acc.kept, d)]

ScreenFold(h, time, base, s, n) ==
    h = [T \in SUBSET (1..n) |->
            IF T = {} THEN base ELSE Screen(time, h[T \ {Max(T)}], s[Max(T)])]

LEMMA ScreenFoldGrows ==
  ASSUME NEW time, NEW base, NEW s, NEW k \in Nat, NEW g, ScreenFold(g, time, base, s, k)
  PROVE  \E h : ScreenFold(h, time, base, s, k + 1)
<1> DEFINE h == [T \in SUBSET (1..(k + 1)) |->
                    IF T = {} THEN base ELSE Screen(time, g[T \ {Max(T)}], s[Max(T)])]
<1>1. \A T \in SUBSET (1..(k + 1)) : T # {} => T \ {Max(T)} \in SUBSET (1..k)
  BY LargestOf, k + 1 \in Nat
<1>2. \A T \in SUBSET (1..k) : h[T] = g[T]
  BY SUBSET (1..k) \subseteq SUBSET (1..(k + 1)) DEF ScreenFold
<1>3. ScreenFold(h, time, base, s, k + 1)
  BY <1>1, <1>2 DEF ScreenFold
<1> QED
  BY <1>3

LEMMA ScreenFoldExists ==
  ASSUME NEW time, NEW base, NEW s, NEW n \in Nat
  PROVE  \E h : ScreenFold(h, time, base, s, n)
<1> DEFINE Folds(k) == \E h : ScreenFold(h, time, base, s, k)
           folded == {k \in 0..n : Folds(k)}
<1>1. Folds(0)
  <2> DEFINE h == [T \in SUBSET (1..0) |->
                      IF T = {} THEN base ELSE Screen(time, base, s[Max(T)])]
  <2>1. \A T \in SUBSET (1..0) : T = {}
    OBVIOUS
  <2>2. ScreenFold(h, time, base, s, 0)
    BY <2>1 DEF ScreenFold
  <2> QED
    BY <2>2
<1>2. \A k \in Nat : Folds(k) => Folds(k + 1)
  BY ScreenFoldGrows
<1> HIDE DEF Folds
<1>3. 0 \in folded /\ \A k \in 1..n : k - 1 \in folded => k \in folded
  <2> SUFFICES ASSUME NEW k \in 1..n, k - 1 \in folded PROVE Folds(k)
    BY <1>1
  <2>1. k - 1 \in Nat /\ (k - 1) + 1 = k
    OBVIOUS
  <2> QED
    BY <1>2, <2>1
<1> QED
  BY <1>3, StepByStep DEF Folds

\* Stage 1 goes through the batch event by event.
LEMMA FilterMomentRun ==
  ASSUME NEW D, NEW s \in Seq(D), NEW state, NEW time
  PROVE  \E run : /\ run[0] = [endsAt |-> state.filterMomentEndsAt, kept |-> <<>>]
                  /\ \A i \in 1..Len(s) : run[i] = Screen(time, run[i - 1], s[i])
                  /\ FilterMoment(state, s, time) = run[Len(s)]
<1> DEFINE n == Len(s)
           base == [endsAt |-> state.filterMomentEndsAt, kept |-> <<>>]
           h == CHOOSE g : ScreenFold(g, time, base, s, n)
           run == [i \in 0..n |-> h[1..i]]
<1>1. n \in Nat /\ DOMAIN s = 1..n
  OBVIOUS
<1>2. FilterMoment(state, s, time) = h[1..n]
  BY <1>1 DEF FilterMoment, FoldLeft, MapThenFoldSet, ScreenFold, Screen
<1>3. ScreenFold(h, time, base, s, n)
  BY <1>1, ScreenFoldExists
<1> HIDE DEF h, n, base
<1>4. 1..0 = {} /\ h[1..0] = base
  BY <1>1, <1>3 DEF ScreenFold
<1>5. ASSUME NEW i \in 1..n PROVE run[i] = Screen(time, run[i - 1], s[i])
  <2>1. i - 1 \in Nat /\ (i - 1) + 1 = i /\ i \in 0..n /\ i - 1 \in 0..n /\ 1..i \subseteq 1..n
    BY <1>1
  <2>2. Max(1..i) = i /\ (1..i) \ {Max(1..i)} = 1..(i - 1) /\ 1..i # {}
    BY <2>1, LargestOfFirst
  <2>3. h[1..i] = Screen(time, h[(1..i) \ {Max(1..i)}], s[Max(1..i)])
    BY <1>3, <2>1, <2>2 DEF ScreenFold
  <2> QED
    BY <2>1, <2>2, <2>3
<1>6. run[0] = base /\ run[n] = h[1..n]
  BY <1>1, <1>4
<1> HIDE DEF run
<1> QED
  BY <1>2, <1>5, <1>6 DEF n, base

\* Stage 3, and what its fold recurses along.
EmitAll(time, base, s) ==
    LET Stage3(acc, d) == Emit(acc, d, time)
    IN  FoldLeft(Stage3, base, s)

EmitFold(h, time, base, s, n) ==
    h = [T \in SUBSET (1..n) |->
            IF T = {} THEN base ELSE Emit(h[T \ {Max(T)}], s[Max(T)], time)]

LEMMA EmitFoldGrows ==
  ASSUME NEW time, NEW base, NEW s, NEW k \in Nat, NEW g, EmitFold(g, time, base, s, k)
  PROVE  \E h : EmitFold(h, time, base, s, k + 1)
<1> DEFINE h == [T \in SUBSET (1..(k + 1)) |->
                    IF T = {} THEN base ELSE Emit(g[T \ {Max(T)}], s[Max(T)], time)]
<1>1. \A T \in SUBSET (1..(k + 1)) : T # {} => T \ {Max(T)} \in SUBSET (1..k)
  BY LargestOf, k + 1 \in Nat
<1>2. \A T \in SUBSET (1..k) : h[T] = g[T]
  BY SUBSET (1..k) \subseteq SUBSET (1..(k + 1)) DEF EmitFold
<1>3. EmitFold(h, time, base, s, k + 1)
  BY <1>1, <1>2 DEF EmitFold
<1> QED
  BY <1>3

LEMMA EmitFoldExists ==
  ASSUME NEW time, NEW base, NEW s, NEW n \in Nat
  PROVE  \E h : EmitFold(h, time, base, s, n)
<1> DEFINE Folds(k) == \E h : EmitFold(h, time, base, s, k)
           folded == {k \in 0..n : Folds(k)}
<1>1. Folds(0)
  <2> DEFINE h == [T \in SUBSET (1..0) |->
                      IF T = {} THEN base ELSE Emit(base, s[Max(T)], time)]
  <2>1. \A T \in SUBSET (1..0) : T = {}
    OBVIOUS
  <2>2. EmitFold(h, time, base, s, 0)
    BY <2>1 DEF EmitFold
  <2> QED
    BY <2>2
<1>2. \A k \in Nat : Folds(k) => Folds(k + 1)
  BY EmitFoldGrows
<1> HIDE DEF Folds
<1>3. 0 \in folded /\ \A k \in 1..n : k - 1 \in folded => k \in folded
  <2> SUFFICES ASSUME NEW k \in 1..n, k - 1 \in folded PROVE Folds(k)
    BY <1>1
  <2>1. k - 1 \in Nat /\ (k - 1) + 1 = k
    OBVIOUS
  <2> QED
    BY <1>2, <2>1
<1> QED
  BY <1>3, StepByStep DEF Folds

\* Stage 3 goes through the batch event by event.
LEMMA EmitRun ==
  ASSUME NEW D, NEW s \in Seq(D), NEW base, NEW time
  PROVE  \E run : /\ run[0] = base
                  /\ \A i \in 1..Len(s) : run[i] = Emit(run[i - 1], s[i], time)
                  /\ EmitAll(time, base, s) = run[Len(s)]
<1> DEFINE n == Len(s)
           h == CHOOSE g : EmitFold(g, time, base, s, n)
           run == [i \in 0..n |-> h[1..i]]
<1>1. n \in Nat /\ DOMAIN s = 1..n
  OBVIOUS
<1>2. EmitAll(time, base, s) = h[1..n]
  BY <1>1 DEF EmitAll, FoldLeft, MapThenFoldSet, EmitFold
<1>3. EmitFold(h, time, base, s, n)
  BY <1>1, EmitFoldExists
<1> HIDE DEF h, n
<1>4. 1..0 = {} /\ h[1..0] = base
  BY <1>1, <1>3 DEF EmitFold
<1>5. ASSUME NEW i \in 1..n PROVE run[i] = Emit(run[i - 1], s[i], time)
  <2>1. i - 1 \in Nat /\ (i - 1) + 1 = i /\ i \in 0..n /\ i - 1 \in 0..n /\ 1..i \subseteq 1..n
    BY <1>1
  <2>2. Max(1..i) = i /\ (1..i) \ {Max(1..i)} = 1..(i - 1) /\ 1..i # {}
    BY <2>1, LargestOfFirst
  <2>3. h[1..i] = Emit(h[(1..i) \ {Max(1..i)}], s[Max(1..i)], time)
    BY <1>3, <2>1, <2>2 DEF EmitFold
  <2> QED
    BY <2>1, <2>2, <2>3
<1>6. run[0] = base /\ run[n] = h[1..n]
  BY <1>1, <1>4
<1> HIDE DEF run
<1> QED
  BY <1>2, <1>5, <1>6 DEF n

(***************************************************************************)
(* Those keeps the order                                                   *)
(***************************************************************************)

\* t is what the first n of s have in S: its m-th is the one at h[m], in order, and
\* none is passed over.
Picks(h, t, s, S, n) ==
    /\ h \in [1..Len(t) -> 1..n]
    /\ \A m \in 1..Len(t) : t[m] = s[h[m]] /\ s[h[m]] \in S
    /\ \A m, l \in 1..Len(t) : m < l => h[m] < h[l]
    /\ \A k \in 1..n : s[k] \in S => \E m \in 1..Len(t) : h[m] = k

LEMMA PicksMore ==
  ASSUME NEW D, NEW s \in Seq(D), NEW S, NEW i \in 1..Len(s), NEW t \in Seq(D),
         NEW h, Picks(h, t, s, S, i - 1)
  PROVE  Keep(S, t, s[i]) \in Seq(D) /\ \E g : Picks(g, Keep(S, t, s[i]), s, S, i)
<1>1. i \in Nat /\ i - 1 \in Nat /\ 1..(i - 1) \subseteq 1..i /\ s[i] \in D
      /\ \A k \in 1..i : k # i => k \in 1..(i - 1)
  OBVIOUS
<1>2. CASE s[i] \notin S
  <2>1. Keep(S, t, s[i]) = t
    BY <1>2 DEF Keep
  <2>2. Picks(h, t, s, S, i)
    BY <1>1, <1>2 DEF Picks
  <2> QED
    BY <2>1, <2>2
<1>3. CASE s[i] \in S
  <2> DEFINE u == Append(t, s[i])
             g == [m \in 1..(Len(t) + 1) |-> IF m \in 1..Len(t) THEN h[m] ELSE i]
  <2>1. /\ Keep(S, t, s[i]) = u /\ u \in Seq(D) /\ Len(u) = Len(t) + 1 /\ Len(t) \in Nat
        /\ \A m \in 1..Len(t) : u[m] = t[m]
        /\ u[Len(t) + 1] = s[i]
    BY <1>1, <1>3 DEF Keep
  <2>2. /\ Len(t) \in Nat /\ 1..Len(t) \subseteq 1..(Len(t) + 1) /\ Len(t) + 1 \in 1..(Len(t) + 1)
        /\ Len(t) + 1 \notin 1..Len(t)
        /\ \A m \in 1..(Len(t) + 1) : m \in 1..Len(t) \/ m = Len(t) + 1
    OBVIOUS
  <2>3. \A m \in 1..Len(t) : h[m] \in 1..(i - 1)
    BY DEF Picks
  <2> HIDE DEF u
  <2>4. /\ \A m \in 1..Len(t) : g[m] = h[m] /\ h[m] \in 1..(i - 1)
        /\ g[Len(t) + 1] = i
        /\ \A m \in 1..(Len(t) + 1) : m \in 1..Len(t) \/ m = Len(t) + 1
        /\ 1..Len(t) \subseteq 1..(Len(t) + 1) /\ Len(t) + 1 \in 1..(Len(t) + 1)
    BY <2>2, <2>3, Zenon
  <2>5. g \in [1..Len(u) -> 1..i]
    BY <1>1, <2>1, <2>4, i \in 1..i
  <2> HIDE DEF g, u
  <2>6. \A m \in 1..Len(u) : u[m] = s[g[m]] /\ s[g[m]] \in S
    BY <1>3, <2>1, <2>4 DEF Picks
  <2>7. ASSUME NEW m \in 1..Len(u), NEW l \in 1..Len(u), m < l
        PROVE  g[m] < g[l]
    <3>1. m \in 1..Len(t)
      BY <2>1, <2>4, <2>7
    <3>2. CASE l \in 1..Len(t)
      BY <2>4, <2>7, <3>1, <3>2 DEF Picks
    <3>3. CASE l = Len(t) + 1
      BY <1>1, <2>4, <3>1, <3>3
    <3> QED
      BY <2>1, <2>4, <3>2, <3>3
  <2>8. \A k \in 1..i : s[k] \in S => \E m \in 1..Len(u) : g[m] = k
    <3> SUFFICES ASSUME NEW k \in 1..i, s[k] \in S PROVE \E m \in 1..Len(u) : g[m] = k
      OBVIOUS
    <3>1. CASE k = i
      BY <2>1, <2>4, <3>1
    <3>2. CASE k # i
      <4>1. PICK m \in 1..Len(t) : h[m] = k
        BY <1>1, <3>2 DEF Picks
      <4> QED
        BY <2>1, <2>4, <4>1
    <3> QED
      BY <3>1, <3>2
  <2>9. Picks(g, u, s, S, i)
    BY <2>5, <2>6, <2>7, <2>8 DEF Picks
  <2> QED
    BY <2>1, <2>9
<1> QED
  BY <1>2, <1>3

LEMMA ThosePicks ==
  ASSUME NEW D, NEW s \in Seq(D), NEW S
  PROVE  Those(s, S) \in Seq(D) /\ \E h : Picks(h, Those(s, S), s, S, Len(s))
<1> DEFINE n == Len(s)
<1>1. n \in Nat /\ <<>> \in Seq(D) /\ Len(<<>>) = 0 /\ 1..0 = {}
  OBVIOUS
<1>2. PICK run : /\ run[0] = <<>>
                 /\ \A i \in 1..n : run[i] = Keep(S, run[i - 1], s[i])
                 /\ Those(s, S) = run[n]
  BY ThoseRun
<1> DEFINE Good(i) == run[i] \in Seq(D) /\ \E h : Picks(h, run[i], s, S, i)
           good == {i \in 0..n : Good(i)}
<1>3. Good(0)
  <2>1. Picks([m \in 1..0 |-> m], <<>>, s, S, 0)
    BY <1>1 DEF Picks
  <2> QED
    BY <1>1, <1>2, <2>1
<1>4. ASSUME NEW i \in 1..n, Good(i - 1) PROVE Good(i)
  BY <1>2, <1>4, PicksMore
<1> HIDE DEF Good
<1>5. 0 \in good /\ \A i \in 1..n : i - 1 \in good => i \in good
  BY <1>1, <1>3, <1>4
<1>6. Good(n)
  BY <1>1, <1>5, StepByStep
<1> QED
  BY <1>2, <1>6 DEF Good

\* Of the positions in what Those keeps and those they come from, none are counted twice.
LEMMA PicksCount ==
  ASSUME NEW h, NEW t, NEW s, NEW S, NEW n \in Nat, Len(t) \in Nat, Picks(h, t, s, S, n),
         NEW A \in SUBSET (1..Len(t)), NEW B \in SUBSET (1..n)
  PROVE  /\ (\A m \in A : h[m] \in B) => Cardinality(A) <= Cardinality(B)
         /\ (\A k \in B : s[k] \in S /\ \A m \in 1..Len(t) : h[m] = k => m \in A)
               => Cardinality(B) <= Cardinality(A)
<1>1. IsFiniteSet(1..n) /\ IsFiniteSet(1..Len(t))
  BY FS_Interval
<1>2. IsFiniteSet(A) /\ IsFiniteSet(B)
  BY <1>1, FS_Subset
<1>3. \A m, l \in 1..Len(t) : h[m] \in Nat /\ (m # l => h[m] # h[l])
  <2> SUFFICES ASSUME NEW m \in 1..Len(t), NEW l \in 1..Len(t)
               PROVE  h[m] \in Nat /\ (m # l => h[m] # h[l])
    OBVIOUS
  <2>1. h[m] \in 1..n /\ h[l] \in 1..n /\ (m < l => h[m] < h[l]) /\ (l < m => h[l] < h[m])
    BY DEF Picks
  <2> QED
    BY <2>1
<1>4. ASSUME \A m \in A : h[m] \in B PROVE Cardinality(A) <= Cardinality(B)
  <2> DEFINE f == [m \in A |-> h[m]]
  <2>1. f \in Injection(A, B)
    BY <1>3, <1>4 DEF Injection, IsInjective
  <2> QED
    BY <1>2, <2>1, FS_Injection
<1>5. ASSUME \A k \in B : s[k] \in S /\ \A m \in 1..Len(t) : h[m] = k => m \in A
      PROVE  Cardinality(B) <= Cardinality(A)
  <2> DEFINE at(k) == CHOOSE m \in A : h[m] = k
             f == [k \in B |-> at(k)]
  <2>1. \A k \in B : \E m \in A : h[m] = k
    BY <1>5 DEF Picks
  <2>2. \A k \in B : at(k) \in A /\ h[at(k)] = k
    BY <2>1
  <2> HIDE DEF at
  <2>3. f \in Injection(B, A)
    BY <2>2 DEF Injection, IsInjective
  <2> QED
    BY <1>2, <2>3, FS_Injection
<1> QED
  BY <1>4, <1>5

(***************************************************************************)
(* What the log and the pipeline's memory have to do with each other       *)
(***************************************************************************)

EventTypes == HighTypes \cup MediumTypes \cup {"LARGE_TRADE"}
Entries == [type: EventTypes, token: Tokens \cup {NoToken},
            priority: {"HIGH", "MEDIUM", "LOW"}, at: Nat]

\* What EmissionsSpaced says of the j-th event of a log.
SpacedAt(L, j) ==
    LET e == L[j] IN
    /\ \A i \in 1..(j - 1) :
          /\ (L[i].type = e.type /\ L[i].token = e.token) => (e.at - L[i].at >= DedupeWindow)
          /\ (L[i].type = "FILTER_FIRED" /\ e.at - L[i].at < FilterMomentWindow) =>
                (e.priority = "HIGH")
    /\ (e.token # NoToken /\ e.priority # "HIGH") =>
          Cardinality({i \in 1..j : L[i].token = e.token /\ L[i].priority # "HIGH"
                                      /\ e.at - L[i].at < ThrottleWindow})
             <= ThrottlePerTokenMax

Spaced(L) == \A j \in DOMAIN L : SpacedAt(L, j)

\* Forgetting some of the log leaves the rest spaced.
LEMMA SpacedThose ==
  ASSUME NEW L \in Seq(Entries), Spaced(L), NEW S
  PROVE  Spaced(Those(L, S))
<1> DEFINE t == Those(L, S)
           n == Len(L)
<1>1. t \in Seq(Entries) /\ n \in Nat /\ DOMAIN L = 1..n
  BY ThosePicks
<1>2. PICK h : Picks(h, t, L, S, n)
  BY ThosePicks
<1> HIDE DEF t, n
<1>3. Len(t) \in Nat /\ DOMAIN t = 1..Len(t)
  BY <1>1
<1>4. ASSUME NEW j \in 1..Len(t) PROVE SpacedAt(t, j)
  <2>1. /\ h[j] \in 1..n /\ t[j] = L[h[j]] /\ SpacedAt(L, h[j]) /\ j \in Nat
        /\ h[j] \in Nat
    BY <1>1, <1>2, <1>3 DEF Picks, Spaced
  <2>2. \A i \in 1..(j - 1) : t[i] = L[h[i]] /\ h[i] \in 1..(h[j] - 1) /\ i \in 1..Len(t)
    <3> SUFFICES ASSUME NEW i \in 1..(j - 1)
                 PROVE  t[i] = L[h[i]] /\ h[i] \in 1..(h[j] - 1) /\ i \in 1..Len(t)
      OBVIOUS
    <3>1. i \in 1..Len(t) /\ i < j
      BY <1>3
    <3>2. t[i] = L[h[i]] /\ h[i] \in 1..n /\ h[i] < h[j]
      BY <1>2, <3>1 DEF Picks
    <3> QED
      BY <2>1, <3>1, <3>2
  <2> DEFINE e == t[j]
             A == {i \in 1..j : t[i].token = e.token /\ t[i].priority # "HIGH"
                                  /\ e.at - t[i].at < ThrottleWindow}
             B == {i \in 1..h[j] : L[i].token = e.token /\ L[i].priority # "HIGH"
                                     /\ e.at - L[i].at < ThrottleWindow}
  <2>3. Cardinality(A) <= Cardinality(B) /\ Cardinality(B) \in Nat /\ Cardinality(A) \in Nat
    <3>1. \A i \in 1..j : i \in 1..Len(t) /\ t[i] = L[h[i]] /\ h[i] \in 1..h[j]
      <4> SUFFICES ASSUME NEW i \in 1..j
                   PROVE  i \in 1..Len(t) /\ t[i] = L[h[i]] /\ h[i] \in 1..h[j]
        OBVIOUS
      <4>1. i = j \/ i \in 1..(j - 1)
        BY <1>3
      <4> QED
        BY <2>1, <2>2, <4>1
    <3>2. 1..h[j] \subseteq 1..n
      BY <1>1, <2>1
    <3>3. \A i \in A : h[i] \in B
      BY <3>1
    <3>4. A \in SUBSET (1..Len(t)) /\ B \in SUBSET (1..n)
      BY <3>1, <3>2
    <3> HIDE DEF A, B
    <3>5. IsFiniteSet(1..Len(t)) /\ IsFiniteSet(1..n)
      BY <1>1, <1>3, FS_Interval
    <3>6. IsFiniteSet(A) /\ IsFiniteSet(B)
      BY <3>4, <3>5, FS_Subset
    <3> QED
      BY <1>1, <1>2, <1>3, <3>3, <3>4, <3>6, PicksCount, FS_CardinalityType
  <2>4. (e.token # NoToken /\ e.priority # "HIGH") => Cardinality(B) <= ThrottlePerTokenMax
    BY <2>1 DEF SpacedAt
  <2> HIDE DEF B
  <2>5. (e.token # NoToken /\ e.priority # "HIGH") => Cardinality(A) <= ThrottlePerTokenMax
    BY <2>3, <2>4, PipelineConstants
  <2> QED
    BY <2>1, <2>2, <2>5 DEF SpacedAt
<1> QED
  BY <1>3, <1>4 DEF Spaced, t

\* What a log must say of an event that is appended to it.
LEMMA SpacedAppend ==
  ASSUME NEW L \in Seq(Entries), Spaced(L), NEW e \in Entries,
         \A i \in DOMAIN L :
            /\ (L[i].type = e.type /\ L[i].token = e.token) => (e.at - L[i].at >= DedupeWindow)
            /\ (L[i].type = "FILTER_FIRED" /\ e.at - L[i].at < FilterMomentWindow) =>
                  (e.priority = "HIGH"),
         (e.token # NoToken /\ e.priority # "HIGH") =>
            Cardinality({i \in DOMAIN L : L[i].token = e.token /\ L[i].priority # "HIGH"
                                            /\ e.at - L[i].at < ThrottleWindow})
               < ThrottlePerTokenMax
  PROVE  Spaced(Append(L, e))
<1> DEFINE u == Append(L, e)
           n == Len(L)
<1>1. /\ n \in Nat /\ DOMAIN L = 1..n /\ Len(u) = n + 1 /\ DOMAIN u = 1..(n + 1)
      /\ \A i \in 1..n : u[i] = L[i]
      /\ u[n + 1] = e
  OBVIOUS
<1> HIDE DEF u, n
<1>2. ASSUME NEW j \in 1..n PROVE SpacedAt(u, j)
  <2>1. SpacedAt(L, j) /\ u[j] = L[j]
    BY <1>1 DEF Spaced
  <2>2. \A i \in 1..j : i \in 1..n /\ u[i] = L[i]
    BY <1>1
  <2>3. \A i \in 1..(j - 1) : u[i] = L[i]
    BY <2>2
  <2>4. {i \in 1..j : u[i].token = u[j].token /\ u[i].priority # "HIGH"
                        /\ u[j].at - u[i].at < ThrottleWindow}
        = {i \in 1..j : L[i].token = L[j].token /\ L[i].priority # "HIGH"
                          /\ L[j].at - L[i].at < ThrottleWindow}
    BY <2>1, <2>2
  <2> QED
    BY <2>1, <2>3, <2>4 DEF SpacedAt
<1>3. SpacedAt(u, n + 1)
  <2> DEFINE A == {i \in 1..(n + 1) : u[i].token = e.token /\ u[i].priority # "HIGH"
                                        /\ e.at - u[i].at < ThrottleWindow}
             B == {i \in 1..n : L[i].token = e.token /\ L[i].priority # "HIGH"
                                  /\ e.at - L[i].at < ThrottleWindow}
  <2>1. A \subseteq B \cup {n + 1}
    BY <1>1
  <2>2. IsFiniteSet(B) /\ Cardinality(B) \in Nat
    <3>1. IsFiniteSet(1..n)
      BY <1>1, FS_Interval
    <3> QED
      BY <3>1, FS_Subset, FS_CardinalityType
  <2>3. (e.token # NoToken /\ e.priority # "HIGH") => Cardinality(B) < ThrottlePerTokenMax
    BY <1>1
  <2> HIDE DEF A, B
  <2>4. IsFiniteSet(B \cup {n + 1}) /\ Cardinality(B \cup {n + 1}) <= Cardinality(B) + 1
    <3>1. /\ IsFiniteSet(B \cup {n + 1})
          /\ Cardinality(B \cup {n + 1}) = IF n + 1 \in B THEN Cardinality(B)
                                           ELSE Cardinality(B) + 1
      BY <2>2, FS_AddElement
    <3> QED
      BY <2>2, <3>1
  <2>5. Cardinality(A) <= Cardinality(B) + 1 /\ Cardinality(A) \in Nat
    <3>1. Cardinality(A) <= Cardinality(B \cup {n + 1}) /\ IsFiniteSet(A)
      BY <2>1, <2>4, FS_Subset
    <3> QED
      BY <2>2, <2>4, <3>1, FS_CardinalityType
  <2>6. (e.token # NoToken /\ e.priority # "HIGH") => Cardinality(A) <= ThrottlePerTokenMax
    BY <2>2, <2>3, <2>5, PipelineConstants
  <2>7. \A i \in 1..((n + 1) - 1) : u[i] = L[i] /\ i \in 1..n
    BY <1>1
  <2> QED
    BY <1>1, <2>6, <2>7 DEF SpacedAt, A
<1>4. \A j \in 1..(n + 1) : j \in 1..n \/ j = n + 1
  BY <1>1
<1> QED
  BY <1>1, <1>2, <1>3, <1>4 DEF Spaced, u

\* The events of a token that count against its quota from time a on, and the emissions
\* that the pipeline remembers.
Charged(L, t, a) == {i \in DOMAIN L : L[i].token = t /\ L[i].priority # "HIGH" /\ L[i].at >= a}
Spent(times, a) == {k \in DOMAIN times : times[k] >= a}

\* The pipeline remembers what the log can still be held to at some time.
Remembers(s, L, time) ==
    /\ DOMAIN s = {"dedupeSeen", "throttleCounts", "filterMomentEndsAt"}
    /\ s.throttleCounts \in [Tokens -> Seq(Nat)]
    /\ \A k \in DOMAIN s.dedupeSeen : s.dedupeSeen[k] \in Nat /\ s.dedupeSeen[k] <= time
    /\ L \in Seq(Entries)
    /\ \A i \in DOMAIN L :
          /\ L[i].at <= time
          /\ (time - L[i].at < DedupeWindow) =>
                /\ <<L[i].token, L[i].type>> \in DOMAIN s.dedupeSeen
                /\ s.dedupeSeen[<<L[i].token, L[i].type>>] >= L[i].at
    /\ \A t \in Tokens, a \in Nat : (time - a < ThrottleWindow) =>
          Cardinality(Charged(L, t, a)) <= Cardinality(Spent(s.throttleCounts[t], a))

\* A filter moment lasts for its window after each FILTER_FIRED, and no longer than one.
Silences(endsAt, L, time) ==
    /\ endsAt \in Nat /\ endsAt <= time + FilterMomentWindow
    /\ \A i \in DOMAIN L : L[i].type = "FILTER_FIRED" => L[i].at + FilterMomentWindow <= endsAt

LEMMA LogFields ==
  ASSUME NEW L \in Seq(Entries), NEW i \in DOMAIN L
  PROVE  L[i] \in Entries /\ L[i].at \in Nat /\ L[i].type \in EventTypes
         /\ L[i].token \in Tokens \cup {NoToken}
<1>1. L[i] \in Entries
  OBVIOUS
<1> QED
  BY <1>1 DEF Entries

LEMMA ClockRemembers ==
  ASSUME NEW time \in Nat, NEW s, NEW L, Remembers(s, L, time)
  PROVE  Remembers(s, L, time + 1)
<1>1. \A i \in DOMAIN L : L[i].at \in Nat
  BY LogFields DEF Remembers
<1> QED
  BY <1>1, PipelineConstants DEF Remembers

\* The positions in a sequence are finite, and those that count in a log or a quota.
LEMMA PositionsFinite ==
  ASSUME NEW D, NEW s \in Seq(D), NEW A \in SUBSET DOMAIN s
  PROVE  IsFiniteSet(A) /\ Cardinality(A) \in Nat
<1>1. DOMAIN s = 1..Len(s) /\ Len(s) \in Nat
  OBVIOUS
<1>2. IsFiniteSet(1..Len(s))
  BY <1>1, FS_Interval
<1> QED
  BY <1>1, <1>2, FS_Subset, FS_CardinalityType

LEMMA CountsFinite ==
  ASSUME NEW L \in Seq(Entries), NEW times \in Seq(Nat), NEW t, NEW a
  PROVE  /\ IsFiniteSet(Charged(L, t, a)) /\ Cardinality(Charged(L, t, a)) \in Nat
         /\ IsFiniteSet(Spent(times, a)) /\ Cardinality(Spent(times, a)) \in Nat
<1>1. Charged(L, t, a) \in SUBSET DOMAIN L /\ Spent(times, a) \in SUBSET DOMAIN times
  BY DEF Charged, Spent
<1> QED
  BY <1>1, PositionsFinite

\* Forgetting some of the log asks no more of the pipeline.
LEMMA ThoseRemembers ==
  ASSUME NEW time \in Nat, NEW s, NEW L, Remembers(s, L, time), NEW S
  PROVE  /\ Remembers(s, Those(L, S), time)
         /\ \A i \in DOMAIN Those(L, S) : \E k \in DOMAIN L : Those(L, S)[i] = L[k]
<1> DEFINE u == Those(L, S)
           n == Len(L)
<1>1. L \in Seq(Entries) /\ n \in Nat /\ DOMAIN L = 1..n
  BY DEF Remembers
<1>2. u \in Seq(Entries) /\ \E h : Picks(h, u, L, S, n)
  BY <1>1, ThosePicks
<1>3. PICK h : Picks(h, u, L, S, n)
  BY <1>2
<1> HIDE DEF u, n
<1>4. Len(u) \in Nat /\ DOMAIN u = 1..Len(u)
  BY <1>2
<1>5. \A i \in DOMAIN u : h[i] \in DOMAIN L /\ u[i] = L[h[i]]
  BY <1>1, <1>3, <1>4 DEF Picks
<1>6. ASSUME NEW t \in Tokens, NEW a \in Nat, time - a < ThrottleWindow
      PROVE  Cardinality(Charged(u, t, a)) <= Cardinality(Spent(s.throttleCounts[t], a))
  <2> DEFINE A == Charged(u, t, a)
             B == Charged(L, t, a)
             C == Spent(s.throttleCounts[t], a)
  <2>1. A \in SUBSET (1..Len(u)) /\ B \in SUBSET (1..n) /\ \A i \in A : h[i] \in B
    BY <1>1, <1>4, <1>5 DEF Charged
  <2>2. Cardinality(B) <= Cardinality(C)
    BY <1>6 DEF Remembers
  <2> HIDE DEF A, B, C
  <2>3. Cardinality(A) <= Cardinality(B)
    BY <1>1, <1>3, <1>4, <2>1, PicksCount
  <2>4. Cardinality(A) \in Nat /\ Cardinality(B) \in Nat /\ Cardinality(C) \in Nat
    BY <1>1, <1>2, CountsFinite DEF Remembers, A, B, C
  <2>5. Cardinality(A) <= Cardinality(C)
    BY <2>2, <2>3, <2>4
  <2> QED
    BY <2>5 DEF A, C
<1>7. Remembers(s, u, time)
  BY <1>2, <1>5, <1>6 DEF Remembers
<1> QED
  BY <1>5, <1>7 DEF u

LEMMA ThoseSilences ==
  ASSUME NEW time \in Nat, NEW s, NEW L, Remembers(s, L, time), NEW S, NEW endsAt,
         Silences(endsAt, L, time)
  PROVE  Silences(endsAt, Those(L, S), time)
BY ThoseRemembers DEF Silences

\* What Prune forgets is out of every window.
LEMMA PruneRemembers ==
  ASSUME NEW time \in Nat, NEW s, NEW L, Remembers(s, L, time)
  PROVE  /\ Remembers(Prune(s, time), L, time)
         /\ Prune(s, time).filterMomentEndsAt = s.filterMomentEndsAt
<1> DEFINE fresh == {k \in DOMAIN s.dedupeSeen : time - s.dedupeSeen[k] < DedupeWindow}
           counts == [t \in Tokens |-> Recent(s.throttleCounts[t], time)]
           p == Prune(s, time)
<1>1. /\ DOMAIN p = {"dedupeSeen", "throttleCounts", "filterMomentEndsAt"}
      /\ p.dedupeSeen = [k \in fresh |-> s.dedupeSeen[k]]
      /\ p.throttleCounts = counts
      /\ p.filterMomentEndsAt = s.filterMomentEndsAt
  BY DEF Prune, Restrict, Remembers
<1> HIDE DEF p
<1>2. \A i \in DOMAIN L : L[i].at \in Nat /\ L[i] \in Entries
  BY LogFields DEF Remembers
<1>3. ASSUME NEW i \in DOMAIN L, time - L[i].at < DedupeWindow
      PROVE  /\ <<L[i].token, L[i].type>> \in DOMAIN p.dedupeSeen
             /\ p.dedupeSeen[<<L[i].token, L[i].type>>] >= L[i].at
  <2> DEFINE key == <<L[i].token, L[i].type>>
  <2>1. key \in DOMAIN s.dedupeSeen /\ s.dedupeSeen[key] >= L[i].at /\ s.dedupeSeen[key] \in Nat
    BY <1>3 DEF Remembers
  <2> HIDE DEF key
  <2>2. key \in fresh
    BY <1>2, <1>3, <2>1, PipelineConstants
  <2>3. p.dedupeSeen[key] = s.dedupeSeen[key] /\ key \in DOMAIN p.dedupeSeen
    BY <1>1, <2>2
  <2> QED
    BY <2>1, <2>3 DEF key
<1>4. ASSUME NEW t \in Tokens
      PROVE  /\ counts[t] \in Seq(Nat)
             /\ \A a \in Nat : time - a < ThrottleWindow =>
                   Cardinality(Spent(s.throttleCounts[t], a)) <= Cardinality(Spent(counts[t], a))
  <2> DEFINE times == s.throttleCounts[t]
             S == {at \in ToSet(times) : time - at < ThrottleWindow}
             u == Those(times, S)
  <2>1. times \in Seq(Nat) /\ counts[t] = u
    BY DEF Remembers, Recent
  <2> HIDE DEF times
  <2>2. u \in Seq(Nat) /\ \E h : Picks(h, u, times, S, Len(times))
    BY <2>1, ThosePicks
  <2>3. PICK h : Picks(h, u, times, S, Len(times))
    BY <2>2
  <2>4. \A k \in 1..Len(times) : times[k] \in Nat /\ times[k] \in ToSet(times)
    BY <2>1 DEF ToSet
  <2>5. \A k \in 1..Len(times) : time - times[k] < ThrottleWindow => times[k] \in S
    BY <2>4
  <2> HIDE DEF u, S
  <2>6. /\ Len(u) \in Nat /\ DOMAIN u = 1..Len(u)
        /\ Len(times) \in Nat /\ DOMAIN times = 1..Len(times)
    BY <2>1, <2>2
  <2>7. ASSUME NEW a \in Nat, time - a < ThrottleWindow
        PROVE  Cardinality(Spent(times, a)) <= Cardinality(Spent(u, a))
    <3>1. Spent(times, a) \in SUBSET (1..Len(times)) /\ Spent(u, a) \in SUBSET (1..Len(u))
      BY <2>6 DEF Spent
    <3>2. ASSUME NEW k \in Spent(times, a)
          PROVE  times[k] \in S
      <4>1. k \in 1..Len(times) /\ times[k] \in Nat /\ times[k] >= a
        BY <2>4, <2>6, <3>2 DEF Spent
      <4> QED
        BY <2>5, <2>7, <4>1, PipelineConstants
    <3>3. \A k \in Spent(times, a) : \A m \in 1..Len(u) : h[m] = k => m \in Spent(u, a)
      BY <2>3, <2>6 DEF Spent, Picks
    <3> QED
      BY <2>3, <2>6, <3>1, <3>2, <3>3, PicksCount
  <2> QED
    BY <2>1, <2>2, <2>7 DEF times
<1> HIDE DEF counts
<1>5. ASSUME NEW t \in Tokens, NEW a \in Nat, time - a < ThrottleWindow
      PROVE  Cardinality(Charged(L, t, a)) <= Cardinality(Spent(counts[t], a))
  <2> DEFINE A == Charged(L, t, a)
             B == Spent(s.throttleCounts[t], a)
             C == Spent(counts[t], a)
  <2>1. Cardinality(A) <= Cardinality(B) /\ Cardinality(B) <= Cardinality(C)
    BY <1>4, <1>5 DEF Remembers
  <2>2. Cardinality(A) \in Nat /\ Cardinality(B) \in Nat /\ Cardinality(C) \in Nat
    BY <1>4, CountsFinite DEF Remembers
  <2> QED
    BY <2>1, <2>2
<1>6. counts \in [Tokens -> Seq(Nat)]
  BY <1>4 DEF counts
<1>7. \A k \in DOMAIN p.dedupeSeen : p.dedupeSeen[k] \in Nat /\ p.dedupeSeen[k] <= time
  BY <1>1 DEF Remembers
<1> QED
  BY <1>1, <1>3, <1>5, <1>6, <1>7 DEF Remembers, p

(***************************************************************************)
(* The stages                                                              *)
(***************************************************************************)

Emittable(d) ==
    /\ d.type \in EventTypes /\ d.token \in Tokens \cup {NoToken}
    /\ d.type = "FILTER_FIRED" => ~d.nearCut

AllEmittable(D) == \A d \in D : Emittable(d)

EntryOf(d, time) ==
    [type |-> d.type, token |-> d.token, priority |-> PriorityOf(d), at |-> time]

LEMMA EntryIsOne ==
  ASSUME NEW d, Emittable(d), NEW time \in Nat
  PROVE  EntryOf(d, time) \in Entries /\ PriorityOf(d) \in {"HIGH", "MEDIUM", "LOW"}
<1>1. PriorityOf(d) \in {"HIGH", "MEDIUM", "LOW"}
  BY DEF PriorityOf
<1> QED
  BY <1>1 DEF EntryOf, Entries, Emittable

\* An event that stage 3 lets through is new to its window and within its quota.
LetThrough(acc, d, time, r) ==
    LET key == <<d.token, d.type>>
        seen == acc.state.dedupeSeen
        counts == acc.state.throttleCounts
    IN  /\ ~(key \in DOMAIN seen /\ time - seen[key] < DedupeWindow)
        /\ Throttled(d) => ~(Len(counts[d.token]) >= ThrottlePerTokenMax)
        /\ r.emitted = Append(acc.emitted, d)
        /\ DOMAIN r.state = {"dedupeSeen", "throttleCounts", "filterMomentEndsAt"}
        /\ r.state.dedupeSeen = Stamped(seen, key, time)
        /\ r.state.throttleCounts =
              IF Throttled(d) THEN [counts EXCEPT ![d.token] = Append(@, time)] ELSE counts
        /\ r.state.filterMomentEndsAt = acc.state.filterMomentEndsAt

LEMMA Emitted ==
  ASSUME NEW acc, NEW d, NEW time, Emit(acc, d, time) # acc,
         DOMAIN acc.state = {"dedupeSeen", "throttleCounts", "filterMomentEndsAt"}
  PROVE  LetThrough(acc, d, time, Emit(acc, d, time))
<1> DEFINE r == Emit(acc, d, time)
           key == <<d.token, d.type>>
           state == acc.state
           seen == key \in DOMAIN state.dedupeSeen /\ time - state.dedupeSeen[key] < DedupeWindow
           full == Throttled(d) /\ Len(state.throttleCounts[d.token]) >= ThrottlePerTokenMax
           stamped == [state EXCEPT !.dedupeSeen = Stamped(@, key, time)]
           after == IF Throttled(d) THEN [stamped EXCEPT !.throttleCounts[d.token] = Append(@, time)]
                    ELSE stamped
<1>1. r = IF seen \/ full THEN acc ELSE [state |-> after, emitted |-> Append(acc.emitted, d)]
  BY DEF Emit
<1>2. r # acc
  OBVIOUS
<1> HIDE DEF r, after, seen, full
<1>3. ~seen /\ ~full /\ r.state = after /\ r.emitted = Append(acc.emitted, d)
  BY <1>1, <1>2
<1>4. /\ DOMAIN stamped = {"dedupeSeen", "throttleCounts", "filterMomentEndsAt"}
      /\ stamped.dedupeSeen = Stamped(state.dedupeSeen, key, time)
      /\ stamped.throttleCounts = state.throttleCounts
      /\ stamped.filterMomentEndsAt = state.filterMomentEndsAt
  OBVIOUS
<1> HIDE DEF stamped
<1>5. /\ DOMAIN after = {"dedupeSeen", "throttleCounts", "filterMomentEndsAt"}
      /\ after.dedupeSeen = Stamped(state.dedupeSeen, key, time)
      /\ after.throttleCounts =
            IF Throttled(d) THEN [state.throttleCounts EXCEPT ![d.token] = Append(@, time)]
            ELSE state.throttleCounts
      /\ after.filterMomentEndsAt = state.filterMomentEndsAt
  BY <1>4 DEF after
<1> QED
  BY <1>3, <1>5 DEF LetThrough, r, seen, full

LEMMA SpentBound ==
  ASSUME NEW times \in Seq(Nat), NEW a
  PROVE  Cardinality(Spent(times, a)) <= Len(times)
<1> DEFINE m == Len(times)
           S == Spent(times, a)
<1>1. S \in SUBSET (1..m) /\ m \in Nat
  BY DEF Spent
<1> HIDE DEF S, m
<1>2. IsFiniteSet(1..m) /\ Cardinality(1..m) = m
  BY <1>1, FS_Interval
<1>3. Cardinality(S) <= Cardinality(1..m)
  BY <1>1, <1>2, FS_Subset
<1> QED
  BY <1>2, <1>3 DEF S, m

LEMMA SpentAppend ==
  ASSUME NEW times \in Seq(Nat), NEW time \in Nat, NEW a \in Nat
  PROVE  /\ Spent(Append(times, time), a) =
               IF time >= a THEN Spent(times, a) \cup {Len(times) + 1} ELSE Spent(times, a)
         /\ Len(times) + 1 \notin Spent(times, a)
<1> DEFINE u == Append(times, time)
           m == Len(times)
<1>1. /\ m \in Nat /\ DOMAIN times = 1..m /\ DOMAIN u = 1..(m + 1) /\ u[m + 1] = time
      /\ \A k \in 1..m : u[k] = times[k]
  OBVIOUS
<1> HIDE DEF u, m
<1>2. \A k \in 1..(m + 1) : k \in 1..m \/ k = m + 1
  BY <1>1
<1>3. 1..m \subseteq 1..(m + 1) /\ m + 1 \in 1..(m + 1) /\ m + 1 \notin 1..m
  BY <1>1
<1>4. Spent(u, a) = IF time >= a THEN Spent(times, a) \cup {m + 1} ELSE Spent(times, a)
  BY <1>1, <1>2, <1>3 DEF Spent
<1>5. m + 1 \notin Spent(times, a)
  BY <1>1, <1>3 DEF Spent
<1> QED
  BY <1>4, <1>5 DEF u, m

LEMMA ChargedAppend ==
  ASSUME NEW L \in Seq(Entries), NEW e \in Entries, NEW t, NEW a \in Nat
  PROVE  Charged(Append(L, e), t, a) =
            IF e.token = t /\ e.priority # "HIGH" /\ e.at >= a THEN Charged(L, t, a) \cup {Len(L) + 1}
            ELSE Charged(L, t, a)
<1> DEFINE u == Append(L, e)
           n == Len(L)
<1>1. /\ n \in Nat /\ DOMAIN L = 1..n /\ DOMAIN u = 1..(n + 1) /\ u[n + 1] = e
      /\ \A k \in 1..n : u[k] = L[k]
  OBVIOUS
<1> HIDE DEF u, n
<1>2. \A k \in 1..(n + 1) : k \in 1..n \/ k = n + 1
  BY <1>1
<1>3. 1..n \subseteq 1..(n + 1) /\ n + 1 \in 1..(n + 1)
  BY <1>1
<1>4. Charged(u, t, a) =
         IF e.token = t /\ e.priority # "HIGH" /\ e.at >= a THEN Charged(L, t, a) \cup {n + 1}
         ELSE Charged(L, t, a)
  BY <1>1, <1>2, <1>3 DEF Charged
<1> QED
  BY <1>4 DEF u, n

\* It leaves the log spaced, and is remembered.
LEMMA EmitKeeps ==
  ASSUME NEW acc, NEW d, Emittable(d), NEW time \in Nat, NEW r, r = Emit(acc, d, time), r # acc,
         NEW L, Remembers(acc.state, L, time), Spaced(L),
         \A i \in DOMAIN L :
            (L[i].type = "FILTER_FIRED" /\ time - L[i].at < FilterMomentWindow) =>
               (PriorityOf(d) = "HIGH")
  PROVE  LET M == Append(L, EntryOf(d, time))
         IN  Spaced(M) /\ Remembers(r.state, M, time)
<1> DEFINE e == EntryOf(d, time)
           M == Append(L, e)
           n == Len(L)
           key == <<d.token, d.type>>
           seen == acc.state.dedupeSeen
           counts == acc.state.throttleCounts
           stamps == r.state.dedupeSeen
           added == r.state.throttleCounts
<1>1. /\ L \in Seq(Entries) /\ e \in Entries /\ e.token = d.token /\ e.type = d.type
      /\ e.priority = PriorityOf(d) /\ e.at = time
      /\ counts \in [Tokens -> Seq(Nat)]
  BY EntryIsOne DEF Remembers, EntryOf
<1>2. /\ ~(key \in DOMAIN seen /\ time - seen[key] < DedupeWindow)
      /\ Throttled(d) => ~(Len(counts[d.token]) >= ThrottlePerTokenMax)
      /\ DOMAIN r.state = {"dedupeSeen", "throttleCounts", "filterMomentEndsAt"}
      /\ stamps = [k \in DOMAIN seen \cup {key} |-> IF k = key THEN time ELSE seen[k]]
      /\ added = IF Throttled(d) THEN [counts EXCEPT ![d.token] = Append(@, time)] ELSE counts
  <2>1. LetThrough(acc, d, time, r)
    BY Emitted DEF Remembers
  <2> QED
    BY <2>1 DEF LetThrough, Stamped
<1>3. /\ n \in Nat /\ DOMAIN L = 1..n /\ Len(M) = n + 1 /\ DOMAIN M = 1..(n + 1)
      /\ \A i \in 1..n : M[i] = L[i]
      /\ M[n + 1] = e /\ M \in Seq(Entries)
  BY <1>1
<1> HIDE DEF e, M, n, key, stamps, added
<1>4. \A i \in DOMAIN L : L[i].at \in Nat /\ L[i].at <= time
  BY <1>1, LogFields DEF Remembers
<1>5. ASSUME NEW i \in DOMAIN L, L[i].type = e.type, L[i].token = e.token
      PROVE  e.at - L[i].at >= DedupeWindow
  <2> SUFFICES ASSUME ~(time - L[i].at >= DedupeWindow) PROVE FALSE
    BY <1>1
  <2>1. L[i].at \in Nat
    BY <1>4
  <2>2. time - L[i].at < DedupeWindow
    BY <2>1, PipelineConstants
  <2>3. <<L[i].token, L[i].type>> = key
    BY <1>1, <1>5 DEF key
  <2>4. key \in DOMAIN seen /\ seen[key] >= L[i].at /\ seen[key] \in Nat
    BY <2>2, <2>3 DEF Remembers
  <2>5. time - seen[key] < DedupeWindow
    BY <2>1, <2>2, <2>4, PipelineConstants
  <2> QED
    BY <1>2, <2>4, <2>5
<1>6. ASSUME e.token # NoToken, e.priority # "HIGH"
      PROVE  Cardinality({i \in DOMAIN L : L[i].token = e.token /\ L[i].priority # "HIGH"
                                             /\ e.at - L[i].at < ThrottleWindow})
                < ThrottlePerTokenMax
  <2> DEFINE A == {i \in DOMAIN L : L[i].token = e.token /\ L[i].priority # "HIGH"
                                      /\ e.at - L[i].at < ThrottleWindow}
             t == d.token
             a == IF time + 1 >= ThrottleWindow THEN time + 1 - ThrottleWindow ELSE 0
             C == Charged(L, t, a)
             S == Spent(counts[t], a)
  <2>1. t \in Tokens /\ Throttled(d) /\ counts[t] \in Seq(Nat)
    BY <1>1, <1>6 DEF Throttled, Emittable
  <2>2. Len(counts[t]) \in Nat /\ Len(counts[t]) < ThrottlePerTokenMax
    BY <1>2, <2>1, PipelineConstants
  <2>3. CASE ThrottleWindow = 0
    <3>1. A = {}
      BY <1>1, <1>4, <2>3
    <3>2. Cardinality(A) = 0
      BY <3>1, FS_EmptySet
    <3>3. 0 < ThrottlePerTokenMax
      BY <2>2, PipelineConstants
    <3> QED
      BY <3>2, <3>3
  <2>4. CASE ThrottleWindow # 0
    <3>1. a \in Nat /\ time - a < ThrottleWindow
      BY <2>4, PipelineConstants
    <3>2. \A i \in DOMAIN L : e.at - L[i].at < ThrottleWindow => L[i].at >= a
      BY <1>1, <1>4, PipelineConstants
    <3> HIDE DEF a
    <3>3. A \subseteq C
      BY <1>1, <3>2 DEF Charged
    <3>4. Cardinality(C) <= Cardinality(S)
      BY <2>1, <3>1 DEF Remembers
    <3>5. /\ IsFiniteSet(C) /\ Cardinality(C) \in Nat
          /\ IsFiniteSet(S) /\ Cardinality(S) \in Nat
      BY <1>1, <2>1, CountsFinite
    <3>6. Cardinality(S) <= Len(counts[t])
      BY <2>1, SpentBound
    <3> HIDE DEF A, C, S
    <3>7. Cardinality(A) <= Cardinality(C) /\ Cardinality(A) \in Nat
      BY <3>3, <3>5, FS_Subset, FS_CardinalityType
    <3>8. Cardinality(A) < ThrottlePerTokenMax
      BY <2>2, <3>4, <3>5, <3>6, <3>7, PipelineConstants
    <3> QED
      BY <3>8 DEF A
  <2> QED
    BY <2>3, <2>4
<1>7. Spaced(M)
  BY <1>1, <1>5, <1>6, SpacedAppend DEF M
<1>8. ASSUME NEW k \in DOMAIN stamps PROVE stamps[k] \in Nat /\ stamps[k] <= time
  BY <1>2 DEF Remembers
<1>9. ASSUME NEW i \in DOMAIN M
      PROVE  /\ M[i].at <= time
             /\ (time - M[i].at < DedupeWindow) =>
                   /\ <<M[i].token, M[i].type>> \in DOMAIN stamps
                   /\ stamps[<<M[i].token, M[i].type>>] >= M[i].at
  <2>1. CASE i \in 1..n
    <3> DEFINE own == <<L[i].token, L[i].type>>
    <3>1. M[i] = L[i] /\ L[i].at \in Nat /\ L[i].at <= time
      BY <1>3, <1>4, <2>1
    <3>2. (time - L[i].at < DedupeWindow) => own \in DOMAIN seen /\ seen[own] >= L[i].at
      BY <1>3, <2>1 DEF Remembers
    <3> HIDE DEF own
    <3>3. (time - L[i].at < DedupeWindow) => own \in DOMAIN stamps /\ stamps[own] >= L[i].at
      BY <1>2, <3>1, <3>2
    <3> QED
      BY <3>1, <3>3 DEF own
  <2>2. CASE i = n + 1
    <3>1. M[i] = e /\ <<e.token, e.type>> = key
      BY <1>1, <1>3, <2>2 DEF key
    <3>2. key \in DOMAIN stamps /\ stamps[key] = time
      BY <1>2
    <3> QED
      BY <1>1, <3>1, <3>2
  <2> QED
    BY <1>3, <2>1, <2>2
<1>10. /\ added \in [Tokens -> Seq(Nat)]
       /\ \A t \in Tokens : (t = d.token /\ Throttled(d)) => added[t] = Append(counts[t], time)
       /\ \A t \in Tokens : ~(t = d.token /\ Throttled(d)) => added[t] = counts[t]
  <2>1. CASE Throttled(d)
    BY <1>1, <1>2, <2>1 DEF Throttled, Emittable
  <2>2. CASE ~Throttled(d)
    BY <1>1, <1>2, <2>2
  <2> QED
    BY <2>1, <2>2
<1>11. ASSUME NEW t \in Tokens, NEW a \in Nat, time - a < ThrottleWindow
       PROVE  Cardinality(Charged(M, t, a)) <= Cardinality(Spent(added[t], a))
  <2> DEFINE C == Charged(L, t, a)
             S == Spent(counts[t], a)
             m == Len(counts[t])
  <2>1. /\ Cardinality(C) <= Cardinality(S)
        /\ IsFiniteSet(C) /\ Cardinality(C) \in Nat
        /\ IsFiniteSet(S) /\ Cardinality(S) \in Nat
        /\ counts[t] \in Seq(Nat)
    BY <1>1, <1>11, CountsFinite DEF Remembers
  <2>2. Charged(M, t, a) =
           IF d.token = t /\ PriorityOf(d) # "HIGH" /\ time >= a THEN C \cup {n + 1} ELSE C
    BY <1>1, ChargedAppend DEF M, n
  <2>3. CASE t = d.token /\ Throttled(d) /\ time >= a
    <3>1. added[t] = Append(counts[t], time)
      BY <1>10, <2>3
    <3>2. Spent(Append(counts[t], time), a) = S \cup {m + 1} /\ m + 1 \notin S
      BY <2>1, <2>3, SpentAppend
    <3>3. Charged(M, t, a) = C \cup {n + 1}
      BY <2>2, <2>3 DEF Throttled
    <3> HIDE DEF C, S, m
    <3>4. Cardinality(S \cup {m + 1}) = Cardinality(S) + 1
      BY <2>1, <3>2, FS_AddElement
    <3>5. Cardinality(Spent(added[t], a)) = Cardinality(S) + 1
      BY <3>1, <3>2, <3>4
    <3>6. Cardinality(C \cup {n + 1}) = IF n + 1 \in C THEN Cardinality(C) ELSE Cardinality(C) + 1
      BY <2>1, FS_AddElement
    <3> QED
      BY <2>1, <3>3, <3>6, <3>5
  <2>4. CASE ~(t = d.token /\ Throttled(d) /\ time >= a)
    <3>1. Charged(M, t, a) = C
      BY <2>2, <2>4, PipelineConstants DEF Throttled
    <3>2. Spent(added[t], a) = S
      <4>1. CASE t = d.token /\ Throttled(d)
        <5>1. added[t] = Append(counts[t], time) /\ ~(time >= a)
          BY <1>10, <2>4, <4>1
        <5> QED
          BY <2>1, <5>1, SpentAppend
      <4>2. CASE ~(t = d.token /\ Throttled(d))
        BY <1>10, <4>2
      <4> QED
        BY <4>1, <4>2
    <3> QED
      BY <2>1, <3>1, <3>2
  <2> QED
    BY <2>3, <2>4
<1>12. Remembers(r.state, M, time)
  BY <1>2, <1>3, <1>8, <1>9, <1>10, <1>11 DEF Remembers, stamps, added
<1> QED
  BY <1>7, <1>12 DEF M, e

\* The log with what a batch adds to it.
Extended(L, emitted, time) == L \o [i \in DOMAIN emitted |-> EntryOf(emitted[i], time)]

LEMMA ExtendedByNone ==
  ASSUME NEW L \in Seq(Entries), NEW time
  PROVE  Extended(L, <<>>, time) = L
<1> DEFINE none == [i \in DOMAIN <<>> |-> EntryOf(<<>>[i], time)]
<1>1. DOMAIN <<>> = {} /\ none = <<>>
  OBVIOUS
<1> HIDE DEF none
<1>2. L \o none = L
  BY <1>1, ConcatEmptySeq
<1> QED
  BY <1>2 DEF Extended, none

LEMMA ExtendedByOne ==
  ASSUME NEW L \in Seq(Entries), NEW D, AllEmittable(D), NEW emitted \in Seq(D),
         NEW d \in D, NEW time \in Nat
  PROVE  /\ Extended(L, emitted, time) \in Seq(Entries)
         /\ Extended(L, Append(emitted, d), time)
               = Append(Extended(L, emitted, time), EntryOf(d, time))
<1> DEFINE more == Append(emitted, d)
           p == [i \in DOMAIN emitted |-> EntryOf(emitted[i], time)]
           q == [i \in DOMAIN more |-> EntryOf(more[i], time)]
           e == EntryOf(d, time)
           n == Len(L)
           m == Len(emitted)
<1>1. /\ n \in Nat /\ m \in Nat /\ DOMAIN emitted = 1..m /\ DOMAIN more = 1..(m + 1)
      /\ \A i \in 1..m : more[i] = emitted[i] /\ emitted[i] \in D
      /\ more[m + 1] = d
  OBVIOUS
<1>2. e \in Entries /\ \A i \in 1..m : EntryOf(emitted[i], time) \in Entries
  BY <1>1, EntryIsOne DEF AllEmittable
<1> HIDE DEF more, e, n, m
<1>3. \A i \in 1..(m + 1) : i \in 1..m \/ i = m + 1
  BY <1>1
<1>4. p \in [1..m -> Entries] /\ q \in [1..(m + 1) -> Entries]
  BY <1>1, <1>2, <1>3 DEF e
<1>5. /\ \A i \in 1..m : q[i] = p[i]
      /\ q[m + 1] = e
  <2>1. m + 1 \in DOMAIN more /\ \A i \in 1..m : i \in DOMAIN more
    BY <1>1
  <2> QED
    BY <1>1, <2>1 DEF e
<1> HIDE DEF p, q
<1>6. p \in Seq(Entries) /\ Len(p) = m /\ q \in Seq(Entries) /\ Len(q) = m + 1
  BY <1>1, <1>4
<1>7. /\ L \o p \in Seq(Entries) /\ Len(L \o p) = n + m
      /\ \A i \in 1..(n + m) : (L \o p)[i] = IF i <= n THEN L[i] ELSE p[i - n]
  BY <1>6, ConcatProperties DEF n
<1>8. /\ L \o q \in Seq(Entries) /\ Len(L \o q) = n + (m + 1)
      /\ \A i \in 1..(n + (m + 1)) : (L \o q)[i] = IF i <= n THEN L[i] ELSE q[i - n]
  <2>1. /\ L \o q \in Seq(Entries) /\ Len(L \o q) = Len(L) + Len(q)
        /\ \A i \in 1..(Len(L) + Len(q)) :
              (L \o q)[i] = IF i <= Len(L) THEN L[i] ELSE q[i - Len(L)]
    BY <1>6, ConcatProperties
  <2>2. Len(L) = n /\ Len(q) = m + 1
    BY <1>6 DEF n
  <2> QED
    BY <2>1, <2>2, Zenon
<1> DEFINE u == L \o p
           v == L \o q
           w == Append(u, e)
<1>9. /\ w \in Seq(Entries) /\ Len(w) = (n + m) + 1 /\ w[(n + m) + 1] = e
      /\ \A i \in 1..(n + m) : w[i] = u[i]
  BY <1>1, <1>2, <1>7
<1> HIDE DEF u, v, w
<1>10. n + (m + 1) = (n + m) + 1
  BY <1>1
<1>11. ASSUME NEW i \in 1..((n + m) + 1) PROVE v[i] = w[i]
  <2>1. CASE i \in 1..n
    <3>1. i <= n /\ i \in 1..(n + m) /\ i \in 1..(n + (m + 1))
      BY <1>1, <2>1
    <3>2. u[i] = L[i] /\ v[i] = L[i] /\ w[i] = u[i]
      BY <1>7, <1>8, <1>9, <3>1 DEF u, v
    <3> QED
      BY <3>2
  <2>2. CASE i \notin 1..n /\ i \in 1..(n + m)
    <3>1. i - n \in 1..m /\ ~(i <= n) /\ i \in 1..(n + (m + 1))
      BY <1>1, <2>2
    <3>2. u[i] = p[i - n] /\ v[i] = q[i - n] /\ w[i] = u[i]
      BY <1>7, <1>8, <1>9, <2>2, <3>1 DEF u, v
    <3> QED
      BY <1>5, <3>1, <3>2
  <2>3. CASE i = (n + m) + 1
    <3>1. i - n = m + 1 /\ ~(i <= n) /\ i \in 1..(n + (m + 1))
      BY <1>1, <2>3
    <3>2. v[i] = q[i - n] /\ w[i] = e
      BY <1>8, <1>9, <2>3, <3>1 DEF v
    <3> QED
      BY <1>5, <3>1, <3>2
  <2>4. i \in 1..(n + m) \/ i = (n + m) + 1
    BY <1>1
  <2> QED
    BY <2>1, <2>2, <2>3, <2>4
<1>12. v = w
  BY <1>8, <1>9, <1>10, <1>11, SeqEqual DEF v
<1> QED
  BY <1>7, <1>12 DEF Extended, u, v, w, p, q, e, more

\* What stage 1 and stage 2 make of a batch, with a moment that ended at before and now
\* ends at after: nothing but HIGH events in a moment, and none after a FILTER_FIRED.
Calm(batch, before, after, time) ==
    /\ after \in Nat /\ before <= after /\ after <= time + FilterMomentWindow
    /\ \A k \in DOMAIN batch : PriorityOf(batch[k]) # "HIGH" => before <= time
    /\ \A i, k \in DOMAIN batch :
          (i < k /\ batch[i].type = "FILTER_FIRED" /\ PriorityOf(batch[k]) # "HIGH") =>
             FilterMomentWindow = 0
    /\ (\E k \in DOMAIN batch : batch[k].type = "FILTER_FIRED") =>
          after = time + FilterMomentWindow

LEMMA ScreenCalm ==
  ASSUME NEW D, NEW d \in D, NEW time \in Nat, NEW acc, acc.kept \in Seq(D),
         NEW before \in Nat, Calm(acc.kept, before, acc.endsAt, time),
         NEW r, r = Screen(time, acc, d)
  PROVE  r.kept \in Seq(D) /\ Calm(r.kept, before, r.endsAt, time)
<1>1. CASE time < acc.endsAt /\ PriorityOf(d) # "HIGH"
  BY <1>1 DEF Screen
<1>2. CASE ~(time < acc.endsAt /\ PriorityOf(d) # "HIGH")
  <2> DEFINE s == acc.kept
             u == Append(s, d)
             n == Len(s)
             after == IF d.type = "FILTER_FIRED" THEN time + FilterMomentWindow ELSE acc.endsAt
  <2>1. r.kept = u /\ r.endsAt = after
    BY <1>2 DEF Screen
  <2>2. /\ n \in Nat /\ DOMAIN s = 1..n /\ DOMAIN u = 1..(n + 1) /\ u \in Seq(D)
        /\ u[n + 1] = d /\ \A i \in 1..n : u[i] = s[i]
    OBVIOUS
  <2>3. /\ acc.endsAt \in Nat /\ before <= acc.endsAt
        /\ acc.endsAt <= time + FilterMomentWindow
    BY DEF Calm
  <2>4. PriorityOf(d) # "HIGH" => acc.endsAt <= time
    BY <1>2, <2>3
  <2>5. after \in Nat /\ before <= after /\ after <= time + FilterMomentWindow
    BY <2>3, PipelineConstants
  <2> HIDE DEF u, n
  <2>6. \A k \in DOMAIN u : k \in 1..n \/ k = n + 1
    BY <2>2
  <2>7. ASSUME NEW k \in DOMAIN u, PriorityOf(u[k]) # "HIGH" PROVE before <= time
    <3>1. CASE k \in 1..n
      BY <2>2, <2>7, <3>1 DEF Calm
    <3>2. CASE k = n + 1
      BY <2>2, <2>3, <2>4, <2>7, <3>2
    <3> QED
      BY <2>6, <3>1, <3>2
  <2>8. ASSUME NEW i \in DOMAIN u, NEW k \in DOMAIN u, i < k, u[i].type = "FILTER_FIRED",
               PriorityOf(u[k]) # "HIGH"
        PROVE  FilterMomentWindow = 0
    <3>1. i \in 1..n /\ u[i] = s[i]
      BY <2>2, <2>8
    <3>2. CASE k \in 1..n
      BY <2>2, <2>8, <3>1, <3>2 DEF Calm
    <3>3. CASE k = n + 1
      <4>1. acc.endsAt = time + FilterMomentWindow
        BY <2>2, <2>8, <3>1 DEF Calm
      <4>2. acc.endsAt <= time
        BY <2>2, <2>4, <2>8, <3>3
      <4> QED
        BY <4>1, <4>2, PipelineConstants
    <3> QED
      BY <2>6, <3>2, <3>3
  <2>9. ASSUME NEW k \in DOMAIN u, u[k].type = "FILTER_FIRED"
        PROVE  after = time + FilterMomentWindow
    <3>1. CASE k \in 1..n
      BY <2>2, <2>9, <3>1 DEF Calm
    <3>2. CASE k = n + 1
      BY <2>2, <2>9, <3>2
    <3> QED
      BY <2>6, <3>1, <3>2
  <2>10. Calm(u, before, after, time)
    BY <2>5, <2>7, <2>8, <2>9 DEF Calm
  <2> QED
    BY <2>1, <2>2, <2>10
<1> QED
  BY <1>1, <1>2

LEMMA FilterMomentCalms ==
  ASSUME NEW D, NEW s \in Seq(D), NEW time \in Nat, NEW state, state.filterMomentEndsAt \in Nat,
         state.filterMomentEndsAt <= time + FilterMomentWindow, NEW r,
         r = FilterMoment(state, s, time)
  PROVE  r.kept \in Seq(D) /\ Calm(r.kept, state.filterMomentEndsAt, r.endsAt, time)
<1> DEFINE n == Len(s)
           before == state.filterMomentEndsAt
<1>1. n \in Nat /\ \A i \in 1..n : s[i] \in D
  OBVIOUS
<1>2. PICK run : /\ run[0] = [endsAt |-> before, kept |-> <<>>]
                 /\ \A i \in 1..n : run[i] = Screen(time, run[i - 1], s[i])
                 /\ r = run[n]
  BY FilterMomentRun
<1> HIDE DEF n, before
<1> DEFINE Good(i) == run[i].kept \in Seq(D) /\ Calm(run[i].kept, before, run[i].endsAt, time)
           good == {i \in 0..n : Good(i)}
<1>3. before \in Nat /\ before <= time + FilterMomentWindow
  BY DEF before
<1>4. Good(0)
  BY <1>2, <1>3 DEF Calm
<1>5. ASSUME NEW i \in 1..n, Good(i - 1) PROVE Good(i)
  BY <1>1, <1>2, <1>3, <1>5, ScreenCalm
<1> HIDE DEF Good
<1>6. 0 \in good /\ \A i \in 1..n : i - 1 \in good => i \in good
  BY <1>1, <1>4, <1>5
<1>7. Good(n)
  BY <1>1, <1>6, StepByStep
<1> QED
  BY <1>2, <1>7 DEF Good, before

LEMMA SuppressLowCalms ==
  ASSUME NEW D, NEW s \in Seq(D), NEW before, NEW after, NEW time, Calm(s, before, after, time)
  PROVE  SuppressLow(s) \in Seq(D) /\ Calm(SuppressLow(s), before, after, time)
<1> DEFINE S == {d \in ToSet(s) : PriorityOf(d) # "LOW"}
           u == Those(s, S)
<1>1. SuppressLow(s) = u \/ SuppressLow(s) = s
  BY DEF SuppressLow
<1> HIDE DEF S
<1>2. u \in Seq(D) /\ \E h : Picks(h, u, s, S, Len(s))
  BY ThosePicks
<1>3. PICK h : Picks(h, u, s, S, Len(s))
  BY <1>2
<1> HIDE DEF u
<1>4. DOMAIN u = 1..Len(u) /\ DOMAIN s = 1..Len(s)
  BY <1>2
<1>5. /\ \A i \in DOMAIN u : h[i] \in DOMAIN s /\ u[i] = s[h[i]]
      /\ \A i, k \in DOMAIN u : i < k => h[i] < h[k]
  BY <1>3, <1>4 DEF Picks
<1>6. Calm(u, before, after, time)
  BY <1>5 DEF Calm
<1> QED
  BY <1>1, <1>2, <1>6

\* The log's FILTER_FIRED events are of earlier batches, or of those of this one so far.
Dated(L, before, time, batch, i) ==
    \A j \in DOMAIN L : L[j].type = "FILTER_FIRED" =>
       \/ L[j].at + FilterMomentWindow <= before
       \/ L[j].at = time /\ \E l \in 1..i : batch[l].type = "FILTER_FIRED"

LEMMA EmitOne ==
  ASSUME NEW D, AllEmittable(D), NEW batch \in Seq(D), NEW i \in 1..Len(batch),
         NEW time \in Nat, NEW before \in Nat, NEW after, Calm(batch, before, after, time),
         NEW acc, acc.emitted \in Seq(D), NEW L \in Seq(Entries), NEW M,
         M = Extended(L, acc.emitted, time), Remembers(acc.state, M, time), Spaced(M),
         Dated(M, before, time, batch, i - 1), NEW r, r = Emit(acc, batch[i], time), r # acc
  PROVE  LET N == Extended(L, r.emitted, time)
         IN  /\ r.emitted \in Seq(D) /\ Remembers(r.state, N, time) /\ Spaced(N)
             /\ Dated(N, before, time, batch, i)
             /\ r.state.filterMomentEndsAt = acc.state.filterMomentEndsAt
<1> DEFINE d == batch[i]
           e == EntryOf(d, time)
           N == Append(M, e)
           n == Len(M)
<1>1. d \in D /\ Emittable(d) /\ i \in DOMAIN batch /\ i \in Nat /\ DOMAIN batch = 1..Len(batch)
  BY DEF AllEmittable
<1>2. LetThrough(acc, d, time, r)
  BY Emitted DEF Remembers
<1>3. r.emitted = Append(acc.emitted, d) /\ r.emitted \in Seq(D)
      /\ r.state.filterMomentEndsAt = acc.state.filterMomentEndsAt
  BY <1>1, <1>2 DEF LetThrough
<1>4. M \in Seq(Entries) /\ Extended(L, r.emitted, time) = N
  <2> DEFINE emitted == acc.emitted
  <2>1. emitted \in Seq(D) /\ M = Extended(L, emitted, time) /\ r.emitted = Append(emitted, d)
    BY <1>3
  <2> HIDE DEF emitted, d
  <2>2. d \in D
    BY <1>1
  <2>3. L \in Seq(Entries) /\ AllEmittable(D) /\ emitted \in Seq(D) /\ time \in Nat
    BY <2>1
  <2>4. /\ Extended(L, emitted, time) \in Seq(Entries)
        /\ Extended(L, Append(emitted, d), time)
              = Append(Extended(L, emitted, time), EntryOf(d, time))
    BY <2>2, <2>3, ExtendedByOne, Zenon
  <2> QED
    BY <2>1, <2>4
<1>5. \A j \in DOMAIN M : M[j].at \in Nat
  BY <1>4, LogFields
<1>6. ASSUME NEW j \in DOMAIN M, M[j].type = "FILTER_FIRED", time - M[j].at < FilterMomentWindow,
             PriorityOf(d) # "HIGH"
      PROVE  FALSE
  <2>1. before <= time
    BY <1>1, <1>6 DEF Calm
  <2>2. CASE M[j].at + FilterMomentWindow <= before
    BY <1>5, <1>6, <2>1, <2>2, PipelineConstants
  <2>3. CASE M[j].at = time /\ \E l \in 1..(i - 1) : batch[l].type = "FILTER_FIRED"
    <3>1. PICK l \in 1..(i - 1) : batch[l].type = "FILTER_FIRED"
      BY <2>3
    <3>2. l \in DOMAIN batch /\ l < i
      BY <1>1
    <3>3. FilterMomentWindow = 0
      BY <1>1, <1>6, <3>1, <3>2 DEF Calm
    <3> QED
      BY <1>6, <2>3, <3>3
  <2> QED
    BY <1>6, <2>2, <2>3 DEF Dated
<1> HIDE DEF d
<1>7. Spaced(N) /\ Remembers(r.state, N, time)
  BY <1>1, <1>6, EmitKeeps DEF d
<1>8. Dated(N, before, time, batch, i)
  <2>1. /\ n \in Nat /\ DOMAIN M = 1..n /\ DOMAIN N = 1..(n + 1) /\ N[n + 1] = e
        /\ \A j \in 1..n : N[j] = M[j]
        /\ \A j \in 1..(n + 1) : j \in 1..n \/ j = n + 1
    BY <1>4
  <2>2. e.at = time /\ e.type = batch[i].type
    BY DEF EntryOf, d
  <2>3. \A l \in 1..(i - 1) : l \in 1..i
    BY <1>1
  <2> HIDE DEF N, n, e
  <2> SUFFICES ASSUME NEW j \in DOMAIN N, N[j].type = "FILTER_FIRED"
               PROVE  \/ N[j].at + FilterMomentWindow <= before
                      \/ N[j].at = time /\ \E l \in 1..i : batch[l].type = "FILTER_FIRED"
    BY DEF Dated
  <2>4. CASE j \in 1..n
    BY <2>1, <2>3, <2>4 DEF Dated
  <2>5. CASE j = n + 1
    <3>1. i \in 1..i
      BY <1>1
    <3> QED
      BY <2>1, <2>2, <2>5, <3>1
  <2> QED
    BY <2>1, <2>4, <2>5
<1> QED
  BY <1>3, <1>4, <1>7, <1>8

LEMMA EmitAllKeeps ==
  ASSUME NEW D, AllEmittable(D), NEW batch \in Seq(D), NEW time \in Nat,
         NEW before \in Nat, NEW after, Calm(batch, before, after, time),
         NEW state, NEW L, Remembers(state, L, time), Spaced(L), Silences(before, L, time),
         state.filterMomentEndsAt = after, NEW r,
         r = EmitAll(time, [state |-> state, emitted |-> <<>>], batch)
  PROVE  LET M == Extended(L, r.emitted, time)
         IN  /\ r.emitted \in Seq(D) /\ Remembers(r.state, M, time) /\ Spaced(M)
             /\ r.state.filterMomentEndsAt = after /\ Silences(after, M, time)
<1> DEFINE n == Len(batch)
           base == [state |-> state, emitted |-> <<>>]
<1>1. n \in Nat /\ DOMAIN batch = 1..n /\ L \in Seq(Entries)
  BY DEF Remembers
<1>2. PICK run : /\ run[0] = base
                 /\ \A i \in 1..n : run[i] = Emit(run[i - 1], batch[i], time)
                 /\ r = run[n]
  BY EmitRun
<1> DEFINE M(i) == Extended(L, run[i].emitted, time)
           Good(i) == /\ run[i].emitted \in Seq(D) /\ Remembers(run[i].state, M(i), time)
                      /\ Spaced(M(i)) /\ run[i].state.filterMomentEndsAt = after
                      /\ Dated(M(i), before, time, batch, i)
           good == {i \in 0..n : Good(i)}
<1>3. Good(0)
  <2>1. run[0].state = state /\ run[0].emitted = <<>>
    BY <1>2
  <2>2. M(0) = L
    BY <1>1, <2>1, ExtendedByNone
  <2>3. Dated(L, before, time, batch, 0)
    BY DEF Dated, Silences
  <2> QED
    BY <2>1, <2>2, <2>3
<1>4. ASSUME NEW i \in 1..n, Good(i - 1) PROVE Good(i)
  <2>1. run[i] = Emit(run[i - 1], batch[i], time)
    BY <1>2
  <2>2. CASE run[i] = run[i - 1]
    <3>1. \A l \in 1..(i - 1) : l \in 1..i
      BY <1>1
    <3>2. Dated(M(i), before, time, batch, i)
      BY <1>4, <2>2, <3>1 DEF Dated
    <3> QED
      BY <1>4, <2>2, <3>2
  <2>3. CASE run[i] # run[i - 1]
    <3> DEFINE acc == run[i - 1]
               next == run[i]
    <3>1. /\ acc.emitted \in Seq(D) /\ Remembers(acc.state, Extended(L, acc.emitted, time), time)
          /\ Spaced(Extended(L, acc.emitted, time)) /\ acc.state.filterMomentEndsAt = after
          /\ Dated(Extended(L, acc.emitted, time), before, time, batch, i - 1)
      BY <1>4
    <3>2. next = Emit(acc, batch[i], time) /\ next # acc
      BY <2>1, <2>3
    <3> HIDE DEF acc, next
    <3>3. LET N == Extended(L, next.emitted, time)
          IN  /\ next.emitted \in Seq(D) /\ Remembers(next.state, N, time) /\ Spaced(N)
              /\ Dated(N, before, time, batch, i)
              /\ next.state.filterMomentEndsAt = acc.state.filterMomentEndsAt
      BY <1>1, <3>1, <3>2, EmitOne
    <3> QED
      BY <3>1, <3>3 DEF next
  <2> QED
    BY <2>2, <2>3
<1> HIDE DEF Good
<1>5. 0 \in good /\ \A i \in 1..n : i - 1 \in good => i \in good
  BY <1>1, <1>3, <1>4
<1>6. Good(n)
  BY <1>1, <1>5, StepByStep
<1>7. Silences(after, M(n), time)
  <2>1. M(n) \in Seq(Entries) /\ Dated(M(n), before, time, batch, n)
    BY <1>6 DEF Good, Remembers
  <2> HIDE DEF M
  <2>2. /\ after \in Nat /\ before <= after /\ after <= time + FilterMomentWindow
        /\ (\E k \in 1..n : batch[k].type = "FILTER_FIRED") => after = time + FilterMomentWindow
    BY <1>1 DEF Calm
  <2>3. ASSUME NEW j \in DOMAIN M(n), M(n)[j].type = "FILTER_FIRED"
        PROVE  M(n)[j].at + FilterMomentWindow <= after
    <3>1. M(n)[j].at \in Nat
      BY <2>1, LogFields
    <3>2. \/ M(n)[j].at + FilterMomentWindow <= before
          \/ M(n)[j].at = time /\ after = time + FilterMomentWindow
      BY <2>1, <2>2, <2>3 DEF Dated
    <3> QED
      BY <2>2, <3>1, <3>2, PipelineConstants
  <2> QED
    BY <2>2, <2>3 DEF Silences
<1> QED
  BY <1>2, <1>6, <1>7 DEF Good

\* The pipeline as a whole: what it lets through leaves the log spaced.
LEMMA PipelineKeeps ==
  ASSUME NEW D, AllEmittable(D), NEW detected \in Seq(D), NEW time \in Nat, NEW state, NEW L,
         Remembers(state, L, time), Spaced(L), Silences(state.filterMomentEndsAt, L, time),
         NEW r, r = RunPipeline(state, detected, time)
  PROVE  LET M == Extended(L, r.emitted, time)
         IN  /\ Remembers(r.state, M, time) /\ Spaced(M)
             /\ Silences(r.state.filterMomentEndsAt, M, time)
<1> DEFINE pruned == Prune(state, time)
           before == state.filterMomentEndsAt
           stage1 == FilterMoment(pruned, detected, time)
           after == stage1.endsAt
           stage2 == SuppressLow(stage1.kept)
           armed == [pruned EXCEPT !.filterMomentEndsAt = after]
           stage3 == EmitAll(time, [state |-> armed, emitted |-> <<>>], stage2)
<1>1. r = [state |-> stage3.state, emitted |-> stage3.emitted]
  BY DEF RunPipeline, EmitAll
<1>2. Remembers(pruned, L, time) /\ pruned.filterMomentEndsAt = before
  BY PruneRemembers
<1>3. before \in Nat /\ before <= time + FilterMomentWindow
  BY DEF Silences
<1> HIDE DEF pruned, before
<1>4. stage1.kept \in Seq(D) /\ Calm(stage1.kept, before, after, time)
  BY <1>2, <1>3, FilterMomentCalms
<1> HIDE DEF stage1
<1>5. stage2 \in Seq(D) /\ Calm(stage2, before, after, time)
  BY <1>4, SuppressLowCalms
<1>6. Remembers(armed, L, time) /\ armed.filterMomentEndsAt = after
  BY <1>2 DEF Remembers
<1> HIDE DEF after, stage2, armed
<1>7. Silences(before, L, time)
  BY DEF before
<1>8. LET M == Extended(L, stage3.emitted, time)
      IN  /\ stage3.emitted \in Seq(D) /\ Remembers(stage3.state, M, time) /\ Spaced(M)
          /\ stage3.state.filterMomentEndsAt = after /\ Silences(after, M, time)
  BY <1>3, <1>5, <1>6, <1>7, EmitAllKeeps
<1> HIDE DEF stage3
<1> QED
  BY <1>1, <1>8

(***************************************************************************)
(* What is detected is for the pipeline                                    *)
(***************************************************************************)

\* A sequence of events, of some types, for the pipeline.
IsBatch(s, T) == s \in Seq(ToSet(s)) /\ \A d \in ToSet(s) : Emittable(d) /\ d.type \in T

LEMMA NoneIsBatch ==
  ASSUME NEW T
  PROVE  IsBatch(<<>>, T)
BY DEF IsBatch, ToSet

LEMMA OneIsBatch ==
  ASSUME NEW T, NEW d, Emittable(d), d.type \in T
  PROVE  IsBatch(<<d>>, T)
<1>1. ToSet(<<d>>) = {d}
  BY DEF ToSet
<1>2. <<d>> \in Seq({d})
  OBVIOUS
<1> QED
  BY <1>1, <1>2 DEF IsBatch

LEMMA BatchWidens ==
  ASSUME NEW T, NEW U, T \subseteq U, NEW s, IsBatch(s, T)
  PROVE  IsBatch(s, U)
BY DEF IsBatch

LEMMA BatchesJoin ==
  ASSUME NEW T, NEW p, NEW q, IsBatch(p, T), IsBatch(q, T)
  PROVE  IsBatch(p \o q, T)
<1> DEFINE D == ToSet(p) \cup ToSet(q)
<1>1. p \in Seq(D) /\ q \in Seq(D)
  BY SeqMonotonic DEF IsBatch
<1>2. \A d \in D : Emittable(d) /\ d.type \in T
  BY DEF IsBatch
<1> HIDE DEF D
<1>3. p \o q \in Seq(D) /\ ToSet(p \o q) = D
  BY <1>1, ElemsJoin DEF D
<1> QED
  BY <1>2, <1>3 DEF IsBatch

\* What FlattenSeq recurses along.
Flattens(h, seqs, n) ==
    h = [i \in 1..n |-> IF i = 1 THEN seqs[i] ELSE h[i - 1] \o seqs[i]]

LEMMA FlattenExists ==
  ASSUME NEW seqs, NEW n \in Nat
  PROVE  \E h : Flattens(h, seqs, n)
<1> DEFINE Flat(k) == \E h : Flattens(h, seqs, k)
           flat == {k \in 0..n : Flat(k)}
<1>1. Flat(0)
  <2>1. Flattens([i \in 1..0 |-> seqs[i]], seqs, 0)
    BY 1..0 = {} DEF Flattens
  <2> QED
    BY <2>1
<1>2. ASSUME NEW k \in 1..n, Flat(k - 1) PROVE Flat(k)
  <2>1. PICK g : Flattens(g, seqs, k - 1)
    BY <1>2
  <2> DEFINE h == [i \in 1..k |-> IF i = 1 THEN seqs[i] ELSE g[i - 1] \o seqs[i]]
  <2>2. \A i \in 1..k : i # 1 => i - 1 \in 1..k /\ i - 1 \in 1..(k - 1)
    OBVIOUS
  <2> DEFINE m == k - 1
  <2>3. 1..m \subseteq 1..k
    OBVIOUS
  <2> HIDE DEF m
  <2>4. \A i \in 1..m : g[i] = IF i = 1 THEN seqs[i] ELSE g[i - 1] \o seqs[i]
    BY <2>1 DEF Flattens, m
  <2>5. \A i \in 1..m : h[i] = g[i]
    BY <2>3, <2>4
  <2>6. h = [i \in 1..k |-> IF i = 1 THEN seqs[i] ELSE h[i - 1] \o seqs[i]]
    BY <2>2, <2>5 DEF m
  <2> QED
    BY <2>6 DEF Flattens
<1> HIDE DEF Flat
<1>3. 0 \in flat /\ \A k \in 1..n : k - 1 \in flat => k \in flat
  BY <1>1, <1>2
<1> QED
  BY <1>3, StepByStep DEF Flat

LEMMA BatchesFlatten ==
  ASSUME NEW T, NEW n \in Nat, NEW seqs, DOMAIN seqs = 1..n, seqs = [i \in 1..n |-> seqs[i]],
         \A i \in 1..n : IsBatch(seqs[i], T)
  PROVE  IsBatch(FlattenSeq(seqs), T)
<1>1. Len(seqs) = n /\ (n = 0 => seqs = <<>>)
  <2>1. seqs \in Seq({seqs[i] : i \in 1..n})
    OBVIOUS
  <2> QED
    BY <2>1
<1>2. CASE n = 0
  BY <1>1, <1>2, NoneIsBatch DEF FlattenSeq
<1>3. CASE n # 0
  <2> DEFINE h == CHOOSE g : Flattens(g, seqs, n)
             good == {i \in 0..n : i = 0 \/ IsBatch(h[i], T)}
  <2>1. FlattenSeq(seqs) = h[n]
    BY <1>1, <1>3 DEF FlattenSeq, Flattens
  <2>2. Flattens(h, seqs, n)
    BY FlattenExists
  <2> HIDE DEF h
  <2>3. ASSUME NEW i \in 1..n, i - 1 \in good PROVE i \in good
    <3>1. h[i] = IF i = 1 THEN seqs[i] ELSE h[i - 1] \o seqs[i]
      BY <2>2 DEF Flattens
    <3>2. i # 1 => IsBatch(h[i - 1], T)
      BY <2>3
    <3>3. IsBatch(h[i], T)
      BY <3>1, <3>2, BatchesJoin
    <3> QED
      BY <3>3
  <2>4. 0 \in good
    OBVIOUS
  <2>5. n \in good
    BY <2>3, <2>4, StepByStep
  <2> QED
    BY <1>3, <2>1, <2>5
<1> QED
  BY <1>2, <1>3

\* The rows of the tokens, in whatever order the tables give them.
LEMMA RowsOf ==
  ASSUME NEW T, T \subseteq Tokens
  PROVE  /\ DOMAIN SetToSeq(T) = 1..Len(SetToSeq(T)) /\ Len(SetToSeq(T)) \in Nat
         /\ \A i \in DOMAIN SetToSeq(T) : SetToSeq(T)[i] \in Tokens
<1>1. IsFiniteSet(T)
  BY TickConstants, FS_Subset
<1>2. SetToSeq(T) \in Seq(T)
  BY <1>1, SetToSeqCovers
<1> QED
  BY <1>2

LEMMA DetectedIsBatch ==
  ASSUME NEW T, NEW type \in EventTypes \cap T, NEW t \in Tokens \cup {NoToken}
  PROVE  IsBatch(<<Detected(type, t)>>, T)
<1>1. Emittable(Detected(type, t)) /\ Detected(type, t).type = type
  BY DEF Detected, Emittable
<1> QED
  BY <1>1, OneIsBatch

\* The events that neither eliminate a token nor announce a cut.
Quiet == EventTypes \ {"FILTER_FIRED", "FILTER_COUNTDOWN"}

LEMMA RankIsBatch ==
  ASSUME NEW prev, NEW cur, NEW t \in Tokens
  PROVE  IsBatch(DetectRankAndCutLine(prev, cur, t), Quiet)
<1>1. IsBatch(<<Detected("CUT_LINE_CROSSED", t)>>, Quiet)
      /\ IsBatch(<<Detected("RANK_CHANGED", t)>>, Quiet)
  BY DetectedIsBatch DEF Quiet, EventTypes, HighTypes, MediumTypes
<1> HIDE DEF RankOf
<1>2. DetectRankAndCutLine(prev, cur, t) \in
         {<<>>, <<Detected("CUT_LINE_CROSSED", t)>>, <<Detected("RANK_CHANGED", t)>>}
  BY Zenon DEF DetectRankAndCutLine
<1> QED
  BY <1>1, <1>2, NoneIsBatch, Zenon

LEMMA SpikeIsBatch ==
  ASSUME NEW prev, NEW spikes, NEW type \in {"HP_SPIKE", "VOLUME_SPIKE"}, NEW t \in Tokens
  PROVE  IsBatch(DetectSpike(prev, spikes, type, t), Quiet)
BY DetectedIsBatch, NoneIsBatch DEF DetectSpike, Quiet, EventTypes, MediumTypes

LEMMA TradeIsBatch ==
  ASSUME NEW cur, cur.tokens \subseteq Tokens, NEW trade
  PROVE  IsBatch(DetectLargeTrade(cur, trade), Quiet)
<1> DEFINE near == LET rank == RankOf(cur, trade.token)
                   IN  rank + NearAbove >= CutLine /\ rank <= CutLine + NearBelow
           d == [type |-> "LARGE_TRADE", token |-> trade.token, trade |-> trade.id,
                 nearCut |-> near]
<1>1. DetectLargeTrade(cur, trade) = IF trade.token \notin cur.tokens THEN <<>> ELSE <<d>>
  BY Zenon DEF DetectLargeTrade
<1> HIDE DEF near
<1>2. ASSUME trade.token \in cur.tokens PROVE IsBatch(<<d>>, Quiet)
  <2>1. Emittable(d) /\ d.type \in Quiet
    BY <1>2 DEF Emittable, EventTypes, Quiet
  <2> HIDE DEF d
  <2> QED
    BY <2>1, OneIsBatch
<1> HIDE DEF d
<1> QED
  BY <1>1, <1>2, NoneIsBatch

LEMMA FilterIsBatch ==
  ASSUME NEW prev, NEW cur, NEW t \in Tokens
  PROVE  IsBatch(DetectFilter(prev, cur, t), {"FILTER_FIRED"})
BY DetectedIsBatch, NoneIsBatch DEF DetectFilter, EventTypes, HighTypes

LEMMA SeasonIsBatch ==
  ASSUME NEW prev, NEW cur
  PROVE  /\ IsBatch(DetectCountdown(prev, cur), {"FILTER_COUNTDOWN"})
         /\ IsBatch(DetectPhase(prev, cur), Quiet)
<1>1. IsBatch(<<Detected("FILTER_COUNTDOWN", NoToken)>>, {"FILTER_COUNTDOWN"})
      /\ IsBatch(<<Detected("PHASE_ADVANCED", NoToken)>>, Quiet)
  BY DetectedIsBatch DEF EventTypes, HighTypes, MediumTypes, Quiet
<1> QED
  BY <1>1, NoneIsBatch, Zenon DEF DetectCountdown, DetectPhase

\* What the detectors make of the rows, of which no token has two.
FiltersOf(prev, cur) ==
    [i \in DOMAIN SetToSeq(cur.tokens) |-> DetectFilter(prev, cur, SetToSeq(cur.tokens)[i])]

\* Whatever two snapshots differ in, the detectors make events of it.
LEMMA DiffParts ==
  ASSUME NEW prev, NEW cur, cur.tokens \subseteq Tokens, NEW trades, IsFiniteSet(trades),
         NEW spikes
  PROVE  /\ IsBatch(FlattenSeq(FiltersOf(prev, cur)), {"FILTER_FIRED"})
         /\ \E q : /\ IsBatch(q, Quiet)
                   /\ DiffSnapshots(prev, cur, trades, spikes)
                        = q \o FlattenSeq(FiltersOf(prev, cur))
                            \o DetectCountdown(prev, cur) \o DetectPhase(prev, cur)
<1> DEFINE rows == SetToSeq(cur.tokens)
           n == Len(rows)
           m == Cardinality(trades)
           ById == [i \in 1..m |->
                      CHOOSE a \in trades : Cardinality({b \in trades : b.id < a.id}) = i - 1]
           ranks == [i \in DOMAIN rows |-> DetectRankAndCutLine(prev, cur, rows[i])]
           hps == [i \in DOMAIN rows |-> DetectSpike(prev, spikes, "HP_SPIKE", rows[i])]
           volumes == [i \in DOMAIN rows |-> DetectSpike(prev, spikes, "VOLUME_SPIKE", rows[i])]
           large == [i \in DOMAIN ById |-> DetectLargeTrade(cur, ById[i])]
           filters == [i \in DOMAIN rows |-> DetectFilter(prev, cur, rows[i])]
           countdown == DetectCountdown(prev, cur)
           phase == DetectPhase(prev, cur)
<1>1. DiffSnapshots(prev, cur, trades, spikes)
        = FlattenSeq(ranks) \o FlattenSeq(hps) \o FlattenSeq(volumes) \o FlattenSeq(large)
             \o FlattenSeq(filters) \o countdown \o phase
  BY DEF DiffSnapshots
<1>2. n \in Nat /\ DOMAIN rows = 1..n /\ \A i \in 1..n : rows[i] \in Tokens
  BY RowsOf
<1>3. m \in Nat /\ DOMAIN ById = 1..m
  BY FS_CardinalityType
<1>4. filters = FiltersOf(prev, cur)
  BY DEF FiltersOf
<1> HIDE DEF rows, n, m, ById
<1>5. IsBatch(FlattenSeq(ranks), Quiet)
  <2>1. \A i \in 1..n : IsBatch(ranks[i], Quiet)
    BY <1>2, RankIsBatch
  <2>2. DOMAIN ranks = 1..n /\ ranks = [i \in 1..n |-> ranks[i]]
    BY <1>2
  <2> HIDE DEF ranks
  <2> QED
    BY <1>2, <2>1, <2>2, BatchesFlatten
<1>6. IsBatch(FlattenSeq(hps), Quiet)
  <2>1. \A i \in 1..n : IsBatch(hps[i], Quiet)
    BY <1>2, SpikeIsBatch
  <2>2. DOMAIN hps = 1..n /\ hps = [i \in 1..n |-> hps[i]]
    BY <1>2
  <2> HIDE DEF hps
  <2> QED
    BY <1>2, <2>1, <2>2, BatchesFlatten
<1>7. IsBatch(FlattenSeq(volumes), Quiet)
  <2>1. \A i \in 1..n : IsBatch(volumes[i], Quiet)
    BY <1>2, SpikeIsBatch
  <2>2. DOMAIN volumes = 1..n /\ volumes = [i \in 1..n |-> volumes[i]]
    BY <1>2
  <2> HIDE DEF volumes
  <2> QED
    BY <1>2, <2>1, <2>2, BatchesFlatten
<1>8. IsBatch(FlattenSeq(large), Quiet)
  <2>1. \A i \in 1..m : IsBatch(large[i], Quiet)
    BY <1>3, TradeIsBatch
  <2>2. DOMAIN large = 1..m /\ large = [i \in 1..m |-> large[i]]
    BY <1>3
  <2> HIDE DEF large
  <2> QED
    BY <1>3, <2>1, <2>2, BatchesFlatten
<1>9. IsBatch(FlattenSeq(filters), {"FILTER_FIRED"})
  <2>1. \A i \in 1..n : IsBatch(filters[i], {"FILTER_FIRED"})
    BY <1>2, FilterIsBatch
  <2>2. DOMAIN filters = 1..n /\ filters = [i \in 1..n |-> filters[i]]
    BY <1>2
  <2> HIDE DEF filters
  <2> QED
    BY <1>2, <2>1, <2>2, BatchesFlatten
<1> HIDE DEF ranks, hps, volumes, large, filters, countdown, phase
<1> DEFINE a == FlattenSeq(ranks)
           b == FlattenSeq(hps)
           c == FlattenSeq(volumes)
           d == FlattenSeq(large)
           e == FlattenSeq(filters)
<1>10. IsBatch(a, Quiet) /\ IsBatch(b, Quiet) /\ IsBatch(c, Quiet) /\ IsBatch(d, Quiet)
  BY <1>5, <1>6, <1>7, <1>8
<1>11. DiffSnapshots(prev, cur, trades, spikes) = a \o b \o c \o d \o e \o countdown \o phase
  BY <1>1
<1> HIDE DEF a, b, c, d
<1>12. IsBatch(a \o b \o c \o d, Quiet)
  BY <1>10, BatchesJoin
<1>13. \E q : IsBatch(q, Quiet)
             /\ DiffSnapshots(prev, cur, trades, spikes) = q \o e \o countdown \o phase
  BY <1>11, <1>12
<1> HIDE DEF e
<1>14. e = FlattenSeq(FiltersOf(prev, cur)) /\ IsBatch(e, {"FILTER_FIRED"})
  BY <1>4, <1>9 DEF e
<1> QED
  BY <1>13, <1>14 DEF countdown, phase

LEMMA DiffIsBatch ==
  ASSUME NEW prev, NEW cur, cur.tokens \subseteq Tokens, NEW trades, IsFiniteSet(trades),
         NEW spikes
  PROVE  IsBatch(DiffSnapshots(prev, cur, trades, spikes), EventTypes)
<1> DEFINE f == FlattenSeq(FiltersOf(prev, cur))
           c == DetectCountdown(prev, cur)
           p == DetectPhase(prev, cur)
<1>1. PICK q : IsBatch(q, Quiet) /\ DiffSnapshots(prev, cur, trades, spikes) = q \o f \o c \o p
  BY DiffParts
<1>2. IsBatch(f, {"FILTER_FIRED"}) /\ IsBatch(c, {"FILTER_COUNTDOWN"}) /\ IsBatch(p, Quiet)
  BY DiffParts, SeasonIsBatch
<1> HIDE DEF f, c, p
<1>3. /\ Quiet \subseteq EventTypes /\ {"FILTER_FIRED"} \subseteq EventTypes
      /\ {"FILTER_COUNTDOWN"} \subseteq EventTypes
  BY DEF Quiet, EventTypes, HighTypes
<1>4. /\ IsBatch(q, EventTypes) /\ IsBatch(f, EventTypes) /\ IsBatch(c, EventTypes)
      /\ IsBatch(p, EventTypes)
  BY <1>1, <1>2, <1>3, BatchWidens
<1> QED
  BY <1>1, <1>4, BatchesJoin

(***************************************************************************)
(* The log stays spaced                                                    *)
(***************************************************************************)

\* Beside TickInv: the pipeline remembers the log and its filter moments; what a tick
\* reads and compares are tokens and finitely many fee rows.
ReadsOK(run) ==
    /\ IsFiniteSet(run.trades)
    /\ (run.at \notin {"idle", "season"}) =>
          "tokens" \in DOMAIN run.current /\ run.current.tokens \subseteq Tokens

EventsInv ==
    /\ TickInv
    /\ Remembers(pipelineState, log, now) /\ Spaced(log)
    /\ Silences(pipelineState.filterMomentEndsAt, log, now)
    /\ {"launched", "trades"} \subseteq DOMAIN db
    /\ db.launched \subseteq Tokens /\ IsFiniteSet(db.trades)
    /\ \A r \in Runs : ReadsOK(runs[r])

LEMMA InitEvents ==
  ASSUME Init
  PROVE  EventsInv
<1>1. Remembers(pipelineState, log, now) /\ Spaced(log)
      /\ Silences(pipelineState.filterMomentEndsAt, log, now)
  <2>1. log = <<>> /\ now = 0 /\ pipelineState = MakeState
    BY DEF Init
  <2>2. \A t \in Tokens, a \in Nat : Charged(<<>>, t, a) = {} /\ Spent(<<>>, a) = {}
    BY DEF Charged, Spent
  <2>3. Remembers(MakeState, <<>>, 0)
    <3> DEFINE s == MakeState
    <3>1. /\ DOMAIN s = {"dedupeSeen", "throttleCounts", "filterMomentEndsAt"}
          /\ s.dedupeSeen = <<>> /\ s.throttleCounts = [t \in Tokens |-> <<>>]
      BY DEF MakeState
    <3> HIDE DEF s
    <3>2. s.throttleCounts \in [Tokens -> Seq(Nat)]
      BY <3>1
    <3>3. DOMAIN s.dedupeSeen = {}
      BY <3>1
    <3>4. \A t \in Tokens, a \in Nat :
             Cardinality(Charged(<<>>, t, a)) <= Cardinality(Spent(s.throttleCounts[t], a))
      <4>1. \A t \in Tokens : s.throttleCounts[t] = <<>>
        BY <3>1
      <4>2. Cardinality({}) <= Cardinality({})
        BY FS_EmptySet
      <4> QED
        BY <2>2, <4>1, <4>2
    <3>5. <<>> \in Seq(Entries) /\ DOMAIN <<>> = {}
      OBVIOUS
    <3>6. Remembers(s, <<>>, 0)
      BY <3>1, <3>2, <3>3, <3>4, <3>5 DEF Remembers
    <3> QED
      BY <3>6 DEF s
  <2>4. Silences(0, <<>>, 0) /\ MakeState.filterMomentEndsAt = 0
    BY PipelineConstants DEF Silences, MakeState
  <2> QED
    BY <2>1, <2>3, <2>4 DEF Spaced
<1>2. {"launched", "trades"} \subseteq DOMAIN db /\ db.launched \subseteq SeasonTokens[1]
      /\ db.trades = {}
  BY DEF Init
<1>3. SeasonTokens[1] \subseteq Tokens
  BY TickConstants DEF LastSeason
<1>4. \A r \in Runs : ReadsOK(runs[r])
  BY FS_EmptySet DEF Init, ReadsOK, Idle
<1> QED
  BY <1>1, <1>2, <1>3, <1>4, InitTick, FS_EmptySet DEF EventsInv

\* The chain writes its tables.
LEMMA ChainEvents ==
  ASSUME EventsInv, Chain, UNCHANGED <<now, engine, history>>,
         DOMAIN db' = DOMAIN db, db'.launched \subseteq Tokens, IsFiniteSet(db'.trades)
  PROVE  EventsInv'
<1>1. TickInv'
  BY QuietTick DEF EventsInv
<1> QED
  BY <1>1 DEF EventsInv, ReadsOK, engine, history

LEMMA TablesEvents ==
  ASSUME EventsInv, \/ \E t \in Tokens : Launch(t) \/ Liquidate(t)
                    \/ \E order \in Orders : Rescore(order)
                    \/ AdvancePhase \/ StartSeason
                    \/ \E t \in Tokens, at \in Time : Trade(t, at)
  PROVE  EventsInv'
<1>1. Chain /\ UNCHANGED <<now, engine, history>>
  BY DEF Launch, Liquidate, Rescore, AdvancePhase, StartSeason, Trade, Chain
<1>2. DOMAIN db' = DOMAIN db /\ db'.launched \subseteq Tokens /\ IsFiniteSet(db'.trades)
  <2>1. db.launched \subseteq Tokens /\ IsFiniteSet(db.trades)
        /\ {"launched", "trades"} \subseteq DOMAIN db
    BY DEF EventsInv
  <2>2. CASE \E t \in Tokens : Launch(t)
    BY <2>1, <2>2 DEF Launch
  <2>3. CASE \E t \in Tokens, at \in Time : Trade(t, at)
    <3>1. PICK row : db' = [db EXCEPT !.trades = @ \cup {row}]
      BY <2>3 DEF Trade
    <3> QED
      BY <2>1, <3>1, FS_AddElement
  <2>4. CASE \/ \E t \in Tokens : Liquidate(t)
             \/ \E order \in Orders : Rescore(order)
             \/ AdvancePhase \/ StartSeason
    BY <2>1, <2>4 DEF Liquidate, Rescore, AdvancePhase, StartSeason
  <2> QED
    BY <2>2, <2>3, <2>4
<1> QED
  BY <1>1, <1>2, ChainEvents

LEMMA ClockEvents ==
  ASSUME EventsInv, ClockTicks
  PROVE  EventsInv'
<1>1. now' = now + 1 /\ UNCHANGED <<db, engine, history>> /\ now \in Nat
  BY DEF ClockTicks, EventsInv, TickInv
<1>2. TickInv'
  BY <1>1, QuietTick DEF EventsInv
<1>3. Remembers(pipelineState, log, now')
  BY <1>1, ClockRemembers DEF EventsInv
<1>4. Silences(pipelineState.filterMomentEndsAt, log, now')
  BY <1>1, PipelineConstants DEF EventsInv, Silences
<1> QED
  BY <1>1, <1>2, <1>3, <1>4 DEF EventsInv, ReadsOK, engine, history

\* A tick that does not publish changes none but its own reading.
LEMMA ReadingEvents ==
  ASSUME EventsInv, TickInv', UNCHANGED <<now, db, pipelineState, log>>,
         NEW r \in Runs, NEW run, runs' = [runs EXCEPT ![r] = run], ReadsOK(run)
  PROVE  EventsInv'
<1>1. \A q \in Runs : ReadsOK(runs'[q])
  BY DEF EventsInv, TickInv
<1> QED
  BY <1>1 DEF EventsInv

LEMMA QueryEvents ==
  ASSUME EventsInv, NEW r \in Runs,
         ReadSeason(r) \/ ReadTokens(r) \/ ReadScores(r) \/ ReadFees(r)
  PROVE  EventsInv'
<1>1. TickInv /\ UNCHANGED <<now, db, pipelineState, log>>
  BY DEF EventsInv, ReadSeason, ReadTokens, ReadScores, ReadFees, Engine, Tables, history
<1>2. TickInv' /\ ReadsOK(runs[r]) /\ DOMAIN runs[r] = {"at", "prev", "current", "trades"}
      /\ r \in DOMAIN runs
  BY <1>1, QueryTick DEF EventsInv, TickInv, RunOK
<1>3. CASE ReadSeason(r)
  <2> DEFINE snapshot == [takenAt |-> now, season |-> db.season, phase |-> db.phase,
                          nextCut |-> NextCuts(db.season, db.phase, db.startedAt),
                          tokens |-> {}, order |-> <<>>, liquidated |-> {}]
             run == [runs[r] EXCEPT !.at = "tokens", !.current = snapshot]
  <2>1. runs' = [runs EXCEPT ![r] = run]
    BY <1>2, <1>3 DEF ReadSeason
  <2>2. ReadsOK(run)
    <3>1. run.trades = runs[r].trades /\ run.current = snapshot
      BY <1>2
    <3>2. "tokens" \in DOMAIN snapshot /\ snapshot.tokens = {}
      OBVIOUS
    <3> HIDE DEF run, snapshot
    <3> QED
      BY <1>2, <3>1, <3>2 DEF ReadsOK
  <2> HIDE DEF run
  <2> QED
    BY <1>1, <1>2, <2>1, <2>2, ReadingEvents
<1>4. CASE ReadTokens(r)
  <2> DEFINE tokens == db.launched \cap SeasonTokens[runs[r].current.season]
             run == [runs[r] EXCEPT !.at = "scores", !.current.tokens = tokens,
                                    !.current.liquidated = db.liquidated \cap tokens]
  <2>1. runs' = [runs EXCEPT ![r] = run] /\ runs[r].at = "tokens"
    BY <1>2, <1>4 DEF ReadTokens
  <2>2. ReadsOK(run)
    <3>1. tokens \subseteq Tokens
      BY DEF EventsInv
    <3> HIDE DEF tokens
    <3> QED
      BY <1>2, <2>1, <3>1 DEF ReadsOK
  <2> HIDE DEF run
  <2> QED
    BY <1>1, <1>2, <2>1, <2>2, ReadingEvents
<1>5. CASE ReadScores(r)
  <2> DEFINE order == Those(db.order, runs[r].current.tokens)
             at == IF runs[r].prev = NoSnapshot THEN "diff" ELSE "fees"
             run == [runs[r] EXCEPT !.at = at, !.current.order = order]
  <2>1. runs' = [runs EXCEPT ![r] = run] /\ runs[r].at = "scores"
    BY <1>2, <1>5 DEF ReadScores
  <2> HIDE DEF order
  <2>2. ReadsOK(run)
    BY <1>2, <2>1 DEF ReadsOK
  <2> HIDE DEF run
  <2> QED
    BY <1>1, <1>2, <2>1, <2>2, ReadingEvents
<1>6. CASE ReadFees(r)
  <2> DEFINE rows == {row \in db.trades : row.at >= runs[r].prev.takenAt}
             run == [runs[r] EXCEPT !.at = "diff", !.trades = rows]
  <2>1. runs' = [runs EXCEPT ![r] = run] /\ runs[r].at = "fees"
    BY <1>2, <1>6 DEF ReadFees
  <2>2. IsFiniteSet(rows)
    BY FS_Subset DEF EventsInv
  <2> HIDE DEF rows
  <2>3. ReadsOK(run)
    BY <1>2, <2>1, <2>2 DEF ReadsOK
  <2> HIDE DEF run
  <2> QED
    BY <1>1, <1>2, <2>1, <2>3, ReadingEvents
<1> QED
  BY <1>3, <1>4, <1>5, <1>6

\* A tick that begins or fails has read nothing.
LEMMA IdleEvents ==
  ASSUME EventsInv, NEW r \in Runs, Begin(r) \/ Fail(r)
  PROVE  EventsInv'
<1>1. TickInv /\ UNCHANGED <<now, db, pipelineState, log>>
  BY DEF EventsInv, Begin, Fail, Engine, Tables, history
<1>2. TickInv'
  BY <1>1, NextTick DEF Next
<1> DEFINE begun == [Idle EXCEPT !.at = "season", !.prev = prevSnapshot]
<1>3. runs' = [runs EXCEPT ![r] = begun] \/ runs' = [runs EXCEPT ![r] = Idle]
  BY DEF Begin, Fail
<1>4. ReadsOK(begun) /\ ReadsOK(Idle)
  <2>1. begun.trades = {} /\ begun.at = "season" /\ Idle.trades = {} /\ Idle.at = "idle"
    BY DEF Idle
  <2> QED
    BY <2>1, FS_EmptySet DEF ReadsOK
<1> HIDE DEF begun
<1> QED
  BY <1>1, <1>2, <1>3, <1>4, ReadingEvents

\* The log after a tick went through: what of it can still be reached, and the batch.
LEMMA PublishEvents ==
  ASSUME EventsInv, NEW r \in Runs, NEW spikes \in SpikeSets, Publish(r, spikes)
  PROVE  EventsInv'
<1> DEFINE run == runs[r]
           detected == IF run.prev = NoSnapshot THEN <<>>
                       ELSE DiffSnapshots(run.prev, run.current, run.trades, spikes)
           result == RunPipeline(pipelineState, detected, now)
           S == {e \in ToSet(log) : now - e.at < Horizon}
           kept == Those(log, S)
           D == ToSet(detected)
<1>1. /\ run.at = "diff" /\ pipelineState' = result.state /\ runs' = [runs EXCEPT ![r] = Idle]
      /\ UNCHANGED <<now, db>>
      /\ log' = kept \o [i \in DOMAIN result.emitted |->
                           [type |-> result.emitted[i].type, token |-> result.emitted[i].token,
                            priority |-> PriorityOf(result.emitted[i]), at |-> now]]
  BY Zenon DEF Publish, Chronicle, Engine, Tables
<1>2. ReadsOK(run) /\ now \in Nat /\ r \in DOMAIN runs
  BY DEF EventsInv, TickInv
<1>3. IsBatch(detected, EventTypes)
  <2>1. IsFiniteSet(run.trades) /\ run.current.tokens \subseteq Tokens
    BY <1>1, <1>2 DEF ReadsOK
  <2>2. IsBatch(DiffSnapshots(run.prev, run.current, run.trades, spikes), EventTypes)
    BY <2>1, DiffIsBatch
  <2> QED
    BY <2>2, NoneIsBatch
<1> HIDE DEF detected, run
<1>4. detected \in Seq(D) /\ AllEmittable(D)
  BY <1>3 DEF IsBatch, AllEmittable
<1> HIDE DEF D
<1>5. Remembers(pipelineState, kept, now)
  BY <1>2, ThoseRemembers DEF EventsInv
<1>6. Silences(pipelineState.filterMomentEndsAt, kept, now)
  BY <1>2, ThoseSilences DEF EventsInv
<1>7. Spaced(kept)
  BY SpacedThose DEF EventsInv, Remembers
<1>8. log' = Extended(kept, result.emitted, now)
  BY <1>1 DEF Extended, EntryOf
<1> HIDE DEF kept
<1>9. LET M == Extended(kept, result.emitted, now)
      IN  /\ Remembers(result.state, M, now) /\ Spaced(M)
          /\ Silences(result.state.filterMomentEndsAt, M, now)
  BY <1>2, <1>4, <1>5, <1>6, <1>7, PipelineKeeps
<1> HIDE DEF result
<1>10. Remembers(pipelineState', log', now') /\ Spaced(log')
       /\ Silences(pipelineState'.filterMomentEndsAt, log', now')
  BY <1>1, <1>8, <1>9
<1>11. TickInv'
  BY PublishTick DEF EventsInv
<1>12. ReadsOK(Idle)
  BY FS_EmptySet DEF ReadsOK, Idle
<1>13. \A q \in Runs : ReadsOK(runs'[q])
  BY <1>1, <1>12 DEF EventsInv, TickInv
<1> QED
  BY <1>1, <1>10, <1>11, <1>13 DEF EventsInv

LEMMA NextEvents ==
  ASSUME EventsInv, [Next]_vars
  PROVE  EventsInv'
<1>1. CASE UNCHANGED vars \/ Lapped
  <2>1. UNCHANGED <<now, db, engine, history>>
    BY <1>1 DEF vars, Lapped, Tables
  <2>2. TickInv'
    BY <2>1, QuietTick DEF EventsInv
  <2> QED
    BY <2>1, <2>2 DEF EventsInv, ReadsOK, engine, history
<1>2. CASE \/ \E t \in Tokens : Launch(t) \/ Liquidate(t)
           \/ \E order \in Orders : Rescore(order)
           \/ AdvancePhase \/ StartSeason
           \/ \E t \in Tokens, at \in Time : Trade(t, at)
  BY <1>2, TablesEvents
<1>3. CASE ClockTicks
  BY <1>3, ClockEvents
<1>4. CASE \E r \in Runs : Begin(r) \/ Fail(r)
  BY <1>4, IdleEvents
<1>5. CASE \E r \in Runs : ReadSeason(r) \/ ReadTokens(r) \/ ReadScores(r) \/ ReadFees(r)
  BY <1>5, QueryEvents
<1>6. CASE \E r \in Runs : \E spikes \in SpikeSets : Publish(r, spikes)
  BY <1>6, PublishEvents
<1> QED
  BY <1>1, <1>2, <1>3, <1>4, <1>5, <1>6 DEF Next

\* The pipeline's word over any number of ticks, whatever is detected in them and
\* however often one fails: no token and type twice within the dedupe window, no token
\* over its quota of the throttle window, and after a FILTER_FIRED only HIGH events for
\* a filter moment.
THEOREM EmissionsStaySpaced == Spec => []EmissionsSpaced
<1>1. Init => EventsInv
  BY InitEvents
<1>2. EventsInv /\ [Next]_vars => EventsInv'
  BY NextEvents
<1>3. EventsInv => EmissionsSpaced
  BY DEF EventsInv, Spaced, SpacedAt, EmissionsSpaced
<1> QED
  BY <1>1, <1>2, <1>3, PTL DEF Spec

(***************************************************************************)
(* Each elimination once: the batch                                        *)
(***************************************************************************)

\* Where a batch announces that t was filtered.
Fells(d, t) == d.type = "FILTER_FIRED" /\ d.token = t
Felled(s, t) == {i \in DOMAIN s : Fells(s[i], t)}
AtMostOnce(s, t) == \A i, j \in Felled(s, t) : i = j

LEMMA FelledAppend ==
  ASSUME NEW D, NEW q \in Seq(D), NEW d \in D, NEW t
  PROVE  /\ Append(q, d) \in Seq(D) /\ DOMAIN q \subseteq DOMAIN Append(q, d)
         /\ Len(q) + 1 \in DOMAIN Append(q, d) /\ Append(q, d)[Len(q) + 1] = d
         /\ Len(q) + 1 \notin DOMAIN q
         /\ Felled(Append(q, d), t)
              = Felled(q, t) \cup (IF Fells(d, t) THEN {Len(q) + 1} ELSE {})
<1> DEFINE u == Append(q, d)
<1>1. /\ u \in Seq(D) /\ DOMAIN q = 1..Len(q) /\ DOMAIN u = 1..(Len(q) + 1) /\ Len(q) \in Nat
      /\ u[Len(q) + 1] = d /\ \A i \in 1..Len(q) : u[i] = q[i]
  OBVIOUS
<1> HIDE DEF u
<1>2. Felled(u, t) = Felled(q, t) \cup (IF Fells(d, t) THEN {Len(q) + 1} ELSE {})
  BY <1>1 DEF Felled
<1> QED
  BY <1>1, <1>2 DEF u

\* run[i] is what has come out of the first i of s.
Sieve(run, s) ==
    /\ run[0] = <<>>
    /\ \A i \in 1..Len(s) : run[i] = run[i - 1] \/ run[i] = Append(run[i - 1], s[i])

\* What comes out announces t if what went in does, and not more often than once.
Passes(p, q, t) ==
    /\ Felled(q, t) # {} <=> Felled(p, t) # {}
    /\ AtMostOnce(p, t) => AtMostOnce(q, t)

LEMMA SievePasses ==
  ASSUME NEW D, NEW s \in Seq(D), NEW run, Sieve(run, s), NEW t,
         \A i \in Felled(s, t) :
            run[i] = Append(run[i - 1], s[i]) \/ Felled(run[i - 1], t) # {}
  PROVE  run[Len(s)] \in Seq(D) /\ Passes(s, run[Len(s)], t)
<1> DEFINE n == Len(s)
           Good(k) == /\ run[k] \in Seq(D)
                      /\ AtMostOnce(s, t) => AtMostOnce(run[k], t)
                      /\ Felled(run[k], t) # {} <=> \E i \in 1..k : i \in Felled(s, t)
           good == {k \in 0..n : Good(k)}
<1>1. n \in Nat /\ DOMAIN s = 1..n /\ \A i \in 1..n : s[i] \in D
  OBVIOUS
<1>2. Good(0)
  <2>1. run[0] = <<>> /\ Felled(<<>>, t) = {} /\ 1..0 = {}
    BY DEF Sieve, Felled
  <2> QED
    BY <2>1 DEF AtMostOnce
<1>3. ASSUME NEW k \in 1..n, Good(k - 1) PROVE Good(k)
  <2> DEFINE q == run[k - 1]
             d == s[k]
             old == \E i \in 1..(k - 1) : i \in Felled(s, t)
  <2>1. /\ q \in Seq(D) /\ (AtMostOnce(s, t) => AtMostOnce(q, t))
        /\ Felled(q, t) # {} <=> old
    BY <1>3
  <2>2. d \in D /\ (k \in Felled(s, t) <=> Fells(d, t))
    BY <1>1 DEF Felled
  <2>3. (\E i \in 1..k : i \in Felled(s, t)) <=> (old \/ Fells(d, t))
    BY <2>2
  <2>4. run[k] = q \/ run[k] = Append(q, d)
    BY DEF Sieve
  <2>5. Fells(d, t) => run[k] = Append(q, d) \/ Felled(q, t) # {}
    BY <2>2
  <2>6. AtMostOnce(s, t) /\ Fells(d, t) => ~old
    BY <2>2 DEF AtMostOnce
  <2> HIDE DEF q, d, old
  <2>7. CASE run[k] = q /\ (Fells(d, t) => Felled(q, t) # {})
    BY <2>1, <2>3, <2>7
  <2>8. CASE run[k] = Append(q, d)
    <3>1. /\ run[k] \in Seq(D)
          /\ Felled(run[k], t) = Felled(q, t) \cup (IF Fells(d, t) THEN {Len(q) + 1} ELSE {})
      BY <2>1, <2>2, <2>8, FelledAppend
    <3>2. Felled(run[k], t) # {} <=> old \/ Fells(d, t)
      BY <2>1, <3>1
    <3>3. AtMostOnce(s, t) => AtMostOnce(run[k], t)
      BY <2>1, <2>6, <3>1 DEF AtMostOnce
    <3> QED
      BY <2>3, <3>1, <3>2, <3>3
  <2> QED
    BY <2>4, <2>5, <2>7, <2>8
<1> HIDE DEF Good
<1>4. 0 \in good /\ \A k \in 1..n : k - 1 \in good => k \in good
  BY <1>1, <1>2, <1>3
<1>5. Good(n)
  BY <1>1, <1>4, StepByStep
<1>6. (\E i \in 1..n : i \in Felled(s, t)) <=> Felled(s, t) # {}
  BY <1>1 DEF Felled
<1> QED
  BY <1>5, <1>6 DEF Good, Passes

LEMMA FellsIsHigh ==
  ASSUME NEW d, Emittable(d), NEW t, Fells(d, t)
  PROVE  PriorityOf(d) = "HIGH" /\ ~Throttled(d) /\ <<d.token, d.type>> = <<t, "FILTER_FIRED">>
<1>1. PriorityOf(d) = "HIGH"
  BY DEF Fells, Emittable, PriorityOf, HighTypes, MediumTypes
<1> QED
  BY <1>1 DEF Fells, Throttled

\* Stages 1 and 2 let an elimination through.
LEMMA FilterMomentPasses ==
  ASSUME NEW D, AllEmittable(D), NEW s \in Seq(D), NEW state, NEW time, NEW t
  PROVE  /\ FilterMoment(state, s, time).kept \in Seq(D)
         /\ Passes(s, FilterMoment(state, s, time).kept, t)
<1> DEFINE n == Len(s)
<1>1. PICK h : /\ h[0] = [endsAt |-> state.filterMomentEndsAt, kept |-> <<>>]
               /\ \A i \in 1..n : h[i] = Screen(time, h[i - 1], s[i])
               /\ FilterMoment(state, s, time) = h[n]
  BY FilterMomentRun
<1> DEFINE run == [i \in 0..n |-> h[i].kept]
<1>2. n \in Nat /\ DOMAIN s = 1..n
  OBVIOUS
<1> HIDE DEF n
<1>3. run[0] = <<>> /\ run[n] = FilterMoment(state, s, time).kept
  BY <1>1, <1>2
<1>4. ASSUME NEW i \in 1..n
      PROVE  /\ run[i] = run[i - 1] \/ run[i] = Append(run[i - 1], s[i])
             /\ Fells(s[i], t) => run[i] = Append(run[i - 1], s[i])
  <2>1. i \in 0..n /\ i - 1 \in 0..n
    BY <1>2
  <2>2. run[i] = h[i].kept /\ run[i - 1] = h[i - 1].kept
    BY <2>1
  <2>3. h[i] = Screen(time, h[i - 1], s[i]) /\ Emittable(s[i])
    BY <1>1, <1>2 DEF AllEmittable
  <2> HIDE DEF run
  <2> QED
    BY <2>2, <2>3, FellsIsHigh DEF Screen
<1> HIDE DEF run
<1>5. Sieve(run, s)
  BY <1>3, <1>4 DEF Sieve, n
<1>6. \A i \in Felled(s, t) :
         run[i] = Append(run[i - 1], s[i]) \/ Felled(run[i - 1], t) # {}
  BY <1>2, <1>4 DEF Felled
<1> QED
  BY <1>3, <1>5, <1>6, SievePasses DEF n

LEMMA SuppressLowPasses ==
  ASSUME NEW D, AllEmittable(D), NEW s \in Seq(D), NEW t
  PROVE  SuppressLow(s) \in Seq(D) /\ Passes(s, SuppressLow(s), t)
<1> DEFINE n == Len(s)
           S == {d \in ToSet(s) : PriorityOf(d) # "LOW"}
<1>1. n \in Nat /\ DOMAIN s = 1..n /\ \A i \in 1..n : s[i] \in D /\ s[i] \in ToSet(s)
  BY DEF ToSet
<1>2. Passes(s, s, t)
  BY DEF Passes
<1>3. Those(s, S) \in Seq(D) /\ Passes(s, Those(s, S), t)
  <2>1. PICK run : /\ run[0] = <<>>
                   /\ \A i \in 1..n : run[i] = Keep(S, run[i - 1], s[i])
                   /\ Those(s, S) = run[n]
    BY ThoseRun
  <2>2. ASSUME NEW i \in 1..n
        PROVE  /\ run[i] = run[i - 1] \/ run[i] = Append(run[i - 1], s[i])
               /\ Fells(s[i], t) => run[i] = Append(run[i - 1], s[i])
    <3>1. run[i] = Keep(S, run[i - 1], s[i]) /\ Emittable(s[i]) /\ s[i] \in ToSet(s)
      BY <1>1, <2>1 DEF AllEmittable
    <3>2. Fells(s[i], t) => s[i] \in S
      BY <3>1, FellsIsHigh
    <3> HIDE DEF S
    <3> QED
      BY <3>1, <3>2 DEF Keep
  <2> HIDE DEF S
  <2>3. Sieve(run, s)
    BY <2>1, <2>2 DEF Sieve
  <2>4. \A i \in Felled(s, t) :
           run[i] = Append(run[i - 1], s[i]) \/ Felled(run[i - 1], t) # {}
    BY <1>1, <2>2 DEF Felled
  <2> QED
    BY <2>1, <2>3, <2>4, SievePasses
<1> QED
  BY <1>2, <1>3 DEF SuppressLow

PipelineFields == {"dedupeSeen", "throttleCounts", "filterMomentEndsAt"}
FilterKey(t) == <<t, "FILTER_FIRED">>

\* Stage 3 stamps what it emits, and emits an elimination that has no stamp.
LEMMA EmitAllPasses ==
  ASSUME NEW D, AllEmittable(D), NEW s \in Seq(D), NEW state, DOMAIN state = PipelineFields,
         NEW time, NEW t
  PROVE  LET r == EmitAll(time, [state |-> state, emitted |-> <<>>], s)
         IN  /\ r.emitted \in Seq(D)
             /\ (FilterKey(t) \in DOMAIN r.state.dedupeSeen) =>
                   (FilterKey(t) \in DOMAIN state.dedupeSeen \/ Felled(r.emitted, t) # {})
             /\ (FilterKey(t) \notin DOMAIN state.dedupeSeen) => Passes(s, r.emitted, t)
<1> DEFINE n == Len(s)
           base == [state |-> state, emitted |-> <<>>]
           key == FilterKey(t)
           was == key \in DOMAIN state.dedupeSeen
<1>1. PICK h : /\ h[0] = base
               /\ \A i \in 1..n : h[i] = Emit(h[i - 1], s[i], time)
               /\ EmitAll(time, base, s) = h[n]
  BY EmitRun
<1>2. n \in Nat /\ DOMAIN s = 1..n /\ \A i \in 1..n : s[i] \in D
  OBVIOUS
<1>3. base.state = state /\ base.emitted = <<>>
  OBVIOUS
<1> HIDE DEF n, base
<1> DEFINE Good(k) == /\ DOMAIN h[k].state = PipelineFields /\ h[k].emitted \in Seq(D)
                      /\ (key \in DOMAIN h[k].state.dedupeSeen) =>
                            (was \/ Felled(h[k].emitted, t) # {})
           good == {k \in 0..n : Good(k)}
<1>4. Good(0)
  BY <1>1, <1>3
<1>5. ASSUME NEW i \in 1..n, Good(i - 1)
      PROVE  /\ Good(i)
             /\ h[i].emitted = h[i - 1].emitted \/ h[i].emitted = Append(h[i - 1].emitted, s[i])
             /\ Fells(s[i], t) => \/ h[i].emitted = Append(h[i - 1].emitted, s[i])
                                  \/ key \in DOMAIN h[i - 1].state.dedupeSeen
  <2> DEFINE acc == h[i - 1]
             d == s[i]
  <2>1. h[i] = Emit(acc, d, time) /\ d \in D /\ Emittable(d)
    BY <1>1, <1>2 DEF AllEmittable
  <2>2. /\ DOMAIN acc.state = PipelineFields /\ acc.emitted \in Seq(D)
        /\ (key \in DOMAIN acc.state.dedupeSeen) => (was \/ Felled(acc.emitted, t) # {})
    BY <1>5
  <2>3. CASE h[i] = acc
    <3>1. ASSUME Fells(d, t) PROVE key \in DOMAIN acc.state.dedupeSeen
      <4>1. ~Throttled(d) /\ <<d.token, d.type>> = key
        BY <2>1, <3>1, FellsIsHigh DEF FilterKey
      <4>2. Emit(acc, d, time).emitted = Append(acc.emitted, d) \/ key \in DOMAIN acc.state.dedupeSeen
        BY <4>1 DEF Emit
      <4> QED
        BY <2>1, <2>2, <2>3, <4>2, FelledAppend
    <3> QED
      BY <2>2, <2>3, <3>1
  <2>4. CASE h[i] # acc
    <3>1. LetThrough(acc, d, time, h[i])
      BY <2>1, <2>2, <2>4, Emitted DEF PipelineFields
    <3>2. /\ DOMAIN h[i].state = PipelineFields /\ h[i].emitted = Append(acc.emitted, d)
          /\ DOMAIN h[i].state.dedupeSeen = DOMAIN acc.state.dedupeSeen \cup {<<d.token, d.type>>}
      BY <3>1 DEF LetThrough, Stamped, PipelineFields
    <3> HIDE DEF acc, d
    <3>3. /\ h[i].emitted \in Seq(D)
          /\ Felled(h[i].emitted, t) = Felled(acc.emitted, t)
               \cup (IF Fells(d, t) THEN {Len(acc.emitted) + 1} ELSE {})
      BY <2>1, <2>2, <3>2, FelledAppend
    <3>4. (<<d.token, d.type>> = key) => Fells(d, t)
      BY DEF FilterKey, Fells
    <3> HIDE DEF key, was
    <3>5. (key \in DOMAIN h[i].state.dedupeSeen) => (was \/ Felled(h[i].emitted, t) # {})
      BY <2>2, <3>2, <3>3, <3>4
    <3> QED
      BY <3>2, <3>3, <3>5 DEF acc, d
  <2> QED
    BY <2>3, <2>4
<1> HIDE DEF Good, key, was
<1>6. 0 \in good /\ \A k \in 1..n : k - 1 \in good => k \in good
  BY <1>2, <1>4, <1>5
<1>7. ASSUME NEW k \in 0..n PROVE Good(k)
  <2>1. k \in Nat /\ 1..k \subseteq 1..n
    BY <1>2
  <2> QED
    BY <1>6, <2>1, StepByStep
<1>8. Good(n)
  BY <1>2, <1>7
<1>9. ASSUME ~was PROVE Passes(s, h[n].emitted, t)
  <2> DEFINE run == [i \in 0..n |-> h[i].emitted]
  <2>1. run[0] = <<>> /\ run[n] = h[n].emitted
    BY <1>1, <1>2, <1>3
  <2>2. ASSUME NEW i \in 1..n
        PROVE  /\ run[i] = run[i - 1] \/ run[i] = Append(run[i - 1], s[i])
               /\ Fells(s[i], t) =>
                     run[i] = Append(run[i - 1], s[i]) \/ Felled(run[i - 1], t) # {}
    <3>1. i - 1 \in 0..n /\ run[i] = h[i].emitted /\ run[i - 1] = h[i - 1].emitted
      BY <1>2
    <3>2. Good(i - 1)
      BY <1>7, <3>1
    <3>3. (key \in DOMAIN h[i - 1].state.dedupeSeen) => Felled(h[i - 1].emitted, t) # {}
      BY <1>9, <3>2 DEF Good
    <3> HIDE DEF run
    <3> QED
      BY <1>5, <3>1, <3>2, <3>3
  <2> HIDE DEF run
  <2>3. Sieve(run, s)
    BY <2>1, <2>2 DEF Sieve, n
  <2>4. \A i \in Felled(s, t) :
           run[i] = Append(run[i - 1], s[i]) \/ Felled(run[i - 1], t) # {}
    BY <1>2, <2>2 DEF Felled
  <2> QED
    BY <2>1, <2>3, <2>4, SievePasses DEF n
<1> QED
  BY <1>1, <1>8, <1>9 DEF Good, base, key, was

LEMMA PipelinePasses ==
  ASSUME NEW D, AllEmittable(D), NEW s \in Seq(D), NEW state, DOMAIN state = PipelineFields,
         NEW time, NEW t, NEW r, r = RunPipeline(state, s, time)
  PROVE  /\ r.emitted \in Seq(D)
         /\ (FilterKey(t) \in DOMAIN r.state.dedupeSeen) =>
               (FilterKey(t) \in DOMAIN state.dedupeSeen \/ Felled(r.emitted, t) # {})
         /\ (FilterKey(t) \notin DOMAIN state.dedupeSeen) => Passes(s, r.emitted, t)
<1> DEFINE pruned == Prune(state, time)
           stage1 == FilterMoment(pruned, s, time)
           stage2 == SuppressLow(stage1.kept)
           armed == [pruned EXCEPT !.filterMomentEndsAt = stage1.endsAt]
           stage3 == EmitAll(time, [state |-> armed, emitted |-> <<>>], stage2)
<1>1. r = [state |-> stage3.state, emitted |-> stage3.emitted]
  BY DEF RunPipeline, EmitAll
<1>2. DOMAIN pruned = PipelineFields /\ DOMAIN pruned.dedupeSeen \subseteq DOMAIN state.dedupeSeen
  BY DEF Prune, Restrict, PipelineFields
<1> HIDE DEF pruned
<1>3. stage1.kept \in Seq(D) /\ Passes(s, stage1.kept, t)
  BY FilterMomentPasses
<1> HIDE DEF stage1
<1>4. stage2 \in Seq(D) /\ Passes(stage1.kept, stage2, t)
  BY <1>3, SuppressLowPasses
<1>5. DOMAIN armed = PipelineFields /\ DOMAIN armed.dedupeSeen \subseteq DOMAIN state.dedupeSeen
  BY <1>2 DEF PipelineFields
<1> HIDE DEF stage2, armed
<1>6. /\ stage3.emitted \in Seq(D)
      /\ (FilterKey(t) \in DOMAIN stage3.state.dedupeSeen) =>
            (FilterKey(t) \in DOMAIN armed.dedupeSeen \/ Felled(stage3.emitted, t) # {})
      /\ (FilterKey(t) \notin DOMAIN armed.dedupeSeen) => Passes(stage2, stage3.emitted, t)
  BY <1>4, <1>5, EmitAllPasses
<1> HIDE DEF stage3
<1>7. r.emitted = stage3.emitted /\ r.state = stage3.state
  BY <1>1
<1>8. Passes(stage2, stage3.emitted, t) => Passes(s, stage3.emitted, t)
  BY <1>3, <1>4 DEF Passes
<1> QED
  BY <1>5, <1>6, <1>7, <1>8

(***************************************************************************)
(* Each elimination once: what is detected                                 *)
(***************************************************************************)

LEMMA FelledJoin ==
  ASSUME NEW D, NEW p \in Seq(D), NEW q \in Seq(D), NEW t
  PROVE  /\ Felled(p \o q, t) # {} <=> Felled(p, t) # {} \/ Felled(q, t) # {}
         /\ (/\ AtMostOnce(p, t) /\ AtMostOnce(q, t)
             /\ Felled(p, t) = {} \/ Felled(q, t) = {}) => AtMostOnce(p \o q, t)
<1> DEFINE u == p \o q
           m == Len(p)
           n == Len(q)
<1>1. /\ m \in Nat /\ n \in Nat /\ DOMAIN p = 1..m /\ DOMAIN q = 1..n /\ DOMAIN u = 1..(m + n)
      /\ \A i \in 1..m : u[i] = p[i]
      /\ \A i \in 1..n : u[m + i] = q[i]
  OBVIOUS
<1>2. \A i \in (m + 1)..(m + n) : i - m \in 1..n /\ u[i] = q[i - m]
  <2>1. ASSUME NEW i \in (m + 1)..(m + n) PROVE i - m \in 1..n /\ u[i] = q[i - m]
    <3>1. i - m \in 1..n /\ m + (i - m) = i
      BY <1>1
    <3> HIDE DEF u, m, n
    <3> QED
      BY <1>1, <3>1
  <2> QED
    BY <2>1
<1> HIDE DEF u, m, n
<1>3. \A i \in Felled(u, t) :
         \/ i \in 1..m /\ i \in Felled(p, t)
         \/ i \in (m + 1)..(m + n) /\ i - m \in Felled(q, t)
  BY <1>1, <1>2 DEF Felled
<1>4. (\A i \in Felled(p, t) : i \in Felled(u, t)) /\ \A i \in Felled(q, t) : m + i \in Felled(u, t)
  BY <1>1 DEF Felled
<1>5. ASSUME AtMostOnce(p, t), AtMostOnce(q, t), Felled(p, t) = {} \/ Felled(q, t) = {},
             NEW i \in Felled(u, t), NEW j \in Felled(u, t)
      PROVE  i = j
  <2>1. CASE i \in Felled(p, t) /\ j \in Felled(p, t)
    BY <1>5, <2>1 DEF AtMostOnce
  <2>2. CASE i \in (m + 1)..(m + n) /\ i - m \in Felled(q, t) /\ j \in (m + 1)..(m + n)
             /\ j - m \in Felled(q, t)
    <3>1. i - m = j - m
      BY <1>5, <2>2 DEF AtMostOnce
    <3> QED
      BY <1>1, <2>2, <3>1
  <2> QED
    BY <1>3, <1>5, <2>1, <2>2
<1>6. Felled(u, t) # {} <=> Felled(p, t) # {} \/ Felled(q, t) # {}
  BY <1>3, <1>4
<1> QED
  BY <1>5, <1>6 DEF u, AtMostOnce

\* Where at most one part announces t, and once, the whole does not more often.
LEMMA FlattenFelled ==
  ASSUME NEW T, NEW n \in Nat, NEW seqs, DOMAIN seqs = 1..n, seqs = [i \in 1..n |-> seqs[i]],
         \A i \in 1..n : IsBatch(seqs[i], T), NEW t,
         \A i \in 1..n : AtMostOnce(seqs[i], t),
         \A i, j \in 1..n : Felled(seqs[i], t) # {} /\ Felled(seqs[j], t) # {} => i = j
  PROVE  /\ Felled(FlattenSeq(seqs), t) # {} <=> \E i \in 1..n : Felled(seqs[i], t) # {}
         /\ AtMostOnce(FlattenSeq(seqs), t)
<1>1. Len(seqs) = n /\ (n = 0 => seqs = <<>>)
  <2>1. seqs \in Seq({seqs[i] : i \in 1..n})
    OBVIOUS
  <2> QED
    BY <2>1
<1>2. Felled(<<>>, t) = {} /\ AtMostOnce(<<>>, t) /\ 1..0 = {}
  BY DEF Felled, AtMostOnce
<1>3. CASE n = 0
  BY <1>1, <1>2, <1>3 DEF FlattenSeq
<1>4. CASE n # 0
  <2> DEFINE h == CHOOSE g : Flattens(g, seqs, n)
             Good(k) == /\ IsBatch(h[k], T) /\ AtMostOnce(h[k], t)
                        /\ Felled(h[k], t) # {} <=> \E i \in 1..k : Felled(seqs[i], t) # {}
             good == {k \in 0..n : k = 0 \/ Good(k)}
  <2>1. FlattenSeq(seqs) = h[n]
    BY <1>1, <1>4 DEF FlattenSeq, Flattens
  <2>2. Flattens(h, seqs, n)
    BY FlattenExists
  <2> HIDE DEF h
  <2>3. ASSUME NEW k \in 1..n, k = 1 \/ Good(k - 1) PROVE Good(k)
    <3>1. h[k] = IF k = 1 THEN seqs[k] ELSE h[k - 1] \o seqs[k]
      BY <2>2 DEF Flattens
    <3>2. CASE k = 1
      BY <3>1, <3>2
    <3>3. CASE k # 1
      <4> DEFINE p == h[k - 1]
                 q == seqs[k]
                 before == \E i \in 1..(k - 1) : Felled(seqs[i], t) # {}
      <4>1. IsBatch(p, T) /\ AtMostOnce(p, t) /\ (Felled(p, t) # {} <=> before)
        BY <2>3, <3>3
      <4>2. IsBatch(q, T) /\ AtMostOnce(q, t)
        OBVIOUS
      <4>3. before => Felled(q, t) = {}
        <5>1. \A i \in 1..(k - 1) : i \in 1..n /\ i # k
          OBVIOUS
        <5> QED
          BY <5>1
      <4>4. (\E i \in 1..k : Felled(seqs[i], t) # {}) <=> before \/ Felled(q, t) # {}
        <5>1. 1..k = 1..(k - 1) \cup {k}
          OBVIOUS
        <5> QED
          BY <5>1
      <4>5. h[k] = p \o q
        BY <3>1, <3>3
      <4> HIDE DEF p, q, before
      <4> DEFINE D == ToSet(p) \cup ToSet(q)
      <4>6. p \in Seq(D) /\ q \in Seq(D)
        BY <4>1, <4>2, SeqMonotonic DEF IsBatch
      <4> HIDE DEF D
      <4>7. Felled(h[k], t) # {} <=> Felled(p, t) # {} \/ Felled(q, t) # {}
        BY <4>5, <4>6, FelledJoin
      <4>8. AtMostOnce(h[k], t)
        BY <4>1, <4>2, <4>3, <4>5, <4>6, FelledJoin
      <4>9. IsBatch(h[k], T)
        BY <4>1, <4>2, <4>5, BatchesJoin
      <4> QED
        BY <4>1, <4>4, <4>7, <4>8, <4>9
    <3> QED
      BY <3>2, <3>3
  <2> HIDE DEF Good
  <2>4. 0 \in good /\ \A k \in 1..n : k - 1 \in good => k \in good
    BY <2>3
  <2>5. Good(n)
    BY <1>4, <2>4, StepByStep
  <2> QED
    BY <2>1, <2>5 DEF Good
<1> QED
  BY <1>3, <1>4

LEMMA NoneFelled ==
  ASSUME NEW T, "FILTER_FIRED" \notin T, NEW s, IsBatch(s, T), NEW t
  PROVE  Felled(s, t) = {} /\ AtMostOnce(s, t)
BY DEF IsBatch, Felled, Fells, ToSet, AtMostOnce

\* The elimination of t between two snapshots.
Eliminated(prev, cur, t) ==
    t \in cur.tokens /\ t \in prev.tokens \ prev.liquidated /\ t \in cur.liquidated

LEMMA DetectFilterFells ==
  ASSUME NEW prev, NEW cur, NEW x, NEW t
  PROVE  /\ AtMostOnce(DetectFilter(prev, cur, x), t)
         /\ Felled(DetectFilter(prev, cur, x), t) # {} <=>
               (x = t /\ x \in prev.tokens \ prev.liquidated /\ x \in cur.liquidated)
<1> DEFINE d == Detected("FILTER_FIRED", x)
<1>1. d.type = "FILTER_FIRED" /\ d.token = x
  BY DEF Detected
<1> HIDE DEF d
<1>2. DOMAIN <<d>> = {1} /\ <<d>>[1] = d
  OBVIOUS
<1>3. Felled(<<d>>, t) = IF x = t THEN {1} ELSE {}
  BY <1>1, <1>2 DEF Felled, Fells
<1>4. Felled(<<>>, t) = {}
  BY DEF Felled
<1>5. DetectFilter(prev, cur, x)
        = IF x \in prev.tokens \ prev.liquidated /\ x \in cur.liquidated THEN <<d>> ELSE <<>>
  BY DEF DetectFilter, d
<1> QED
  BY <1>3, <1>4, <1>5 DEF AtMostOnce

LEMMA FiltersFell ==
  ASSUME NEW prev, NEW cur, cur.tokens \subseteq Tokens, NEW t
  PROVE  LET f == FlattenSeq(FiltersOf(prev, cur))
         IN  (Felled(f, t) # {} <=> Eliminated(prev, cur, t)) /\ AtMostOnce(f, t)
<1> DEFINE rows == SetToSeq(cur.tokens)
           n == Len(rows)
           filters == FiltersOf(prev, cur)
<1>1. IsFiniteSet(cur.tokens)
  BY TickConstants, FS_Subset
<1>2. /\ rows \in Seq(cur.tokens) /\ \A x \in cur.tokens : \E i \in 1..n : rows[i] = x
      /\ \A i, j \in 1..n : rows[i] = rows[j] => i = j
  BY <1>1, SetToSeqCovers
<1>3. n \in Nat /\ DOMAIN rows = 1..n /\ \A i \in 1..n : rows[i] \in cur.tokens
  BY <1>2
<1>4. DOMAIN filters = 1..n /\ filters = [i \in 1..n |-> filters[i]]
      /\ \A i \in 1..n : filters[i] = DetectFilter(prev, cur, rows[i])
  BY <1>3 DEF FiltersOf
<1> HIDE DEF rows, n, filters
<1>5. \A i \in 1..n : IsBatch(filters[i], {"FILTER_FIRED"})
  BY <1>3, <1>4, FilterIsBatch
<1> DEFINE fell(i) == Felled(filters[i], t) # {}
           gone == t \in prev.tokens \ prev.liquidated /\ t \in cur.liquidated
<1>6. \A i \in 1..n : AtMostOnce(filters[i], t) /\ (fell(i) <=> (rows[i] = t /\ gone))
  BY <1>4, DetectFilterFells
<1> HIDE DEF fell, gone
<1>7. \A i, j \in 1..n : fell(i) /\ fell(j) => i = j
  BY <1>2, <1>6
<1>8. (\E i \in 1..n : fell(i)) <=> (t \in cur.tokens /\ gone)
  BY <1>2, <1>3, <1>6
<1>9. /\ Felled(FlattenSeq(filters), t) # {} <=> \E i \in 1..n : Felled(filters[i], t) # {}
      /\ AtMostOnce(FlattenSeq(filters), t)
  BY <1>3, <1>4, <1>5, <1>6, <1>7, FlattenFelled DEF fell
<1> QED
  BY <1>8, <1>9 DEF filters, fell, gone, Eliminated

\* Between two snapshots each elimination is detected once, and a cut only if one is near.
LEMMA DiffAnnounces ==
  ASSUME NEW prev, NEW cur, cur.tokens \subseteq Tokens, NEW trades, IsFiniteSet(trades),
         NEW spikes, NEW t, NEW s, s = DiffSnapshots(prev, cur, trades, spikes)
  PROVE  /\ Felled(s, t) # {} <=> Eliminated(prev, cur, t)
         /\ AtMostOnce(s, t)
         /\ (\E d \in ToSet(s) : d.type = "FILTER_COUNTDOWN") => (DetectCountdown(prev, cur) # <<>>)
<1> DEFINE f == FlattenSeq(FiltersOf(prev, cur))
           c == DetectCountdown(prev, cur)
           p == DetectPhase(prev, cur)
<1>1. PICK q : IsBatch(q, Quiet) /\ s = q \o f \o c \o p
  BY DiffParts
<1>2. IsBatch(f, {"FILTER_FIRED"}) /\ IsBatch(c, {"FILTER_COUNTDOWN"}) /\ IsBatch(p, Quiet)
  BY DiffParts, SeasonIsBatch
<1>3. (Felled(f, t) # {} <=> Eliminated(prev, cur, t)) /\ AtMostOnce(f, t)
  BY FiltersFell
<1> HIDE DEF f, c, p
<1>4. /\ Felled(q, t) = {} /\ Felled(c, t) = {} /\ Felled(p, t) = {}
      /\ AtMostOnce(q, t) /\ AtMostOnce(c, t) /\ AtMostOnce(p, t)
  BY <1>1, <1>2, NoneFelled DEF Quiet
<1>5. (\E d \in ToSet(s) : d.type = "FILTER_COUNTDOWN") => (c # <<>>)
  <2>1. ASSUME c = <<>> PROVE \A d \in ToSet(s) : d.type # "FILTER_COUNTDOWN"
    <3> DEFINE T == Quiet \cup {"FILTER_FIRED"}
    <3>1. Quiet \subseteq T /\ {"FILTER_FIRED"} \subseteq T /\ "FILTER_COUNTDOWN" \notin T
      BY DEF Quiet
    <3> HIDE DEF T
    <3>2. IsBatch(q, T) /\ IsBatch(f, T) /\ IsBatch(p, T) /\ IsBatch(c, T)
      BY <1>1, <1>2, <2>1, <3>1, BatchWidens, NoneIsBatch
    <3>3. IsBatch(s, T)
      BY <1>1, <3>2, BatchesJoin
    <3> QED
      BY <3>1, <3>3 DEF IsBatch
  <2> QED
    BY <2>1
<1> DEFINE D == ToSet(q) \cup ToSet(f) \cup ToSet(c) \cup ToSet(p)
<1>6. q \in Seq(D) /\ f \in Seq(D) /\ c \in Seq(D) /\ p \in Seq(D)
  BY <1>1, <1>2, SeqMonotonic DEF IsBatch
<1> HIDE DEF D
<1> DEFINE qf == q \o f
           qfc == qf \o c
<1>7. /\ qf \in Seq(D) /\ AtMostOnce(qf, t)
      /\ Felled(qf, t) # {} <=> Eliminated(prev, cur, t)
  BY <1>3, <1>4, <1>6, FelledJoin
<1>8. s = qfc \o p
  BY <1>1
<1> HIDE DEF qf
<1>9. /\ qfc \in Seq(D) /\ AtMostOnce(qfc, t)
      /\ Felled(qfc, t) # {} <=> Eliminated(prev, cur, t)
  BY <1>4, <1>6, <1>7, FelledJoin
<1> HIDE DEF qfc
<1>10. /\ AtMostOnce(qfc \o p, t)
       /\ Felled(qfc \o p, t) # {} <=> Eliminated(prev, cur, t)
  <2>1. p \in Seq(D) /\ qfc \in Seq(D)
    BY <1>6, <1>9
  <2>2. Felled(qfc \o p, t) # {} <=> Felled(qfc, t) # {} \/ Felled(p, t) # {}
    BY <2>1, FelledJoin
  <2>3. AtMostOnce(qfc, t) /\ AtMostOnce(p, t) /\ Felled(p, t) = {}
    BY <1>4, <1>9
  <2>4. AtMostOnce(qfc \o p, t)
    BY <2>1, <2>3, FelledJoin
  <2> QED
    BY <1>9, <2>2, <2>3, <2>4
<1> QED
  BY <1>5, <1>8, <1>10 DEF c

(***************************************************************************)
(* Each elimination and each cut once: the state                           *)
(***************************************************************************)

\* What the tables d hold, and since when each season runs.
TablesOK(d, starts) ==
    /\ DOMAIN d = {"season", "phase", "startedAt", "launched", "order", "liquidated", "trades"}
    /\ d.season \in 1..LastSeason /\ d.phase \in Nat
    /\ d.startedAt = starts[d.season]
    /\ d.launched \subseteq Tokens /\ d.liquidated \subseteq Tokens /\ d.order \in Seq(Tokens)

\* What a snapshot says that the tables have not gone back on.
SnapshotOK(s, d, starts) ==
    /\ s \in Snapshots /\ s.season <= d.season
    /\ (s.season = d.season) => (s.phase <= d.phase)
    /\ s.nextCut = NextCuts(s.season, s.phase, starts[s.season])
    /\ s.tokens \subseteq d.launched \cap SeasonTokens[s.season]
    /\ s.liquidated \subseteq d.liquidated

\* Snapshot u is of a later time than s, and what it has of the same season is more.
Follows(s, u) ==
    /\ s.season <= u.season
    /\ (s.season = u.season) => (s.phase <= u.phase)
HasGrown(s, u) ==
    (s.season = u.season) =>
        (s.tokens \subseteq u.tokens /\ s.liquidated \cap u.tokens \subseteq u.liquidated)

RunKnows(run, d, starts, prev) ==
    (run.at \notin {"idle", "season"}) =>
        /\ SnapshotOK(run.current, d, starts)
        /\ (prev # NoSnapshot) => Follows(prev, run.current)
        /\ (prev # NoSnapshot /\ run.at # "tokens") => HasGrown(prev, run.current)

FirstCut(s, starts) == starts[s.season] + CutAfter["first"]
FinalCut(s, starts) == starts[s.season] + CutAfter["final"]

\* A cut that was announced is of a past season, or near or past in snapshot s already.
CutOK(c, s, starts) ==
    /\ c[1] <= s.season
    /\ (c[1] = s.season) =>
          /\ NearOrPast(c, s.takenAt)
          /\ c[2] = FirstCut(s, starts) \/ (s.phase >= 3 /\ c[2] = FinalCut(s, starts))

Cuts == (1..LastSeason) \X Nat
CutsOK(cuts, s, starts) ==
    /\ cuts \in Seq(Cuts)
    /\ \A i, j \in DOMAIN cuts : cuts[i] = cuts[j] => i = j
    /\ \A i \in DOMAIN cuts : s # NoSnapshot /\ CutOK(cuts[i], s, starts)

\* How often t was announced, and whether it was seen alive, goes with snapshot s.
TokenOK(t, n, alive, s) ==
    /\ n \in {0, 1}
    /\ (n = 1 \/ t \in alive) =>
          /\ s # NoSnapshot
          /\ \E i \in 1..LastSeason : /\ i <= s.season /\ t \in SeasonTokens[i]
                                      /\ (i = s.season) => (t \in s.tokens)
    /\ (s # NoSnapshot /\ t \in s.tokens) =>
          /\ (t \notin s.liquidated) => (t \in alive)
          /\ (n = 1) <=> (t \in s.liquidated /\ t \in alive)

Known(starts) ==
    /\ TablesOK(db, starts)
    /\ (prevSnapshot # NoSnapshot) => SnapshotOK(prevSnapshot, db, starts)
    /\ \A r \in Runs : RunKnows(runs[r], db, starts, prevSnapshot)
    /\ CutsOK(countdowns, prevSnapshot, starts)

Stamps == \A t \in Tokens : (FilterKey(t) \in DOMAIN pipelineState.dedupeSeen) => (fired[t] = 1)

AnnounceInv ==
    /\ EventsInv
    /\ \E starts \in [1..LastSeason -> Nat] : Known(starts)
    /\ DOMAIN fired = Tokens
    /\ \A t \in Tokens : TokenOK(t, fired[t], seenAlive, prevSnapshot)
    /\ Stamps

LEMMA SeasonsCount == LastSeason \in Nat /\ 1 \in 1..LastSeason
BY TickConstants DEF LastSeason

LEMMA InitAnnounce ==
  ASSUME Init
  PROVE  AnnounceInv
<1> DEFINE starts == [i \in 1..LastSeason |-> 0]
<1>1. /\ DOMAIN db = {"season", "phase", "startedAt", "launched", "order", "liquidated", "trades"}
      /\ db.season = 1 /\ db.phase = 1 /\ db.startedAt = 0
      /\ db.launched \subseteq SeasonTokens[1] /\ db.liquidated = {} /\ db.order \in Orders
  BY DEF Init
<1>2. LastSeason \in Nat /\ 1 \in 1..LastSeason
  BY SeasonsCount
<1>3. starts \in [1..LastSeason -> Nat] /\ TablesOK(db, starts)
  <2>1. SeasonTokens[1] \subseteq Tokens /\ db.order \in Seq(Tokens)
    <3>1. SeasonTokens[1] \in SUBSET Tokens
      BY <1>2, TickConstants DEF LastSeason
    <3>2. db.order \in Seq(Tokens)
      BY <1>1, TickConstants
    <3> QED
      BY <3>1, <3>2
  <2>2. starts \in [1..LastSeason -> Nat] /\ starts[1] = 0
    BY <1>2
  <2> HIDE DEF starts
  <2>3. db.launched \subseteq Tokens /\ db.liquidated \subseteq Tokens
    BY <1>1, <2>1
  <2> QED
    BY <1>1, <1>2, <2>1, <2>2, <2>3 DEF TablesOK
<1>4. prevSnapshot = NoSnapshot /\ countdowns = <<>> /\ seenAlive = {}
      /\ fired = [t \in Tokens |-> 0] /\ pipelineState = MakeState /\ runs = [r \in Runs |-> Idle]
  BY DEF Init
<1> HIDE DEF starts
<1>5. Known(starts)
  BY <1>3, <1>4 DEF Known, RunKnows, Idle, CutsOK
<1>6. DOMAIN pipelineState.dedupeSeen = {}
  BY <1>4 DEF MakeState
<1> QED
  BY <1>3, <1>4, <1>5, <1>6, InitEvents DEF AnnounceInv, TokenOK, Stamps

\* The tables only grow, from one season to the next.
Grows(d, e, starts, later) ==
    /\ d.season <= e.season /\ ((d.season = e.season) => (d.phase <= e.phase))
    /\ d.launched \subseteq e.launched /\ d.liquidated \subseteq e.liquidated
    /\ \A i \in 1..LastSeason : i <= d.season => later[i] = starts[i]

LEMMA SnapshotStays ==
  ASSUME NEW d, NEW e, NEW starts, NEW later, TablesOK(d, starts), TablesOK(e, later),
         Grows(d, e, starts, later), NEW s, SnapshotOK(s, d, starts)
  PROVE  SnapshotOK(s, e, later)
<1>1. /\ d.season \in Nat /\ e.season \in Nat /\ d.phase \in Nat /\ e.phase \in Nat
      /\ s.season \in Nat /\ s.phase \in Nat
  BY SeasonsCount DEF TablesOK, SnapshotOK, Snapshots
<1>2. later[s.season] = starts[s.season]
  BY DEF Grows, SnapshotOK, Snapshots
<1> QED
  BY <1>1, <1>2 DEF Grows, SnapshotOK

LEMMA CutsStay ==
  ASSUME NEW d, NEW e, NEW starts, NEW later, Grows(d, e, starts, later), NEW s, NEW cuts,
         (s # NoSnapshot) => SnapshotOK(s, d, starts), CutsOK(cuts, s, starts)
  PROVE  CutsOK(cuts, s, later)
<1>1. (s # NoSnapshot) => (later[s.season] = starts[s.season])
  BY DEF Grows, SnapshotOK, Snapshots
<1> QED
  BY <1>1 DEF CutsOK, CutOK, FirstCut, FinalCut

\* The chain, or nothing, moves.
LEMMA KnownStays ==
  ASSUME NEW starts, Known(starts), UNCHANGED <<runs, prevSnapshot, countdowns>>,
         NEW later, TablesOK(db', later), Grows(db, db', starts, later)
  PROVE  Known(later)'
<1>1. (prevSnapshot' # NoSnapshot) => SnapshotOK(prevSnapshot', db', later)
  BY SnapshotStays DEF Known
<1>2. ASSUME NEW r \in Runs PROVE RunKnows(runs'[r], db', later, prevSnapshot')
  BY SnapshotStays DEF Known, RunKnows
<1>3. CutsOK(countdowns', prevSnapshot', later)
  BY CutsStay DEF Known
<1> QED
  BY <1>1, <1>2, <1>3 DEF Known

\* None but Publish changes what was announced.
LEMMA AnnouncedStays ==
  ASSUME AnnounceInv, EventsInv', UNCHANGED <<fired, seenAlive, prevSnapshot, pipelineState>>,
         \E starts \in [1..LastSeason -> Nat] : Known(starts)'
  PROVE  AnnounceInv'
BY DEF AnnounceInv, Stamps

LEMMA ChainAnnounce ==
  ASSUME AnnounceInv, \/ \E t \in Tokens : Launch(t) \/ Liquidate(t)
                      \/ \E order \in Orders : Rescore(order)
                      \/ AdvancePhase \/ StartSeason
                      \/ \E t \in Tokens, at \in Time : Trade(t, at)
  PROVE  AnnounceInv'
<1>1. Chain /\ UNCHANGED <<now, engine, history>>
  BY DEF Launch, Liquidate, Rescore, AdvancePhase, StartSeason, Trade, Chain
<1>2. EventsInv'
  BY TablesEvents DEF AnnounceInv
<1>3. PICK starts \in [1..LastSeason -> Nat] : Known(starts)
  BY DEF AnnounceInv
<1>4. TablesOK(db, starts) /\ now \in Nat /\ LastSeason \in Nat
  BY <1>3, SeasonsCount DEF Known, AnnounceInv, EventsInv, TickInv
<1>5. ASSUME NEW later, TablesOK(db', later), Grows(db, db', starts, later)
      PROVE  Known(later)'
  BY <1>1, <1>3, <1>5, KnownStays DEF engine, history
<1>6. \E later \in [1..LastSeason -> Nat] : Known(later)'
  <2>1. CASE StartSeason
    <3> DEFINE later == [starts EXCEPT ![db.season + 1] = now]
    <3>1. db.season + 1 \in 1..LastSeason /\ db.season \in Nat
      BY <1>4, <2>1 DEF StartSeason, TablesOK
    <3>2. db' = [db EXCEPT !.season = db.season + 1, !.phase = 1, !.startedAt = now]
      BY <2>1 DEF StartSeason
    <3>3. /\ DOMAIN db' = DOMAIN db /\ db'.season = db.season + 1 /\ db'.phase = 1
          /\ db'.startedAt = now /\ db'.launched = db.launched /\ db'.liquidated = db.liquidated
          /\ db'.order = db.order
      BY <1>4, <3>2 DEF TablesOK
    <3>4. /\ later \in [1..LastSeason -> Nat] /\ later[db.season + 1] = now
          /\ \A i \in 1..LastSeason : i # db.season + 1 => later[i] = starts[i]
      BY <1>4, <3>1
    <3> HIDE DEF later
    <3>5. TablesOK(db', later)
      BY <1>4, <3>1, <3>3, <3>4 DEF TablesOK
    <3>6. \A i \in 1..LastSeason : i <= db.season => i # db.season + 1
      BY <1>4, <3>1
    <3>7. Grows(db, db', starts, later)
      BY <3>1, <3>3, <3>4, <3>6 DEF Grows
    <3> QED
      BY <1>5, <3>4, <3>5, <3>7
  <2>2. CASE AdvancePhase
    <3>1. db' = [db EXCEPT !.phase = db.phase + 1] /\ db.phase \in Nat /\ db.season \in Nat
      BY <1>4, <2>2 DEF AdvancePhase, TablesOK
    <3>2. TablesOK(db', starts) /\ Grows(db, db', starts, starts)
      BY <1>4, <3>1 DEF TablesOK, Grows
    <3> QED
      BY <1>5, <3>2
  <2>3. CASE \/ \E t \in Tokens : Launch(t) \/ Liquidate(t)
             \/ \E order \in Orders : Rescore(order)
             \/ \E t \in Tokens, at \in Time : Trade(t, at)
    <3>1. /\ db' = [db EXCEPT !.launched = db'.launched, !.liquidated = db'.liquidated,
                              !.order = db'.order, !.trades = db'.trades]
          /\ db.launched \subseteq db'.launched /\ db.liquidated \subseteq db'.liquidated
          /\ db'.launched \subseteq Tokens /\ db'.liquidated \subseteq Tokens
          /\ db'.order \in Seq(Tokens)
      <4>1. CASE \E t \in Tokens : Launch(t)
        BY <1>4, <4>1 DEF Launch, TablesOK
      <4>2. CASE \E t \in Tokens : Liquidate(t)
        BY <1>4, <4>2 DEF Liquidate, TablesOK
      <4>3. CASE \E order \in Orders : Rescore(order)
        BY <1>4, <4>3, TickConstants DEF Rescore, TablesOK
      <4>4. CASE \E t \in Tokens, at \in Time : Trade(t, at)
        BY <1>4, <4>4 DEF Trade, TablesOK
      <4> QED
        BY <2>3, <4>1, <4>2, <4>3, <4>4
    <3>2. TablesOK(db', starts)
      BY <1>4, <3>1 DEF TablesOK
    <3>3. db.season \in Nat /\ db.phase \in Nat
      BY <1>4 DEF TablesOK
    <3>4. db'.season = db.season /\ db'.phase = db.phase
      BY <1>4, <3>1 DEF TablesOK
    <3>5. Grows(db, db', starts, starts)
      BY <3>1, <3>3, <3>4 DEF Grows
    <3> QED
      BY <1>5, <3>2, <3>5
  <2> QED
    BY <2>1, <2>2, <2>3
<1> QED
  BY <1>1, <1>2, <1>6, AnnouncedStays DEF engine, history

\* A tick reads, begins or fails; db and what was announced stay.
LEMMA ReadingAnnounce ==
  ASSUME AnnounceInv, EventsInv',
         UNCHANGED <<db, fired, seenAlive, prevSnapshot, pipelineState, countdowns>>,
         NEW r \in Runs, NEW run, runs' = [runs EXCEPT ![r] = run],
         \A starts \in [1..LastSeason -> Nat] :
            Known(starts) => RunKnows(run, db, starts, prevSnapshot)
  PROVE  AnnounceInv'
<1>1. PICK starts \in [1..LastSeason -> Nat] : Known(starts)
  BY DEF AnnounceInv
<1>2. DOMAIN runs = Runs
  BY DEF AnnounceInv, EventsInv, TickInv
<1>3. \A q \in Runs : RunKnows(runs'[q], db, starts, prevSnapshot)
  BY <1>1, <1>2 DEF Known
<1>4. Known(starts)'
  BY <1>1, <1>3 DEF Known
<1> QED
  BY <1>4, AnnouncedStays

LEMMA IdleAnnounce ==
  ASSUME AnnounceInv, NEW r \in Runs, Begin(r) \/ Fail(r)
  PROVE  AnnounceInv'
<1> DEFINE begun == [Idle EXCEPT !.at = "season", !.prev = prevSnapshot]
<1>1. UNCHANGED <<db, fired, seenAlive, prevSnapshot, pipelineState, countdowns>>
  BY DEF Begin, Fail, Engine, Tables, history
<1>2. EventsInv'
  BY IdleEvents DEF AnnounceInv
<1>3. runs' = [runs EXCEPT ![r] = begun] \/ runs' = [runs EXCEPT ![r] = Idle]
  BY DEF Begin, Fail
<1>4. begun.at = "season" /\ Idle.at = "idle"
  BY DEF Idle
<1> HIDE DEF begun
<1>5. \A starts : /\ RunKnows(begun, db, starts, prevSnapshot)
                  /\ RunKnows(Idle, db, starts, prevSnapshot)
  BY <1>4 DEF RunKnows
<1> QED
  BY <1>1, <1>2, <1>3, <1>5, ReadingAnnounce

LEMMA CutsOfSeason ==
  ASSUME NEW season \in 1..LastSeason, NEW phase \in Nat, NEW at \in Nat
  PROVE  NextCuts(season, phase, at) \subseteq (1..LastSeason) \X Nat
<1>1. CutAfter["first"] \in Nat /\ CutAfter["final"] \in Nat
  BY TickConstants
<1> QED
  BY <1>1 DEF NextCuts

LEMMA ReadSeasonAnnounce ==
  ASSUME AnnounceInv, NEW r \in Runs, ReadSeason(r)
  PROVE  AnnounceInv'
<1> DEFINE snapshot == [takenAt |-> now, season |-> db.season, phase |-> db.phase,
                        nextCut |-> NextCuts(db.season, db.phase, db.startedAt),
                        tokens |-> {}, order |-> <<>>, liquidated |-> {}]
           run == [runs[r] EXCEPT !.at = "tokens", !.current = snapshot]
<1>1. UNCHANGED <<db, fired, seenAlive, prevSnapshot, pipelineState, countdowns>>
  BY DEF ReadSeason, Engine, Tables, history
<1>2. EventsInv'
  BY QueryEvents DEF AnnounceInv
<1>3. DOMAIN runs = Runs /\ DOMAIN runs[r] = {"at", "prev", "current", "trades"}
  BY DEF AnnounceInv, EventsInv, TickInv, RunOK
<1>4. runs' = [runs EXCEPT ![r] = run] /\ run.at = "tokens" /\ run.current = snapshot
  BY <1>3 DEF ReadSeason
<1>5. ASSUME NEW starts \in [1..LastSeason -> Nat], Known(starts)
      PROVE  RunKnows(run, db, starts, prevSnapshot)
  <2>1. /\ TablesOK(db, starts)
        /\ (prevSnapshot # NoSnapshot) => SnapshotOK(prevSnapshot, db, starts)
    BY <1>5 DEF Known
  <2>2. snapshot.nextCut \subseteq (1..LastSeason) \X Nat
    BY <1>5, <2>1, CutsOfSeason DEF TablesOK
  <2>3. now \in Nat /\ <<>> \in Seq(Tokens)
    BY DEF AnnounceInv, EventsInv, TickInv
  <2>4. snapshot \in Snapshots
    BY <2>1, <2>2, <2>3 DEF Snapshots, TablesOK
  <2>5. SnapshotOK(snapshot, db, starts)
    BY <2>1, <2>4, SeasonsCount DEF SnapshotOK, TablesOK
  <2>6. snapshot.season = db.season /\ snapshot.phase = db.phase
    OBVIOUS
  <2> HIDE DEF snapshot
  <2>7. (prevSnapshot # NoSnapshot) => Follows(prevSnapshot, snapshot)
    BY <2>1, <2>6 DEF Follows, SnapshotOK
  <2> HIDE DEF run
  <2> QED
    BY <1>4, <2>5, <2>7 DEF RunKnows
<1> HIDE DEF run
<1> QED
  BY <1>1, <1>2, <1>4, <1>5, ReadingAnnounce

LEMMA ReadTokensAnnounce ==
  ASSUME AnnounceInv, NEW r \in Runs, ReadTokens(r)
  PROVE  AnnounceInv'
<1> DEFINE tokens == db.launched \cap SeasonTokens[runs[r].current.season]
           run == [runs[r] EXCEPT !.at = "scores", !.current.tokens = tokens,
                                  !.current.liquidated = db.liquidated \cap tokens]
           u == run.current
<1>1. UNCHANGED <<db, fired, seenAlive, prevSnapshot, pipelineState, countdowns>>
  BY DEF ReadTokens, Engine, Tables, history
<1>2. EventsInv'
  BY QueryEvents DEF AnnounceInv
<1>3. /\ DOMAIN runs = Runs /\ DOMAIN runs[r] = {"at", "prev", "current", "trades"}
      /\ runs[r].at = "tokens"
  BY DEF AnnounceInv, EventsInv, TickInv, RunOK, ReadTokens
<1>4. runs' = [runs EXCEPT ![r] = run] /\ run.at = "scores"
  BY <1>3 DEF ReadTokens
<1>5. ASSUME NEW starts \in [1..LastSeason -> Nat], Known(starts)
      PROVE  RunKnows(run, db, starts, prevSnapshot)
  <2> DEFINE c == runs[r].current
  <2>1. /\ TablesOK(db, starts)
        /\ (prevSnapshot # NoSnapshot) => SnapshotOK(prevSnapshot, db, starts)
        /\ SnapshotOK(c, db, starts)
        /\ (prevSnapshot # NoSnapshot) => Follows(prevSnapshot, c)
    BY <1>3, <1>5 DEF Known, RunKnows
  <2>2. /\ u \in Snapshots /\ u.season = c.season /\ u.phase = c.phase
        /\ u.nextCut = c.nextCut /\ u.tokens = tokens /\ u.liquidated = db.liquidated \cap tokens
    BY <1>3, <2>1 DEF SnapshotOK, Snapshots, TablesOK
  <2> HIDE DEF u, c
  <2>3. SnapshotOK(u, db, starts)
    BY <2>1, <2>2 DEF SnapshotOK, c
  <2>4. (prevSnapshot # NoSnapshot) => Follows(prevSnapshot, u) /\ HasGrown(prevSnapshot, u)
    BY <2>1, <2>2 DEF Follows, HasGrown, SnapshotOK, c
  <2> QED
    BY <1>4, <2>3, <2>4 DEF RunKnows, u
<1> HIDE DEF run
<1> QED
  BY <1>1, <1>2, <1>4, <1>5, ReadingAnnounce

LEMMA ReadRestAnnounce ==
  ASSUME AnnounceInv, NEW r \in Runs, ReadScores(r) \/ ReadFees(r)
  PROVE  AnnounceInv'
<1> DEFINE order == Those(db.order, runs[r].current.tokens)
           at == IF runs[r].prev = NoSnapshot THEN "diff" ELSE "fees"
           scored == [runs[r] EXCEPT !.at = at, !.current.order = order]
           rows == {row \in db.trades : row.at >= runs[r].prev.takenAt}
           feed == [runs[r] EXCEPT !.at = "diff", !.trades = rows]
           c == runs[r].current
<1>1. UNCHANGED <<db, fired, seenAlive, prevSnapshot, pipelineState, countdowns>>
  BY DEF ReadScores, ReadFees, Engine, Tables, history
<1>2. EventsInv'
  BY QueryEvents DEF AnnounceInv
<1>3. /\ DOMAIN runs = Runs /\ DOMAIN runs[r] = {"at", "prev", "current", "trades"}
      /\ runs[r].at \in {"scores", "fees"}
  BY DEF AnnounceInv, EventsInv, TickInv, RunOK, ReadScores, ReadFees
<1>4. runs' = [runs EXCEPT ![r] = scored] \/ runs' = [runs EXCEPT ![r] = feed]
  BY <1>3 DEF ReadScores, ReadFees
<1>5. db.order \in Seq(Tokens)
  BY DEF AnnounceInv, Known, TablesOK
<1>6. order \in Seq(Tokens)
  BY <1>5, ThosePicks
<1> HIDE DEF order, rows
<1>7. ASSUME NEW starts \in [1..LastSeason -> Nat], Known(starts)
      PROVE  RunKnows(scored, db, starts, prevSnapshot) /\ RunKnows(feed, db, starts, prevSnapshot)
  <2>1. /\ SnapshotOK(c, db, starts)
        /\ (prevSnapshot # NoSnapshot) => Follows(prevSnapshot, c) /\ HasGrown(prevSnapshot, c)
    BY <1>3, <1>7 DEF Known, RunKnows
  <2>2. feed.current = c /\ scored.current = [c EXCEPT !.order = order]
    BY <1>3
  <2> HIDE DEF feed, scored, c
  <2> DEFINE u == [c EXCEPT !.order = order]
  <2>3. /\ u \in Snapshots /\ u.season = c.season /\ u.phase = c.phase
        /\ u.nextCut = c.nextCut /\ u.tokens = c.tokens /\ u.liquidated = c.liquidated
    BY <1>6, <2>1 DEF SnapshotOK, Snapshots
  <2> HIDE DEF u
  <2>4. SnapshotOK(u, db, starts)
    BY <2>1, <2>3 DEF SnapshotOK
  <2>5. (prevSnapshot # NoSnapshot) => Follows(prevSnapshot, u) /\ HasGrown(prevSnapshot, u)
    BY <2>1, <2>3 DEF Follows, HasGrown
  <2>6. scored.current = u
    BY <2>2 DEF u
  <2> QED
    BY <2>1, <2>2, <2>4, <2>5, <2>6 DEF RunKnows
<1> HIDE DEF scored, feed
<1>8. \A starts \in [1..LastSeason -> Nat] : Known(starts) =>
         RunKnows(scored, db, starts, prevSnapshot) /\ RunKnows(feed, db, starts, prevSnapshot)
  BY <1>7
<1> QED
  BY <1>1, <1>2, <1>4, <1>8, ReadingAnnounce

\* The elimination of t shows between two snapshots, and only there: what was announced
\* of it goes with the later one.
LEMMA TokenMoves ==
  ASSUME NEW d, NEW starts, NEW s, NEW u, SnapshotOK(u, d, starts),
         (s # NoSnapshot) => SnapshotOK(s, d, starts) /\ Follows(s, u) /\ HasGrown(s, u),
         NEW t \in Tokens, NEW n, NEW alive, TokenOK(t, n, alive, s),
         NEW k, k = IF s # NoSnapshot /\ Eliminated(s, u, t) THEN 1 ELSE 0
  PROVE  TokenOK(t, n + k, alive \cup (u.tokens \ u.liquidated), u)
<1> DEFINE more == alive \cup (u.tokens \ u.liquidated)
<1>1. /\ u.season \in 1..LastSeason /\ u.season \in Nat /\ u.tokens \subseteq SeasonTokens[u.season]
      /\ u # NoSnapshot
  BY SeasonsCount, TickConstants DEF SnapshotOK, Snapshots
<1>2. \A i \in 1..LastSeason : i # u.season => SeasonTokens[i] \cap SeasonTokens[u.season] = {}
  BY <1>1, TickConstants
<1>3. CASE s = NoSnapshot
  <2>1. n = 0 /\ t \notin alive /\ k = 0
    BY <1>3 DEF TokenOK
  <2>2. t \in more <=> t \in u.tokens \ u.liquidated
    BY <2>1
  <2>3. t \in u.tokens => \E i \in 1..LastSeason : /\ i <= u.season /\ t \in SeasonTokens[i]
                                                   /\ (i = u.season) => (t \in u.tokens)
    BY <1>1
  <2>4. n + k \in {0, 1} /\ n + k # 1
    BY <2>1
  <2> HIDE DEF more
  <2>5. TokenOK(t, n + k, more, u)
    BY <1>1, <2>2, <2>3, <2>4 DEF TokenOK
  <2> QED
    BY <2>5 DEF more
<1>4. CASE s # NoSnapshot
  <2>1. /\ SnapshotOK(s, d, starts) /\ s.season \in 1..LastSeason /\ s.season \in Nat
        /\ s.season <= u.season /\ s.tokens \subseteq SeasonTokens[s.season]
        /\ (s.season = u.season) =>
              (s.tokens \subseteq u.tokens /\ s.liquidated \cap u.tokens \subseteq u.liquidated)
    BY <1>4, SeasonsCount DEF SnapshotOK, Snapshots, Follows, HasGrown
  <2>2. n \in {0, 1} /\ (k = 1 <=> Eliminated(s, u, t)) /\ k \in {0, 1}
    BY <1>4 DEF TokenOK
  <2>3. t \in s.tokens => /\ (t \notin s.liquidated) => (t \in alive)
                          /\ (n = 1) <=> (t \in s.liquidated /\ t \in alive)
    BY <1>4 DEF TokenOK
  <2>4. k = 1 => n = 0
    BY <2>2, <2>3 DEF Eliminated
  <2>5. n + k \in {0, 1} /\ (n + k = 1 <=> n = 1 \/ k = 1)
    BY <2>2, <2>4
  <2>6. (n = 1 \/ t \in alive) =>
           \E i \in 1..LastSeason : /\ i <= s.season /\ t \in SeasonTokens[i]
                                    /\ (i = s.season) => (t \in s.tokens)
    BY <1>4 DEF TokenOK
  <2>7. ASSUME n = 1 \/ t \in alive
        PROVE  \E i \in 1..LastSeason : /\ i <= u.season /\ t \in SeasonTokens[i]
                                        /\ (i = u.season) => (t \in u.tokens)
    <3>1. PICK i \in 1..LastSeason : /\ i <= s.season /\ t \in SeasonTokens[i]
                                     /\ (i = s.season) => (t \in s.tokens)
      BY <2>6, <2>7
    <3>2. i <= u.season /\ (i = u.season => i = s.season)
      BY <1>1, <2>1, <3>1, SeasonsCount
    <3> QED
      BY <2>1, <3>1, <3>2
  <2>8. (n + k = 1 \/ t \in more) =>
           \E i \in 1..LastSeason : /\ i <= u.season /\ t \in SeasonTokens[i]
                                    /\ (i = u.season) => (t \in u.tokens)
    <3>1. (k = 1 \/ t \in u.tokens) =>
             \E i \in 1..LastSeason : /\ i <= u.season /\ t \in SeasonTokens[i]
                                      /\ (i = u.season) => (t \in u.tokens)
      BY <1>1, <2>2 DEF Eliminated
    <3> QED
      BY <2>5, <2>7, <3>1
  <2>9. ASSUME t \in u.tokens
        PROVE  /\ (t \notin u.liquidated) => (t \in more)
               /\ (n + k = 1) <=> (t \in u.liquidated /\ t \in more)
    <3>1. CASE t \in s.tokens
      <4>1. s.season = u.season
        BY <1>2, <2>1, <2>9, <1>1, <3>1
      <4>2. t \in s.liquidated => t \in u.liquidated
        BY <2>1, <2>9, <4>1
      <4>3. k = 1 <=> (t \notin s.liquidated /\ t \in u.liquidated)
        BY <2>2, <2>9, <3>1 DEF Eliminated
      <4>4. t \in more <=> (t \in alive \/ t \notin u.liquidated)
        BY <2>9
      <4> QED
        BY <2>3, <2>5, <3>1, <4>2, <4>3, <4>4
    <3>2. CASE t \notin s.tokens
      <4>1. k # 1
        BY <2>2, <3>2 DEF Eliminated
      <4>2. n # 1 /\ t \notin alive
        <5>1. ASSUME n = 1 \/ t \in alive PROVE FALSE
          <6>1. PICK i \in 1..LastSeason : /\ i <= s.season /\ t \in SeasonTokens[i]
                                           /\ (i = s.season) => (t \in s.tokens)
            BY <2>6, <5>1
          <6>2. i = u.season
            BY <1>1, <1>2, <2>9, <6>1
          <6>3. i = s.season
            BY <1>1, <2>1, <6>1, <6>2, SeasonsCount
          <6> QED
            BY <3>2, <6>1, <6>3
        <5> QED
          BY <5>1
      <4>3. t \in more <=> t \notin u.liquidated
        BY <2>9, <4>2
      <4> QED
        BY <2>5, <4>1, <4>2, <4>3
    <3> QED
      BY <3>1, <3>2
  <2> HIDE DEF more
  <2>10. TokenOK(t, n + k, more, u)
    BY <1>1, <2>5, <2>8, <2>9 DEF TokenOK
  <2> QED
    BY <2>10 DEF more
<1> QED
  BY <1>3, <1>4

\* A cut is announced when it is near, and was neither near nor past before.
CutOf(s, starts) ==
    <<s.season, IF s.phase = 3 THEN FinalCut(s, starts) ELSE FirstCut(s, starts)>>

LEMMA OneCut ==
  ASSUME NEW d, NEW starts \in [1..LastSeason -> Nat], NEW s, SnapshotOK(s, d, starts)
  PROVE  /\ s.nextCut = IF s.phase > 3 THEN {} ELSE {CutOf(s, starts)}
         /\ CutOf(s, starts) \in Cuts /\ CutOf(s, starts)[1] = s.season
         /\ (s.phase = 3) => (CutOf(s, starts)[2] = FinalCut(s, starts))
         /\ (s.phase # 3) => (CutOf(s, starts)[2] = FirstCut(s, starts))
         /\ FirstCut(s, starts) \in Nat /\ FinalCut(s, starts) \in Nat
<1>1. /\ s.season \in 1..LastSeason /\ starts[s.season] \in Nat
      /\ s.nextCut = NextCuts(s.season, s.phase, starts[s.season])
  BY DEF SnapshotOK, Snapshots
<1>2. CutAfter["first"] \in Nat /\ CutAfter["final"] \in Nat
  BY TickConstants
<1>3. FirstCut(s, starts) \in Nat /\ FinalCut(s, starts) \in Nat
  BY <1>1, <1>2 DEF FirstCut, FinalCut
<1>4. CutOf(s, starts) = <<s.season, starts[s.season]
                                       + CutAfter[IF s.phase = 3 THEN "final" ELSE "first"]>>
  BY DEF CutOf, FirstCut, FinalCut
<1>5. s.nextCut = IF s.phase > 3 THEN {} ELSE {CutOf(s, starts)}
  BY <1>1, <1>4 DEF NextCuts
<1> QED
  BY <1>1, <1>3, <1>5 DEF CutOf, Cuts

LEMMA SetToSeqOne ==
  ASSUME NEW x
  PROVE  SetToSeq({x}) = <<x>>
<1> DEFINE s == SetToSeq({x})
<1>1. IsFiniteSet({x}) /\ Cardinality({x}) = 1
  BY FS_Singleton
<1>2. s \in Seq({x}) /\ Len(s) = 1
  BY <1>1, SetToSeqCovers
<1> HIDE DEF s
<1>3. s = <<x>>
  BY <1>2
<1> QED
  BY <1>3 DEF s

\* A cut is announced when it is near, and was neither near nor past before.
LEMMA CutsMove ==
  ASSUME NEW d, NEW starts \in [1..LastSeason -> Nat], NEW s, NEW u, SnapshotOK(u, d, starts),
         SnapshotOK(s, d, starts), Follows(s, u), s.takenAt <= u.takenAt,
         NEW cuts, CutsOK(cuts, s, starts)
  PROVE  /\ CutsOK(cuts, u, starts)
         /\ (DetectCountdown(s, u) # <<>>) => CutsOK(cuts \o SetToSeq(u.nextCut), u, starts)
<1> DEFINE firstS == FirstCut(s, starts)
           finalS == FinalCut(s, starts)
           firstU == FirstCut(u, starts)
           finalU == FinalCut(u, starts)
           cutS == CutOf(s, starts)
           cutU == CutOf(u, starts)
<1>1. CountdownThreshold \in Nat /\ LastSeason \in Nat
  BY TickConstants, SeasonsCount
<1>2. /\ s.season \in 1..LastSeason /\ u.season \in 1..LastSeason /\ s.phase \in Nat
      /\ u.phase \in Nat /\ s.season <= u.season /\ (s.season = u.season => s.phase <= u.phase)
      /\ s.takenAt \in Nat /\ u.takenAt \in Nat /\ s # NoSnapshot /\ u # NoSnapshot
  BY TickConstants DEF SnapshotOK, Snapshots, Follows
<1>3. /\ s.nextCut = IF s.phase > 3 THEN {} ELSE {cutS}
      /\ u.nextCut = IF u.phase > 3 THEN {} ELSE {cutU}
  BY OneCut
<1>4. /\ cutS \in Cuts /\ cutU \in Cuts /\ cutS[1] = s.season /\ cutU[1] = u.season
      /\ (s.phase = 3) => (cutS[2] = finalS)
      /\ (s.phase # 3) => (cutS[2] = firstS)
      /\ (u.phase = 3) => (cutU[2] = finalU)
      /\ (u.phase # 3) => (cutU[2] = firstU)
  BY OneCut
<1>5. \A c \in Cuts : c = <<c[1], c[2]>> /\ c[1] \in Nat /\ c[2] \in Nat
  BY <1>1 DEF Cuts
<1>6. /\ cuts \in Seq(Cuts) /\ (\A i, j \in DOMAIN cuts : cuts[i] = cuts[j] => i = j)
      /\ \A i \in DOMAIN cuts : CutOK(cuts[i], s, starts) /\ cuts[i] \in Cuts
  BY DEF CutsOK
<1>7. (s.season = u.season) => (firstS = firstU /\ finalS = finalU)
  BY DEF FirstCut, FinalCut
<1> HIDE DEF firstS, finalS, firstU, finalU, cutS, cutU
<1>8. ASSUME NEW c \in Cuts, CutOK(c, s, starts)
      PROVE  CutOK(c, u, starts)
  <2>1. /\ c[1] <= s.season
        /\ (c[1] = s.season) =>
              /\ NearOrPast(c, s.takenAt)
              /\ c[2] = firstS \/ (s.phase >= 3 /\ c[2] = finalS)
    BY <1>8 DEF CutOK, firstS, finalS
  <2>2. c[1] <= u.season /\ (c[1] = u.season => c[1] = s.season /\ s.season = u.season)
    BY <1>2, <1>5, <2>1
  <2>3. NearOrPast(c, s.takenAt) => NearOrPast(c, u.takenAt)
    BY <1>1, <1>2, <1>5 DEF NearOrPast
  <2>4. (c[1] = u.season) =>
           NearOrPast(c, u.takenAt) /\ (c[2] = firstU \/ (u.phase >= 3 /\ c[2] = finalU))
    BY <1>2, <1>7, <2>1, <2>2, <2>3
  <2> QED
    BY <2>2, <2>4 DEF CutOK, firstU, finalU
<1>9. CutsOK(cuts, u, starts)
  BY <1>2, <1>6, <1>8 DEF CutsOK
<1>10. ASSUME DetectCountdown(s, u) # <<>>
       PROVE  CutsOK(cuts \o SetToSeq(u.nextCut), u, starts)
  <2> DEFINE e == cutU
             more == Append(cuts, e)
             n == Len(cuts)
  <2>1. /\ \E cut \in u.nextCut : Near(cut, u.takenAt)
        /\ \A cut \in s.nextCut : ~NearOrPast(cut, s.takenAt)
    BY <1>10 DEF DetectCountdown
  <2>2. u.phase <= 3 /\ u.nextCut = {e} /\ Near(e, u.takenAt)
    BY <1>2, <1>3, <2>1
  <2>3. NearOrPast(e, u.takenAt)
    BY <1>1, <1>2, <1>4, <1>5, <2>2 DEF Near, NearOrPast
  <2>4. CutOK(e, u, starts)
    BY <1>2, <1>4, <2>3 DEF CutOK, firstU, finalU
  <2>5. ASSUME NEW i \in DOMAIN cuts, cuts[i] = e PROVE FALSE
    <3>1. CutOK(e, s, starts)
      BY <1>6, <2>5
    <3>2. s.season = u.season
      BY <1>1, <1>2, <1>4, <3>1 DEF CutOK
    <3>3. /\ NearOrPast(e, s.takenAt)
          /\ e[2] = firstS \/ (s.phase >= 3 /\ e[2] = finalS)
      BY <1>4, <3>1, <3>2 DEF CutOK, firstS, finalS
    <3>4. s.phase <= 3 /\ ~NearOrPast(cutS, s.takenAt)
      BY <1>2, <1>3, <2>1, <2>2, <3>2
    <3>5. cutS[2] = e[2]
      BY <1>2, <1>4, <1>7, <2>2, <3>2, <3>3, <3>4
    <3> QED
      BY <3>3, <3>4, <3>5 DEF NearOrPast
  <2>6. cuts \o SetToSeq(u.nextCut) = more
    <3>1. cuts \o <<e>> = Append(cuts, e)
      BY <1>6
    <3> QED
      BY <2>2, <3>1, SetToSeqOne
  <2>7. /\ more \in Seq(Cuts) /\ DOMAIN more = 1..(n + 1) /\ DOMAIN cuts = 1..n /\ n \in Nat
        /\ more[n + 1] = e /\ \A i \in 1..n : more[i] = cuts[i]
    BY <1>4, <1>6
  <2> HIDE DEF more, n, e
  <2>8. \A i, j \in DOMAIN more : more[i] = more[j] => i = j
    BY <1>6, <2>5, <2>7
  <2>9. \A i \in DOMAIN more : CutOK(more[i], u, starts)
    BY <1>9, <2>4, <2>7 DEF CutsOK
  <2>10. CutsOK(more, u, starts)
    BY <1>2, <2>7, <2>8, <2>9 DEF CutsOK
  <2> QED
    BY <2>6, <2>10
<1> QED
  BY <1>9, <1>10

Announced(s, u, t) == s # NoSnapshot /\ Eliminated(s, u, t)

\* A tick that goes through announces what its snapshot and the one before it differ in.
LEMMA PublishAnnounces ==
  ASSUME AnnounceInv, NEW r \in Runs, NEW spikes \in SpikeSets, Publish(r, spikes),
         NEW s, s = prevSnapshot, NEW u, u = runs[r].current
  PROVE  /\ \A t \in Tokens :
               /\ fired'[t] = fired[t] + (IF Announced(s, u, t) THEN 1 ELSE 0)
               /\ (FilterKey(t) \in DOMAIN pipelineState'.dedupeSeen) =>
                     (FilterKey(t) \in DOMAIN pipelineState.dedupeSeen \/ Announced(s, u, t))
         /\ DOMAIN fired' = Tokens
         /\ \/ countdowns' = countdowns \o <<>>
            \/ /\ countdowns' = countdowns \o SetToSeq(u.nextCut)
               /\ s # NoSnapshot /\ DetectCountdown(s, u) # <<>>
<1> DEFINE detected == IF s = NoSnapshot THEN <<>>
                       ELSE DiffSnapshots(s, u, runs[r].trades, spikes)
           result == RunPipeline(pipelineState, detected, now)
           D == ToSet(detected)
           counts == \E d \in ToSet(result.emitted) : d.type = "FILTER_COUNTDOWN"
<1>1. runs[r].at = "diff" /\ runs[r].prev = s
  BY PublishTick DEF AnnounceInv, EventsInv
<1>2. /\ pipelineState' = result.state
      /\ fired' = [t \in Tokens |-> fired[t] + Cardinality(Felled(result.emitted, t))]
      /\ countdowns' = countdowns \o (IF counts THEN SetToSeq(u.nextCut) ELSE <<>>)
  BY <1>1, Zenon DEF Publish, Chronicle, Felled, Fells
<1>3. IsFiniteSet(runs[r].trades) /\ u.tokens \subseteq Tokens
  BY <1>1 DEF AnnounceInv, EventsInv, ReadsOK
<1>5. ASSUME NEW t
      PROVE  /\ Felled(detected, t) # {} <=> Announced(s, u, t)
             /\ AtMostOnce(detected, t)
  <2>1. CASE s = NoSnapshot
    <3>1. detected = <<>>
      BY <2>1
    <3>2. Felled(<<>>, t) = {}
      BY DEF Felled
    <3> QED
      BY <2>1, <3>1, <3>2 DEF AtMostOnce, Announced
  <2>2. CASE s # NoSnapshot
    <3>1. detected = DiffSnapshots(s, u, runs[r].trades, spikes)
      BY <2>2
    <3> HIDE DEF detected
    <3> QED
      BY <1>3, <2>2, <3>1, DiffAnnounces DEF Announced
  <2> QED
    BY <2>1, <2>2
<1>6. (\E d \in D : d.type = "FILTER_COUNTDOWN") =>
         (s # NoSnapshot /\ DetectCountdown(s, u) # <<>>)
  <2>1. CASE s = NoSnapshot
    BY <2>1 DEF ToSet
  <2>2. CASE s # NoSnapshot
    <3>1. detected = DiffSnapshots(s, u, runs[r].trades, spikes)
      BY <2>2
    <3> HIDE DEF detected
    <3> QED
      BY <1>3, <2>2, <3>1, DiffAnnounces
  <2> QED
    BY <2>1, <2>2
<1>7. detected \in Seq(D) /\ AllEmittable(D)
  <2>1. IsBatch(DiffSnapshots(s, u, runs[r].trades, spikes), EventTypes)
    BY <1>3, DiffIsBatch
  <2>2. IsBatch(detected, EventTypes)
    BY <2>1, NoneIsBatch
  <2> HIDE DEF detected
  <2> QED
    BY <2>2 DEF IsBatch, AllEmittable
<1>8. \A t : Felled(detected, t) # {} <=> \E d \in D : Fells(d, t)
  BY DEF Felled, ToSet
<1> HIDE DEF detected, D
<1>9. DOMAIN pipelineState = PipelineFields
  BY DEF AnnounceInv, EventsInv, Remembers, PipelineFields
<1>10. ASSUME NEW t
       PROVE  /\ result.emitted \in Seq(D)
              /\ (FilterKey(t) \in DOMAIN result.state.dedupeSeen) =>
                    (FilterKey(t) \in DOMAIN pipelineState.dedupeSeen
                       \/ Felled(result.emitted, t) # {})
              /\ (FilterKey(t) \notin DOMAIN pipelineState.dedupeSeen) =>
                    Passes(detected, result.emitted, t)
  BY <1>7, <1>9, PipelinePasses
<1> HIDE DEF result
<1>11. \A t : Felled(result.emitted, t) # {} => Felled(detected, t) # {}
  <2>1. result.emitted \in Seq(D)
    BY <1>10
  <2>2. \A i \in DOMAIN result.emitted : result.emitted[i] \in D
    BY <2>1
  <2> QED
    BY <1>8, <2>2 DEF Felled
<1>12. counts => (s # NoSnapshot /\ DetectCountdown(s, u) # <<>>)
  BY <1>6, <1>10 DEF ToSet
<1> HIDE DEF counts
<1>13. ASSUME NEW t \in Tokens
       PROVE  /\ Felled(result.emitted, t) # {} <=> Announced(s, u, t)
              /\ AtMostOnce(result.emitted, t)
  <2>1. CASE FilterKey(t) \notin DOMAIN pipelineState.dedupeSeen
    BY <1>5, <1>10, <2>1 DEF Passes
  <2>2. CASE FilterKey(t) \in DOMAIN pipelineState.dedupeSeen
    <3>1. fired[t] = 1 /\ TokenOK(t, fired[t], seenAlive, s)
      BY <2>2 DEF AnnounceInv, Stamps
    <3>2. ~Announced(s, u, t)
      BY <3>1 DEF TokenOK, Announced, Eliminated
    <3>3. Felled(result.emitted, t) = {}
      BY <1>5, <1>11, <3>2
    <3> QED
      BY <3>2, <3>3 DEF AtMostOnce
  <2> QED
    BY <2>1, <2>2
<1>14. ASSUME NEW t \in Tokens
       PROVE  Cardinality(Felled(result.emitted, t)) = IF Announced(s, u, t) THEN 1 ELSE 0
  <2> DEFINE F == Felled(result.emitted, t)
  <2>1. (F # {} <=> Announced(s, u, t)) /\ \A i, j \in F : i = j
    BY <1>13 DEF AtMostOnce
  <2> HIDE DEF F
  <2>2. CASE F = {}
    BY <2>1, <2>2, FS_EmptySet DEF F
  <2>3. CASE F # {}
    <3>1. PICK i : F = {i}
      BY <2>1, <2>3
    <3>2. Cardinality(F) = 1
      BY <3>1, FS_Singleton
    <3> QED
      BY <2>1, <2>3, <3>2 DEF F
  <2> QED
    BY <2>2, <2>3
<1>15. countdowns' = countdowns \o SetToSeq(u.nextCut) \/ countdowns' = countdowns \o <<>>
  BY <1>2
<1>16. counts \/ countdowns' = countdowns \o <<>>
  BY <1>2
<1>17. \A t \in Tokens : fired'[t] = fired[t] + (IF Announced(s, u, t) THEN 1 ELSE 0)
  BY <1>2, <1>14
<1> QED
  BY <1>2, <1>10, <1>12, <1>13, <1>15, <1>16, <1>17

LEMMA PublishAnnounce ==
  ASSUME AnnounceInv, NEW r \in Runs, NEW spikes \in SpikeSets, Publish(r, spikes)
  PROVE  AnnounceInv'
<1> DEFINE s == prevSnapshot
           u == runs[r].current
           more == seenAlive \cup (u.tokens \ u.liquidated)
<1>1. EventsInv' /\ runs[r].at = "diff"
  BY PublishEvents DEF AnnounceInv, Publish
<1>2. /\ prevSnapshot' = u /\ runs' = [runs EXCEPT ![r] = Idle] /\ db' = db
      /\ seenAlive' = more
  BY Zenon DEF Publish, Chronicle, Engine, Tables
<1>3. PICK starts \in [1..LastSeason -> Nat] : Known(starts)
  BY DEF AnnounceInv
<1>4. /\ SnapshotOK(u, db, starts)
      /\ (s # NoSnapshot) => SnapshotOK(s, db, starts) /\ Follows(s, u) /\ HasGrown(s, u)
  BY <1>1, <1>3 DEF Known, RunKnows
<1>5. (s # NoSnapshot) => (s.takenAt <= u.takenAt)
  BY <1>2, PublishTick DEF AnnounceInv, EventsInv
<1>6. /\ \A t \in Tokens :
            /\ fired'[t] = fired[t] + (IF Announced(s, u, t) THEN 1 ELSE 0)
            /\ (FilterKey(t) \in DOMAIN pipelineState'.dedupeSeen) =>
                  (FilterKey(t) \in DOMAIN pipelineState.dedupeSeen \/ Announced(s, u, t))
      /\ DOMAIN fired' = Tokens
      /\ \/ countdowns' = countdowns \o <<>>
         \/ /\ countdowns' = countdowns \o SetToSeq(u.nextCut)
            /\ s # NoSnapshot /\ DetectCountdown(s, u) # <<>>
  BY PublishAnnounces
<1> HIDE DEF s, u
<1>7. ASSUME NEW t \in Tokens
      PROVE  TokenOK(t, fired'[t], more, u)
  <2>1. TokenOK(t, fired[t], seenAlive, s)
    BY DEF AnnounceInv, s
  <2> DEFINE k == IF s # NoSnapshot /\ Eliminated(s, u, t) THEN 1 ELSE 0
  <2>2. fired'[t] = fired[t] + k
    BY <1>6 DEF Announced
  <2>3. TokenOK(t, fired[t] + k, more, u)
    BY <1>4, <2>1, TokenMoves
  <2> HIDE DEF k, more
  <2> QED
    BY <2>2, <2>3
<1> HIDE DEF more
<1>8. \A t \in Tokens : TokenOK(t, fired'[t], seenAlive', prevSnapshot')
  BY <1>2, <1>7
<1>9. Stamps'
  <2>1. ASSUME NEW t \in Tokens, FilterKey(t) \in DOMAIN pipelineState'.dedupeSeen
        PROVE  fired'[t] = 1
    <3>1. fired[t] \in {0, 1} /\ fired'[t] \in {0, 1}
      BY <1>8 DEF AnnounceInv, TokenOK
    <3>2. fired[t] = 1 \/ Announced(s, u, t)
      BY <1>6, <2>1 DEF AnnounceInv, Stamps
    <3>3. fired'[t] = fired[t] + (IF Announced(s, u, t) THEN 1 ELSE 0)
      BY <1>6
    <3> QED
      BY <3>1, <3>2, <3>3
  <2> QED
    BY <2>1 DEF Stamps, FilterKey
<1>10. CutsOK(countdowns', u, starts)
  <2>1. CutsOK(countdowns, s, starts)
    BY <1>3 DEF Known, s
  <2>2. countdowns \in Seq(Cuts) /\ countdowns \o <<>> = countdowns
    BY <2>1 DEF CutsOK
  <2>3. CASE s = NoSnapshot
    <3>1. countdowns' = countdowns /\ DOMAIN countdowns = {}
      BY <1>6, <2>1, <2>2, <2>3 DEF CutsOK
    <3> QED
      BY <2>1, <3>1 DEF CutsOK
  <2>4. CASE s # NoSnapshot
    <3>1. /\ CutsOK(countdowns, u, starts)
          /\ (DetectCountdown(s, u) # <<>>) =>
                CutsOK(countdowns \o SetToSeq(u.nextCut), u, starts)
      BY <1>4, <1>5, <2>1, <2>4, CutsMove
    <3> QED
      BY <1>6, <2>2, <3>1
  <2> QED
    BY <2>3, <2>4
<1>11. \A q \in Runs : RunKnows(runs'[q], db, starts, u)
  <2>1. \A q \in Runs : runs'[q].at = "idle"
    BY <1>1, <1>2 DEF AnnounceInv, EventsInv, TickInv, Idle
  <2> QED
    BY <2>1 DEF RunKnows
<1>12. Known(starts)'
  BY <1>2, <1>3, <1>4, <1>10, <1>11 DEF Known
<1> QED
  BY <1>1, <1>6, <1>8, <1>9, <1>12 DEF AnnounceInv

LEMMA NextAnnounce ==
  ASSUME AnnounceInv, [Next]_vars
  PROVE  AnnounceInv'
<1>1. EventsInv'
  BY NextEvents DEF AnnounceInv
<1>2. CASE UNCHANGED vars \/ Lapped \/ ClockTicks
  <2>1. UNCHANGED <<db, engine, history>>
    BY <1>2 DEF vars, Lapped, Tables, ClockTicks
  <2>2. PICK starts \in [1..LastSeason -> Nat] : Known(starts)
    BY DEF AnnounceInv
  <2>3. Known(starts)'
    BY <2>1, <2>2 DEF Known, engine, history
  <2> QED
    BY <1>1, <2>1, <2>3, AnnouncedStays DEF engine, history
<1>3. CASE \/ \E t \in Tokens : Launch(t) \/ Liquidate(t)
           \/ \E order \in Orders : Rescore(order)
           \/ AdvancePhase \/ StartSeason
           \/ \E t \in Tokens, at \in Time : Trade(t, at)
  BY <1>3, ChainAnnounce
<1>4. CASE \E r \in Runs : Begin(r) \/ Fail(r)
  BY <1>4, IdleAnnounce
<1>5. CASE \E r \in Runs : ReadSeason(r)
  BY <1>5, ReadSeasonAnnounce
<1>6. CASE \E r \in Runs : ReadTokens(r)
  BY <1>6, ReadTokensAnnounce
<1>7. CASE \E r \in Runs : ReadScores(r) \/ ReadFees(r)
  BY <1>7, ReadRestAnnounce
<1>8. CASE \E r \in Runs : \E spikes \in SpikeSets : Publish(r, spikes)
  BY <1>8, PublishAnnounce
<1> QED
  BY <1>2, <1>3, <1>4, <1>5, <1>6, <1>7, <1>8 DEF Next

\* The runbook's word, "a FILTER_FIRED per non-finalist", whatever the chain writes
\* between two queries and whichever ticks fail: once for a token that a tick that went
\* through has seen alive and a later one liquidated, never twice and never before; and
\* no cut is counted down twice.
THEOREM FiltersStayAnnouncedOnce == Spec => []FiltersAnnouncedOnce
<1>1. Init => AnnounceInv
  BY InitAnnounce
<1>2. AnnounceInv /\ [Next]_vars => AnnounceInv'
  BY NextAnnounce
<1>3. AnnounceInv => FiltersAnnouncedOnce
  <2> SUFFICES ASSUME AnnounceInv PROVE FiltersAnnouncedOnce
    OBVIOUS
  <2>1. PICK starts \in [1..LastSeason -> Nat] : Known(starts)
    BY DEF AnnounceInv
  <2>2. \A i, j \in DOMAIN countdowns : countdowns[i] = countdowns[j] => i = j
    BY <2>1 DEF Known, CutsOK
  <2>3. \A t \in Tokens : fired[t] \in {0, 1} /\ TokenOK(t, fired[t], seenAlive, prevSnapshot)
    BY DEF AnnounceInv, TokenOK
  <2>4. (prevSnapshot # NoSnapshot) => (prevSnapshot.tokens \subseteq Tokens)
    BY <2>1 DEF Known, SnapshotOK, Snapshots
  <2>5. (prevSnapshot # NoSnapshot) =>
          \A t \in prevSnapshot.tokens :
             (fired[t] = 1) <=> (t \in prevSnapshot.liquidated /\ t \in seenAlive)
    BY <2>3, <2>4 DEF TokenOK
  <2> QED
    BY <2>2, <2>3, <2>5 DEF FiltersAnnouncedOnce
<1> QED
  BY <1>1, <1>2, <1>3, PTL DEF Spec

(***************************************************************************)
(* The hub                                                                 *)
(***************************************************************************)

Fields == {"phase", "queue", "resolver", "timers", "hand", "aborted", "pendingHeartbeat",
           "sent", "shed", "written"}

\* Records of the same shape whatever they hold.
IsSub(s) == DOMAIN s = Fields /\ s = [f \in Fields |-> s[f]]

\* A subscriber that is waiting has a resolver and nothing queued, and no other has one.
Registered(s) ==
    /\ (s.phase = "Waiting") <=> (s.resolver # 0)
    /\ (s.phase = "Waiting") => (s.queue = <<>>)

SubOK(s) == IsSub(s) /\ s.phase \in Phases /\ s.timers \subseteq 1..MaxTimers /\ Registered(s)

HubInv ==
    /\ DOMAIN subs = Streams /\ subs = [c \in Streams |-> subs[c]]
    /\ \A c \in Streams : SubOK(subs[c])
    /\ countsByIp \in [Ips -> Nat]
    /\ SlotsMatchStreams

LEMMA SubOfNewSub ==
  ASSUME NEW phase \in Phases \ {"Waiting"}
  PROVE  SubOK(NewSub(phase))
BY DEF SubOK, IsSub, Registered, NewSub, Fields, Phases

LEMMA UpdatedSubs ==
  ASSUME HubInv, NEW c \in Streams, NEW s, SubOK(s), subs' = [subs EXCEPT ![c] = s]
  PROVE  /\ DOMAIN subs' = Streams /\ subs' = [d \in Streams |-> subs'[d]]
         /\ \A d \in Streams : SubOK(subs'[d])
         /\ subs'[c] = s
         /\ \A d \in Streams : d # c => subs'[d] = subs[d]
<1>1. \A d \in Streams : subs'[d] = IF d = c THEN s ELSE subs[d]
  BY DEF HubInv
<1> QED
  BY <1>1, Zenon DEF HubInv

\* The open streams change only if the stream that moves opens or ends.
LEMMA SameOpen ==
  ASSUME HubInv, NEW c \in Streams, NEW s, SubOK(s), subs' = [subs EXCEPT ![c] = s],
         (s.phase \in Running) <=> (subs[c].phase \in Running)
  PROVE  Open' = Open
BY UpdatedSubs DEF Open

LEMMA SameSlots ==
  ASSUME HubInv, Open' = Open, UNCHANGED countsByIp
  PROVE  SlotsMatchStreams' /\ countsByIp' \in [Ips -> Nat]
BY DEF HubInv, SlotsMatchStreams

\* A move of an open stream that neither opens nor ends it.
LEMMA Moves ==
  ASSUME HubInv, NEW c \in Streams, NEW s, SubOK(s), subs' = [subs EXCEPT ![c] = s],
         s.phase \in Running, subs[c].phase \in Running, UNCHANGED countsByIp
  PROVE  HubInv'
BY UpdatedSubs, SameOpen, SameSlots DEF HubInv

LEMMA YieldOK ==
  ASSUME NEW c, NEW e, NEW s, IsSub(s), s.timers \subseteq 1..MaxTimers, s.resolver = 0
  PROVE  /\ SubOK(Yield(c, s, e))
         /\ Yield(c, s, e).phase \in {"Writing", "Top"}
<1>1. CASE e.topic \in Wants[c]
  BY <1>1 DEF Yield, SubOK, IsSub, Fields, Registered, Phases
<1>2. CASE e.topic \notin Wants[c]
  BY <1>2 DEF Yield, SubOK, IsSub, Fields, Registered, Phases
<1> QED
  BY <1>1, <1>2

LEMMA NextEventOK ==
  ASSUME NEW c, NEW s, SubOK(s), s.phase \in {"Top", "Beating"}, TimerToSpare(s)
  PROVE  SubOK(NextEvent(c, s)) /\ NextEvent(c, s).phase \in Running
<1>1. s.resolver = 0
  BY DEF SubOK, Registered
<1>2. CASE s.queue # <<>>
  <2> DEFINE rest == [s EXCEPT !.queue = Tail(@)]
  <2>1. IsSub(rest) /\ rest.timers = s.timers /\ rest.resolver = 0
    BY <1>1 DEF SubOK, IsSub, Fields
  <2>2. NextEvent(c, s) = Yield(c, rest, Head(s.queue))
    BY <1>2 DEF NextEvent
  <2> HIDE DEF rest
  <2> QED
    BY <2>1, <2>2, YieldOK DEF Running, SubOK
<1>3. CASE s.queue = <<>>
  <2> DEFINE call == CHOOSE i \in 1..MaxTimers : i \notin s.timers
             waiting == [s EXCEPT !.phase = "Waiting", !.resolver = call,
                                  !.timers = @ \cup {call}]
  <2>1. \E i \in 1..MaxTimers : i \notin s.timers
    BY <1>3 DEF TimerToSpare, SubOK
  <2>2. call \in 1..MaxTimers
    BY <2>1
  <2>3. NextEvent(c, s) = waiting
    BY <1>3 DEF NextEvent
  <2> HIDE DEF call
  <2>4. call # 0
    BY <2>2, HubConstants
  <2>5. /\ IsSub(waiting) /\ waiting.phase = "Waiting" /\ waiting.resolver = call
        /\ waiting.timers = s.timers \cup {call} /\ waiting.queue = s.queue
    BY DEF SubOK, IsSub, Fields
  <2> HIDE DEF waiting
  <2> QED
    BY <1>3, <2>2, <2>3, <2>4, <2>5 DEF SubOK, Registered, Phases, Running
<1> QED
  BY <1>2, <1>3

LEMMA EnqueueOK ==
  ASSUME NEW es, NEW s, SubOK(s), s.phase # "Waiting"
  PROVE  SubOK(Enqueue(s, es)) /\ Enqueue(s, es).phase = s.phase
<1> DEFINE queue == FoldLeft(Push, s.queue, es)
           shed == s.shed \cup (ToSet(s.queue \o es) \ ToSet(queue))
<1>1. Enqueue(s, es) = [s EXCEPT !.queue = queue, !.shed = shed]
  BY DEF Enqueue, SubOK, IsSub, Fields
<1> HIDE DEF queue, shed
<1> QED
  BY <1>1 DEF SubOK, IsSub, Fields, Registered

LEMMA DeliverOK ==
  ASSUME NEW c, NEW es, NEW s, SubOK(s), s.phase \in Running
  PROVE  SubOK(Deliver(c, s, es)) /\ Deliver(c, s, es).phase \in Running
<1> DEFINE sent == s.sent \o es
           told == [s EXCEPT !.sent = sent]
<1>0. told = [s EXCEPT !.sent = @ \o es]
  BY DEF SubOK, IsSub, Fields
<1>1. CASE s.resolver = 0
  <2>1. Deliver(c, s, es) = Enqueue(told, es)
    BY <1>0, <1>1 DEF Deliver, SubOK, IsSub, Fields
  <2> HIDE DEF sent
  <2>2. SubOK(told) /\ told.phase = s.phase /\ s.phase # "Waiting"
    BY <1>1 DEF SubOK, IsSub, Fields, Registered
  <2> HIDE DEF told
  <2> QED
    BY <2>1, <2>2, EnqueueOK
<1>2. CASE s.resolver # 0
  <2> DEFINE freed == [told EXCEPT !.resolver = 0]
             taken == Yield(c, freed, Head(es))
  <2>1. Deliver(c, s, es) = Enqueue(taken, Tail(es))
    BY <1>0, <1>2 DEF Deliver, SubOK, IsSub, Fields
  <2> HIDE DEF sent
  <2>2. IsSub(freed) /\ freed.timers = s.timers /\ freed.resolver = 0
    BY <1>2 DEF SubOK, IsSub, Fields
  <2> HIDE DEF freed
  <2>3. SubOK(taken) /\ taken.phase \in {"Writing", "Top"}
    BY <2>2, YieldOK DEF SubOK
  <2> HIDE DEF taken
  <2> QED
    BY <2>1, <2>3, EnqueueOK DEF Running
<1> QED
  BY <1>1, <1>2

-------------------------------------------------------------------------------
(* The actions. *)

LEMMA InitHub ==
  ASSUME HubInit
  PROVE  HubInv
<1>1. \A c \in Streams : subs[c] = NewSub("Idle") /\ SubOK(subs[c])
  BY SubOfNewSub DEF HubInit, Phases
<1>2. Open = {}
  BY <1>1 DEF Open, NewSub, Running
<1>3. SlotsMatchStreams
  <2>1. \A ip \in Ips : {c \in Open : IpOf[c] = ip} = {}
    BY <1>2
  <2>2. EventsConns \in Nat /\ Cardinality({}) = 0
    BY FS_EmptySet, HubConstants
  <2> QED
    BY <2>1, <2>2 DEF SlotsMatchStreams, HubInit
<1> QED
  BY <1>1, <1>3 DEF HubInv, HubInit

\* Requests that end before a stream exists take and give nothing.
LEMMA RefusedHub ==
  ASSUME HubInv, NEW c \in Streams, Refuse(c) \/ OpenFails(c)
  PROVE  HubInv'
<1> DEFINE phase == IF Refuse(c) THEN "Refused" ELSE "Failed"
           s == [subs[c] EXCEPT !.phase = phase]
<1>1. subs' = [subs EXCEPT ![c] = s] /\ subs[c].phase = "Idle"
  BY DEF Refuse, OpenFails
<1>2. phase \in Phases \ (Running \cup {"Idle"})
  BY DEF Phases, Running
<1>3. SubOK(subs[c])
  BY DEF HubInv
<1>4. countsByIp' = countsByIp
  <2>1. CASE OpenFails(c)
    BY <2>1, HubConstants DEF OpenFails, Claim, Release, HubInv
  <2> QED
    BY <2>1 DEF Refuse
<1> HIDE DEF phase
<1>5. SubOK(s) /\ s.phase = phase
  BY <1>1, <1>2, <1>3 DEF SubOK, IsSub, Fields, Registered, Running
<1>6. Open' = Open
  BY <1>1, <1>2, <1>5, SameOpen DEF Running
<1> QED
  BY <1>1, <1>4, <1>5, <1>6, UpdatedSubs, SameSlots DEF HubInv

LEMMA ConnectHub ==
  ASSUME HubInv, NEW c \in Streams, Connect(c)
  PROVE  HubInv'
<1> DEFINE at(ip) == {d \in Open : IpOf[d] = ip}
<1>1. SubOK(NewSub("Top")) /\ NewSub("Top").phase = "Top"
  BY SubOfNewSub DEF Phases, NewSub
<1>2. subs' = [subs EXCEPT ![c] = NewSub("Top")] /\ c \notin Open
  BY DEF Connect, Open, Running
<1>3. /\ DOMAIN subs' = Streams /\ subs' = [d \in Streams |-> subs'[d]]
      /\ \A d \in Streams : SubOK(subs'[d])
      /\ Open' = Open \cup {c}
  BY <1>1, <1>2, UpdatedSubs DEF Open, Running
<1>4. IpOf[c] \in Ips /\ countsByIp' = [countsByIp EXCEPT ![IpOf[c]] = @ + 1]
      /\ countsByIp[IpOf[c]] < EventsConns
  BY HubConstants DEF Connect, Claim
<1>5. SlotsMatchStreams'
  <2> SUFFICES ASSUME NEW ip \in Ips
               PROVE  /\ countsByIp'[ip] = Cardinality({d \in Open' : IpOf[d] = ip})
                      /\ countsByIp'[ip] <= EventsConns
    BY DEF SlotsMatchStreams
  <2>1. countsByIp[ip] = Cardinality(at(ip)) /\ countsByIp[ip] <= EventsConns
        /\ countsByIp[ip] \in Nat
    BY DEF HubInv, SlotsMatchStreams
  <2>2. IsFiniteSet(at(ip))
    BY FS_Subset, HubConstants DEF Open
  <2>3. CASE ip = IpOf[c]
    <3>1. {d \in Open' : IpOf[d] = ip} = at(ip) \cup {c} /\ c \notin at(ip)
      BY <1>2, <1>3, <2>3
    <3>2. Cardinality(at(ip) \cup {c}) = Cardinality(at(ip)) + 1
      BY <2>2, <3>1, FS_AddElement
    <3>3. Cardinality({d \in Open' : IpOf[d] = ip}) = countsByIp[ip] + 1
      BY <2>1, <3>1, <3>2, Zenon
    <3>4. countsByIp'[ip] = countsByIp[ip] + 1 /\ countsByIp[ip] < EventsConns
      BY <1>4, <2>3 DEF HubInv
    <3>5. countsByIp[ip] + 1 <= EventsConns
      BY <2>1, <3>4, HubConstants
    <3> QED
      BY <3>3, <3>4, <3>5, Zenon
  <2>4. CASE ip # IpOf[c]
    <3>1. {d \in Open' : IpOf[d] = ip} = at(ip)
      BY <1>3, <2>4
    <3> QED
      BY <1>4, <2>1, <2>4, <3>1 DEF HubInv
  <2> QED
    BY <2>3, <2>4
<1> QED
  BY <1>3, <1>4, <1>5 DEF HubInv

LEMMA CloseHub ==
  ASSUME HubInv, NEW c \in Streams, Close(c)
  PROVE  HubInv'
<1> DEFINE at(ip) == {d \in Open : IpOf[d] = ip}
<1>1. SubOK(NewSub("Closed")) /\ NewSub("Closed").phase = "Closed"
  BY SubOfNewSub DEF Phases, NewSub
<1>2. subs' = [subs EXCEPT ![c] = NewSub("Closed")] /\ c \in Open
  BY DEF Close, Open, Running
<1>3. /\ DOMAIN subs' = Streams /\ subs' = [d \in Streams |-> subs'[d]]
      /\ \A d \in Streams : SubOK(subs'[d])
      /\ Open' = Open \ {c}
  BY <1>1, <1>2, UpdatedSubs DEF Open, Running
<1>4. IpOf[c] \in Ips
      /\ countsByIp' = [countsByIp EXCEPT ![IpOf[c]] = IF @ = 0 THEN 0 ELSE @ - 1]
  BY HubConstants DEF Close, Release
<1>5. \A ip \in Ips :
         /\ countsByIp'[ip] = Cardinality({d \in Open' : IpOf[d] = ip})
         /\ countsByIp'[ip] <= EventsConns
         /\ countsByIp'[ip] \in Nat
  <2> SUFFICES ASSUME NEW ip \in Ips
               PROVE  /\ countsByIp'[ip] = Cardinality({d \in Open' : IpOf[d] = ip})
                      /\ countsByIp'[ip] <= EventsConns
                      /\ countsByIp'[ip] \in Nat
    OBVIOUS
  <2>1. countsByIp[ip] = Cardinality(at(ip)) /\ countsByIp[ip] <= EventsConns
        /\ countsByIp[ip] \in Nat
    BY DEF HubInv, SlotsMatchStreams
  <2>2. IsFiniteSet(at(ip))
    BY FS_Subset, HubConstants DEF Open
  <2>3. CASE ip = IpOf[c]
    <3>1. {d \in Open' : IpOf[d] = ip} = at(ip) \ {c} /\ c \in at(ip)
      BY <1>2, <1>3, <2>3
    <3>2. Cardinality(at(ip) \ {c}) = Cardinality(at(ip)) - 1
      BY <2>2, <3>1, FS_RemoveElement
    <3>3. Cardinality(at(ip)) # 0
      BY <2>2, <3>1, FS_EmptySet
    <3>4. countsByIp'[ip] = IF countsByIp[ip] = 0 THEN 0 ELSE countsByIp[ip] - 1
      BY <1>4, <2>3 DEF HubInv
    <3>5. Cardinality({d \in Open' : IpOf[d] = ip}) = countsByIp[ip] - 1
      BY <2>1, <3>1, <3>2, Zenon
    <3>6. countsByIp[ip] # 0
      BY <2>1, <3>3, Zenon
    <3>7. countsByIp'[ip] = countsByIp[ip] - 1
      BY <3>4, <3>6, Zenon
    <3>8. countsByIp[ip] - 1 <= EventsConns /\ countsByIp[ip] - 1 \in Nat
      BY <2>1, <3>6, HubConstants
    <3> QED
      BY <3>5, <3>7, <3>8, Zenon
  <2>4. CASE ip # IpOf[c]
    <3>1. {d \in Open' : IpOf[d] = ip} = at(ip)
      BY <1>3, <2>4
    <3> QED
      BY <1>4, <2>1, <2>4, <3>1 DEF HubInv
  <2> QED
    BY <2>3, <2>4
<1> QED
  BY <1>3, <1>4, <1>5 DEF HubInv, SlotsMatchStreams

\* A broadcast neither opens nor ends a stream.
LEMMA BroadcastHub ==
  ASSUME HubInv, NEW kinds, Broadcast(kinds)
  PROVE  HubInv'
<1> DEFINE es == [i \in DOMAIN kinds |->
                    [id |-> nextEventId + i - 1, priority |-> kinds[i].priority,
                     topic |-> kinds[i].topic]]
<1>1. subs' = [c \in Streams |-> IF c \in Open THEN Deliver(c, subs[c], es) ELSE subs[c]]
      /\ UNCHANGED countsByIp
  BY DEF Broadcast
<1> HIDE DEF es
<1>2. ASSUME NEW c \in Streams
      PROVE  SubOK(subs'[c]) /\ ((subs'[c].phase \in Running) <=> (subs[c].phase \in Running))
  <2>1. CASE c \in Open
    BY <1>1, <2>1, DeliverOK DEF Open, HubInv
  <2>2. CASE c \notin Open
    BY <1>1, <2>2 DEF HubInv
  <2> QED
    BY <2>1, <2>2
<1>3. Open' = Open
  BY <1>2 DEF Open
<1> QED
  BY <1>1, <1>2, <1>3, SameSlots DEF HubInv

\* Moves of the loop that take no event: their records keep the shape and the
\* resolver, which is 0.
LEMMA LoopHub ==
  ASSUME HubInv, NEW c \in Streams,
         Read(c) \/ Beat(c) \/ BeatDone(c) \/ WriteDone(c)
  PROVE  HubInv'
<1>1. SubOK(subs[c])
  BY DEF HubInv
<1>2. CASE Read(c)
  <2>1. SubOK(NextEvent(c, subs[c])) /\ NextEvent(c, subs[c]).phase \in Running
    BY <1>1, <1>2, NextEventOK DEF Read
  <2> QED
    BY <1>2, <2>1, Moves DEF Read, Running
<1>3. CASE Beat(c)
  <2> DEFINE s == [subs[c] EXCEPT !.phase = "Beating"]
  <2>1. SubOK(s) /\ s.phase \in Running
    BY <1>1, <1>3 DEF Beat, SubOK, IsSub, Fields, Registered, Phases, Running
  <2> QED
    BY <1>3, <2>1, Moves DEF Beat, Running
<1>4. CASE BeatDone(c)
  <2> DEFINE s == [subs[c] EXCEPT !.pendingHeartbeat = FALSE]
  <2>1. SubOK(s) /\ s.phase = "Beating" /\ TimerToSpare(s)
    BY <1>1, <1>4 DEF BeatDone, SubOK, IsSub, Fields, Registered, Phases, TimerToSpare
  <2>2. SubOK(NextEvent(c, s)) /\ NextEvent(c, s).phase \in Running
    BY <2>1, NextEventOK
  <2> QED
    BY <1>4, <2>2, Moves DEF BeatDone, Running
<1>5. CASE WriteDone(c)
  <2> DEFINE written == IF subs[c].aborted THEN subs[c].written
                        ELSE Append(subs[c].written, subs[c].hand)
             s == [subs[c] EXCEPT !.phase = "Top", !.hand = NoEvent, !.written = written]
  <2>1. subs' = [subs EXCEPT ![c] = s] /\ subs[c].phase = "Writing" /\ UNCHANGED countsByIp
    BY <1>1, <1>5 DEF WriteDone, SubOK, IsSub, Fields
  <2> HIDE DEF written
  <2>2. SubOK(s) /\ s.phase \in Running
    BY <1>1, <2>1 DEF SubOK, IsSub, Fields, Registered, Phases, Running
  <2> QED
    BY <2>1, <2>2, Moves DEF Running
<1> QED
  BY <1>2, <1>3, <1>4, <1>5

\* Timers, heartbeats and aborts. A timeout empties the resolver only if it is
\* its own, and then the loop stops waiting.
LEMMA EventsHub ==
  ASSUME HubInv, NEW c \in Streams,
         HeartbeatDue(c) \/ Abort(c) \/ \E i \in 1..MaxTimers : TimerFires(c, i)
  PROVE  HubInv'
<1>1. SubOK(subs[c])
  BY DEF HubInv
<1>2. CASE HeartbeatDue(c)
  <2> DEFINE s == [subs[c] EXCEPT !.pendingHeartbeat = TRUE]
  <2>1. SubOK(s) /\ s.phase \in Running /\ subs[c].phase \in Running
    BY <1>1, <1>2 DEF HeartbeatDue, Open, SubOK, IsSub, Fields, Registered
  <2> QED
    BY <1>2, <2>1, Moves DEF HeartbeatDue
<1>3. CASE Abort(c)
  <2> DEFINE s == [subs[c] EXCEPT !.aborted = TRUE]
  <2>1. SubOK(s) /\ s.phase \in Running /\ subs[c].phase \in Running
    BY <1>1, <1>3 DEF Abort, Open, SubOK, IsSub, Fields, Registered
  <2> QED
    BY <1>3, <2>1, Moves DEF Abort
<1>4. ASSUME NEW i \in 1..MaxTimers, TimerFires(c, i)
      PROVE  HubInv'
  <2> DEFINE left == subs[c].timers \ {i}
             own == subs[c].resolver = i
             resolver == IF own THEN 0 ELSE subs[c].resolver
             phase == IF own THEN "Top" ELSE subs[c].phase
             s == [subs[c] EXCEPT !.timers = left, !.resolver = resolver, !.phase = phase]
  <2>1. subs' = [subs EXCEPT ![c] = s] /\ UNCHANGED countsByIp
    BY <1>1, <1>4 DEF TimerFires, SubOK, IsSub, Fields
  <2>2. i # 0 /\ left \subseteq 1..MaxTimers
    BY <1>1 DEF SubOK
  <2>3. own => subs[c].phase = "Waiting"
    BY <1>1, <2>2 DEF SubOK, Registered
  <2>4. /\ IsSub(s) /\ s.timers = left /\ s.resolver = resolver /\ s.phase = phase
        /\ s.queue = subs[c].queue
    <3> HIDE DEF left, resolver, phase
    <3> QED
      BY <1>1 DEF SubOK, IsSub, Fields
  <2>5. SubOK(s) /\ ((s.phase \in Running) <=> (subs[c].phase \in Running))
    <3> HIDE DEF s, left
    <3> QED
      BY <1>1, <2>2, <2>3, <2>4 DEF SubOK, Registered, Phases, Running
  <2> HIDE DEF s
  <2> QED
    BY <2>1, <2>5, UpdatedSubs, SameOpen, SameSlots DEF HubInv
<1> QED
  BY <1>2, <1>3, <1>4
-------------------------------------------------------------------------------
(* The results. *)

LEMMA NextHub ==
  ASSUME HubInv, [HubNext]_hubVars
  PROVE  HubInv'
<1>1. CASE UNCHANGED hubVars
  BY <1>1 DEF hubVars, HubInv, SlotsMatchStreams, Open
<1>2. ASSUME NEW c \in Streams, Refuse(c) \/ OpenFails(c) \/ Connect(c)
      PROVE  HubInv'
  BY <1>2, RefusedHub, ConnectHub
<1>3. ASSUME NEW n \in 1..MaxBatch, NEW kinds \in [1..n -> Kinds], Broadcast(kinds)
      PROVE  HubInv'
  BY <1>3, BroadcastHub
<1>4. ASSUME NEW c \in Streams, Loop(c) \/ BeatDone(c) \/ WriteDone(c)
      PROVE  HubInv'
  BY <1>4, LoopHub, CloseHub DEF Loop
<1>5. ASSUME NEW c \in Streams, NEW i \in 1..MaxTimers, TimerFires(c, i)
      PROVE  HubInv'
  BY <1>5, EventsHub
<1>6. ASSUME NEW c \in Streams, HeartbeatDue(c) \/ Abort(c)
      PROVE  HubInv'
  BY <1>6, EventsHub
<1> QED
  BY <1>1, <1>2, <1>3, <1>4, <1>5, <1>6 DEF HubNext

\* Whatever timers, broadcasts and reads come between, a stream waits in next()
\* exactly while the hub holds its resolver, and then nothing is queued for it.
THEOREM NoWaiterIsLost == HubSpec => []WaiterIsRegistered
<1>1. HubInv => WaiterIsRegistered
  BY DEF HubInv, WaiterIsRegistered, SubOK, Registered
<1> QED
  BY InitHub, NextHub, <1>1, PTL DEF HubSpec

\* The slots counted for an address are its open streams, and within its cap:
\* nothing that can happen to a request leaks a slot or gives one back twice.
THEOREM NoSlotLeaks == HubSpec => []SlotsMatchStreams
<1>1. HubInv => SlotsMatchStreams
  BY DEF HubInv
<1> QED
  BY InitHub, NextHub, <1>1, PTL DEF HubSpec

(***************************************************************************)
(* What the streams carry                                                  *)
(***************************************************************************)

\* The events of A come before those of B.
Before(A, B) == \A a \in A, b \in B : a.id < b.id

\* What an event is made of.
LEMMA EventFields ==
  ASSUME NEW e \in Event
  PROVE  e.id \in Nat /\ e.priority \in Priorities /\ e.topic \in Topics
BY HubConstants DEF Event

\* What joining two sequences gives.
LEMMA Joined ==
  ASSUME NEW S, NEW p \in Seq(S), NEW q \in Seq(S)
  PROVE  p \o q \in Seq(S) /\ Len(p \o q) = Len(p) + Len(q)
OBVIOUS

\* What follows in order may be joined.
LEMMA InOrderJoin ==
  ASSUME NEW p \in Seq(Event), NEW q \in Seq(Event), InOrder(p), InOrder(q),
         Before(ToSet(p), ToSet(q))
  PROVE  p \o q \in Seq(Event) /\ InOrder(p \o q) /\ ToSet(p \o q) = ToSet(p) \cup ToSet(q)
<1>1. /\ p \o q \in Seq(Event) /\ Len(p \o q) = Len(p) + Len(q)
      /\ \A i \in 1..Len(p) : (p \o q)[i] = p[i]
      /\ \A i \in 1..Len(p \o q) : i \notin 1..Len(p) =>
            i - Len(p) \in 1..Len(q) /\ (p \o q)[i] = q[i - Len(p)]
  OBVIOUS
<1>2. /\ DOMAIN p = 1..Len(p) /\ DOMAIN q = 1..Len(q) /\ DOMAIN (p \o q) = 1..Len(p \o q)
      /\ Len(p) \in Nat /\ Len(q) \in Nat
  BY <1>1
<1>3. ASSUME NEW i \in 1..Len(p \o q), NEW j \in 1..Len(p \o q), i < j
      PROVE  (p \o q)[i].id < (p \o q)[j].id
  <2>1. CASE j \in 1..Len(p)
    <3>1. i \in 1..Len(p)
      BY <1>1, <1>2, <1>3, <2>1
    <3> QED
      BY <1>1, <1>2, <1>3, <2>1, <3>1 DEF InOrder
  <2>2. CASE j \notin 1..Len(p) /\ i \in 1..Len(p)
    <3>1. p[i] \in ToSet(p) /\ q[j - Len(p)] \in ToSet(q)
      BY <1>1, <1>2, <2>2 DEF ToSet
    <3>2. (p \o q)[i] = p[i] /\ (p \o q)[j] = q[j - Len(p)]
      BY <1>1, <2>2
    <3> QED
      BY <3>1, <3>2 DEF Before
  <2>3. CASE j \notin 1..Len(p) /\ i \notin 1..Len(p)
    <3>1. /\ i - Len(p) \in 1..Len(q) /\ j - Len(p) \in 1..Len(q)
          /\ (p \o q)[i] = q[i - Len(p)] /\ (p \o q)[j] = q[j - Len(p)]
      BY <1>1, <2>3
    <3>2. i - Len(p) < j - Len(p)
      BY <1>2, <1>3
    <3> QED
      BY <1>2, <3>1, <3>2 DEF InOrder
  <2> QED
    BY <2>1, <2>2, <2>3
<1> QED
  BY <1>1, <1>2, <1>3, ElemsJoin DEF InOrder

\* One event is in order.
LEMMA OneEvent ==
  ASSUME NEW e
  PROVE  ToSet(<<e>>) = {e} /\ InOrder(<<e>>)
BY DEF ToSet, InOrder

\* The first of a queue comes before the rest.
LEMMA HeadAndTail ==
  ASSUME NEW q \in Seq(Event), q # <<>>, InOrder(q)
  PROVE  /\ Head(q) \in Event /\ Tail(q) \in Seq(Event) /\ InOrder(Tail(q))
         /\ ToSet(q) = {Head(q)} \cup ToSet(Tail(q)) /\ Before({Head(q)}, ToSet(Tail(q)))
         /\ Len(Tail(q)) = Len(q) - 1
<1> DEFINE n == Len(q)
           r == Tail(q)
<1>1. n \in Nat /\ n > 0 /\ DOMAIN q = 1..n /\ Head(q) = q[1] /\ \A i \in 1..n : q[i] \in Event
  OBVIOUS
<1>2. r \in Seq(Event) /\ Len(r) = n - 1 /\ DOMAIN r = 1..(n - 1) /\ \A i \in 1..(n - 1) : r[i] = q[i + 1]
  OBVIOUS
<1> HIDE DEF n, r
<1>3. InOrder(r)
  <2> SUFFICES ASSUME NEW i \in 1..(n - 1), NEW j \in 1..(n - 1), i < j PROVE r[i].id < r[j].id
    BY <1>2 DEF InOrder
  <2>1. i + 1 \in 1..n /\ j + 1 \in 1..n /\ i + 1 < j + 1
    BY <1>1
  <2> QED
    BY <1>1, <1>2, <2>1 DEF InOrder
<1>4. ToSet(q) = {q[1]} \cup ToSet(r)
  <2>1. \A i \in 1..n : i = 1 \/ (i - 1 \in 1..(n - 1) /\ q[i] = r[i - 1])
    BY <1>1, <1>2
  <2>2. \A i \in 1..(n - 1) : i + 1 \in 1..n
    BY <1>1
  <2>3. ASSUME NEW i \in 1..n PROVE q[i] \in {q[1]} \cup ToSet(r)
    <3>1. CASE i = 1
      BY <3>1
    <3>2. CASE i - 1 \in 1..(n - 1) /\ q[i] = r[i - 1]
      BY <1>2, <3>2 DEF ToSet
    <3> QED
      BY <2>1, <3>1, <3>2
  <2>4. {q[1]} \cup ToSet(r) \subseteq ToSet(q)
    BY <1>1, <1>2, <2>2 DEF ToSet
  <2> QED
    BY <1>1, <2>3, <2>4 DEF ToSet
<1>5. Before({q[1]}, ToSet(r))
  <2>1. \A i \in 1..(n - 1) : i + 1 \in 1..n /\ 1 \in 1..n /\ 1 < i + 1
    BY <1>1
  <2>2. \A i \in 1..(n - 1) : q[1].id < r[i].id
    BY <1>1, <1>2, <2>1 DEF InOrder
  <2> QED
    BY <1>2, <2>2 DEF Before, ToSet
<1> QED
  BY <1>1, <1>2, <1>3, <1>4, <1>5 DEF n, r

\* Taking one event out leaves the others, in order.
LEMMA RemovedAt ==
  ASSUME NEW q \in Seq(Event), InOrder(q), NEW i \in 1..Len(q), NEW r, r = RemoveAt(q, i)
  PROVE  /\ r \in Seq(Event) /\ InOrder(r) /\ Len(r) = Len(q) - 1
         /\ ToSet(r) = ToSet(q) \ {q[i]}
<1> DEFINE n == Len(q)
           from(j) == IF j < i THEN j ELSE j + 1
<1>1. n \in Nat /\ DOMAIN q = 1..n /\ \A j \in 1..n : q[j] \in Event
  OBVIOUS
<1>2. /\ r \in Seq(Event) /\ Len(r) = n - 1 /\ DOMAIN r = 1..(n - 1)
      /\ \A j \in 1..(n - 1) : r[j] = q[from(j)]
  <2> DEFINE a == SubSeq(q, 1, i - 1)
             b == SubSeq(q, i + 1, n)
  <2>1. /\ a \in Seq(Event) /\ Len(a) = i - 1
        /\ \A j \in 1..(i - 1) : a[j] = q[j]
    OBVIOUS
  <2>2. /\ b \in Seq(Event) /\ Len(b) = n - i
        /\ \A j \in 1..(n - i) : b[j] = q[i + j]
    OBVIOUS
  <2>3. r = a \o b /\ i \in 1..n
    BY DEF RemoveAt
  <2> HIDE DEF a, b, n
  <2>4. r \in Seq(Event) /\ Len(r) = n - 1
    <3>1. r \in Seq(Event) /\ Len(r) = Len(a) + Len(b)
      BY <2>1, <2>2, <2>3, Joined, Zenon
    <3>2. (i - 1) + (n - i) = n - 1
      BY <1>1, <2>3
    <3> QED
      BY <2>1, <2>2, <3>1, <3>2
  <2>5. ASSUME NEW j \in 1..(n - 1) PROVE r[j] = q[from(j)]
    <3>1. CASE j < i
      <4>1. j \in 1..(i - 1) /\ r[j] = a[j]
        BY <1>1, <2>1, <2>2, <2>3, <3>1
      <4> QED
        BY <2>1, <3>1, <4>1
    <3>2. CASE ~(j < i)
      <4>1. j - (i - 1) \in 1..(n - i) /\ r[j] = b[j - (i - 1)] /\ i + (j - (i - 1)) = j + 1
        BY <1>1, <2>1, <2>2, <2>3, <3>2
      <4> QED
        BY <2>2, <3>2, <4>1
    <3> QED
      BY <3>1, <3>2
  <2> QED
    BY <2>4, <2>5
<1>3. /\ \A j \in 1..(n - 1) : from(j) \in 1..n /\ from(j) # i
      /\ \A j, k \in 1..(n - 1) : j < k => from(j) < from(k)
      /\ \A k \in 1..n : k # i => \E j \in 1..(n - 1) : k = from(j)
  <2>1. \A k \in 1..n : k < i => k \in 1..(n - 1) /\ k = from(k)
    BY <1>1
  <2>2. \A k \in 1..n : k > i => k - 1 \in 1..(n - 1) /\ k = from(k - 1)
    BY <1>1
  <2>3. \A k \in 1..n : k # i => k < i \/ k > i
    BY <1>1
  <2>4. \A j \in 1..(n - 1) : from(j) \in 1..n /\ from(j) # i
    BY <1>1
  <2>5. \A j, k \in 1..(n - 1) : j < k => from(j) < from(k)
    BY <1>1
  <2> HIDE DEF from, n
  <2> QED
    BY <2>1, <2>2, <2>3, <2>4, <2>5
<1>4. \A j, k \in 1..n : j # k => q[j] # q[k]
  <2>1. \A j, k \in 1..n : j < k => q[j].id < q[k].id /\ q[j].id \in Nat
    BY <1>1, EventFields DEF InOrder
  <2>2. \A j, k \in 1..n : j # k => j < k \/ k < j
    BY <1>1
  <2>3. \A j, k \in 1..n : j < k => q[j] # q[k]
    BY <2>1
  <2> QED
    BY <2>2, <2>3
<1> HIDE DEF n, from
<1>5. InOrder(r)
  BY <1>1, <1>2, <1>3 DEF InOrder
<1>6. ToSet(r) = ToSet(q) \ {q[i]}
  <2>1. i \in 1..n
    BY DEF n
  <2>2. \A j \in 1..(n - 1) : r[j] \in ToSet(q) \ {q[i]}
    BY <1>1, <1>2, <1>3, <1>4, <2>1 DEF ToSet
  <2>3. \A k \in 1..n : k # i => q[k] \in ToSet(r)
    BY <1>2, <1>3 DEF ToSet
  <2> QED
    BY <1>1, <1>2, <2>2, <2>3 DEF ToSet
<1> QED
  BY <1>2, <1>5, <1>6 DEF n

-------------------------------------------------------------------------------
(* What a broadcast leaves in a queue. *)

\* The indexes of the events of a priority.
QueuedAt(queue, p) == {i \in DOMAIN queue : queue[i].priority = p}

\* evictOne takes out the oldest LOW event, else the oldest MEDIUM one, else none.
LEMMA Evicted ==
  ASSUME NEW g \in Seq(Event), InOrder(g)
  PROVE  \/ /\ EvictOne(g) = g
            /\ \A e \in ToSet(g) : e.priority = "HIGH"
         \/ \E i \in 1..Len(g) :
               /\ EvictOne(g) = RemoveAt(g, i)
               /\ g[i].priority # "HIGH"
               /\ g[i].priority = "MEDIUM" => \A e \in ToSet(g) : e.priority # "LOW"
               /\ \A e \in ToSet(g) \ {g[i]} : e.priority = g[i].priority => g[i].id < e.id
<1>1. DOMAIN g = 1..Len(g) /\ Len(g) \in Nat /\ \A i \in 1..Len(g) : g[i] \in Event
  OBVIOUS
<1>2. ASSUME NEW p, QueuedAt(g, p) # {}
      PROVE  /\ Min(QueuedAt(g, p)) \in 1..Len(g) /\ g[Min(QueuedAt(g, p))].priority = p
             /\ \A e \in ToSet(g) \ {g[Min(QueuedAt(g, p))]} :
                   e.priority = p => g[Min(QueuedAt(g, p))].id < e.id
  <2> DEFINE T == QueuedAt(g, p)
             m == Min(T)
  <2>1. T \subseteq Nat /\ T \subseteq 1..Len(g)
    BY <1>1 DEF QueuedAt
  <2>2. \E n \in T : \A k \in T : n <= k
    BY <1>2, <2>1, LeastNumber
  <2>3. m \in T /\ \A k \in T : m <= k
    BY <2>2 DEF Min
  <2> HIDE DEF m
  <2>4. ASSUME NEW k \in 1..Len(g), g[k] # g[m], g[k].priority = p PROVE g[m].id < g[k].id
    <3>1. k \in T /\ m \in 1..Len(g) /\ m # k
      BY <1>1, <2>1, <2>3, <2>4 DEF QueuedAt
    <3>2. m < k
      BY <2>3, <3>1
    <3> QED
      BY <1>1, <3>1, <3>2 DEF InOrder
  <2>5. m \in 1..Len(g) /\ g[m].priority = p
    BY <2>1, <2>3 DEF QueuedAt
  <2>6. \A e \in ToSet(g) \ {g[m]} : e.priority = p => g[m].id < e.id
    BY <1>1, <2>4 DEF ToSet
  <2> QED
    BY <2>5, <2>6 DEF m
<1>3. CASE QueuedAt(g, "LOW") # {}
  <2> DEFINE i == Min(QueuedAt(g, "LOW"))
  <2>1. EvictOne(g) = RemoveAt(g, i)
    BY <1>3 DEF EvictOne, QueuedAt
  <2>2. /\ i \in 1..Len(g) /\ g[i].priority = "LOW"
        /\ \A e \in ToSet(g) \ {g[i]} : e.priority = "LOW" => g[i].id < e.id
    BY <1>2, <1>3
  <2> HIDE DEF i
  <2> QED
    BY <2>1, <2>2
<1>4. CASE QueuedAt(g, "LOW") = {} /\ QueuedAt(g, "MEDIUM") # {}
  <2> DEFINE i == Min(QueuedAt(g, "MEDIUM"))
  <2>1. EvictOne(g) = RemoveAt(g, i)
    BY <1>4 DEF EvictOne, QueuedAt
  <2>2. /\ i \in 1..Len(g) /\ g[i].priority = "MEDIUM"
        /\ \A e \in ToSet(g) \ {g[i]} : e.priority = "MEDIUM" => g[i].id < e.id
    BY <1>2, <1>4
  <2>3. \A e \in ToSet(g) : e.priority # "LOW"
    BY <1>4 DEF ToSet, QueuedAt
  <2> HIDE DEF i
  <2> QED
    BY <2>1, <2>2, <2>3
<1>5. CASE QueuedAt(g, "LOW") = {} /\ QueuedAt(g, "MEDIUM") = {}
  <2>1. EvictOne(g) = g
    BY <1>5 DEF EvictOne, QueuedAt
  <2>2. \A i \in 1..Len(g) : g[i].priority = "HIGH"
    BY <1>1, <1>5, EventFields DEF QueuedAt, Priorities
  <2> QED
    BY <1>1, <2>1, <2>2 DEF ToSet
<1> QED
  BY <1>3, <1>4, <1>5

\* A queue is above its bound only with HIGH events.
Bounded(queue) ==
    Len(queue) > PerConnQueueMax => \A e \in ToSet(queue) : e.priority = "HIGH"

\* What may have been shed if the queue is what is left.
ShedBefore(dropped, queue) ==
    /\ \A e \in dropped : e.priority # "HIGH"
    /\ \A e \in dropped, k \in ToSet(queue) :
          /\ (e.priority = "MEDIUM") => (k.priority # "LOW")
          /\ (k.priority = e.priority) => (e.id < k.id)
    /\ dropped # {} => Len(queue) >= PerConnQueueMax

Queued(queue) == queue \in Seq(Event) /\ InOrder(queue) /\ Bounded(queue)

\* One event more.
LEMMA Pushed ==
  ASSUME NEW q, Queued(q), NEW dropped \in SUBSET Event, ShedBefore(dropped, q),
         NEW e \in Event, Before(ToSet(q), {e}), Before(dropped, {e}),
         NEW r, r = Push(q, e)
  PROVE  /\ Queued(r) /\ ToSet(r) \subseteq ToSet(q) \cup {e}
         /\ ShedBefore(dropped \cup ((ToSet(q) \cup {e}) \ ToSet(r)), r)
<1> DEFINE g == q \o <<e>>
<1>1. q \in Seq(Event) /\ InOrder(q) /\ Bounded(q) /\ Len(q) \in Nat /\ PerConnQueueMax \in Nat
  BY HubConstants DEF Queued
<1>2. /\ g \in Seq(Event) /\ InOrder(g) /\ ToSet(g) = ToSet(q) \cup {e}
      /\ Len(g) = Len(q) + 1
  <2>1. <<e>> \in Seq(Event) /\ Len(<<e>>) = 1
    OBVIOUS
  <2>2. InOrder(<<e>>) /\ ToSet(<<e>>) = {e}
    BY OneEvent
  <2>3. Before(ToSet(q), ToSet(<<e>>))
    BY <2>2
  <2>4. Len(g) = Len(q) + 1
    BY <1>1, <2>1, Joined
  <2> QED
    BY <1>1, <2>1, <2>2, <2>3, <2>4, InOrderJoin
<1>3. r = IF Len(g) > PerConnQueueMax THEN EvictOne(g) ELSE g
  <2>1. Append(q, e) = g
    BY <1>1
  <2> QED
    BY <2>1 DEF Push
<1>4. \A x \in ToSet(g) : x \in Event
  BY <1>2 DEF ToSet
<1>5. e \notin ToSet(q) /\ \A x \in ToSet(q) \cup dropped : x.id < e.id
  BY EventFields DEF Before
<1> HIDE DEF g
<1>6. ShedBefore(dropped, g) \/ e.priority # "HIGH"
  BY <1>1, <1>2, <1>5 DEF ShedBefore
<1>7. CASE Len(g) <= PerConnQueueMax
  <2>1. r = g /\ dropped = {}
    BY <1>1, <1>2, <1>3, <1>7 DEF ShedBefore
  <2> QED
    BY <1>1, <1>2, <1>7, <2>1 DEF Queued, Bounded, ShedBefore
<1>8. CASE Len(g) > PerConnQueueMax /\ EvictOne(g) = g /\ \A x \in ToSet(g) : x.priority = "HIGH"
  <2>1. r = g
    BY <1>3, <1>8
  <2> QED
    BY <1>1, <1>2, <1>5, <1>6, <1>8, <2>1 DEF Queued, Bounded, ShedBefore
<1>9. ASSUME Len(g) > PerConnQueueMax, NEW i \in 1..Len(g), EvictOne(g) = RemoveAt(g, i),
             g[i].priority # "HIGH",
             g[i].priority = "MEDIUM" => \A x \in ToSet(g) : x.priority # "LOW",
             \A x \in ToSet(g) \ {g[i]} : x.priority = g[i].priority => g[i].id < x.id
      PROVE  /\ Queued(r) /\ ToSet(r) \subseteq ToSet(q) \cup {e}
             /\ ShedBefore(dropped \cup ((ToSet(q) \cup {e}) \ ToSet(r)), r)
  <2> DEFINE v == g[i]
  <2>1. /\ r \in Seq(Event) /\ InOrder(r) /\ Len(r) = Len(q) /\ ToSet(r) = ToSet(g) \ {v}
    <3>1. r = RemoveAt(g, i) /\ (Len(q) + 1) - 1 = Len(q)
      BY <1>1, <1>3, <1>9
    <3> QED
      BY <1>2, <3>1, RemovedAt
  <2>2. v \in ToSet(g) /\ v.priority \in {"LOW", "MEDIUM"}
    <3>1. v \in ToSet(g)
      BY <1>2 DEF ToSet
    <3> QED
      BY <1>4, <1>9, <3>1, EventFields DEF Priorities
  <2>3. Len(r) >= PerConnQueueMax
    BY <1>1, <1>2, <1>9, <2>1
  <2> HIDE DEF v
  <2>4. (ToSet(q) \cup {e}) \ ToSet(r) = {v}
    BY <1>2, <2>1, <2>2
  <2>5. /\ v.priority # "HIGH"
        /\ v.priority = "MEDIUM" => \A x \in ToSet(g) : x.priority # "LOW"
        /\ \A x \in ToSet(g) \ {v} : x.priority = v.priority => v.id < x.id
    BY <1>9 DEF v
  <2>6. Bounded(r)
    <3> SUFFICES ASSUME Len(r) > PerConnQueueMax PROVE \A x \in ToSet(r) : x.priority = "HIGH"
      BY DEF Bounded
    <3>1. \A x \in ToSet(q) : x.priority = "HIGH"
      BY <1>1, <2>1 DEF Bounded
    <3> QED
      BY <1>2, <2>1, <2>2, <2>5, <3>1
  <2>7. ASSUME NEW d \in dropped, NEW k \in ToSet(r)
        PROVE  /\ (d.priority = "MEDIUM") => (k.priority # "LOW")
               /\ (k.priority = d.priority) => (d.id < k.id)
    <3>1. CASE k \in ToSet(q)
      BY <3>1 DEF ShedBefore
    <3>2. CASE k = e
      <4>1. d.id < k.id
        BY <1>5, <3>2
      <4>2. ASSUME d.priority = "MEDIUM", k.priority = "LOW" PROVE FALSE
        <5>1. \A x \in ToSet(q) : x.priority # "LOW"
          BY <4>2 DEF ShedBefore
        <5>2. e # v /\ e \in ToSet(g)
          BY <1>2, <2>1, <3>2
        <5>3. v \in ToSet(q) /\ v.priority = "MEDIUM"
          BY <1>2, <2>2, <5>1, <5>2
        <5> QED
          BY <2>5, <3>2, <4>2, <5>2, <5>3
      <4> QED
        BY <4>1, <4>2
    <3> QED
      BY <1>2, <2>1, <3>1, <3>2
  <2>8. ASSUME NEW k \in ToSet(r)
        PROVE  /\ (v.priority = "MEDIUM") => (k.priority # "LOW")
               /\ (k.priority = v.priority) => (v.id < k.id)
    BY <2>1, <2>5
  <2>9. ShedBefore(dropped \cup {v}, r)
    BY <2>3, <2>5, <2>7, <2>8 DEF ShedBefore
  <2> QED
    BY <1>2, <2>1, <2>4, <2>6, <2>9 DEF Queued
<1>10. CASE Len(g) > PerConnQueueMax
  <2>1. \/ EvictOne(g) = g /\ \A x \in ToSet(g) : x.priority = "HIGH"
        \/ \E i \in 1..Len(g) :
              /\ EvictOne(g) = RemoveAt(g, i)
              /\ g[i].priority # "HIGH"
              /\ g[i].priority = "MEDIUM" => \A x \in ToSet(g) : x.priority # "LOW"
              /\ \A x \in ToSet(g) \ {g[i]} : x.priority = g[i].priority => g[i].id < x.id
    BY <1>2, Evicted
  <2> QED
    BY <1>8, <1>9, <1>10, <2>1
<1> QED
  BY <1>1, <1>2, <1>7, <1>10

\* A fold of a queue over some of the indexes extends to one more.
LEMMA PushFoldGrows ==
  ASSUME NEW s, NEW base, NEW k \in Nat, NEW g, IsFold(g, Push, base, s, k)
  PROVE  \E h : IsFold(h, Push, base, s, k + 1)
<1> DEFINE h == [T \in SUBSET (1..(k + 1)) |->
                    IF T = {} THEN base ELSE Push(g[T \ {Max(T)}], s[Max(T)])]
<1>1. \A T \in SUBSET (1..(k + 1)) : T # {} => T \ {Max(T)} \in SUBSET (1..k)
  BY LargestOf, k + 1 \in Nat
<1>2. \A T \in SUBSET (1..k) : h[T] = g[T]
  BY SUBSET (1..k) \subseteq SUBSET (1..(k + 1)) DEF IsFold
<1>3. IsFold(h, Push, base, s, k + 1)
  BY <1>1, <1>2 DEF IsFold
<1> QED
  BY <1>3

\* So it is defined on all of them.
LEMMA PushFoldExists ==
  ASSUME NEW s, NEW base, NEW n \in Nat
  PROVE  \E h : IsFold(h, Push, base, s, n)
<1> DEFINE Folds(k) == \E h : IsFold(h, Push, base, s, k)
           folded == {k \in 0..n : Folds(k)}
<1>1. Folds(0)
  <2> DEFINE h == [T \in SUBSET (1..0) |-> IF T = {} THEN base ELSE Push(base, s[Max(T)])]
  <2>1. \A T \in SUBSET (1..0) : T = {}
    OBVIOUS
  <2>2. IsFold(h, Push, base, s, 0)
    BY <2>1 DEF IsFold
  <2> QED
    BY <2>2
<1>2. \A k \in Nat : Folds(k) => Folds(k + 1)
  BY PushFoldGrows
<1> HIDE DEF Folds
<1>3. 0 \in folded /\ \A k \in 1..n : k - 1 \in folded => k \in folded
  <2> SUFFICES ASSUME NEW k \in 1..n, k - 1 \in folded PROVE Folds(k)
    BY <1>1
  <2>1. k - 1 \in Nat /\ (k - 1) + 1 = k
    OBVIOUS
  <2> QED
    BY <1>2, <2>1
<1> QED
  BY <1>3, StepByStep DEF Folds

\* The fold of a queue over a broadcast goes event by event.
LEMMA PushRun ==
  ASSUME NEW S, NEW s \in Seq(S), NEW base
  PROVE  \E run : /\ run[0] = base
                  /\ \A i \in 1..Len(s) : run[i] = Push(run[i - 1], s[i])
                  /\ FoldLeft(Push, base, s) = run[Len(s)]
<1> DEFINE n == Len(s)
           h == CHOOSE g : IsFold(g, Push, base, s, n)
           run == [i \in 0..n |-> h[1..i]]
<1>1. n \in Nat /\ DOMAIN s = 1..n
  OBVIOUS
<1>2. FoldLeft(Push, base, s) = h[1..n]
  BY <1>1 DEF FoldLeft, MapThenFoldSet, IsFold
<1>3. IsFold(h, Push, base, s, n)
  BY <1>1, PushFoldExists
<1> HIDE DEF h, n
<1>4. 1..0 = {} /\ h[1..0] = base
  BY <1>1, <1>3 DEF IsFold
<1>5. ASSUME NEW i \in 1..n PROVE run[i] = Push(run[i - 1], s[i])
  <2>1. i - 1 \in Nat /\ (i - 1) + 1 = i /\ i \in 0..n /\ i - 1 \in 0..n /\ 1..i \subseteq 1..n
    BY <1>1
  <2>2. Max(1..i) = i /\ (1..i) \ {Max(1..i)} = 1..(i - 1) /\ 1..i # {}
    BY <2>1, LargestOfFirst
  <2>3. h[1..i] = Push(h[(1..i) \ {Max(1..i)}], s[Max(1..i)])
    BY <1>3, <2>1, <2>2 DEF IsFold
  <2> QED
    BY <2>1, <2>2, <2>3
<1>6. run[0] = base /\ run[n] = h[1..n]
  BY <1>1, <1>4
<1> HIDE DEF run
<1> QED
  BY <1>2, <1>5, <1>6 DEF n

\* What is broadcast comes after what is queued. Then the queue that is left has some of
\* both, and the rest was shed in the order that evictOne promises.
LEMMA QueuedOrShed ==
  ASSUME NEW q, Queued(q), NEW es \in Seq(Event), InOrder(es), Before(ToSet(q), ToSet(es)),
         NEW r, r = FoldLeft(Push, q, es)
  PROVE  /\ Queued(r) /\ ToSet(r) \subseteq ToSet(q) \cup ToSet(es)
         /\ ShedBefore((ToSet(q) \cup ToSet(es)) \ ToSet(r), r)
<1> DEFINE n == Len(es)
           P(i) == ToSet(q) \cup {es[j] : j \in 1..i}
<1>1. n \in Nat /\ DOMAIN es = 1..n /\ \A i \in 1..n : es[i] \in Event
  OBVIOUS
<1>2. PICK run : /\ run[0] = q
                 /\ \A i \in 1..n : run[i] = Push(run[i - 1], es[i])
                 /\ FoldLeft(Push, q, es) = run[n]
  BY PushRun
<1>3. ToSet(es) = {es[j] : j \in 1..n} /\ ToSet(q) \subseteq Event
  BY <1>1 DEF ToSet, Queued
<1> HIDE DEF n
<1> DEFINE Good(i) == /\ Queued(run[i]) /\ ToSet(run[i]) \subseteq P(i)
                      /\ ShedBefore(P(i) \ ToSet(run[i]), run[i])
           good == {i \in 0..n : Good(i)}
<1>4. Good(0)
  <2>1. P(0) = ToSet(q)
    OBVIOUS
  <2> QED
    BY <1>2, <2>1 DEF ShedBefore
<1>5. ASSUME NEW i \in 1..n, Good(i - 1) PROVE Good(i)
  <2> DEFINE u == run[i - 1]
             v == run[i]
             e == es[i]
             dropped == P(i - 1) \ ToSet(u)
  <2>1. P(i) = P(i - 1) \cup {e}
    <3>1. \A j \in 1..i : j = i \/ j \in 1..(i - 1)
      BY <1>1
    <3> QED
      BY <1>1, <3>1
  <2>2. P(i - 1) \subseteq Event /\ e \in Event
    BY <1>1, <1>3
  <2>3. Before(P(i - 1), {e})
    <3>1. \A x \in ToSet(q) : x.id < e.id
      BY <1>1 DEF Before, ToSet
    <3>2. \A j \in 1..(i - 1) : es[j].id < e.id
      BY <1>1 DEF InOrder
    <3> QED
      BY <3>1, <3>2 DEF Before
  <2>4. v = Push(u, e)
    BY <1>2
  <2> HIDE DEF P
  <2>5. Queued(u) /\ ToSet(u) \subseteq P(i - 1) /\ ShedBefore(dropped, u)
    BY <1>5
  <2>6. Before(ToSet(u), {e}) /\ Before(dropped, {e}) /\ dropped \in SUBSET Event
    BY <2>2, <2>3, <2>5 DEF Before
  <2> HIDE DEF u, v, e
  <2>7. /\ Queued(v) /\ ToSet(v) \subseteq ToSet(u) \cup {e}
        /\ ShedBefore(dropped \cup ((ToSet(u) \cup {e}) \ ToSet(v)), v)
    BY <2>2, <2>4, <2>5, <2>6, Pushed
  <2>8. P(i) \ ToSet(v) = dropped \cup ((ToSet(u) \cup {e}) \ ToSet(v))
    <3>1. e \notin dropped
      BY <2>2, <2>6, EventFields DEF Before
    <3> QED
      BY <2>1, <2>5, <2>7, <3>1 DEF dropped
  <2>9. ToSet(v) \subseteq P(i) /\ ShedBefore(P(i) \ ToSet(v), v)
    BY <2>1, <2>5, <2>7, <2>8
  <2> QED
    BY <2>7, <2>9 DEF v
<1> HIDE DEF Good
<1>6. 0 \in good /\ \A i \in 1..n : i - 1 \in good => i \in good
  BY <1>1, <1>4, <1>5
<1>7. Good(n)
  BY <1>1, <1>6, StepByStep
<1> QED
  BY <1>2, <1>3, <1>7 DEF Good

-------------------------------------------------------------------------------
(* What becomes of the events sent to a stream. *)

\* What a stream holds of what it was sent.
Held(s) == {s.hand} \ {NoEvent}
Carried(s) == ToSet(s.written) \cup Held(s) \cup ToSet(s.queue)

\* Of the events sent to the stream of c, all with ids below n, those of P have not been
\* queued, shed or yielded yet.
Owes(c, s, n, P) ==
    /\ s.written \in Seq(Event) /\ InOrder(s.written)
    /\ s.sent \in Seq(Event) /\ InOrder(s.sent)
    /\ Queued(s.queue)
    /\ s.hand \in Event \cup {NoEvent} /\ (s.hand # NoEvent <=> s.phase = "Writing")
    /\ Before(ToSet(s.written), Held(s)) /\ Before(ToSet(s.written), ToSet(s.queue))
    /\ Before(Held(s), ToSet(s.queue))
    /\ Carried(s) \cup s.shed \cup P \subseteq ToSet(s.sent)
    /\ Carried(s) \cap s.shed = {} /\ P \cap (Carried(s) \cup s.shed) = {}
    /\ \A e \in ToSet(s.written) \cup Held(s) : e.topic \in Wants[c]
    /\ ~s.aborted =>
          \A e \in ToSet(s.sent) : e.topic \in Wants[c] => e \in Carried(s) \cup s.shed \cup P
    /\ \A e \in ToSet(s.sent) : e.id < n

StreamOK(c, s, n) == Owes(c, s, n, {})

\* Nothing queued.
LEMMA NoEvents ==
  /\ <<>> \in Seq(Event) /\ InOrder(<<>>) /\ ToSet(<<>>) = {} /\ Queued(<<>>)
  BY DEF InOrder, ToSet, Queued, Bounded

\* A stream that has just opened has been sent nothing.
LEMMA NewStreamOK ==
  ASSUME NEW c, NEW n, NEW phase \in Phases \ {"Writing"}
  PROVE  StreamOK(c, NewSub(phase), n)
<1> DEFINE s == NewSub(phase)
<1>1. /\ s.phase = phase /\ s.queue = <<>> /\ s.hand = NoEvent /\ s.sent = <<>> /\ s.shed = {}
      /\ s.written = <<>>
  BY DEF NewSub
<1> HIDE DEF s
<1>2. Held(s) = {} /\ Carried(s) = {}
  BY <1>1, NoEvents DEF Held, Carried
<1>3. Owes(c, s, n, {})
  BY <1>1, <1>2, NoEvents DEF Owes, Before
<1> QED
  BY <1>3 DEF StreamOK, s

\* Nothing of what Owes speaks of has changed, or the client has left.
LEMMA SameStream ==
  ASSUME NEW c, NEW n, NEW P, NEW s, Owes(c, s, n, P), NEW t,
         t.written = s.written, t.hand = s.hand, t.queue = s.queue, t.sent = s.sent,
         t.shed = s.shed, (t.phase = "Writing") <=> (s.phase = "Writing"), s.aborted => t.aborted
  PROVE  Owes(c, t, n, P)
<1>1. Held(t) = Held(s) /\ Carried(t) = Carried(s)
  BY DEF Held, Carried
<1> QED
  BY <1>1 DEF Owes

\* The loop takes e, which is the next in order, and writes it or passes over it.
LEMMA YieldFlow ==
  ASSUME NEW c, NEW n, NEW P, NEW s, IsSub(s), Owes(c, s, n, P), NEW e \in P, e \in Event,
         s.hand = NoEvent, Before(ToSet(s.written), {e}), Before({e}, ToSet(s.queue))
  PROVE  Owes(c, Yield(c, s, e), n, P \ {e})
<1> DEFINE t == Yield(c, s, e)
<1>1. /\ t.written = s.written /\ t.queue = s.queue /\ t.sent = s.sent /\ t.shed = s.shed
      /\ t.aborted = s.aborted
      /\ e.topic \in Wants[c] => t.hand = e /\ t.phase = "Writing"
      /\ e.topic \notin Wants[c] => t.hand = s.hand /\ t.phase = "Top"
  BY DEF Yield, IsSub, Fields
<1> HIDE DEF t
<1>2. Held(s) = {} /\ e # NoEvent
  BY HubConstants DEF Held
<1>3. CASE e.topic \in Wants[c]
  <2>1. Held(t) = {e} /\ Carried(t) = Carried(s) \cup {e}
    BY <1>1, <1>2, <1>3 DEF Held, Carried
  <2> QED
    BY <1>1, <1>2, <1>3, <2>1 DEF Owes, t
<1>4. CASE e.topic \notin Wants[c]
  <2>1. Held(t) = {} /\ Carried(t) = Carried(s)
    BY <1>1, <1>2, <1>4 DEF Held, Carried
  <2> QED
    BY <1>1, <1>2, <1>4, <2>1 DEF Owes, t
<1> QED
  BY <1>3, <1>4

\* next() goes on from the head of the queue, or waits.
LEMMA NextEventFlow ==
  ASSUME NEW c, NEW n, NEW s, IsSub(s), StreamOK(c, s, n), s.phase \in {"Top", "Beating"}
  PROVE  StreamOK(c, NextEvent(c, s), n)
<1>1. CASE s.queue # <<>>
  <2> DEFINE rest == Tail(s.queue)
             e == Head(s.queue)
             t == [s EXCEPT !.queue = rest]
  <2>1. s.queue \in Seq(Event) /\ InOrder(s.queue) /\ Bounded(s.queue) /\ s.hand = NoEvent
    BY DEF StreamOK, Owes, Queued
  <2>2. /\ e \in Event /\ rest \in Seq(Event) /\ InOrder(rest)
        /\ ToSet(s.queue) = {e} \cup ToSet(rest) /\ Before({e}, ToSet(rest))
        /\ Len(rest) = Len(s.queue) - 1
    BY <1>1, <2>1, HeadAndTail
  <2>3. NextEvent(c, s) = Yield(c, t, e)
    BY <1>1 DEF NextEvent
  <2> HIDE DEF rest, e
  <2>4. /\ IsSub(t) /\ t.queue = rest /\ t.hand = s.hand /\ t.written = s.written
        /\ t.sent = s.sent /\ t.shed = s.shed /\ t.phase = s.phase /\ t.aborted = s.aborted
    BY DEF IsSub, Fields
  <2> HIDE DEF t
  <2>5. Queued(rest)
    <3>1. Len(rest) > PerConnQueueMax => Len(s.queue) > PerConnQueueMax
      <4>1. Len(rest) \in Nat /\ Len(s.queue) \in Nat /\ PerConnQueueMax \in Nat
        BY <2>1, <2>2, HubConstants
      <4> QED
        BY <2>2, <4>1
    <3> QED
      BY <2>1, <2>2, <3>1 DEF Queued, Bounded
  <2>6. e \notin ToSet(rest)
    BY <2>2, EventFields DEF Before
  <2>7. Held(t) = {} /\ Carried(t) = ToSet(s.written) \cup ToSet(rest)
    BY <2>1, <2>4 DEF Held, Carried
  <2>8. Held(s) = {} /\ Carried(s) = ToSet(s.written) \cup {e} \cup ToSet(rest)
    BY <2>1, <2>2 DEF Held, Carried
  <2>9. Before(ToSet(s.written), {e}) /\ Before(ToSet(s.written), ToSet(rest))
    BY <2>2 DEF StreamOK, Owes, Before
  <2>10. e \notin ToSet(s.written)
    BY <2>2, <2>9, EventFields DEF Before
  <2>11. Owes(c, t, n, {e})
    BY <2>1, <2>4, <2>5, <2>6, <2>7, <2>8, <2>9, <2>10 DEF StreamOK, Owes, Before
  <2>12. Owes(c, Yield(c, t, e), n, {e} \ {e})
    BY <2>1, <2>2, <2>4, <2>9, <2>11, YieldFlow
  <2> QED
    BY <2>3, <2>12 DEF StreamOK
<1>2. CASE s.queue = <<>>
  <2> DEFINE call == CHOOSE i \in 1..MaxTimers : i \notin s.timers
             t == [s EXCEPT !.phase = "Waiting", !.resolver = call,
                            !.timers = @ \cup {call}]
  <2>1. NextEvent(c, s) = t
    BY <1>2 DEF NextEvent
  <2> HIDE DEF call
  <2>2. /\ t.queue = s.queue /\ t.hand = s.hand /\ t.written = s.written
        /\ t.sent = s.sent /\ t.shed = s.shed /\ t.phase = "Waiting" /\ t.aborted = s.aborted
    BY DEF IsSub, Fields
  <2> HIDE DEF t
  <2> QED
    BY <2>1, <2>2, SameStream DEF StreamOK
<1> QED
  BY <1>1, <1>2

\* The event in hand has been written, or its client is gone.
LEMMA WrittenFlow ==
  ASSUME NEW c, NEW n, NEW s, StreamOK(c, s, n), s.phase = "Writing", NEW t,
         t.written = IF s.aborted THEN s.written ELSE Append(s.written, s.hand),
         t.hand = NoEvent, t.queue = s.queue, t.sent = s.sent, t.shed = s.shed,
         t.phase = "Top", t.aborted = s.aborted
  PROVE  StreamOK(c, t, n)
<1>1. s.hand \in Event /\ s.hand # NoEvent /\ s.written \in Seq(Event) /\ InOrder(s.written)
  BY DEF StreamOK, Owes
<1>2. Held(s) = {s.hand} /\ Held(t) = {}
  BY <1>1 DEF Held
<1>3. CASE s.aborted
  <2>1. Carried(t) \subseteq Carried(s)
    BY <1>2, <1>3 DEF Carried
  <2> QED
    BY <1>2, <1>3, <2>1 DEF StreamOK, Owes, Before
<1>4. CASE ~s.aborted
  <2> DEFINE w == s.written \o <<s.hand>>
  <2>1. t.written = w
    BY <1>1, <1>4
  <2>2. w \in Seq(Event) /\ InOrder(w) /\ ToSet(w) = ToSet(s.written) \cup {s.hand}
    <3>1. <<s.hand>> \in Seq(Event) /\ InOrder(<<s.hand>>) /\ ToSet(<<s.hand>>) = {s.hand}
      BY <1>1, OneEvent
    <3>2. Before(ToSet(s.written), ToSet(<<s.hand>>))
      BY <1>2, <3>1 DEF StreamOK, Owes
    <3> QED
      BY <1>1, <3>1, <3>2, InOrderJoin
  <2> HIDE DEF w
  <2>3. Carried(t) = Carried(s)
    BY <1>2, <2>1, <2>2 DEF Carried
  <2>4. Before(ToSet(w), ToSet(s.queue))
    BY <1>2, <2>2 DEF StreamOK, Owes, Before
  <2> QED
    BY <1>2, <1>4, <2>1, <2>2, <2>3, <2>4 DEF StreamOK, Owes, Before
<1> QED
  BY <1>3, <1>4

\* The rest of a broadcast goes to the queue, or is shed.
LEMMA EnqueueFlow ==
  ASSUME NEW c, NEW n, NEW s, IsSub(s), NEW es \in Seq(Event), InOrder(es),
         Owes(c, s, n, ToSet(es)), Before(Carried(s), ToSet(es)),
         NEW t, t = Enqueue(s, es)
  PROVE  /\ StreamOK(c, t, n)
         /\ ShedBefore(t.shed \ s.shed, t.queue)
<1> DEFINE queue == FoldLeft(Push, s.queue, es)
           dropped == (ToSet(s.queue) \cup ToSet(es)) \ ToSet(queue)
           shed == s.shed \cup (ToSet(s.queue \o es) \ ToSet(queue))
<1>1. Queued(s.queue) /\ s.queue \in Seq(Event)
  BY DEF Owes, Queued
<1>2. ToSet(s.queue \o es) = ToSet(s.queue) \cup ToSet(es)
  BY <1>1, ElemsJoin
<1>3. shed = s.shed \cup dropped
  BY <1>2
<1>4. t = [s EXCEPT !.queue = queue, !.shed = shed]
  BY DEF Enqueue, IsSub, Fields
<1>5. Before(ToSet(s.queue), ToSet(es))
  BY DEF Before, Carried
<1> HIDE DEF queue, shed
<1>6. /\ Queued(queue) /\ ToSet(queue) \subseteq ToSet(s.queue) \cup ToSet(es)
      /\ ShedBefore(dropped, queue)
  BY <1>1, <1>5, QueuedOrShed DEF queue
<1>7. /\ t.queue = queue /\ t.shed = s.shed \cup dropped /\ t.hand = s.hand
      /\ t.written = s.written /\ t.sent = s.sent /\ t.phase = s.phase /\ t.aborted = s.aborted
  BY <1>3, <1>4 DEF IsSub, Fields
<1>8. dropped \cup ToSet(queue) = ToSet(s.queue) \cup ToSet(es) /\ dropped \cap ToSet(queue) = {}
  BY <1>6
<1> HIDE DEF dropped
<1>9. Held(t) = Held(s) /\ Carried(t) = ToSet(s.written) \cup Held(s) \cup ToSet(queue)
  BY <1>7 DEF Held, Carried
<1>10. /\ Before(ToSet(s.written), ToSet(queue)) /\ Before(Held(s), ToSet(queue))
  <2>1. Before(ToSet(s.written), ToSet(s.queue) \cup ToSet(es))
    BY DEF Owes, Before, Carried
  <2>2. Before(Held(s), ToSet(s.queue) \cup ToSet(es))
    BY DEF Owes, Before, Carried
  <2> QED
    BY <1>6, <2>1, <2>2 DEF Before
<1>11. (ToSet(s.written) \cup Held(s)) \cap (ToSet(s.queue) \cup ToSet(es)) = {}
  <2>1. \A x \in ToSet(s.queue) \cup ToSet(es) : x \in Event
    BY <1>1 DEF ToSet
  <2>2. Before(ToSet(s.written) \cup Held(s), ToSet(s.queue) \cup ToSet(es))
    BY DEF Owes, Before, Carried
  <2> QED
    BY <2>1, <2>2, EventFields DEF Before
<1>12. Carried(t) \cup t.shed = Carried(s) \cup s.shed \cup ToSet(es)
  BY <1>7, <1>8, <1>9 DEF Carried
<1>13. Carried(t) \cap t.shed = {}
  BY <1>7, <1>8, <1>9, <1>11 DEF Owes, Carried
<1>14. Owes(c, t, n, {})
  BY <1>6, <1>7, <1>9, <1>10, <1>12, <1>13 DEF Owes
<1>15. ShedBefore(t.shed \ s.shed, t.queue)
  BY <1>6, <1>7 DEF ShedBefore
<1> QED
  BY <1>14, <1>15 DEF StreamOK

\* What one broadcast does to a stream. Its events are new.
LEMMA DeliverFlow ==
  ASSUME NEW c, NEW m \in Nat, NEW n \in Nat, m <= n,
         NEW s, SubOK(s), StreamOK(c, s, m),
         NEW es \in Seq(Event), InOrder(es), es # <<>>,
         \A e \in ToSet(es) : m <= e.id /\ e.id < n,
         NEW t, t = Deliver(c, s, es)
  PROVE  /\ StreamOK(c, t, n)
         /\ ShedBefore(t.shed \ s.shed, t.queue)
<1> DEFINE sent == s.sent \o es
           told == [s EXCEPT !.sent = sent]
<1>1. told = [s EXCEPT !.sent = @ \o es]
  BY DEF SubOK, IsSub, Fields
<1>2. \A e \in ToSet(s.sent) : e.id < m /\ e \in Event
  <2>1. s.sent \in Seq(Event) /\ \A e \in ToSet(s.sent) : e.id < m
    BY DEF StreamOK, Owes
  <2> QED
    BY <2>1 DEF ToSet
<1>3. \A e \in ToSet(es) : e \in Event
  BY DEF ToSet
<1>4. Before(ToSet(s.sent), ToSet(es))
  BY <1>2, <1>3, EventFields DEF Before
<1>5. sent \in Seq(Event) /\ InOrder(sent) /\ ToSet(sent) = ToSet(s.sent) \cup ToSet(es)
  BY <1>4, InOrderJoin DEF StreamOK, Owes
<1> HIDE DEF sent
<1>6. /\ IsSub(told) /\ told.sent = sent /\ told.queue = s.queue /\ told.hand = s.hand
      /\ told.written = s.written /\ told.shed = s.shed /\ told.phase = s.phase
      /\ told.aborted = s.aborted /\ told.resolver = s.resolver
  BY DEF SubOK, IsSub, Fields
<1>7. Deliver(c, s, es) = IF s.resolver = 0 THEN Enqueue(told, es)
                          ELSE Enqueue(Yield(c, [told EXCEPT !.resolver = 0], Head(es)), Tail(es))
  BY <1>1 DEF Deliver
<1> HIDE DEF told
<1>8. Held(told) = Held(s) /\ Carried(told) = Carried(s)
  BY <1>6 DEF Held, Carried
<1>9. Carried(s) \subseteq ToSet(s.sent) /\ s.shed \subseteq ToSet(s.sent)
  BY DEF StreamOK, Owes
<1>10. ToSet(es) \cap ToSet(s.sent) = {}
  BY <1>2, <1>3, <1>4, EventFields DEF Before
<1>11. \A e \in ToSet(sent) : e.id < n
  BY <1>2, <1>5, EventFields
<1>12. Owes(c, told, n, ToSet(es))
  BY <1>5, <1>6, <1>8, <1>9, <1>10, <1>11 DEF StreamOK, Owes
<1>13. Before(Carried(told), ToSet(es))
  BY <1>4, <1>8, <1>9 DEF Before
<1>14. CASE s.resolver = 0
  <2>1. t = Enqueue(told, es)
    BY <1>7, <1>14
  <2> QED
    BY <1>6, <1>12, <1>13, <2>1, EnqueueFlow
<1>15. CASE s.resolver # 0
  <2> DEFINE e == Head(es)
             rest == Tail(es)
             freed == [told EXCEPT !.resolver = 0]
             taken == Yield(c, freed, e)
  <2>1. /\ e \in Event /\ rest \in Seq(Event) /\ InOrder(rest)
        /\ ToSet(es) = {e} \cup ToSet(rest) /\ Before({e}, ToSet(rest))
    BY HeadAndTail
  <2>2. t = Enqueue(taken, rest)
    BY <1>7, <1>15
  <2> HIDE DEF e, rest
  <2>3. /\ IsSub(freed) /\ freed.sent = told.sent /\ freed.queue = told.queue
        /\ freed.hand = told.hand /\ freed.written = told.written /\ freed.shed = told.shed
        /\ freed.phase = told.phase /\ freed.aborted = told.aborted
        /\ freed.timers = told.timers /\ freed.resolver = 0
    BY <1>6 DEF IsSub, Fields
  <2> HIDE DEF freed
  <2>4. freed.hand = NoEvent /\ freed.queue = <<>> /\ ToSet(freed.queue) = {}
    <3>1. s.phase = "Waiting" /\ s.queue = <<>>
      BY <1>15 DEF SubOK, Registered
    <3> QED
      BY <1>6, <2>3, <3>1, NoEvents DEF StreamOK, Owes
  <2>5. Owes(c, freed, n, ToSet(es)) /\ Carried(freed) = Carried(told)
    BY <1>12, <2>3, SameStream DEF Carried, Held
  <2>6. e \in ToSet(es) /\ Before(ToSet(freed.written), {e}) /\ Before({e}, ToSet(freed.queue))
    BY <1>13, <2>1, <2>3, <2>4 DEF Before, Carried
  <2>7. Owes(c, taken, n, ToSet(es) \ {e})
    BY <2>1, <2>3, <2>4, <2>5, <2>6, YieldFlow
  <2>8. ToSet(es) \ {e} = ToSet(rest)
    <3>1. e \notin ToSet(rest)
      BY <2>1, EventFields DEF Before
    <3> QED
      BY <2>1, <3>1
  <2>9. /\ IsSub(taken) /\ taken.queue = freed.queue /\ taken.written = freed.written
        /\ taken.shed = freed.shed /\ Held(taken) \subseteq {e}
    BY <2>3, <2>4 DEF Yield, IsSub, Fields, Held
  <2> HIDE DEF taken
  <2>10. Before(Carried(taken), ToSet(rest))
    BY <1>13, <2>1, <2>3, <2>4, <2>9 DEF Before, Carried
  <2>11. StreamOK(c, t, n) /\ ShedBefore(t.shed \ taken.shed, t.queue)
    BY <2>1, <2>2, <2>7, <2>8, <2>9, <2>10, EnqueueFlow
  <2> QED
    BY <1>6, <2>3, <2>9, <2>11
<1> QED
  BY <1>14, <1>15

-------------------------------------------------------------------------------
(* The actions again, for what the streams carry. *)

\* The inductive invariant: every open stream accounts for all it was sent.
StreamsInv ==
    /\ HubInv
    /\ nextEventId \in Nat \ {0}
    /\ \A c \in Open : StreamOK(c, subs[c], nextEventId)

\* What a step may do to the open streams.
Sheds ==
    \A c \in Open : c \in Open' => ShedBefore(subs'[c].shed \ subs[c].shed, subs'[c].queue)

Accounts == nextEventId' \in Nat \ {0} /\ \A c \in Open' : StreamOK(c, subs'[c], nextEventId')

\* One stream moves, and nothing is broadcast.
LEMMA OneMoves ==
  ASSUME StreamsInv, NEW c \in Streams, NEW s, subs' = [subs EXCEPT ![c] = s],
         UNCHANGED nextEventId,
         s.phase \in Running => StreamOK(c, s, nextEventId),
         s.phase \in Running /\ c \in Open => s.shed = subs[c].shed
  PROVE  Accounts /\ Sheds
<1>1. \A d \in Streams : subs'[d] = IF d = c THEN s ELSE subs[d]
  BY DEF StreamsInv, HubInv
<1>2. \A d \in Open' : StreamOK(d, subs'[d], nextEventId)
  BY <1>1 DEF StreamsInv, Open
<1>3. \A d \in Open : d \in Open' => subs'[d].shed \ subs[d].shed = {}
  BY <1>1 DEF Open
<1>4. \A q : ShedBefore({}, q)
  BY DEF ShedBefore
<1> QED
  BY <1>2, <1>3, <1>4 DEF StreamsInv, Accounts, Sheds

\* The actions: requests that come, fail or end.
LEMMA RequestAccounts ==
  ASSUME StreamsInv, NEW c \in Streams, Refuse(c) \/ OpenFails(c) \/ Connect(c) \/ Close(c)
  PROVE  Accounts /\ Sheds
<1>1. SubOK(subs[c])
  BY DEF StreamsInv, HubInv
<1>2. ASSUME NEW phase \in {"Refused", "Failed"}, subs' = [subs EXCEPT ![c].phase = phase],
             UNCHANGED nextEventId
      PROVE  Accounts /\ Sheds
  <2> DEFINE s == [subs[c] EXCEPT !.phase = phase]
  <2>1. s.phase \notin Running
    BY <1>1 DEF SubOK, IsSub, Fields, Running
  <2>2. subs' = [subs EXCEPT ![c] = s]
    BY <1>2
  <2> HIDE DEF s
  <2> QED
    BY <1>2, <2>1, <2>2, OneMoves
<1>3. ASSUME NEW phase \in {"Top", "Closed"}, subs' = [subs EXCEPT ![c] = NewSub(phase)],
             UNCHANGED nextEventId, c \notin Open \/ phase = "Closed"
      PROVE  Accounts /\ Sheds
  <2>1. StreamOK(c, NewSub(phase), nextEventId)
    BY NewStreamOK DEF Phases
  <2>2. NewSub(phase).phase = phase
    BY DEF NewSub
  <2> QED
    BY <1>3, <2>1, <2>2, OneMoves DEF Running
<1> QED
  BY <1>2, <1>3 DEF Refuse, OpenFails, Connect, Close, Open, Running

\* The loop of a stream.
LEMMA LoopAccounts ==
  ASSUME StreamsInv, NEW c \in Streams, Read(c) \/ Beat(c) \/ BeatDone(c) \/ WriteDone(c)
  PROVE  Accounts /\ Sheds
<1> DEFINE n == nextEventId
           old == subs[c]
<1>1. SubOK(old) /\ IsSub(old) /\ c \in Open /\ StreamOK(c, old, n) /\ UNCHANGED nextEventId
  BY DEF StreamsInv, HubInv, SubOK, Open, Running, Read, Beat, BeatDone, WriteDone
<1>2. ASSUME NEW s, IsSub(s), StreamOK(c, s, n), s.shed = old.shed, s.phase \in {"Top", "Beating"},
             subs' = [subs EXCEPT ![c] = NextEvent(c, s)]
      PROVE  Accounts /\ Sheds
  <2>1. StreamOK(c, NextEvent(c, s), n)
    BY <1>2, NextEventFlow
  <2>2. NextEvent(c, s).shed = old.shed
    <3>1. CASE s.queue # <<>>
      <4> DEFINE t == [s EXCEPT !.queue = Tail(@)]
      <4>1. IsSub(t) /\ t.shed = old.shed
        BY <1>2 DEF IsSub, Fields
      <4>2. NextEvent(c, s) = Yield(c, t, Head(s.queue))
        BY <3>1 DEF NextEvent
      <4> HIDE DEF t
      <4> QED
        BY <4>1, <4>2 DEF Yield, IsSub, Fields
    <3>2. CASE s.queue = <<>>
      BY <1>2, <3>2 DEF NextEvent, IsSub, Fields
    <3> QED
      BY <3>1, <3>2
  <2> QED
    BY <1>1, <1>2, <2>1, <2>2, OneMoves
<1>3. CASE Read(c)
  BY <1>1, <1>2, <1>3 DEF Read
<1>4. CASE Beat(c)
  <2> DEFINE s == [old EXCEPT !.phase = "Beating"]
  <2>1. /\ s.written = old.written /\ s.hand = old.hand /\ s.queue = old.queue
        /\ s.sent = old.sent /\ s.shed = old.shed /\ s.phase = "Beating" /\ s.aborted = old.aborted
    BY <1>1 DEF IsSub, Fields
  <2>2. subs' = [subs EXCEPT ![c] = s] /\ old.phase = "Top"
    BY <1>4 DEF Beat
  <2> HIDE DEF s
  <2>3. StreamOK(c, s, n)
    BY <1>1, <2>1, <2>2, SameStream DEF StreamOK
  <2> QED
    BY <1>1, <2>1, <2>2, <2>3, OneMoves
<1>5. CASE BeatDone(c)
  <2> DEFINE s == [old EXCEPT !.pendingHeartbeat = FALSE]
  <2>1. /\ s.written = old.written /\ s.hand = old.hand /\ s.queue = old.queue
        /\ s.sent = old.sent /\ s.shed = old.shed /\ s.phase = old.phase
        /\ s.aborted = old.aborted /\ IsSub(s)
    BY <1>1 DEF IsSub, Fields
  <2>2. subs' = [subs EXCEPT ![c] = NextEvent(c, s)] /\ old.phase = "Beating"
    BY <1>5 DEF BeatDone
  <2> HIDE DEF s
  <2>3. StreamOK(c, s, n)
    BY <1>1, <2>1, SameStream DEF StreamOK
  <2> QED
    BY <1>1, <1>2, <2>1, <2>2, <2>3
<1>6. CASE WriteDone(c)
  <2> DEFINE written == IF old.aborted THEN old.written ELSE Append(old.written, old.hand)
             s == [old EXCEPT !.phase = "Top", !.hand = NoEvent, !.written = written]
  <2>1. subs' = [subs EXCEPT ![c] = s] /\ old.phase = "Writing"
    BY <1>1, <1>6 DEF WriteDone, IsSub, Fields
  <2> HIDE DEF written
  <2>2. /\ s.written = written /\ s.hand = NoEvent /\ s.queue = old.queue
        /\ s.sent = old.sent /\ s.shed = old.shed /\ s.phase = "Top" /\ s.aborted = old.aborted
    BY <1>1 DEF IsSub, Fields
  <2> HIDE DEF s
  <2>3. StreamOK(c, s, n)
    BY <1>1, <2>1, <2>2, WrittenFlow DEF written
  <2> QED
    BY <1>1, <2>1, <2>2, <2>3, OneMoves
<1> QED
  BY <1>3, <1>4, <1>5, <1>6

\* Heartbeats, aborts and timeouts.
LEMMA TimerAccounts ==
  ASSUME StreamsInv, NEW c \in Streams,
         HeartbeatDue(c) \/ Abort(c) \/ \E i \in 1..MaxTimers : TimerFires(c, i)
  PROVE  Accounts /\ Sheds
<1> DEFINE n == nextEventId
           old == subs[c]
<1>1. SubOK(old) /\ IsSub(old) /\ UNCHANGED nextEventId /\ (old.phase \in Running => StreamOK(c, old, n))
  BY DEF StreamsInv, HubInv, SubOK, Open, HeartbeatDue, Abort, TimerFires
<1>2. ASSUME NEW s, subs' = [subs EXCEPT ![c] = s],
             s.written = old.written, s.hand = old.hand, s.queue = old.queue, s.sent = old.sent,
             s.shed = old.shed, (s.phase = "Writing") <=> (old.phase = "Writing"),
             (s.phase \in Running) => (old.phase \in Running), old.aborted => s.aborted
      PROVE  Accounts /\ Sheds
  <2>1. s.phase \in Running => StreamOK(c, s, n)
    BY <1>1, <1>2, SameStream DEF StreamOK
  <2> QED
    BY <1>1, <1>2, <2>1, OneMoves
<1>3. CASE HeartbeatDue(c)
  <2> DEFINE s == [old EXCEPT !.pendingHeartbeat = TRUE]
  <2>1. /\ s.written = old.written /\ s.hand = old.hand /\ s.queue = old.queue
        /\ s.sent = old.sent /\ s.shed = old.shed /\ s.phase = old.phase
        /\ s.aborted = old.aborted
    BY <1>1 DEF IsSub, Fields
  <2>2. subs' = [subs EXCEPT ![c] = s]
    BY <1>3 DEF HeartbeatDue
  <2> HIDE DEF s
  <2> QED
    BY <1>2, <2>1, <2>2
<1>4. CASE Abort(c)
  <2> DEFINE s == [old EXCEPT !.aborted = TRUE]
  <2>1. /\ s.written = old.written /\ s.hand = old.hand /\ s.queue = old.queue
        /\ s.sent = old.sent /\ s.shed = old.shed /\ s.phase = old.phase /\ s.aborted
    BY <1>1 DEF IsSub, Fields
  <2>2. subs' = [subs EXCEPT ![c] = s]
    BY <1>4 DEF Abort
  <2> HIDE DEF s
  <2> QED
    BY <1>2, <2>1, <2>2
<1>5. ASSUME NEW i \in 1..MaxTimers, TimerFires(c, i) PROVE Accounts /\ Sheds
  <2> DEFINE left == old.timers \ {i}
             own == old.resolver = i
             resolver == IF own THEN 0 ELSE old.resolver
             phase == IF own THEN "Top" ELSE old.phase
             s == [old EXCEPT !.timers = left, !.resolver = resolver, !.phase = phase]
  <2>1. subs' = [subs EXCEPT ![c] = s]
    BY <1>1, <1>5 DEF TimerFires, IsSub, Fields
  <2>2. own => old.phase = "Waiting"
    BY <1>1 DEF SubOK, Registered
  <2>3. (phase = "Writing") <=> (old.phase = "Writing")
    BY <2>2
  <2>4. (phase \in Running) => (old.phase \in Running)
    BY <2>2 DEF Running
  <2> HIDE DEF left, resolver, phase
  <2>5. /\ s.written = old.written /\ s.hand = old.hand /\ s.queue = old.queue
        /\ s.sent = old.sent /\ s.shed = old.shed /\ s.phase = phase
        /\ s.aborted = old.aborted
    BY <1>1 DEF IsSub, Fields
  <2> HIDE DEF s
  <2> QED
    BY <1>2, <2>1, <2>3, <2>4, <2>5
<1> QED
  BY <1>3, <1>4, <1>5

\* The events of a broadcast have new ids, in order.
LEMMA BroadcastEvents ==
  ASSUME StreamsInv, NEW k \in 1..MaxBatch, NEW kinds \in [1..k -> Kinds], Broadcast(kinds),
         NEW es, es = [i \in DOMAIN kinds |->
                         [id |-> nextEventId + i - 1, priority |-> kinds[i].priority,
                          topic |-> kinds[i].topic]]
  PROVE  /\ es \in Seq(Event) /\ InOrder(es) /\ es # <<>>
         /\ nextEventId' = nextEventId + k
         /\ \A e \in ToSet(es) : nextEventId <= e.id /\ e.id < nextEventId + k
<1>1. k \in Nat /\ k > 0 /\ nextEventId \in Nat /\ nextEventId > 0
  BY HubConstants DEF StreamsInv
<1>2. DOMAIN kinds = 1..k /\ Len(kinds) = k
  BY <1>1
<1>3. nextEventId + k - 1 <= MaxEvents /\ nextEventId' = nextEventId + k
  BY <1>2 DEF Broadcast
<1>4. DOMAIN es = 1..k /\ \A i \in 1..k : es[i].id = nextEventId + i - 1
  BY <1>2
<1>5. \A i \in 1..k : es[i] \in Event
  <2> SUFFICES ASSUME NEW i \in 1..k PROVE es[i] \in Event
    OBVIOUS
  <2>1. kinds[i] \in Kinds
    OBVIOUS
  <2>2. kinds[i].priority \in Priorities /\ kinds[i].topic \in Topics
    BY <2>1, HubConstants DEF Topics
  <2>3. nextEventId + i - 1 \in 1..MaxEvents
    BY <1>1, <1>3, HubConstants
  <2> QED
    BY <1>2, <2>2, <2>3 DEF Event
<1>6. es \in Seq(Event) /\ Len(es) = k
  <2>1. es \in [1..k -> Event]
    BY <1>2, <1>5
  <2> QED
    BY <1>1, <2>1
<1>7. InOrder(es)
  BY <1>1, <1>4 DEF InOrder
<1>8. \A e \in ToSet(es) : nextEventId <= e.id /\ e.id < nextEventId + k
  BY <1>1, <1>4 DEF ToSet
<1>9. es # <<>>
  BY <1>1, <1>6
<1> QED
  BY <1>3, <1>6, <1>7, <1>8, <1>9

\* A broadcast.
LEMMA BroadcastAccounts ==
  ASSUME StreamsInv, NEW k \in 1..MaxBatch, NEW kinds \in [1..k -> Kinds], Broadcast(kinds)
  PROVE  Accounts /\ Sheds
<1> DEFINE es == [i \in DOMAIN kinds |->
                    [id |-> nextEventId + i - 1, priority |-> kinds[i].priority,
                     topic |-> kinds[i].topic]]
           m == nextEventId
           n == nextEventId + k
<1>1. m \in Nat /\ n \in Nat \ {0} /\ m <= n
  BY HubConstants DEF StreamsInv
<1>2. /\ es \in Seq(Event) /\ InOrder(es) /\ es # <<>> /\ nextEventId' = n
      /\ \A e \in ToSet(es) : m <= e.id /\ e.id < n
  BY BroadcastEvents
<1>3. subs' = [c \in Streams |-> IF c \in Open THEN Deliver(c, subs[c], es) ELSE subs[c]]
  BY DEF Broadcast
<1> HIDE DEF es
<1>4. Open' \subseteq Open
  BY <1>3 DEF Open
<1>5. ASSUME NEW c \in Open
      PROVE  /\ StreamOK(c, subs'[c], n)
             /\ ShedBefore(subs'[c].shed \ subs[c].shed, subs'[c].queue)
  <2>1. SubOK(subs[c]) /\ StreamOK(c, subs[c], m) /\ subs'[c] = Deliver(c, subs[c], es)
    BY <1>3 DEF StreamsInv, HubInv, Open
  <2> QED
    BY <1>1, <1>2, <2>1, DeliverFlow
<1> QED
  BY <1>1, <1>2, <1>4, <1>5 DEF Accounts, Sheds

\* Every step.
LEMMA NextStreams ==
  ASSUME StreamsInv, HubNext
  PROVE  StreamsInv' /\ Sheds
<1>1. HubInv'
  BY NextHub DEF StreamsInv
<1>2. ASSUME NEW c \in Streams, Refuse(c) \/ OpenFails(c) \/ Connect(c)
      PROVE  Accounts /\ Sheds
  BY <1>2, RequestAccounts
<1>3. ASSUME NEW n \in 1..MaxBatch, NEW kinds \in [1..n -> Kinds], Broadcast(kinds)
      PROVE  Accounts /\ Sheds
  BY <1>3, BroadcastAccounts
<1>4. ASSUME NEW c \in Streams, Loop(c) \/ BeatDone(c) \/ WriteDone(c)
      PROVE  Accounts /\ Sheds
  BY <1>4, LoopAccounts, RequestAccounts DEF Loop
<1>5. ASSUME NEW c \in Streams, NEW i \in 1..MaxTimers, TimerFires(c, i)
      PROVE  Accounts /\ Sheds
  BY <1>5, TimerAccounts
<1>6. ASSUME NEW c \in Streams, HeartbeatDue(c) \/ Abort(c)
      PROVE  Accounts /\ Sheds
  BY <1>6, TimerAccounts
<1>7. Accounts /\ Sheds
  BY <1>2, <1>3, <1>4, <1>5, <1>6 DEF HubNext
<1> QED
  BY <1>1, <1>7 DEF StreamsInv, Accounts

LEMMA InitStreams == HubInit => StreamsInv
<1> SUFFICES ASSUME HubInit PROVE StreamsInv
  OBVIOUS
<1>1. Open = {}
  BY DEF HubInit, Open, NewSub, Running
<1> QED
  BY <1>1, InitHub DEF StreamsInv, HubInit

LEMMA StreamsInvariant == HubSpec => []StreamsInv
<1>1. StreamsInv /\ UNCHANGED hubVars => StreamsInv'
  BY NextHub DEF StreamsInv, hubVars, Open
<1>2. StreamsInv /\ [HubNext]_hubVars => StreamsInv'
  BY <1>1, NextStreams
<1> QED
  BY <1>2, InitStreams, PTL DEF HubSpec

\* A stream that accounts for what it was sent carries the broadcast less what was shed.
LEMMA StreamsTell == StreamsInv => StreamIsBroadcastMinusShed
<1> SUFFICES ASSUME StreamsInv, NEW c \in Open, NEW s, s = subs[c]
             PROVE  /\ InOrder(s.sent) /\ InOrder(Pipeline(s))
                    /\ ~s.aborted => {e \in ToSet(Pipeline(s)) : e.topic \in Wants[c]}
                                       = {e \in ToSet(s.sent) : e.topic \in Wants[c]} \ s.shed
  BY DEF StreamIsBroadcastMinusShed
<1>1. Owes(c, s, nextEventId, {})
  BY DEF StreamsInv, StreamOK
<1> DEFINE hand == IF s.hand = NoEvent THEN <<>> ELSE <<s.hand>>
           taken == s.written \o hand
<1>2. hand \in Seq(Event) /\ InOrder(hand) /\ ToSet(hand) = Held(s)
  BY <1>1, OneEvent, NoEvents DEF Owes, Held
<1>3. Pipeline(s) = taken \o s.queue
  BY DEF Pipeline
<1> HIDE DEF hand
<1>4. /\ s.written \in Seq(Event) /\ InOrder(s.written)
      /\ s.queue \in Seq(Event) /\ InOrder(s.queue)
  BY <1>1 DEF Owes, Queued
<1>5. taken \in Seq(Event) /\ InOrder(taken) /\ ToSet(taken) = ToSet(s.written) \cup Held(s)
  BY <1>1, <1>2, <1>4, InOrderJoin DEF Owes
<1> HIDE DEF taken
<1>6. Before(ToSet(taken), ToSet(s.queue))
  BY <1>1, <1>5 DEF Owes, Before
<1>7. InOrder(taken \o s.queue) /\ ToSet(taken \o s.queue) = ToSet(taken) \cup ToSet(s.queue)
  BY <1>4, <1>5, <1>6, InOrderJoin
<1>8. InOrder(Pipeline(s)) /\ ToSet(Pipeline(s)) = Carried(s)
  BY <1>3, <1>5, <1>7 DEF Carried
<1> QED
  BY <1>1, <1>8 DEF Owes

\* A stream carries what was broadcast since it opened, in order and once, without what
\* evictOne let it shed, and what was shed is the oldest of the lowest priority there was
\* (Hub.broadcast, enqueue, evictOne, next and the loops of the SSE routes).
THEOREM StreamsShedInOrder == HubSpec => ShedsOnlyWhatItMay
<1>1. StreamsInv /\ [HubNext]_hubVars =>
         [\A c \in Streams :
             c \in Open /\ c \in Open' =>
                 LET dropped == subs'[c].shed \ subs[c].shed
                     kept == ToSet(subs'[c].queue)
                 IN  /\ \A e \in dropped : e.priority # "HIGH"
                     /\ \A e \in dropped, k \in kept :
                           /\ (e.priority = "MEDIUM") => (k.priority # "LOW")
                           /\ (k.priority = e.priority) => (e.id < k.id)
                     /\ (dropped # {}) => (Len(subs'[c].queue) >= PerConnQueueMax)
                     /\ (Len(subs'[c].queue) > PerConnQueueMax) =>
                           \A k \in kept : k.priority = "HIGH"]_hubVars
  <2> SUFFICES ASSUME StreamsInv, HubNext, NEW c \in Open, c \in Open'
               PROVE  /\ ShedBefore(subs'[c].shed \ subs[c].shed, subs'[c].queue)
                      /\ Bounded(subs'[c].queue)
    BY DEF ShedBefore, Bounded
  <2>1. StreamOK(c, subs'[c], nextEventId')
    BY NextStreams DEF StreamsInv
  <2> QED
    BY <2>1, NextStreams DEF Sheds, StreamOK, Owes, Queued
<1> QED
  BY <1>1, StreamsInvariant, StreamsTell, PTL DEF HubSpec, ShedsOnlyWhatItMay, ShedsLowestFirst
==============================================================================

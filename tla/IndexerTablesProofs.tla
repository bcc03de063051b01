-------------------------- MODULE IndexerTablesProofs --------------------------
(***************************************************************************)
(* Two tables of the indexer that are not a mirror of the chain: the HP    *)
(* snapshots, for any cohort, depths and intervals of the block handlers,  *)
(* and the user profiles, for any number of wallets, handles, requests and *)
(* IP bursts. They share no state.                                         *)
(*                                                                         *)
(* Finality: a row that is not an anchor has the finality of its depth at  *)
(* the last pass: a new row is at the head, which no pass has gone beyond, *)
(* and a pass only has to move the rows whose depth has changed class      *)
(* since. What it does to each row is what nextFinality says.              *)
(*                                                                         *)
(* Coalescing: a trade stays unscored only behind a row of its own block,  *)
(* and the periodic snapshot scores every token of the cohort.             *)
(*                                                                         *)
(* Anchors: a tick that finds its boundary neither fired nor under way     *)
(* adds one ranking, at one block.                                         *)
(*                                                                         *)
(* Handles: only the last statement of a request writes one, and it checks *)
(* in its own WHERE clauses and index what the requests read before may    *)
(* have made stale.                                                        *)
(*                                                                         *)
(* Admissions are a balance: what the bucket holds, with what it has spent *)
(* since any admission, is at most the burst and what was refilled since.  *)
(***************************************************************************)
EXTENDS HpSnapshots, UserProfiles, FiniteSetTheorems, Integers, TLAPS

(***************************************************************************)
(* The HP snapshots                                                        *)
(***************************************************************************)

\* What the finality of a row at block b is when the last pass was at head h.
FinalityAt(b, h) ==
    IF b + FinalBlocks <= h THEN "final" ELSE IF b + SoftBlocks <= h THEN "soft" ELSE "tip"

IsAnchor(row) == row.trigger \in {"CUT", "FINALIZE"}

\* No row is newer than the head h.
Behind(rows, h) == \A row \in rows : row.block <= h

ByDepth(rows, h) ==
    \A row \in rows : IF IsAnchor(row) THEN row.finality = "final"
                      ELSE row.finality = FinalityAt(row.block, h)

SnapshotInv == TypeOK /\ Behind(hpSnapshot, head) /\ ByDepth(hpSnapshot, lastAdvance)

(***************************************************************************)
(* One pass over a row                                                     *)
(***************************************************************************)

LEMMA HeadType == TypeOK => head \in Nat /\ lastAdvance \in Nat /\ lastAdvance <= head
BY SnapshotConstants DEF TypeOK

LEMMA DepthsType ==
  /\ SoftBlocks \in Nat \ {0} /\ FinalBlocks \in Nat /\ SoftBlocks <= FinalBlocks
  /\ MaxBlock \in Nat \ {0}
<1>1. SoftBlocks \in Nat \ {0} /\ MaxBlock \in Nat \ {0} /\ FinalBlocks \in Nat
  BY SnapshotConstants
<1> QED
  BY <1>1, SnapshotConstants

\* nextFinality takes a finality and gives one.
LEMMA NextFinalityType ==
  ASSUME NEW row \in Snapshot
  PROVE  /\ NextFinality(row) \in Finalities
         /\ [row EXCEPT !.finality = NextFinality(row)] \in Snapshot
<1>1. NextFinality(row) \in Finalities
  BY DEF NextFinality, Snapshot, Finalities
<1> QED
  BY <1>1 DEF Snapshot

LEMMA SettingFinality ==
  ASSUME NEW r \in Snapshot
  PROVE  /\ r.finality \in Finalities /\ r.block \in Nat
         /\ [r EXCEPT !.finality = r.finality] = r
         /\ \A f \in Finalities :
               /\ [r EXCEPT !.finality = f] \in Snapshot
               /\ [r EXCEPT !.finality = f].finality = f
               /\ [r EXCEPT !.finality = f].block = r.block
               /\ [[r EXCEPT !.finality = f] EXCEPT !.finality = "final"]
                     = [r EXCEPT !.finality = "final"]
<1>1. r.finality \in Finalities /\ r.block \in Nat
  BY DEF Snapshot
<1>2. [r EXCEPT !.finality = r.finality] = r
  BY DEF Snapshot
<1>3. ASSUME NEW f \in Finalities
      PROVE  /\ [r EXCEPT !.finality = f] \in Snapshot
             /\ [r EXCEPT !.finality = f].finality = f
             /\ [r EXCEPT !.finality = f].block = r.block
             /\ [[r EXCEPT !.finality = f] EXCEPT !.finality = "final"]
                   = [r EXCEPT !.finality = "final"]
  BY DEF Snapshot
<1> QED
  BY <1>1, <1>2, <1>3

\* A row that neither pass takes is left alone by nextFinality too.
LEMMA LeftAlone ==
  ASSUME head \in Nat, NEW r \in Snapshot,
         ~(r.finality = "tip" /\ Deep(r, SoftBlocks)),
         ~(r.finality = "soft" /\ Deep(r, FinalBlocks))
  PROVE  NextFinality(r) = r.finality
<1>1. r.finality \in {"tip", "soft", "final"} /\ r.block \in Nat
  BY DEF Snapshot, Finalities
<1> QED
  BY <1>1, DepthsType DEF NextFinality, Deep

\* The two passes together apply nextFinality to every row.
LEMMA PassesAreNext ==
  ASSUME head \in Nat, NEW rows \in SUBSET Snapshot
  PROVE  AdvancerPasses(rows) = {[r EXCEPT !.finality = NextFinality(r)] : r \in rows}
<1> DEFINE To(r, f) == [r EXCEPT !.finality = f]
           tipRows == {r \in rows : r.finality = "tip" /\ Deep(r, SoftBlocks)}
           One(r) == To(r, IF Deep(r, FinalBlocks) THEN "final" ELSE "soft")
           first == (rows \ tipRows) \cup {One(r) : r \in tipRows}
           softRows == {r \in first : r.finality = "soft" /\ Deep(r, FinalBlocks)}
           result == (first \ softRows) \cup {To(r, "final") : r \in softRows}
           next == {To(r, NextFinality(r)) : r \in rows}
<1>1. AdvancerPasses(rows) = result
  BY DEF AdvancerPasses
<1>2. \A r \in Snapshot : /\ r.finality \in Finalities /\ r.block \in Nat
                          /\ To(r, r.finality) = r
                          /\ \A f \in Finalities : /\ To(r, f) \in Snapshot
                                                   /\ To(r, f).finality = f
                                                   /\ To(r, f).block = r.block
                                                   /\ To(To(r, f), "final") = To(r, "final")
  BY SettingFinality
<1> HIDE DEF To
<1>3. SoftBlocks \in Nat /\ FinalBlocks \in Nat /\ SoftBlocks <= FinalBlocks
  BY DepthsType
<1>4. \A r \in Snapshot : Deep(r, FinalBlocks) => Deep(r, SoftBlocks)
  BY <1>2, <1>3 DEF Deep
<1>5. \A r \in Snapshot, f \in Finalities :
         Deep(To(r, f), FinalBlocks) = Deep(r, FinalBlocks)
  BY <1>2 DEF Deep
<1>6. ASSUME NEW r \in rows PROVE To(r, NextFinality(r)) \in result
  <2>1. CASE r \in tipRows /\ Deep(r, FinalBlocks)
    <3>1. To(r, "final") \in first /\ NextFinality(r) = "final"
      BY <2>1 DEF NextFinality
    <3> QED
      BY <3>1, <1>2 DEF Finalities
  <2>2. CASE r \in tipRows /\ ~Deep(r, FinalBlocks)
    <3>1. To(r, "soft") \in first /\ NextFinality(r) = "soft"
      BY <2>2 DEF NextFinality
    <3>2. ~Deep(To(r, "soft"), FinalBlocks)
      BY <2>2, <1>5 DEF Finalities
    <3> QED
      BY <3>1, <3>2
  <2>3. CASE r \notin tipRows /\ r.finality = "soft" /\ Deep(r, FinalBlocks)
    <3>1. r \in softRows /\ NextFinality(r) = "final"
      BY <2>3 DEF NextFinality
    <3> QED
      BY <3>1
  <2>4. CASE r \notin tipRows /\ ~(r.finality = "soft" /\ Deep(r, FinalBlocks))
    <3>1. r \in first \ softRows
      BY <2>4
    <3>2. NextFinality(r) = r.finality
      BY <2>4, LeftAlone
    <3>3. To(r, NextFinality(r)) = r
      BY <3>2, <1>2
    <3> QED
      BY <3>1, <3>3
  <2> QED
    BY <2>1, <2>2, <2>3, <2>4
<1>7. ASSUME NEW x \in result PROVE x \in next
  <2>1. CASE x \in first \ softRows /\ x \in rows \ tipRows
    <3>1. NextFinality(x) = x.finality
      <4>1. x \in Snapshot /\ x \notin tipRows /\ x \notin softRows /\ x \in first
        BY <2>1
      <4>2. ~(x.finality = "soft" /\ Deep(x, FinalBlocks))
        BY <4>1
      <4>3. ~(x.finality = "tip" /\ Deep(x, SoftBlocks))
        BY <4>1, <2>1
      <4> QED
        BY <4>1, <4>2, <4>3, LeftAlone
    <3>2. To(x, NextFinality(x)) = x
      BY <3>1, <1>2, <2>1
    <3> QED
      BY <2>1, <3>2
  <2>2. CASE x \in first \ softRows /\ x \notin rows \ tipRows
    <3>1. PICK r \in tipRows : x = One(r)
      BY <2>2
    <3>2. NextFinality(r) = IF Deep(r, FinalBlocks) THEN "final" ELSE "soft"
      BY DEF NextFinality
    <3> QED
      BY <3>1, <3>2
  <2>3. CASE x \notin first \ softRows
    <3>1. PICK y \in softRows : x = To(y, "final")
      BY <2>3
    <3>2. CASE y \in rows \ tipRows
      BY <3>1, <3>2 DEF NextFinality
    <3>3. CASE y \notin rows \ tipRows
      <4>1. PICK r \in tipRows : y = One(r)
        BY <3>3
      <4>2. Deep(r, FinalBlocks)
        BY <4>1, <1>5 DEF Finalities
      <4>3. x = To(r, "final") /\ NextFinality(r) = "final"
        BY <3>1, <4>1, <4>2, <1>2 DEF NextFinality, Finalities
      <4> QED
        BY <4>3
    <3> QED
      BY <3>2, <3>3
  <2> QED
    BY <2>1, <2>2, <2>3
<1>8. result = next
  BY <1>6, <1>7
<1> QED
  BY <1>1, <1>8 DEF To

\* Depths only grow: what was right at one head becomes right at a later one.
LEMMA PassKeepsDepth ==
  ASSUME head \in Nat, NEW h \in Nat, h <= head, NEW r \in Snapshot,
         r.finality = FinalityAt(r.block, h)
  PROVE  NextFinality(r) = FinalityAt(r.block, head)
<1>1. r.block \in Nat
  BY DEF Snapshot
<1> QED
  BY <1>1, DepthsType DEF NextFinality, FinalityAt, Deep

(***************************************************************************)
(* The inductive invariant                                                 *)
(***************************************************************************)

LEMMA SnapshotOfType ==
  ASSUME TypeOK, NEW t \in Tokens, NEW trigger \in Triggers
  PROVE  /\ SnapshotOf(t, trigger) \in Snapshot
         /\ SnapshotOf(t, trigger).block = head
         /\ SnapshotOf(t, trigger).trigger = trigger
         /\ SnapshotOf(t, trigger).finality = InitialFinalityForTrigger(trigger)
<1>1. head \in 0..MaxBlock
  BY DepthsType DEF TypeOK
<1>2. InitialFinalityForTrigger(trigger) \in Finalities
  BY DEF InitialFinalityForTrigger, Finalities
<1> QED
  BY <1>1, <1>2 DEF SnapshotOf, Snapshot

\* New rows are at the head, ahead of every pass.
LEMMA AddedRows ==
  ASSUME SnapshotInv, NEW S \in SUBSET Tokens, NEW trigger \in Triggers,
         hpSnapshot' = hpSnapshot \cup {SnapshotOf(t, trigger) : t \in S},
         UNCHANGED <<head, lastAdvance>>
  PROVE  /\ hpSnapshot' \subseteq Snapshot
         /\ Behind(hpSnapshot', head')
         /\ ByDepth(hpSnapshot', lastAdvance')
<1>1. TypeOK /\ head \in Nat /\ lastAdvance \in Nat /\ lastAdvance <= head
  BY HeadType DEF SnapshotInv
<1>2. ASSUME NEW t \in S
      PROVE  LET row == SnapshotOf(t, trigger)
             IN  /\ row \in Snapshot /\ row.block <= head
                 /\ IF IsAnchor(row) THEN row.finality = "final"
                    ELSE row.finality = FinalityAt(row.block, lastAdvance)
  <2> DEFINE row == SnapshotOf(t, trigger)
  <2>1. /\ row \in Snapshot /\ row.block = head /\ row.trigger = trigger
        /\ row.finality = InitialFinalityForTrigger(trigger)
    BY <1>1, SnapshotOfType
  <2>2. FinalityAt(head, lastAdvance) = "tip"
    BY <1>1, DepthsType DEF FinalityAt
  <2> QED
    BY <1>1, <2>1, <2>2 DEF InitialFinalityForTrigger, IsAnchor
<1> QED
  BY <1>2 DEF SnapshotInv, TypeOK, Behind, ByDepth

\* The same for one call of the writer.
LEMMA StampStep ==
  ASSUME SnapshotInv, NEW t \in Tokens, NEW trigger \in Triggers,
         NEW m \in [Tokens -> 0..NoTrade], Stamp(t, trigger, m),
         UNCHANGED <<head, lastAdvance>>, missed \in [Tokens -> 0..NoTrade]
  PROVE  /\ hpSnapshot' \subseteq Snapshot
         /\ Behind(hpSnapshot', head')
         /\ ByDepth(hpSnapshot', lastAdvance')
         /\ missed' \in [Tokens -> 0..NoTrade]
         /\ halted' \in BOOLEAN
<1> DEFINE targets == Targets(t, trigger)
           rows == {SnapshotOf(u, trigger) : u \in targets}
<1>1. targets \in SUBSET Tokens
  BY DEF Targets, Cohort, SnapshotInv, TypeOK
<1>2. NoTrade \in 0..NoTrade
  BY DepthsType DEF NoTrade
<1>3. CASE Collides(rows)
  <2>1. halted' = TRUE /\ UNCHANGED <<hpSnapshot, missed>>
    BY <1>3 DEF Stamp
  <2> QED
    BY <2>1 DEF SnapshotInv, TypeOK, Behind, ByDepth
<1>4. CASE ~Collides(rows)
  <2>1. /\ hpSnapshot' = hpSnapshot \cup rows
        /\ missed' = SeenBy(m, targets) /\ halted' = halted
    BY <1>4 DEF Stamp
  <2>2. missed' \in [Tokens -> 0..NoTrade]
    BY <2>1, <1>2 DEF SeenBy
  <2>3. halted' \in BOOLEAN
    BY <2>1 DEF SnapshotInv, TypeOK
  <2> QED
    BY <1>1, <2>1, <2>2, <2>3, AddedRows
<1> QED
  BY <1>3, <1>4

LEMMA InitSnapshots ==
  ASSUME Init
  PROVE  SnapshotInv
<1>1. tick \in [Ticks -> [at: {"idle", "sent", "landed", "refused", "done"},
                          for: Boundaries \cup {NoBoundary}]]
  BY DEF Init
<1>2. head \in 1..MaxBlock /\ lastAdvance \in 0..head /\ missed \in [Tokens -> 0..NoTrade]
  BY DepthsType DEF Init, NoTrade
<1>3. season \in Seasons
  BY SnapshotConstants DEF Init
<1>4. TypeOK
  BY <1>1, <1>2, <1>3 DEF Init, TypeOK
<1> QED
  BY <1>4 DEF Init, SnapshotInv, Behind, ByDepth

(***************************************************************************)
(* One step                                                                *)
(***************************************************************************)

\* The tables stay, the head may move on.
LEMMA QuietSnapshots ==
  ASSUME SnapshotInv, TypeOK', UNCHANGED <<hpSnapshot, lastAdvance>>, head' >= head
  PROVE  SnapshotInv'
<1>1. \A row \in hpSnapshot : row.block \in Nat
  BY DEF SnapshotInv, TypeOK, Snapshot
<1>2. head \in Nat /\ head' \in Nat
  BY DepthsType DEF SnapshotInv, TypeOK
<1> QED
  BY <1>1, <1>2 DEF SnapshotInv, Behind, ByDepth

LEMMA PassStep ==
  ASSUME SnapshotInv, AdvanceFinality
  PROVE  SnapshotInv'
<1>1. /\ hpSnapshot' = {[r EXCEPT !.finality = NextFinality(r)] : r \in hpSnapshot}
      /\ lastAdvance' = head /\ head' = head
  BY PassesAreNext, HeadType DEF AdvanceFinality, SnapshotInv, TypeOK
<1>2. ASSUME NEW r \in hpSnapshot, NEW x, x = [r EXCEPT !.finality = NextFinality(r)]
      PROVE  /\ x \in Snapshot /\ x.block = r.block /\ x.trigger = r.trigger
             /\ x.finality = NextFinality(r) /\ x.block <= head
  <2>1. r \in Snapshot
    BY DEF SnapshotInv, TypeOK
  <2>2. x \in Snapshot /\ x.finality = NextFinality(r)
    BY <1>2, <2>1, NextFinalityType, SettingFinality
  <2>3. x.block = r.block /\ x.trigger = r.trigger
    BY <1>2, <2>1 DEF Snapshot
  <2> QED
    BY <2>2, <2>3 DEF SnapshotInv, Behind
<1>3. ASSUME NEW r \in hpSnapshot
      PROVE  NextFinality(r) = IF IsAnchor(r) THEN "final" ELSE FinalityAt(r.block, head)
  <2>1. r \in Snapshot /\ head \in Nat /\ lastAdvance \in Nat /\ lastAdvance <= head
    BY HeadType DEF SnapshotInv, TypeOK
  <2>2. CASE IsAnchor(r)
    BY <2>2 DEF SnapshotInv, ByDepth, NextFinality
  <2>3. CASE ~IsAnchor(r)
    <3>1. r.finality = FinalityAt(r.block, lastAdvance)
      BY <2>3 DEF SnapshotInv, ByDepth
    <3> QED
      BY <2>1, <2>3, <3>1, PassKeepsDepth
  <2> QED
    BY <2>2, <2>3
<1>4. hpSnapshot' \subseteq Snapshot /\ Behind(hpSnapshot', head')
  BY <1>1, <1>2 DEF Behind
<1>5. ByDepth(hpSnapshot', lastAdvance')
  BY <1>1, <1>2, <1>3 DEF ByDepth, IsAnchor
<1>6. TypeOK'
  <2>1. due' \subseteq HandlersAt(head)'
    BY <1>1 DEF AdvanceFinality, SnapshotInv, TypeOK, HandlersAt
  <2>2. lastAdvance' \in 0..head'
    BY <1>1, HeadType DEF SnapshotInv
  <2> QED
    BY <1>1, <1>4, <2>1, <2>2 DEF AdvanceFinality, SnapshotInv, TypeOK, schedulerVars
<1> QED
  BY <1>4, <1>5, <1>6 DEF SnapshotInv

\* A boundary's ranking has a trigger of its own.
LEMMA TickTypes ==
  ASSUME TypeOK, NEW i \in Ticks
  PROVE  /\ tick[i].for \in Boundaries \cup {NoBoundary}
         /\ tick[i].for \in Boundaries => tick[i].for.trigger \in Triggers
<1>1. tick[i].for \in Boundaries \cup {NoBoundary}
  BY DEF TypeOK
<1>2. \A b \in Boundaries : b.trigger \in Triggers
  BY SnapshotConstants DEF Triggers
<1> QED
  BY <1>1, <1>2

LEMMA WebhookStep ==
  ASSUME SnapshotInv, NEW i \in Ticks, tick[i].for \in Boundaries, WebhookLands(i)
  PROVE  SnapshotInv'
<1> DEFINE b == tick[i].for
           rows == {SnapshotOf(t, b.trigger) : t \in Cohort}
           ok == ~halted /\ ~Collides(rows)
<1>1. UNCHANGED <<head, due, season, launched, halted, firedFor, excused, lastAdvance>>
  BY DEF WebhookLands
<1>2. TypeOK
  BY DEF SnapshotInv
<1>3. /\ hpSnapshot' \subseteq Snapshot /\ Behind(hpSnapshot', head')
      /\ ByDepth(hpSnapshot', lastAdvance') /\ missed' \in [Tokens -> 0..NoTrade]
  <2>1. CASE ok
    <3>1. hpSnapshot' = hpSnapshot \cup rows /\ missed' = SeenBy(missed, Cohort)
      BY <2>1 DEF WebhookLands
    <3>2. b.trigger \in Triggers /\ Cohort \in SUBSET Tokens
      BY <1>2, TickTypes DEF Cohort, TypeOK
    <3>3. missed' \in [Tokens -> 0..NoTrade]
      BY <1>2, <3>1, DepthsType DEF SeenBy, TypeOK, NoTrade
    <3> QED
      BY <1>1, <3>1, <3>2, <3>3, AddedRows
  <2>2. CASE ~ok
    <3>1. UNCHANGED <<hpSnapshot, missed>>
      BY <2>2 DEF WebhookLands
    <3> QED
      BY <1>1, <1>2, <3>1 DEF SnapshotInv, TypeOK
  <2> QED
    BY <2>1, <2>2
<1>4. tick' \in [Ticks -> [at: {"idle", "sent", "landed", "refused", "done"},
                          for: Boundaries \cup {NoBoundary}]]
  BY <1>2 DEF WebhookLands, TypeOK
<1>5. TypeOK'
  BY <1>1, <1>2, <1>3, <1>4 DEF TypeOK, HandlersAt
<1> QED
  BY <1>3, <1>5 DEF SnapshotInv

\* A tick that has begun is for a boundary of the season.
TicksHaveBoundaries == \A i \in Ticks : tick[i].at # "idle" => tick[i].for \in Boundaries

HpInv == SnapshotInv /\ TicksHaveBoundaries

LEMMA InitHp ==
  ASSUME Init
  PROVE  HpInv
BY InitSnapshots DEF Init, HpInv, TicksHaveBoundaries

LEMMA StepTicks ==
  ASSUME HpInv, [Next]_vars
  PROVE  TicksHaveBoundaries'
<1>1. tick \in [Ticks -> [at: {"idle", "sent", "landed", "refused", "done"},
                         for: Boundaries \cup {NoBoundary}]]
  BY DEF HpInv, SnapshotInv, TypeOK
<1>2. CASE tick' = tick
  BY <1>2 DEF HpInv, TicksHaveBoundaries
<1>3. ASSUME NEW i \in Ticks, NEW b \in Boundaries, BeginTick(i, b)
      PROVE  TicksHaveBoundaries'
  BY <1>1, <1>3 DEF BeginTick, HpInv, TicksHaveBoundaries
<1>4. ASSUME NEW i \in Ticks, tick[i].at # "idle", NEW to,
             tick' = [tick EXCEPT ![i].at = to]
      PROVE  TicksHaveBoundaries'
  BY <1>1, <1>4 DEF HpInv, TicksHaveBoundaries
<1>5. ASSUME NEW i \in Ticks, WebhookLands(i) \/ WebhookAnswers(i) \/ WebhookFails(i)
      PROVE  TicksHaveBoundaries'
  <2>1. tick[i].at # "idle"
    BY <1>5 DEF WebhookLands, WebhookAnswers, WebhookFails, UnderWay
  <2>2. \E to : tick' = [tick EXCEPT ![i].at = to]
    BY <1>5 DEF WebhookLands, WebhookAnswers, WebhookFails
  <2> QED
    BY <1>4, <2>1, <2>2
<1>6. CASE \/ NextBlock \/ SeasonStarted \/ BlockTick \/ AdvanceFinality
           \/ \E t \in Tokens : TokenLaunched(t)
           \/ \E t \in Tokens, trigger \in PerTokenTriggers : Trade(t, trigger)
           \/ UNCHANGED vars
  <2>1. tick' = tick
    BY <1>6 DEF NextBlock, SeasonStarted, BlockTick, AdvanceFinality, TokenLaunched, Trade,
                vars, schedulerVars
  <2> QED
    BY <1>2, <2>1
<1> QED
  BY <1>3, <1>5, <1>6 DEF Next

LEMMA StepSnapshots ==
  ASSUME HpInv, [Next]_vars
  PROVE  SnapshotInv'
<1>1. SnapshotInv /\ TypeOK /\ MaxBlock \in Nat /\ head \in 1..MaxBlock
  BY DepthsType DEF HpInv, SnapshotInv, TypeOK
<1>2. CASE NextBlock
  <2>1. /\ head' = head + 1 /\ head' \in 1..MaxBlock /\ due' \subseteq HandlersAt(head)'
        /\ lastAdvance' \in 0..head'
    BY <1>1, <1>2 DEF NextBlock, TypeOK, HandlersAt
  <2>2. TypeOK'
    BY <1>1, <1>2, <2>1 DEF NextBlock, TypeOK, tableVars, schedulerVars
  <2> QED
    BY <1>1, <1>2, <2>1, <2>2, QuietSnapshots DEF NextBlock, tableVars
<1>3. CASE SeasonStarted
  <2>1. TypeOK'
    BY <1>1, <1>3 DEF SeasonStarted, TypeOK, HandlersAt, schedulerVars
  <2> QED
    BY <1>1, <1>3, <2>1, QuietSnapshots DEF SeasonStarted
<1>4. ASSUME NEW t \in Tokens, TokenLaunched(t)
      PROVE  SnapshotInv'
  <2>1. TypeOK'
    BY <1>1, <1>4 DEF TokenLaunched, TypeOK, HandlersAt, schedulerVars
  <2> QED
    BY <1>1, <1>4, <2>1, QuietSnapshots DEF TokenLaunched
<1>5. ASSUME NEW t \in Tokens, NEW trigger \in PerTokenTriggers, Trade(t, trigger)
      PROVE  SnapshotInv'
  <2> DEFINE m == [missed EXCEPT ![t] = IF @ = NoTrade THEN head ELSE @]
  <2>1. m \in [Tokens -> 0..NoTrade]
    BY <1>1 DEF TypeOK, NoTrade
  <2>2. trigger \in Triggers /\ missed \in [Tokens -> 0..NoTrade]
    BY <1>1 DEF Triggers, TypeOK
  <2>3. Stamp(t, trigger, m) /\ UNCHANGED <<head, due, season, launched, tick, firedFor,
                                           excused, lastAdvance>>
    BY <1>5 DEF Trade, schedulerVars
  <2> HIDE DEF m
  <2>4. /\ hpSnapshot' \subseteq Snapshot /\ Behind(hpSnapshot', head')
        /\ ByDepth(hpSnapshot', lastAdvance') /\ missed' \in [Tokens -> 0..NoTrade]
        /\ halted' \in BOOLEAN
    BY <1>1, <2>1, <2>2, <2>3, StampStep
  <2>5. TypeOK'
    BY <1>1, <2>3, <2>4 DEF TypeOK, HandlersAt
  <2> QED
    BY <2>4, <2>5 DEF SnapshotInv
<1>6. CASE BlockTick
  <2>1. PICK t \in Tokens : Stamp(t, "BLOCK_TICK", missed)
    BY <1>6 DEF BlockTick
  <2>2. /\ UNCHANGED <<head, season, launched, tick, firedFor, excused, lastAdvance>>
        /\ due' \subseteq due
    BY <1>6 DEF BlockTick, schedulerVars
  <2>3. "BLOCK_TICK" \in Triggers /\ missed \in [Tokens -> 0..NoTrade]
    BY <1>1 DEF Triggers, TypeOK
  <2>4. /\ hpSnapshot' \subseteq Snapshot /\ Behind(hpSnapshot', head')
        /\ ByDepth(hpSnapshot', lastAdvance') /\ missed' \in [Tokens -> 0..NoTrade]
        /\ halted' \in BOOLEAN
    BY <1>1, <2>1, <2>2, <2>3, StampStep
  <2>5. TypeOK'
    BY <1>1, <2>2, <2>4 DEF TypeOK, HandlersAt
  <2> QED
    BY <2>4, <2>5 DEF SnapshotInv
<1>7. CASE AdvanceFinality
  BY <1>1, <1>7, PassStep
<1>8. ASSUME NEW i \in Ticks, NEW b \in Boundaries, BeginTick(i, b)
      PROVE  SnapshotInv'
  <2>1. UNCHANGED <<head, due, season, launched, hpSnapshot, halted, firedFor, missed,
                    lastAdvance>>
    BY <1>8 DEF BeginTick, tableVars
  <2>2. tick' \in [Ticks -> [at: {"idle", "sent", "landed", "refused", "done"},
                            for: Boundaries \cup {NoBoundary}]]
        /\ excused' \subseteq Boundaries
    BY <1>1, <1>8 DEF BeginTick, TypeOK
  <2>3. TypeOK'
    BY <1>1, <2>1, <2>2 DEF TypeOK, HandlersAt
  <2> QED
    BY <1>1, <2>1, <2>3, QuietSnapshots
<1>9. ASSUME NEW i \in Ticks, WebhookAnswers(i) \/ WebhookFails(i)
      PROVE  SnapshotInv'
  <2>1. UNCHANGED <<head, due, season, launched, hpSnapshot, halted, missed, lastAdvance>>
    BY <1>9 DEF WebhookAnswers, WebhookFails, tableVars
  <2>2. tick' \in [Ticks -> [at: {"idle", "sent", "landed", "refused", "done"},
                            for: Boundaries \cup {NoBoundary}]]
    BY <1>1, <1>9 DEF WebhookAnswers, WebhookFails, TypeOK
  <2>3. tick[i].for \in Boundaries
    BY <1>9 DEF WebhookAnswers, WebhookFails, UnderWay, HpInv, TicksHaveBoundaries
  <2>4. firedFor' \subseteq Boundaries /\ excused' \subseteq Boundaries
    BY <1>1, <1>9, <2>3 DEF WebhookAnswers, WebhookFails, FiredAfter, TypeOK
  <2>5. TypeOK'
    BY <1>1, <2>1, <2>2, <2>4 DEF TypeOK, HandlersAt
  <2> QED
    BY <1>1, <2>1, <2>5, QuietSnapshots
<1>10. ASSUME NEW i \in Ticks, WebhookLands(i)
       PROVE  SnapshotInv'
  <2>1. tick[i].for \in Boundaries
    BY <1>10 DEF WebhookLands, HpInv, TicksHaveBoundaries
  <2> QED
    BY <1>1, <1>10, <2>1, WebhookStep
<1>11. CASE UNCHANGED vars
  <2>1. TypeOK'
    BY <1>1, <1>11 DEF vars, tableVars, schedulerVars, TypeOK, HandlersAt
  <2> QED
    BY <1>1, <1>11, <2>1, QuietSnapshots DEF vars, tableVars
<1> QED
  BY <1>2, <1>3, <1>4, <1>5, <1>6, <1>7, <1>8, <1>9, <1>10, <1>11 DEF Next

LEMMA StepHp == HpInv /\ [Next]_vars => HpInv'
BY StepTicks, StepSnapshots DEF HpInv

(***************************************************************************)
(* Theorems                                                                *)
(***************************************************************************)

\* The tables and the scheduler's state keep their types, through halts, lost
\* answers and passes.
THEOREM SnapshotTypes == Spec => []TypeOK
<1>1. HpInv => TypeOK
  BY DEF HpInv, SnapshotInv
<1> QED
  BY <1>1, InitHp, StepHp, PTL DEF Spec

\* Between two passes every row that is not an anchor has the finality its depth
\* had at the last one (runFinalityAdvancer, buildHpSnapshotInsert).
THEOREM FinalityIsByDepth == Spec => []FinalityFollowsDepth
<1>1. HpInv => FinalityFollowsDepth
  BY DEF HpInv, SnapshotInv, ByDepth, FinalityFollowsDepth, FinalityAt, IsAnchor,
         InitialFinalityForTrigger
<1> QED
  BY <1>1, InitHp, StepHp, PTL DEF Spec

\* What RowsOnlyAdvance says of a step.
Advances ==
    \A row \in hpSnapshot :
        \/ row \in hpSnapshot'
        \/ [row EXCEPT !.finality = NextFinality(row)] \in hpSnapshot'

\* No row is deleted, and none changes otherwise than nextFinality says, whoever
\* writes (recomputeAndStampHp, runFinalityAdvancer, the webhook).
THEOREM RowsAdvance == Spec => RowsOnlyAdvance
<1>1. ASSUME HpInv, Next PROVE Advances
  <2> USE DEF Advances
  <2>1. CASE AdvanceFinality
    BY <1>1, <2>1, PassesAreNext, HeadType DEF AdvanceFinality, HpInv, SnapshotInv, TypeOK
  <2>2. CASE hpSnapshot \subseteq hpSnapshot'
    BY <2>2
  <2>3. ASSUME NEW t, NEW trigger, NEW m, Stamp(t, trigger, m)
        PROVE  hpSnapshot \subseteq hpSnapshot'
    BY <2>3 DEF Stamp
  <2> QED
    BY <1>1, <2>1, <2>2, <2>3
       DEF Next, NextBlock, SeasonStarted, TokenLaunched, Trade, BlockTick, BeginTick,
           WebhookLands, WebhookAnswers, WebhookFails, tableVars
<1>2. HpInv /\ [Next]_vars => [Advances]_vars
  BY <1>1
<1> QED
  BY <1>2, InitHp, StepHp, PTL DEF Spec, RowsOnlyAdvance, Advances

(***************************************************************************)
(* No trade stays unseen                                                   *)
(***************************************************************************)

\* There is a row of token t from block b.
HasRow(rows, t, b) == \E row \in rows : row.token = t /\ row.block = b

\* A trade of block m (or none) is behind a row of its own block, and no periodic
\* snapshot has run since; the one of block h may be owed.
KeptUp(rows, t, m, h, owed) ==
    m # NoTrade =>
        /\ HasRow(rows, t, m)
        /\ \A b \in (m + 1)..h : "HpSnapshot" \in HandlersAt(b) => b = h /\ owed

SnapshotOwed == halted \/ "HpSnapshot" \in due

\* A season's tokens are launched in it, and only launched tokens trade.
TokensOfSeasons ==
    /\ \A t \in launched : SeasonOf[t] <= season
    /\ \A t \in Tokens \ launched : missed[t] = NoTrade

KeepUpInv ==
    /\ TokensOfSeasons
    /\ \A t \in Cohort : KeptUp(hpSnapshot, t, missed[t], head, SnapshotOwed)

LEMMA KeepUpIsScores == KeepUpInv => ScoresKeepUp
BY DEF KeepUpInv, KeptUp, HasRow, SnapshotOwed, ScoresKeepUp

\* A row within the window is of the same block.
LEMMA WindowIsOneBlock ==
  ASSUME NEW b \in Nat, NEW h \in Nat, b <= h, TimeOf(b) + CoalesceWindow >= TimeOf(h)
  PROVE  b = h
<1>1. BlockSeconds \in Nat \ {0} /\ CoalesceWindow \in Nat /\ CoalesceWindow < BlockSeconds
  BY SnapshotConstants
<1>2. CASE b < h
  <2>1. PICK k \in Nat : h = b + 1 + k
    <3>1. h - b - 1 \in Nat /\ h = b + 1 + (h - b - 1)
      BY <1>2
    <3> QED
      BY <3>1
  <2>2. BlockSeconds * h = BlockSeconds * b + BlockSeconds + BlockSeconds * k
    BY <1>1, <2>1
  <2>3. BlockSeconds * k \in Nat /\ BlockSeconds * b \in Nat
    BY <1>1
  <2> QED
    BY <1>1, <2>2, <2>3 DEF TimeOf
<1> QED
  BY <1>2

\* What a step that leaves the head alone has to show for a token.
LEMMA KeptUpStays ==
  ASSUME NEW t, NEW m, NEW h, NEW rows, NEW rows2, NEW owed, NEW owed2,
         KeptUp(rows, t, m, h, owed), owed => owed2,
         HasRow(rows, t, m) => HasRow(rows2, t, m)
  PROVE  KeptUp(rows2, t, m, h, owed2)
BY DEF KeptUp

\* One call of the writer: its targets have been seen, the others and the rows are
\* as before.
LEMMA StampSees ==
  ASSUME HpInv, NEW t \in Tokens, NEW trigger, NEW m \in [Tokens -> 0..NoTrade],
         Stamp(t, trigger, m)
  PROVE  /\ hpSnapshot \subseteq hpSnapshot'
         /\ \/ halted' /\ hpSnapshot' = hpSnapshot /\ missed' = missed
            \/ halted' = halted /\ \A u \in Tokens :
                  missed'[u] = IF u \in Targets(t, trigger) THEN NoTrade ELSE m[u]
<1> DEFINE rows == {SnapshotOf(u, trigger) : u \in Targets(t, trigger)}
<1>1. CASE Collides(rows)
  BY <1>1 DEF Stamp
<1>2. CASE ~Collides(rows)
  BY <1>2 DEF Stamp, SeenBy
<1> QED
  BY <1>1, <1>2

\* A finality pass keeps the token, block and trigger of every row.
LEMMA PassKeepsRows ==
  ASSUME HpInv, AdvanceFinality
  PROVE  /\ \A row \in hpSnapshot : \E new \in hpSnapshot' :
               new.token = row.token /\ new.block = row.block /\ new.trigger = row.trigger
         /\ \A new \in hpSnapshot' : \E row \in hpSnapshot :
               new.token = row.token /\ new.block = row.block /\ new.trigger = row.trigger
<1>1. hpSnapshot' = {[r EXCEPT !.finality = NextFinality(r)] : r \in hpSnapshot}
  BY PassesAreNext, HeadType DEF AdvanceFinality, HpInv, SnapshotInv, TypeOK
<1>2. ASSUME NEW r \in hpSnapshot, NEW x, x = [r EXCEPT !.finality = NextFinality(r)]
      PROVE  x.token = r.token /\ x.block = r.block /\ x.trigger = r.trigger
  BY <1>2 DEF HpInv, SnapshotInv, TypeOK, Snapshot
<1>3. ASSUME NEW r \in hpSnapshot
      PROVE  \E new \in hpSnapshot' :
               new.token = r.token /\ new.block = r.block /\ new.trigger = r.trigger
  <2> DEFINE x == [r EXCEPT !.finality = NextFinality(r)]
  <2>1. x \in hpSnapshot'
    BY <1>1
  <2>2. x.token = r.token /\ x.block = r.block /\ x.trigger = r.trigger
    BY <1>2
  <2> QED
    BY <2>1, <2>2
<1>4. ASSUME NEW new \in hpSnapshot'
      PROVE  \E row \in hpSnapshot :
               new.token = row.token /\ new.block = row.block /\ new.trigger = row.trigger
  <2>1. PICK r \in hpSnapshot : new = [r EXCEPT !.finality = NextFinality(r)]
    BY <1>1
  <2> QED
    BY <1>2, <2>1
<1> QED
  BY <1>3, <1>4

LEMMA SeasonsAreNumbers == Seasons \subseteq Nat /\ SeasonOf \in [Tokens -> Nat]
<1> DEFINE n == Cardinality(Seasons)
<1>1. Seasons = 1..n /\ SeasonOf \in [Tokens -> Seasons]
  BY SnapshotConstants
<1> HIDE DEF n
<1>2. \A s \in 1..n : s \in Nat
  OBVIOUS
<1>3. Seasons \subseteq Nat
  BY <1>1, <1>2
<1> QED
  BY <1>1, <1>3

LEMMA InitKeepUp ==
  ASSUME Init
  PROVE  KeepUpInv
BY DEF Init, KeepUpInv, TokensOfSeasons, Cohort

\* The block handlers of the head are done: no snapshot is owed, and a trade that
\* is unseen is so since the last periodic snapshot.
LEMMA NextBlockKeepsUp ==
  ASSUME HpInv, KeepUpInv, NextBlock
  PROVE  KeepUpInv'
<1>1. /\ head' = head + 1 /\ due' = HandlersAt(head + 1) /\ due = {} /\ ~halted
      /\ UNCHANGED <<season, launched, hpSnapshot, halted, missed>>
  BY DEF NextBlock, tableVars
<1>2. head \in Nat
  BY HeadType DEF HpInv, SnapshotInv
<1>3. ~SnapshotOwed
  BY <1>1 DEF SnapshotOwed
<1>4. ASSUME NEW t \in Cohort
      PROVE  KeptUp(hpSnapshot, t, missed[t], head + 1, SnapshotOwed')
  <2>1. missed[t] \in Nat
    BY DepthsType DEF HpInv, SnapshotInv, TypeOK, Cohort, NoTrade
  <2>2. KeptUp(hpSnapshot, t, missed[t], head, SnapshotOwed)
    BY DEF KeepUpInv
  <2>3. ASSUME NEW b \in (missed[t] + 1)..(head + 1), "HpSnapshot" \in HandlersAt(b),
               missed[t] # NoTrade
        PROVE  b = head + 1 /\ SnapshotOwed'
    <3>1. b \notin (missed[t] + 1)..head
      BY <2>2, <2>3, <1>3 DEF KeptUp
    <3>2. b = head + 1
      BY <1>2, <2>1, <3>1
    <3> QED
      BY <1>1, <2>3, <3>2 DEF SnapshotOwed
  <2> QED
    BY <2>2, <2>3 DEF KeptUp
<1> QED
  BY <1>1, <1>4 DEF KeepUpInv, TokensOfSeasons, Cohort

\* A trade is seen at once, or behind a row of its own block.
LEMMA TradeKeepsUp ==
  ASSUME HpInv, KeepUpInv, NEW t \in Tokens, NEW trigger \in PerTokenTriggers,
         Trade(t, trigger)
  PROVE  KeepUpInv'
<1> DEFINE m == [missed EXCEPT ![t] = IF @ = NoTrade THEN head ELSE @]
<1>1. /\ missed \in [Tokens -> 0..NoTrade] /\ head \in 1..MaxBlock /\ MaxBlock \in Nat
      /\ launched \subseteq Tokens /\ hpSnapshot \subseteq Snapshot
  BY DepthsType DEF HpInv, SnapshotInv, TypeOK
<1>2. /\ InLogs /\ t \in launched /\ Stamp(t, trigger, m)
      /\ UNCHANGED <<head, due, season, launched>>
  BY DEF Trade
<1>3. m \in [Tokens -> 0..NoTrade] /\ \A u \in Tokens \ {t} : m[u] = missed[u]
  BY <1>1 DEF NoTrade
<1>4. m[t] = IF missed[t] = NoTrade THEN head ELSE missed[t]
  BY <1>1
<1> HIDE DEF m
<1>5. /\ hpSnapshot \subseteq hpSnapshot'
      /\ \/ halted' /\ hpSnapshot' = hpSnapshot /\ missed' = missed
         \/ halted' = halted /\ \A u \in Tokens :
               missed'[u] = IF u \in Targets(t, trigger) THEN NoTrade ELSE m[u]
  BY <1>2, <1>3, StampSees
<1>6. TokensOfSeasons'
  <2>1. ASSUME NEW u \in Tokens \ launched PROVE missed'[u] = NoTrade
    BY <1>2, <1>3, <1>5 DEF KeepUpInv, TokensOfSeasons
  <2> QED
    BY <1>2, <2>1 DEF KeepUpInv, TokensOfSeasons
<1>7. SnapshotOwed => SnapshotOwed'
  BY <1>2, <1>5 DEF SnapshotOwed
<1>8. ASSUME NEW u \in Cohort
      PROVE  KeptUp(hpSnapshot', u, missed'[u], head, SnapshotOwed')
  <2>1. u \in Tokens /\ KeptUp(hpSnapshot, u, missed[u], head, SnapshotOwed)
    BY <1>1 DEF KeepUpInv, Cohort
  <2>2. CASE missed'[u] = NoTrade
    BY <2>2 DEF KeptUp
  <2>3. CASE missed'[u] = missed[u]
    BY <2>1, <2>3, <1>5, <1>7, KeptUpStays DEF HasRow
  <2>4. CASE missed'[u] # NoTrade /\ missed'[u] # missed[u]
    <3>1. /\ u = t /\ missed[t] = NoTrade /\ missed'[u] = head
          /\ u \notin Targets(t, trigger) /\ u \in Cohort
      BY <2>1, <2>4, <1>3, <1>4, <1>5
    <3>2. Coalesced(t)
      BY <3>1 DEF Targets, IsCohortWideTrigger
    <3>3. PICK row \in hpSnapshot : row.token = t
                                   /\ TimeOf(row.block) + CoalesceWindow >= TimeOf(head)
      BY <3>2 DEF Coalesced
    <3>4. row.block \in Nat /\ row.block <= head /\ head \in Nat
      BY <1>1, <3>3 DEF HpInv, SnapshotInv, Behind, Snapshot
    <3>5. row.block = head
      BY <3>3, <3>4, WindowIsOneBlock
    <3>6. HasRow(hpSnapshot', t, head)
      BY <1>5, <3>3, <3>5 DEF HasRow
    <3>7. (head + 1)..head = {}
      BY <3>4
    <3> QED
      BY <3>1, <3>6, <3>7 DEF KeptUp
  <2> QED
    BY <2>2, <2>3, <2>4
<1> QED
  BY <1>2, <1>6, <1>8 DEF KeepUpInv, Cohort

\* A periodic snapshot sees every token of the season, or stops the indexer.
LEMMA BlockTickKeepsUp ==
  ASSUME HpInv, KeepUpInv, BlockTick
  PROVE  KeepUpInv'
<1>1. PICK t \in Tokens : Stamp(t, "BLOCK_TICK", missed)
  BY DEF BlockTick
<1>2. UNCHANGED <<head, season, launched>>
  BY DEF BlockTick
<1>3. missed \in [Tokens -> 0..NoTrade] /\ launched \subseteq Tokens
  BY DEF HpInv, SnapshotInv, TypeOK
<1>4. Targets(t, "BLOCK_TICK") = Cohort
  BY SnapshotConstants DEF Targets, IsCohortWideTrigger
<1>5. /\ hpSnapshot \subseteq hpSnapshot'
      /\ \/ halted' /\ hpSnapshot' = hpSnapshot /\ missed' = missed
         \/ halted' = halted /\ \A u \in Tokens :
               missed'[u] = IF u \in Cohort THEN NoTrade ELSE missed[u]
  BY <1>1, <1>3, <1>4, StampSees
<1>6. TokensOfSeasons'
  <2>1. ASSUME NEW u \in Tokens \ launched PROVE missed'[u] = NoTrade
    BY <1>5 DEF KeepUpInv, TokensOfSeasons
  <2> QED
    BY <1>2, <2>1 DEF KeepUpInv, TokensOfSeasons
<1>7. ASSUME NEW u \in Cohort
      PROVE  KeptUp(hpSnapshot', u, missed'[u], head, SnapshotOwed')
  <2>1. u \in Tokens /\ KeptUp(hpSnapshot, u, missed[u], head, SnapshotOwed)
    BY <1>3 DEF KeepUpInv, Cohort
  <2>2. CASE missed'[u] = NoTrade
    BY <2>2 DEF KeptUp
  <2>3. CASE halted' /\ hpSnapshot' = hpSnapshot /\ missed' = missed
    <3>1. SnapshotOwed'
      BY <2>3 DEF SnapshotOwed
    <3> QED
      BY <2>1, <2>3, <3>1, KeptUpStays
  <2> QED
    BY <1>5, <2>1, <2>2, <2>3
<1> QED
  BY <1>2, <1>6, <1>7 DEF KeepUpInv, Cohort

\* A webhook that lands sees every token of the season.
LEMMA WebhookKeepsUp ==
  ASSUME HpInv, KeepUpInv, NEW i \in Ticks, WebhookLands(i)
  PROVE  KeepUpInv'
<1>1. UNCHANGED <<head, due, season, launched, halted>>
  BY DEF WebhookLands
<1>2. missed \in [Tokens -> 0..NoTrade] /\ launched \subseteq Tokens
  BY DEF HpInv, SnapshotInv, TypeOK
<1>3. /\ hpSnapshot \subseteq hpSnapshot'
      /\ \/ missed' = missed
         \/ \A u \in Tokens : missed'[u] = IF u \in Cohort THEN NoTrade ELSE missed[u]
  BY DEF WebhookLands, SeenBy
<1>4. ASSUME NEW u \in Cohort
      PROVE  KeptUp(hpSnapshot', u, missed'[u], head, SnapshotOwed')
  <2>1. u \in Tokens /\ KeptUp(hpSnapshot, u, missed[u], head, SnapshotOwed)
    BY <1>2 DEF KeepUpInv, Cohort
  <2>2. SnapshotOwed' = SnapshotOwed
    BY <1>1 DEF SnapshotOwed
  <2>3. CASE missed'[u] = NoTrade
    BY <2>3 DEF KeptUp
  <2>4. CASE missed'[u] = missed[u]
    BY <1>3, <2>1, <2>2, <2>4, KeptUpStays DEF HasRow
  <2> QED
    BY <1>3, <2>1, <2>3, <2>4
<1>5. \A u \in Tokens \ launched : missed'[u] = NoTrade
  BY <1>3 DEF KeepUpInv, TokensOfSeasons
<1> QED
  BY <1>1, <1>4, <1>5 DEF KeepUpInv, TokensOfSeasons, Cohort

LEMMA PassKeepsUp ==
  ASSUME HpInv, KeepUpInv, AdvanceFinality
  PROVE  KeepUpInv'
<1>1. UNCHANGED <<head, season, launched, halted, missed>>
      /\ due' = due \ {"HpFinalityAdvancer"}
  BY DEF AdvanceFinality
<1>2. SnapshotOwed' = SnapshotOwed
  BY <1>1 DEF SnapshotOwed
<1>3. ASSUME NEW t, NEW b, HasRow(hpSnapshot, t, b)
      PROVE  HasRow(hpSnapshot', t, b)
  <2>1. PICK row \in hpSnapshot : row.token = t /\ row.block = b
    BY <1>3 DEF HasRow
  <2>2. \E new \in hpSnapshot' : new.token = row.token /\ new.block = row.block
    BY <2>1, PassKeepsRows
  <2> QED
    BY <2>1, <2>2 DEF HasRow
<1>4. ASSUME NEW u \in Cohort
      PROVE  KeptUp(hpSnapshot', u, missed[u], head, SnapshotOwed')
  <2>1. KeptUp(hpSnapshot, u, missed[u], head, SnapshotOwed)
    BY DEF KeepUpInv
  <2> QED
    BY <1>2, <1>3, <2>1, KeptUpStays
<1> QED
  BY <1>1, <1>4 DEF KeepUpInv, TokensOfSeasons, Cohort

LEMMA StepKeepUp ==
  ASSUME HpInv, KeepUpInv, [Next]_vars
  PROVE  KeepUpInv'
<1>1. CASE SeasonStarted
  <2>1. season \in Nat /\ SeasonOf \in [Tokens -> Nat]
    BY SeasonsAreNumbers DEF HpInv, SnapshotInv, TypeOK
  <2>2. season' = season + 1 /\ UNCHANGED <<launched, missed>>
    BY <1>1 DEF SeasonStarted
  <2>3. \A t \in launched : SeasonOf[t] \in Nat /\ SeasonOf[t] <= season
    BY <2>1 DEF KeepUpInv, TokensOfSeasons, HpInv, SnapshotInv, TypeOK
  <2>4. Cohort' = {}
    BY <2>1, <2>2, <2>3 DEF Cohort
  <2> QED
    BY <2>1, <2>2, <2>3, <2>4 DEF KeepUpInv, TokensOfSeasons
<1>2. ASSUME NEW t \in Tokens, TokenLaunched(t)
      PROVE  KeepUpInv'
  <2>1. /\ t \notin launched /\ SeasonOf[t] = season /\ launched' = launched \cup {t}
        /\ UNCHANGED <<head, due, season, hpSnapshot, halted, missed>>
    BY <1>2 DEF TokenLaunched
  <2>2. missed[t] = NoTrade
    BY <2>1 DEF KeepUpInv, TokensOfSeasons
  <2>3. season \in Nat
    BY SeasonsAreNumbers DEF HpInv, SnapshotInv, TypeOK
  <2>4. TokensOfSeasons'
    BY <2>1, <2>3 DEF KeepUpInv, TokensOfSeasons
  <2>5. \A u \in Cohort' : u \in Cohort \/ u = t
    BY <2>1 DEF Cohort
  <2>6. SnapshotOwed' = SnapshotOwed
    BY <2>1 DEF SnapshotOwed
  <2>7. \A u \in Cohort' : KeptUp(hpSnapshot, u, missed[u], head, SnapshotOwed')
    BY <2>2, <2>5, <2>6 DEF KeepUpInv, KeptUp
  <2> QED
    BY <2>1, <2>4, <2>7 DEF KeepUpInv
<1>3. CASE UNCHANGED <<head, due, season, launched, hpSnapshot, halted, missed>>
  BY <1>3 DEF KeepUpInv, TokensOfSeasons, Cohort, SnapshotOwed
<1>4. ASSUME NEW i \in Ticks, NEW b \in Boundaries, BeginTick(i, b)
      PROVE  KeepUpInv'
  BY <1>3, <1>4 DEF BeginTick, tableVars
<1>5. ASSUME NEW i \in Ticks, WebhookAnswers(i) \/ WebhookFails(i)
      PROVE  KeepUpInv'
  BY <1>3, <1>5 DEF WebhookAnswers, WebhookFails, tableVars
<1>6. CASE UNCHANGED vars
  BY <1>3, <1>6 DEF vars, tableVars
<1> QED
  BY <1>1, <1>2, <1>4, <1>5, <1>6, NextBlockKeepsUp, TradeKeepsUp, BlockTickKeepsUp,
     WebhookKeepsUp, PassKeepsUp DEF Next

\* Coalescing loses no trade for longer than to the next periodic snapshot, and
\* only behind a row of the trade's own block: the window is shorter than a block
\* (recomputeAndStampHp, COALESCE_WINDOW_SEC).
THEOREM TradesAreSeen == Spec => []ScoresKeepUp
<1>1. HpInv /\ KeepUpInv /\ [Next]_vars => (HpInv /\ KeepUpInv)'
  BY StepHp, StepKeepUp
<1>2. Init => HpInv /\ KeepUpInv
  BY InitHp, InitKeepUp
<1> QED
  BY <1>1, <1>2, KeepUpIsScores, PTL DEF Spec

(***************************************************************************)
(* Rankings at the boundaries                                              *)
(***************************************************************************)

Asks(i, b) == UnderWay(i) /\ tick[i].for = b

\* A ranking for b has been written, and the scheduler knows or will know.
Ranked(b) == b \in firedFor \/ \E i \in Ticks : tick[i].at = "landed" /\ tick[i].for = b

\* As long as b is not excused one tick at a time asks for it, and none once the
\* scheduler knows that it has fired.
OneAsks ==
    \A b \in Boundaries \ excused :
        /\ \A i, j \in Ticks : Asks(i, b) /\ Asks(j, b) => i = j
        /\ (b \in firedFor) => \A i \in Ticks : ~Asks(i, b)

BoundaryTriggers == {"PHASE_BOUNDARY", "CUT", "FINALIZE"}

\* The row is the ranking for b, at the block f[b].
RankingFor(row, b, f) ==
    /\ b.trigger = row.trigger
    /\ b \in excused \/ (Ranked(b) /\ row.block = f[b])

\* Every row of a boundary's ranking is from the one block of its boundary.
OneBlockEach(f) ==
    \A row \in hpSnapshot : row.trigger \in BoundaryTriggers =>
        \E b \in Boundaries : RankingFor(row, b, f)

AnchorInv == OneAsks /\ \E f \in [Boundaries -> Nat] : OneBlockEach(f)

LEMMA InitAnchors ==
  ASSUME Init
  PROVE  AnchorInv
<1>1. [b \in Boundaries |-> 0] \in [Boundaries -> Nat]
  OBVIOUS
<1>2. OneBlockEach([b \in Boundaries |-> 0])
  BY DEF Init, OneBlockEach
<1>3. OneAsks
  BY DEF Init, OneAsks, Asks, UnderWay
<1> QED
  BY <1>1, <1>2, <1>3 DEF AnchorInv

\* The scheduler's state stays; no new row is a boundary's.
LEMMA AnchorsStay ==
  ASSUME AnchorInv, UNCHANGED <<tick, firedFor, excused>>,
         \A new \in hpSnapshot' : new.trigger \in BoundaryTriggers =>
             \E row \in hpSnapshot : new.block = row.block /\ new.trigger = row.trigger
  PROVE  AnchorInv'
<1>1. OneAsks'
  BY DEF AnchorInv, OneAsks, Asks, UnderWay
<1>2. PICK f \in [Boundaries -> Nat] : OneBlockEach(f)
  BY DEF AnchorInv
<1>3. \A b : Ranked(b)' = Ranked(b)
  BY DEF Ranked
<1>4. ASSUME NEW new \in hpSnapshot', new.trigger \in BoundaryTriggers
      PROVE  \E b \in Boundaries : RankingFor(new, b, f)'
  <2>1. PICK row \in hpSnapshot : new.block = row.block /\ new.trigger = row.trigger
    BY <1>4
  <2>2. PICK b \in Boundaries : RankingFor(row, b, f)
    BY <1>2, <1>4, <2>1 DEF OneBlockEach
  <2> QED
    BY <1>3, <2>1, <2>2 DEF RankingFor
<1>5. OneBlockEach(f)'
  BY <1>4 DEF OneBlockEach
<1> QED
  BY <1>1, <1>5 DEF AnchorInv

\* A call from a handler writes no row of a boundary.
LEMMA StampIsNoAnchor ==
  ASSUME NEW t, NEW trigger, NEW m, Stamp(t, trigger, m), trigger \notin BoundaryTriggers,
         NEW new \in hpSnapshot', new.trigger \in BoundaryTriggers
  PROVE  new \in hpSnapshot
BY DEF Stamp, SnapshotOf

\* Ranked and the rows stay, the ticks move.
LEMMA TicksMove ==
  ASSUME AnchorInv, OneAsks', hpSnapshot' = hpSnapshot, excused \subseteq excused',
         \A b \in Boundaries : Ranked(b) => Ranked(b)' \/ b \in excused'
  PROVE  AnchorInv'
<1>1. PICK f \in [Boundaries -> Nat] : OneBlockEach(f)
  BY DEF AnchorInv
<1>2. ASSUME NEW row \in hpSnapshot, NEW b \in Boundaries, RankingFor(row, b, f)
      PROVE  RankingFor(row, b, f)'
  BY <1>2 DEF RankingFor
<1>3. OneBlockEach(f)'
  BY <1>1, <1>2 DEF OneBlockEach
<1> QED
  BY <1>3 DEF AnchorInv

\* Tick i goes on.
GoesTo(i, to) == tick' = [tick EXCEPT ![i].at = to]

\* Where the ticks are after one of them has moved.
LEMMA TickAfter ==
  ASSUME HpInv, NEW i \in Ticks, NEW to, GoesTo(i, to)
  PROVE  \A j \in Ticks : /\ tick'[j].for = tick[j].for
                          /\ tick'[j].at = IF j = i THEN to ELSE tick[j].at
<1>1. tick \in [Ticks -> [at: {"idle", "sent", "landed", "refused", "done"},
                         for: Boundaries \cup {NoBoundary}]]
  BY DEF HpInv, SnapshotInv, TypeOK
<1> QED
  BY <1>1 DEF GoesTo

LEMMA BeginAnchors ==
  ASSUME HpInv, AnchorInv, NEW i \in Ticks, NEW b \in Boundaries, BeginTick(i, b)
  PROVE  AnchorInv'
<1>1. /\ tick[i].at = "idle" /\ b \notin firedFor
      /\ tick' = [tick EXCEPT ![i] = [at |-> "sent", for |-> b]]
      /\ UNCHANGED <<hpSnapshot, firedFor>>
  BY DEF BeginTick, CanFire, tableVars
<1>2. excused' = excused \cup {c \in {b} : \E j \in Ticks : Asks(j, c)}
  BY DEF BeginTick, Asks
<1>3. \A j \in Ticks : tick'[j] = IF j = i THEN [at |-> "sent", for |-> b] ELSE tick[j]
  BY <1>1 DEF HpInv, SnapshotInv, TypeOK
<1>4. ASSUME NEW c \in Boundaries \ excused'
      PROVE  /\ \A j, k \in Ticks : Asks(j, c)' /\ Asks(k, c)' => j = k
             /\ (c \in firedFor') => \A j \in Ticks : ~Asks(j, c)'
  <2>1. c \in Boundaries \ excused
    BY <1>2
  <2>2. \A j \in Ticks \ {i} : Asks(j, c)' = Asks(j, c)
    BY <1>3 DEF Asks, UnderWay
  <2>3. CASE c = b
    <3>1. \A j \in Ticks : ~Asks(j, c)
      BY <1>2, <2>3
    <3> QED
      BY <1>1, <2>2, <2>3, <3>1
  <2>4. CASE c # b
    <3>1. ~Asks(i, c)'
      BY <1>3, <2>4 DEF Asks
    <3> QED
      BY <1>1, <2>1, <2>2, <3>1 DEF AnchorInv, OneAsks
  <2> QED
    BY <2>3, <2>4
<1>5. OneAsks'
  BY <1>4 DEF OneAsks
<1>6. \A c \in Boundaries : Ranked(c) => Ranked(c)'
  BY <1>1, <1>3 DEF Ranked
<1> QED
  BY <1>1, <1>2, <1>5, <1>6, TicksMove

LEMMA AnswerAnchors ==
  ASSUME HpInv, AnchorInv, NEW i \in Ticks, WebhookAnswers(i)
  PROVE  AnchorInv'
<1>1. /\ UnderWay(i) /\ tick[i].at # "sent" /\ firedFor' = FiredAfter(i)
      /\ GoesTo(i, "done") /\ UNCHANGED <<hpSnapshot, excused>>
  BY DEF WebhookAnswers, tableVars, GoesTo
<1>2. \A j \in Ticks : /\ tick'[j].for = tick[j].for
                       /\ tick'[j].at = IF j = i THEN "done" ELSE tick[j].at
  BY <1>1, TickAfter
<1>3. ASSUME NEW c \in Boundaries \ excused'
      PROVE  /\ \A j, k \in Ticks : Asks(j, c)' /\ Asks(k, c)' => j = k
             /\ (c \in firedFor') => \A j \in Ticks : ~Asks(j, c)'
  <2>1. ~Asks(i, c)' /\ \A j \in Ticks \ {i} : Asks(j, c)' = Asks(j, c)
    BY <1>2 DEF Asks, UnderWay
  <2>2. /\ \A j, k \in Ticks : Asks(j, c) /\ Asks(k, c) => j = k
        /\ (c \in firedFor) => \A j \in Ticks : ~Asks(j, c)
    BY <1>1 DEF AnchorInv, OneAsks
  <2>3. (c \in firedFor' \ firedFor) => Asks(i, c)
    BY <1>1 DEF FiredAfter, Asks
  <2> QED
    BY <2>1, <2>2, <2>3
<1>4. OneAsks'
  BY <1>3 DEF OneAsks
<1>5. \A c \in Boundaries : Ranked(c) => Ranked(c)'
  BY <1>1, <1>2 DEF Ranked, FiredAfter
<1> QED
  BY <1>1, <1>4, <1>5, TicksMove

LEMMA FailAnchors ==
  ASSUME HpInv, AnchorInv, NEW i \in Ticks, WebhookFails(i)
  PROVE  AnchorInv'
<1>1. /\ tick[i].at \in {"sent", "landed"} /\ GoesTo(i, "done")
      /\ excused' = excused \cup {b \in {tick[i].for} : tick[i].at = "landed"}
      /\ UNCHANGED <<hpSnapshot, firedFor>>
  BY DEF WebhookFails, tableVars, GoesTo
<1>2. \A j \in Ticks : /\ tick'[j].for = tick[j].for
                       /\ tick'[j].at = IF j = i THEN "done" ELSE tick[j].at
  BY <1>1, TickAfter
<1>3. \A c, j : j \in Ticks /\ Asks(j, c)' => Asks(j, c)
  BY <1>2 DEF Asks, UnderWay
<1>4. OneAsks'
  BY <1>1, <1>3 DEF AnchorInv, OneAsks
<1>5. \A c \in Boundaries : Ranked(c) => Ranked(c)' \/ c \in excused'
  BY <1>1, <1>2 DEF Ranked
<1> QED
  BY <1>1, <1>4, <1>5, TicksMove

\* A ranking is written while only its own tick asks for it: there is none yet.
LEMMA LandAnchors ==
  ASSUME HpInv, AnchorInv, NEW i \in Ticks, WebhookLands(i)
  PROVE  AnchorInv'
<1>2. PICK b \in Boundaries : b = tick[i].for
  BY DEF WebhookLands, HpInv, TicksHaveBoundaries
<1> DEFINE rows == {SnapshotOf(t, b.trigger) : t \in Cohort}
           ok == ~halted /\ ~Collides(rows)
           to == IF ok THEN "landed" ELSE "refused"
<1>1. /\ tick[i].at = "sent" /\ GoesTo(i, to)
      /\ hpSnapshot' = IF ok THEN hpSnapshot \cup rows ELSE hpSnapshot
      /\ UNCHANGED <<head, firedFor, excused>>
  BY <1>2 DEF WebhookLands, GoesTo
<1>3. to \in {"landed", "refused"} /\ (to = "landed" <=> ok)
  OBVIOUS
<1> HIDE DEF to
<1>4. \A j \in Ticks : /\ tick'[j].for = tick[j].for
                       /\ tick'[j].at = IF j = i THEN to ELSE tick[j].at
  BY <1>1, TickAfter
<1>5. \A c, j : j \in Ticks => Asks(j, c)' = Asks(j, c)
  BY <1>1, <1>3, <1>4 DEF Asks, UnderWay
<1>6. OneAsks'
  BY <1>1, <1>5 DEF AnchorInv, OneAsks
<1>7. \A c \in Boundaries : Ranked(c) => Ranked(c)'
  BY <1>1, <1>4 DEF Ranked
<1>8. CASE ~ok
  BY <1>1, <1>6, <1>7, <1>8, TicksMove
<1>9. CASE ok
  <2>1. PICK f \in [Boundaries -> Nat] : OneBlockEach(f)
    BY DEF AnchorInv
  <2>3. PICK g \in [Boundaries -> Nat] :
               \A c \in Boundaries : g[c] = IF c = b THEN head ELSE f[c]
    <3>1. [c \in Boundaries |-> IF c = b THEN head ELSE f[c]] \in [Boundaries -> Nat]
      BY HeadType DEF HpInv, SnapshotInv
    <3> QED
      BY <3>1
  <2>4. b \notin excused => ~Ranked(b)
    <3>1. Asks(i, b)
      BY <1>1, <1>2 DEF Asks, UnderWay
    <3>2. ASSUME b \notin excused, NEW j \in Ticks, tick[j].at = "landed", tick[j].for = b
          PROVE  FALSE
      <4>1. Asks(j, b)
        BY <3>2 DEF Asks, UnderWay
      <4>2. j = i
        BY <1>2, <3>1, <3>2, <4>1 DEF AnchorInv, OneAsks
      <4> QED
        BY <1>1, <3>2, <4>2
    <3>3. b \notin excused => b \notin firedFor
      BY <1>2, <3>1 DEF AnchorInv, OneAsks
    <3> QED
      BY <3>2, <3>3 DEF Ranked
  <2>5. ASSUME NEW row \in hpSnapshot, row.trigger \in BoundaryTriggers
        PROVE  \E c \in Boundaries : RankingFor(row, c, g)'
    <3>1. PICK c \in Boundaries : RankingFor(row, c, f)
      BY <2>1, <2>5 DEF OneBlockEach
    <3>2. c \in excused \/ c # b
      BY <2>4, <3>1 DEF RankingFor
    <3> QED
      BY <1>1, <1>7, <2>3, <3>1, <3>2 DEF RankingFor
  <2>6. ASSUME NEW row \in rows
        PROVE  RankingFor(row, b, g)'
    <3>1. row.block = head /\ row.trigger = b.trigger
      BY <2>6 DEF SnapshotOf
    <3>2. Ranked(b)'
      BY <1>2, <1>3, <1>4, <1>9 DEF Ranked
    <3> QED
      BY <1>2, <2>3, <3>1, <3>2 DEF RankingFor
  <2>7. OneBlockEach(g)'
    <3>1. hpSnapshot' = hpSnapshot \cup rows
      BY <1>1, <1>9
    <3> HIDE DEF rows
    <3> QED
      BY <1>2, <2>5, <2>6, <3>1 DEF OneBlockEach
  <2> QED
    BY <1>6, <2>7 DEF AnchorInv
<1> QED
  BY <1>8, <1>9

LEMMA StepAnchors ==
  ASSUME HpInv, AnchorInv, [Next]_vars
  PROVE  AnchorInv'
<1>1. CASE UNCHANGED <<hpSnapshot, tick, firedFor, excused>>
  BY <1>1, AnchorsStay
<1>2. CASE AdvanceFinality
  <2>1. UNCHANGED <<tick, firedFor, excused>>
    BY <1>2 DEF AdvanceFinality, schedulerVars
  <2> QED
    BY <1>2, <2>1, PassKeepsRows, AnchorsStay
<1>3. ASSUME NEW t \in Tokens, NEW trigger \in PerTokenTriggers, Trade(t, trigger)
      PROVE  AnchorInv'
  <2>1. trigger \notin BoundaryTriggers
    BY SnapshotConstants DEF BoundaryTriggers
  <2>2. /\ UNCHANGED <<tick, firedFor, excused>>
        /\ \E m : Stamp(t, trigger, m)
    BY <1>3 DEF Trade, schedulerVars
  <2>3. \A new \in hpSnapshot' : new.trigger \in BoundaryTriggers => new \in hpSnapshot
    BY <2>1, <2>2, StampIsNoAnchor
  <2> QED
    BY <2>2, <2>3, AnchorsStay
<1>4. CASE BlockTick
  <2>1. "BLOCK_TICK" \notin BoundaryTriggers
    BY DEF BoundaryTriggers
  <2>2. /\ UNCHANGED <<tick, firedFor, excused>>
        /\ \E t \in Tokens : Stamp(t, "BLOCK_TICK", missed)
    BY <1>4 DEF BlockTick, schedulerVars
  <2>3. \A new \in hpSnapshot' : new.trigger \in BoundaryTriggers => new \in hpSnapshot
    BY <2>1, <2>2, StampIsNoAnchor
  <2> QED
    BY <2>2, <2>3, AnchorsStay
<1>5. CASE NextBlock \/ SeasonStarted \/ \E t \in Tokens : TokenLaunched(t)
  BY <1>1, <1>5 DEF NextBlock, SeasonStarted, TokenLaunched, tableVars, schedulerVars
<1>6. CASE UNCHANGED vars
  BY <1>1, <1>6 DEF vars, tableVars, schedulerVars
<1> QED
  BY <1>2, <1>3, <1>4, <1>5, <1>6, BeginAnchors, LandAnchors, AnswerAnchors, FailAnchors
     DEF Next

\* Rankings that are each of one boundary's block are no more than the boundaries.
LEMMA BlocksAreBoundaries ==
  ASSUME HpInv, AnchorInv
  PROVE  AnchorsAreSingle
<1>1. PICK f \in [Boundaries -> Nat] : OneBlockEach(f)
  BY DEF AnchorInv
<1>2. ASSUME NEW b \in Boundaries, Alike(b) \cap excused = {}
      PROVE  Cardinality(RankedAt(b)) <= Cardinality(Alike(b))
  <2> DEFINE g == [c \in Alike(b) |-> f[c]]
             T == {f[c] : c \in Alike(b)}
  <2>1. IsFiniteSet(Alike(b))
    BY SnapshotConstants, FS_Subset DEF Alike
  <2>2. g \in Surjection(Alike(b), T)
    BY DEF Surjection
  <2>3. IsFiniteSet(T) /\ Cardinality(T) <= Cardinality(Alike(b))
    BY <2>1, <2>2, FS_Surjection
  <2>4. ASSUME NEW row \in hpSnapshot, row.trigger = b.trigger
        PROVE  row.block \in T
    <3>1. row.trigger \in BoundaryTriggers
      BY SnapshotConstants, <2>4 DEF BoundaryTriggers
    <3>2. PICK c \in Boundaries : RankingFor(row, c, f)
      BY <1>1, <3>1 DEF OneBlockEach
    <3>3. c \in Alike(b)
      BY <2>4, <3>2 DEF RankingFor, Alike
    <3>4. row.block = f[c]
      BY <1>2, <3>2, <3>3 DEF RankingFor
    <3> QED
      BY <3>3, <3>4
  <2>5. RankedAt(b) \subseteq T
    BY <2>4 DEF RankedAt
  <2>6. IsFiniteSet(RankedAt(b)) /\ Cardinality(RankedAt(b)) <= Cardinality(T)
    BY <2>3, <2>5, FS_Subset
  <2>7. Cardinality(T) \in Nat /\ Cardinality(RankedAt(b)) \in Nat
        /\ Cardinality(Alike(b)) \in Nat
    BY <2>1, <2>3, <2>6, FS_CardinalityType
  <2> QED
    BY <2>3, <2>6, <2>7
<1> QED
  BY <1>2 DEF AnchorsAreSingle

\* However late webhooks land and however often ticks try again, the cut and the
\* finalize have one ranking each, unless two ticks overlapped or an answer was
\* lost (runPhaseTick, firedFor).
THEOREM AnchorsStaySingle == Spec => []AnchorsAreSingle
<1>1. HpInv /\ AnchorInv /\ [Next]_vars => (HpInv /\ AnchorInv)'
  BY StepHp, StepAnchors
<1>2. Init => HpInv /\ AnchorInv
  BY InitHp, InitAnchors
<1> QED
  BY <1>1, <1>2, BlocksAreBoundaries, PTL DEF Spec

(***************************************************************************)
(* The user profiles                                                       *)
(***************************************************************************)

Underway(r) == request[r].at \notin {"unsent", "answered"}

\* What the handler of a request may rely on.
Good(r) ==
    Underway(r) =>
        /\ request[r].commitNow <= elapsed
        /\ request[r].existing # NoRow => profile[request[r].address] # NoRow
        /\ request[r].at = "case" => profile[request[r].address] # NoRow
        /\ request[r].at \in {"upsert", "reason"} => request[r].display[1] \notin Reserved

\* A row's stamp has paid for the changes of its handle.
Paid(row, n, now) ==
    IF row = NoRow THEN n = 0 ELSE (n - 1) * Cooldown <= row.changedAt /\ row.changedAt <= now

ProfileInv ==
    /\ ProfileTypeOK
    /\ \A r \in Requests : Good(r)
    /\ UsernamesAreUnique
    /\ \A a \in Addresses : Paid(profile[a], changes[a], elapsed)

(***************************************************************************)
(* Types                                                                   *)
(***************************************************************************)

LEMMA NoRowIsNone == NoRow \notin Row
<1>1. \A row \in Row : DOMAIN row = {"username", "display", "changedAt"}
  BY DEF Row
<1>2. DOMAIN NoRow = {"username"}
  BY DEF NoRow
<1> QED
  BY <1>1, <1>2

LEMMA ConstantTypes ==
  /\ Cooldown \in Nat /\ Burst \in Nat /\ Token \in Nat /\ Burst * Token \in Nat
  /\ Rate \in Nat /\ PruneIdle \in Nat /\ MaxTime \in Nat /\ Token > 0
<1>1. Cooldown \in Nat \ {0} /\ Burst \in Nat \ {0} /\ Token \in Nat \ {0}
  BY ProfileConstants
<1>2. Rate \in Nat /\ PruneIdle \in Nat /\ MaxTime \in Nat
  BY ProfileConstants
<1> QED
  BY <1>1, <1>2

LEMMA UnderwayType ==
  ASSUME ProfileTypeOK, NEW r \in Requests, Underway(r)
  PROVE  /\ request[r] \in Waiting
         /\ request[r].address \in Addresses /\ request[r].display \in Displays
         /\ request[r].display[1] \in Names
         /\ request[r].commitNow \in 0..MaxTime /\ request[r].existing \in Row \cup {NoRow}
<1>1. request[r] \in {Idle} \cup Answered \cup Waiting
  BY DEF ProfileTypeOK
<1>2. request[r] \in Waiting
  BY <1>1 DEF Underway, Idle, Answered
<1> QED
  BY <1>2 DEF Waiting, Displays

\* An answer and a next query leave a request well typed.
LEMMA AnswerType ==
  ASSUME ProfileTypeOK, NEW r \in Requests, NEW answer,
         answer \in {"200", "taken", "blocklisted", "cooldown-active", "429"},
         Answer(r, answer)
  PROVE  /\ request' \in [Requests -> {Idle} \cup Answered \cup Waiting]
         /\ request'[r].at = "answered"
         /\ \A q \in Requests \ {r} : request'[q] = request[q]
<1>1. [at |-> "answered", answer |-> answer] \in Answered
  BY DEF Answered
<1> QED
  BY <1>1 DEF ProfileTypeOK, Answer

LEMMA AwaitsType ==
  ASSUME ProfileTypeOK, NEW r \in Requests, NEW read \in Waiting,
         NEW query \in {"row", "blocklist", "case", "taken", "upsert", "reason"},
         Awaits(r, query, read)
  PROVE  /\ request' \in [Requests -> {Idle} \cup Answered \cup Waiting]
         /\ request'[r] \in Waiting /\ request'[r].at = query
         /\ request'[r].address = read.address /\ request'[r].display = read.display
         /\ request'[r].commitNow = read.commitNow /\ request'[r].existing = read.existing
         /\ \A q \in Requests \ {r} : request'[q] = request[q]
<1>1. [read EXCEPT !.at = query] \in Waiting
  BY DEF Waiting
<1>2. request' = [request EXCEPT ![r] = [read EXCEPT !.at = query]]
  BY DEF Awaits
<1>3. /\ [read EXCEPT !.at = query].at = query
      /\ [read EXCEPT !.at = query].address = read.address
      /\ [read EXCEPT !.at = query].display = read.display
      /\ [read EXCEPT !.at = query].commitNow = read.commitNow
      /\ [read EXCEPT !.at = query].existing = read.existing
  BY DEF Waiting
<1> QED
  BY <1>1, <1>2, <1>3 DEF ProfileTypeOK

LEMMA SinceType ==
  ASSUME ProfileTypeOK, bucket # NoBucket
  PROVE  /\ Since(bucket) \in Nat /\ Since(bucket) <= clock
         /\ bucket.tokens \in 0..(Burst * Token) /\ bucket.refilledAt \in Nat
<1>1. /\ clock \in Nat /\ bucket.tokens \in 0..(Burst * Token) /\ bucket.refilledAt \in Nat
  BY ConstantTypes DEF ProfileTypeOK, Bucket
<1> QED
  BY <1>1 DEF Since

LEMMA RefilledType ==
  ASSUME ProfileTypeOK
  PROVE  Refilled(bucket) \in Bucket
<1>1. clock \in 0..MaxTime /\ Burst * Token \in Nat /\ Rate \in Nat
  BY ConstantTypes DEF ProfileTypeOK
<1>2. CASE bucket = NoBucket
  BY <1>1, <1>2 DEF Refilled, Bucket
<1>3. CASE bucket # NoBucket
  <2>1. bucket.tokens \in 0..(Burst * Token) /\ Since(bucket) \in Nat
    BY <1>3, SinceType
  <2> DEFINE x == bucket.tokens + Since(bucket) * Rate
  <2>2. x \in Nat
    BY <1>1, <2>1
  <2>3. Smaller(Burst * Token, x) \in 0..(Burst * Token)
    BY <1>1, <2>2 DEF Smaller
  <2> QED
    BY <1>1, <1>3, <2>3 DEF Refilled, Bucket
<1> QED
  BY <1>2, <1>3

(***************************************************************************)
(* The invariant                                                           *)
(***************************************************************************)

LEMMA InitInv == ProfileInit => ProfileInv
<1> SUFFICES ASSUME ProfileInit PROVE ProfileInv
  OBVIOUS
<1>1. MaxTime \in Nat
  BY ConstantTypes
<1>2. Idle \in {Idle} \cup Answered \cup Waiting
  OBVIOUS
<1>3. ProfileTypeOK
  BY <1>1, <1>2 DEF ProfileInit, ProfileTypeOK
<1>4. \A r \in Requests : Good(r)
  BY DEF ProfileInit, Good, Underway, Idle
<1>5. UsernamesAreUnique
  BY DEF ProfileInit, UsernamesAreUnique
<1>6. \A a \in Addresses : Paid(profile[a], changes[a], elapsed)
  BY DEF ProfileInit, Paid
<1> QED
  BY <1>3, <1>4, <1>5, <1>6 DEF ProfileInv, ProfileInit

\* A step that only moves one request, and keeps its promise.
LEMMA RequestMoves ==
  ASSUME ProfileInv, NEW r \in Requests,
         request' \in [Requests -> {Idle} \cup Answered \cup Waiting],
         \A q \in Requests \ {r} : request'[q] = request[q],
         UNCHANGED <<clock, elapsed, profile, blocklist, changes>>, Good(r)'
  PROVE  /\ \A q \in Requests : Good(q)'
         /\ UsernamesAreUnique'
         /\ \A a \in Addresses : Paid(profile[a], changes[a], elapsed)'
<1>1. \A q \in Requests \ {r} : Good(q)'
  BY DEF ProfileInv, Good, Underway
<1>2. UsernamesAreUnique'
  BY DEF ProfileInv, UsernamesAreUnique
<1>3. \A a \in Addresses : Paid(profile[a], changes[a], elapsed)'
  BY DEF ProfileInv
<1> QED
  BY <1>1, <1>2, <1>3

LEMMA AnswerInv ==
  ASSUME ProfileInv, NEW r \in Requests, NEW answer,
         answer \in {"200", "taken", "blocklisted", "cooldown-active", "429"},
         Answer(r, answer),
         UNCHANGED <<clock, elapsed, profile, blocklist, bucket, changes, admitted>>
  PROVE  ProfileInv'
<1>1. /\ request' \in [Requests -> {Idle} \cup Answered \cup Waiting]
      /\ request'[r].at = "answered"
      /\ \A q \in Requests \ {r} : request'[q] = request[q]
  BY AnswerType DEF ProfileInv
<1>2. Good(r)'
  BY <1>1 DEF Good, Underway
<1>3. ProfileTypeOK'
  BY <1>1 DEF ProfileInv, ProfileTypeOK
<1> QED
  BY <1>1, <1>2, <1>3, RequestMoves DEF ProfileInv

\* A request moves to its next query with what it may rely on.
LEMMA AwaitsInv ==
  ASSUME ProfileInv, NEW r \in Requests, NEW read \in Waiting,
         NEW query \in {"row", "blocklist", "case", "taken", "upsert", "reason"},
         Awaits(r, query, read),
         UNCHANGED <<clock, elapsed, profile, blocklist, bucket, changes, admitted>>,
         read.commitNow <= elapsed,
         read.existing # NoRow => profile[read.address] # NoRow,
         query = "case" => profile[read.address] # NoRow,
         query \in {"upsert", "reason"} => read.display[1] \notin Reserved
  PROVE  ProfileInv'
<1>1. /\ request' \in [Requests -> {Idle} \cup Answered \cup Waiting]
      /\ request'[r].at = query
      /\ request'[r].address = read.address /\ request'[r].display = read.display
      /\ request'[r].commitNow = read.commitNow /\ request'[r].existing = read.existing
      /\ \A q \in Requests \ {r} : request'[q] = request[q]
  BY AwaitsType DEF ProfileInv
<1>2. Good(r)'
  BY <1>1 DEF Good, Underway
<1>3. ProfileTypeOK'
  BY <1>1 DEF ProfileInv, ProfileTypeOK
<1> QED
  BY <1>1, <1>2, <1>3, RequestMoves DEF ProfileInv

LEMMA PostInv ==
  ASSUME ProfileInv, NEW r \in Requests, NEW a \in Addresses, NEW d \in Displays, Post(r, a, d)
  PROVE  ProfileInv'
<1> DEFINE b == Refilled(bucket)
           q == [at |-> "row", address |-> a, display |-> d, commitNow |-> clock,
                 existing |-> NoRow, blocked |-> FALSE]
<1>1. b \in Bucket /\ b.tokens \in 0..(Burst * Token)
  <2>1. b \in Bucket
    BY RefilledType DEF ProfileInv
  <2> QED
    BY <2>1 DEF Refilled, Bucket
<1>2. UNCHANGED <<clock, elapsed, profile, blocklist, changes>>
  BY DEF Post
<1>3. CASE b.tokens >= Token
  <2>1. /\ bucket' = [b EXCEPT !.tokens = @ - Token]
        /\ admitted' = Append(admitted, elapsed)
        /\ request' = [request EXCEPT ![r] = q]
    BY <1>3 DEF Post
  <2>2. bucket' \in Bucket
    <3>1. PICK n \in Nat : n = Burst * Token
      BY ConstantTypes
    <3>2. b.tokens - Token \in 0..n
      BY <1>1, <1>3, <3>1, ConstantTypes
    <3>3. b \in [tokens: 0..n, refilledAt: 0..MaxTime]
      BY <1>1, <3>1 DEF Bucket
    <3> HIDE DEF b
    <3>4. bucket' \in [tokens: 0..n, refilledAt: 0..MaxTime]
      BY <2>1, <3>2, <3>3
    <3> QED
      BY <3>1, <3>4 DEF Bucket
  <2>3. admitted' \in Seq(0..MaxTime)
    BY <2>1 DEF ProfileInv, ProfileTypeOK
  <2>4. q \in Waiting
    <3>1. clock \in 0..MaxTime
      BY ConstantTypes DEF ProfileInv, ProfileTypeOK
    <3> QED
      BY <3>1 DEF Waiting
  <2>5. request' \in [Requests -> {Idle} \cup Answered \cup Waiting]
    BY <2>1, <2>4 DEF ProfileInv, ProfileTypeOK
  <2>6. Good(r)'
    <3>1. request'[r] = q
      BY <2>1 DEF ProfileInv, ProfileTypeOK
    <3> QED
      BY <1>2, <3>1, ConstantTypes DEF Good, ProfileInv, ProfileTypeOK
  <2>7. ProfileTypeOK'
    BY <1>2, <2>2, <2>3, <2>5 DEF ProfileInv, ProfileTypeOK
  <2>8. \A p \in Requests \ {r} : request'[p] = request[p]
    BY <2>1 DEF ProfileInv, ProfileTypeOK
  <2> HIDE DEF b, q
  <2> QED
    BY <1>2, <2>5, <2>6, <2>7, <2>8, RequestMoves DEF ProfileInv
<1>4. CASE ~(b.tokens >= Token)
  <2>1. bucket' = b /\ Answer(r, "429") /\ UNCHANGED admitted
    BY <1>4 DEF Post
  <2>2. /\ request' \in [Requests -> {Idle} \cup Answered \cup Waiting]
        /\ request'[r].at = "answered"
        /\ \A p \in Requests \ {r} : request'[p] = request[p]
    BY <2>1, AnswerType DEF ProfileInv
  <2>3. Good(r)'
    BY <2>2 DEF Good, Underway
  <2>4. ProfileTypeOK'
    BY <1>1, <1>2, <2>1, <2>2 DEF ProfileInv, ProfileTypeOK
  <2> HIDE DEF b
  <2> QED
    BY <1>2, <2>2, <2>3, <2>4, RequestMoves DEF ProfileInv
<1> QED
  BY <1>3, <1>4

LEMMA ReadRowInv ==
  ASSUME ProfileInv, NEW r \in Requests, ReadRow(r)
  PROVE  ProfileInv'
<1> DEFINE read == [request[r] EXCEPT !.existing = profile[request[r].address]]
<1>1. Underway(r)
  BY DEF ReadRow, Underway
<1>2. request[r] \in Waiting /\ request[r].address \in Addresses /\ request[r].commitNow <= elapsed
  BY <1>1, UnderwayType DEF ProfileInv, Good
<1>3. profile[request[r].address] \in Row \cup {NoRow}
  BY <1>2 DEF ProfileInv, ProfileTypeOK
<1>4. /\ read \in Waiting /\ read.address = request[r].address
      /\ read.existing = profile[request[r].address] /\ read.commitNow = request[r].commitNow
  BY <1>2, <1>3 DEF Waiting
<1>5. /\ Awaits(r, "blocklist", read)
      /\ UNCHANGED <<clock, elapsed, profile, blocklist, bucket, changes, admitted>>
  BY DEF ReadRow
<1> HIDE DEF read
<1> QED
  BY <1>2, <1>4, <1>5, AwaitsInv

LEMMA ReadBlocklistInv ==
  ASSUME ProfileInv, NEW r \in Requests, ReadBlocklist(r)
  PROVE  ProfileInv'
<1> DEFINE q == request[r]
           blocked == q.display[1] \in blocklist
           known == [q EXCEPT !.existing = NoRow]
           marked == [q EXCEPT !.blocked = blocked]
<1>1. Underway(r)
  BY DEF ReadBlocklist, Underway
<1>2. /\ q \in Waiting /\ q.commitNow <= elapsed
      /\ q.existing # NoRow => profile[q.address] # NoRow
  BY <1>1, UnderwayType DEF ProfileInv, Good
<1>3. UNCHANGED <<clock, elapsed, profile, blocklist, bucket, changes, admitted>>
  BY DEF ReadBlocklist
<1>4. CASE OwnsHandle(q) /\ ~blocked /\ q.existing.display = q.display
  <2>1. Answer(r, "200")
    BY <1>4 DEF ReadBlocklist
  <2> QED
    BY <1>3, <2>1, AnswerInv
<1>5. CASE OwnsHandle(q) /\ ~blocked /\ q.existing.display # q.display
  <2>1. Awaits(r, "case", known)
    BY <1>5 DEF ReadBlocklist
  <2>2. q.existing # NoRow
    <3>1. q.existing.username \in Names /\ "null" \notin Names
      BY <1>1, <1>5, UnderwayType, ProfileConstants DEF OwnsHandle, ProfileInv
    <3> QED
      BY <3>1 DEF NoRow
  <2>3. /\ known \in Waiting /\ known.existing = NoRow /\ known.address = q.address
        /\ known.commitNow = q.commitNow
    BY <1>2 DEF Waiting
  <2> HIDE DEF known
  <2> QED
    BY <1>2, <1>3, <2>1, <2>2, <2>3, AwaitsInv
<1>6. CASE ~(OwnsHandle(q) /\ ~blocked)
  <2>1. Awaits(r, "taken", marked)
    BY <1>6 DEF ReadBlocklist
  <2>2. blocked \in BOOLEAN
    OBVIOUS
  <2> HIDE DEF blocked
  <2>3. /\ marked \in Waiting /\ marked.existing = q.existing /\ marked.address = q.address
        /\ marked.commitNow = q.commitNow
    BY <1>2, <2>2 DEF Waiting
  <2> HIDE DEF marked
  <2> QED
    BY <1>2, <1>3, <2>1, <2>3, AwaitsInv
<1> QED
  BY <1>4, <1>5, <1>6

LEMMA EvaluateInv ==
  ASSUME ProfileInv, NEW r \in Requests, Evaluate(r)
  PROVE  ProfileInv'
<1> DEFINE q == request[r]
           name == q.display[1]
           passed == [q EXCEPT !.existing = NoRow]
<1>1. Underway(r)
  BY DEF Evaluate, Underway
<1>2. q \in Waiting /\ q.commitNow <= elapsed
  BY <1>1, UnderwayType DEF ProfileInv, Good
<1>3. UNCHANGED <<clock, elapsed, profile, blocklist, bucket, changes, admitted>>
  BY DEF Evaluate
<1>4. CASE \/ name \in Reserved \/ q.blocked \/ TakenByOther(name, q.address)
           \/ WithinCooldown(q.existing, q.commitNow)
  <2>1. Answer(r, "blocklisted") \/ Answer(r, "taken") \/ Answer(r, "cooldown-active")
    BY <1>4 DEF Evaluate
  <2> QED
    BY <1>3, <2>1, AnswerInv
<1>5. CASE ~(\/ name \in Reserved \/ q.blocked \/ TakenByOther(name, q.address)
             \/ WithinCooldown(q.existing, q.commitNow))
  <2>1. Awaits(r, "upsert", passed)
    BY <1>5 DEF Evaluate
  <2>2. /\ passed \in Waiting /\ passed.existing = NoRow /\ passed.display = q.display
        /\ passed.commitNow = q.commitNow
    BY <1>2 DEF Waiting
  <2> HIDE DEF passed
  <2> QED
    BY <1>2, <1>3, <1>5, <2>1, <2>2, AwaitsInv
<1> QED
  BY <1>4, <1>5

LEMMA ReadReasonInv ==
  ASSUME ProfileInv, NEW r \in Requests, ReadReason(r)
  PROVE  ProfileInv'
<1>1. Answer(r, "blocklisted") \/ Answer(r, "cooldown-active")
  BY DEF ReadReason
<1>2. UNCHANGED <<clock, elapsed, profile, blocklist, bucket, changes, admitted>>
  BY DEF ReadReason
<1> QED
  BY <1>1, <1>2, AnswerInv

(***************************************************************************)
(* Writes                                                                  *)
(***************************************************************************)

\* A step that writes the row of one wallet, on behalf of one request, which it
\* answers.
LEMMA RowWritten ==
  ASSUME ProfileInv, NEW r \in Requests, NEW a \in Addresses, NEW row \in Row, NEW answer,
         answer \in {"200", "taken", "blocklisted", "cooldown-active", "429"},
         Answer(r, answer), profile' = [profile EXCEPT ![a] = row],
         changes' \in [Addresses -> Nat],
         \A b \in Addresses \ {a} : changes'[b] = changes[b],
         UNCHANGED <<clock, elapsed, blocklist, bucket, admitted>>,
         ~ \E b \in Addresses \ {a} : profile[b].username = row.username,
         Paid(row, changes'[a], elapsed)
  PROVE  ProfileInv'
<1>1. /\ request' \in [Requests -> {Idle} \cup Answered \cup Waiting]
      /\ request'[r].at = "answered"
      /\ \A q \in Requests \ {r} : request'[q] = request[q]
  BY AnswerType DEF ProfileInv
<1>2. /\ profile'[a] = row /\ \A b \in Addresses \ {a} : profile'[b] = profile[b]
      /\ profile' \in [Addresses -> Row \cup {NoRow}]
  BY DEF ProfileInv, ProfileTypeOK
<1>3. ProfileTypeOK'
  BY <1>1, <1>2 DEF ProfileInv, ProfileTypeOK
<1>4. \A q \in Requests : Good(q)'
  <2> SUFFICES ASSUME NEW q \in Requests \ {r}, Underway(q) PROVE Good(q)'
    BY <1>1 DEF Good, Underway
  <2>1. request'[q] = request[q] /\ request[q].address \in Addresses
    BY <1>1, UnderwayType DEF ProfileInv
  <2>2. profile[request[q].address] # NoRow => profile'[request[q].address] # NoRow
    BY <1>2, <2>1, NoRowIsNone
  <2> QED
    BY <2>1, <2>2 DEF ProfileInv, Good, Underway
<1>5. UsernamesAreUnique'
  BY <1>2 DEF ProfileInv, UsernamesAreUnique
<1>6. \A b \in Addresses : Paid(profile[b], changes[b], elapsed)'
  BY <1>2 DEF ProfileInv
<1> QED
  BY <1>3, <1>4, <1>5, <1>6 DEF ProfileInv

LEMMA UpdateDisplayCaseInv ==
  ASSUME ProfileInv, NEW r \in Requests, UpdateDisplayCase(r)
  PROVE  /\ ProfileInv'
         /\ \A a \in Addresses : profile'[a].username = profile[a].username
<1> DEFINE q == request[r]
           old == profile[q.address]
           row == CaseUpdated(old, q)
<1>1. Underway(r) /\ q.at = "case"
  BY DEF UpdateDisplayCase, Underway
<1>2. q.address \in Addresses /\ q.display \in Displays /\ old # NoRow
  BY <1>1, UnderwayType DEF ProfileInv, Good
<1>3. old \in Row
  BY <1>2 DEF ProfileInv, ProfileTypeOK
<1>4. /\ row \in Row /\ row.username = old.username /\ row.changedAt = old.changedAt
  BY <1>2, <1>3 DEF CaseUpdated, Row
<1>5. /\ profile' = [profile EXCEPT ![q.address] = row] /\ Answer(r, "200")
      /\ UNCHANGED <<clock, elapsed, blocklist, bucket, changes, admitted>>
  BY DEF UpdateDisplayCase
<1> HIDE DEF row
<1>6. Paid(row, changes'[q.address], elapsed)
  BY <1>2, <1>4, <1>5, NoRowIsNone DEF ProfileInv, Paid
<1>7. ~ \E b \in Addresses \ {q.address} : profile[b].username = row.username
  <2> SUFFICES ASSUME NEW b \in Addresses \ {q.address}, profile[b].username = old.username
               PROVE  FALSE
    BY <1>4
  <2> QED
    BY <1>2 DEF ProfileInv, UsernamesAreUnique
<1>8. ProfileInv'
  <2>1. changes' \in [Addresses -> Nat] /\ \A b \in Addresses \ {q.address} : changes'[b] = changes[b]
    BY <1>5 DEF ProfileInv, ProfileTypeOK
  <2> QED
    BY <1>2, <1>4, <1>5, <1>6, <1>7, <2>1, RowWritten
<1>9. \A a \in Addresses : profile'[a].username = profile[a].username
  BY <1>2, <1>4, <1>5 DEF ProfileInv, ProfileTypeOK
<1> QED
  BY <1>8, <1>9

\* One more change is paid for by a cooldown that has passed.
LEMMA ChangePaid ==
  ASSUME NEW n \in Nat, NEW old \in Nat, NEW now \in Nat,
         (n - 1) * Cooldown <= old, old + Cooldown <= now
  PROVE  ((n + 1) - 1) * Cooldown <= now
<1>1. Cooldown \in Nat
  BY ConstantTypes
<1>2. ((n + 1) - 1) * Cooldown = (n - 1) * Cooldown + Cooldown
  BY <1>1
<1>3. (n - 1) * Cooldown \in Int
  BY <1>1
<1> QED
  BY <1>1, <1>2, <1>3

LEMMA UpsertInv ==
  ASSUME ProfileInv, NEW r \in Requests, UpsertUsername(r)
  PROVE  /\ ProfileInv'
         /\ \A a \in Addresses :
               profile'[a].username # profile[a].username =>
                   profile'[a].username \notin blocklist \cup Reserved
<1> DEFINE q == request[r]
           old == profile[q.address]
           row == [username |-> q.display[1], display |-> q.display, changedAt |-> q.commitNow]
<1>1. Underway(r) /\ q.at = "upsert"
  BY DEF UpsertUsername, Underway
<1>2. /\ q \in Waiting /\ q.address \in Addresses /\ q.display \in Displays
      /\ q.display[1] \in Names /\ q.commitNow \in 0..MaxTime /\ q.commitNow <= elapsed
      /\ q.display[1] \notin Reserved
      /\ q.existing # NoRow => old # NoRow
  BY <1>1, UnderwayType DEF ProfileInv, Good
<1>3. UNCHANGED <<clock, elapsed, blocklist, bucket, admitted>>
  BY DEF UpsertUsername
<1>4. CASE ~UpsertApplies(q)
  <2>1. Awaits(r, "reason", q) /\ UNCHANGED <<profile, changes>>
    BY <1>4 DEF UpsertUsername
  <2>2. q.existing # NoRow => profile[q.address] # NoRow
    BY <1>2
  <2> HIDE DEF q
  <2>3. UNCHANGED <<clock, elapsed, profile, blocklist, bucket, changes, admitted>>
    BY <1>3, <2>1
  <2>4. ProfileInv'
    BY <1>2, <2>1, <2>2, <2>3, AwaitsInv
  <2> QED
    BY <2>1, <2>4
<1>5. CASE UpsertApplies(q) /\ IndexRefuses(q)
  <2>1. Answer(r, "taken") /\ UNCHANGED <<profile, changes>>
    BY <1>5 DEF UpsertUsername
  <2> QED
    BY <1>3, <2>1, AnswerInv
<1>6. CASE UpsertApplies(q) /\ ~IndexRefuses(q)
  <2>1. /\ profile' = [profile EXCEPT ![q.address] = row]
        /\ changes' = [changes EXCEPT ![q.address] = @ + 1] /\ Answer(r, "200")
    BY <1>6 DEF UpsertUsername
  <2>2. row \in Row /\ row.username = q.display[1] /\ row.changedAt = q.commitNow
    BY <1>2 DEF Row
  <2>3. /\ changes' \in [Addresses -> Nat] /\ changes'[q.address] = changes[q.address] + 1
        /\ \A b \in Addresses \ {q.address} : changes'[b] = changes[b]
        /\ changes[q.address] \in Nat
    BY <1>2, <2>1 DEF ProfileInv, ProfileTypeOK
  <2>4. Paid(row, changes'[q.address], elapsed)
    <3>1. ((changes[q.address] + 1) - 1) * Cooldown <= q.commitNow
      <4>1. CASE old = NoRow
        <5>1. changes[q.address] = 0
          BY <1>2, <4>1 DEF ProfileInv, Paid
        <5> QED
          BY <1>2, <5>1, ConstantTypes
      <4>2. CASE old # NoRow
        <5>1. old \in Row /\ old.changedAt \in Nat
          BY <1>2, <4>2 DEF ProfileInv, ProfileTypeOK, Row
        <5>2. (changes[q.address] - 1) * Cooldown <= old.changedAt
          BY <1>2, <4>2 DEF ProfileInv, Paid
        <5>3. old.changedAt + Cooldown <= q.commitNow
          BY <1>2, <1>6, <4>2, <5>1, ConstantTypes DEF UpsertApplies, WithinCooldown
        <5> QED
          BY <1>2, <2>3, <5>1, <5>2, <5>3, ChangePaid
      <4> QED
        BY <4>1, <4>2
    <3> QED
      BY <1>2, <2>2, <2>3, <3>1, NoRowIsNone DEF Paid
  <2>5. ~ \E b \in Addresses \ {q.address} : profile[b].username = row.username
    BY <1>6, <2>2 DEF IndexRefuses, TakenByOther
  <2> HIDE DEF row
  <2>6. \A a \in Addresses :
            profile'[a].username # profile[a].username =>
                profile'[a].username \notin blocklist \cup Reserved
    <3>1. row.username \notin blocklist \cup Reserved
      BY <1>2, <1>6, <2>2 DEF UpsertApplies
    <3>2. /\ profile'[q.address] = row
          /\ \A a \in Addresses \ {q.address} : profile'[a] = profile[a]
      BY <1>2, <2>1 DEF ProfileInv, ProfileTypeOK
    <3> QED
      BY <3>1, <3>2
  <2> HIDE DEF q
  <2>7. ProfileInv'
    <3>1. q.address \in Addresses /\ row \in Row
      BY <1>2, <2>2
    <3>2. /\ Answer(r, "200") /\ profile' = [profile EXCEPT ![q.address] = row]
          /\ changes' \in [Addresses -> Nat]
          /\ \A b \in Addresses \ {q.address} : changes'[b] = changes[b]
      BY <2>1, <2>3
    <3> HIDE DEF old
    <3> QED
      BY <1>3, <2>4, <2>5, <3>1, <3>2, RowWritten
  <2> QED
    BY <2>6, <2>7
<1> QED
  BY <1>4, <1>5, <1>6

(***************************************************************************)
(* The environment                                                         *)
(***************************************************************************)

LEMMA EditBlocklistInv ==
  ASSUME ProfileInv, NEW name \in Names, EditBlocklist(name)
  PROVE  ProfileInv'
<1>1. /\ blocklist' \subseteq Names
      /\ UNCHANGED <<clock, elapsed, profile, bucket, request, changes, admitted>>
  BY DEF EditBlocklist, ProfileInv, ProfileTypeOK
<1>2. ProfileTypeOK'
  BY <1>1 DEF ProfileInv, ProfileTypeOK
<1>3. \A r \in Requests : Good(r)'
  BY <1>1 DEF ProfileInv, Good, Underway
<1>4. UsernamesAreUnique' /\ \A a \in Addresses : Paid(profile[a], changes[a], elapsed)'
  BY <1>1 DEF ProfileInv, UsernamesAreUnique
<1> QED
  BY <1>1, <1>2, <1>3, <1>4 DEF ProfileInv

LEMMA PruneBucketsInv ==
  ASSUME ProfileInv, PruneBuckets
  PROVE  ProfileInv'
<1>1. /\ bucket' = NoBucket
      /\ UNCHANGED <<clock, elapsed, profile, blocklist, request, changes, admitted>>
  BY DEF PruneBuckets
<1>2. ProfileTypeOK'
  BY <1>1 DEF ProfileInv, ProfileTypeOK
<1>3. \A r \in Requests : Good(r)'
  BY <1>1 DEF ProfileInv, Good, Underway
<1>4. UsernamesAreUnique' /\ \A a \in Addresses : Paid(profile[a], changes[a], elapsed)'
  BY <1>1 DEF ProfileInv, UsernamesAreUnique
<1> QED
  BY <1>1, <1>2, <1>3, <1>4 DEF ProfileInv

LEMMA WaitInv ==
  ASSUME ProfileInv, Wait
  PROVE  ProfileInv'
<1>1. /\ elapsed' = elapsed + 1 /\ elapsed < MaxTime /\ elapsed \in Nat /\ MaxTime \in Nat
      /\ clock' = clock + 1
      /\ UNCHANGED <<profile, blocklist, bucket, request, changes, admitted>>
  BY ConstantTypes DEF Wait, ProfileInv, ProfileTypeOK
<1>2. ProfileTypeOK'
  BY <1>1 DEF ProfileInv, ProfileTypeOK
<1>3. ASSUME NEW r \in Requests PROVE Good(r)'
  <2>1. Good(r) /\ (Underway(r) => request[r].commitNow \in Nat)
    BY UnderwayType, ConstantTypes DEF ProfileInv
  <2> QED
    BY <1>1, <2>1 DEF Good, Underway
<1>4. ASSUME NEW a \in Addresses PROVE Paid(profile[a], changes[a], elapsed)'
  <2>1. Paid(profile[a], changes[a], elapsed)
    BY DEF ProfileInv
  <2>2. profile[a] # NoRow => profile[a].changedAt \in Nat
    BY ConstantTypes DEF ProfileInv, ProfileTypeOK, Row
  <2> QED
    BY <1>1, <2>1, <2>2 DEF Paid
<1>5. UsernamesAreUnique'
  BY <1>1 DEF ProfileInv, UsernamesAreUnique
<1> QED
  BY <1>2, <1>3, <1>4, <1>5 DEF ProfileInv

LEMMA SetBackInv ==
  ASSUME ProfileInv, NEW now \in 0..MaxTime, now < clock, SetBack(now)
  PROVE  ProfileInv'
<1>1. clock' = now /\ UNCHANGED <<elapsed, profile, blocklist, bucket, request, changes, admitted>>
  BY DEF SetBack
<1>2. ProfileTypeOK'
  BY <1>1, ConstantTypes DEF ProfileInv, ProfileTypeOK
<1>3. \A r \in Requests : Good(r)'
  BY <1>1 DEF ProfileInv, Good, Underway
<1>4. UsernamesAreUnique' /\ \A a \in Addresses : Paid(profile[a], changes[a], elapsed)'
  BY <1>1 DEF ProfileInv, UsernamesAreUnique
<1> QED
  BY <1>1, <1>2, <1>3, <1>4 DEF ProfileInv

\* What a step may not do: it is the action of BlocklistBinds.
HandlesBind ==
  \A a \in Addresses :
     profile'[a].username # profile[a].username =>
         profile'[a].username \notin blocklist \cup Reserved

LEMMA NextInv ==
  ASSUME ProfileInv, [ProfileNext]_profileVars
  PROVE  ProfileInv' /\ HandlesBind
<1>1. CASE UNCHANGED profileVars
  <2>1. ProfileTypeOK' /\ UsernamesAreUnique'
    BY <1>1 DEF profileVars, ProfileInv, ProfileTypeOK, UsernamesAreUnique
  <2>2. \A r \in Requests : Good(r)'
    BY <1>1 DEF profileVars, ProfileInv, Good, Underway
  <2> QED
    BY <1>1, <2>1, <2>2 DEF profileVars, ProfileInv, HandlesBind
<1>2. ASSUME NEW r \in Requests, NEW a \in Addresses, NEW d \in Displays, Post(r, a, d)
      PROVE  ProfileInv' /\ HandlesBind
  BY <1>2, PostInv DEF Post, HandlesBind
<1>3. ASSUME NEW r \in Requests, ReadRow(r) PROVE ProfileInv' /\ HandlesBind
  BY <1>3, ReadRowInv DEF ReadRow, HandlesBind
<1>4. ASSUME NEW r \in Requests, ReadBlocklist(r) PROVE ProfileInv' /\ HandlesBind
  BY <1>4, ReadBlocklistInv DEF ReadBlocklist, HandlesBind
<1>5. ASSUME NEW r \in Requests, UpdateDisplayCase(r) PROVE ProfileInv' /\ HandlesBind
  BY <1>5, UpdateDisplayCaseInv DEF HandlesBind
<1>6. ASSUME NEW r \in Requests, Evaluate(r) PROVE ProfileInv' /\ HandlesBind
  BY <1>6, EvaluateInv DEF Evaluate, HandlesBind
<1>7. ASSUME NEW r \in Requests, UpsertUsername(r) PROVE ProfileInv' /\ HandlesBind
  BY <1>7, UpsertInv DEF HandlesBind
<1>8. ASSUME NEW r \in Requests, ReadReason(r) PROVE ProfileInv' /\ HandlesBind
  BY <1>8, ReadReasonInv DEF ReadReason, HandlesBind
<1>9. ASSUME NEW name \in Names, EditBlocklist(name) PROVE ProfileInv' /\ HandlesBind
  BY <1>9, EditBlocklistInv DEF EditBlocklist, HandlesBind
<1>10. CASE PruneBuckets
  BY <1>10, PruneBucketsInv DEF PruneBuckets, HandlesBind
<1>11. CASE Wait
  BY <1>11, WaitInv DEF Wait, HandlesBind
<1>12. ASSUME NEW now \in 0..MaxTime, now < clock, SetBack(now) PROVE ProfileInv' /\ HandlesBind
  BY <1>12, SetBackInv DEF SetBack, HandlesBind
<1> QED
  BY <1>1, <1>2, <1>3, <1>4, <1>5, <1>6, <1>7, <1>8, <1>9, <1>10, <1>11, <1>12 DEF ProfileNext

LEMMA ProfilesInvariant == ProfileSpec => []ProfileInv
<1>1. ProfileInit => ProfileInv
  BY InitInv
<1>2. ProfileInv /\ [ProfileNext]_profileVars => ProfileInv'
  BY NextInv
<1> QED
  BY <1>1, <1>2, PTL DEF ProfileSpec

\* Two wallets never hold one handle, for any number of wallets and requests and
\* any interleaving of their queries.
THEOREM HandlesAreUnique == ProfileSpec => []UsernamesAreUnique
<1>1. ProfileInv => UsernamesAreUnique
  BY DEF ProfileInv
<1> QED
  BY <1>1, ProfilesInvariant, PTL

\* No wallet changes its handle more often than the cooldown allows, however many
\* requests it sends at once.
THEOREM CooldownsArePaid == ProfileSpec => []HandlesCostTime
<1>1. ProfileInv => HandlesCostTime
  BY DEF ProfileInv, Paid, HandlesCostTime
<1> QED
  BY <1>1, ProfilesInvariant, PTL

\* No step gives anybody a reserved handle or one that is blocked at that moment.
THEOREM BlocklistHolds == ProfileSpec => BlocklistBinds
<1>1. ProfileInv /\ [ProfileNext]_profileVars => [HandlesBind]_profileVars
  BY NextInv
<1>2. BlocklistBinds <=> [][HandlesBind]_profileVars
  BY PTL DEF BlocklistBinds, HandlesBind
<1> QED
  BY <1>1, <1>2, ProfilesInvariant, PTL DEF ProfileSpec

(***************************************************************************)
(* Admissions                                                              *)
(***************************************************************************)

\* What the bucket holds, and how far the clock had gone forward when it was last brought
\* up to date: at the latest so far that the refill it has coming is still due.
Held == IF bucket = NoBucket THEN Burst * Token ELSE bucket.tokens
At == IF bucket = NoBucket THEN elapsed ELSE elapsed - Since(bucket)

\* What was spent from an admission on, with what is left, is at most the burst
\* and what was refilled since.
BalanceAt(i) ==
    /\ admitted[i] <= At
    /\ (Len(admitted) - i + 1) * Token + Held <= Burst * Token + (At - admitted[i]) * Rate

Balanced == \A i \in 1..Len(admitted) : BalanceAt(i)

LEMMA Distributes ==
  ASSUME NEW x \in Int, NEW y \in Int, NEW n \in Nat
  PROVE  x * n \in Int /\ y * n \in Int /\ (x + y) * n = x * n + y * n
OBVIOUS

LEMMA Monotone ==
  ASSUME NEW x \in Int, NEW y \in Int, NEW n \in Nat, x <= y
  PROVE  x * n <= y * n
<1>1. y - x \in Nat /\ y = x + (y - x)
  OBVIOUS
<1>2. (y - x) * n \in Nat
  BY <1>1
<1>3. y * n = x * n + (y - x) * n
  BY <1>1, Distributes
<1> QED
  BY <1>2, <1>3, Distributes

LEMMA BucketTypes ==
  ASSUME ProfileInv
  PROVE  /\ elapsed \in Nat /\ At \in Nat /\ At <= elapsed /\ Held \in 0..(Burst * Token)
         /\ Len(admitted) \in Nat /\ \A i \in 1..Len(admitted) : admitted[i] \in Nat
<1>1. elapsed \in Nat /\ Len(admitted) \in Nat /\ \A i \in 1..Len(admitted) : admitted[i] \in Nat
  BY ConstantTypes DEF ProfileInv, ProfileTypeOK
<1>2. bucket # NoBucket => /\ bucket.tokens \in 0..(Burst * Token)
                           /\ Since(bucket) \in Nat /\ Since(bucket) <= clock
  BY SinceType DEF ProfileInv
<1>3. clock \in Nat /\ clock <= elapsed
  BY ConstantTypes DEF ProfileInv, ProfileTypeOK
<1> QED
  BY <1>1, <1>2, <1>3, ConstantTypes DEF At, Held

\* A refill adds no more than the time since the last one is worth.
LEMMA RefillBound ==
  ASSUME ProfileInv
  PROVE  /\ Refilled(bucket).tokens \in 0..(Burst * Token)
         /\ Refilled(bucket).refilledAt = clock
         /\ (elapsed - At) * Rate \in Nat
         /\ Refilled(bucket).tokens <= Held + (elapsed - At) * Rate
<1>1. Refilled(bucket) \in Bucket
  BY RefilledType DEF ProfileInv
<1>2. Refilled(bucket).tokens \in 0..(Burst * Token) /\ Refilled(bucket).refilledAt = clock
  BY <1>1 DEF Bucket, Refilled
<1>3. elapsed - At \in Nat /\ (elapsed - At) * Rate \in Nat
  BY BucketTypes, ConstantTypes
<1>4. CASE bucket = NoBucket
  BY <1>2, <1>3, <1>4, BucketTypes, ConstantTypes DEF Held
<1>5. CASE bucket # NoBucket
  <2>1. elapsed - At = Since(bucket)
    BY <1>5, SinceType, BucketTypes DEF ProfileInv, At
  <2>2. Refilled(bucket).tokens = Smaller(Burst * Token, Held + (elapsed - At) * Rate)
    BY <1>5, <2>1 DEF Refilled, Held
  <2> QED
    BY <1>2, <1>3, <2>2, BucketTypes, ConstantTypes DEF Smaller
<1> QED
  BY <1>2, <1>3, <1>4, <1>5

\* An admission before a refill stays balanced with what the refill leaves.
LEMMA BalanceMoves ==
  ASSUME ProfileInv, Balanced, NEW i \in 1..Len(admitted)
  PROVE  /\ admitted[i] <= elapsed
         /\ (Len(admitted) - i + 1) * Token \in Int
         /\ (elapsed - admitted[i]) * Rate \in Int
         /\ (Len(admitted) - i + 1) * Token + Refilled(bucket).tokens
                <= Burst * Token + (elapsed - admitted[i]) * Rate
<1>1. /\ elapsed \in Nat /\ At \in Nat /\ At <= elapsed /\ Held \in Nat /\ admitted[i] \in Nat
      /\ Len(admitted) \in Nat /\ i \in Nat
  BY BucketTypes, ConstantTypes
<1>2. (elapsed - admitted[i]) * Rate = (elapsed - At) * Rate + (At - admitted[i]) * Rate
  <2> DEFINE x == elapsed - At
             y == At - admitted[i]
  <2>1. x \in Int /\ y \in Int /\ x + y = elapsed - admitted[i]
    BY <1>1
  <2> HIDE DEF x, y
  <2>2. (x + y) * Rate = x * Rate + y * Rate
    BY <2>1, Distributes, ConstantTypes
  <2> QED
    BY <2>1, <2>2 DEF x, y
<1>3. /\ (Len(admitted) - i + 1) * Token \in Int /\ (elapsed - At) * Rate \in Int
      /\ (At - admitted[i]) * Rate \in Int /\ (elapsed - admitted[i]) * Rate \in Int
  BY <1>1, ConstantTypes
<1>4. BalanceAt(i)
  BY DEF Balanced
<1>5. Refilled(bucket).tokens <= Held + (elapsed - At) * Rate /\ Refilled(bucket).tokens \in Nat
  BY RefillBound, ConstantTypes
<1>6. /\ admitted[i] <= At
      /\ (Len(admitted) - i + 1) * Token + Held <= Burst * Token + (At - admitted[i]) * Rate
  BY <1>4 DEF BalanceAt
<1>7. Burst * Token \in Int
  BY ConstantTypes
<1>8. (Len(admitted) - i + 1) * Token + Refilled(bucket).tokens
          <= Burst * Token + ((elapsed - At) * Rate + (At - admitted[i]) * Rate)
  <2> DEFINE spent == (Len(admitted) - i + 1) * Token
             burst == Burst * Token
             since == (At - admitted[i]) * Rate
             more == (elapsed - At) * Rate
             now == Refilled(bucket).tokens
  <2>1. spent \in Int /\ burst \in Int /\ since \in Int /\ more \in Int /\ now \in Int /\ Held \in Int
    BY <1>1, <1>3, <1>5, <1>7
  <2>2. spent + Held <= burst + since /\ now <= Held + more
    BY <1>5, <1>6
  <2> HIDE DEF spent, burst, since, more, now
  <2>3. spent + now <= burst + (more + since)
    BY <2>1, <2>2
  <2> QED
    BY <2>3 DEF spent, burst, since, more, now
<1>9. admitted[i] <= elapsed
  BY <1>1, <1>6
<1> QED
  BY <1>2, <1>3, <1>8, <1>9

LEMMA PostBalance ==
  ASSUME ProfileInv, Balanced, AdmissionsAreBounded,
         NEW r \in Requests, NEW a \in Addresses, NEW d \in Displays, Post(r, a, d)
  PROVE  Balanced' /\ AdmissionsAreBounded'
<1> DEFINE b == Refilled(bucket)
           n == Len(admitted)
<1>1. /\ b.tokens \in 0..(Burst * Token) /\ b.refilledAt = clock /\ b \in Bucket
      /\ clock' = clock /\ elapsed \in Nat /\ elapsed' = elapsed /\ n \in Nat /\ Token \in Nat
      /\ Burst * Token \in Nat
  <2>1. b \in Bucket
    BY RefilledType DEF ProfileInv
  <2> QED
    BY <2>1, RefillBound, BucketTypes, ConstantTypes DEF Post
<1>2. bucket' # NoBucket
  <2>1. DOMAIN NoBucket = {"tokens"}
    BY DEF NoBucket
  <2>2. DOMAIN b = {"tokens", "refilledAt"}
    BY DEF Refilled
  <2>3. bucket' = b \/ bucket' = [b EXCEPT !.tokens = @ - Token]
    BY DEF Post
  <2>4. DOMAIN bucket' = DOMAIN b
    BY <2>3
  <2> QED
    BY <2>1, <2>2, <2>4
<1> DEFINE now == clock
<1>5. now \in Nat /\ (bucket'.refilledAt = now => Since(bucket)' = 0)
  BY <1>1, ConstantTypes DEF Since, ProfileInv, ProfileTypeOK
<1> HIDE DEF now
<1>3. CASE b.tokens >= Token
  <2>1. bucket' = [b EXCEPT !.tokens = @ - Token] /\ admitted' = Append(admitted, elapsed)
    BY <1>3 DEF Post
  <2>2. At' = elapsed /\ Held' = b.tokens - Token
    <3>1. bucket'.refilledAt = now /\ bucket'.tokens = b.tokens - Token
      BY <1>1, <2>1 DEF Bucket, now
    <3> QED
      BY <1>1, <1>2, <1>5, <3>1 DEF At, Held
  <2>3. /\ Len(admitted') = n + 1 /\ admitted'[n + 1] = elapsed
        /\ \A i \in 1..n : admitted'[i] = admitted[i]
    BY <2>1 DEF ProfileInv, ProfileTypeOK
  <2>4. ASSUME NEW i \in 1..n
        PROVE  /\ admitted[i] <= elapsed /\ (elapsed - admitted[i]) * Rate \in Int
               /\ ((n + 1) - i + 1) * Token + (b.tokens - Token)
                      <= Burst * Token + (elapsed - admitted[i]) * Rate
               /\ ((n + 1) - i + 1) * Token \in Int
    <3> DEFINE k == n - i + 1
    <3>1. k \in Int /\ (n + 1) - i + 1 = k + 1
      BY <1>1
    <3>2. /\ admitted[i] <= elapsed /\ k * Token \in Int /\ (elapsed - admitted[i]) * Rate \in Int
          /\ k * Token + b.tokens <= Burst * Token + (elapsed - admitted[i]) * Rate
      BY BalanceMoves
    <3>3. b.tokens \in Int
      BY <1>1
    <3> HIDE DEF k, b
    <3>4. 1 * Token = Token
      BY <1>1
    <3>5. (k + 1) * Token = k * Token + Token
      BY <3>1, <3>4, <1>1, Distributes
    <3>6. (k + 1) * Token + (b.tokens - Token) = k * Token + b.tokens /\ (k + 1) * Token \in Int
      BY <1>1, <3>2, <3>3, <3>5
    <3> QED
      BY <3>1, <3>2, <3>6
  <2>5. ((n + 1) - (n + 1) + 1) * Token = Token /\ (elapsed - elapsed) * Rate = 0
    BY <1>1, ConstantTypes
  <2>6. Balanced'
    <3> SUFFICES ASSUME NEW i \in 1..(n + 1) PROVE BalanceAt(i)'
      BY <2>3 DEF Balanced
    <3>1. CASE i \in 1..n
      BY <2>2, <2>3, <2>4, <3>1 DEF BalanceAt
    <3>2. CASE i = n + 1
      BY <1>1, <2>2, <2>3, <2>5, <3>2 DEF BalanceAt
    <3> QED
      BY <1>1, <3>1, <3>2
  <2>7. AdmissionsAreBounded'
    <3> SUFFICES ASSUME NEW i \in 1..(n + 1), NEW j \in 1..(n + 1), i <= j
                 PROVE  (j - i + 1) * Token
                            <= Burst * Token + (admitted'[j] - admitted'[i]) * Rate
      BY <2>3 DEF AdmissionsAreBounded
    <3>1. CASE j \in 1..n
      <4>1. i \in 1..n
        BY <1>1, <3>1
      <4> QED
        BY <2>3, <3>1, <4>1 DEF AdmissionsAreBounded
    <3>2. CASE j = n + 1 /\ i \in 1..n
      <4>1. b.tokens - Token >= 0 /\ b.tokens - Token \in Int
        BY <1>1, <1>3
      <4> HIDE DEF b
      <4> DEFINE spent == ((n + 1) - i + 1) * Token
                 most == Burst * Token + (elapsed - admitted[i]) * Rate
      <4>2. spent + (b.tokens - Token) <= most /\ spent \in Int /\ most \in Int
        BY <1>1, <2>4, <3>2
      <4> HIDE DEF spent, most
      <4>3. spent <= most
        BY <4>1, <4>2
      <4> QED
        BY <2>3, <3>2, <4>3 DEF spent, most
    <3>3. CASE j = n + 1 /\ i = n + 1
      BY <1>1, <1>3, <2>3, <2>5, <3>3
    <3> QED
      BY <1>1, <3>1, <3>2, <3>3
  <2> QED
    BY <2>6, <2>7
<1>4. CASE ~(b.tokens >= Token)
  <2>1. bucket' = b /\ admitted' = admitted
    BY <1>4 DEF Post
  <2>2. At' = elapsed /\ Held' = b.tokens
    <3>1. bucket'.refilledAt = now
      BY <1>1, <2>1 DEF now
    <3> QED
      BY <1>1, <1>2, <1>5, <2>1, <3>1 DEF At, Held
  <2>3. Balanced'
    <3> SUFFICES ASSUME NEW i \in 1..n PROVE BalanceAt(i)'
      BY <2>1 DEF Balanced
    <3> QED
      BY <2>1, <2>2, BalanceMoves DEF BalanceAt
  <2> QED
    BY <2>1, <2>3 DEF AdmissionsAreBounded
<1> QED
  BY <1>3, <1>4

LEMMA PruneBalance ==
  ASSUME ProfileInv, Balanced, PruneBuckets
  PROVE  Balanced'
<1>1. /\ bucket # NoBucket /\ bucket' = NoBucket /\ elapsed' = elapsed /\ admitted' = admitted
      /\ elapsed > At + PruneIdle
  <2>1. /\ bucket # NoBucket /\ clock > bucket.refilledAt + PruneIdle
        /\ bucket' = NoBucket /\ elapsed' = elapsed /\ admitted' = admitted
    BY DEF PruneBuckets
  <2>2. /\ clock \in Nat /\ elapsed \in Nat /\ bucket.refilledAt \in Nat /\ PruneIdle \in Nat
    BY <2>1, SinceType, ConstantTypes DEF ProfileInv, ProfileTypeOK
  <2>3. Since(bucket) = clock - bucket.refilledAt
    BY <2>1, <2>2 DEF Since
  <2> QED
    BY <2>1, <2>2, <2>3 DEF At
<1>2. At' = elapsed /\ Held' = Burst * Token
  BY <1>1 DEF At, Held
<1> SUFFICES ASSUME NEW i \in 1..Len(admitted) PROVE BalanceAt(i)'
  BY <1>1 DEF Balanced
<1>3. /\ elapsed \in Nat /\ At \in Nat /\ Held \in Nat /\ admitted[i] \in Nat
      /\ Len(admitted) \in Nat /\ i \in Nat /\ Burst * Token \in Nat
  BY BucketTypes, ConstantTypes
<1>4. /\ admitted[i] <= At
      /\ (Len(admitted) - i + 1) * Token + Held <= Burst * Token + (At - admitted[i]) * Rate
  BY DEF Balanced, BalanceAt
<1>5. /\ (Len(admitted) - i + 1) * Token \in Int /\ (elapsed - At) * Rate \in Int
      /\ (At - admitted[i]) * Rate \in Int
  BY <1>3, ConstantTypes
<1>6. (elapsed - admitted[i]) * Rate = (elapsed - At) * Rate + (At - admitted[i]) * Rate
  <2> DEFINE x == elapsed - At
             y == At - admitted[i]
  <2>1. x \in Int /\ y \in Int /\ x + y = elapsed - admitted[i]
    BY <1>3
  <2> HIDE DEF x, y
  <2>2. (x + y) * Rate = x * Rate + y * Rate
    BY <2>1, Distributes, ConstantTypes
  <2> QED
    BY <2>1, <2>2 DEF x, y
<1>7. Burst * Token <= (elapsed - At) * Rate
  <2>1. PruneIdle \in Int /\ elapsed - At \in Int /\ PruneIdle <= elapsed - At
    BY <1>1, <1>3, ConstantTypes
  <2>2. PruneIdle * Rate <= (elapsed - At) * Rate
    BY <2>1, Monotone, ConstantTypes
  <2>3. PruneIdle * Rate >= Burst * Token /\ PruneIdle * Rate \in Int
    BY ProfileConstants, ConstantTypes
  <2> QED
    BY <1>3, <1>5, <2>2, <2>3
<1>8. admitted[i] <= elapsed
  BY <1>1, <1>3, <1>4, ConstantTypes
<1>9. (Len(admitted) - i + 1) * Token + Burst * Token
          <= Burst * Token + (elapsed - admitted[i]) * Rate
  <2> DEFINE spent == (Len(admitted) - i + 1) * Token
             burst == Burst * Token
             since == (At - admitted[i]) * Rate
             more == (elapsed - At) * Rate
             all == (elapsed - admitted[i]) * Rate
  <2>1. /\ spent \in Int /\ burst \in Int /\ since \in Int /\ more \in Int /\ Held \in Nat
        /\ all = more + since
    BY <1>3, <1>5, <1>6
  <2>2. spent + Held <= burst + since /\ burst <= more
    BY <1>4, <1>7
  <2> HIDE DEF spent, burst, since, more, all
  <2>3. spent + burst <= burst + all
    BY <2>1, <2>2
  <2> QED
    BY <2>3 DEF spent, burst, all
<1> QED
  BY <1>1, <1>2, <1>8, <1>9 DEF BalanceAt

\* The time passes, or the clock is set back: the refill that the bucket has coming grows
\* by no more than the time.
LEMMA TimeBalance ==
  ASSUME ProfileInv, Balanced, Wait \/ \E now \in 0..MaxTime : now < clock /\ SetBack(now)
  PROVE  Balanced'
<1>1. UNCHANGED <<bucket, admitted>>
  BY DEF Wait, SetBack
<1>2. Held' = Held /\ At' \in Nat /\ At \in Nat /\ At <= At'
  <2>1. /\ clock \in Nat /\ clock' \in Nat /\ elapsed \in Nat /\ clock <= elapsed
        /\ (clock' = clock + 1 /\ elapsed' = elapsed + 1) \/ (clock' < clock /\ elapsed' = elapsed)
    BY ConstantTypes DEF Wait, SetBack, ProfileInv, ProfileTypeOK
  <2>2. CASE bucket = NoBucket
    BY <1>1, <2>1, <2>2, BucketTypes DEF At, Held
  <2>3. CASE bucket # NoBucket
    <3>1. bucket.refilledAt \in Nat
      BY <2>3, SinceType DEF ProfileInv
    <3>2. /\ Since(bucket) \in Nat /\ Since(bucket) <= clock
          /\ Since(bucket)' \in Nat /\ Since(bucket)' <= clock'
          /\ elapsed - Since(bucket) <= elapsed' - Since(bucket)'
      BY <1>1, <2>1, <3>1 DEF Since
    <3>3. /\ At = elapsed - Since(bucket) /\ At' = elapsed' - Since(bucket)' /\ Held' = Held
      BY <1>1, <2>3 DEF At, Held
    <3> QED
      BY <2>1, <3>2, <3>3
  <2> QED
    BY <2>2, <2>3
<1> SUFFICES ASSUME NEW i \in 1..Len(admitted) PROVE BalanceAt(i)'
  BY <1>1 DEF Balanced
<1>3. /\ admitted[i] <= At
      /\ (Len(admitted) - i + 1) * Token + Held <= Burst * Token + (At - admitted[i]) * Rate
  BY DEF Balanced, BalanceAt
<1>4. /\ admitted[i] \in Nat /\ Held \in Nat /\ Burst * Token \in Nat
      /\ (Len(admitted) - i + 1) * Token \in Int
  BY BucketTypes, ConstantTypes
<1>5. (At - admitted[i]) * Rate <= (At' - admitted[i]) * Rate
  <2>1. At - admitted[i] \in Int /\ At' - admitted[i] \in Int
        /\ At - admitted[i] <= At' - admitted[i]
    BY <1>2, <1>4
  <2> QED
    BY <2>1, Monotone, ConstantTypes
<1>6. (At - admitted[i]) * Rate \in Int /\ (At' - admitted[i]) * Rate \in Int
  BY <1>2, <1>4, ConstantTypes
<1>7. admitted[i] <= At'
  BY <1>2, <1>3, <1>4
<1> QED
  BY <1>1, <1>2, <1>3, <1>4, <1>5, <1>6, <1>7 DEF BalanceAt

LEMMA BalanceKept ==
  ASSUME ProfileInv, Balanced, AdmissionsAreBounded, [ProfileNext]_profileVars
  PROVE  Balanced' /\ AdmissionsAreBounded'
<1>1. ASSUME UNCHANGED <<clock, elapsed, bucket, admitted>> PROVE Balanced' /\ AdmissionsAreBounded'
  <2>1. At' = At /\ Held' = Held
    BY <1>1 DEF At, Held, Since
  <2> QED
    BY <1>1, <2>1 DEF Balanced, BalanceAt, AdmissionsAreBounded
<1>2. ASSUME NEW r \in Requests, NEW a \in Addresses, NEW d \in Displays, Post(r, a, d)
      PROVE  Balanced' /\ AdmissionsAreBounded'
  BY <1>2, PostBalance
<1>3. CASE PruneBuckets
  BY <1>3, PruneBalance DEF PruneBuckets, AdmissionsAreBounded
<1>4. CASE Wait
  BY <1>4, TimeBalance DEF Wait, AdmissionsAreBounded
<1>8. ASSUME NEW now \in 0..MaxTime, now < clock, SetBack(now)
      PROVE  Balanced' /\ AdmissionsAreBounded'
  BY <1>8, TimeBalance DEF SetBack, AdmissionsAreBounded
<1>5. ASSUME NEW r \in Requests,
             ReadRow(r) \/ ReadBlocklist(r) \/ UpdateDisplayCase(r) \/ Evaluate(r)
                 \/ UpsertUsername(r) \/ ReadReason(r)
      PROVE  UNCHANGED <<clock, elapsed, bucket, admitted>>
  BY <1>5 DEF ReadRow, ReadBlocklist, UpdateDisplayCase, Evaluate, UpsertUsername, ReadReason
<1>6. ASSUME NEW name \in Names, EditBlocklist(name)
      PROVE  UNCHANGED <<clock, elapsed, bucket, admitted>>
  BY <1>6 DEF EditBlocklist
<1>7. CASE UNCHANGED profileVars
  BY <1>1, <1>7 DEF profileVars
<1> QED
  BY <1>1, <1>2, <1>3, <1>4, <1>5, <1>6, <1>7, <1>8 DEF ProfileNext

\* For any burst, rate and number of requests: an IP address is admitted no more
\* often in a stretch of time than the burst and what is refilled in it.
THEOREM BucketsBindAdmissions == ProfileSpec => []AdmissionsAreBounded
<1>1. ProfileInit => Balanced /\ AdmissionsAreBounded
  BY DEF ProfileInit, Balanced, AdmissionsAreBounded
<1>2. ProfileInv /\ Balanced /\ AdmissionsAreBounded /\ [ProfileNext]_profileVars
          => Balanced' /\ AdmissionsAreBounded'
  BY BalanceKept
<1> QED
  BY <1>1, <1>2, ProfilesInvariant, PTL DEF ProfileSpec

=============================================================================

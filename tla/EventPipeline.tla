----------------------------- MODULE EventPipeline -----------------------------
(***************************************************************************)
(* pipeline.ts with priorityOf of message.ts: what becomes of the events   *)
(* that one tick has detected. Filter moments silence all but HIGH events, *)
(* LOW events give way to any other in the batch, and an event is dropped  *)
(* if its token and type were emitted within the dedupe window, or, unless *)
(* it is HIGH, if its token has used up its quota of the throttle window.  *)
(* An event is its type, its token (NoToken for the season's own) and,     *)
(* for a trade, the fee row it was read from; text and payload are left    *)
(* out. Times are those of one clock.                                      *)
(*                                                                         *)
(* An operator under the word Slip is a variant with a plausible bug, as   *)
(* in LaunchEscrow; nothing refers to it.                                  *)
(***************************************************************************)
EXTENDS Naturals, SequencesExt

CONSTANTS
    Tokens,
    NoToken,
    DedupeWindow,
    ThrottleWindow,
    ThrottlePerTokenMax,
    FilterMomentWindow

ASSUME PipelineConstants ==
    /\ NoToken \notin Tokens
    /\ {DedupeWindow, ThrottleWindow, ThrottlePerTokenMax, FilterMomentWindow} \subseteq Nat

HighTypes == {"CUT_LINE_CROSSED", "FILTER_FIRED", "FILTER_COUNTDOWN"}
MediumTypes == {"RANK_CHANGED", "HP_SPIKE", "VOLUME_SPIKE", "PHASE_ADVANCED"}

\* A LARGE_TRADE is LOW unless the detector has lifted it.
PriorityOf(d) ==
    IF d.nearCut \/ d.type \in MediumTypes THEN "MEDIUM"
    ELSE IF d.type \in HighTypes THEN "HIGH" ELSE "LOW"

\* dedupeSeen has the time of the last emission for the pairs it knows.
MakeState ==
    [dedupeSeen |-> <<>>, throttleCounts |-> [t \in Tokens |-> <<>>], filterMomentEndsAt |-> 0]

\* Those of a sequence that are in S, in its order.
Those(seq, S) ==
    LET Add(acc, x) == IF x \in S THEN Append(acc, x) ELSE acc
    IN  FoldLeft(Add, <<>>, seq)

Recent(times, now) == Those(times, {at \in ToSet(times) : now - at < ThrottleWindow})

Prune(state, now) ==
    LET fresh == {k \in DOMAIN state.dedupeSeen : now - state.dedupeSeen[k] < DedupeWindow}
    IN  [state EXCEPT !.dedupeSeen = Restrict(@, fresh),
                      !.throttleCounts = [t \in Tokens |-> Recent(@[t], now)]]

\* Stage 1: a FILTER_FIRED opens the moment for what follows it, in the batch too.
FilterMoment(state, detected, now) ==
    LET Step(acc, d) ==
            IF now < acc.endsAt /\ PriorityOf(d) # "HIGH" THEN acc
            ELSE [endsAt |-> IF d.type = "FILTER_FIRED" THEN now + FilterMomentWindow
                             ELSE acc.endsAt,
                  kept |-> Append(acc.kept, d)]
    IN  FoldLeft(Step, [endsAt |-> state.filterMomentEndsAt, kept |-> <<>>], detected)

\* Stage 2.
SuppressLow(batch) ==
    LET higher == {d \in ToSet(batch) : PriorityOf(d) # "LOW"}
    IN  IF higher # {} THEN Those(batch, higher) ELSE batch

\* Stage 3, one event: [state, emitted] after it.
Stamped(seen, key, now) ==
    [k \in DOMAIN seen \cup {key} |-> IF k = key THEN now ELSE seen[k]]

Throttled(d) == d.token # NoToken /\ PriorityOf(d) # "HIGH"

EmitSlipZeroAge(acc, d, now) ==
    LET state == acc.state
        key == <<d.token, d.type>>
        seen == key \in DOMAIN state.dedupeSeen
                    /\ now - state.dedupeSeen[key] \in 1..(DedupeWindow - 1)
        full == Throttled(d) /\ Len(state.throttleCounts[d.token]) >= ThrottlePerTokenMax
        stamped == [state EXCEPT !.dedupeSeen = Stamped(@, key, now)]
    IN  IF seen \/ full THEN acc
        ELSE [state |-> IF Throttled(d)
                        THEN [stamped EXCEPT !.throttleCounts[d.token] = Append(@, now)]
                        ELSE stamped,
              emitted |-> Append(acc.emitted, d)]

Emit(acc, d, now) ==
    LET state == acc.state
        key == <<d.token, d.type>>
        seen == key \in DOMAIN state.dedupeSeen /\ now - state.dedupeSeen[key] < DedupeWindow
        full == Throttled(d) /\ Len(state.throttleCounts[d.token]) >= ThrottlePerTokenMax
        stamped == [state EXCEPT !.dedupeSeen = Stamped(@, key, now)]
    IN  IF seen \/ full THEN acc
        ELSE [state |-> IF Throttled(d)
                        THEN [stamped EXCEPT !.throttleCounts[d.token] = Append(@, now)]
                        ELSE stamped,
              emitted |-> Append(acc.emitted, d)]

\* The events emitted and the state left behind; those that give way in stage 2 are
\* gone.
RunPipeline(old, detected, now) ==
    LET state == Prune(old, now)
        stage1 == FilterMoment(state, detected, now)
        stage2 == SuppressLow(stage1.kept)
        armed == [state EXCEPT !.filterMomentEndsAt = stage1.endsAt]
        Stage3(acc, d) == Emit(acc, d, now)
        stage3 == FoldLeft(Stage3, [state |-> armed, emitted |-> <<>>], stage2)
    IN  [state |-> stage3.state, emitted |-> stage3.emitted]
==============================================================================

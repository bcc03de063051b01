------------------------------ MODULE MCTickEngine ------------------------------
(***************************************************************************)
(* Instances of TickEngine for TLC.                                        *)
(***************************************************************************)
EXTENDS TickEngine

CONSTANTS x, y, z, r1, r2

\* Two ticks that the timer has started are alike.
Timers == Permutations({r1, r2})

TwoSeasons == <<{x, y}, {z}>>

\* The cut line is below the first rank: from one order to the other both cross it.
Swaps == {<<x, y, z>>, <<y, x, z>>}

\* A tick in which the token x makes two MEDIUM signals.
SomeSpikes == {{}, {<<x, "HP_SPIKE">>, <<x, "VOLUME_SPIKE">>}}

FirstAndFinalCut == [first |-> 1, final |-> 3]
==============================================================================

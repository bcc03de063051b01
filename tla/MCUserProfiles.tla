---------------------------- MODULE MCUserProfiles ----------------------------
(***************************************************************************)
(* Instances of UserProfiles for TLC.                                      *)
(***************************************************************************)
EXTENDS UserProfiles, FiniteSets, TLC

CONSTANTS w1, w2, n1, n2, n3, r1, r2, r3

Symmetry == Permutations({w1, w2}) \cup Permutations({n1, n2}) \cup Permutations({r1, r2, r3})

\* Bound: one handle on the blocklist at a time.
OneBlocked == Cardinality(blocklist) <= 1

\* Bound: requests race on a clock that is never set back; on one that is, they
\* come one after the other.
RaceOrSetBack ==
    \/ clock = elapsed
    \/ Cardinality({r \in Requests : request[r].at \notin {"unsent", "answered"}}) <= 1

\* No property looks at the answers.
AnswersAside ==
    <<clock, elapsed, profile, blocklist, bucket, changes, admitted,
      [r \in Requests |-> IF request[r].at = "answered" THEN "answered" ELSE request[r]]>>

=============================================================================

---------------------------- MODULE MCLaunchIndex ----------------------------
(***************************************************************************)
(* The instance of LaunchApi, and with it LaunchIndex, for TLC.            *)
(***************************************************************************)
EXTENDS LaunchApi, TLC

TwoSeasons == {1, 2}

\* One list, with a protocol token of the first season.
StrayFinalist ==
    {{[season |-> 1, ticker |-> CHOOSE t \in ProtocolTickers : TRUE, creator |-> Owner]}}

\* The first season may take two phase advances, enough to reuse a log's position;
\* the second one is about what is left of the first when it launches. A stopped
\* indexer stays stopped.
BeforeSettlement ==
    /\ ~halted
    /\ phaseOf[1] <= Finals /\ phaseOf[2] = Launch

\* The multisig blocks one ticker, of its own or the constructor's.
OneBlocked == Cardinality(db.blocklist) <= 1

\* A pause only removes steps.
Unpaused == ~paused

CreatorSymmetry == Permutations(Creators)
=============================================================================

---------------------------- MODULE MCCreatorRights ----------------------------
(***************************************************************************)
(* Instances of CreatorRights for TLC.                                     *)
(***************************************************************************)
EXTENDS CreatorRights, TLC

CONSTANTS t1, w1, w2, pool

Symmetry == Permutations({w1, w2})

=============================================================================

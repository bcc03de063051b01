----------------------------- MODULE SeasonDomain -----------------------------
(***************************************************************************)
(* What the settlement contracts share: the seasons, the tokens that the   *)
(* launcher has deployed in them, and the wallets that claim.              *)
(***************************************************************************)
EXTENDS Wei

CONSTANTS
    Seasons,       \* season ids
    Tokens,        \* launched tokens
    Users,         \* wallets that hold tokens
    NoToken        \* address(0)

ASSUME SeasonConstants ==
    /\ IsFiniteSet(Seasons)
    /\ IsFiniteSet(Tokens)
    /\ IsFiniteSet(Users)
    /\ NoToken \notin Tokens

\* A Merkle root stands for the tree it commits to: the wallets that have a leaf,
\* and the amount in each leaf (zero for the others).
Trees == [leaves: SUBSET Users, amountOf: [Users -> Nat]]

NoTree == [leaves |-> {}, amountOf |-> [u \in Users |-> 0]]

==============================================================================

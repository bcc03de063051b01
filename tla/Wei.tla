--------------------------------- MODULE Wei ---------------------------------
(***************************************************************************)
(* Sums of balances. A ledger f gives every owner x a natural number of    *)
(* wei f[x]; its total is the number of coins <<x, i>> with i \in 1..f[x]. *)
(* Counting coins instead of folding over the owners keeps the sum free of *)
(* recursion, so that the proofs about it (WeiProofs) reduce to the        *)
(* cardinality theorems of the library.                                    *)
(***************************************************************************)
EXTENDS Naturals, FiniteSets

\* The coins of ledger f, one for each wei of each owner.
Coins(f) == UNION {{x} \X (1..f[x]) : x \in DOMAIN f}

\* The sum of a ledger with finitely many owners.
Total(f) == Cardinality(Coins(f))

\* The ledger over the owners S in which only x holds anything.
Single(S, x, v) == [y \in S |-> IF y = x THEN v ELSE 0]

==============================================================================

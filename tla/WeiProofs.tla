------------------------------ MODULE WeiProofs ------------------------------
(***************************************************************************)
(* What Total promises, for every finite set of owners; and the facts that *)
(* stand for an induction over a sequence: the least counterexample, the   *)
(* largest index, and the function a fold recurses along.                  *)
(***************************************************************************)
EXTENDS Wei, SequencesExt, FiniteSetTheorems, WellFoundedInduction, TLAPS

\* A well-founded order has minimal elements.
LEMMA MinimalElement ==
  ASSUME NEW R, IsWellFoundedOn(R, Nat), NEW T, T \subseteq Nat, T # {}
  PROVE  \E x \in T : \A y \in T : ~(<<y, x>> \in R)
  BY WFMin

\* Numbers, if there are any, have a least one.
LEMMA LeastNumber ==
  ASSUME NEW T, T \subseteq Nat, T # {}
  PROVE  \E n \in T : \A m \in T : n <= m
<1>1. \A m, n \in Nat : m < n => <<m, n>> \in OpToRel(<, Nat)
  BY DEF OpToRel
<1>2. \E R : IsWellFoundedOn(R, Nat) /\ \A m, n \in Nat : m < n => <<m, n>> \in R
  BY <1>1, NatLessThanWellFounded, Zenon
<1>3. PICK R : IsWellFoundedOn(R, Nat) /\ \A m, n \in Nat : m < n => <<m, n>> \in R
  BY <1>2
<1>4. \E n \in T : \A m \in T : ~(<<m, n>> \in R)
  BY <1>3, MinimalElement
<1>5. PICK n \in T : \A m \in T : ~(<<m, n>> \in R)
  BY <1>4
<1>6. \A m \in T : ~(m < n)
  BY <1>3, <1>5
<1> QED
  BY <1>6

\* What holds of 0, and of each number up to n if it holds of the one before, holds of n.
LEMMA StepByStep ==
  ASSUME NEW n \in Nat, NEW T, 0 \in T, \A i \in 1..n : i - 1 \in T => i \in T
  PROVE  n \in T
<1> DEFINE rest == {i \in 0..n : i \notin T}
<1>1. ASSUME rest # {} PROVE FALSE
  <2>1. PICK i \in rest : \A m \in rest : i <= m
    BY <1>1, LeastNumber, rest \subseteq Nat
  <2>2. i \in 1..n
    BY <2>1
  <2>3. i - 1 \in 0..n /\ i - 1 \notin rest
    BY <2>1, <2>2
  <2> QED
    BY <2>1, <2>2, <2>3
<1> QED
  BY <1>1

\* The numbers up to n have a largest one, too.
LEMMA LargestNumber ==
  ASSUME NEW n \in Nat, NEW T, T \subseteq 1..n, T # {}
  PROVE  \E m \in T : \A x \in T : x <= m
<1> DEFINE U == {m \in 0..n : \A x \in T : x <= m}
<1>1. n \in U /\ U \subseteq Nat
  OBVIOUS
<1>2. PICK b \in U : \A m \in U : b <= m
  BY <1>1, LeastNumber
<1>3. b \in T
  <2>1. CASE b \in T
    BY <2>1
  <2>2. CASE b \notin T
    <3>1. PICK x \in T : TRUE
      OBVIOUS
    <3>2. b >= 1
      BY <3>1, <1>2
    <3>3. \A y \in T : y <= b - 1
      BY <1>2, <2>2, <3>2
    <3>4. b - 1 \in U
      BY <1>2, <3>2, <3>3
    <3> QED
      BY <1>2, <3>2, <3>4
  <2> QED
    BY <2>1, <2>2
<1>4. \A y \in T : y <= b
  BY <1>2
<1> QED
  BY <1>3, <1>4

\* A coin is a pair of an owner and one of the numbers up to its balance.
LEMMA CoinsMember ==
  ASSUME NEW S, NEW f \in [S -> Nat], NEW p
  PROVE  p \in Coins(f) <=> \E x \in S : \E i \in 1..f[x] : p = <<x, i>>
  BY DEF Coins

\* A group of n coins with one owner has n members.
LEMMA SingleCoins ==
  ASSUME NEW x, NEW n \in Nat
  PROVE  IsFiniteSet({x} \X (1..n)) /\ Cardinality({x} \X (1..n)) = n
<1> DEFINE g == [i \in 1..n |-> <<x, i>>]
<1>1. IsFiniteSet(1..n) /\ Cardinality(1..n) = n
  BY FS_Interval
<1>2. g \in Bijection(1..n, {x} \X (1..n))
  BY DEF Bijection, Injection, Surjection, IsInjective
<1>3. ExistsBijection(1..n, {x} \X (1..n))
  BY <1>2 DEF ExistsBijection
<1> QED
  BY <1>1, <1>3, FS_Bijection

\* The coins of a ledger over finitely many owners are finitely many.
LEMMA CoinsFinite ==
  ASSUME NEW S, IsFiniteSet(S), NEW f \in [S -> Nat]
  PROVE  IsFiniteSet(Coins(f))
<1> DEFINE piles == {{x} \X (1..f[x]) : x \in S}
           pile == [x \in S |-> {x} \X (1..f[x])]
<1>1. pile \in Surjection(S, piles)
  BY DEF Surjection
<1>2. IsFiniteSet(piles)
  BY <1>1, FS_Surjection
<1>3. \A T \in piles : IsFiniteSet(T)
  <2> SUFFICES ASSUME NEW x \in S PROVE IsFiniteSet({x} \X (1..f[x]))
    OBVIOUS
  <2>1. f[x] \in Nat
    OBVIOUS
  <2> QED
    BY <2>1, SingleCoins
<1>4. IsFiniteSet(UNION piles)
  BY <1>2, <1>3, FS_UNION
<1>5. Coins(f) = UNION piles
  BY DEF Coins
<1> QED
  BY <1>4, <1>5

\* A total is a natural number.
LEMMA TotalType ==
  ASSUME NEW S, IsFiniteSet(S), NEW f \in [S -> Nat]
  PROVE  Total(f) \in Nat
  BY CoinsFinite, FS_CardinalityType DEF Total

\* Totals add: when every owner of h holds what f and g give it together, the
\* coins of h are those of f and, numbered after them, those of g.
LEMMA TotalAdd ==
  ASSUME NEW S, IsFiniteSet(S),
         NEW f \in [S -> Nat], NEW g \in [S -> Nat], NEW h \in [S -> Nat],
         \A x \in S : h[x] = f[x] + g[x]
  PROVE  Total(h) = Total(f) + Total(g)
<1> DEFINE A == Coins(f)
           B == UNION {{x} \X (f[x] + 1 .. h[x]) : x \in S}
           G == Coins(g)
           shift == [p \in G |-> <<p[1], f[p[1]] + p[2]>>]
<1>1. IsFiniteSet(A) /\ IsFiniteSet(G)
  BY CoinsFinite
<1>2. \A p : p \in A <=> \E x \in S : \E i \in 1..f[x] : p = <<x, i>>
  BY CoinsMember
<1>3. \A p : p \in G <=> \E x \in S : \E i \in 1..g[x] : p = <<x, i>>
  BY CoinsMember
<1>4. \A p : p \in Coins(h) <=> \E x \in S : \E i \in 1..h[x] : p = <<x, i>>
  BY CoinsMember
<1>5. \A p : p \in B <=> \E x \in S : \E i \in f[x] + 1 .. h[x] : p = <<x, i>>
  OBVIOUS
<1> HIDE DEF A, B, G
<1>6. Coins(h) = A \cup B
  <2>1. ASSUME NEW p \in Coins(h) PROVE p \in A \cup B
    <3>1a. PICK x \in S : \E i \in 1..h[x] : p = <<x, i>>
      BY <2>1, <1>4
    <3>1. PICK i \in 1..h[x] : p = <<x, i>>
      BY <3>1a
    <3>2. i \in 1..f[x] \/ i \in f[x] + 1 .. h[x]
      BY <3>1
    <3> QED
      BY <3>1, <3>2, <1>2, <1>5
  <2>2. ASSUME NEW p \in A PROVE p \in Coins(h)
    <3>1a. PICK x \in S : \E i \in 1..f[x] : p = <<x, i>>
      BY <2>2, <1>2
    <3>1. PICK i \in 1..f[x] : p = <<x, i>>
      BY <3>1a
    <3>2. i \in 1..h[x]
      BY <3>1
    <3> QED
      BY <3>1, <3>2, <1>4
  <2>3. ASSUME NEW p \in B PROVE p \in Coins(h)
    <3>1a. PICK x \in S : \E i \in f[x] + 1 .. h[x] : p = <<x, i>>
      BY <2>3, <1>5
    <3>1. PICK i \in f[x] + 1 .. h[x] : p = <<x, i>>
      BY <3>1a
    <3>2. i \in 1..h[x]
      BY <3>1
    <3> QED
      BY <3>1, <3>2, <1>4
  <2> QED
    BY <2>1, <2>2, <2>3
<1>7. A \cap B = {}
  <2> SUFFICES ASSUME NEW p, p \in A, p \in B PROVE FALSE
    OBVIOUS
  <2>1a. PICK x \in S : \E i \in 1..f[x] : p = <<x, i>>
    BY <1>2
  <2>1. PICK i \in 1..f[x] : p = <<x, i>>
    BY <2>1a
  <2>2a. PICK y \in S : \E j \in f[y] + 1 .. h[y] : p = <<y, j>>
    BY <1>5
  <2>2. PICK j \in f[y] + 1 .. h[y] : p = <<y, j>>
    BY <2>2a
  <2>3. x = y /\ i = j
    BY <2>1, <2>2
  <2> QED
    BY <2>1, <2>2, <2>3
<1>8. shift \in Bijection(G, B)
  <2>1. \A p \in G : shift[p] \in B
    <3> SUFFICES ASSUME NEW p \in G PROVE <<p[1], f[p[1]] + p[2]>> \in B
      OBVIOUS
    <3>1a. PICK x \in S : \E i \in 1..g[x] : p = <<x, i>>
      BY <1>3
    <3>1. PICK i \in 1..g[x] : p = <<x, i>>
      BY <3>1a
    <3>2. f[x] + i \in f[x] + 1 .. h[x]
      BY <3>1
    <3> QED
      BY <3>1, <3>2, <1>5
  <2>2. ASSUME NEW p \in G, NEW q \in G, shift[p] = shift[q] PROVE p = q
    <3>1a. PICK x \in S : \E i \in 1..g[x] : p = <<x, i>>
      BY <1>3
    <3>1. PICK i \in 1..g[x] : p = <<x, i>>
      BY <3>1a
    <3>2a. PICK y \in S : \E j \in 1..g[y] : q = <<y, j>>
      BY <1>3
    <3>2. PICK j \in 1..g[y] : q = <<y, j>>
      BY <3>2a
    <3>3. shift[p] = <<x, f[x] + i>> /\ shift[q] = <<y, f[y] + j>>
      BY <3>1, <3>2
    <3>4. x = y /\ f[x] + i = f[y] + j
      BY <3>3, <2>2
    <3>5. i = j
      BY <3>1, <3>2, <3>4
    <3> QED
      BY <3>1, <3>2, <3>4, <3>5
  <2>3. ASSUME NEW q \in B PROVE \E p \in G : shift[p] = q
    <3>1a. PICK x \in S : \E j \in f[x] + 1 .. h[x] : q = <<x, j>>
      BY <1>5
    <3>1. PICK j \in f[x] + 1 .. h[x] : q = <<x, j>>
      BY <3>1a
    <3>2. j - f[x] \in 1..g[x] /\ f[x] + (j - f[x]) = j
      BY <3>1
    <3>3. <<x, j - f[x]>> \in G
      BY <3>2, <1>3
    <3>4. shift[<<x, j - f[x]>>] = q
      BY <3>1, <3>2, <3>3
    <3> QED
      BY <3>3, <3>4
  <2> HIDE DEF shift
  <2>4. shift \in [G -> B]
    BY <2>1 DEF shift
  <2> QED
    BY <2>1, <2>2, <2>3, <2>4 DEF Bijection, Injection, Surjection, IsInjective
<1>9. IsFiniteSet(B) /\ Cardinality(B) = Cardinality(G)
  BY <1>1, <1>8, FS_Bijection DEF ExistsBijection
<1>10. Cardinality(A \cup B) = Cardinality(A) + Cardinality(B) - Cardinality({})
  BY <1>1, <1>7, <1>9, FS_Union
<1>11. Cardinality({}) = 0 /\ Cardinality(A) \in Nat /\ Cardinality(B) \in Nat
  BY <1>1, <1>9, FS_EmptySet, FS_CardinalityType
<1>12. Total(f) = Cardinality(A) /\ Total(g) = Cardinality(G) /\ Total(h) = Cardinality(Coins(h))
  BY DEF Total, A, G
<1> QED
  BY <1>6, <1>9, <1>10, <1>11, <1>12

\* A ledger in which nobody holds anything totals 0.
LEMMA TotalZero ==
  ASSUME NEW S, NEW f \in [S -> Nat], \A x \in S : f[x] = 0
  PROVE  Total(f) = 0
<1>1. Coins(f) = {}
  BY CoinsMember
<1> QED
  BY <1>1, FS_EmptySet DEF Total

\* A ledger with one holder totals what that holder has.
LEMMA TotalSingle ==
  ASSUME NEW S, NEW x \in S, NEW v \in Nat
  PROVE  Single(S, x, v) \in [S -> Nat] /\ Total(Single(S, x, v)) = v
<1>1. Single(S, x, v) \in [S -> Nat]
  BY DEF Single
<1>2. Coins(Single(S, x, v)) = {x} \X (1..v)
  <2>1. \A p : p \in Coins(Single(S, x, v))
                <=> \E y \in S : \E i \in 1..Single(S, x, v)[y] : p = <<y, i>>
    BY <1>1, CoinsMember
  <2>2. \A y \in S : Single(S, x, v)[y] = IF y = x THEN v ELSE 0
    BY DEF Single
  <2>3. \A p : p \in Coins(Single(S, x, v)) <=> \E i \in 1..v : p = <<x, i>>
    BY <2>1, <2>2
  <2>4. \A p : p \in {x} \X (1..v) <=> \E i \in 1..v : p = <<x, i>>
    OBVIOUS
  <2> QED
    BY <2>3, <2>4
<1> QED
  BY <1>1, <1>2, SingleCoins DEF Total

\* Changing one holding changes the total by the same amount.
LEMMA TotalUpdate ==
  ASSUME NEW S, IsFiniteSet(S), NEW f \in [S -> Nat], NEW g \in [S -> Nat],
         NEW x \in S, \A y \in S \ {x} : g[y] = f[y]
  PROVE  Total(g) + f[x] = Total(f) + g[x]
<1> DEFINE rest == [y \in S |-> IF y = x THEN 0 ELSE f[y]]
           was == Single(S, x, f[x])
           is == Single(S, x, g[x])
<1>1. rest \in [S -> Nat] /\ f[x] \in Nat /\ g[x] \in Nat
  OBVIOUS
<1>2a. was \in [S -> Nat] /\ Total(was) = f[x]
  BY <1>1, TotalSingle
<1>2b. is \in [S -> Nat] /\ Total(is) = g[x]
  BY <1>1, TotalSingle
<1>3. \A y \in S : f[y] = rest[y] + was[y]
  BY DEF Single
<1>4. \A y \in S : g[y] = rest[y] + is[y]
  BY DEF Single
<1> HIDE DEF rest, was, is
<1>5. Total(f) = Total(rest) + Total(was)
  BY <1>1, <1>2a, <1>3, TotalAdd
<1>6. Total(g) = Total(rest) + Total(is)
  BY <1>1, <1>2b, <1>4, TotalAdd
<1>7. Total(rest) \in Nat
  BY <1>1, TotalType
<1> QED
  BY <1>1, <1>2a, <1>2b, <1>5, <1>6, <1>7

\* A ledger that is nowhere larger than another does not total more.
LEMMA TotalMonotone ==
  ASSUME NEW S, IsFiniteSet(S), NEW f \in [S -> Nat], NEW g \in [S -> Nat],
         \A x \in S : f[x] <= g[x]
  PROVE  Total(f) <= Total(g)
<1> DEFINE gap == [x \in S |-> g[x] - f[x]]
<1>1. gap \in [S -> Nat] /\ \A x \in S : g[x] = f[x] + gap[x]
  OBVIOUS
<1> HIDE DEF gap
<1>2. Total(g) = Total(f) + Total(gap)
  BY <1>1, TotalAdd
<1>3. Total(f) \in Nat /\ Total(gap) \in Nat
  BY <1>1, TotalType
<1> QED
  BY <1>2, <1>3

\* No single holding exceeds the total.
LEMMA TotalMember ==
  ASSUME NEW S, IsFiniteSet(S), NEW f \in [S -> Nat], NEW x \in S
  PROVE  f[x] <= Total(f)
<1> DEFINE only == Single(S, x, f[x])
<1>1. only \in [S -> Nat] /\ Total(only) = f[x]
  BY TotalSingle
<1>2. \A y \in S : only[y] <= f[y]
  BY DEF Single
<1> HIDE DEF only
<1> QED
  BY <1>1, <1>2, TotalMonotone

\* A ledger keeps its total when its owners get other names among more owners.
LEMMA TotalRename ==
  ASSUME NEW A, IsFiniteSet(A), NEW B, NEW f \in [A -> Nat], NEW g \in [B -> Nat],
         NEW n \in [A -> B], \A a, b \in A : n[a] = n[b] => a = b,
         \A a \in A : g[n[a]] = f[a],
         \A b \in B : (\A a \in A : n[a] # b) => g[b] = 0
  PROVE  Total(g) = Total(f)
<1> DEFINE F == Coins(f)
           G == Coins(g)
           move == [p \in F |-> <<n[p[1]], p[2]>>]
<1>1. \A p : p \in F <=> \E x \in A : \E i \in 1..f[x] : p = <<x, i>>
  BY CoinsMember
<1>2. \A p : p \in G <=> \E x \in B : \E i \in 1..g[x] : p = <<x, i>>
  BY CoinsMember
<1>3. IsFiniteSet(F)
  BY CoinsFinite
<1> HIDE DEF F, G
<1>4. ASSUME NEW p \in F PROVE <<n[p[1]], p[2]>> \in G
  <2>1. PICK x \in A : \E i \in 1..f[x] : p = <<x, i>>
    BY <1>1
  <2>2. PICK i \in 1..f[x] : p = <<x, i>>
    BY <2>1
  <2>3. n[x] \in B /\ i \in 1..g[n[x]]
    BY <2>2
  <2> QED
    BY <2>2, <2>3, <1>2
<1>5. move \in [F -> G]
  BY <1>4
<1>6. ASSUME NEW p \in F, NEW q \in F, move[p] = move[q] PROVE p = q
  <2>1. PICK x \in A : \E i \in 1..f[x] : p = <<x, i>>
    BY <1>1
  <2>2. PICK i \in 1..f[x] : p = <<x, i>>
    BY <2>1
  <2>3. PICK y \in A : \E j \in 1..f[y] : q = <<y, j>>
    BY <1>1
  <2>4. PICK j \in 1..f[y] : q = <<y, j>>
    BY <2>3
  <2>5. move[p] = <<n[x], i>> /\ move[q] = <<n[y], j>>
    BY <2>2, <2>4
  <2>6. n[x] = n[y] /\ i = j
    BY <1>6, <2>5
  <2> QED
    BY <2>2, <2>4, <2>6
<1>7. ASSUME NEW q \in G PROVE \E p \in F : move[p] = q
  <2>1. PICK y \in B : \E j \in 1..g[y] : q = <<y, j>>
    BY <1>2
  <2>2. PICK j \in 1..g[y] : q = <<y, j>>
    BY <2>1
  <2>3. g[y] # 0
    BY <2>2
  <2>4. PICK x \in A : n[x] = y
    BY <2>3
  <2>5. <<x, j>> \in F
    BY <2>2, <2>4, <1>1
  <2>6. move[<<x, j>>] = q
    BY <2>2, <2>4, <2>5
  <2> QED
    BY <2>5, <2>6
<1> HIDE DEF move
<1>8. move \in Bijection(F, G)
  BY <1>5, <1>6, <1>7 DEF Bijection, Injection, Surjection, IsInjective
<1>9. Cardinality(G) = Cardinality(F)
  BY <1>3, <1>8, FS_Bijection DEF ExistsBijection
<1> QED
  BY <1>9 DEF Total, F, G

\* Counting to n * k in n blocks of k: every number is the j-th of one block.
LEMMA BlockBounds ==
  ASSUME NEW n \in Nat, NEW k \in Nat, NEW i \in 1..n, NEW j \in 1..k
  PROVE  (i - 1) * k + j \in 1..(n * k)
<1> DEFINE a == i - 1
           b == n - i
<1>1. a \in Nat /\ b \in Nat /\ n = a + b + 1
  OBVIOUS
<1> HIDE DEF a, b
<1>2. a * k \in Nat /\ b * k \in Nat
  BY <1>1
<1>3. n * k = a * k + b * k + k
  BY <1>1
<1>4. a * k + j \in 1..(n * k)
  BY <1>2, <1>3
<1> QED
  BY <1>4 DEF a

LEMMA BlockUnique ==
  ASSUME NEW k \in Nat, NEW i \in Nat, NEW m \in Nat, NEW j \in 1..k, NEW l \in 1..k,
         i * k + j = m * k + l
  PROVE  i = m /\ j = l
<1>1. ASSUME NEW a \in Nat, NEW b \in Nat, NEW p \in 1..k, NEW q \in 1..k,
             a * k + p = b * k + q, a < b
      PROVE  FALSE
  <2> DEFINE d == b - a - 1
  <2>1. d \in Nat /\ b = a + d + 1
    BY <1>1
  <2> HIDE DEF d
  <2>2. a * k \in Nat /\ d * k \in Nat /\ b * k = a * k + d * k + k
    BY <2>1
  <2> QED
    BY <1>1, <2>2
<1>2. i = m
  BY <1>1
<1> QED
  BY <1>2

LEMMA Division ==
  ASSUME NEW a \in Nat, NEW k \in Nat, k > 0
  PROVE  /\ a \div k \in Nat /\ a % k \in 0..(k - 1)
         /\ a = k * (a \div k) + (a % k)
<1>1. a \div k \in Nat
  OBVIOUS
<1>2. a % k \in 0..(k - 1)
  OBVIOUS
<1>3. a = k * (a \div k) + (a % k)
  OBVIOUS
<1> QED
  BY <1>1, <1>2, <1>3

LEMMA BlockExists ==
  ASSUME NEW n \in Nat, NEW k \in Nat, NEW m \in 1..(n * k)
  PROVE  \E i \in 1..n, j \in 1..k : m = (i - 1) * k + j
<1>1. k > 0
  <2>1. CASE k = 0
    BY <2>1
  <2> QED
    BY <2>1
<1> DEFINE q == (m - 1) \div k
           r == (m - 1) % k
<1>2a. m - 1 \in Nat /\ k \in Nat
  OBVIOUS
<1>2. q \in Nat /\ r \in 0..(k - 1) /\ m - 1 = k * q + r
  BY <1>1, <1>2a, Division
<1> HIDE DEF q, r
<1>3. q < n
  <2> SUFFICES ASSUME q >= n PROVE FALSE
    BY <1>2
  <2> DEFINE d == q - n
  <2>1. d \in Nat /\ q = n + d
    BY <1>2
  <2> HIDE DEF d
  <2>2. q * k = n * k + d * k /\ d * k \in Nat /\ n * k \in Nat
    BY <2>1
  <2> QED
    BY <1>2, <2>2
<1>4. q + 1 \in 1..n /\ r + 1 \in 1..k
  BY <1>2, <1>3
<1>5. m = ((q + 1) - 1) * k + (r + 1)
  BY <1>2
<1> QED
  BY <1>4, <1>5

\* Multiplying every holding multiplies the total.
LEMMA TotalScale ==
  ASSUME NEW S, IsFiniteSet(S), NEW f \in [S -> Nat], NEW k \in Nat, NEW g \in [S -> Nat],
         \A x \in S : g[x] = f[x] * k
  PROVE  Total(g) = Total(f) * k
<1> DEFINE F == Coins(f)
           G == Coins(g)
           D == F \X (1..k)
           cut == [p \in D |-> <<p[1][1], (p[1][2] - 1) * k + p[2]>>]
<1>1. \A p : p \in F <=> \E x \in S : \E i \in 1..f[x] : p = <<x, i>>
  BY CoinsMember
<1>2. \A p : p \in G <=> \E x \in S : \E i \in 1..g[x] : p = <<x, i>>
  BY CoinsMember
<1>3. IsFiniteSet(F) /\ IsFiniteSet(1..k) /\ Cardinality(1..k) = k
  BY CoinsFinite, FS_Interval
<1> HIDE DEF F, G
<1>4. IsFiniteSet(D) /\ Cardinality(D) = Cardinality(F) * k
  BY <1>3, FS_Product
<1>5. ASSUME NEW p \in D
      PROVE  \E x \in S : \E i \in 1..f[x], j \in 1..k :
                p = <<<<x, i>>, j>> /\ cut[p] = <<x, (i - 1) * k + j>>
  <2>1. p[1] \in F /\ p[2] \in 1..k /\ p = <<p[1], p[2]>>
    OBVIOUS
  <2>2. PICK x \in S : \E i \in 1..f[x] : p[1] = <<x, i>>
    BY <1>1, <2>1
  <2>3. PICK i \in 1..f[x] : p[1] = <<x, i>>
    BY <2>2
  <2> QED
    BY <2>1, <2>3
<1>6. ASSUME NEW x \in S, NEW i \in 1..f[x], NEW j \in 1..k
      PROVE  /\ <<<<x, i>>, j>> \in D
             /\ cut[<<<<x, i>>, j>>] = <<x, (i - 1) * k + j>>
  <2>1. <<x, i>> \in F
    BY <1>1
  <2> QED
    BY <2>1
<1>7. cut \in [D -> G]
  <2> SUFFICES ASSUME NEW p \in D PROVE cut[p] \in G
    OBVIOUS
  <2>1. PICK x \in S : \E i \in 1..f[x], j \in 1..k :
                p = <<<<x, i>>, j>> /\ cut[p] = <<x, (i - 1) * k + j>>
    BY <1>5
  <2>2. PICK i \in 1..f[x], j \in 1..k : cut[p] = <<x, (i - 1) * k + j>>
    BY <2>1
  <2>3. f[x] \in Nat /\ g[x] = f[x] * k
    OBVIOUS
  <2>4. (i - 1) * k + j \in 1..(f[x] * k)
    BY <2>3, BlockBounds
  <2> QED
    BY <1>2, <2>2, <2>3, <2>4
<1> HIDE DEF cut
<1>8. ASSUME NEW p \in D, NEW q \in D, cut[p] = cut[q] PROVE p = q
  <2>1. PICK x \in S : \E i \in 1..f[x], j \in 1..k :
                p = <<<<x, i>>, j>> /\ cut[p] = <<x, (i - 1) * k + j>>
    BY <1>5
  <2>2. PICK i \in 1..f[x], j \in 1..k : p = <<<<x, i>>, j>> /\ cut[p] = <<x, (i - 1) * k + j>>
    BY <2>1
  <2>3. PICK y \in S : \E m \in 1..f[y], l \in 1..k :
                q = <<<<y, m>>, l>> /\ cut[q] = <<y, (m - 1) * k + l>>
    BY <1>5
  <2>4. PICK m \in 1..f[y], l \in 1..k : q = <<<<y, m>>, l>> /\ cut[q] = <<y, (m - 1) * k + l>>
    BY <2>3
  <2>5. x = y /\ (i - 1) * k + j = (m - 1) * k + l
    BY <1>8, <2>2, <2>4
  <2>6. i - 1 \in Nat /\ m - 1 \in Nat
    OBVIOUS
  <2>7. i - 1 = m - 1 /\ j = l
    BY <2>5, <2>6, BlockUnique
  <2>8. i = m
    BY <2>7
  <2> QED
    BY <2>2, <2>4, <2>5, <2>7, <2>8
<1>9. ASSUME NEW q \in G PROVE \E p \in D : cut[p] = q
  <2>1. PICK x \in S : \E m \in 1..g[x] : q = <<x, m>>
    BY <1>2
  <2>2. PICK m \in 1..(f[x] * k) : q = <<x, m>>
    BY <2>1
  <2>3. f[x] \in Nat
    OBVIOUS
  <2>4. PICK i \in 1..f[x], j \in 1..k : m = (i - 1) * k + j
    BY <2>3, BlockExists
  <2> QED
    BY <1>6, <2>2, <2>4
<1>10. cut \in Bijection(D, G)
  BY <1>7, <1>8, <1>9 DEF Bijection, Injection, Surjection, IsInjective
<1>11. Cardinality(G) = Cardinality(D)
  BY <1>4, <1>10, FS_Bijection DEF ExistsBijection
<1> QED
  BY <1>4, <1>11 DEF Total, F, G

\* Shares of w pro rata to the holdings of f, rounded down, do not exceed w as long as
\* they are shares of at least the total of f.
LEMMA ProRata ==
  ASSUME NEW S, IsFiniteSet(S), NEW f \in [S -> Nat], NEW w \in Nat, NEW all \in Nat,
         all > 0, Total(f) <= all,
         NEW g \in [S -> Nat], \A x \in S : g[x] = (f[x] * w) \div all
  PROVE  Total(g) <= w
<1> DEFINE fw == [x \in S |-> f[x] * w]
           ga == [x \in S |-> g[x] * all]
<1>1. fw \in [S -> Nat] /\ ga \in [S -> Nat]
  OBVIOUS
<1>2. (\A x \in S : fw[x] = f[x] * w) /\ (\A x \in S : ga[x] = g[x] * all)
  OBVIOUS
<1> HIDE DEF fw, ga
<1>3. ASSUME NEW x \in S PROVE ga[x] <= fw[x]
  <2> DEFINE n == f[x] * w
             r == n % all
  <2>1. n \in Nat /\ g[x] \in Nat /\ g[x] = n \div all
    OBVIOUS
  <2> HIDE DEF n
  <2>2. r \in Nat /\ n = all * g[x] + r
    BY <2>1, Division
  <2> HIDE DEF r
  <2>3. all * g[x] = g[x] * all /\ all * g[x] \in Nat
    BY <2>1
  <2>4. g[x] * all <= n
    BY <2>1, <2>2, <2>3
  <2> QED
    BY <1>2, <2>4 DEF n
<1>4. Total(ga) <= Total(fw)
  BY <1>1, <1>3, TotalMonotone
<1>5. Total(ga) = Total(g) * all /\ Total(fw) = Total(f) * w
  BY <1>1, <1>2, TotalScale
<1>6. Total(g) \in Nat /\ Total(f) \in Nat
  BY TotalType
<1> DEFINE G == Total(g)
           F == Total(f)
<1>7. G \in Nat /\ F \in Nat /\ F <= all /\ G * all <= F * w
  BY <1>4, <1>5, <1>6
<1> HIDE DEF F, G
<1>8. F * w <= all * w
  BY <1>7
<1>9. G <= w
  <2> SUFFICES ASSUME G > w PROVE FALSE
    BY <1>7
  <2> DEFINE d == G - w - 1
  <2>1. d \in Nat /\ G = w + d + 1
    BY <1>7
  <2> HIDE DEF d
  <2>2. G * all = w * all + d * all + all /\ d * all \in Nat
    BY <2>1
  <2>3. w * all = all * w /\ w * all \in Nat
    OBVIOUS
  <2> QED
    BY <1>7, <1>8, <2>2, <2>3
<1> QED
  BY <1>9 DEF G

\* A ledger is worth the same over more owners if the others hold nothing.
LEMMA TotalOver ==
  ASSUME NEW B, IsFiniteSet(B), NEW A \in SUBSET B, NEW f \in [A -> Nat],
         NEW g \in [B -> Nat], \A x \in A : g[x] = f[x], \A x \in B \ A : g[x] = 0
  PROVE  Total(g) = Total(f) /\ Total(f) \in Nat
<1> DEFINE n == [x \in A |-> x]
<1>1. IsFiniteSet(A)
  BY FS_Subset
<1>2. n \in [A -> B] /\ (\A a, b \in A : n[a] = n[b] => a = b)
  OBVIOUS
<1>3. \A a \in A : g[n[a]] = f[a]
  OBVIOUS
<1>4. \A b \in B : (\A a \in A : n[a] # b) => g[b] = 0
  OBVIOUS
<1> HIDE DEF n
<1>5. Total(g) = Total(f)
  BY <1>1, <1>2, <1>3, <1>4, TotalRename
<1> QED
  BY <1>1, <1>5, TotalType

\* Part of a ledger is worth no more than the whole.
LEMMA TotalPart ==
  ASSUME NEW B, IsFiniteSet(B), NEW A \in SUBSET B, NEW g \in [B -> Nat],
         NEW f \in [A -> Nat], \A x \in A : f[x] = g[x]
  PROVE  Total(f) <= Total(g)
<1> DEFINE h == [x \in B |-> IF x \in A THEN f[x] ELSE 0]
<1>1. h \in [B -> Nat] /\ (\A x \in A : h[x] = f[x]) /\ (\A x \in B \ A : h[x] = 0)
  OBVIOUS
<1>2. \A x \in B : h[x] <= g[x]
  OBVIOUS
<1> HIDE DEF h
<1>3. Total(h) = Total(f)
  BY <1>1, TotalOver
<1> QED
  BY <1>1, <1>2, <1>3, TotalMonotone

\* One more owner adds what it holds.
LEMMA TotalJoin ==
  ASSUME NEW B, IsFiniteSet(B), NEW A \in SUBSET B, NEW x \in B \ A, NEW v \in [B -> Nat],
         NEW f \in [A -> Nat], \A y \in A : f[y] = v[y],
         NEW g \in [A \cup {x} -> Nat], \A y \in A \cup {x} : g[y] = v[y]
  PROVE  Total(g) = Total(f) + v[x] /\ Total(f) \in Nat
<1> DEFINE F == [y \in B |-> IF y \in A THEN v[y] ELSE 0]
           G == [y \in B |-> IF y \in A \cup {x} THEN v[y] ELSE 0]
<1>1. F \in [B -> Nat] /\ G \in [B -> Nat] /\ F[x] = 0 /\ G[x] = v[x]
      /\ \A y \in B \ {x} : G[y] = F[y]
  OBVIOUS
<1>2. /\ \A y \in A : F[y] = f[y]
      /\ \A y \in B \ A : F[y] = 0
      /\ \A y \in A \cup {x} : G[y] = g[y]
      /\ \A y \in B \ (A \cup {x}) : G[y] = 0
  OBVIOUS
<1> HIDE DEF F, G
<1>3. Total(F) = Total(f) /\ Total(f) \in Nat
  BY <1>1, <1>2, TotalOver
<1>4. A \cup {x} \in SUBSET B
  OBVIOUS
<1>5. Total(G) = Total(g) /\ Total(g) \in Nat
  BY <1>1, <1>2, <1>4, TotalOver
<1>6. Total(G) + F[x] = Total(F) + G[x]
  BY <1>1, TotalUpdate
<1> QED
  BY <1>1, <1>3, <1>5, <1>6

(***************************************************************************)
(* Folds and sequences                                                     *)
(***************************************************************************)

\* Max picks the largest of some numbers; without it the others are below it.
LEMMA LargestOf ==
  ASSUME NEW n \in Nat, NEW T, T \subseteq 1..n, T # {}
  PROVE  /\ Max(T) \in T /\ \A m \in T : m <= Max(T)
         /\ \A k \in Nat : T \subseteq 1..(k + 1) => T \ {Max(T)} \subseteq 1..k
<1>1. Max(T) \in T /\ \A y \in T : y <= Max(T)
  <2>1. PICK b \in T : \A y \in T : y <= b
    BY LargestNumber
  <2>2. \A x, y \in T : (x >= y) <=> (y <= x)
    OBVIOUS
  <2>3. Max(T) \in T /\ \A y \in T : Max(T) >= y
    BY <2>1, <2>2 DEF Max
  <2> QED
    BY <2>2, <2>3
<1>2. ASSUME NEW k \in Nat, T \subseteq 1..(k + 1), NEW m \in T, m # Max(T)
      PROVE  m \in 1..k
  <2>1. m \in 1..(k + 1) /\ Max(T) \in 1..(k + 1) /\ m <= Max(T)
    BY <1>1, <1>2
  <2> QED
    BY <1>2, <2>1
<1> QED
  BY <1>1, <1>2

\* The largest of the first numbers is the last of them.
LEMMA LargestOfFirst ==
  ASSUME NEW n \in Nat
  PROVE  Max(1..(n + 1)) = n + 1 /\ (1..(n + 1)) \ {n + 1} = 1..n /\ 1..(n + 1) # {}
<1> DEFINE S == 1..(n + 1)
<1>1. S \subseteq 1..(n + 1) /\ S # {} /\ n + 1 \in Nat /\ n + 1 \in S /\ \A m \in S : m <= n + 1 /\ m \in Nat
  OBVIOUS
<1>2. (1..(n + 1)) \ {n + 1} = 1..n
  OBVIOUS
<1> HIDE DEF S
<1>3. Max(S) \in S /\ \A m \in S : m <= Max(S)
  BY <1>1, LargestOf DEF S
<1>4. ASSUME NEW m \in Nat, m <= n + 1, n + 1 <= m PROVE m = n + 1
  BY <1>4
<1>5. Max(S) = n + 1
  BY <1>1, <1>3, <1>4
<1> QED
  BY <1>1, <1>2, <1>5 DEF S

\* What FoldLeft recurses along: its value on every set of indexes of s.
IsFold(h, Op(_, _), base, s, n) ==
    h = [T \in SUBSET (1..n) |-> IF T = {} THEN base ELSE Op(h[T \ {Max(T)}], s[Max(T)])]

\* SetToSeq names every member of a finite set.
LEMMA SetToSeqCovers ==
  ASSUME NEW S, IsFiniteSet(S), NEW s, s = SetToSeq(S)
  PROVE  /\ s \in Seq(S) /\ Len(s) = Cardinality(S)
         /\ \A x \in S : \E i \in 1..Len(s) : s[i] = x
         /\ \A i, j \in 1..Len(s) : s[i] = s[j] => i = j
<1> DEFINE n == Cardinality(S)
<1>1. n \in Nat /\ \E f \in [1..n -> S] : IsInjective(f)
  BY FS_CardinalityType DEF ExistsBijection, Bijection, Injection
<1>2. s \in [1..n -> S] /\ IsInjective(s)
  BY <1>1 DEF SetToSeq
<1>3. IsFiniteSet(1..n) /\ Cardinality(1..n) = n
  BY <1>1, FS_Interval
<1> HIDE DEF n
<1>4. s \in Injection(1..n, S)
  BY <1>2 DEF Injection
<1>5. s \in Surjection(1..n, S)
  BY <1>3, <1>4, FS_Injection DEF n
<1>6. s \in Seq(S) /\ Len(s) = n
  BY <1>1, <1>2
<1> QED
  BY <1>1, <1>2, <1>5, <1>6 DEF Surjection, IsInjective, n

\* Two sequences joined have the elements of both.
LEMMA ElemsJoin ==
  ASSUME NEW S, NEW p \in Seq(S), NEW q \in Seq(S)
  PROVE  p \o q \in Seq(S) /\ ToSet(p \o q) = ToSet(p) \cup ToSet(q)
<1>1. /\ p \o q \in Seq(S) /\ Len(p \o q) = Len(p) + Len(q)
      /\ \A i \in 1..Len(p) : (p \o q)[i] = p[i]
      /\ \A i \in 1..Len(q) : (p \o q)[Len(p) + i] = q[i]
  OBVIOUS
<1>2. Len(p) \in Nat /\ Len(q) \in Nat
  OBVIOUS
<1>3. \A i \in 1..Len(p \o q) : (p \o q)[i] \in ToSet(p) \cup ToSet(q)
  <2> SUFFICES ASSUME NEW i \in 1..Len(p \o q)
               PROVE  (p \o q)[i] \in ToSet(p) \cup ToSet(q)
    OBVIOUS
  <2>1. CASE i \in 1..Len(p)
    BY <1>1, <2>1 DEF ToSet
  <2>2. CASE i \notin 1..Len(p)
    <3>1. i - Len(p) \in 1..Len(q) /\ Len(p) + (i - Len(p)) = i
      BY <1>1, <1>2, <2>2
    <3>2. (p \o q)[i] = q[i - Len(p)]
      BY <1>1, <3>1
    <3> QED
      BY <3>1, <3>2 DEF ToSet
  <2> QED
    BY <2>1, <2>2
<1>4. ToSet(p) \subseteq ToSet(p \o q)
  BY <1>1, <1>2 DEF ToSet
<1>5. ToSet(q) \subseteq ToSet(p \o q)
  <2> SUFFICES ASSUME NEW i \in 1..Len(q) PROVE q[i] \in ToSet(p \o q)
    BY DEF ToSet
  <2>1. Len(p) + i \in 1..Len(p \o q) /\ (p \o q)[Len(p) + i] = q[i]
    BY <1>1, <1>2
  <2> QED
    BY <2>1 DEF ToSet
<1>6. ToSet(p \o q) \subseteq ToSet(p) \cup ToSet(q)
  BY <1>1, <1>3 DEF ToSet
<1> QED
  BY <1>1, <1>4, <1>5, <1>6
================================================================================

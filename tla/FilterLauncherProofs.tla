------------------------- MODULE FilterLauncherProofs -------------------------
(***************************************************************************)
(* The launcher, its escrow and its stake admin keep their types and their *)
(* ether, agree on the outcome of every season, keep counters, slots,      *)
(* queue, tokens and stake records one set of books, and do to a deposit   *)
(* what DepositFates promises: for every finite set of seasons, creators   *)
(* and tickers, every threshold and every cost.                            *)
(***************************************************************************)
EXTENDS FilterLauncher, WeiProofs

(***************************************************************************)
(* The escrow. The lemmas are about storage values, so that they serve     *)
(* transactions that call it several times as well.                        *)
(***************************************************************************)

\* A storage the contract can be in.
EscrowOK(e) == e \in EscrowState /\ CoversDebts(e) /\ AllOrNothing(e)

LEMMA DepositsFinite == IsFiniteSet(Deposits)
  BY EscrowConstants, FS_Product DEF Deposits

\* What live deposits and credits add up to are numbers.
LEMMA DebtsType ==
  ASSUME NEW e \in EscrowState
  PROVE  /\ LiveAmounts(e) \in [Deposits -> Nat] /\ Total(LiveAmounts(e)) \in Nat
         /\ e.pendingRefunds \in [Deposits -> Nat] /\ Total(e.pendingRefunds) \in Nat
<1>1. LiveAmounts(e) \in [Deposits -> Nat] /\ e.pendingRefunds \in [Deposits -> Nat]
  BY DEF LiveAmounts, EscrowState, Reservation
<1> QED
  BY <1>1, DepositsFinite, TotalType

\* What is paid to a set C of creators of one season is worth the same as a
\* ledger over all deposits.
LEMMA PaymentTotal ==
  ASSUME NEW e \in EscrowState, NEW s \in Seasons, NEW C \in SUBSET Creators,
         NEW paid \in [Deposits -> Nat],
         \A d \in Deposits : paid[d] = IF d \in {s} \X C THEN e.escrows[d].amount ELSE 0
  PROVE  Total([c \in C |-> e.escrows[<<s, c>>].amount]) = Total(paid)
<1> DEFINE f == [c \in C |-> e.escrows[<<s, c>>].amount]
           n == [c \in C |-> <<s, c>>]
<1>1. IsFiniteSet(C)
  BY EscrowConstants, FS_Subset
<1>2. f \in [C -> Nat]
  BY DEF EscrowState, Reservation, Deposits
<1>3. n \in [C -> Deposits] /\ (\A a, b \in C : n[a] = n[b] => a = b)
  BY DEF Deposits
<1>4. \A a \in C : paid[n[a]] = f[a]
  BY <1>3
<1>5. \A d \in Deposits : (\A a \in C : n[a] # d) => paid[d] = 0
  BY DEF Deposits
<1> HIDE DEF f, n
<1>6. Total(paid) = Total(f)
  BY <1>1, <1>2, <1>3, <1>4, <1>5, TotalRename
<1> QED
  BY <1>6 DEF f

\* Marking sets flags and nothing else.
LEMMA MarkedFields ==
  ASSUME NEW e \in EscrowState, NEW R, NEW F, NEW d \in Deposits
  PROVE  LET r == e.escrows[d]  n == Marked(e, R, F)[d] IN
         /\ n \in Reservation
         /\ n.reserved = r.reserved /\ n.amount = r.amount /\ n.slotIndex = r.slotIndex
         /\ n.released <=> (r.released \/ d \in R)
         /\ n.refunded <=> (r.refunded \/ d \in F)
<1> DEFINE r == e.escrows[d]
           n == Marked(e, R, F)[d]
<1>1. r \in Reservation
  BY DEF EscrowState
<1>2. r.reserved \in BOOLEAN /\ r.amount \in Nat /\ r.slotIndex \in Nat
  BY <1>1 DEF Reservation
<1>3. n = [reserved |-> r.reserved, amount |-> r.amount, slotIndex |-> r.slotIndex,
           released |-> r.released \/ d \in R, refunded |-> r.refunded \/ d \in F]
  BY Zenon DEF Marked
<1> HIDE DEF r, n
<1>4. /\ n.reserved = r.reserved /\ n.amount = r.amount /\ n.slotIndex = r.slotIndex
      /\ n.released = (r.released \/ d \in R) /\ n.refunded = (r.refunded \/ d \in F)
  BY <1>3, Zenon
<1>5. n \in Reservation
  BY <1>2, <1>3 DEF Reservation
<1> QED
  BY <1>4, <1>5, Zenon DEF r, n

\* reserve: the deposit adds its value to the live reservations.
LEMMA ReservedOK ==
  ASSUME NEW e, EscrowOK(e), NEW s \in Seasons, NEW c \in Creators,
         NEW slot \in Nat, NEW value \in Nat, CanReserve(e, s, c)
  PROVE  EscrowOK(Reserved(e, s, c, slot, value))
<1> DEFINE n == Reserved(e, s, c, slot, value)
           new == [reserved |-> TRUE, amount |-> value, slotIndex |-> slot,
                   released |-> FALSE, refunded |-> FALSE]
<1>0. e \in EscrowState /\ <<s, c>> \in Deposits
  BY DEF EscrowOK, Deposits
<1>1. /\ n.escrows = [e.escrows EXCEPT ![<<s, c>>] = new]
      /\ n.balance = e.balance + value
      /\ n.aborted = e.aborted /\ n.activated = e.activated
      /\ n.pendingRefunds = e.pendingRefunds
  BY <1>0 DEF Reserved, EscrowState
<1>2. n \in EscrowState
  BY <1>0 DEF Reserved, EscrowState, Reservation
<1>3. CoversDebts(n)
  <2> DEFINE A == LiveAmounts(e)
             B == LiveAmounts(n)
  <2>1. A[<<s, c>>] = 0 /\ B[<<s, c>>] = value
    BY <1>0, <1>1 DEF CanReserve, LiveAmounts, Live, EscrowState
  <2>2. \A d \in Deposits \ {<<s, c>>} : B[d] = A[d]
    BY <1>0, <1>1 DEF LiveAmounts, EscrowState
  <2>3. A \in [Deposits -> Nat] /\ B \in [Deposits -> Nat] /\ Total(A) \in Nat /\ Total(B) \in Nat
    BY <1>0, <1>2, DebtsType
  <2> HIDE DEF A, B
  <2>4. Total(B) + A[<<s, c>>] = Total(A) + B[<<s, c>>]
    BY <1>0, <2>2, <2>3, DepositsFinite, TotalUpdate
  <2>5. Total(B) = Total(A) + value
    BY <2>1, <2>3, <2>4
  <2>6. e.balance = Total(A) + Total(e.pendingRefunds) /\ Total(e.pendingRefunds) \in Nat
    BY <1>0, DebtsType DEF EscrowOK, CoversDebts, A
  <2> HIDE DEF n
  <2>7. n.balance = Total(B) + Total(n.pendingRefunds)
    BY <1>1, <2>3, <2>5, <2>6
  <2> QED
    BY <2>7 DEF CoversDebts, B
<1>4. AllOrNothing(n)
  BY <1>0, <1>1 DEF AllOrNothing, EscrowOK, CanReserve, Live, EscrowState, Reservation, Deposits
<1> QED
  BY <1>2, <1>3, <1>4 DEF EscrowOK

\* releaseToDeploy: what the creators paid in leaves with their reservations.
LEMMA ReleasedOK ==
  ASSUME NEW e, EscrowOK(e), NEW s \in Seasons, NEW C \in SUBSET Creators,
         CanRelease(e, s, C), s \notin e.aborted
  PROVE  EscrowOK(Released(e, s, C)) /\ AmountOf(e, s, C) \in Nat
<1> DEFINE n == Released(e, s, C)
           paid == [d \in Deposits |-> IF d \in {s} \X C THEN e.escrows[d].amount ELSE 0]
           A == LiveAmounts(e)
           B == LiveAmounts(n)
<1>0. e \in EscrowState
  BY DEF EscrowOK
<1>1. /\ n.escrows = Marked(e, {s} \X C, {})
      /\ n.balance = e.balance - AmountOf(e, s, C)
      /\ n.aborted = e.aborted /\ n.activated = e.activated \cup {s}
      /\ n.pendingRefunds = e.pendingRefunds
  BY DEF Released
<1>2. \A d \in Deposits :
        /\ n.escrows[d] \in Reservation
        /\ n.escrows[d].reserved <=> e.escrows[d].reserved
        /\ n.escrows[d].amount = e.escrows[d].amount
        /\ n.escrows[d].refunded <=> e.escrows[d].refunded
        /\ n.escrows[d].released <=> (e.escrows[d].released \/ d \in {s} \X C)
  BY <1>0, <1>1, MarkedFields
<1>3. paid \in [Deposits -> Nat]
  BY <1>0 DEF EscrowState, Reservation
<1>4. A \in [Deposits -> Nat] /\ Total(A) \in Nat /\ Total(e.pendingRefunds) \in Nat
  BY <1>0, DebtsType
<1>5. B \in [Deposits -> Nat]
  BY <1>2 DEF LiveAmounts, Reservation
<1>6. \A d \in Deposits : A[d] = B[d] + paid[d]
  <2> SUFFICES ASSUME NEW d \in Deposits PROVE A[d] = B[d] + paid[d]
    OBVIOUS
  <2>1. e.escrows[d] \in Reservation
    BY <1>0 DEF EscrowState
  <2>2. CASE d \in {s} \X C
    <3>1. Live(e.escrows[d])
      BY <2>2 DEF CanRelease
    <3>2. ~Live(n.escrows[d])
      BY <2>2, <1>2 DEF Live
    <3> HIDE DEF n
    <3> QED
      BY <2>1, <2>2, <3>1, <3>2 DEF LiveAmounts, Reservation
  <2>3. CASE d \notin {s} \X C
    <3>1. Live(e.escrows[d]) <=> Live(n.escrows[d])
      BY <2>1, <2>3, <1>2 DEF Live, Reservation
    <3> HIDE DEF n
    <3> QED
      BY <2>1, <2>3, <3>1, <1>2 DEF LiveAmounts, Reservation
  <2> QED
    BY <2>2, <2>3
<1>7. AmountOf(e, s, C) = Total(paid)
  <2>1. \A d \in Deposits : paid[d] = IF d \in {s} \X C THEN e.escrows[d].amount ELSE 0
    OBVIOUS
  <2> HIDE DEF paid
  <2> QED
    BY <1>0, <1>3, <2>1, PaymentTotal DEF AmountOf
<1>8. AllOrNothing(n)
  <2> HIDE DEF n
  <2>1. AllOrNothing(e)
    BY DEF EscrowOK
  <2>2. n.activated \cap n.aborted = {}
    BY <1>1, <2>1 DEF AllOrNothing
  <2>3. ASSUME NEW r \in Seasons, NEW c \in Creators
        PROVE  /\ n.escrows[<<r, c>>].released => n.escrows[<<r, c>>].reserved /\ r \in n.activated
               /\ n.escrows[<<r, c>>].refunded => n.escrows[<<r, c>>].reserved /\ r \in n.aborted
               /\ n.pendingRefunds[<<r, c>>] # 0 =>
                    /\ n.escrows[<<r, c>>].refunded
                    /\ n.pendingRefunds[<<r, c>>] = n.escrows[<<r, c>>].amount
               /\ r \in n.aborted => ~Live(n.escrows[<<r, c>>])
    <3>1. <<r, c>> \in Deposits
      BY DEF Deposits
    <3>2. <<r, c>> \in {s} \X C => r = s /\ Live(e.escrows[<<r, c>>])
      BY DEF CanRelease
    <3>3. /\ e.escrows[<<r, c>>].released => e.escrows[<<r, c>>].reserved /\ r \in e.activated
          /\ e.escrows[<<r, c>>].refunded => e.escrows[<<r, c>>].reserved /\ r \in e.aborted
          /\ e.pendingRefunds[<<r, c>>] # 0 =>
                /\ e.escrows[<<r, c>>].refunded
                /\ e.pendingRefunds[<<r, c>>] = e.escrows[<<r, c>>].amount
          /\ r \in e.aborted => ~Live(e.escrows[<<r, c>>])
      BY <2>1 DEF AllOrNothing
    <3> QED
      BY <1>1, <1>2, <3>1, <3>2, <3>3 DEF Live
  <2> QED
    BY <2>2, <2>3 DEF AllOrNothing
<1> HIDE DEF A, B, paid
<1>9. Total(A) = Total(B) + Total(paid)
  BY <1>3, <1>4, <1>5, <1>6, DepositsFinite, TotalAdd
<1>10. Total(B) \in Nat /\ Total(paid) \in Nat
  BY <1>3, <1>5, DepositsFinite, TotalType
<1>11. e.balance = Total(A) + Total(e.pendingRefunds)
  BY DEF EscrowOK, CoversDebts, A
<1> HIDE DEF n
<1>12. n.balance = Total(B) + Total(n.pendingRefunds) /\ n.balance \in Nat
  BY <1>1, <1>4, <1>7, <1>9, <1>10, <1>11
<1>13. n \in EscrowState
  <2>1. /\ n.escrows \in [Deposits -> Reservation]
        /\ n.aborted \in SUBSET Seasons /\ n.activated \in SUBSET Seasons
        /\ n.pendingRefunds \in [Deposits -> Nat]
    BY <1>0, <1>1, <1>2 DEF Marked, EscrowState
  <2> QED
    BY <2>1, <1>12 DEF n, Released, EscrowState
<1> QED
  BY <1>7, <1>8, <1>10, <1>12, <1>13 DEF EscrowOK, CoversDebts, n, B

\* refundAll: every live reservation becomes a payment or a credit.
LEMMA RefundedAllOK ==
  ASSUME NEW e, EscrowOK(e), NEW s \in Seasons, NEW rejecting \in SUBSET Creators,
         CanRefundAll(e, s)
  PROVE  EscrowOK(RefundedAll(e, s, rejecting))
<1> DEFINE n == RefundedAll(e, s, rejecting)
           L == {s} \X LiveCreators(e, s)
           O == {s} \X Owed(e, s, rejecting)
           P == {s} \X Pushed(e, s, rejecting)
           paid == [d \in Deposits |-> IF d \in P THEN e.escrows[d].amount ELSE 0]
           owed == [d \in Deposits |-> IF d \in O THEN e.escrows[d].amount ELSE 0]
           gone == [d \in Deposits |-> IF d \in L THEN e.escrows[d].amount ELSE 0]
           A == LiveAmounts(e)
           B == LiveAmounts(n)
<1>0. e \in EscrowState /\ AllOrNothing(e)
  BY DEF EscrowOK
<1>1. /\ n.escrows = Marked(e, {}, L)
      /\ n.balance = e.balance - AmountOf(e, s, Pushed(e, s, rejecting))
      /\ n.aborted = e.aborted \cup {s} /\ n.activated = e.activated
      /\ n.pendingRefunds = [d \in Deposits |-> IF d \in O THEN e.escrows[d].amount
                                                ELSE e.pendingRefunds[d]]
  BY DEF RefundedAll
<1>2. \A d \in Deposits :
        /\ n.escrows[d] \in Reservation
        /\ n.escrows[d].reserved <=> e.escrows[d].reserved
        /\ n.escrows[d].amount = e.escrows[d].amount
        /\ n.escrows[d].released <=> e.escrows[d].released
        /\ n.escrows[d].refunded <=> (e.escrows[d].refunded \/ d \in L)
  BY <1>0, <1>1, MarkedFields
<1>3. L = O \cup P /\ O \cap P = {} /\ L \subseteq Deposits /\ Pushed(e, s, rejecting) \in SUBSET Creators
  BY DEF Owed, Pushed, LiveCreators, Deposits
<1>4. /\ \A d \in L : Live(e.escrows[d])
      /\ \A d \in Deposits : d[1] = s /\ Live(e.escrows[d]) => d \in L
  BY DEF LiveCreators, Deposits
<1>5. \A d \in Deposits : e.escrows[d].amount \in Nat /\ e.pendingRefunds[d] \in Nat
  BY <1>0 DEF EscrowState, Reservation
<1>6. paid \in [Deposits -> Nat] /\ owed \in [Deposits -> Nat] /\ gone \in [Deposits -> Nat]
  BY <1>5
<1>7. A \in [Deposits -> Nat] /\ Total(A) \in Nat /\ Total(e.pendingRefunds) \in Nat
      /\ e.pendingRefunds \in [Deposits -> Nat]
  BY <1>0, DebtsType
<1>8. B \in [Deposits -> Nat] /\ n.pendingRefunds \in [Deposits -> Nat]
  BY <1>1, <1>2, <1>5 DEF LiveAmounts, Reservation
<1>9. \A d \in Deposits : gone[d] = paid[d] + owed[d]
  BY <1>3, <1>5
<1>10. \A d \in Deposits : A[d] = B[d] + gone[d]
  <2> SUFFICES ASSUME NEW d \in Deposits PROVE A[d] = B[d] + gone[d]
    OBVIOUS
  <2>1. Live(n.escrows[d]) <=> Live(e.escrows[d]) /\ d \notin L
    BY <1>2 DEF Live
  <2> HIDE DEF n, L
  <2> QED
    BY <1>2, <1>4, <1>5, <2>1 DEF LiveAmounts
<1>11. \A d \in Deposits : n.pendingRefunds[d] = e.pendingRefunds[d] + owed[d]
  <2> SUFFICES ASSUME NEW d \in Deposits
               PROVE  n.pendingRefunds[d] = e.pendingRefunds[d] + owed[d]
    OBVIOUS
  <2>1. d \in O => e.pendingRefunds[d] = 0
    BY <1>0, <1>3, <1>4 DEF AllOrNothing, Live, Deposits
  <2> HIDE DEF n, O
  <2> QED
    BY <1>1, <1>5, <2>1
<1>12. AmountOf(e, s, Pushed(e, s, rejecting)) = Total(paid)
  <2>1. \A d \in Deposits : paid[d] = IF d \in P THEN e.escrows[d].amount ELSE 0
    OBVIOUS
  <2> HIDE DEF paid
  <2> QED
    BY <1>0, <1>3, <1>6, <2>1, PaymentTotal DEF AmountOf
<1>13. AllOrNothing(n)
  <2> HIDE DEF n
  <2>1. n.activated \cap n.aborted = {}
    BY <1>0, <1>1 DEF AllOrNothing, CanRefundAll
  <2>2. ASSUME NEW r \in Seasons, NEW c \in Creators
        PROVE  /\ n.escrows[<<r, c>>].released => n.escrows[<<r, c>>].reserved /\ r \in n.activated
               /\ n.escrows[<<r, c>>].refunded => n.escrows[<<r, c>>].reserved /\ r \in n.aborted
               /\ n.pendingRefunds[<<r, c>>] # 0 =>
                    /\ n.escrows[<<r, c>>].refunded
                    /\ n.pendingRefunds[<<r, c>>] = n.escrows[<<r, c>>].amount
               /\ r \in n.aborted => ~Live(n.escrows[<<r, c>>])
    <3>1. <<r, c>> \in Deposits
      BY DEF Deposits
    <3>2. <<r, c>> \in L <=> r = s /\ Live(e.escrows[<<r, c>>])
      BY DEF LiveCreators
    <3>3. /\ e.escrows[<<r, c>>].released => e.escrows[<<r, c>>].reserved /\ r \in e.activated
          /\ e.escrows[<<r, c>>].refunded => e.escrows[<<r, c>>].reserved /\ r \in e.aborted
          /\ e.pendingRefunds[<<r, c>>] # 0 =>
                /\ e.escrows[<<r, c>>].refunded
                /\ e.pendingRefunds[<<r, c>>] = e.escrows[<<r, c>>].amount
          /\ r \in e.aborted => ~Live(e.escrows[<<r, c>>])
      BY <1>0 DEF AllOrNothing
    <3>4. n.pendingRefunds[<<r, c>>] =
            IF <<r, c>> \in O THEN e.escrows[<<r, c>>].amount ELSE e.pendingRefunds[<<r, c>>]
      BY <1>1, <3>1
    <3> HIDE DEF L, O
    <3> QED
      BY <1>1, <1>2, <1>3, <3>1, <3>2, <3>3, <3>4 DEF Live
  <2> QED
    BY <2>1, <2>2 DEF AllOrNothing
<1> HIDE DEF A, B, paid, owed, gone, L, O, P
<1>14. Total(A) = Total(B) + Total(gone)
  BY <1>6, <1>7, <1>8, <1>10, DepositsFinite, TotalAdd
<1>15. Total(gone) = Total(paid) + Total(owed)
  BY <1>6, <1>9, DepositsFinite, TotalAdd
<1> HIDE DEF n
<1>16. Total(n.pendingRefunds) = Total(e.pendingRefunds) + Total(owed)
  BY <1>6, <1>7, <1>8, <1>11, DepositsFinite, TotalAdd
<1>17. Total(B) \in Nat /\ Total(paid) \in Nat /\ Total(owed) \in Nat
  BY <1>6, <1>8, DepositsFinite, TotalType
<1>18. e.balance = Total(A) + Total(e.pendingRefunds)
  BY DEF EscrowOK, CoversDebts, A
<1>19. n.balance = Total(B) + Total(n.pendingRefunds) /\ n.balance \in Nat
  BY <1>1, <1>7, <1>12, <1>14, <1>15, <1>16, <1>17, <1>18
<1>20. n \in EscrowState
  <2>1. n.escrows \in [Deposits -> Reservation]
    BY <1>1, <1>2 DEF Marked
  <2>2. n.aborted \in SUBSET Seasons /\ n.activated \in SUBSET Seasons
    BY <1>0, <1>1 DEF EscrowState
  <2> QED
    BY <2>1, <2>2, <1>8, <1>19 DEF n, RefundedAll, EscrowState
<1> QED
  BY <1>13, <1>19, <1>20 DEF EscrowOK, CoversDebts, n, B

\* claimPendingRefund: the credit leaves the contract and the books.
LEMMA ClaimedOK ==
  ASSUME NEW e, EscrowOK(e), NEW s \in Seasons, NEW c \in Creators,
         CanClaimPendingRefund(e, s, c)
  PROVE  EscrowOK(PendingRefundClaimed(e, s, c))
<1> DEFINE n == PendingRefundClaimed(e, s, c)
           A == LiveAmounts(e)
           p == e.pendingRefunds
           q == n.pendingRefunds
<1>0. e \in EscrowState /\ AllOrNothing(e) /\ <<s, c>> \in Deposits
  BY DEF EscrowOK, Deposits
<1>1. /\ n.escrows = e.escrows /\ n.aborted = e.aborted /\ n.activated = e.activated
      /\ q = [p EXCEPT ![<<s, c>>] = 0]
      /\ n.balance = e.balance - p[<<s, c>>]
  BY DEF PendingRefundClaimed
<1>2. p \in [Deposits -> Nat] /\ Total(A) \in Nat /\ Total(p) \in Nat
  BY <1>0, DebtsType
<1>3. q \in [Deposits -> Nat] /\ q[<<s, c>>] = 0 /\ \A d \in Deposits \ {<<s, c>>} : q[d] = p[d]
  BY <1>0, <1>1, <1>2
<1>4. LiveAmounts(n) = A
  BY <1>1 DEF LiveAmounts
<1>5. e.balance = Total(A) + Total(p)
  BY DEF EscrowOK, CoversDebts
<1> HIDE DEF A, p, q
<1>6. Total(q) + p[<<s, c>>] = Total(p) + q[<<s, c>>]
  BY <1>0, <1>2, <1>3, DepositsFinite, TotalUpdate
<1>7. Total(q) \in Nat /\ p[<<s, c>>] \in Nat
  BY <1>0, <1>2, <1>3, DepositsFinite, TotalType
<1> HIDE DEF n
<1>8. n.balance = Total(A) + Total(q) /\ n.balance \in Nat
  BY <1>1, <1>2, <1>3, <1>5, <1>6, <1>7
<1>9. AllOrNothing(n)
  BY <1>0, <1>1, <1>3 DEF AllOrNothing, Deposits, p, q
<1>10. n \in EscrowState
  <2>1. /\ n.escrows \in [Deposits -> Reservation]
        /\ n.aborted \in SUBSET Seasons /\ n.activated \in SUBSET Seasons
    BY <1>0, <1>1 DEF EscrowState
  <2> QED
    BY <2>1, <1>3, <1>8 DEF n, q, PendingRefundClaimed, EscrowState
<1> QED
  <2>1. n.balance = Total(LiveAmounts(n)) + Total(n.pendingRefunds)
    BY <1>4, <1>8 DEF q
  <2> QED
    BY <2>1, <1>9, <1>10 DEF EscrowOK, CoversDebts, n

LEMMA EmptyOK == EscrowOK(EmptyEscrow)
<1> DEFINE A == LiveAmounts(EmptyEscrow)
           p == EmptyEscrow.pendingRefunds
<1>1. EmptyEscrow \in EscrowState /\ AllOrNothing(EmptyEscrow)
  <2>1. NoReservation \in Reservation /\ ~NoReservation.reserved /\ ~NoReservation.released
        /\ ~NoReservation.refunded /\ ~Live(NoReservation)
    BY DEF NoReservation, Reservation, Live
  <2>2. /\ EmptyEscrow.aborted = {} /\ EmptyEscrow.activated = {}
        /\ \A d \in Deposits : EmptyEscrow.escrows[d] = NoReservation
        /\ \A d \in Deposits : EmptyEscrow.pendingRefunds[d] = 0
    BY DEF EmptyEscrow
  <2>3. AllOrNothing(EmptyEscrow)
    BY <2>1, <2>2 DEF AllOrNothing, Deposits
  <2>4. EmptyEscrow \in EscrowState
    BY <2>1 DEF EmptyEscrow, EscrowState
  <2> QED
    BY <2>3, <2>4
<1>2. A \in [Deposits -> Nat] /\ p \in [Deposits -> Nat]
  BY <1>1, DebtsType
<1>3. (\A d \in Deposits : A[d] = 0) /\ (\A d \in Deposits : p[d] = 0)
  BY DEF EmptyEscrow, NoReservation, LiveAmounts, Live
<1>4. EmptyEscrow.balance = 0
  BY DEF EmptyEscrow
<1> HIDE DEF A, p
<1>5. Total(A) = 0 /\ Total(p) = 0
  BY <1>2, <1>3, TotalZero
<1> QED
  BY <1>1, <1>4, <1>5 DEF EscrowOK, CoversDebts, A, p

(***************************************************************************)
(* The contract on its own                                                 *)
(***************************************************************************)

\* Every call of any caller in any order leaves a good storage.
LEMMA EscrowStep ==
  ASSUME EscrowOK(escrow), [EscrowNext]_escrow
  PROVE  EscrowOK(escrow')
<1>1. ASSUME NEW s \in Seasons, NEW c \in Creators, NEW slot \in Nat, NEW value \in Nat,
             EscrowReserve(s, c, slot, value)
      PROVE  EscrowOK(escrow')
  BY <1>1, ReservedOK DEF EscrowReserve
<1>2. ASSUME NEW s \in Seasons, NEW c \in Creators, EscrowRelease(s, c)
      PROVE  EscrowOK(escrow')
  <2>1. CanRelease(escrow, s, {c}) /\ escrow' = Released(escrow, s, {c})
    BY <1>2 DEF EscrowRelease
  <2>2. s \notin escrow.aborted /\ {c} \in SUBSET Creators
    BY <2>1 DEF CanRelease
  <2> QED
    BY <2>1, <2>2, ReleasedOK
<1>3. ASSUME NEW s \in Seasons, NEW rejecting \in SUBSET Creators, EscrowRefundAll(s, rejecting)
      PROVE  EscrowOK(escrow')
  BY <1>3, RefundedAllOK DEF EscrowRefundAll
<1>4. ASSUME NEW s \in Seasons, NEW c \in Creators, EscrowClaim(s, c)
      PROVE  EscrowOK(escrow')
  BY <1>4, ClaimedOK DEF EscrowClaim
<1>5. CASE UNCHANGED escrow
  BY <1>5
<1> QED
  BY <1>1, <1>2, <1>3, <1>4, <1>5 DEF EscrowNext

\* The escrow on its own keeps its types, covers its debts to the wei and
\* settles each season as a whole, whatever order reserve, releaseToDeploy,
\* refundAll and claimPendingRefund are called in.
THEOREM EscrowSafe == EscrowSpec => [](EscrowTypeOK /\ Custody /\ SeasonAllOrNothing)
<1>1. EscrowInit => EscrowOK(escrow)
  BY EmptyOK DEF EscrowInit
<1>2. EscrowOK(escrow) /\ [EscrowNext]_escrow => EscrowOK(escrow)'
  BY EscrowStep
<1>3. EscrowOK(escrow) => EscrowTypeOK /\ Custody /\ SeasonAllOrNothing
  BY DEF EscrowOK, EscrowTypeOK, Custody, SeasonAllOrNothing
<1> QED
  BY <1>1, <1>2, <1>3, PTL DEF EscrowSpec

(***************************************************************************)
(* The stake admin                                                         *)
(***************************************************************************)

LEMMA TokensFinite == IsFiniteSet(Tokens)
<1> DEFINE Triples == Seasons \X (Tickers \X (Creators \cup {Owner}))
           f == [x \in Triples |-> [season |-> x[1], ticker |-> x[2][1], creator |-> x[2][2]]]
<1>1. IsFiniteSet(Creators \cup {Owner})
  BY EscrowConstants, FS_AddElement
<1>2. IsFiniteSet(Triples)
  BY <1>1, EscrowConstants, TokenConstants, FS_Product
<1>3. f \in Surjection(Triples, Tokens)
  <2>1. f \in [Triples -> Tokens]
    BY DEF Tokens
  <2>2. ASSUME NEW t \in Tokens PROVE \E x \in Triples : f[x] = t
    <3> DEFINE x == <<t.season, <<t.ticker, t.creator>>>>
    <3>1. x \in Triples /\ t = [season |-> x[1], ticker |-> x[2][1], creator |-> x[2][2]]
      BY DEF Tokens
    <3> QED
      BY <3>1
  <2> QED
    BY <2>1, <2>2 DEF Surjection
<1> QED
  BY <1>2, <1>3, FS_Surjection

LEMMA StakesType ==
  ASSUME NEW k \in StakeState
  PROVE  StakeAmounts(k) \in [Tokens -> Nat] /\ Total(StakeAmounts(k)) \in Nat
<1>1. StakeAmounts(k) \in [Tokens -> Nat]
  BY DEF StakeAmounts, StakeState, LaunchInfo
<1> QED
  BY <1>1, TokensFinite, TotalType

\* A ledger over some tokens is worth the same over all of them.
LEMMA SubLedger ==
  ASSUME NEW D \in SUBSET Tokens, NEW f \in [D -> Nat], NEW g \in [Tokens -> Nat],
         \A t \in D : g[t] = f[t], \A t \in Tokens \ D : g[t] = 0
  PROVE  Total(g) = Total(f) /\ Total(f) \in Nat
<1> DEFINE n == [t \in D |-> t]
<1>1. IsFiniteSet(D)
  BY TokensFinite, FS_Subset
<1>2. n \in [D -> Tokens] /\ (\A a, b \in D : n[a] = n[b] => a = b)
  OBVIOUS
<1>3. \A a \in D : g[n[a]] = f[a]
  OBVIOUS
<1>4. \A b \in Tokens : (\A a \in D : n[a] # b) => g[b] = 0
  OBVIOUS
<1> HIDE DEF n
<1>5. Total(g) = Total(f)
  BY <1>1, <1>2, <1>3, <1>4, TotalRename
<1> QED
  BY <1>1, <1>5, TotalType

\* recordLaunch: the costs of tokens without a stake become their stakes.
LEMMA RecordedOK ==
  ASSUME NEW k \in StakeState, CoversStakes(k), NEW D \in SUBSET Tokens,
         NEW cost \in [D -> Nat], NEW slotOf \in [D -> Nat], NEW mode,
         \A t \in D : k.launchInfo[t].stakeAmount = 0,
         NEW n, n = LaunchesRecorded(k, cost, slotOf, mode)
  PROVE  /\ n \in StakeState /\ CoversStakes(n) /\ Total(cost) \in Nat
         /\ \A t \in Tokens \ D : n.launchInfo[t] = k.launchInfo[t]
<1> DEFINE A == StakeAmounts(k)
           B == StakeAmounts(n)
           new == [t \in Tokens |-> IF t \in D THEN cost[t] ELSE 0]
<1>1. /\ \A t \in Tokens \ D : n.launchInfo[t] = k.launchInfo[t]
      /\ n.balance = k.balance + (IF mode THEN Total(cost) ELSE 0)
  BY DEF LaunchesRecorded
<1>2. k.launchInfo \in [Tokens -> LaunchInfo] /\ k.balance \in Nat
  BY DEF StakeState
<1>3. ASSUME NEW t \in D
      PROVE  /\ n.launchInfo[t] \in LaunchInfo
             /\ n.launchInfo[t].stakeAmount = IF mode THEN cost[t] ELSE 0
  <2> DEFINE info == n.launchInfo[t]
  <2>1. info = [slotIndex |-> slotOf[t], costPaid |-> cost[t],
                stakeAmount |-> IF mode THEN cost[t] ELSE 0,
                refunded |-> FALSE, filteredEarly |-> FALSE]
    BY DEF LaunchesRecorded
  <2>2. slotOf[t] \in Nat /\ cost[t] \in Nat /\ (IF mode THEN cost[t] ELSE 0) \in Nat
    OBVIOUS
  <2> HIDE DEF info
  <2> QED
    BY <2>1, <2>2 DEF LaunchInfo, info
<1>4. new \in [Tokens -> Nat] /\ (\A t \in D : new[t] = cost[t]) /\ (\A t \in Tokens \ D : new[t] = 0)
  OBVIOUS
<1> HIDE DEF new
<1>5. Total(new) = Total(cost) /\ Total(cost) \in Nat
  BY <1>4, SubLedger
<1>6. n \in StakeState
  <2>1. n.launchInfo \in [Tokens -> LaunchInfo] /\ n.balance \in Nat
    <3>1. \A t \in Tokens : n.launchInfo[t] \in LaunchInfo
      BY <1>1, <1>2, <1>3
    <3>2. n.launchInfo \in [Tokens -> LaunchInfo]
      BY <3>1 DEF LaunchesRecorded
    <3> QED
      BY <1>1, <1>2, <1>5, <3>2
  <2> QED
    BY <2>1 DEF LaunchesRecorded, StakeState
<1>7. A \in [Tokens -> Nat] /\ B \in [Tokens -> Nat] /\ Total(A) \in Nat /\ k.balance = Total(A)
  BY <1>6, StakesType DEF CoversStakes
<1>8. /\ \A t \in Tokens : A[t] = k.launchInfo[t].stakeAmount
      /\ \A t \in D : B[t] = IF mode THEN cost[t] ELSE 0
      /\ \A t \in Tokens \ D : B[t] = A[t]
  <2> QED
    BY <1>1, <1>3 DEF StakeAmounts
<1> HIDE DEF A, B
<1>9. n.balance = Total(B)
  <2>1. CASE mode
    <3>1. \A t \in Tokens : B[t] = A[t] + new[t]
      BY <1>4, <1>7, <1>8, <2>1
    <3>2. Total(B) = Total(A) + Total(new)
      BY <1>4, <1>7, <3>1, TokensFinite, TotalAdd
    <3> QED
      BY <1>1, <1>5, <1>7, <2>1, <3>2
  <2>2. CASE ~mode
    <3>1. \A t \in Tokens : B[t] = A[t]
      BY <1>7, <1>8, <2>2
    <3>2. B = A
      BY <1>7, <3>1
    <3> QED
      BY <1>1, <1>7, <2>2, <3>2
  <2> QED
    BY <2>1, <2>2
<1>10. CoversStakes(n)
  BY <1>9 DEF CoversStakes, B
<1> QED
  BY <1>1, <1>5, <1>6, <1>10

\* applySoftFilter: the stakes of the batch leave the admin and its books.
LEMMA SoftFilteredOK ==
  ASSUME NEW k \in StakeState, CoversStakes(k), NEW S \in SUBSET Tokens, NEW F \in SUBSET Tokens
  PROVE  LET n == SoftFilterApplied(k, S, F) IN
         /\ n \in StakeState /\ CoversStakes(n) /\ StakeOf(k, F) \in Nat
         /\ \A t \in Tokens : n.launchInfo[t].stakeAmount \in {0, k.launchInfo[t].stakeAmount}
<1> DEFINE n == SoftFilterApplied(k, S, F)
           D == S \cup F
           A == StakeAmounts(k)
           B == StakeAmounts(n)
           out == [t \in D |-> k.launchInfo[t].stakeAmount]
           gone == [t \in Tokens |-> IF t \in D THEN k.launchInfo[t].stakeAmount ELSE 0]
<1>1. k.launchInfo \in [Tokens -> LaunchInfo] /\ k.balance \in Nat
  BY DEF StakeState
<1>2. \A t \in Tokens : k.launchInfo[t].stakeAmount \in Nat
  BY <1>1 DEF LaunchInfo
<1>3. \A t \in Tokens :
        /\ n.launchInfo[t] \in LaunchInfo
        /\ n.launchInfo[t].stakeAmount = IF t \in D THEN 0 ELSE k.launchInfo[t].stakeAmount
  <2> SUFFICES ASSUME NEW t \in Tokens
               PROVE  /\ n.launchInfo[t] \in LaunchInfo
                      /\ n.launchInfo[t].stakeAmount =
                            IF t \in D THEN 0 ELSE k.launchInfo[t].stakeAmount
    OBVIOUS
  <2> DEFINE info == k.launchInfo[t]
             next == n.launchInfo[t]
  <2>1. info.slotIndex \in Nat /\ info.costPaid \in Nat
    BY <1>1 DEF LaunchInfo
  <2>2. next = [slotIndex |-> info.slotIndex, costPaid |-> info.costPaid,
                stakeAmount |-> IF t \in D THEN 0 ELSE info.stakeAmount,
                refunded |-> info.refunded \/ t \in S,
                filteredEarly |-> info.filteredEarly \/ t \in F]
    BY Zenon DEF SoftFilterApplied, Settled
  <2> HIDE DEF next
  <2>3. next.stakeAmount = IF t \in D THEN 0 ELSE info.stakeAmount
    BY <2>2, Zenon
  <2>4. next \in LaunchInfo
    BY <1>2, <2>1, <2>2 DEF LaunchInfo
  <2> QED
    BY <2>3, <2>4, Zenon DEF next
<1>4. D \in SUBSET Tokens /\ out \in [D -> Nat] /\ gone \in [Tokens -> Nat]
      /\ (\A t \in D : gone[t] = out[t]) /\ (\A t \in Tokens \ D : gone[t] = 0)
  BY <1>2
<1>5. StakeOf(k, D) = Total(out)
  BY DEF StakeOf
<1>6. n.balance = k.balance - Total(out) /\ n.launchInfo = Settled(k, S, F, D)
  BY <1>5 DEF SoftFilterApplied
<1> HIDE DEF out, gone, D
<1>7. Total(gone) = Total(out) /\ Total(out) \in Nat
  BY <1>4, SubLedger
<1>8. StakeOf(k, F) \in Nat
  <2> DEFINE lost == [t \in F |-> k.launchInfo[t].stakeAmount]
  <2>1. lost \in [F -> Nat] /\ IsFiniteSet(F)
    BY <1>2, TokensFinite, FS_Subset
  <2> HIDE DEF lost
  <2>2. Total(lost) \in Nat
    BY <2>1, TotalType
  <2> QED
    BY <2>2 DEF StakeOf, lost
<1>9. A \in [Tokens -> Nat] /\ Total(A) \in Nat /\ k.balance = Total(A)
  BY StakesType DEF CoversStakes
<1>10. B \in [Tokens -> Nat]
  BY <1>2, <1>3 DEF StakeAmounts
<1>11. \A t \in Tokens : A[t] = B[t] + gone[t]
  BY <1>2, <1>3 DEF StakeAmounts, gone
<1> HIDE DEF A, B, n
<1>12a. Total(A) = Total(B) + Total(gone)
  BY <1>4, <1>9, <1>10, <1>11, TokensFinite, TotalAdd
<1>12. Total(A) = Total(B) + Total(gone) /\ Total(B) \in Nat
  BY <1>10, <1>12a, TokensFinite, TotalType
<1>13. n.balance = Total(B) /\ n.balance \in Nat
  BY <1>6, <1>7, <1>9, <1>12
<1>14. n \in StakeState
  <2>1. n.launchInfo \in [Tokens -> LaunchInfo]
    BY <1>3, <1>6 DEF Settled
  <2> QED
    BY <2>1, <1>13 DEF n, SoftFilterApplied, StakeState
<1>15. CoversStakes(n)
  BY <1>13 DEF CoversStakes, B
<1>16. \A t \in Tokens : n.launchInfo[t].stakeAmount \in {0, k.launchInfo[t].stakeAmount}
  BY <1>3
<1> QED
  BY <1>8, <1>14, <1>15, <1>16, Zenon DEF n

(***************************************************************************)
(* The invariant                                                           *)
(***************************************************************************)

LEMMA InvEscrowOK == SafeInv => EscrowOK(escrow)
  BY DEF SafeInv, EscrowOK, TypeOK, EscrowTypeOK, Custody, OneOutcome

LEMMA CountType ==
  ASSUME NEW e, NEW s PROVE ReservationCountOf(e, s) \in Nat
<1>1. IsFiniteSet(Reservers(e, s))
  BY EscrowConstants, FS_Subset DEF Reservers
<1> QED
  BY <1>1, FS_CardinalityType DEF ReservationCountOf

LEMMA CostType ==
  ASSUME baseLaunchCost \in Nat, NEW slot \in Nat
  PROVE  SlotCost(slot) \in Nat
<1> DEFINE M == MaxLaunches * MaxLaunches
           x == baseLaunchCost * (M + slot * slot)
<1>1. MaxLaunches \in Nat /\ MaxLaunches > 0
  BY LauncherConstants
<1>2. M \in Nat /\ M > 0 /\ slot * slot \in Nat
  BY <1>1
<1>3. M + slot * slot \in Nat
  BY <1>2
<1> HIDE DEF M
<1>4. x \in Nat
  BY <1>3
<1> HIDE DEF x
<1>5. x \div M \in Nat
  BY <1>2, <1>4
<1> QED
  BY <1>5 DEF SlotCost, x, M

LEMMA InitInv == Init => SafeInv
<1> SUFFICES ASSUME Init PROVE SafeInv
  OBVIOUS
<1>1. EscrowOK(escrow) /\ escrow.activated = {} /\ escrow.aborted = {}
  BY EmptyOK DEF Init, EscrowInit, EmptyEscrow
<1>2. /\ stake \in StakeState /\ CoversStakes(stake)
      /\ \A t \in Tokens : stake.launchInfo[t].stakeAmount = 0
  <2>1. stake = NoStakes /\ NoLaunch \in LaunchInfo /\ NoLaunch.stakeAmount = 0
    BY DEF Init, NoLaunch, LaunchInfo
  <2>2. stake \in StakeState
    BY <2>1 DEF NoStakes, StakeState
  <2>3. \A t \in Tokens : stake.launchInfo[t].stakeAmount = 0
    BY <2>1 DEF NoStakes
  <2>4. StakeAmounts(stake) \in [Tokens -> Nat]
        /\ \A t \in Tokens : StakeAmounts(stake)[t] = 0
    BY <2>3 DEF StakeAmounts
  <2>5. Total(StakeAmounts(stake)) = 0
    BY <2>4, TotalZero
  <2>6. stake.balance = 0
    BY <2>1 DEF NoStakes
  <2> QED
    BY <2>2, <2>3, <2>5, <2>6 DEF CoversStakes
<1>3. OneOutcome
  BY <1>1 DEF Init, OneOutcome, EscrowOK
<1>4. TypeOK
  <2>1. currentSeasonId \in 0..Cardinality(Seasons)
    BY EscrowConstants, FS_CardinalityType DEF Init
  <2>2. /\ phaseOf \in [Seasons -> Launch..Closed]
        /\ seasonTickers \in [Seasons -> [Tickers -> Creators \cup {Owner, NoOne}]]
        /\ winnerTickers \in [Tickers -> Tokens \cup {NoToken}]
        /\ pending \in [Seasons -> SUBSET PendingReservation]
        /\ launchCount \in [Seasons -> Nat]
        /\ winnersAtStart \in [Seasons -> SUBSET Tickers]
    BY DEF Init, Launch, Closed
  <2>3. /\ windowClosed = {} /\ tokens = {} /\ finalists = {}
        /\ tickerBlocklist \subseteq Tickers
        /\ activated = {} /\ aborted = {} /\ settled = {}
        /\ paused \in BOOLEAN /\ refundableStakeEnabled \in BOOLEAN
        /\ baseLaunchCost \in Nat /\ forfeitReceived \in Nat
    BY LauncherConstants DEF Init
  <2> QED
    BY <1>1, <1>2, <2>1, <2>2, <2>3 DEF TypeOK, EscrowOK, EscrowTypeOK
<1>5. \A s \in Seasons : IsFiniteSet(pending[s])
  BY FS_EmptySet DEF Init
<1> QED
  BY <1>1, <1>2, <1>3, <1>4, <1>5
  DEF SafeInv, Custody, StakeCustody, EscrowOK, StakesFit

\* The owner's settings, phases, finalists, protocol tokens and winners leave
\* the ether where it is.
LEMMA QuietStep ==
  ASSUME SafeInv,
         \/ \E cost \in BaseLaunchCosts, enabled \in StakeModes : SetLaunchConfig(cost, enabled)
         \/ \E t \in Blockable : AddTickerToBlocklist(t)
         \/ \E p \in BOOLEAN : SetPaused(p)
         \/ StartSeason
         \/ \E s \in Seasons : CloseWindow(s) \/ AdvancePhase(s)
         \/ \E s \in Seasons, list \in FinalistLists : SetFinalists(s, list)
         \/ \E t \in ProtocolTickers : LaunchProtocolToken(t)
         \/ \E s \in Seasons, t \in tokens : SetWinnerTicker(s, t)
  PROVE  SafeInv'
<1> USE DEF seasonVars, tokenVars, tickerVars, queueVars, configVars, moneyVars, historyVars
<1>1. /\ UNCHANGED <<pending, activated, aborted, launchCount, escrow, stake, forfeitReceived>>
      /\ windowClosed \subseteq windowClosed'
  BY DEF SetLaunchConfig, AddTickerToBlocklist, SetPaused, StartSeason, CloseWindow,
         AdvancePhase, SetFinalists, LaunchProtocolToken, SetWinnerTicker
<1>2. \A s \in Seasons : phaseOf'[s] # Launch => s \in activated
  BY DEF SafeInv, OneOutcome, TypeOK, SetLaunchConfig, AddTickerToBlocklist, SetPaused,
         StartSeason, CloseWindow, AdvancePhase, SetFinalists, LaunchProtocolToken,
         SetWinnerTicker
<1>3. OneOutcome'
  BY <1>1, <1>2 DEF SafeInv, OneOutcome
<1>4. TypeOK'
  <2>0. TypeOK
    BY DEF SafeInv
  <2>1. ASSUME NEW cost \in BaseLaunchCosts, NEW enabled \in StakeModes,
               SetLaunchConfig(cost, enabled)
        PROVE  TypeOK'
    BY <2>0, <2>1, LauncherConstants DEF TypeOK, EscrowTypeOK, SetLaunchConfig
  <2>2. ASSUME NEW t \in Blockable, AddTickerToBlocklist(t) PROVE TypeOK'
    BY <2>0, <2>2, LauncherConstants DEF TypeOK, EscrowTypeOK, AddTickerToBlocklist
  <2>3. ASSUME NEW p \in BOOLEAN, SetPaused(p) PROVE TypeOK'
    BY <2>0, <2>3 DEF TypeOK, EscrowTypeOK, SetPaused
  <2>4. CASE StartSeason
    <3>1. currentSeasonId' \in 0..Cardinality(Seasons)
      BY <2>0, <2>4, LauncherConstants, EscrowConstants, FS_CardinalityType DEF TypeOK, StartSeason
    <3>2. winnersAtStart' \in [Seasons -> SUBSET Tickers]
      BY <2>0, <2>4 DEF TypeOK, StartSeason
    <3> QED
      BY <2>0, <2>4, <3>1, <3>2 DEF TypeOK, EscrowTypeOK, StartSeason
  <2>5. ASSUME NEW s \in Seasons, CloseWindow(s) PROVE TypeOK'
    BY <2>0, <2>5 DEF TypeOK, EscrowTypeOK, CloseWindow
  <2>6. ASSUME NEW s \in Seasons, AdvancePhase(s) PROVE TypeOK'
    <3>1. phaseOf' \in [Seasons -> Launch..Closed]
      BY <2>0, <2>6 DEF TypeOK, AdvancePhase, Launch, Closed
    <3> QED
      BY <2>0, <2>6, <3>1 DEF TypeOK, EscrowTypeOK, AdvancePhase
  <2>7. ASSUME NEW s \in Seasons, NEW list \in FinalistLists, SetFinalists(s, list) PROVE TypeOK'
    <3>1. finalists' \subseteq Seasons \X Tokens
      BY <2>0, <2>7, LauncherConstants DEF TypeOK, SetFinalists
    <3> QED
      BY <2>0, <2>7, <3>1 DEF TypeOK, EscrowTypeOK, SetFinalists
  <2>8. ASSUME NEW t \in ProtocolTickers, LaunchProtocolToken(t) PROVE TypeOK'
    <3>1. currentSeasonId \in Seasons /\ t \in Tickers
      BY <2>8, LauncherConstants DEF LaunchProtocolToken, CanLaunchProtocolToken, Started
    <3>2. [season |-> currentSeasonId, ticker |-> t, creator |-> Owner] \in Tokens
      BY <3>1 DEF Tokens
    <3>3. tokens' \subseteq Tokens
      BY <2>0, <2>8, <3>2 DEF TypeOK, LaunchProtocolToken
    <3>4. seasonTickers' \in [Seasons -> [Tickers -> Creators \cup {Owner, NoOne}]]
      BY <2>0, <2>8, <3>1 DEF TypeOK, LaunchProtocolToken
    <3> QED
      BY <2>0, <2>8, <3>3, <3>4 DEF TypeOK, EscrowTypeOK, LaunchProtocolToken
  <2>9. ASSUME NEW s \in Seasons, NEW t \in tokens, SetWinnerTicker(s, t) PROVE TypeOK'
    <3>1. winnerTickers' \in [Tickers -> Tokens \cup {NoToken}]
      BY <2>0, <2>9 DEF TypeOK, SetWinnerTicker, Tokens
    <3> QED
      BY <2>0, <2>9, <3>1 DEF TypeOK, EscrowTypeOK, SetWinnerTicker
  <2> QED
    BY <2>1, <2>2, <2>3, <2>4, <2>5, <2>6, <2>7, <2>8, <2>9
<1> QED
  BY <1>1, <1>3, <1>4 DEF SafeInv, Custody, StakeCustody

\* Deploying the reservations prs on an escrow storage e that holds them.
LEMMA DeployStep ==
  ASSUME SafeInv, NEW s \in Seasons, NEW prs \in SUBSET PendingReservation, IsFiniteSet(prs),
         NEW e, EscrowOK(e), e.aborted = escrow.aborted, e.activated = escrow.activated,
         StakesFit(stake, e), DeployTokens(s, prs, e)
  PROVE  /\ EscrowOK(escrow')
         /\ escrow'.aborted = escrow.aborted /\ escrow'.activated = escrow.activated \cup {s}
         /\ tokens' \subseteq Tokens
         /\ stake' \in StakeState /\ StakeCustody' /\ StakesFit(stake', escrow')
         /\ forfeitReceived' \in Nat /\ launchCount' \in [Seasons -> Nat]
<1> DEFINE D == {TokenOf(s, pr) : pr \in prs}
           C == {pr.creator : pr \in prs}
           cost == [t \in D |-> e.escrows[<<s, t.creator>>].amount]
           slotOf == [t \in D |-> (CHOOSE pr \in prs : TokenOf(s, pr) = t).slotIndex]
<1>0. TypeOK /\ stake \in StakeState /\ CoversStakes(stake) /\ e \in EscrowState
  BY DEF SafeInv, TypeOK, StakeCustody, EscrowOK
<1>1. /\ CanRelease(e, s, C) /\ escrow' = Released(e, s, C)
      /\ tokens' = tokens \cup D
      /\ stake' = LaunchesRecorded(stake, cost, slotOf, refundableStakeEnabled)
      /\ forfeitReceived' = forfeitReceived + (IF refundableStakeEnabled THEN 0 ELSE Total(cost))
      /\ launchCount' = [launchCount EXCEPT ![s] = @ + Cardinality(prs)]
  BY DEF DeployTokens
<1>2. C \in SUBSET Creators
  BY DEF PendingReservation
<1>3. D \in SUBSET Tokens /\ \A t \in D : t.creator \in C /\ t.season = s
  BY DEF PendingReservation, TokenOf, Tokens
<1>4. slotOf \in [D -> Nat]
  <2> SUFFICES ASSUME NEW t \in D
               PROVE  (CHOOSE pr \in prs : TokenOf(s, pr) = t).slotIndex \in Nat
    OBVIOUS
  <2>1. \E pr \in prs : TokenOf(s, pr) = t
    OBVIOUS
  <2>2. (CHOOSE pr \in prs : TokenOf(s, pr) = t) \in prs
    BY <2>1
  <2> QED
    BY <2>2 DEF PendingReservation
<1>5. cost \in [D -> Nat]
  BY <1>0, <1>2, <1>3 DEF EscrowState, Reservation, Deposits
<1>6. \A t \in D : stake.launchInfo[t].stakeAmount = 0
  <2>1. \A t \in D : ~e.escrows[<<t.season, t.creator>>].released
    BY <1>1, <1>3 DEF CanRelease, Live
  <2> QED
    BY <1>3, <2>1 DEF StakesFit
<1>7. EscrowOK(Released(e, s, C))
  BY <1>1, <1>2, ReleasedOK DEF CanRelease
<1> HIDE DEF cost, slotOf, D
<1>8. refundableStakeEnabled \in BOOLEAN /\ forfeitReceived \in Nat
      /\ launchCount \in [Seasons -> Nat] /\ tokens \subseteq Tokens
  BY <1>0 DEF TypeOK
<1>9. /\ stake' \in StakeState /\ CoversStakes(stake') /\ Total(cost) \in Nat
      /\ \A t \in Tokens \ D : stake'.launchInfo[t] = stake.launchInfo[t]
  <2>1. stake' = LaunchesRecorded(stake, cost, slotOf, refundableStakeEnabled)
    BY <1>1
  <2>2. stake \in StakeState /\ CoversStakes(stake) /\ D \in SUBSET Tokens
        /\ refundableStakeEnabled \in BOOLEAN
    BY <1>0, <1>3, <1>8
  <2> QED
    BY <1>4, <1>5, <1>6, <2>1, <2>2, RecordedOK, SMTT(90)
<1>10. stake' \in StakeState /\ StakeCustody'
  BY <1>1, <1>9 DEF StakeCustody
<1>11. StakesFit(stake', escrow')
  <2> SUFFICES ASSUME NEW t \in Tokens, stake'.launchInfo[t].stakeAmount # 0
               PROVE  /\ t.creator \in Creators
                      /\ escrow'.escrows[<<t.season, t.creator>>].released
    BY DEF StakesFit
  <2>1. escrow'.escrows = Marked(e, {s} \X C, {})
    BY <1>1 DEF Released
  <2>2. CASE t \in D
    <3>1. t.creator \in Creators /\ <<t.season, t.creator>> \in Deposits \cap ({s} \X C)
      BY <1>2, <1>3, <2>2 DEF Deposits
    <3> QED
      BY <1>0, <2>1, <3>1, MarkedFields
  <2>3. CASE t \notin D
    <3>1. stake'.launchInfo[t] = stake.launchInfo[t]
      BY <1>1, <1>9, <2>3
    <3>2. t.creator \in Creators /\ e.escrows[<<t.season, t.creator>>].released
      BY <3>1 DEF StakesFit
    <3>3. <<t.season, t.creator>> \in Deposits
      BY <3>2 DEF Deposits, Tokens
    <3> QED
      BY <1>0, <2>1, <3>2, <3>3, MarkedFields
  <2> QED
    BY <2>2, <2>3
<1>12. forfeitReceived' \in Nat /\ launchCount' \in [Seasons -> Nat]
  BY <1>1, <1>8, <1>9, FS_CardinalityType
<1>13. escrow'.aborted = escrow.aborted /\ escrow'.activated = escrow.activated \cup {s}
  BY <1>1 DEF Released
<1> QED
  BY <1>1, <1>3, <1>7, <1>8, <1>10, <1>11, <1>12, <1>13

\* reserve, with the deployments it may set off.
LEMMA ReserveStep ==
  ASSUME SafeInv, NEW c \in Creators, NEW t \in Tickers, Reserve(c, t)
  PROVE  SafeInv'
<1> DEFINE s == currentSeasonId
           count == ReservationCountOf(escrow, s)
           pr == [creator |-> c, ticker |-> t, slotIndex |-> count]
           held == Reserved(escrow, s, c, count, SlotCost(count))
<1>0. TypeOK /\ OneOutcome /\ StakesFit(stake, escrow) /\ StakeCustody /\ EscrowOK(escrow)
      /\ \A r \in Seasons : IsFiniteSet(pending[r])
  BY InvEscrowOK DEF SafeInv
<1>1. s \in Seasons /\ CanReserve(escrow, s, c)
  BY DEF Reserve, Started, CanReserveSlot
<1>2. count \in Nat /\ SlotCost(count) \in Nat
  BY <1>0, CountType, CostType DEF TypeOK
<1>3. EscrowOK(held)
  BY <1>0, <1>1, <1>2, ReservedOK
<1>4. held.aborted = escrow.aborted /\ held.activated = escrow.activated
  BY DEF Reserved
<1>5. StakesFit(stake, held)
  <2>1. escrow.escrows \in [Deposits -> Reservation]
    BY <1>0 DEF TypeOK, EscrowTypeOK, EscrowState
  <2>2. \A d \in Deposits : d # <<s, c>> => held.escrows[d] = escrow.escrows[d]
    BY <2>1 DEF Reserved
  <2>3. ~escrow.escrows[<<s, c>>].released
    <3>1. AllOrNothing(escrow)
      BY <1>0 DEF EscrowOK
    <3> QED
      BY <1>1, <3>1 DEF CanReserve, AllOrNothing
  <2> HIDE DEF held
  <2> QED
    BY <1>0, <2>2, <2>3 DEF StakesFit, Tokens, Deposits
<1>6. pr \in PendingReservation
  BY <1>2 DEF PendingReservation
<1>7. /\ UNCHANGED <<currentSeasonId, phaseOf, windowClosed, finalists, winnerTickers,
                     tickerBlocklist, aborted, paused, baseLaunchCost, refundableStakeEnabled,
                     settled, winnersAtStart>>
      /\ seasonTickers' \in [Seasons -> [Tickers -> Creators \cup {Owner, NoOne}]]
      /\ s \notin aborted
  <2>1. UNCHANGED <<currentSeasonId, phaseOf, windowClosed, finalists, winnerTickers,
                     tickerBlocklist, aborted, paused, baseLaunchCost, refundableStakeEnabled,
                     settled, winnersAtStart>>
    BY DEF Reserve, seasonVars, configVars, historyVars
  <2>2. seasonTickers' = [seasonTickers EXCEPT ![s][t] = c] /\ s \notin aborted
    BY DEF Reserve, CanReserveSlot
  <2>3. seasonTickers \in [Seasons -> [Tickers -> Creators \cup {Owner, NoOne}]]
    BY <1>0 DEF TypeOK
  <2> HIDE DEF s
  <2> QED
    BY <1>1, <2>1, <2>2, <2>3
<1>8. \/ /\ s \in activated /\ DeployTokens(s, {pr}, held)
         /\ UNCHANGED <<pending, activated>>
      \/ /\ activated' = activated \cup {s}
         /\ DeployTokens(s, pending[s] \cup {pr}, held)
         /\ pending' = [pending EXCEPT ![s] = {}]
      \/ /\ pending' = [pending EXCEPT ![s] = @ \cup {pr}]
         /\ escrow' = held
         /\ UNCHANGED <<tokens, activated, launchCount, stake, forfeitReceived>>
  BY DEF Reserve
<1> HIDE DEF s, count, pr, held
<1>9. /\ pending \in [Seasons -> SUBSET PendingReservation] /\ activated \subseteq Seasons
      /\ tokens \subseteq Tokens /\ launchCount \in [Seasons -> Nat] /\ forfeitReceived \in Nat
      /\ stake \in StakeState
      /\ activated = escrow.activated /\ aborted = escrow.aborted
  BY <1>0 DEF TypeOK, OneOutcome
\* What each of the three outcomes establishes.
<1>10. /\ EscrowOK(escrow') /\ escrow'.aborted = aborted /\ escrow'.activated = activated'
       /\ activated \subseteq activated' /\ activated' \subseteq Seasons
       /\ tokens' \subseteq Tokens /\ stake' \in StakeState /\ StakeCustody'
       /\ StakesFit(stake', escrow') /\ forfeitReceived' \in Nat
       /\ launchCount' \in [Seasons -> Nat]
       /\ pending' \in [Seasons -> SUBSET PendingReservation]
       /\ \A r \in Seasons : IsFiniteSet(pending'[r])
  <2>1. CASE s \in activated /\ DeployTokens(s, {pr}, held) /\ UNCHANGED <<pending, activated>>
    <3>1. {pr} \in SUBSET PendingReservation /\ IsFiniteSet({pr})
      BY <1>6, FS_Singleton
    <3>2. /\ EscrowOK(escrow')
          /\ escrow'.aborted = escrow.aborted /\ escrow'.activated = escrow.activated \cup {s}
          /\ tokens' \subseteq Tokens
          /\ stake' \in StakeState /\ StakeCustody' /\ StakesFit(stake', escrow')
          /\ forfeitReceived' \in Nat /\ launchCount' \in [Seasons -> Nat]
      BY <1>1, <1>3, <1>4, <1>5, <2>1, <3>1, DeployStep
    <3> QED
      BY <1>0, <1>1, <1>9, <2>1, <3>2
  <2>2. CASE /\ activated' = activated \cup {s}
             /\ DeployTokens(s, pending[s] \cup {pr}, held)
             /\ pending' = [pending EXCEPT ![s] = {}]
    <3>1. pending[s] \cup {pr} \in SUBSET PendingReservation /\ IsFiniteSet(pending[s] \cup {pr})
      BY <1>0, <1>1, <1>6, <1>9, FS_AddElement
    <3>2. /\ EscrowOK(escrow')
          /\ escrow'.aborted = escrow.aborted /\ escrow'.activated = escrow.activated \cup {s}
          /\ tokens' \subseteq Tokens
          /\ stake' \in StakeState /\ StakeCustody' /\ StakesFit(stake', escrow')
          /\ forfeitReceived' \in Nat /\ launchCount' \in [Seasons -> Nat]
      BY <1>1, <1>3, <1>4, <1>5, <2>2, <3>1, DeployStep
    <3>3. /\ pending' \in [Seasons -> SUBSET PendingReservation]
          /\ \A r \in Seasons : IsFiniteSet(pending'[r])
      BY <1>0, <1>1, <1>9, <2>2, FS_EmptySet
    <3> QED
      BY <1>1, <1>9, <2>2, <3>2, <3>3
  <2>3. CASE /\ pending' = [pending EXCEPT ![s] = @ \cup {pr}]
             /\ escrow' = held
             /\ UNCHANGED <<tokens, activated, launchCount, stake, forfeitReceived>>
    <3>1. /\ pending' \in [Seasons -> SUBSET PendingReservation]
          /\ \A r \in Seasons : IsFiniteSet(pending'[r])
      BY <1>0, <1>1, <1>6, <1>9, <2>3, FS_AddElement
    <3>2. StakeCustody'
      BY <1>0, <2>3 DEF StakeCustody
    <3> QED
      BY <1>3, <1>4, <1>5, <1>9, <2>3, <3>1, <3>2
  <2> QED
    BY <1>8, <2>1, <2>2, <2>3
<1>11. TypeOK'
  BY <1>0, <1>7, <1>9, <1>10 DEF TypeOK, EscrowTypeOK, EscrowOK
<1>12. OneOutcome'
  BY <1>0, <1>7, <1>10 DEF OneOutcome, EscrowOK
<1> QED
  BY <1>10, <1>11, <1>12 DEF SafeInv, Custody, EscrowOK

\* abortSeason: the escrow pays or credits everyone; there is no stake to fit.
LEMMA AbortStep ==
  ASSUME SafeInv, NEW s \in Seasons, NEW rejecting \in SUBSET Creators, AbortSeason(s, rejecting)
  PROVE  SafeInv'
<1>0. TypeOK /\ OneOutcome /\ StakesFit(stake, escrow) /\ StakeCustody /\ EscrowOK(escrow)
      /\ \A r \in Seasons : IsFiniteSet(pending[r])
  BY InvEscrowOK DEF SafeInv
<1>1. /\ CanRefundAll(escrow, s) /\ escrow' = RefundedAll(escrow, s, rejecting)
      /\ aborted' = aborted \cup {s} /\ s \in windowClosed
  BY DEF AbortSeason, CanAbortSeason
<1>2. UNCHANGED <<currentSeasonId, phaseOf, windowClosed, tokens, finalists, seasonTickers,
                  winnerTickers, tickerBlocklist, pending, activated, launchCount, paused,
                  baseLaunchCost, refundableStakeEnabled, stake, forfeitReceived, settled,
                  winnersAtStart>>
  BY DEF AbortSeason, seasonVars, tokenVars, tickerVars, queueVars, configVars, historyVars
<1>3. EscrowOK(escrow')
  BY <1>0, <1>1, RefundedAllOK
<1>4. /\ escrow'.aborted = escrow.aborted \cup {s} /\ escrow'.activated = escrow.activated
      /\ \E L : escrow'.escrows = Marked(escrow, {}, L)
  BY <1>1 DEF RefundedAll
<1>5. StakesFit(stake, escrow')
  <2>1. escrow \in EscrowState
    BY <1>0 DEF EscrowOK
  <2>2. \A d \in Deposits : escrow'.escrows[d].released <=> escrow.escrows[d].released
    BY <1>4, <2>1, MarkedFields
  <2> QED
    BY <1>0, <2>2 DEF StakesFit, Tokens, Deposits
<1>6. TypeOK'
  BY <1>0, <1>1, <1>2, <1>3 DEF TypeOK, EscrowTypeOK, EscrowOK
<1>7. OneOutcome'
  BY <1>0, <1>1, <1>2, <1>3, <1>4 DEF OneOutcome, EscrowOK
<1> QED
  BY <1>0, <1>2, <1>3, <1>5, <1>6, <1>7 DEF SafeInv, Custody, StakeCustody, EscrowOK

LEMMA ClaimStep ==
  ASSUME SafeInv, NEW s \in Seasons, NEW c \in Creators, ClaimPendingRefund(s, c)
  PROVE  SafeInv'
<1>0. TypeOK /\ OneOutcome /\ StakesFit(stake, escrow) /\ StakeCustody /\ EscrowOK(escrow)
      /\ \A r \in Seasons : IsFiniteSet(pending[r])
  BY InvEscrowOK DEF SafeInv
<1>1. CanClaimPendingRefund(escrow, s, c) /\ escrow' = PendingRefundClaimed(escrow, s, c)
  BY DEF ClaimPendingRefund, EscrowClaim
<1>2. UNCHANGED <<currentSeasonId, phaseOf, windowClosed, tokens, finalists, seasonTickers,
                  winnerTickers, tickerBlocklist, pending, activated, aborted, launchCount, paused,
                  baseLaunchCost, refundableStakeEnabled, stake, forfeitReceived, settled,
                  winnersAtStart>>
  BY DEF ClaimPendingRefund, seasonVars, tokenVars, tickerVars, queueVars, configVars, historyVars
<1>3. EscrowOK(escrow')
  BY <1>0, <1>1, ClaimedOK
<1>4. /\ escrow'.aborted = escrow.aborted /\ escrow'.activated = escrow.activated
      /\ escrow'.escrows = escrow.escrows
  BY <1>1 DEF PendingRefundClaimed
<1>5. StakesFit(stake, escrow')
  BY <1>0, <1>4 DEF StakesFit
<1>6. TypeOK'
  BY <1>0, <1>2, <1>3 DEF TypeOK, EscrowTypeOK, EscrowOK
<1>7. OneOutcome'
  BY <1>0, <1>2, <1>3, <1>4 DEF OneOutcome, EscrowOK
<1> QED
  BY <1>0, <1>2, <1>3, <1>5, <1>6, <1>7 DEF SafeInv, Custody, StakeCustody, EscrowOK

LEMMA SoftFilterStep ==
  ASSUME SafeInv, NEW s \in Seasons,
         NEW survivors \in SUBSET CommunityTokens(s), NEW forfeited \in SUBSET CommunityTokens(s),
         ApplySoftFilter(s, survivors, forfeited)
  PROVE  SafeInv'
<1>0. TypeOK /\ OneOutcome /\ StakesFit(stake, escrow) /\ StakeCustody /\ Custody
      /\ \A r \in Seasons : IsFiniteSet(pending[r])
  BY DEF SafeInv
<1>1. /\ stake' = SoftFilterApplied(stake, survivors, forfeited)
      /\ forfeitReceived' = forfeitReceived + StakeOf(stake, forfeited)
  BY DEF ApplySoftFilter
<1>2. UNCHANGED <<currentSeasonId, phaseOf, windowClosed, tokens, finalists, seasonTickers,
                  winnerTickers, tickerBlocklist, pending, activated, aborted, launchCount, paused,
                  baseLaunchCost, refundableStakeEnabled, escrow, settled, winnersAtStart>>
  BY DEF ApplySoftFilter, seasonVars, tokenVars, tickerVars, queueVars, configVars, historyVars
<1>3. /\ survivors \in SUBSET Tokens /\ forfeited \in SUBSET Tokens
      /\ stake \in StakeState /\ CoversStakes(stake) /\ forfeitReceived \in Nat
  BY <1>0 DEF TypeOK, CommunityTokens, StakeCustody
<1>4. /\ stake' \in StakeState /\ CoversStakes(stake') /\ StakeOf(stake, forfeited) \in Nat
      /\ \A t \in Tokens : stake'.launchInfo[t].stakeAmount \in {0, stake.launchInfo[t].stakeAmount}
  BY <1>1, <1>3, SoftFilteredOK
<1>5. StakesFit(stake', escrow')
  BY <1>0, <1>2, <1>4 DEF StakesFit
<1>6. TypeOK'
  BY <1>0, <1>1, <1>2, <1>3, <1>4 DEF TypeOK, EscrowTypeOK
<1>7. OneOutcome'
  BY <1>0, <1>2 DEF OneOutcome
<1> QED
  BY <1>0, <1>2, <1>4, <1>5, <1>6, <1>7 DEF SafeInv, Custody, StakeCustody

LEMMA StepInv == SafeInv /\ [Next]_vars => SafeInv'
<1> SUFFICES ASSUME SafeInv, [Next]_vars PROVE SafeInv'
  OBVIOUS
<1>1. CASE UNCHANGED vars
  BY <1>1 DEF vars, seasonVars, tokenVars, tickerVars, queueVars, configVars, moneyVars,
              historyVars, SafeInv, TypeOK, EscrowTypeOK, Custody, StakeCustody, OneOutcome
<1>2. CASE Next
  BY <1>2, QuietStep, ReserveStep, AbortStep, ClaimStep, SoftFilterStep DEF Next
<1> QED
  BY <1>1, <1>2

(***************************************************************************)
(* Tickers                                                                 *)
(***************************************************************************)

\* c has claimed ticker t in season s, with a token of T or a queued slot of P.
Claims(T, P, s, t, c) ==
    \/ \E tok \in T : tok.season = s /\ tok.ticker = t /\ tok.creator = c
    \/ \E pr \in P[s] : pr.ticker = t /\ pr.creator = c

OnlyClaimant(T, P, claimant) ==
    \A s \in Seasons, t \in Tickers, c \in Creators \cup {Owner} :
        Claims(T, P, s, t, c) <=> c = claimant[s][t]

\* A ticker that had won when a season opened is kept by its winner, and neither the
\* queue nor the tokens of the season have it; a season that has not opened has none.
WinnersReserved ==
    /\ \A s \in Seasons : \A t \in winnersAtStart[s] : winnerTickers[t] # NoToken
    /\ \A s \in Seasons : \A pr \in pending[s] : pr.ticker \notin winnersAtStart[s]
    /\ WinnerTickersStayReserved
    /\ \A s \in Seasons : s > currentSeasonId => pending[s] = {}
    /\ \A tok \in tokens : tok.season <= currentSeasonId

TickerInv == OnlyClaimant(tokens, pending, seasonTickers) /\ WinnersReserved

\* The tokens and the queue after a reservation: one token more, the whole queue
\* deployed, or one queued slot more.
LEMMA ReserveMoves ==
  ASSUME TypeOK, NEW c \in Creators, NEW t \in Tickers, Reserve(c, t)
  PROVE  LET s == currentSeasonId IN
         /\ s \in Seasons /\ seasonTickers[s][t] = NoOne /\ winnerTickers[t] = NoToken
         /\ seasonTickers' = [seasonTickers EXCEPT ![s][t] = c]
         /\ UNCHANGED <<currentSeasonId, winnerTickers, winnersAtStart>>
         /\ \E pr \in PendingReservation :
               /\ pr.creator = c /\ pr.ticker = t
               /\ \/ /\ tokens' = tokens \cup {TokenOf(s, q) : q \in {pr}}
                     /\ pending' = pending
                  \/ /\ tokens' = tokens \cup {TokenOf(s, q) : q \in pending[s] \cup {pr}}
                     /\ pending' = [pending EXCEPT ![s] = {}]
                  \/ /\ tokens' = tokens
                     /\ pending' = [pending EXCEPT ![s] = @ \cup {pr}]
<1> DEFINE s == currentSeasonId
           pr == [creator |-> c, ticker |-> t, slotIndex |-> ReservationCountOf(escrow, s)]
<1>1. pr \in PendingReservation /\ pr.creator = c /\ pr.ticker = t
  BY CountType DEF PendingReservation
<1>2. /\ s \in Seasons /\ seasonTickers[s][t] = NoOne /\ winnerTickers[t] = NoToken
      /\ seasonTickers' = [seasonTickers EXCEPT ![s][t] = c]
      /\ UNCHANGED <<currentSeasonId, winnerTickers, winnersAtStart>>
  BY DEF Reserve, CanReserveSlot, Started, seasonVars, historyVars
<1>3. \/ tokens' = tokens \cup {TokenOf(s, q) : q \in {pr}} /\ pending' = pending
      \/ /\ tokens' = tokens \cup {TokenOf(s, q) : q \in pending[s] \cup {pr}}
         /\ pending' = [pending EXCEPT ![s] = {}]
      \/ tokens' = tokens /\ pending' = [pending EXCEPT ![s] = @ \cup {pr}]
  BY DEF Reserve, DeployTokens
<1> QED
  BY <1>1, <1>2, <1>3

LEMMA TokenOfFields ==
  ASSUME NEW s, NEW pr
  PROVE  /\ TokenOf(s, pr).season = s /\ TokenOf(s, pr).ticker = pr.ticker
         /\ TokenOf(s, pr).creator = pr.creator
  BY DEF TokenOf

LEMMA InitTickers == Init => TickerInv
<1> SUFFICES ASSUME Init PROVE TickerInv
  OBVIOUS
<1>1. OnlyClaimant(tokens, pending, seasonTickers)
  BY LauncherConstants DEF Init, OnlyClaimant, Claims
<1>2. WinnersReserved
  BY DEF Init, WinnersReserved, WinnerTickersStayReserved
<1> QED
  BY <1>1, <1>2 DEF TickerInv

LEMMA ReserveTickers ==
  ASSUME TypeOK, TickerInv, NEW c \in Creators, NEW t \in Tickers, Reserve(c, t)
  PROVE  TickerInv'
<1> DEFINE s == currentSeasonId
<1>1. /\ s \in Seasons /\ seasonTickers[s][t] = NoOne /\ winnerTickers[t] = NoToken
      /\ seasonTickers' = [seasonTickers EXCEPT ![s][t] = c]
      /\ UNCHANGED <<currentSeasonId, winnerTickers, winnersAtStart>>
  BY ReserveMoves
<1>2. PICK pr \in PendingReservation :
         /\ pr.creator = c /\ pr.ticker = t
         /\ \/ tokens' = tokens \cup {TokenOf(s, q) : q \in {pr}} /\ pending' = pending
            \/ /\ tokens' = tokens \cup {TokenOf(s, q) : q \in pending[s] \cup {pr}}
               /\ pending' = [pending EXCEPT ![s] = {}]
            \/ tokens' = tokens /\ pending' = [pending EXCEPT ![s] = @ \cup {pr}]
  BY ReserveMoves
<1>3. /\ pending \in [Seasons -> SUBSET PendingReservation]
      /\ seasonTickers \in [Seasons -> [Tickers -> Creators \cup {Owner, NoOne}]]
      /\ tokens \subseteq Tokens
      /\ s \in Nat /\ Seasons \subseteq Nat
  <2>1. Seasons \subseteq Nat
    BY LauncherConstants, EscrowConstants, FS_CardinalityType
  <2> QED
    BY <1>1, <2>1 DEF TypeOK
<1>4. \A r \in Seasons, x \in Tickers, k \in Creators \cup {Owner} :
         Claims(tokens', pending', r, x, k)
            <=> Claims(tokens, pending, r, x, k) \/ (r = s /\ x = t /\ k = c)
  <2>1. CASE tokens' = tokens \cup {TokenOf(s, q) : q \in {pr}} /\ pending' = pending
    BY <1>2, <2>1, TokenOfFields DEF Claims
  <2>2. CASE /\ tokens' = tokens \cup {TokenOf(s, q) : q \in pending[s] \cup {pr}}
             /\ pending' = [pending EXCEPT ![s] = {}]
    <3>1. ASSUME NEW x \in Tickers, NEW k \in Creators \cup {Owner}
          PROVE  Claims(tokens', pending', s, x, k)
                    <=> Claims(tokens, pending, s, x, k) \/ (x = t /\ k = c)
      <4>1. pending'[s] = {}
        BY <1>1, <1>3, <2>2
      <4>2. /\ \A tok \in tokens' : tok \in tokens \/ \E q \in pending[s] \cup {pr} : tok = TokenOf(s, q)
            /\ tokens \subseteq tokens'
            /\ \A q \in pending[s] \cup {pr} : TokenOf(s, q) \in tokens'
        BY <2>2
      <4>3. ASSUME Claims(tokens', pending', s, x, k)
            PROVE  Claims(tokens, pending, s, x, k) \/ (x = t /\ k = c)
        <5>1. PICK tok \in tokens' : tok.season = s /\ tok.ticker = x /\ tok.creator = k
          BY <4>1, <4>3 DEF Claims
        <5>2. CASE tok \in tokens
          BY <5>1, <5>2 DEF Claims
        <5>3. ASSUME NEW q \in pending[s] \cup {pr}, tok = TokenOf(s, q)
              PROVE  Claims(tokens, pending, s, x, k) \/ (x = t /\ k = c)
          <6>1. q.ticker = x /\ q.creator = k
            BY <5>1, <5>3, TokenOfFields
          <6> QED
            BY <1>2, <6>1, <5>3 DEF Claims
        <5> QED
          BY <4>2, <5>2, <5>3
      <4>4. ASSUME Claims(tokens, pending, s, x, k)
            PROVE  Claims(tokens', pending', s, x, k)
        BY <4>2, <4>4, TokenOfFields DEF Claims
      <4>5. ASSUME x = t, k = c
            PROVE  Claims(tokens', pending', s, x, k)
        <5>1. TokenOf(s, pr) \in tokens'
          BY <4>2
        <5> QED
          BY <1>2, <4>5, <5>1, TokenOfFields DEF Claims
      <4> QED
        BY <4>3, <4>4, <4>5
    <3>2. ASSUME NEW r \in Seasons, r # s, NEW x \in Tickers, NEW k \in Creators \cup {Owner}
          PROVE  Claims(tokens', pending', r, x, k) <=> Claims(tokens, pending, r, x, k)
      <4>1. pending'[r] = pending[r]
        BY <1>1, <1>3, <2>2, <3>2
      <4>2. \A tok : tok.season = r => (tok \in tokens' <=> tok \in tokens)
        BY <2>2, <3>2, TokenOfFields
      <4> QED
        BY <4>1, <4>2 DEF Claims
    <3> QED
      BY <3>1, <3>2
  <2>3. CASE tokens' = tokens /\ pending' = [pending EXCEPT ![s] = @ \cup {pr}]
    BY <1>1, <1>2, <1>3, <2>3 DEF Claims
  <2> QED
    BY <1>2, <2>1, <2>2, <2>3
<1>5. OnlyClaimant(tokens', pending', seasonTickers')
  <2> SUFFICES ASSUME NEW r \in Seasons, NEW x \in Tickers, NEW k \in Creators \cup {Owner}
               PROVE  Claims(tokens', pending', r, x, k) <=> k = seasonTickers'[r][x]
    BY DEF OnlyClaimant
  <2>1. Claims(tokens, pending, r, x, k) <=> k = seasonTickers[r][x]
    BY DEF TickerInv, OnlyClaimant
  <2>2. Claims(tokens', pending', r, x, k)
           <=> Claims(tokens, pending, r, x, k) \/ (r = s /\ x = t /\ k = c)
    BY <1>4
  <2>3. CASE r = s /\ x = t
    <3>1. seasonTickers'[r][x] = c /\ seasonTickers[r][x] = NoOne
      BY <1>1, <1>3, <2>3
    <3> QED
      BY <2>1, <2>2, <2>3, <3>1, LauncherConstants
  <2>4. CASE ~(r = s /\ x = t)
    <3>1. seasonTickers'[r][x] = seasonTickers[r][x]
      BY <1>1, <1>3, <2>4
    <3> QED
      BY <2>1, <2>2, <2>4, <3>1
  <2> QED
    BY <2>3, <2>4
<1>6. t \notin winnersAtStart[s]
  BY <1>1 DEF TickerInv, WinnersReserved
<1>7. \A q \in pending[s] \cup {pr} : q.ticker \notin winnersAtStart[s]
  BY <1>1, <1>2, <1>6 DEF TickerInv, WinnersReserved
<1>8. WinnerTickersStayReserved'
  <2> SUFFICES ASSUME NEW tok \in tokens', ~IsProtocolLaunched(tok)
               PROVE  tok.ticker \notin winnersAtStart[tok.season]
    BY <1>1 DEF WinnerTickersStayReserved, IsProtocolLaunched
  <2>1. CASE tok \in tokens
    BY <2>1 DEF TickerInv, WinnersReserved, WinnerTickersStayReserved
  <2>2. CASE tok \notin tokens
    <3>1. PICK q \in pending[s] \cup {pr} : tok = TokenOf(s, q)
      BY <1>2, <2>2
    <3> QED
      BY <1>7, <3>1, TokenOfFields
  <2> QED
    BY <2>1, <2>2
<1>9. \A tok \in tokens' : tok.season <= currentSeasonId
  <2> SUFFICES ASSUME NEW tok \in tokens' PROVE tok.season <= s
    OBVIOUS
  <2>1. CASE tok \in tokens
    BY <2>1 DEF TickerInv, WinnersReserved
  <2>2. CASE tok \notin tokens
    <3>1. PICK q \in pending[s] \cup {pr} : tok = TokenOf(s, q)
      BY <1>2, <2>2
    <3> QED
      BY <1>3, <3>1, TokenOfFields
  <2> QED
    BY <2>1, <2>2
<1>10. /\ \A r \in Seasons : \A q \in pending'[r] : q.ticker \notin winnersAtStart[r]
       /\ \A r \in Seasons : r > s => pending'[r] = {}
  <2> SUFFICES ASSUME NEW r \in Seasons
               PROVE  /\ \A q \in pending'[r] : q.ticker \notin winnersAtStart[r]
                      /\ r > s => pending'[r] = {}
    OBVIOUS
  <2>1. /\ \A q \in pending[r] : q.ticker \notin winnersAtStart[r]
        /\ r > s => pending[r] = {}
    BY DEF TickerInv, WinnersReserved
  <2>2. CASE r = s
    <3>1. pending'[r] \subseteq pending[s] \cup {pr}
      BY <1>1, <1>2, <1>3, <2>2
    <3> QED
      BY <1>3, <1>7, <2>2, <3>1
  <2>3. CASE r # s
    <3>1. pending'[r] = pending[r]
      BY <1>1, <1>2, <1>3, <2>3
    <3> QED
      BY <2>1, <3>1
  <2> QED
    BY <2>2, <2>3
<1>11. WinnersReserved'
  BY <1>1, <1>8, <1>9, <1>10 DEF TickerInv, WinnersReserved
<1> QED
  BY <1>5, <1>11 DEF TickerInv

\* The owner's token is of a ticker that nobody has claimed.
LEMMA ProtocolStep ==
  ASSUME TypeOK, TickerInv, NEW t \in ProtocolTickers, LaunchProtocolToken(t)
  PROVE  TickerInv'
<1> DEFINE s == currentSeasonId
           new == [season |-> s, ticker |-> t, creator |-> Owner]
<1>1. /\ s \in Seasons /\ t \in Tickers /\ seasonTickers[s][t] = NoOne
      /\ seasonTickers' = [seasonTickers EXCEPT ![s][t] = Owner]
      /\ tokens' = tokens \cup {new}
      /\ UNCHANGED <<currentSeasonId, winnerTickers, winnersAtStart, pending>>
  BY LauncherConstants
  DEF LaunchProtocolToken, CanLaunchProtocolToken, Started, seasonVars, queueVars, historyVars
<1>2. /\ seasonTickers \in [Seasons -> [Tickers -> Creators \cup {Owner, NoOne}]]
      /\ s \in Nat
  BY <1>1, LauncherConstants DEF TypeOK
<1>3. new.season = s /\ new.ticker = t /\ new.creator = Owner
  OBVIOUS
<1> HIDE DEF new
<1>4. OnlyClaimant(tokens', pending', seasonTickers')
  <2> SUFFICES ASSUME NEW r \in Seasons, NEW x \in Tickers, NEW k \in Creators \cup {Owner}
               PROVE  Claims(tokens', pending', r, x, k) <=> k = seasonTickers'[r][x]
    BY DEF OnlyClaimant
  <2>1. Claims(tokens, pending, r, x, k) <=> k = seasonTickers[r][x]
    BY DEF TickerInv, OnlyClaimant
  <2>2. Claims(tokens', pending', r, x, k)
           <=> Claims(tokens, pending, r, x, k) \/ (r = s /\ x = t /\ k = Owner)
    BY <1>1, <1>3 DEF Claims
  <2>3. CASE r = s /\ x = t
    <3>1. seasonTickers'[r][x] = Owner /\ seasonTickers[r][x] = NoOne
      BY <1>1, <1>2, <2>3
    <3> QED
      BY <2>1, <2>2, <2>3, <3>1, LauncherConstants
  <2>4. CASE ~(r = s /\ x = t)
    <3>1. seasonTickers'[r][x] = seasonTickers[r][x]
      BY <1>1, <1>2, <2>4
    <3> QED
      BY <2>1, <2>2, <2>4, <3>1
  <2> QED
    BY <2>3, <2>4
<1>5. WinnersReserved'
  BY <1>1, <1>2, <1>3
  DEF TickerInv, WinnersReserved, WinnerTickersStayReserved, IsProtocolLaunched
<1> QED
  BY <1>4, <1>5 DEF TickerInv

\* The tickers of a new season's past winners; nothing of it has been launched.
LEMMA StartTickers ==
  ASSUME TypeOK, TickerInv, StartSeason PROVE TickerInv'
<1> DEFINE s == currentSeasonId + 1
<1>1. /\ s \in Seasons /\ currentSeasonId' = s
      /\ winnersAtStart' =
            [winnersAtStart EXCEPT ![s] = {t \in Tickers : winnerTickers[t] # NoToken}]
      /\ UNCHANGED <<tokens, pending, seasonTickers, winnerTickers>>
  BY DEF StartSeason, tokenVars, tickerVars, queueVars
<1>2. /\ winnersAtStart \in [Seasons -> SUBSET Tickers] /\ currentSeasonId \in Nat
      /\ Seasons \subseteq Nat /\ tokens \subseteq Tokens /\ s > currentSeasonId
  BY LauncherConstants, EscrowConstants, FS_CardinalityType DEF TypeOK
<1>3. /\ pending[s] = {}
      /\ \A tok \in tokens : tok.season \in Nat /\ tok.season <= currentSeasonId /\ tok.season # s
      /\ \A r \in Seasons : r # s => winnersAtStart'[r] = winnersAtStart[r]
      /\ winnersAtStart'[s] = {t \in Tickers : winnerTickers[t] # NoToken}
  <2>1. pending[s] = {}
    BY <1>1, <1>2 DEF TickerInv, WinnersReserved
  <2>2. ASSUME NEW tok \in tokens
        PROVE  tok.season \in Nat /\ tok.season <= currentSeasonId /\ tok.season # s
    <3>1. tok.season \in Nat
      BY <1>2 DEF Tokens
    <3>2. tok.season <= currentSeasonId
      BY DEF TickerInv, WinnersReserved
    <3> QED
      BY <1>2, <3>1, <3>2
  <2>3. /\ \A r \in Seasons : r # s => winnersAtStart'[r] = winnersAtStart[r]
        /\ winnersAtStart'[s] = {t \in Tickers : winnerTickers[t] # NoToken}
    BY <1>1, <1>2
  <2> QED
    BY <2>1, <2>2, <2>3
<1> HIDE DEF s
<1>4. WinnerTickersStayReserved'
  BY <1>1, <1>2, <1>3
  DEF TickerInv, WinnersReserved, WinnerTickersStayReserved, IsProtocolLaunched, Tokens
<1>5. \A r \in Seasons : \A pr \in pending[r] : pr.ticker \notin winnersAtStart'[r]
  BY <1>3 DEF TickerInv, WinnersReserved
<1>6. \A r \in Seasons : \A t \in winnersAtStart'[r] : winnerTickers[t] # NoToken
  BY <1>3 DEF TickerInv, WinnersReserved
<1>7. /\ \A r \in Seasons : r > s => pending[r] = {}
      /\ \A tok \in tokens : tok.season <= s
  <2>1. \A r \in Seasons : r > s => r > currentSeasonId
    BY <1>2 DEF s
  <2>2. \A tok \in tokens : tok.season <= s
    BY <1>2, <1>3 DEF s
  <2> QED
    BY <2>1, <2>2 DEF TickerInv, WinnersReserved
<1>8. WinnersReserved'
  BY <1>1, <1>4, <1>5, <1>6, <1>7 DEF WinnersReserved
<1> QED
  BY <1>1, <1>8 DEF TickerInv

LEMMA TickerStep == TypeOK /\ TickerInv /\ [Next]_vars => TickerInv'
<1> SUFFICES ASSUME TypeOK, TickerInv, [Next]_vars PROVE TickerInv'
  OBVIOUS
<1> USE DEF seasonVars, tokenVars, tickerVars, queueVars, configVars, moneyVars, historyVars
<1>1. ASSUME UNCHANGED <<tokens, pending, seasonTickers, winnerTickers, winnersAtStart,
                         currentSeasonId>>
      PROVE  TickerInv'
  BY <1>1 DEF TickerInv, WinnersReserved, WinnerTickersStayReserved, IsProtocolLaunched
<1>2. ASSUME NEW s \in Seasons, NEW t \in tokens, SetWinnerTicker(s, t) PROVE TickerInv'
  <2>1. /\ winnerTickers' = [winnerTickers EXCEPT ![t.ticker] = t]
        /\ UNCHANGED <<tokens, pending, seasonTickers, winnersAtStart, currentSeasonId>>
    BY <1>2 DEF SetWinnerTicker
  <2>2. t # NoToken /\ t.ticker \in Tickers
        /\ winnerTickers \in [Tickers -> Tokens \cup {NoToken}]
        /\ winnersAtStart \in [Seasons -> SUBSET Tickers]
    BY LauncherConstants DEF TypeOK, Tokens
  <2>3. \A x \in Tickers : winnerTickers[x] # NoToken => winnerTickers'[x] # NoToken
    BY <2>1, <2>2
  <2> QED
    BY <2>1, <2>2, <2>3 DEF TickerInv, WinnersReserved, WinnerTickersStayReserved, IsProtocolLaunched
<1>3. CASE UNCHANGED vars
  BY <1>1, <1>3 DEF vars
<1>4. ASSUME NEW cost \in BaseLaunchCosts, NEW enabled \in StakeModes, SetLaunchConfig(cost, enabled)
      PROVE  TickerInv'
  BY <1>1, <1>4 DEF SetLaunchConfig
<1>5. ASSUME NEW t \in Blockable, AddTickerToBlocklist(t) PROVE TickerInv'
  BY <1>1, <1>5 DEF AddTickerToBlocklist
<1>6. ASSUME NEW p \in BOOLEAN, SetPaused(p) PROVE TickerInv'
  BY <1>1, <1>6 DEF SetPaused
<1>7. ASSUME NEW s \in Seasons, CloseWindow(s) \/ AdvancePhase(s) PROVE TickerInv'
  BY <1>1, <1>7 DEF CloseWindow, AdvancePhase
<1>8. ASSUME NEW s \in Seasons, NEW list \in FinalistLists, SetFinalists(s, list) PROVE TickerInv'
  BY <1>1, <1>8 DEF SetFinalists
<1>9. ASSUME NEW s \in Seasons, NEW rejecting \in SUBSET Creators, AbortSeason(s, rejecting)
      PROVE  TickerInv'
  BY <1>1, <1>9 DEF AbortSeason
<1>10. ASSUME NEW s \in Seasons, NEW c \in Creators, ClaimPendingRefund(s, c) PROVE TickerInv'
  BY <1>1, <1>10 DEF ClaimPendingRefund
<1>11. ASSUME NEW s \in Seasons, NEW S \in SUBSET CommunityTokens(s),
              NEW F \in SUBSET CommunityTokens(s), ApplySoftFilter(s, S, F)
       PROVE  TickerInv'
  BY <1>1, <1>11 DEF ApplySoftFilter
<1>12. CASE Next
  BY <1>2, <1>4, <1>5, <1>6, <1>7, <1>8, <1>9, <1>10, <1>11, <1>12,
     ReserveTickers, ProtocolStep, StartTickers DEF Next
<1> QED
  BY <1>3, <1>12

LEMMA TickerInvariant == Spec => []TickerInv
<1>1. SafeInv => TypeOK
  BY DEF SafeInv
<1> QED
  BY <1>1, InitInv, StepInv, InitTickers, TickerStep, PTL DEF Spec

(***************************************************************************)
(* Theorems                                                                *)
(***************************************************************************)

\* Launcher, escrow and stake admin keep the types of their storage, so no
\* balance ever goes below zero.
THEOREM LauncherTypes == Spec => []TypeOK
<1>1. SafeInv => TypeOK
  BY DEF SafeInv
<1> QED
  BY <1>1, InitInv, StepInv, PTL DEF Spec

\* The escrow holds the live reservations and the credits, exactly.
THEOREM LauncherCustody == Spec => []Custody
<1>1. SafeInv => Custody
  BY DEF SafeInv
<1> QED
  BY <1>1, InitInv, StepInv, PTL DEF Spec

\* The stake admin holds the stakes that no soft filter has paid out, exactly; no
\* launch overwrites a record that still holds one.
THEOREM LauncherStakes == Spec => []StakeCustody
<1>1. SafeInv => StakeCustody
  BY DEF SafeInv
<1> QED
  BY <1>1, InitInv, StepInv, PTL DEF Spec

\* Launcher and escrow agree on which seasons activated and which aborted, no
\* season did both, and every deposit shares its season's fate.
THEOREM LauncherOutcome == Spec => []OneOutcome
<1>1. SafeInv => OneOutcome
  BY DEF SafeInv
<1> QED
  BY <1>1, InitInv, StepInv, PTL DEF Spec

\* In every season a ticker has one claimant, the one that the launcher's mapping
\* names, and none if it names none.
THEOREM TickersAreExclusive == Spec => []TickerHasOneClaimant
<1>1. ASSUME TypeOK, TickerInv PROVE TickerHasOneClaimant
  <2> SUFFICES ASSUME NEW s \in Seasons, NEW t \in Tickers
               PROVE  {tok.creator : tok \in {k \in tokens : k.season = s /\ k.ticker = t}}
                         \cup {pr.creator : pr \in {p \in pending[s] : p.ticker = t}}
                      = {seasonTickers[s][t]} \ {NoOne}
    BY DEF TickerHasOneClaimant
  <2> DEFINE claimants == {tok.creator : tok \in {k \in tokens : k.season = s /\ k.ticker = t}}
                          \cup {pr.creator : pr \in {p \in pending[s] : p.ticker = t}}
  <2>1. claimants \subseteq Creators \cup {Owner}
    BY <1>1 DEF TypeOK, Tokens, PendingReservation
  <2>2. \A c \in Creators \cup {Owner} : c \in claimants <=> Claims(tokens, pending, s, t, c)
    BY DEF Claims
  <2>3. \A c \in Creators \cup {Owner} : Claims(tokens, pending, s, t, c) <=> c = seasonTickers[s][t]
    BY <1>1 DEF TickerInv, OnlyClaimant
  <2>4. seasonTickers[s][t] \in Creators \cup {Owner, NoOne}
    BY <1>1 DEF TypeOK
  <2> HIDE DEF claimants
  <2>5. claimants = {seasonTickers[s][t]} \ {NoOne}
    BY <2>1, <2>2, <2>3, <2>4, LauncherConstants
  <2> QED
    BY <2>5 DEF claimants
<1> QED
  BY <1>1, LauncherTypes, TickerInvariant, PTL

\* A ticker that had won before a season opened is not launched in it by the
\* community, however many seasons are open at once.
THEOREM PastWinnersKeepTickers == Spec => []WinnerTickersStayReserved
<1>1. TickerInv => WinnerTickersStayReserved
  BY DEF TickerInv, WinnersReserved
<1> QED
  BY <1>1, TickerInvariant, PTL


(***************************************************************************)
(* Books                                                                   *)
(***************************************************************************)

\* The slot of creator c in season s, in an escrow storage e.
SlotOf(e, s, c) == e.escrows[<<s, c>>]

\* The slots of every season are numbered from zero, without a gap.
SlotsNumbered(e) ==
    \A s \in Seasons :
        /\ {SlotOf(e, s, c).slotIndex : c \in Reservers(e, s)} = 0..(ReservationCountOf(e, s) - 1)
        /\ ReservationCountOf(e, s) <= MaxLaunches

\* A queue P has one entry for each reservation of a season that is not in A.
QueueFits(P, e, A) ==
    \A s \in Seasons :
        /\ s \in A => P[s] = {}
        /\ s \notin A => \A c \in Reservers(e, s) : \E pr \in P[s] : pr.creator = c
        /\ \A pr \in P[s] : /\ SlotOf(e, s, pr.creator).reserved
                            /\ SlotOf(e, s, pr.creator).slotIndex = pr.slotIndex
        /\ \A p, q \in P[s] : p.creator = q.creator => p = q

Community(T, s) == {t \in T : t.season = s /\ ~IsProtocolLaunched(t)}

\* The community tokens of T are those of the released reservations, one for each.
TokensFit(T, e) ==
    /\ \A s \in Seasons, c \in Creators :
          SlotOf(e, s, c).released => \E t \in Community(T, s) : t.creator = c
    /\ \A s \in Seasons : \A t \in Community(T, s) : SlotOf(e, s, t.creator).released
    /\ \A s \in Seasons : \A t, u \in Community(T, s) : t.creator = u.creator => t = u

\* The stake admin's record of token t is that of its slot r.
RecordFits(info, r) ==
    /\ info.costPaid = r.amount /\ info.slotIndex = r.slotIndex
    /\ info.stakeAmount \in {0, info.costPaid}
    /\ Resolved(info) => info.stakeAmount = 0
    /\ ~(info.refunded /\ info.filteredEarly)

RecordsFit(k, T, e) ==
    \A t \in Tokens :
        IF t \in T /\ ~IsProtocolLaunched(t)
        THEN RecordFits(k.launchInfo[t], SlotOf(e, t.season, t.creator))
        ELSE k.launchInfo[t] = NoLaunch

CountsFit ==
    \A s \in Seasons :
        /\ launchCount[s] = Cardinality(CommunityTokens(s))
        /\ s \in activated => /\ launchCount[s] = ReservationCountOf(escrow, s)
                              /\ launchCount[s] >= ActivationThreshold
        /\ s \notin activated => /\ launchCount[s] = 0
                                 /\ ReservationCountOf(escrow, s) < ActivationThreshold

BooksInv ==
    /\ SlotsNumbered(escrow)
    /\ QueueFits(pending, escrow, activated)
    /\ TokensFit(tokens, escrow)
    /\ RecordsFit(stake, tokens, escrow)
    /\ CountsFit

LEMMA ReserversFinite ==
  ASSUME NEW e, NEW s PROVE IsFiniteSet(Reservers(e, s))
  BY EscrowConstants, FS_Subset DEF Reservers

\* Numbering and queue look at no more of a slot than its index.
LEMMA SameSlots ==
  ASSUME NEW e, NEW n,
         \A s \in Seasons, c \in Creators :
            /\ SlotOf(n, s, c).reserved = SlotOf(e, s, c).reserved
            /\ SlotOf(n, s, c).slotIndex = SlotOf(e, s, c).slotIndex,
         SlotsNumbered(e),
         NEW P \in [Seasons -> SUBSET PendingReservation], NEW A, QueueFits(P, e, A)
  PROVE  /\ \A s \in Seasons : /\ Reservers(n, s) = Reservers(e, s)
                               /\ ReservationCountOf(n, s) = ReservationCountOf(e, s)
         /\ SlotsNumbered(n) /\ QueueFits(P, n, A)
<1>1. \A s \in Seasons : Reservers(n, s) = Reservers(e, s)
  BY DEF Reservers, SlotOf
<1>2. \A s \in Seasons : ReservationCountOf(n, s) = ReservationCountOf(e, s)
  BY <1>1 DEF ReservationCountOf
<1>3. SlotsNumbered(n)
  <2> SUFFICES ASSUME NEW s \in Seasons
               PROVE  {SlotOf(n, s, c).slotIndex : c \in Reservers(n, s)}
                         = 0..(ReservationCountOf(n, s) - 1)
    BY <1>2 DEF SlotsNumbered
  <2>1. {SlotOf(n, s, c).slotIndex : c \in Reservers(n, s)}
           = {SlotOf(e, s, c).slotIndex : c \in Reservers(e, s)}
    BY <1>1 DEF Reservers
  <2> QED
    BY <1>2, <2>1 DEF SlotsNumbered
<1>4. QueueFits(P, n, A)
  <2>1. \A s \in Seasons : \A pr \in P[s] : pr.creator \in Creators
    BY DEF PendingReservation
  <2> QED
    BY <1>1, <2>1 DEF QueueFits
<1> QED
  BY <1>1, <1>2, <1>3, <1>4

\* reserve: the next number goes to a creator who had no slot.
LEMMA HeldSlots ==
  ASSUME NEW e \in EscrowState, NEW s \in Seasons, NEW c \in Creators, NEW value \in Nat,
         SlotsNumbered(e), AllOrNothing(e), ~SlotOf(e, s, c).reserved,
         ReservationCountOf(e, s) < MaxLaunches,
         NEW n, n = Reserved(e, s, c, ReservationCountOf(e, s), value)
  PROVE  /\ SlotOf(n, s, c) = [reserved |-> TRUE, amount |-> value,
                               slotIndex |-> ReservationCountOf(e, s),
                               released |-> FALSE, refunded |-> FALSE]
         /\ \A r \in Seasons, k \in Creators :
               r # s \/ k # c => SlotOf(n, r, k) = SlotOf(e, r, k)
         /\ \A r \in Seasons, k \in Creators :
               SlotOf(n, r, k).released = SlotOf(e, r, k).released
         /\ Reservers(n, s) = Reservers(e, s) \cup {c}
         /\ ReservationCountOf(n, s) = ReservationCountOf(e, s) + 1
         /\ \A r \in Seasons \ {s} : /\ Reservers(n, r) = Reservers(e, r)
                                     /\ ReservationCountOf(n, r) = ReservationCountOf(e, r)
         /\ SlotsNumbered(n)
<1> DEFINE count == ReservationCountOf(e, s)
           new == [reserved |-> TRUE, amount |-> value, slotIndex |-> count,
                   released |-> FALSE, refunded |-> FALSE]
<1>1. e.escrows \in [Deposits -> Reservation] /\ n.escrows = [e.escrows EXCEPT ![<<s, c>>] = new]
  BY DEF Reserved, EscrowState
<1>2. \A r \in Seasons, k \in Creators : <<r, k>> \in Deposits
  BY DEF Deposits
<1>3. SlotOf(n, s, c) = new
  BY <1>1, <1>2 DEF SlotOf
<1>4. \A r \in Seasons, k \in Creators : r # s \/ k # c => SlotOf(n, r, k) = SlotOf(e, r, k)
  BY <1>1, <1>2 DEF SlotOf
<1>5. new.reserved = TRUE /\ new.slotIndex = count /\ new.released = FALSE
  OBVIOUS
<1> HIDE DEF new
<1>6. \A r \in Seasons, k \in Creators : SlotOf(n, r, k).released = SlotOf(e, r, k).released
  <2>1. SlotOf(e, s, c).released = FALSE
    <3>1. SlotOf(e, s, c) \in Reservation
      BY <1>1, <1>2 DEF SlotOf
    <3> QED
      BY <3>1 DEF AllOrNothing, SlotOf, Reservation
  <2> QED
    BY <1>3, <1>4, <1>5, <2>1
<1>7. Reservers(n, s) = Reservers(e, s) \cup {c} /\ c \notin Reservers(e, s)
  BY <1>3, <1>4, <1>5 DEF Reservers, SlotOf
<1>8. ReservationCountOf(n, s) = count + 1 /\ count \in Nat
  BY <1>7, ReserversFinite, FS_AddElement, FS_CardinalityType DEF ReservationCountOf
<1>9. \A r \in Seasons \ {s} : /\ Reservers(n, r) = Reservers(e, r)
                               /\ ReservationCountOf(n, r) = ReservationCountOf(e, r)
  BY <1>4 DEF Reservers, ReservationCountOf, SlotOf
<1>10. SlotsNumbered(n)
  <2>1. ASSUME NEW r \in Seasons \ {s}
        PROVE  {SlotOf(n, r, k).slotIndex : k \in Reservers(n, r)}
                  = {SlotOf(e, r, k).slotIndex : k \in Reservers(e, r)}
    BY <1>4, <1>9 DEF Reservers
  <2>2. {SlotOf(n, s, k).slotIndex : k \in Reservers(n, s)}
           = {SlotOf(e, s, k).slotIndex : k \in Reservers(e, s)} \cup {count}
    <3>1. {SlotOf(n, s, k).slotIndex : k \in Reservers(n, s)}
             = {SlotOf(n, s, k).slotIndex : k \in Reservers(e, s)} \cup {SlotOf(n, s, c).slotIndex}
      BY <1>7
    <3>2. \A k \in Reservers(e, s) : SlotOf(n, s, k) = SlotOf(e, s, k)
      BY <1>4, <1>7 DEF Reservers
    <3> QED
      BY <1>3, <1>5, <3>1, <3>2
  <2>3. {SlotOf(e, s, k).slotIndex : k \in Reservers(e, s)} = 0..(count - 1)
    BY DEF SlotsNumbered
  <2>4. 0..(count - 1) \cup {count} = 0..count
    BY <1>8
  <2>5. {SlotOf(n, s, k).slotIndex : k \in Reservers(n, s)} = 0..(ReservationCountOf(n, s) - 1)
    <3>1. ReservationCountOf(n, s) - 1 = count
      BY <1>8
    <3> HIDE DEF count
    <3> QED
      BY <2>2, <2>3, <2>4, <3>1
  <2>6. ReservationCountOf(n, s) <= MaxLaunches
    BY <1>8, LauncherConstants
  <2> HIDE DEF count
  <2> QED
    <3> SUFFICES ASSUME NEW r \in Seasons
                 PROVE  /\ {SlotOf(n, r, k).slotIndex : k \in Reservers(n, r)}
                              = 0..(ReservationCountOf(n, r) - 1)
                        /\ ReservationCountOf(n, r) <= MaxLaunches
      BY DEF SlotsNumbered
    <3>1. CASE r = s
      BY <2>5, <2>6, <3>1
    <3>2. CASE r # s
      BY <1>9, <2>1, <3>2 DEF SlotsNumbered
    <3> QED
      BY <3>1, <3>2
<1> QED
  BY <1>3, <1>4, <1>6, <1>7, <1>8, <1>9, <1>10 DEF new

\* Deploying the slots of prs, which an escrow storage e holds.
LEMMA DeployBooks ==
  ASSUME NEW e \in EscrowState, stake \in StakeState, tokens \subseteq Tokens,
         NEW s \in Seasons, NEW prs \in SUBSET PendingReservation, IsFiniteSet(prs),
         \A p, q \in prs : p.creator = q.creator => p = q,
         \A pr \in prs : SlotOf(e, s, pr.creator).slotIndex = pr.slotIndex,
         TokensFit(tokens, e), RecordsFit(stake, tokens, e), DeployTokens(s, prs, e)
  PROVE  /\ \A r \in Seasons, c \in Creators :
               /\ SlotOf(escrow', r, c).reserved = SlotOf(e, r, c).reserved
               /\ SlotOf(escrow', r, c).slotIndex = SlotOf(e, r, c).slotIndex
         /\ TokensFit(tokens', escrow') /\ RecordsFit(stake', tokens', escrow')
         /\ Cardinality(Community(tokens', s)) = Cardinality(Community(tokens, s)) + Cardinality(prs)
         /\ \A r \in Seasons \ {s} : Community(tokens', r) = Community(tokens, r)
<1> DEFINE D == {TokenOf(s, pr) : pr \in prs}
           C == {pr.creator : pr \in prs}
           cost == [t \in D |-> e.escrows[<<s, t.creator>>].amount]
           slotOf == [t \in D |-> (CHOOSE pr \in prs : TokenOf(s, pr) = t).slotIndex]
<1>1. /\ CanRelease(e, s, C) /\ escrow' = Released(e, s, C)
      /\ tokens' = tokens \cup D
      /\ stake' = LaunchesRecorded(stake, cost, slotOf, refundableStakeEnabled)
  BY DEF DeployTokens
<1>2. C \in SUBSET Creators
  BY DEF PendingReservation
<1>3. \A pr \in prs : TokenOf(s, pr).creator = pr.creator /\ TokenOf(s, pr).season = s
  BY TokenOfFields
<1>4. D \in SUBSET Tokens
      /\ \A t \in D : t.creator \in C /\ t.season = s /\ ~IsProtocolLaunched(t)
  BY <1>2, <1>3, TokenConstants DEF PendingReservation, TokenOf, Tokens, IsProtocolLaunched
<1>5. \A t, u \in D : t.creator = u.creator => t = u
  BY <1>3
<1>6. \A t \in D : \E pr \in prs : /\ pr.creator = t.creator
                                   /\ slotOf[t] = pr.slotIndex
  <2> SUFFICES ASSUME NEW t \in D
               PROVE  \E pr \in prs : pr.creator = t.creator /\ slotOf[t] = pr.slotIndex
    OBVIOUS
  <2>1. \E pr \in prs : TokenOf(s, pr) = t
    OBVIOUS
  <2>2. (CHOOSE pr \in prs : TokenOf(s, pr) = t) \in prs
        /\ TokenOf(s, CHOOSE pr \in prs : TokenOf(s, pr) = t) = t
    BY <2>1
  <2> QED
    BY <1>3, <2>2
<1>7. \A r \in Seasons, c \in Creators :
         /\ SlotOf(escrow', r, c).reserved = SlotOf(e, r, c).reserved
         /\ SlotOf(escrow', r, c).slotIndex = SlotOf(e, r, c).slotIndex
         /\ SlotOf(escrow', r, c).amount = SlotOf(e, r, c).amount
         /\ SlotOf(escrow', r, c).released <=> (SlotOf(e, r, c).released \/ (r = s /\ c \in C))
  <2> SUFFICES ASSUME NEW r \in Seasons, NEW c \in Creators
               PROVE  /\ SlotOf(escrow', r, c).reserved = SlotOf(e, r, c).reserved
                      /\ SlotOf(escrow', r, c).slotIndex = SlotOf(e, r, c).slotIndex
                      /\ SlotOf(escrow', r, c).amount = SlotOf(e, r, c).amount
                      /\ SlotOf(escrow', r, c).released
                            <=> (SlotOf(e, r, c).released \/ (r = s /\ c \in C))
    OBVIOUS
  <2>1. <<r, c>> \in Deposits /\ (<<r, c>> \in {s} \X C <=> r = s /\ c \in C)
    BY DEF Deposits
  <2>2. escrow'.escrows = Marked(e, {s} \X C, {})
    BY <1>1 DEF Released
  <2> QED
    BY <2>1, <2>2, MarkedFields DEF SlotOf
<1>8. \A c \in C : ~SlotOf(e, s, c).released
  BY <1>1 DEF CanRelease, Live, SlotOf
<1>9. cost \in [D -> Nat] /\ \A t \in D : cost[t] = SlotOf(e, s, t.creator).amount
  BY <1>2, <1>4 DEF EscrowState, Reservation, Deposits, SlotOf
<1>10. /\ Community(tokens', s) = Community(tokens, s) \cup D
       /\ \A r \in Seasons \ {s} : Community(tokens', r) = Community(tokens, r)
  BY <1>1, <1>4 DEF Community
<1>11. Community(tokens, s) \cap D = {}
  BY <1>4, <1>8 DEF TokensFit
<1>12. \A r \in Seasons : \A t \in Community(tokens, r) :
          t.creator \in Creators /\ t.season = r /\ SlotOf(e, r, t.creator).released
  BY DEF TokensFit, Community, Tokens, IsProtocolLaunched
<1>13. \A pr \in prs : TokenOf(s, pr) \in D
  OBVIOUS
<1> HIDE DEF D, cost, slotOf
<1>14. TokensFit(tokens', escrow')
  <2>1. ASSUME NEW r \in Seasons, NEW c \in Creators, SlotOf(escrow', r, c).released
        PROVE  \E t \in Community(tokens', r) : t.creator = c
    <3>1. CASE SlotOf(e, r, c).released
      BY <1>10, <3>1 DEF TokensFit
    <3>2. CASE r = s /\ c \in C
      BY <1>3, <1>10, <1>13, <3>2
    <3> QED
      BY <1>7, <2>1, <3>1, <3>2
  <2>2. ASSUME NEW r \in Seasons, NEW t \in Community(tokens', r)
        PROVE  SlotOf(escrow', r, t.creator).released
    BY <1>2, <1>4, <1>7, <1>10, <1>12
  <2>3. ASSUME NEW r \in Seasons, NEW t \in Community(tokens', r), NEW u \in Community(tokens', r),
               t.creator = u.creator
        PROVE  t = u
    <3>1. CASE t \in Community(tokens, r) /\ u \in Community(tokens, r)
      BY <2>3, <3>1 DEF TokensFit
    <3>2. CASE r = s /\ t \in D /\ u \in D
      BY <1>5, <2>3, <3>2
    <3>3. CASE r = s /\ (t \in D <=> u \notin D)
      BY <1>4, <1>8, <1>10, <1>12, <2>3, <3>3
    <3> QED
      BY <1>10, <3>1, <3>2, <3>3
  <2> QED
    BY <2>1, <2>2, <2>3 DEF TokensFit
<1>15. RecordsFit(stake', tokens', escrow')
  <2> SUFFICES ASSUME NEW t \in Tokens
               PROVE  IF t \in tokens' /\ ~IsProtocolLaunched(t)
                      THEN RecordFits(stake'.launchInfo[t], SlotOf(escrow', t.season, t.creator))
                      ELSE stake'.launchInfo[t] = NoLaunch
    BY DEF RecordsFit
  <2>1. CASE t \in D
    <3> DEFINE info == stake'.launchInfo[t]
    <3>1. info = [slotIndex |-> slotOf[t], costPaid |-> cost[t],
                  stakeAmount |-> IF refundableStakeEnabled THEN cost[t] ELSE 0,
                  refunded |-> FALSE, filteredEarly |-> FALSE]
      BY <1>1, <1>9, <2>1 DEF LaunchesRecorded
    <3>2. /\ info.costPaid = cost[t] /\ info.slotIndex = slotOf[t]
          /\ info.stakeAmount \in {0, cost[t]} /\ info.refunded = FALSE /\ info.filteredEarly = FALSE
      BY <3>1
    <3>3. /\ SlotOf(escrow', s, t.creator).amount = cost[t]
          /\ SlotOf(escrow', s, t.creator).slotIndex = slotOf[t]
      <4>1. t.creator \in Creators
        BY <1>2, <1>4, <2>1
      <4>2. SlotOf(e, s, t.creator).slotIndex = slotOf[t]
        BY <1>6, <2>1
      <4> QED
        BY <1>7, <1>9, <2>1, <4>1, <4>2
    <3>4. t \in tokens' /\ ~IsProtocolLaunched(t) /\ t.season = s
      BY <1>1, <1>4, <2>1
    <3> HIDE DEF info
    <3>5. RecordFits(info, SlotOf(escrow', t.season, t.creator))
      BY <3>2, <3>3, <3>4 DEF RecordFits, Resolved
    <3> QED
      BY <3>4, <3>5 DEF info
  <2>2. CASE t \notin D
    <3>1. stake'.launchInfo[t] = stake.launchInfo[t]
      BY <1>1, <1>9, <2>2 DEF LaunchesRecorded
    <3>2. t \in tokens' <=> t \in tokens
      BY <1>1, <2>2
    <3>3. CASE t \in tokens /\ ~IsProtocolLaunched(t)
      <4>1. t.season \in Seasons /\ t.creator \in Creators
        BY <3>3 DEF Tokens, IsProtocolLaunched
      <4>2. RecordFits(stake.launchInfo[t], SlotOf(e, t.season, t.creator))
        BY <3>3 DEF RecordsFit
      <4> QED
        BY <1>7, <3>1, <3>2, <3>3, <4>1, <4>2 DEF RecordFits
    <3>4. CASE ~(t \in tokens /\ ~IsProtocolLaunched(t))
      BY <3>1, <3>2, <3>4 DEF RecordsFit
    <3> QED
      BY <3>3, <3>4
  <2> QED
    BY <2>1, <2>2
<1>16. Cardinality(Community(tokens', s)) = Cardinality(Community(tokens, s)) + Cardinality(prs)
  <2> DEFINE f == [pr \in prs |-> TokenOf(s, pr)]
  <2>1. f \in Bijection(prs, D)
    <3>1. f \in [prs -> D]
      BY <1>13
    <3>2. \A p, q \in prs : f[p] = f[q] => p = q
      BY <1>3
    <3>3. \A t \in D : \E pr \in prs : f[pr] = t
      BY DEF D
    <3> HIDE DEF f
    <3>4. f \in Injection(prs, D)
      BY <3>1, <3>2 DEF Injection, IsInjective
    <3>5. f \in Surjection(prs, D)
      BY <3>1, <3>3 DEF Surjection
    <3> QED
      BY <3>4, <3>5 DEF Bijection
  <2> HIDE DEF f
  <2>2. IsFiniteSet(D) /\ Cardinality(D) = Cardinality(prs)
    BY <2>1, FS_Bijection DEF ExistsBijection
  <2>3. IsFiniteSet(Community(tokens, s))
    BY TokensFinite, FS_Subset DEF Community
  <2>4. /\ Cardinality(Community(tokens, s) \cup D)
              = Cardinality(Community(tokens, s)) + Cardinality(D) - Cardinality({})
        /\ Cardinality({}) = 0 /\ Cardinality(Community(tokens, s)) \in Nat /\ Cardinality(D) \in Nat
    BY <1>11, <2>2, <2>3, FS_Union, FS_EmptySet, FS_CardinalityType
  <2> QED
    BY <1>10, <2>2, <2>4
<1> QED
  BY <1>7, <1>10, <1>14, <1>15, <1>16

\* A step that leaves the launcher's side alone keeps the books if every slot keeps
\* all but its refund mark.
LEMMA BooksFollow ==
  ASSUME BooksInv, tokens \subseteq Tokens, pending \in [Seasons -> SUBSET PendingReservation],
         UNCHANGED <<tokens, pending, activated, launchCount, stake>>,
         \A r \in Seasons, c \in Creators :
            /\ SlotOf(escrow', r, c).reserved = SlotOf(escrow, r, c).reserved
            /\ SlotOf(escrow', r, c).slotIndex = SlotOf(escrow, r, c).slotIndex
            /\ SlotOf(escrow', r, c).amount = SlotOf(escrow, r, c).amount
            /\ SlotOf(escrow', r, c).released <=> SlotOf(escrow, r, c).released
  PROVE  BooksInv'
<1>1. /\ \A s \in Seasons : ReservationCountOf(escrow', s) = ReservationCountOf(escrow, s)
      /\ SlotsNumbered(escrow') /\ QueueFits(pending, escrow', activated)
  BY SameSlots DEF BooksInv
<1>2. \A s \in Seasons : \A t \in Community(tokens, s) : t.creator \in Creators
  BY DEF Community, Tokens, IsProtocolLaunched
<1>3. TokensFit(tokens, escrow')
  BY <1>2 DEF BooksInv, TokensFit
<1>4. RecordsFit(stake, tokens, escrow')
  <2> SUFFICES ASSUME NEW t \in tokens, ~IsProtocolLaunched(t)
               PROVE  RecordFits(stake.launchInfo[t], SlotOf(escrow', t.season, t.creator))
    BY DEF BooksInv, RecordsFit
  <2>1. t.season \in Seasons /\ t.creator \in Creators
    BY DEF Tokens, IsProtocolLaunched
  <2>2. RecordFits(stake.launchInfo[t], SlotOf(escrow, t.season, t.creator))
    BY DEF BooksInv, RecordsFit
  <2> QED
    BY <2>1, <2>2 DEF RecordFits
<1>5. CountsFit'
  BY <1>1 DEF BooksInv, CountsFit, CommunityTokens, IsProtocolLaunched
<1> QED
  BY <1>1, <1>3, <1>4, <1>5 DEF BooksInv

LEMMA InitBooks == Init => BooksInv
<1> SUFFICES ASSUME Init PROVE BooksInv
  OBVIOUS
<1>1. /\ \A s \in Seasons, c \in Creators : SlotOf(escrow, s, c) = NoReservation
      /\ NoReservation.reserved = FALSE /\ NoReservation.released = FALSE
  BY DEF Init, EscrowInit, EmptyEscrow, SlotOf, Deposits, NoReservation
<1>2. \A s \in Seasons : Reservers(escrow, s) = {} /\ ReservationCountOf(escrow, s) = 0
  BY <1>1, FS_EmptySet DEF Reservers, ReservationCountOf, SlotOf
<1>3. SlotsNumbered(escrow)
  <2>1. 0..(0 - 1) = {}
    OBVIOUS
  <2> QED
    BY <1>2, <2>1, LauncherConstants DEF SlotsNumbered
<1>4. QueueFits(pending, escrow, activated)
  BY <1>2 DEF Init, QueueFits
<1>5. tokens = {} /\ \A s \in Seasons : Community(tokens, s) = {}
  BY DEF Init, Community
<1>6. TokensFit(tokens, escrow)
  BY <1>1, <1>5 DEF TokensFit
<1>7. RecordsFit(stake, tokens, escrow)
  BY <1>5 DEF Init, NoStakes, RecordsFit
<1>8. CountsFit
  <2>1. \A s \in Seasons : CommunityTokens(s) = {}
    BY <1>5 DEF CommunityTokens
  <2> QED
    <3>1. ActivationThreshold > 0 /\ activated = {} /\ \A s \in Seasons : launchCount[s] = 0
      BY LauncherConstants DEF Init
    <3> QED
      BY <1>2, <2>1, <3>1, FS_EmptySet DEF CountsFit
<1> QED
  BY <1>3, <1>4, <1>6, <1>7, <1>8 DEF BooksInv

\* The three ways a reservation ends: a slot of an activated season, the slot that
\* activates one, a slot that queues.
LEMMA ReserveBooks ==
  ASSUME SafeInv, BooksInv, NEW c \in Creators, NEW t \in Tickers, Reserve(c, t)
  PROVE  BooksInv'
<1> DEFINE s == currentSeasonId
           count == ReservationCountOf(escrow, s)
           pr == [creator |-> c, ticker |-> t, slotIndex |-> count]
           held == Reserved(escrow, s, c, count, SlotCost(count))
<1>1. /\ escrow \in EscrowState /\ stake \in StakeState /\ tokens \subseteq Tokens
      /\ pending \in [Seasons -> SUBSET PendingReservation] /\ AllOrNothing(escrow)
      /\ activated \subseteq Seasons /\ launchCount \in [Seasons -> Nat]
      /\ \A r \in Seasons : IsFiniteSet(pending[r])
  BY DEF SafeInv, TypeOK, EscrowTypeOK, OneOutcome
<1>2. /\ s \in Seasons /\ count < MaxLaunches /\ ~SlotOf(escrow, s, c).reserved
  BY DEF Reserve, Started, CanReserveSlot, CanReserve, SlotOf
<1>3. count \in Nat /\ SlotCost(count) \in Nat
  BY CountType, CostType DEF SafeInv, TypeOK
<1>4. \/ /\ s \in activated /\ DeployTokens(s, {pr}, held)
         /\ UNCHANGED <<pending, activated>>
      \/ /\ s \notin activated /\ count + 1 = ActivationThreshold
         /\ Cardinality(pending[s] \cup {pr}) = ActivationThreshold
         /\ activated' = activated \cup {s}
         /\ DeployTokens(s, pending[s] \cup {pr}, held)
         /\ pending' = [pending EXCEPT ![s] = {}]
      \/ /\ s \notin activated /\ count + 1 # ActivationThreshold
         /\ pending' = [pending EXCEPT ![s] = @ \cup {pr}]
         /\ escrow' = held
         /\ UNCHANGED <<tokens, activated, launchCount, stake>>
  BY DEF Reserve
<1>5. pr \in PendingReservation /\ pr.creator = c /\ pr.slotIndex = count
  BY <1>3 DEF PendingReservation
<1>6. /\ SlotsNumbered(escrow) /\ QueueFits(pending, escrow, activated)
      /\ TokensFit(tokens, escrow) /\ RecordsFit(stake, tokens, escrow) /\ CountsFit
  BY DEF BooksInv
<1>7. /\ SlotOf(held, s, c) = [reserved |-> TRUE, amount |-> SlotCost(count),
                               slotIndex |-> count, released |-> FALSE, refunded |-> FALSE]
      /\ \A r \in Seasons, k \in Creators :
            r # s \/ k # c => SlotOf(held, r, k) = SlotOf(escrow, r, k)
      /\ \A r \in Seasons, k \in Creators :
            SlotOf(held, r, k).released = SlotOf(escrow, r, k).released
      /\ Reservers(held, s) = Reservers(escrow, s) \cup {c}
      /\ ReservationCountOf(held, s) = count + 1
      /\ \A r \in Seasons \ {s} : /\ Reservers(held, r) = Reservers(escrow, r)
                                  /\ ReservationCountOf(held, r) = ReservationCountOf(escrow, r)
      /\ SlotsNumbered(held)
  BY <1>1, <1>2, <1>3, <1>6, HeldSlots
<1>8. SlotOf(held, s, c).reserved = TRUE /\ SlotOf(held, s, c).slotIndex = count
  BY <1>7
<1>9. held \in EscrowState
  BY <1>1, <1>2, <1>3, InvEscrowOK, ReservedOK DEF EscrowOK, CanReserve, SlotOf, Reserve,
     CanReserveSlot
<1> HIDE DEF s, count, pr, held
<1>10. TokensFit(tokens, held)
  BY <1>6, <1>7, <1>1 DEF TokensFit, Community, Tokens, IsProtocolLaunched
<1>11. RecordsFit(stake, tokens, held)
  <2> SUFFICES ASSUME NEW k \in tokens, ~IsProtocolLaunched(k)
               PROVE  RecordFits(stake.launchInfo[k], SlotOf(held, k.season, k.creator))
    BY <1>1, <1>6 DEF RecordsFit
  <2>1. k.season \in Seasons /\ k.creator \in Creators /\ k \in Community(tokens, k.season)
    BY <1>1 DEF Tokens, IsProtocolLaunched, Community
  <2>2. SlotOf(escrow, k.season, k.creator).released
    BY <1>6, <2>1 DEF TokensFit
  <2>3. ~SlotOf(escrow, s, c).released
    BY <1>1, <1>2 DEF AllOrNothing, SlotOf
  <2>4. SlotOf(held, k.season, k.creator) = SlotOf(escrow, k.season, k.creator)
    BY <1>7, <2>1, <2>2, <2>3
  <2> QED
    BY <1>1, <1>6, <2>4 DEF RecordsFit
<1>12. /\ \A q \in pending[s] : /\ q.creator \in Creators /\ q.creator # c
                               /\ SlotOf(held, s, q.creator).reserved
                               /\ SlotOf(held, s, q.creator).slotIndex = q.slotIndex
       /\ \A p, q \in pending[s] \cup {pr} : p.creator = q.creator => p = q
  <2>1. \A q \in pending[s] : q.creator \in Creators
    BY <1>1, <1>2 DEF PendingReservation
  <2>2. \A q \in pending[s] : /\ SlotOf(escrow, s, q.creator).reserved
                              /\ SlotOf(escrow, s, q.creator).slotIndex = q.slotIndex
    BY <1>2, <1>6 DEF QueueFits
  <2>3. \A q \in pending[s] : q.creator # c
    BY <1>2, <2>2
  <2>4. \A q \in pending[s] : SlotOf(held, s, q.creator) = SlotOf(escrow, s, q.creator)
    BY <1>2, <1>7, <2>1, <2>3
  <2>5. \A p, q \in pending[s] : p.creator = q.creator => p = q
    BY <1>2, <1>6 DEF QueueFits
  <2> QED
    BY <1>5, <2>1, <2>2, <2>3, <2>4, <2>5
\* The other seasons keep their queues and slots.
<1>13. ASSUME NEW r \in Seasons \ {s}
       PROVE  /\ r \in activated => pending[r] = {}
              /\ r \notin activated =>
                    \A k \in Reservers(held, r) : \E q \in pending[r] : q.creator = k
              /\ \A q \in pending[r] : /\ SlotOf(held, r, q.creator).reserved
                                       /\ SlotOf(held, r, q.creator).slotIndex = q.slotIndex
              /\ \A p, q \in pending[r] : p.creator = q.creator => p = q
  <2>1. \A q \in pending[r] : q.creator \in Creators
    BY <1>1 DEF PendingReservation
  <2>2. \A q \in pending[r] : SlotOf(held, r, q.creator) = SlotOf(escrow, r, q.creator)
    BY <1>7, <2>1
  <2> QED
    BY <1>6, <1>7, <2>2 DEF QueueFits
<1>14. \A r \in Seasons : ReservationCountOf(escrow, r) \in Nat
  BY CountType
<1>15. ActivationThreshold \in Nat /\ ActivationThreshold > 0
  BY LauncherConstants
<1>16. ASSUME NEW prs \in SUBSET PendingReservation, IsFiniteSet(prs),
              prs \subseteq pending[s] \cup {pr}, DeployTokens(s, prs, held)
       PROVE  /\ \A r \in Seasons, k \in Creators :
                    /\ SlotOf(escrow', r, k).reserved = SlotOf(held, r, k).reserved
                    /\ SlotOf(escrow', r, k).slotIndex = SlotOf(held, r, k).slotIndex
              /\ TokensFit(tokens', escrow') /\ RecordsFit(stake', tokens', escrow')
              /\ Cardinality(Community(tokens', s))
                    = Cardinality(Community(tokens, s)) + Cardinality(prs)
              /\ \A r \in Seasons \ {s} : Community(tokens', r) = Community(tokens, r)
  <2>1. \A p, q \in prs : p.creator = q.creator => p = q
    BY <1>12, <1>16
  <2>2. \A q \in prs : SlotOf(held, s, q.creator).slotIndex = q.slotIndex
    BY <1>5, <1>8, <1>12, <1>16
  <2> QED
    BY <1>1, <1>2, <1>9, <1>10, <1>11, <1>16, <2>1, <2>2, DeployBooks
<1>17. CASE s \in activated /\ DeployTokens(s, {pr}, held) /\ UNCHANGED <<pending, activated>>
  <2>1. {pr} \in SUBSET PendingReservation /\ IsFiniteSet({pr}) /\ Cardinality({pr}) = 1
    BY <1>5, FS_Singleton
  <2>2. QueueFits(pending, held, activated)
    <3>1. pending[s] = {}
      BY <1>2, <1>6, <1>17 DEF QueueFits
    <3> SUFFICES ASSUME NEW r \in Seasons
                 PROVE  /\ r \in activated => pending[r] = {}
                        /\ r \notin activated =>
                              \A k \in Reservers(held, r) : \E q \in pending[r] : q.creator = k
                        /\ \A q \in pending[r] :
                              /\ SlotOf(held, r, q.creator).reserved
                              /\ SlotOf(held, r, q.creator).slotIndex = q.slotIndex
                        /\ \A p, q \in pending[r] : p.creator = q.creator => p = q
      BY DEF QueueFits
    <3> QED
      BY <1>13, <1>17, <3>1
  <2>3. /\ TokensFit(tokens', escrow') /\ RecordsFit(stake', tokens', escrow')
        /\ Cardinality(Community(tokens', s)) = Cardinality(Community(tokens, s)) + 1
        /\ \A r \in Seasons \ {s} : Community(tokens', r) = Community(tokens, r)
        /\ \A r \in Seasons : ReservationCountOf(escrow', r) = ReservationCountOf(held, r)
        /\ SlotsNumbered(escrow') /\ QueueFits(pending, escrow', activated)
    <3>1. {pr} \subseteq pending[s] \cup {pr} /\ DeployTokens(s, {pr}, held)
      BY <1>17
    <3>2. /\ \A r \in Seasons, k \in Creators :
                /\ SlotOf(escrow', r, k).reserved = SlotOf(held, r, k).reserved
                /\ SlotOf(escrow', r, k).slotIndex = SlotOf(held, r, k).slotIndex
          /\ TokensFit(tokens', escrow') /\ RecordsFit(stake', tokens', escrow')
          /\ Cardinality(Community(tokens', s))
                = Cardinality(Community(tokens, s)) + Cardinality({pr})
          /\ \A r \in Seasons \ {s} : Community(tokens', r) = Community(tokens, r)
      BY <1>16, <2>1, <3>1
    <3>3. SlotsNumbered(held) /\ pending \in [Seasons -> SUBSET PendingReservation]
      BY <1>1, <1>7
    <3>4. /\ \A r \in Seasons : ReservationCountOf(escrow', r) = ReservationCountOf(held, r)
          /\ SlotsNumbered(escrow') /\ QueueFits(pending, escrow', activated)
      BY <2>2, <3>2, <3>3, SameSlots
    <3> QED
      BY <2>1, <3>2, <3>4
  <2>4. launchCount' = [launchCount EXCEPT ![s] = @ + 1]
    BY <1>17, <2>1 DEF DeployTokens
  <2>5. CountsFit'
    <3> SUFFICES ASSUME NEW r \in Seasons
                 PROVE  /\ launchCount'[r] = Cardinality(Community(tokens', r))
                        /\ r \in activated =>
                              /\ launchCount'[r] = ReservationCountOf(escrow', r)
                              /\ launchCount'[r] >= ActivationThreshold
                        /\ r \notin activated =>
                              /\ launchCount'[r] = 0
                              /\ ReservationCountOf(escrow', r) < ActivationThreshold
      BY <1>17 DEF CountsFit, CommunityTokens, Community
    <3>1. /\ launchCount[r] = Cardinality(Community(tokens, r))
          /\ r \in activated => /\ launchCount[r] = ReservationCountOf(escrow, r)
                                /\ launchCount[r] >= ActivationThreshold
          /\ r \notin activated => /\ launchCount[r] = 0
                                   /\ ReservationCountOf(escrow, r) < ActivationThreshold
      BY <1>6 DEF CountsFit, CommunityTokens, Community
    <3>2. CASE r = s
      <4>1. launchCount'[s] = launchCount[s] + 1 /\ launchCount[s] \in Nat
        BY <1>1, <1>2, <2>4
      <4>2. ReservationCountOf(escrow', s) = ReservationCountOf(escrow, s) + 1
        BY <1>2, <1>7, <2>3 DEF count
      <4> QED
        BY <1>14, <1>15, <1>17, <2>3, <3>1, <3>2, <4>1, <4>2
    <3>3. CASE r # s
      <4>1. launchCount'[r] = launchCount[r]
        BY <1>1, <2>4, <3>3
      <4> QED
        BY <1>7, <2>3, <3>1, <3>3, <4>1
    <3> QED
      BY <3>2, <3>3
  <2> QED
    BY <1>17, <2>3, <2>5 DEF BooksInv
<1>18. CASE /\ s \notin activated /\ count + 1 = ActivationThreshold
            /\ Cardinality(pending[s] \cup {pr}) = ActivationThreshold
            /\ activated' = activated \cup {s}
            /\ DeployTokens(s, pending[s] \cup {pr}, held)
            /\ pending' = [pending EXCEPT ![s] = {}]
  <2>1. pending[s] \cup {pr} \in SUBSET PendingReservation /\ IsFiniteSet(pending[s] \cup {pr})
    BY <1>1, <1>2, <1>5, FS_AddElement
  <2>2. /\ pending' \in [Seasons -> SUBSET PendingReservation] /\ pending'[s] = {}
        /\ \A r \in Seasons \ {s} : pending'[r] = pending[r]
    BY <1>1, <1>2, <1>18
  <2>3. QueueFits(pending', held, activated')
    <3> SUFFICES ASSUME NEW r \in Seasons
                 PROVE  /\ r \in activated' => pending'[r] = {}
                        /\ r \notin activated' =>
                              \A k \in Reservers(held, r) : \E q \in pending'[r] : q.creator = k
                        /\ \A q \in pending'[r] :
                              /\ SlotOf(held, r, q.creator).reserved
                              /\ SlotOf(held, r, q.creator).slotIndex = q.slotIndex
                        /\ \A p, q \in pending'[r] : p.creator = q.creator => p = q
      BY DEF QueueFits
    <3> QED
      BY <1>13, <1>18, <2>2
  <2>4. /\ TokensFit(tokens', escrow') /\ RecordsFit(stake', tokens', escrow')
        /\ Cardinality(Community(tokens', s))
              = Cardinality(Community(tokens, s)) + ActivationThreshold
        /\ \A r \in Seasons \ {s} : Community(tokens', r) = Community(tokens, r)
        /\ \A r \in Seasons : ReservationCountOf(escrow', r) = ReservationCountOf(held, r)
        /\ SlotsNumbered(escrow') /\ QueueFits(pending', escrow', activated')
    <3>1. /\ \A r \in Seasons, k \in Creators :
                /\ SlotOf(escrow', r, k).reserved = SlotOf(held, r, k).reserved
                /\ SlotOf(escrow', r, k).slotIndex = SlotOf(held, r, k).slotIndex
          /\ TokensFit(tokens', escrow') /\ RecordsFit(stake', tokens', escrow')
          /\ Cardinality(Community(tokens', s))
                = Cardinality(Community(tokens, s)) + Cardinality(pending[s] \cup {pr})
          /\ \A r \in Seasons \ {s} : Community(tokens', r) = Community(tokens, r)
      BY <1>16, <1>18, <2>1
    <3>2. /\ \A r \in Seasons : ReservationCountOf(escrow', r) = ReservationCountOf(held, r)
          /\ SlotsNumbered(escrow') /\ QueueFits(pending', escrow', activated')
      <4> DEFINE n == escrow'
                 Q == pending'
                 A == activated'
      <4>1. /\ \A r \in Seasons, k \in Creators :
                  /\ SlotOf(n, r, k).reserved = SlotOf(held, r, k).reserved
                  /\ SlotOf(n, r, k).slotIndex = SlotOf(held, r, k).slotIndex
            /\ SlotsNumbered(held) /\ QueueFits(Q, held, A)
            /\ Q \in [Seasons -> SUBSET PendingReservation]
        BY <1>7, <2>2, <2>3, <3>1
      <4> HIDE DEF n, Q, A
      <4>2. /\ \A r \in Seasons : ReservationCountOf(n, r) = ReservationCountOf(held, r)
            /\ SlotsNumbered(n) /\ QueueFits(Q, n, A)
        BY <4>1, SameSlots
      <4> QED
        BY <4>2 DEF n, Q, A
    <3> QED
      BY <1>18, <3>1, <3>2
  <2>5. launchCount' = [launchCount EXCEPT ![s] = @ + ActivationThreshold]
    BY <1>18 DEF DeployTokens
  <2>6. CountsFit'
    <3> SUFFICES ASSUME NEW r \in Seasons
                 PROVE  /\ launchCount'[r] = Cardinality(Community(tokens', r))
                        /\ r \in activated' =>
                              /\ launchCount'[r] = ReservationCountOf(escrow', r)
                              /\ launchCount'[r] >= ActivationThreshold
                        /\ r \notin activated' =>
                              /\ launchCount'[r] = 0
                              /\ ReservationCountOf(escrow', r) < ActivationThreshold
      BY DEF CountsFit, CommunityTokens, Community
    <3>1. /\ launchCount[r] = Cardinality(Community(tokens, r))
          /\ r \in activated => /\ launchCount[r] = ReservationCountOf(escrow, r)
                                /\ launchCount[r] >= ActivationThreshold
          /\ r \notin activated => /\ launchCount[r] = 0
                                   /\ ReservationCountOf(escrow, r) < ActivationThreshold
      BY <1>6 DEF CountsFit, CommunityTokens, Community
    <3>2. CASE r = s
      <4>1. launchCount'[s] = launchCount[s] + ActivationThreshold /\ launchCount[s] = 0
        BY <1>1, <1>2, <1>18, <2>5, <3>1, <3>2
      <4>2. ReservationCountOf(escrow', s) = ActivationThreshold
        BY <1>2, <1>7, <1>18, <2>4
      <4> QED
        BY <1>15, <1>18, <2>4, <3>1, <3>2, <4>1, <4>2
    <3>3. CASE r # s
      <4>1. launchCount'[r] = launchCount[r] /\ (r \in activated' <=> r \in activated)
        BY <1>1, <1>18, <2>5, <3>3
      <4> QED
        BY <1>7, <2>4, <3>1, <3>3, <4>1
    <3> QED
      BY <3>2, <3>3
  <2> QED
    BY <2>4, <2>6 DEF BooksInv
<1>19. CASE /\ s \notin activated /\ count + 1 # ActivationThreshold
            /\ pending' = [pending EXCEPT ![s] = @ \cup {pr}]
            /\ escrow' = held
            /\ UNCHANGED <<tokens, activated, launchCount, stake>>
  <2>1. /\ pending'[s] = pending[s] \cup {pr}
        /\ \A r \in Seasons \ {s} : pending'[r] = pending[r]
    BY <1>1, <1>2, <1>19
  <2>2. QueueFits(pending', held, activated)
    <3> SUFFICES ASSUME NEW r \in Seasons
                 PROVE  /\ r \in activated => pending'[r] = {}
                        /\ r \notin activated =>
                              \A k \in Reservers(held, r) : \E q \in pending'[r] : q.creator = k
                        /\ \A q \in pending'[r] :
                              /\ SlotOf(held, r, q.creator).reserved
                              /\ SlotOf(held, r, q.creator).slotIndex = q.slotIndex
                        /\ \A p, q \in pending'[r] : p.creator = q.creator => p = q
      BY DEF QueueFits
    <3>1. CASE r = s
      <4>1. \A k \in Reservers(held, s) : \E q \in pending'[s] : q.creator = k
        <5>1. \A k \in Reservers(escrow, s) : \E q \in pending[s] : q.creator = k
          BY <1>2, <1>6, <1>19 DEF QueueFits
        <5> QED
          BY <1>5, <1>7, <2>1, <5>1
      <4>2. \A q \in pending'[s] : /\ SlotOf(held, s, q.creator).reserved
                                   /\ SlotOf(held, s, q.creator).slotIndex = q.slotIndex
        BY <1>5, <1>8, <1>12, <2>1
      <4> QED
        BY <1>12, <1>19, <2>1, <3>1, <4>1, <4>2
    <3>2. CASE r # s
      BY <1>13, <2>1, <3>2
    <3> QED
      BY <3>1, <3>2
  <2>3. CountsFit'
    <3> SUFFICES ASSUME NEW r \in Seasons
                 PROVE  /\ launchCount[r] = Cardinality(Community(tokens, r))
                        /\ r \in activated => /\ launchCount[r] = ReservationCountOf(held, r)
                                              /\ launchCount[r] >= ActivationThreshold
                        /\ r \notin activated =>
                              /\ launchCount[r] = 0
                              /\ ReservationCountOf(held, r) < ActivationThreshold
      BY <1>19 DEF CountsFit, CommunityTokens, Community
    <3>1. /\ launchCount[r] = Cardinality(Community(tokens, r))
          /\ r \in activated => /\ launchCount[r] = ReservationCountOf(escrow, r)
                                /\ launchCount[r] >= ActivationThreshold
          /\ r \notin activated => /\ launchCount[r] = 0
                                   /\ ReservationCountOf(escrow, r) < ActivationThreshold
      BY <1>6 DEF CountsFit, CommunityTokens, Community
    <3>2. CASE r = s
      BY <1>3, <1>7, <1>15, <1>19, <3>1, <3>2 DEF count
    <3>3. CASE r # s
      BY <1>7, <3>1, <3>3
    <3> QED
      BY <3>2, <3>3
  <2> QED
    BY <1>7, <1>10, <1>11, <1>19, <2>2, <2>3 DEF BooksInv
<1> QED
  BY <1>4, <1>17, <1>18, <1>19

\* abortSeason marks slots as refunded: numbers, queue and amounts stay, and nobody
\* who has a token was refunded.
LEMMA AbortBooks ==
  ASSUME SafeInv, BooksInv, NEW s \in Seasons, NEW rejecting \in SUBSET Creators,
         AbortSeason(s, rejecting)
  PROVE  BooksInv'
<1>1. /\ escrow \in EscrowState /\ tokens \subseteq Tokens
      /\ pending \in [Seasons -> SUBSET PendingReservation]
  BY DEF SafeInv, TypeOK, EscrowTypeOK
<1>2. /\ UNCHANGED <<tokens, pending, activated, launchCount, stake>>
      /\ \E L : escrow'.escrows = Marked(escrow, {}, L)
  BY DEF AbortSeason, tokenVars, queueVars, RefundedAll
<1>3. \A r \in Seasons, c \in Creators :
         /\ SlotOf(escrow', r, c).reserved = SlotOf(escrow, r, c).reserved
         /\ SlotOf(escrow', r, c).slotIndex = SlotOf(escrow, r, c).slotIndex
         /\ SlotOf(escrow', r, c).amount = SlotOf(escrow, r, c).amount
         /\ SlotOf(escrow', r, c).released <=> SlotOf(escrow, r, c).released
  BY <1>1, <1>2, MarkedFields DEF SlotOf, Deposits
<1> QED
  BY <1>1, <1>2, <1>3, BooksFollow

LEMMA ClaimBooks ==
  ASSUME SafeInv, BooksInv, NEW s \in Seasons, NEW c \in Creators, ClaimPendingRefund(s, c)
  PROVE  BooksInv'
<1>1. /\ tokens \subseteq Tokens /\ pending \in [Seasons -> SUBSET PendingReservation]
  BY DEF SafeInv, TypeOK
<1>2. UNCHANGED <<tokens, pending, activated, launchCount, stake>>
      /\ escrow'.escrows = escrow.escrows
  BY DEF ClaimPendingRefund, EscrowClaim, PendingRefundClaimed, tokenVars, queueVars
<1>3. \A r \in Seasons, k \in Creators : SlotOf(escrow', r, k) = SlotOf(escrow, r, k)
  BY <1>2 DEF SlotOf
<1> QED
  BY <1>1, <1>2, <1>3, BooksFollow

\* applySoftFilter: only the records of the batch change, and each keeps its cost,
\* its slot and one of the two marks.
LEMMA SoftFilterBooks ==
  ASSUME SafeInv, BooksInv, NEW s \in Seasons,
         NEW survivors \in SUBSET CommunityTokens(s), NEW forfeited \in SUBSET CommunityTokens(s),
         ApplySoftFilter(s, survivors, forfeited)
  PROVE  BooksInv'
<1>1. /\ UNCHANGED <<tokens, pending, activated, launchCount, escrow>>
      /\ stake' = SoftFilterApplied(stake, survivors, forfeited)
      /\ CanApplySoftFilter(stake, survivors, forfeited)
  BY DEF ApplySoftFilter, tokenVars, queueVars
<1>2. survivors \cup forfeited \subseteq {t \in tokens : ~IsProtocolLaunched(t)}
      /\ tokens \subseteq Tokens
  BY DEF CommunityTokens, SafeInv, TypeOK
<1>3. RecordsFit(stake', tokens, escrow)
  <2> SUFFICES ASSUME NEW t \in Tokens
               PROVE  IF t \in tokens /\ ~IsProtocolLaunched(t)
                      THEN RecordFits(stake'.launchInfo[t], SlotOf(escrow, t.season, t.creator))
                      ELSE stake'.launchInfo[t] = NoLaunch
    BY DEF RecordsFit
  <2> DEFINE info == stake.launchInfo[t]
             next == stake'.launchInfo[t]
             Z == survivors \cup forfeited
  <2>1. next = [slotIndex |-> info.slotIndex, costPaid |-> info.costPaid,
                stakeAmount |-> IF t \in Z THEN 0 ELSE info.stakeAmount,
                refunded |-> info.refunded \/ t \in survivors,
                filteredEarly |-> info.filteredEarly \/ t \in forfeited]
    BY <1>1, Zenon DEF SoftFilterApplied, Settled
  <2>2. CASE t \in Z
    <3>1. t \in tokens /\ ~IsProtocolLaunched(t) /\ ~Resolved(info)
          /\ ~(t \in survivors /\ t \in forfeited)
      BY <1>1, <1>2, <2>2 DEF CanApplySoftFilter
    <3>2. RecordFits(info, SlotOf(escrow, t.season, t.creator))
      BY <3>1 DEF BooksInv, RecordsFit
    <3> HIDE DEF info, next
    <3>3. /\ next.slotIndex = info.slotIndex /\ next.costPaid = info.costPaid
          /\ next.stakeAmount = 0
          /\ next.refunded <=> (info.refunded \/ t \in survivors)
          /\ next.filteredEarly <=> (info.filteredEarly \/ t \in forfeited)
      BY <2>1, <2>2
    <3> QED
      BY <3>1, <3>2, <3>3 DEF RecordFits, Resolved, next
  <2>3. CASE t \notin Z
    <3>1. info \in LaunchInfo
      BY DEF SafeInv, TypeOK, StakeState
    <3>2. next = info
      BY <2>1, <2>3, <3>1 DEF LaunchInfo
    <3> QED
      BY <3>2 DEF BooksInv, RecordsFit
  <2> QED
    BY <2>2, <2>3
<1>4. CountsFit'
  BY <1>1 DEF BooksInv, CountsFit, CommunityTokens, IsProtocolLaunched
<1> QED
  BY <1>1, <1>3, <1>4 DEF BooksInv

\* The protocol's tokens are none of the community's.
LEMMA ProtocolBooks ==
  ASSUME SafeInv, BooksInv, NEW t \in ProtocolTickers, LaunchProtocolToken(t)
  PROVE  BooksInv'
<1> DEFINE new == [season |-> currentSeasonId, ticker |-> t, creator |-> Owner]
<1>1. /\ tokens' = tokens \cup {new}
      /\ UNCHANGED <<pending, activated, launchCount, escrow, stake>>
  BY DEF LaunchProtocolToken, queueVars, moneyVars
<1>2. IsProtocolLaunched(new)
  BY DEF IsProtocolLaunched
<1> HIDE DEF new
<1>3. \A s : Community(tokens', s) = Community(tokens, s)
  BY <1>1, <1>2 DEF Community
<1>4. TokensFit(tokens', escrow)
  BY <1>3 DEF BooksInv, TokensFit
<1>5. RecordsFit(stake, tokens', escrow)
  BY <1>1, <1>2 DEF BooksInv, RecordsFit
<1>6. CountsFit'
  BY <1>1, <1>3 DEF BooksInv, CountsFit, CommunityTokens, Community
<1> QED
  BY <1>1, <1>4, <1>5, <1>6 DEF BooksInv

LEMMA BooksStep == SafeInv /\ BooksInv /\ [Next]_vars => BooksInv'
<1> SUFFICES ASSUME SafeInv, BooksInv, [Next]_vars PROVE BooksInv'
  OBVIOUS
<1> USE DEF seasonVars, tokenVars, tickerVars, queueVars, configVars, moneyVars, historyVars
<1>1. ASSUME UNCHANGED <<tokens, pending, activated, launchCount, escrow, stake>>
      PROVE  BooksInv'
  BY <1>1 DEF BooksInv, CountsFit, CommunityTokens, IsProtocolLaunched
<1>2. CASE UNCHANGED vars
  BY <1>1, <1>2 DEF vars
<1>3. ASSUME NEW cost \in BaseLaunchCosts, NEW enabled \in StakeModes, SetLaunchConfig(cost, enabled)
      PROVE  BooksInv'
  BY <1>1, <1>3 DEF SetLaunchConfig
<1>4. ASSUME NEW t \in Blockable, AddTickerToBlocklist(t) PROVE BooksInv'
  BY <1>1, <1>4 DEF AddTickerToBlocklist
<1>5. ASSUME NEW p \in BOOLEAN, SetPaused(p) PROVE BooksInv'
  BY <1>1, <1>5 DEF SetPaused
<1>6. CASE StartSeason
  BY <1>1, <1>6 DEF StartSeason
<1>7. ASSUME NEW s \in Seasons, CloseWindow(s) \/ AdvancePhase(s) PROVE BooksInv'
  BY <1>1, <1>7 DEF CloseWindow, AdvancePhase
<1>8. ASSUME NEW s \in Seasons, NEW list \in FinalistLists, SetFinalists(s, list) PROVE BooksInv'
  BY <1>1, <1>8 DEF SetFinalists
<1>9. ASSUME NEW s \in Seasons, NEW t \in tokens, SetWinnerTicker(s, t) PROVE BooksInv'
  BY <1>1, <1>9 DEF SetWinnerTicker
<1>10. CASE Next
  BY <1>3, <1>4, <1>5, <1>6, <1>7, <1>8, <1>9, <1>10,
     ReserveBooks, AbortBooks, ClaimBooks, SoftFilterBooks, ProtocolBooks DEF Next
<1> QED
  BY <1>2, <1>10

LEMMA BooksInvariant == Spec => []BooksInv
  BY InitInv, StepInv, InitBooks, BooksStep, PTL DEF Spec

\* What the two halves of BooksAgree say of counts and slots, read off the pointwise
\* invariant.
LEMMA BooksAgreeIfFit == SafeInv /\ BooksInv => BooksAgree
<1> SUFFICES ASSUME SafeInv, BooksInv PROVE BooksAgree
  OBVIOUS
<1>1. /\ SlotsNumbered(escrow) /\ QueueFits(pending, escrow, activated)
      /\ TokensFit(tokens, escrow) /\ RecordsFit(stake, tokens, escrow) /\ CountsFit
      /\ pending \in [Seasons -> SUBSET PendingReservation]
      /\ \A r \in Seasons : IsFiniteSet(pending[r])
  BY DEF BooksInv, SafeInv, TypeOK
<1>2. Lockstep
  <2> SUFFICES ASSUME NEW s \in Seasons
               PROVE  LET reservers == Reservers(escrow, s)
                          count == Cardinality(reservers)
                      IN  /\ {escrow.escrows[<<s, c>>].slotIndex : c \in reservers} = 0..(count - 1)
                          /\ count <= MaxLaunches
                          /\ launchCount[s] = Cardinality(CommunityTokens(s))
                          /\ IF s \in activated
                             THEN /\ launchCount[s] = count /\ count >= ActivationThreshold
                                  /\ pending[s] = {}
                             ELSE /\ launchCount[s] = 0 /\ count < ActivationThreshold
                                  /\ {pr.creator : pr \in pending[s]} = reservers
                                  /\ Cardinality(pending[s]) = count
    BY DEF Lockstep
  <2>1. ASSUME s \notin activated
        PROVE  /\ {pr.creator : pr \in pending[s]} = Reservers(escrow, s)
               /\ Cardinality(pending[s]) = Cardinality(Reservers(escrow, s))
    <3> DEFINE f == [pr \in pending[s] |-> pr.creator]
    <3>1. {pr.creator : pr \in pending[s]} = Reservers(escrow, s)
      BY <1>1, <2>1 DEF QueueFits, Reservers, SlotOf, PendingReservation
    <3>2. f \in [pending[s] -> Reservers(escrow, s)]
      BY <3>1
    <3>3. \A p, q \in pending[s] : f[p] = f[q] => p = q
      BY <1>1 DEF QueueFits
    <3>4. \A c \in Reservers(escrow, s) : \E pr \in pending[s] : f[pr] = c
      BY <3>1
    <3> HIDE DEF f
    <3>5. f \in Injection(pending[s], Reservers(escrow, s))
      BY <3>2, <3>3 DEF Injection, IsInjective
    <3>6. f \in Surjection(pending[s], Reservers(escrow, s))
      BY <3>2, <3>4 DEF Surjection
    <3>7. f \in Bijection(pending[s], Reservers(escrow, s))
      BY <3>5, <3>6 DEF Bijection
    <3> QED
      BY <1>1, <3>1, <3>7, FS_Bijection DEF ExistsBijection
  <2>2. {escrow.escrows[<<s, c>>].slotIndex : c \in Reservers(escrow, s)}
           = 0..(Cardinality(Reservers(escrow, s)) - 1)
        /\ Cardinality(Reservers(escrow, s)) <= MaxLaunches
    BY <1>1 DEF SlotsNumbered, SlotOf, ReservationCountOf
  <2>3. /\ launchCount[s] = Cardinality(CommunityTokens(s))
        /\ s \in activated => /\ launchCount[s] = Cardinality(Reservers(escrow, s))
                              /\ launchCount[s] >= ActivationThreshold
        /\ s \notin activated => /\ launchCount[s] = 0
                                 /\ Cardinality(Reservers(escrow, s)) < ActivationThreshold
    BY <1>1 DEF CountsFit, ReservationCountOf
  <2>4. s \in activated => pending[s] = {}
    BY <1>1 DEF QueueFits
  <2> QED
    BY <2>1, <2>2, <2>3, <2>4
<1>3. SlotLedgersAgree
  <2>1. ASSUME NEW s \in Seasons, NEW c \in Creators
        PROVE  escrow.escrows[<<s, c>>].released
                  <=> Cardinality({t \in CommunityTokens(s) : t.creator = c}) = 1
    <3> DEFINE M == {t \in Community(tokens, s) : t.creator = c}
    <3>1. M = {t \in CommunityTokens(s) : t.creator = c} /\ IsFiniteSet(M)
      BY TokensFinite, FS_Subset DEF Community, CommunityTokens, SafeInv, TypeOK
    <3>2. CASE SlotOf(escrow, s, c).released
      <4>1. PICK t \in Community(tokens, s) : t.creator = c
        BY <1>1, <3>2 DEF TokensFit
      <4>2. M = {t}
        BY <1>1, <4>1 DEF TokensFit
      <4> QED
        BY <3>1, <3>2, <4>2, FS_Singleton DEF SlotOf
    <3>3. CASE ~SlotOf(escrow, s, c).released
      <4>1. M = {}
        BY <1>1, <3>3 DEF TokensFit
      <4>2. Cardinality(M) = 0
        BY <4>1, FS_EmptySet
      <4> HIDE DEF M
      <4>3. Cardinality({t \in CommunityTokens(s) : t.creator = c}) = 0
        BY <3>1, <4>2
      <4> QED
        BY <3>3, <4>3 DEF SlotOf
    <3> QED
      BY <3>2, <3>3
  <2>2. ASSUME NEW t \in Tokens
        PROVE  LET r == escrow.escrows[<<t.season, t.creator>>]
                   info == stake.launchInfo[t]
               IN  IF t \in tokens /\ ~IsProtocolLaunched(t)
                   THEN /\ info.costPaid = r.amount /\ info.slotIndex = r.slotIndex
                        /\ info.stakeAmount \in {0, info.costPaid}
                        /\ Resolved(info) => info.stakeAmount = 0
                        /\ ~(info.refunded /\ info.filteredEarly)
                   ELSE info = NoLaunch
    BY <1>1 DEF RecordsFit, RecordFits, SlotOf
  <2> QED
    BY <2>1, <2>2 DEF SlotLedgersAgree
<1> QED
  BY <1>2, <1>3 DEF BooksAgree

\* Counters, slots, queue, tokens and stake records are one set of books, for any
\* number of slots, any threshold and any prices.
THEOREM LauncherBooks == Spec => []BooksAgree
  BY InitInv, StepInv, BooksInvariant, BooksAgreeIfFit, PTL DEF Spec

(***************************************************************************)
(* The refinement of DepositFates                                          *)
(***************************************************************************)

\* Places of deposits, read through Fates, that a step moves from one to another.
LEMMA MovesPlaces ==
  ASSUME NEW D \in SUBSET Deposits, NEW from, NEW to,
         \A s \in Seasons, c \in Creators :
            IF <<s, c>> \in D THEN PlaceOf(s, c) \in from /\ PlaceOf(s, c)' = to
            ELSE PlaceOf(s, c)' = PlaceOf(s, c)
  PROVE  Fates!Move(D, from, to)
<1> DEFINE place == [d \in Deposits |-> PlaceOf(d[1], d[2])]
<1>1. \A d \in Deposits : d[1] \in Seasons /\ d[2] \in Creators /\ d = <<d[1], d[2]>>
  BY DEF Deposits
<1>2. \A d \in D : place[d] \in from
  BY <1>1
<1>3. \A d \in Deposits : place'[d] = IF d \in D THEN to ELSE place[d]
  BY <1>1
<1>4. place' = [d \in Seasons \X Creators |-> IF d \in D THEN to ELSE place[d]]
  BY <1>3 DEF Deposits
<1> QED
  BY <1>2, <1>4 DEF Fates!Move

\* Where the deposit of c in season s is, one line per place, in an escrow storage e
\* and with the stake paid out or not.
PlaceIs(e, settledNow, s, c, place) ==
    LET r == SlotOf(e, s, c) IN
    /\ ~r.reserved => place = "absent"
    /\ r.reserved /\ ~r.released /\ ~r.refunded => place = "held"
    /\ r.released => place = IF settledNow THEN "settled" ELSE "deployed"
    /\ r.refunded => place = IF e.pendingRefunds[<<s, c>>] > 0 THEN "owed" ELSE "returned"

LEMMA PlaceValues ==
  ASSUME NEW s \in Seasons, NEW c \in Creators, NEW e, AllOrNothing(e), NEW settledNow,
         NEW place,
         place = CASE ~SlotOf(e, s, c).reserved -> "absent"
                   [] Live(SlotOf(e, s, c)) -> "held"
                   [] SlotOf(e, s, c).released -> IF settledNow THEN "settled" ELSE "deployed"
                   [] OTHER -> IF e.pendingRefunds[<<s, c>>] > 0 THEN "owed" ELSE "returned"
  PROVE  PlaceIs(e, settledNow, s, c, place)
<1> DEFINE r == SlotOf(e, s, c)
<1>1. /\ r.released => r.reserved
      /\ r.refunded => r.reserved
      /\ ~(r.released /\ r.refunded)
  BY DEF AllOrNothing, SlotOf
<1> QED
  BY <1>1 DEF PlaceIs, Live

LEMMA PlaceNow ==
  ASSUME NEW s \in Seasons, NEW c \in Creators, AllOrNothing(escrow)
  PROVE  PlaceIs(escrow, SettledDeposit(s, c), s, c, PlaceOf(s, c))
  BY PlaceValues DEF PlaceOf, SlotOf

LEMMA PlaceNext ==
  ASSUME NEW s \in Seasons, NEW c \in Creators, AllOrNothing(escrow')
  PROVE  PlaceIs(escrow', SettledDeposit(s, c)', s, c, PlaceOf(s, c)')
  BY PlaceValues DEF PlaceOf, SlotOf

\* A deposit stays where it is if its slot, its credit and its settlement do.
LEMMA PlaceStays ==
  ASSUME NEW s \in Seasons, NEW c \in Creators, AllOrNothing(escrow), AllOrNothing(escrow'),
         SlotOf(escrow', s, c).reserved <=> SlotOf(escrow, s, c).reserved,
         SlotOf(escrow', s, c).released <=> SlotOf(escrow, s, c).released,
         SlotOf(escrow', s, c).refunded <=> SlotOf(escrow, s, c).refunded,
         escrow'.pendingRefunds[<<s, c>>] = escrow.pendingRefunds[<<s, c>>],
         SettledDeposit(s, c)' <=> SettledDeposit(s, c)
  PROVE  PlaceOf(s, c)' = PlaceOf(s, c)
  BY PlaceNow, PlaceNext DEF PlaceIs

SettledIn(k, T, s, c) == \E t \in Community(T, s) : t.creator = c /\ Resolved(k.launchInfo[t])

LEMMA SettledSame ==
  ASSUME NEW s, NEW c
  PROVE  /\ SettledDeposit(s, c) <=> SettledIn(stake, tokens, s, c)
         /\ SettledDeposit(s, c)' <=> SettledIn(stake', tokens', s, c)
  BY DEF SettledDeposit, SettledIn, CommunityTokens, Community, IsProtocolLaunched

\* A deployment takes the deposits of prs, which an escrow storage e holds, to
\* "deployed", and no other deposit anywhere.
LEMMA DeployPlaces ==
  ASSUME NEW e \in EscrowState, AllOrNothing(e), AllOrNothing(escrow'),
         tokens \subseteq Tokens,
         NEW s \in Seasons, NEW prs \in SUBSET PendingReservation,
         TokensFit(tokens, e), DeployTokens(s, prs, e)
  PROVE  /\ \A pr \in prs : Live(SlotOf(e, s, pr.creator)) /\ PlaceOf(s, pr.creator)' = "deployed"
         /\ \A r \in Seasons, k \in Creators :
               ~(r = s /\ \E pr \in prs : pr.creator = k) =>
                  /\ SlotOf(escrow', r, k).reserved <=> SlotOf(e, r, k).reserved
                  /\ SlotOf(escrow', r, k).released <=> SlotOf(e, r, k).released
                  /\ SlotOf(escrow', r, k).refunded <=> SlotOf(e, r, k).refunded
                  /\ SettledDeposit(r, k)' <=> SettledDeposit(r, k)
         /\ escrow'.pendingRefunds = e.pendingRefunds
<1> DEFINE D == {TokenOf(s, pr) : pr \in prs}
           C == {pr.creator : pr \in prs}
           cost == [t \in D |-> e.escrows[<<s, t.creator>>].amount]
           slotOf == [t \in D |-> (CHOOSE pr \in prs : TokenOf(s, pr) = t).slotIndex]
<1>1. /\ CanRelease(e, s, C) /\ escrow' = Released(e, s, C)
      /\ tokens' = tokens \cup D
      /\ stake' = LaunchesRecorded(stake, cost, slotOf, refundableStakeEnabled)
  BY DEF DeployTokens
<1>2. C \in SUBSET Creators
  BY DEF PendingReservation
<1>3. \A t \in D : t \in Tokens /\ t.creator \in C /\ t.season = s /\ ~IsProtocolLaunched(t)
  BY <1>2, TokenConstants DEF PendingReservation, TokenOf, Tokens, IsProtocolLaunched
<1>4. /\ \A t \in D : ~Resolved(stake'.launchInfo[t])
      /\ \A t \in Tokens \ D : stake'.launchInfo[t] = stake.launchInfo[t]
  <2> DEFINE infoOf(t) == [slotIndex |-> slotOf[t], costPaid |-> cost[t],
                           stakeAmount |-> IF refundableStakeEnabled THEN cost[t] ELSE 0,
                           refunded |-> FALSE, filteredEarly |-> FALSE]
  <2>1. /\ \A t \in D : stake'.launchInfo[t] = infoOf(t)
        /\ \A t \in Tokens \ D : stake'.launchInfo[t] = stake.launchInfo[t]
    BY <1>1, <1>3 DEF LaunchesRecorded
  <2>2. \A t : ~infoOf(t).refunded /\ ~infoOf(t).filteredEarly
    OBVIOUS
  <2> HIDE DEF infoOf
  <2> QED
    BY <2>1, <2>2 DEF Resolved
<1>5. \A r \in Seasons, k \in Creators :
         /\ SlotOf(escrow', r, k).reserved <=> SlotOf(e, r, k).reserved
         /\ SlotOf(escrow', r, k).released <=> (SlotOf(e, r, k).released \/ (r = s /\ k \in C))
         /\ SlotOf(escrow', r, k).refunded <=> SlotOf(e, r, k).refunded
  <2> SUFFICES ASSUME NEW r \in Seasons, NEW k \in Creators
               PROVE  /\ SlotOf(escrow', r, k).reserved <=> SlotOf(e, r, k).reserved
                      /\ SlotOf(escrow', r, k).released
                            <=> (SlotOf(e, r, k).released \/ (r = s /\ k \in C))
                      /\ SlotOf(escrow', r, k).refunded <=> SlotOf(e, r, k).refunded
    OBVIOUS
  <2>1. <<r, k>> \in Deposits /\ (<<r, k>> \in {s} \X C <=> r = s /\ k \in C)
    BY DEF Deposits
  <2>2. escrow'.escrows = Marked(e, {s} \X C, {})
    BY <1>1 DEF Released
  <2> QED
    BY <2>1, <2>2, MarkedFields DEF SlotOf
<1>6. \A pr \in prs : Live(SlotOf(e, s, pr.creator))
  BY <1>1 DEF CanRelease, SlotOf
<1>7. escrow'.pendingRefunds = e.pendingRefunds
  BY <1>1 DEF Released
<1>8. \A k \in Creators : k \in C <=> \E pr \in prs : pr.creator = k
  OBVIOUS
<1> HIDE DEF D, C, cost, slotOf
\* The creators of prs had no token, and those with one are none of them.
<1>9. \A r \in Seasons, k \in Creators :
         IF r = s /\ k \in C THEN ~SettledDeposit(r, k)'
         ELSE SettledDeposit(r, k)' <=> SettledDeposit(r, k)
  <2> SUFFICES ASSUME NEW r \in Seasons, NEW k \in Creators
               PROVE  IF r = s /\ k \in C THEN ~SettledIn(stake', tokens', r, k)
                      ELSE SettledIn(stake', tokens', r, k) <=> SettledIn(stake, tokens, r, k)
    BY SettledSame
  <2>1. /\ \A t \in Community(tokens', r) : t \in Community(tokens, r) \/ t \in D
        /\ Community(tokens, r) \subseteq Community(tokens', r)
    BY <1>1 DEF Community
  <2>2. CASE r = s /\ k \in C
    <3>1. \A t \in Community(tokens, s) : t.creator # k
      <4>1. ~SlotOf(e, s, k).released
        BY <1>6, <1>8, <2>2 DEF Live
      <4> QED
        BY <4>1 DEF TokensFit
    <3>2. \A t \in Community(tokens', r) : t.creator = k => t \in D
      BY <2>1, <2>2, <3>1
    <3> QED
      BY <1>4, <2>2, <3>2 DEF SettledIn
  <2>3. CASE ~(r = s /\ k \in C)
    <3>1. \A t \in Community(tokens', r) : t.season = r
      BY DEF Community
    <3>2. \A t \in Community(tokens', r) : t.creator = k => t \notin D
      BY <1>3, <2>3, <3>1
    <3>3. \A t \in Community(tokens, r) : t \in Tokens
      BY DEF Community
    <3>4. \A t \in Community(tokens, r) : t.creator = k =>
             stake'.launchInfo[t] = stake.launchInfo[t]
      BY <1>4, <2>1, <3>2, <3>3
    <3> QED
      BY <2>1, <2>3, <3>2, <3>4 DEF SettledIn
  <2> QED
    BY <2>2, <2>3
<1>10. ASSUME NEW pr \in prs PROVE PlaceOf(s, pr.creator)' = "deployed"
  <2>1. pr.creator \in Creators /\ pr.creator \in C
    BY <1>8 DEF PendingReservation
  <2>2. SlotOf(escrow', s, pr.creator).released /\ ~SettledDeposit(s, pr.creator)'
    BY <1>5, <1>9, <2>1
  <2> QED
    BY <2>1, <2>2, PlaceNext DEF PlaceIs
<1> QED
  BY <1>5, <1>6, <1>7, <1>8, <1>9, <1>10

\* reserve is a deposit, the launch of its season, or a later arrival.
LEMMA ReserveFates ==
  ASSUME SafeInv, BooksInv, SafeInv', NEW c \in Creators, NEW t \in Tickers, Reserve(c, t),
         NEW s \in Seasons, s = currentSeasonId
  PROVE  Fates!Next
<1> DEFINE count == ReservationCountOf(escrow, s)
           pr == [creator |-> c, ticker |-> t, slotIndex |-> count]
           held == Reserved(escrow, s, c, count, SlotCost(count))
<1>1. /\ escrow \in EscrowState /\ tokens \subseteq Tokens
      /\ pending \in [Seasons -> SUBSET PendingReservation]
      /\ AllOrNothing(escrow) /\ AllOrNothing(escrow')
      /\ activated \subseteq Seasons /\ s \in Seasons /\ aborted' = aborted
  BY DEF SafeInv, TypeOK, EscrowTypeOK, OneOutcome, Reserve, Started
<1>2. ~SlotOf(escrow, s, c).reserved /\ s \notin aborted /\ count \in Nat /\ SlotCost(count) \in Nat
  BY CountType, CostType DEF Reserve, CanReserveSlot, CanReserve, SlotOf, SafeInv, TypeOK
<1>3. \/ /\ s \in activated /\ DeployTokens(s, {pr}, held) /\ activated' = activated
      \/ /\ s \notin activated /\ activated' = activated \cup {s}
         /\ DeployTokens(s, pending[s] \cup {pr}, held)
      \/ /\ s \notin activated /\ escrow' = held
         /\ UNCHANGED <<tokens, activated, stake>>
  BY DEF Reserve
<1>4. pr \in PendingReservation /\ pr.creator = c
  BY <1>2 DEF PendingReservation
<1>5. held \in EscrowState /\ AllOrNothing(held)
  BY <1>1, <1>2, InvEscrowOK, ReservedOK DEF EscrowOK, CanReserve, SlotOf, Reserve, CanReserveSlot
<1>6. /\ SlotOf(held, s, c) = [reserved |-> TRUE, amount |-> SlotCost(count),
                               slotIndex |-> count, released |-> FALSE, refunded |-> FALSE]
      /\ \A r \in Seasons, k \in Creators :
            r # s \/ k # c => SlotOf(held, r, k) = SlotOf(escrow, r, k)
      /\ held.pendingRefunds = escrow.pendingRefunds
  BY <1>1 DEF Reserved, SlotOf, EscrowState, Deposits
<1>7. SlotOf(held, s, c).reserved /\ ~SlotOf(held, s, c).released /\ ~SlotOf(held, s, c).refunded
  BY <1>6
<1> HIDE DEF count, pr, held
<1>8. TokensFit(tokens, escrow) /\ TokensFit(tokens, held)
  <2>1. ~SlotOf(escrow, s, c).released
    BY <1>1, <1>2 DEF AllOrNothing, SlotOf
  <2> QED
    BY <1>1, <1>6, <1>7, <2>1 DEF BooksInv, TokensFit, Community, Tokens, IsProtocolLaunched
<1>9. PlaceOf(s, c) = "absent"
  BY <1>1, <1>2, PlaceNow DEF PlaceIs
<1>10. <<s, c>> \in Deposits
  BY <1>1 DEF Deposits
<1>11. \A r \in Seasons, k \in Creators : <<r, k>> \in {<<s, c>>} <=> r = s /\ k = c
  OBVIOUS
<1>12. CASE s \in activated /\ DeployTokens(s, {pr}, held) /\ activated' = activated
  <2>1. {pr} \in SUBSET PendingReservation
    BY <1>4
  <2>2. PlaceOf(s, c)' = "deployed"
    BY <1>1, <1>4, <1>5, <1>8, <1>12, <2>1, DeployPlaces
  <2>3. ASSUME NEW r \in Seasons, NEW k \in Creators, ~(r = s /\ k = c)
        PROVE  PlaceOf(r, k)' = PlaceOf(r, k)
    <3>1. /\ SlotOf(escrow', r, k).reserved <=> SlotOf(held, r, k).reserved
          /\ SlotOf(escrow', r, k).released <=> SlotOf(held, r, k).released
          /\ SlotOf(escrow', r, k).refunded <=> SlotOf(held, r, k).refunded
          /\ SettledDeposit(r, k)' <=> SettledDeposit(r, k)
          /\ escrow'.pendingRefunds = held.pendingRefunds
      BY <1>1, <1>4, <1>5, <1>8, <1>12, <2>1, <2>3, DeployPlaces
    <3> QED
      BY <1>1, <1>6, <2>3, <3>1, PlaceStays
  <2>4. Fates!Move({<<s, c>>}, {"absent"}, "deployed")
    BY <1>9, <1>10, <1>11, <2>2, <2>3, MovesPlaces
  <2>5. Outcome[s] = "launched" /\ Outcome' = Outcome
    BY <1>1, <1>12 DEF Outcome
  <2> QED
    BY <1>1, <2>4, <2>5 DEF Fates!Next, Fates!Join
<1>13. CASE /\ s \notin activated /\ activated' = activated \cup {s}
            /\ DeployTokens(s, pending[s] \cup {pr}, held)
  <2> DEFINE prs == pending[s] \cup {pr}
             D == {d \in Fates!Of(s) : PlaceOf(d[1], d[2]) = "held"} \cup {<<s, c>>}
  <2>1. prs \in SUBSET PendingReservation
    BY <1>1, <1>4
  <2>2. /\ \A q \in prs : Live(SlotOf(held, s, q.creator)) /\ PlaceOf(s, q.creator)' = "deployed"
        /\ \A r \in Seasons, k \in Creators :
              ~(r = s /\ \E q \in prs : q.creator = k) =>
                 /\ SlotOf(escrow', r, k).reserved <=> SlotOf(held, r, k).reserved
                 /\ SlotOf(escrow', r, k).released <=> SlotOf(held, r, k).released
                 /\ SlotOf(escrow', r, k).refunded <=> SlotOf(held, r, k).refunded
                 /\ SettledDeposit(r, k)' <=> SettledDeposit(r, k)
        /\ escrow'.pendingRefunds = held.pendingRefunds
    BY <1>1, <1>5, <1>8, <1>13, <2>1, DeployPlaces
  \* The queue holds all who have reserved, and all their ether is in escrow.
  <2>3. \A k \in Creators : (\E q \in prs : q.creator = k)
                               <=> k = c \/ PlaceOf(s, k) = "held"
    <3> SUFFICES ASSUME NEW k \in Creators, k # c
                 PROVE  (\E q \in prs : q.creator = k) <=> PlaceOf(s, k) = "held"
      BY <1>4
    <3>1. SlotOf(held, s, k) = SlotOf(escrow, s, k)
      BY <1>1, <1>6
    <3>2. ASSUME NEW q \in prs, q.creator = k PROVE PlaceOf(s, k) = "held"
      BY <1>1, <2>2, <3>1, <3>2, PlaceNow DEF PlaceIs, Live
    <3>3. ASSUME PlaceOf(s, k) = "held" PROVE \E q \in prs : q.creator = k
      <4>1. k \in Reservers(escrow, s)
        BY <1>1, <3>3, PlaceNow DEF PlaceIs, Reservers, SlotOf
      <4> QED
        BY <1>1, <1>13, <4>1 DEF BooksInv, QueueFits
    <3> QED
      BY <3>2, <3>3
  <2>4. \A r \in Seasons, k \in Creators :
           <<r, k>> \in D <=> r = s /\ \E q \in prs : q.creator = k
    <3> SUFFICES ASSUME NEW r \in Seasons, NEW k \in Creators
                 PROVE  <<r, k>> \in D <=> r = s /\ \E q \in prs : q.creator = k
      OBVIOUS
    <3>1. <<r, k>> \in D <=> r = s /\ (PlaceOf(r, k) = "held" \/ k = c)
      BY DEF Fates!Of
    <3> QED
      BY <2>3, <3>1
  <2>5. D \in SUBSET Deposits
    BY <1>1, <1>10 DEF Fates!Of, Deposits
  <2>6. ASSUME NEW r \in Seasons, NEW k \in Creators
        PROVE  IF <<r, k>> \in D
               THEN PlaceOf(r, k) \in {"absent", "held"} /\ PlaceOf(r, k)' = "deployed"
               ELSE PlaceOf(r, k)' = PlaceOf(r, k)
    <3>1. CASE <<r, k>> \in D
      <4>1. PICK q \in prs : q.creator = k
        BY <2>4, <3>1
      <4>2. r = s
        BY <2>4, <3>1
      <4>3. PlaceOf(s, k)' = "deployed"
        BY <2>2, <4>1
      <4>4. PlaceOf(s, k) \in {"absent", "held"}
        BY <1>9, <2>3, <4>1
      <4> QED
        BY <3>1, <4>2, <4>3, <4>4
    <3>2. CASE <<r, k>> \notin D
      <4>1. ~(r = s /\ \E q \in prs : q.creator = k)
        BY <2>4, <3>2
      <4>2. r # s \/ k # c
        BY <2>3, <4>1
      <4> QED
        BY <1>1, <1>6, <2>2, <3>2, <4>1, <4>2, PlaceStays
    <3> QED
      BY <3>1, <3>2
  <2>7. D = {d \in Fates!Of(s) : [x \in Deposits |-> PlaceOf(x[1], x[2])][d] = "held"} \cup {<<s, c>>}
    BY <1>1 DEF Fates!Of, Deposits
  <2> HIDE DEF D
  <2>8. Fates!Move(D, {"absent", "held"}, "deployed")
    BY <2>5, <2>6, MovesPlaces
  <2>9. Outcome[s] = "open" /\ Outcome' = [Outcome EXCEPT ![s] = "launched"]
    BY <1>1, <1>2, <1>13 DEF Outcome
  <2> QED
    BY <1>1, <2>7, <2>8, <2>9 DEF Fates!Next, Fates!Launch
<1>14. CASE s \notin activated /\ escrow' = held /\ UNCHANGED <<tokens, activated, stake>>
  <2>1. PlaceOf(s, c)' = "held"
    BY <1>1, <1>7, <1>14, PlaceNext DEF PlaceIs
  <2>2. ASSUME NEW r \in Seasons, NEW k \in Creators, ~(r = s /\ k = c)
        PROVE  PlaceOf(r, k)' = PlaceOf(r, k)
    <3>1. SettledDeposit(r, k)' <=> SettledDeposit(r, k)
      BY <1>14, SettledSame DEF SettledIn
    <3>2. SlotOf(escrow', r, k) = SlotOf(escrow, r, k)
          /\ escrow'.pendingRefunds = escrow.pendingRefunds
      BY <1>6, <1>14, <2>2
    <3> QED
      BY <1>1, <3>1, <3>2, PlaceStays
  <2>3. Fates!Move({<<s, c>>}, {"absent"}, "held")
    BY <1>9, <1>10, <1>11, <2>1, <2>2, MovesPlaces
  <2>4. Outcome[s] = "open" /\ Outcome' = Outcome
    BY <1>1, <1>2, <1>14 DEF Outcome
  <2> QED
    BY <1>1, <2>3, <2>4 DEF Fates!Next, Fates!Deposit
<1> QED
  BY <1>3, <1>12, <1>13, <1>14

\* abortSeason cancels the season: what is held goes back or is owed.
LEMMA AbortFates ==
  ASSUME SafeInv, SafeInv', NEW s \in Seasons, NEW rejecting \in SUBSET Creators,
         AbortSeason(s, rejecting)
  PROVE  Fates!Next
<1> DEFINE L == LiveCreators(escrow, s)
           O == Owed(escrow, s, rejecting)
           owed == {<<s, k>> : k \in O}
<1>1. /\ escrow \in EscrowState /\ AllOrNothing(escrow) /\ AllOrNothing(escrow')
  BY DEF SafeInv, TypeOK, EscrowTypeOK, OneOutcome
<1>2. /\ s \notin activated /\ s \notin aborted
      /\ escrow' = RefundedAll(escrow, s, rejecting)
      /\ UNCHANGED <<activated, tokens, stake>> /\ aborted' = aborted \cup {s}
  BY DEF AbortSeason, CanAbortSeason, queueVars, tokenVars
<1>3. L \in SUBSET Creators /\ O \in SUBSET L
  BY DEF LiveCreators, Owed
<1>4. \A r \in Seasons, k \in Creators :
         /\ SlotOf(escrow', r, k).reserved <=> SlotOf(escrow, r, k).reserved
         /\ SlotOf(escrow', r, k).released <=> SlotOf(escrow, r, k).released
         /\ SlotOf(escrow', r, k).refunded <=> (SlotOf(escrow, r, k).refunded \/ (r = s /\ k \in L))
         /\ escrow'.pendingRefunds[<<r, k>>] =
               IF r = s /\ k \in O THEN SlotOf(escrow, r, k).amount
               ELSE escrow.pendingRefunds[<<r, k>>]
  <2> SUFFICES ASSUME NEW r \in Seasons, NEW k \in Creators
               PROVE  /\ SlotOf(escrow', r, k).reserved <=> SlotOf(escrow, r, k).reserved
                      /\ SlotOf(escrow', r, k).released <=> SlotOf(escrow, r, k).released
                      /\ SlotOf(escrow', r, k).refunded
                            <=> (SlotOf(escrow, r, k).refunded \/ (r = s /\ k \in L))
                      /\ escrow'.pendingRefunds[<<r, k>>] =
                            IF r = s /\ k \in O THEN SlotOf(escrow, r, k).amount
                            ELSE escrow.pendingRefunds[<<r, k>>]
    OBVIOUS
  <2>1. <<r, k>> \in Deposits /\ (<<r, k>> \in {s} \X L <=> r = s /\ k \in L)
        /\ (<<r, k>> \in {s} \X O <=> r = s /\ k \in O)
    BY DEF Deposits
  <2>2. /\ escrow'.escrows = Marked(escrow, {}, {s} \X L)
        /\ escrow'.pendingRefunds = [d \in Deposits |->
              IF d \in {s} \X O THEN escrow.escrows[d].amount ELSE escrow.pendingRefunds[d]]
    BY <1>2 DEF RefundedAll
  <2> HIDE DEF L, O
  <2>3. /\ SlotOf(escrow', r, k).reserved <=> SlotOf(escrow, r, k).reserved
        /\ SlotOf(escrow', r, k).released <=> SlotOf(escrow, r, k).released
        /\ SlotOf(escrow', r, k).refunded
              <=> (SlotOf(escrow, r, k).refunded \/ <<r, k>> \in {s} \X L)
    BY <1>1, <2>1, <2>2, MarkedFields DEF SlotOf
  <2> QED
    BY <2>1, <2>2, <2>3 DEF SlotOf
<1>5. \A k \in Creators : /\ k \in L <=> Live(SlotOf(escrow, s, k))
                          /\ k \in O => SlotOf(escrow, s, k).amount > 0
  BY DEF LiveCreators, Owed, SlotOf
<1>6. \A r \in Seasons, k \in Creators : SettledDeposit(r, k)' <=> SettledDeposit(r, k)
  BY <1>2, SettledSame DEF SettledIn
<1> HIDE DEF L, O
<1>7. ASSUME NEW r \in Seasons, NEW k \in Creators
      PROVE  /\ r = s /\ k \in L => PlaceOf(r, k) = "held"
             /\ r = s /\ k \in O => PlaceOf(r, k)' = "owed"
             /\ r = s /\ k \in L \ O => PlaceOf(r, k)' = "returned"
             /\ ~(r = s /\ k \in L) => PlaceOf(r, k)' = PlaceOf(r, k)
  <2>1. CASE r = s /\ k \in L
    <3>1. Live(SlotOf(escrow, r, k)) /\ PlaceOf(r, k) = "held"
      BY <1>1, <1>5, <2>1, PlaceNow DEF PlaceIs, Live
    <3>2. escrow.pendingRefunds[<<r, k>>] = 0
      BY <1>1, <3>1 DEF AllOrNothing, SlotOf, Live
    <3>3. SlotOf(escrow', r, k).refunded
      BY <1>4, <2>1
    <3>4. PlaceOf(r, k)' = IF escrow'.pendingRefunds[<<r, k>>] > 0 THEN "owed" ELSE "returned"
      BY <1>1, <3>3, PlaceNext DEF PlaceIs
    <3>5. k \in O => PlaceOf(r, k)' = "owed"
      BY <1>4, <1>5, <2>1, <3>4
    <3>6. k \notin O => PlaceOf(r, k)' = "returned"
      BY <1>4, <2>1, <3>2, <3>4
    <3> QED
      BY <2>1, <3>1, <3>5, <3>6
  <2>2. CASE ~(r = s /\ k \in L)
    <3>1. PlaceOf(r, k)' = PlaceOf(r, k)
      BY <1>1, <1>3, <1>4, <1>6, <2>2, PlaceStays
    <3> QED
      BY <1>3, <2>2, <3>1
  <2> QED
    BY <2>1, <2>2
<1>8. \A k \in Creators : k \in L <=> PlaceOf(s, k) = "held"
  BY <1>1, <1>5, PlaceNow DEF PlaceIs, Live, AllOrNothing, SlotOf
<1> DEFINE place == [d \in Deposits |-> PlaceOf(d[1], d[2])]
<1>9. owed \in SUBSET {d \in Fates!Of(s) : place[d] = "held"}
  BY <1>3, <1>7 DEF Fates!Of, Deposits
<1>10. place' = [d \in Seasons \X Creators |->
                    IF d \in owed THEN "owed"
                    ELSE IF d \in Fates!Of(s) /\ place[d] = "held" THEN "returned"
                    ELSE place[d]]
  <2>1. ASSUME NEW d \in Deposits
        PROVE  place'[d] = IF d \in owed THEN "owed"
                           ELSE IF d \in Fates!Of(s) /\ place[d] = "held" THEN "returned"
                           ELSE place[d]
    <3>1. PICK r \in Seasons, k \in Creators : d = <<r, k>>
      BY DEF Deposits
    <3>2. d \in owed <=> r = s /\ k \in O
      BY <3>1
    <3>3. d \in Fates!Of(s) <=> r = s
      BY <3>1 DEF Fates!Of
    <3>4. place[d] = PlaceOf(r, k) /\ place'[d] = PlaceOf(r, k)'
      BY <3>1
    <3> HIDE DEF place, owed
    <3> QED
      BY <1>3, <1>7, <1>8, <3>2, <3>3, <3>4
  <2> QED
    BY <2>1 DEF Deposits
<1>11. Outcome[s] = "open" /\ Outcome' = [Outcome EXCEPT ![s] = "cancelled"]
  BY <1>1, <1>2 DEF Outcome
<1> HIDE DEF owed
<1> QED
  BY <1>9, <1>10, <1>11 DEF Fates!Next, Fates!Cancel

\* claimPendingRefund collects what is owed.
LEMMA ClaimFates ==
  ASSUME SafeInv, SafeInv', NEW s \in Seasons, NEW c \in Creators, ClaimPendingRefund(s, c)
  PROVE  Fates!Next
<1>1. /\ escrow \in EscrowState /\ AllOrNothing(escrow) /\ AllOrNothing(escrow')
  BY DEF SafeInv, TypeOK, EscrowTypeOK, OneOutcome
<1>2. /\ escrow.pendingRefunds[<<s, c>>] > 0 /\ escrow'.escrows = escrow.escrows
      /\ escrow'.pendingRefunds = [escrow.pendingRefunds EXCEPT ![<<s, c>>] = 0]
      /\ UNCHANGED <<activated, aborted, tokens, stake>>
  BY DEF ClaimPendingRefund, EscrowClaim, CanClaimPendingRefund, PendingRefundClaimed,
         queueVars, tokenVars
<1>3. \A r \in Seasons, k \in Creators :
         /\ SlotOf(escrow', r, k) = SlotOf(escrow, r, k)
         /\ escrow'.pendingRefunds[<<r, k>>] =
               IF r = s /\ k = c THEN 0 ELSE escrow.pendingRefunds[<<r, k>>]
  BY <1>1, <1>2 DEF SlotOf, EscrowState, Deposits
<1>4. SlotOf(escrow, s, c).refunded
  BY <1>1, <1>2 DEF AllOrNothing, SlotOf
<1>5. PlaceOf(s, c) = "owed" /\ PlaceOf(s, c)' = "returned"
  <2>1. PlaceOf(s, c) = "owed"
    BY <1>1, <1>2, <1>4, PlaceNow DEF PlaceIs
  <2>2. SlotOf(escrow', s, c).refunded /\ ~(escrow'.pendingRefunds[<<s, c>>] > 0)
    BY <1>3, <1>4
  <2>3. PlaceOf(s, c)' = "returned"
    BY <1>1, <2>2, PlaceNext DEF PlaceIs
  <2> QED
    BY <2>1, <2>3
<1>6. ASSUME NEW r \in Seasons, NEW k \in Creators, ~(r = s /\ k = c)
      PROVE  PlaceOf(r, k)' = PlaceOf(r, k)
  <2>1. SettledDeposit(r, k)' <=> SettledDeposit(r, k)
    BY <1>2, SettledSame DEF SettledIn
  <2> QED
    BY <1>1, <1>3, <1>6, <2>1, PlaceStays
<1>7. <<s, c>> \in Deposits
      /\ \A r \in Seasons, k \in Creators : <<r, k>> \in {<<s, c>>} <=> r = s /\ k = c
  BY DEF Deposits
<1>8. Fates!Move({<<s, c>>}, {"owed"}, "returned")
  BY <1>5, <1>6, <1>7, MovesPlaces
<1>9. Outcome' = Outcome
  BY <1>2 DEF Outcome
<1> QED
  BY <1>7, <1>8, <1>9 DEF Fates!Next, Fates!Collect, Deposits

\* applySoftFilter settles the deposits of its batch.
LEMMA SoftFilterFates ==
  ASSUME SafeInv, BooksInv, SafeInv', NEW s \in Seasons,
         NEW survivors \in SUBSET CommunityTokens(s), NEW forfeited \in SUBSET CommunityTokens(s),
         ApplySoftFilter(s, survivors, forfeited)
  PROVE  Fates!Next
<1> DEFINE Z == survivors \cup forfeited
           D == {<<s, t.creator>> : t \in Z}
<1>1. /\ tokens \subseteq Tokens /\ AllOrNothing(escrow) /\ AllOrNothing(escrow')
      /\ TokensFit(tokens, escrow) /\ stake \in StakeState
  BY DEF SafeInv, TypeOK, OneOutcome, BooksInv
<1>2. /\ UNCHANGED <<escrow, tokens, activated, aborted>>
      /\ stake' = SoftFilterApplied(stake, survivors, forfeited)
      /\ \A t \in Z : ~Resolved(stake.launchInfo[t])
  BY DEF ApplySoftFilter, CanApplySoftFilter, queueVars, tokenVars
<1>3. Z \subseteq Community(tokens, s)
  BY DEF Community, CommunityTokens
<1>4. \A r \in Seasons : \A t \in Community(tokens, r) :
         t \in Tokens /\ t.season = r /\ t.creator \in Creators
  BY <1>1 DEF Community, Tokens, IsProtocolLaunched
<1>5. ASSUME NEW t \in Tokens
      PROVE  Resolved(stake'.launchInfo[t]) <=> Resolved(stake.launchInfo[t]) \/ t \in Z
  <2> DEFINE info == stake.launchInfo[t]
             next == stake'.launchInfo[t]
  <2>1. next = [slotIndex |-> info.slotIndex, costPaid |-> info.costPaid,
                stakeAmount |-> IF t \in Z THEN 0 ELSE info.stakeAmount,
                refunded |-> info.refunded \/ t \in survivors,
                filteredEarly |-> info.filteredEarly \/ t \in forfeited]
    BY <1>2, Zenon DEF SoftFilterApplied, Settled
  <2> HIDE DEF info, next
  <2>2. /\ next.refunded = (info.refunded \/ t \in survivors)
        /\ next.filteredEarly = (info.filteredEarly \/ t \in forfeited)
    BY <2>1, Zenon
  <2>3. Resolved(next) <=> Resolved(info) \/ t \in Z
    BY <2>2, Zenon DEF Resolved, Z
  <2> QED
    BY <2>3 DEF info, next
<1> HIDE DEF Z
<1>6. \A r \in Seasons, k \in Creators : <<r, k>> \in D <=> r = s /\ \E t \in Z : t.creator = k
  OBVIOUS
<1>7. D \in SUBSET Fates!Of(s) /\ D \in SUBSET Deposits
  BY <1>3, <1>4 DEF Fates!Of, Deposits
<1> HIDE DEF D
<1>8. ASSUME NEW r \in Seasons, NEW k \in Creators
      PROVE  IF <<r, k>> \in D
             THEN PlaceOf(r, k) \in {"deployed"} /\ PlaceOf(r, k)' = "settled"
             ELSE PlaceOf(r, k)' = PlaceOf(r, k)
  <2>1. CASE <<r, k>> \in D
    <3>1. PICK t \in Z : t.creator = k
      BY <1>6, <2>1
    <3>2. r = s /\ t \in Community(tokens, r) /\ SlotOf(escrow, r, k).released
      BY <1>1, <1>3, <1>6, <2>1, <3>1 DEF TokensFit
    <3>3. ~SettledIn(stake, tokens, r, k)
      BY <1>1, <1>2, <3>1, <3>2 DEF TokensFit, SettledIn
    <3>4. SettledIn(stake', tokens', r, k)
      BY <1>2, <1>4, <1>5, <3>1, <3>2 DEF SettledIn
    <3>5. PlaceOf(r, k) = "deployed"
      BY <1>1, <3>2, <3>3, SettledSame, PlaceNow DEF PlaceIs
    <3>6. PlaceOf(r, k)' = "settled"
      BY <1>1, <1>2, <3>2, <3>4, SettledSame, PlaceNext DEF PlaceIs
    <3> QED
      BY <2>1, <3>5, <3>6
  <2>2. CASE <<r, k>> \notin D
    <3>1. \A t \in Community(tokens, r) : t.creator = k => t \notin Z
      <4> SUFFICES ASSUME NEW t \in Community(tokens, r), t.creator = k, t \in Z PROVE FALSE
        OBVIOUS
      <4>1. r = s
        BY <1>3, <1>4
      <4> QED
        BY <1>6, <2>2, <4>1
    <3>2. SettledIn(stake', tokens', r, k) <=> SettledIn(stake, tokens, r, k)
      BY <1>2, <1>4, <1>5, <3>1 DEF SettledIn
    <3>3. SettledDeposit(r, k)' <=> SettledDeposit(r, k)
      BY <3>2, SettledSame
    <3>4. PlaceOf(r, k)' = PlaceOf(r, k)
      BY <1>1, <1>2, <3>3, PlaceStays
    <3> QED
      BY <2>2, <3>4
  <2> QED
    BY <2>1, <2>2
<1>9. Fates!Move(D, {"deployed"}, "settled")
  BY <1>7, <1>8, MovesPlaces
<1>10. Outcome' = Outcome
  BY <1>2 DEF Outcome
<1> QED
  BY <1>7, <1>9, <1>10 DEF Fates!Next, Fates!Settle

\* The steps that leave every deposit where it is, launches of the protocol among them.
LEMMA StutterFates ==
  ASSUME SafeInv, SafeInv', UNCHANGED <<escrow, stake, activated, aborted>>,
         \A s \in Seasons : Community(tokens', s) = Community(tokens, s)
  PROVE  UNCHANGED Fates!fates
<1>1. AllOrNothing(escrow) /\ AllOrNothing(escrow')
  BY DEF SafeInv, OneOutcome
<1>2. ASSUME NEW s \in Seasons, NEW c \in Creators PROVE PlaceOf(s, c)' = PlaceOf(s, c)
  <2>1. SettledDeposit(s, c)' <=> SettledDeposit(s, c)
    BY SettledSame DEF SettledIn
  <2> QED
    BY <1>1, <2>1, PlaceStays
<1> DEFINE place == [d \in Deposits |-> PlaceOf(d[1], d[2])]
<1>3. \A d \in Deposits : PlaceOf(d[1], d[2])' = PlaceOf(d[1], d[2])
  BY <1>2 DEF Deposits
<1>4. place' = place /\ Outcome' = Outcome
  BY <1>3 DEF Outcome
<1> QED
  BY <1>4 DEF Fates!fates

LEMMA InitFates == Init => Fates!Init
<1> SUFFICES ASSUME Init PROVE Fates!Init
  OBVIOUS
<1>1. SafeInv /\ AllOrNothing(escrow)
  BY InitInv DEF SafeInv, OneOutcome
<1>2. \A s \in Seasons, c \in Creators : ~SlotOf(escrow, s, c).reserved
  BY DEF Init, EscrowInit, EmptyEscrow, SlotOf, Deposits, NoReservation
<1>3. \A s \in Seasons, c \in Creators : PlaceOf(s, c) = "absent"
  BY <1>1, <1>2, PlaceNow DEF PlaceIs
<1>4. [d \in Deposits |-> PlaceOf(d[1], d[2])] = [d \in Seasons \X Creators |-> "absent"]
  BY <1>3 DEF Deposits
<1>5. Outcome = [s \in Seasons |-> "open"]
  BY DEF Init, Outcome
<1> QED
  BY <1>4, <1>5 DEF Fates!Init

LEMMA StepFates ==
  SafeInv /\ BooksInv /\ [Next]_vars /\ SafeInv' => [Fates!Next]_(Fates!fates)
<1> SUFFICES ASSUME SafeInv, BooksInv, [Next]_vars, SafeInv'
             PROVE  Fates!Next \/ UNCHANGED Fates!fates
  OBVIOUS
<1> USE DEF seasonVars, tokenVars, tickerVars, queueVars, configVars, moneyVars, historyVars
<1>1. ASSUME UNCHANGED <<tokens, escrow, stake, activated, aborted>>
      PROVE  UNCHANGED Fates!fates
  BY <1>1, StutterFates
<1>2. CASE UNCHANGED vars
  BY <1>1, <1>2 DEF vars
<1>3. ASSUME NEW cost \in BaseLaunchCosts, NEW enabled \in StakeModes, SetLaunchConfig(cost, enabled)
      PROVE  UNCHANGED Fates!fates
  BY <1>1, <1>3 DEF SetLaunchConfig
<1>4. ASSUME NEW t \in Blockable, AddTickerToBlocklist(t) PROVE UNCHANGED Fates!fates
  BY <1>1, <1>4 DEF AddTickerToBlocklist
<1>5. ASSUME NEW p \in BOOLEAN, SetPaused(p) PROVE UNCHANGED Fates!fates
  BY <1>1, <1>5 DEF SetPaused
<1>6. CASE StartSeason
  BY <1>1, <1>6 DEF StartSeason
<1>7. ASSUME NEW s \in Seasons, CloseWindow(s) \/ AdvancePhase(s) PROVE UNCHANGED Fates!fates
  BY <1>1, <1>7 DEF CloseWindow, AdvancePhase
<1>8. ASSUME NEW s \in Seasons, NEW list \in FinalistLists, SetFinalists(s, list)
      PROVE  UNCHANGED Fates!fates
  BY <1>1, <1>8 DEF SetFinalists
<1>9. ASSUME NEW s \in Seasons, NEW t \in tokens, SetWinnerTicker(s, t) PROVE UNCHANGED Fates!fates
  BY <1>1, <1>9 DEF SetWinnerTicker
<1>10. ASSUME NEW t \in ProtocolTickers, LaunchProtocolToken(t) PROVE UNCHANGED Fates!fates
  <2>1. UNCHANGED <<escrow, stake, activated, aborted>>
    BY <1>10 DEF LaunchProtocolToken
  <2>2. \A s \in Seasons : Community(tokens', s) = Community(tokens, s)
    BY <1>10 DEF LaunchProtocolToken, Community, IsProtocolLaunched
  <2> QED
    BY <2>1, <2>2, StutterFates
<1>11. ASSUME NEW c \in Creators, NEW t \in Tickers, Reserve(c, t) PROVE Fates!Next
  <2>1. currentSeasonId \in Seasons
    BY <1>11 DEF Reserve, Started
  <2> QED
    BY <1>11, <2>1, ReserveFates
<1>12. CASE Next
  BY <1>3, <1>4, <1>5, <1>6, <1>7, <1>8, <1>9, <1>10, <1>11, <1>12,
     AbortFates, ClaimFates, SoftFilterFates DEF Next
<1> QED
  BY <1>2, <1>12

\* Launcher, escrow and stake admin keep what DepositFates promises a creator: a season
\* is decided as a whole, and a deposit only moves forward.
THEOREM DepositsKeepTheirFates == Spec => KeepsDepositPromise
<1>1. Init => Fates!Init
  BY InitFates
<1> QED
  BY <1>1, InitInv, StepInv, BooksInvariant, StepFates, PTL
  DEF Spec, KeepsDepositPromise, Fates!Spec

==============================================================================

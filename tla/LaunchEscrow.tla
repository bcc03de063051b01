----------------------------- MODULE LaunchEscrow -----------------------------
(***************************************************************************)
(* LaunchEscrow.sol: the contract that holds every creator's slot cost     *)
(* between the reservation and the deployment (or the refund) of the slot. *)
(*                                                                         *)
(* The contract's storage is the record escrow. Each external function is  *)
(* a guard Can...(e, ...) made of the function's require checks and a next *)
(* storage value, so that FilterLauncher can call several of them in one   *)
(* transaction. The specification at the end is the contract on its own,   *)
(* with a launcher that may call it in any order: the natspec claims that  *)
(* the escrow is defensible standalone.                                    *)
(*                                                                         *)
(* An operator under the word Slip is a variant of the one that follows    *)
(* it with a plausible bug; nothing refers to it. TLC is run with the slip *)
(* in place of the operator to see that the properties notice.             *)
(*                                                                         *)
(* Abstracted: hashes and timestamps (reservedAt # 0 is the field          *)
(* reserved), the order of _reservers (only its length and its members are *)
(* ever used), and the cast of msg.value to uint128, which no amount of    *)
(* ether in existence overflows.                                           *)
(***************************************************************************)
EXTENDS Wei

CONSTANTS
    Seasons,       \* season ids
    Creators       \* wallets that reserve slots

ASSUME EscrowConstants == IsFiniteSet(Seasons) /\ IsFiniteSet(Creators)

VARIABLE escrow

Deposits == Seasons \X Creators

Reservation ==
    [reserved: BOOLEAN, amount: Nat, slotIndex: Nat, released: BOOLEAN, refunded: BOOLEAN]

NoReservation ==
    [reserved |-> FALSE, amount |-> 0, slotIndex |-> 0, released |-> FALSE, refunded |-> FALSE]

EscrowState ==
    [escrows: [Deposits -> Reservation],
     aborted: SUBSET Seasons,
     activated: SUBSET Seasons,
     pendingRefunds: [Deposits -> Nat],
     balance: Nat]

EmptyEscrow ==
    [escrows |-> [d \in Deposits |-> NoReservation],
     aborted |-> {},
     activated |-> {},
     pendingRefunds |-> [d \in Deposits |-> 0],
     balance |-> 0]

(***************************************************************************)
(* Views                                                                   *)
(***************************************************************************)

\* The creators on the season's _reservers list.
Reservers(e, s) == {c \in Creators : e.escrows[<<s, c>>].reserved}

\* Slip: counts only reservations still in escrow.
LiveReservationCountOf(e, s) ==
    Cardinality({c \in Reservers(e, s) : ~e.escrows[<<s, c>>].released})

ReservationCountOf(e, s) == Cardinality(Reservers(e, s))

\* A reservation whose ether is still in escrow.
Live(r) == r.reserved /\ ~r.released /\ ~r.refunded

\* The ether the escrow holds for each deposit, before and after an abort.
LiveAmounts(e) == [d \in Deposits |-> IF Live(e.escrows[d]) THEN e.escrows[d].amount ELSE 0]

(***************************************************************************)
(* External functions                                                      *)
(***************************************************************************)

CanReserve(e, s, c) == s \notin e.aborted /\ ~e.escrows[<<s, c>>].reserved

Reserved(e, s, c, slot, value) ==
    [escrows |-> [e.escrows EXCEPT ![<<s, c>>] =
                     [reserved |-> TRUE, amount |-> value, slotIndex |-> slot,
                      released |-> FALSE, refunded |-> FALSE]],
     aborted |-> e.aborted,
     activated |-> e.activated,
     pendingRefunds |-> e.pendingRefunds,
     balance |-> e.balance + value]

\* releaseToDeploy, called for every creator of C in one launcher transaction (C
\* is never empty).
CanRelease(e, s, C) == s \notin e.aborted /\ \A c \in C : Live(e.escrows[<<s, c>>])

\* The reservations of e with released set for the deposits R, refunded for F.
Marked(e, R, F) ==
    [d \in Deposits |->
        LET r == e.escrows[d] IN
        [reserved |-> r.reserved, amount |-> r.amount, slotIndex |-> r.slotIndex,
         released |-> r.released \/ d \in R, refunded |-> r.refunded \/ d \in F]]

\* The ether of the creators C in season s.
AmountOf(e, s, C) == Total([c \in C |-> e.escrows[<<s, c>>].amount])

Released(e, s, C) ==
    [escrows |-> Marked(e, {s} \X C, {}),
     aborted |-> e.aborted,
     activated |-> e.activated \cup {s},
     pendingRefunds |-> e.pendingRefunds,
     balance |-> e.balance - AmountOf(e, s, C)]

CanRefundAll(e, s) == s \notin e.activated /\ s \notin e.aborted

LiveCreators(e, s) == {c \in Creators : Live(e.escrows[<<s, c>>])}

\* The wallets of rejecting revert on the push and are credited instead.
Owed(e, s, rejecting) ==
    {c \in LiveCreators(e, s) \cap rejecting : e.escrows[<<s, c>>].amount > 0}

\* Slip: a refund whose push failed is taken for sent.
EveryonePushed(e, s, rejecting) == LiveCreators(e, s)

Pushed(e, s, rejecting) == LiveCreators(e, s) \ Owed(e, s, rejecting)

\* Slip: refunded is set only after a successful push.
RefundedAllIfPushed(e, s, rejecting) ==
    [escrows |-> Marked(e, {}, {s} \X Pushed(e, s, rejecting)),
     aborted |-> e.aborted \cup {s},
     activated |-> e.activated,
     pendingRefunds |-> [d \in Deposits |->
                            IF d \in {s} \X Owed(e, s, rejecting) THEN e.escrows[d].amount
                            ELSE e.pendingRefunds[d]],
     balance |-> e.balance - AmountOf(e, s, Pushed(e, s, rejecting))]

RefundedAll(e, s, rejecting) ==
    [escrows |-> Marked(e, {}, {s} \X LiveCreators(e, s)),
     aborted |-> e.aborted \cup {s},
     activated |-> e.activated,
     pendingRefunds |-> [d \in Deposits |->
                            IF d \in {s} \X Owed(e, s, rejecting) THEN e.escrows[d].amount
                            ELSE e.pendingRefunds[d]],
     balance |-> e.balance - AmountOf(e, s, Pushed(e, s, rejecting))]

CanClaimPendingRefund(e, s, c) == e.pendingRefunds[<<s, c>>] > 0

\* Slip: the credit survives its payment.
PendingRefundPaid(e, s, c) ==
    [escrows |-> e.escrows,
     aborted |-> e.aborted,
     activated |-> e.activated,
     pendingRefunds |-> e.pendingRefunds,
     balance |-> e.balance - e.pendingRefunds[<<s, c>>]]

\* The recipient the creator names accepts the ether; otherwise the call reverts.
PendingRefundClaimed(e, s, c) ==
    [escrows |-> e.escrows,
     aborted |-> e.aborted,
     activated |-> e.activated,
     pendingRefunds |-> [e.pendingRefunds EXCEPT ![<<s, c>>] = 0],
     balance |-> e.balance - e.pendingRefunds[<<s, c>>]]

(***************************************************************************)
(* The contract on its own                                                 *)
(***************************************************************************)

EscrowInit == escrow = EmptyEscrow

EscrowReserve(s, c, slot, value) ==
    /\ CanReserve(escrow, s, c)
    /\ escrow' = Reserved(escrow, s, c, slot, value)

EscrowRelease(s, c) ==
    /\ CanRelease(escrow, s, {c})
    /\ escrow' = Released(escrow, s, {c})

EscrowRefundAll(s, rejecting) ==
    /\ CanRefundAll(escrow, s)
    /\ escrow' = RefundedAll(escrow, s, rejecting)

EscrowClaim(s, c) ==
    /\ CanClaimPendingRefund(escrow, s, c)
    /\ escrow' = PendingRefundClaimed(escrow, s, c)

EscrowNext ==
    \/ \E s \in Seasons, c \in Creators, slot \in Nat, value \in Nat :
          EscrowReserve(s, c, slot, value)
    \/ \E s \in Seasons, c \in Creators : EscrowRelease(s, c)
    \/ \E s \in Seasons, rejecting \in SUBSET Creators : EscrowRefundAll(s, rejecting)
    \/ \E s \in Seasons, c \in Creators : EscrowClaim(s, c)

EscrowSpec == EscrowInit /\ [][EscrowNext]_escrow

(***************************************************************************)
(* Properties                                                              *)
(***************************************************************************)

\* The storage has its declared types (LaunchEscrow.sol, Reservation and the
\* four mappings); ether balances never go below zero.
EscrowTypeOK == escrow \in EscrowState

\* What an escrow storage e must satisfy to cover its debts exactly.
CoversDebts(e) == e.balance = Total(LiveAmounts(e)) + Total(e.pendingRefunds)

\* Custody: the ether in the contract is exactly the live reservations plus the
\* credits of refunds whose push failed. None is lost and none is paid twice,
\* across reserve, releaseToDeploy, refundAll and claimPendingRefund.
Custody == CoversDebts(escrow)

\* A storage in which every season is all or nothing: no reservation is both
\* released and refunded, releases happen only in activated seasons, refunds
\* and refund credits only in aborted ones, and no season is both.
AllOrNothing(e) ==
    /\ e.activated \cap e.aborted = {}
    /\ \A s \in Seasons, c \in Creators :
          LET r == e.escrows[<<s, c>>] IN
          /\ r.released => r.reserved /\ s \in e.activated
          /\ r.refunded => r.reserved /\ s \in e.aborted
          /\ e.pendingRefunds[<<s, c>>] # 0 =>
                r.refunded /\ e.pendingRefunds[<<s, c>>] = r.amount
          /\ s \in e.aborted => ~Live(r)

\* Whatever order the launcher calls in, a season ends either with deployments
\* or with refunds, never with some of each (the activated/aborted guards).
SeasonAllOrNothing == AllOrNothing(escrow)

==============================================================================

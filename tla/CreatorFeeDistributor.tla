------------------------- MODULE CreatorFeeDistributor -------------------------
(***************************************************************************)
(* CreatorFeeDistributor.sol: holds the creators' share of the swap fees.  *)
(* A token's locker first has the WETH sent here and then calls notifyFee; *)
(* lastSeenBalance is how the distributor tells that the WETH has arrived. *)
(* The storage is the record fees; an external function is a guard and a   *)
(* next storage value, so that a locker's collectFees can call notifyFee.  *)
(***************************************************************************)
EXTENDS SeasonDomain

VARIABLE fees

TokenInfo == [accrued: Nat, claimed: Nat, disabled: BOOLEAN]

FeeState == [info: [Tokens -> TokenInfo], lastSeenBalance: Nat, balance: Nat]

NoFees ==
    [info |-> [t \in Tokens |-> [accrued |-> 0, claimed |-> 0, disabled |-> FALSE]],
     lastSeenBalance |-> 0,
     balance |-> 0]

Pending(f, t) == f.info[t].accrued - f.info[t].claimed

\* The WETH a locker sends just before it calls notifyFee.
FeeSent(f, amount) == [f EXCEPT !.balance = @ + amount]

CanNotifyFee(f, amount) == f.balance >= f.lastSeenBalance + amount

\* Slip: the redirected amount stays in lastSeenBalance.
FeeNotifiedUnseen(f, t, amount) ==
    IF f.info[t].disabled
    THEN [f EXCEPT !.lastSeenBalance = f.balance, !.balance = @ - amount]
    ELSE [f EXCEPT !.lastSeenBalance = f.balance, !.info[t].accrued = @ + amount]

\* A disabled token's fee goes on to the treasury.
FeeNotified(f, t, amount) ==
    IF f.info[t].disabled
    THEN [f EXCEPT !.lastSeenBalance = f.balance - amount, !.balance = @ - amount]
    ELSE [f EXCEPT !.lastSeenBalance = f.balance, !.info[t].accrued = @ + amount]

\* All that is pending leaves: to the creator's recipient (claim) or to the
\* treasury (disableCreatorFee).
PaidOut(f, t) ==
    [f EXCEPT !.info[t].claimed = f.info[t].accrued,
              !.lastSeenBalance = @ - Pending(f, t),
              !.balance = @ - Pending(f, t)]


\* disableCreatorFee returns early on a token that is disabled already.
FeeDisabled(f, t) ==
    IF f.info[t].disabled THEN f ELSE [PaidOut(f, t) EXCEPT !.info[t].disabled = TRUE]

CanClaimFees(f, t) == ~f.info[t].disabled

==============================================================================

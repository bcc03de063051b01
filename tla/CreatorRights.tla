---------------------------- MODULE CreatorRights ----------------------------
(***************************************************************************)
(* What a creator may do with a launched token: the two-step transfer of   *)
(* its admin and the fee recipient (CreatorRegistry.sol), the bag lock     *)
(* (CreatorCommitments.sol with the transfer hook of FilterToken.sol), the *)
(* claim of its fees (CreatorFeeDistributor.sol), and the rows that the    *)
(* indexer keeps of it all (CreatorCommitments.ts, CreatorFeeDistributor.ts*)
(* and the balances of FilterToken.ts), with what the API answers from     *)
(* them about earnings and bag locks.                                      *)
(*                                                                         *)
(* A transaction and the handlers of its logs are one step, the logs taken *)
(* in order: the handlers read nothing but their rows. A swap fee reaches  *)
(* the distributor as a locker sends it.                                   *)
(***************************************************************************)
EXTENDS CreatorFeeDistributor

CONSTANTS
    NoOne,         \* address(0)
    Pool,          \* the holder of a token's supply at launch
    Supply,        \* tokens minted
    Amounts,       \* bound: swap fees and transfers
    MaxFees,       \* bound: fees a token ever earns
    MaxTime        \* bound: the last instant; a lock may reach one further

ASSUME RightsConstants ==
    /\ NoOne \notin Users /\ Pool \in Users
    /\ Amounts \subseteq Nat /\ {Supply, MaxFees, MaxTime} \subseteq Nat

VARIABLES
    clock,
    registry,      \* CreatorRegistry's mappings, a record per token
    unlockOf,      \* unlockTimestamps of a wallet and a token
    balanceOf,     \* FilterToken balances
    earning,       \* indexer: creatorEarning
    lock,          \* indexer: creatorLock
    holder,        \* indexer: holderBalance
    promised,      \* history: the latest end of any lock committed
    nominator,     \* history: who made the nomination that is pending
    toTreasury     \* history: fees that went to the treasury

tables == <<earning, lock, holder>>
history == <<promised, nominator, toTreasury>>
vars == <<clock, registry, unlockOf, balanceOf, fees, tables, history>>

Bags == Users \X Tokens

Unregistered == [creatorOf |-> NoOne, adminOverrideOf |-> NoOne, pendingAdminOf |-> NoOne,
                 recipientOverrideOf |-> NoOne]

NoEarning == [row |-> FALSE, lifetimeAccrued |-> 0, claimed |-> 0, redirectedToTreasury |-> 0,
              disabled |-> FALSE]

NoLock == [unlockTimestamp |-> 0, previousUnlock |-> 0]

Init ==
    /\ clock = 0
    /\ registry = [t \in Tokens |-> Unregistered]
    /\ unlockOf = [b \in Bags |-> 0]
    /\ balanceOf = [b \in Bags |-> 0]
    /\ fees = NoFees
    /\ earning = [t \in Tokens |-> NoEarning]
    /\ lock = [b \in Bags |-> NoLock]
    /\ holder = [b \in Bags |-> 0]
    /\ promised = [b \in Bags |-> 0]
    /\ nominator = [t \in Tokens |-> NoOne]
    /\ toTreasury = [t \in Tokens |-> 0]

(***************************************************************************)
(* CreatorRegistry                                                         *)
(***************************************************************************)

IsRegistered(t) == registry[t].creatorOf # NoOne

AdminIn(r) == IF r.adminOverrideOf = NoOne THEN r.creatorOf ELSE r.adminOverrideOf
AdminOf(t) == AdminIn(registry[t])

\* The launcher deploys a token: mint, register and registerToken.
Launch(t, creator) ==
    /\ ~IsRegistered(t)
    /\ registry' = [registry EXCEPT ![t].creatorOf = creator]
    /\ balanceOf' = [balanceOf EXCEPT ![<<Pool, t>>] = Supply]
    /\ holder' = [holder EXCEPT ![<<Pool, t>>] = Supply]
    /\ UNCHANGED <<clock, unlockOf, fees, earning, lock, history>>

SetCreatorRecipient(t, by, to) ==
    /\ IsRegistered(t) /\ by = AdminOf(t)
    /\ registry' = [registry EXCEPT ![t].recipientOverrideOf = to]
    /\ UNCHANGED <<clock, unlockOf, balanceOf, fees, tables, history>>

\* A nomination replaces the one that is pending.
NominateAdmin(t, by, to) ==
    /\ IsRegistered(t) /\ by = AdminOf(t)
    /\ registry' = [registry EXCEPT ![t].pendingAdminOf = to]
    /\ nominator' = [nominator EXCEPT ![t] = by]
    /\ UNCHANGED <<clock, unlockOf, balanceOf, fees, tables, promised, toTreasury>>

\* Slip: the accepted nomination stays pending.
AcceptedPending(r) == [r EXCEPT !.adminOverrideOf = r.pendingAdminOf]

Accepted(r) == [r EXCEPT !.adminOverrideOf = r.pendingAdminOf, !.pendingAdminOf = NoOne]

AcceptAdmin(t, by) ==
    /\ IsRegistered(t) /\ by = registry[t].pendingAdminOf
    /\ registry' = [registry EXCEPT ![t] = Accepted(@)]
    /\ UNCHANGED <<clock, unlockOf, balanceOf, fees, tables, history>>

CancelNomination(t, by) ==
    /\ IsRegistered(t) /\ by = AdminOf(t)
    /\ registry[t].pendingAdminOf # NoOne
    /\ registry' = [registry EXCEPT ![t].pendingAdminOf = NoOne]
    /\ UNCHANGED <<clock, unlockOf, balanceOf, fees, tables, history>>

(***************************************************************************)
(* CreatorCommitments and FilterToken                                      *)
(***************************************************************************)

\* Slip: a lock that has not run out may be replaced by an earlier one.
CanCommitShorter(t, by, until) ==
    IsRegistered(t) /\ by = registry[t].creatorOf /\ until > clock

\* The creator of record commits, whoever is admin; a lock only grows.
CanCommit(t, by, until) ==
    /\ IsRegistered(t) /\ by = registry[t].creatorOf
    /\ until > clock /\ until > unlockOf[<<by, t>>]

Commit(t, by, until) ==
    /\ CanCommit(t, by, until)
    /\ unlockOf' = [unlockOf EXCEPT ![<<by, t>>] = until]
    /\ lock' = [lock EXCEPT ![<<by, t>>] =
                   [unlockTimestamp |-> until, previousUnlock |-> unlockOf[<<by, t>>]]]
    /\ promised' = [promised EXCEPT ![<<by, t>>] = IF until > @ THEN until ELSE @]
    /\ UNCHANGED <<clock, registry, balanceOf, fees, earning, holder, nominator, toTreasury>>

IsLocked(w, t) == clock < unlockOf[<<w, t>>]

\* A debit, then a credit: a wallet may send to itself.
Moved(b, t, from, to, amount) ==
    [[b EXCEPT ![<<from, t>>] = @ - amount] EXCEPT ![<<to, t>>] = @ + amount]

\* ERC20._update behind the lock of the sender, and the Transfer handler.
Transfer(t, from, to, amount) ==
    /\ IsRegistered(t) /\ ~IsLocked(from, t)
    /\ amount <= balanceOf[<<from, t>>]
    /\ balanceOf' = Moved(balanceOf, t, from, to, amount)
    /\ holder' = Moved(holder, t, from, to, amount)
    /\ UNCHANGED <<clock, registry, unlockOf, fees, earning, lock, history>>

(***************************************************************************)
(* Fees and their rows                                                     *)
(***************************************************************************)

Inserted(e) == [e EXCEPT !.row = TRUE]

OnAccrued(e, amount) == [Inserted(e) EXCEPT !.lifetimeAccrued = @ + amount]

\* A claim that finds no row also counts as accrued.
OnClaimed(e, amount) ==
    [Inserted(e) EXCEPT !.claimed = @ + amount,
                        !.lifetimeAccrued = IF e.row THEN @ ELSE @ + amount]

OnRedirected(e, amount) == [Inserted(e) EXCEPT !.redirectedToTreasury = @ + amount]

\* Slip: the sweep is left to the log of the redirect.
OnDisabledUnswept(e) == [Inserted(e) EXCEPT !.disabled = TRUE]

\* The sweep of disableCreatorFee: what was pending counts as claimed.
OnDisabled(e) == [Inserted(e) EXCEPT !.disabled = TRUE, !.claimed = e.lifetimeAccrued]

\* A locker sends a fee and notifies.
NotifyFee(t, amount) ==
    LET f == FeeSent(fees, amount)
    IN  /\ IsRegistered(t) /\ CanNotifyFee(f, amount)
        /\ fees.info[t].accrued + toTreasury[t] + amount <= MaxFees
        /\ fees' = FeeNotified(f, t, amount)
        /\ earning' = [earning EXCEPT ![t] = IF fees.info[t].disabled THEN OnRedirected(@, amount)
                                             ELSE OnAccrued(@, amount)]
        /\ toTreasury' = [toTreasury EXCEPT ![t] = IF fees.info[t].disabled THEN @ + amount ELSE @]
        /\ UNCHANGED <<clock, registry, unlockOf, balanceOf, lock, holder, promised, nominator>>

\* The creator claims, the recipient is paid. Nothing pending, no log.
Claim(t, by) ==
    LET amount == Pending(fees, t)
    IN  /\ IsRegistered(t) /\ by = registry[t].creatorOf
        /\ CanClaimFees(fees, t)
        /\ fees' = PaidOut(fees, t)
        /\ earning' = [earning EXCEPT ![t] = IF amount > 0 THEN OnClaimed(@, amount) ELSE @]
        /\ UNCHANGED <<clock, registry, unlockOf, balanceOf, lock, holder, history>>

\* CreatorFeeDisabled comes first, then CreatorFeeRedirected if anything was
\* pending; a repeated call only logs the operator's action.
DisableCreatorFee(t) ==
    LET amount == Pending(fees, t)
    IN  /\ IsRegistered(t) /\ ~fees.info[t].disabled
        /\ fees' = FeeDisabled(fees, t)
        /\ earning' = [earning EXCEPT ![t] =
               IF amount > 0 THEN OnRedirected(OnDisabled(@), amount) ELSE OnDisabled(@)]
        /\ toTreasury' = [toTreasury EXCEPT ![t] = @ + amount]
        /\ UNCHANGED <<clock, registry, unlockOf, balanceOf, lock, holder, promised, nominator>>

(***************************************************************************)
(* The API's answers                                                       *)
(***************************************************************************)

\* GET /tokens/:address/creator-earnings; without a row, zeroes.
CreatorEarnings(t) ==
    LET e == earning[t] IN
    [claimable |-> e.lifetimeAccrued - e.claimed, disabled |-> e.disabled,
     redirectedToTreasury |-> e.redirectedToTreasury]

\* The lock rows of a token; the last one of several would be the one shown.
BagLocksForTokens(t) == {w \in Users : lock[<<w, t>>] # NoLock}

\* The bagLock field of GET /tokens at the request's second.
BagLock(t) ==
    IF BagLocksForTokens(t) = {} THEN [isLocked |-> FALSE, creator |-> registry[t].creatorOf]
    ELSE LET w == CHOOSE w \in BagLocksForTokens(t) : TRUE IN
         [isLocked |-> lock[<<w, t>>].unlockTimestamp > clock, creator |-> w]

(***************************************************************************)
(* Specification                                                           *)
(***************************************************************************)

Wait ==
    /\ clock < MaxTime
    /\ clock' = clock + 1
    /\ UNCHANGED <<registry, unlockOf, balanceOf, fees, tables, history>>

Next ==
    \/ \E t \in Tokens, by \in Users :
          \/ Launch(t, by) \/ AcceptAdmin(t, by) \/ CancelNomination(t, by) \/ Claim(t, by)
          \/ \E to \in Users : SetCreatorRecipient(t, by, to) \/ NominateAdmin(t, by, to)
          \/ \E until \in 1..(MaxTime + 1) : Commit(t, by, until)
          \/ \E to \in Users, amount \in Amounts : Transfer(t, by, to, amount)
    \/ \E t \in Tokens : DisableCreatorFee(t) \/ \E amount \in Amounts : NotifyFee(t, amount)
    \/ Wait

Spec == Init /\ [][Next]_vars

(***************************************************************************)
(* Properties                                                              *)
(***************************************************************************)

\* Every mapping and every table has its type.
TypeOK ==
    /\ clock \in 0..MaxTime
    /\ registry \in [Tokens -> [creatorOf: Users \cup {NoOne}, adminOverrideOf: Users \cup {NoOne},
                                pendingAdminOf: Users \cup {NoOne},
                                recipientOverrideOf: Users \cup {NoOne}]]
    /\ unlockOf \in [Bags -> 0..(MaxTime + 1)] /\ promised \in [Bags -> 0..(MaxTime + 1)]
    /\ balanceOf \in [Bags -> Nat] /\ holder \in [Bags -> Nat]
    /\ fees \in FeeState
    /\ earning \in [Tokens -> [row: BOOLEAN, lifetimeAccrued: Nat, claimed: Nat,
                               redirectedToTreasury: Nat, disabled: BOOLEAN]]
    /\ lock \in [Bags -> [unlockTimestamp: Nat, previousUnlock: Nat]]
    /\ nominator \in [Tokens -> Users \cup {NoOne}]
    /\ toTreasury \in [Tokens -> Nat]

\* A promise to hold cannot be taken back: nothing leaves a wallet before the end
\* of every lock it ever committed to the token, whoever is admin by then
\* (CreatorCommitments: "locks can only extend, never shorten").
BagsStayLocked ==
    [][\A b \in Bags : balanceOf'[b] < balanceOf[b] => clock >= promised[b]]_vars

\* The nomination that is pending was made by the admin of now: what an admin
\* left behind does not bind the one who followed (nominateAdmin, acceptAdmin).
NominationsAreTheAdmins ==
    \A t \in Tokens : registry[t].pendingAdminOf # NoOne => nominator[t] = AdminOf(t)

\* The indexer's rows say what the contracts do: what a creator can claim, what
\* the treasury took, when a bag unlocks, and every holder's balance, through
\* disabling, claims and transfers in any order. What the API makes of them holds
\* to the second: "locked" if and only if a transfer of the creator's bag would
\* revert now, and "claimable" what a claim would pay now.
RowsMatchContracts ==
    /\ \A t \in Tokens :
          LET e == earning[t]
          IN  /\ e.lifetimeAccrued = fees.info[t].accrued /\ e.claimed = fees.info[t].claimed
              /\ e.disabled = fees.info[t].disabled /\ e.redirectedToTreasury = toTreasury[t]
    /\ \A b \in Bags : lock[b].unlockTimestamp = unlockOf[b] /\ holder[b] = balanceOf[b]
    /\ \A t \in Tokens : IsRegistered(t) =>
          /\ CreatorEarnings(t).claimable = Pending(fees, t)
          /\ BagLock(t) = [isLocked |-> IsLocked(registry[t].creatorOf, t),
                           creator |-> registry[t].creatorOf]
=============================================================================

-------------------------- MODULE LauncherStakeAdmin --------------------------
(***************************************************************************)
(* LauncherStakeAdmin.sol: holds the slot cost of a deployed token as a    *)
(* stake until the soft filter returns it to the creator or forfeits it to *)
(* the treasury. The storage is the record stake; as in LaunchEscrow, an   *)
(* external function is a guard and a next storage value.                  *)
(***************************************************************************)
EXTENDS LaunchEscrow

CONSTANTS
    Tickers,       \* canonical tickers
    Owner          \* the multisig that owns the launcher

ASSUME TokenConstants == IsFiniteSet(Tickers) /\ Owner \notin Creators

VARIABLE stake

\* A deployed token. The factory gives every deployment an address of its own;
\* season, ticker and creator tell the deployments apart.
Tokens == [season: Seasons, ticker: Tickers, creator: Creators \cup {Owner}]

LaunchInfo ==
    [slotIndex: Nat, costPaid: Nat, stakeAmount: Nat, refunded: BOOLEAN, filteredEarly: BOOLEAN]

NoLaunch ==
    [slotIndex |-> 0, costPaid |-> 0, stakeAmount |-> 0, refunded |-> FALSE,
     filteredEarly |-> FALSE]

StakeState == [launchInfo: [Tokens -> LaunchInfo], balance: Nat]

NoStakes == [launchInfo |-> [t \in Tokens |-> NoLaunch], balance |-> 0]

StakeAmounts(k) == [t \in Tokens |-> k.launchInfo[t].stakeAmount]

Resolved(info) == info.refunded \/ info.filteredEarly

\* recordLaunch, called for every token of the ledger cost in one transaction.
\* In stake mode the admin receives the cost; otherwise it only notes it.
LaunchesRecorded(k, cost, slotOf, stakeMode) ==
    [launchInfo |->
        [t \in Tokens |->
            IF t \in DOMAIN cost
            THEN [slotIndex |-> slotOf[t], costPaid |-> cost[t],
                  stakeAmount |-> IF stakeMode THEN cost[t] ELSE 0,
                  refunded |-> FALSE, filteredEarly |-> FALSE]
            ELSE k.launchInfo[t]],
     balance |-> k.balance + (IF stakeMode THEN Total(cost) ELSE 0)]

\* The stakes of the batch are neither resolved nor named twice. A batch in
\* which one creator rejects the ether reverts as a whole.
CanApplySoftFilter(k, survivors, forfeited) ==
    /\ survivors \cap forfeited = {}
    /\ \A t \in survivors \cup forfeited : ~Resolved(k.launchInfo[t])

\* The ledger k with the stakes of S refunded, those of F forfeited and those of
\* Z taken out of the books.
Settled(k, S, F, Z) ==
    [t \in Tokens |->
        LET info == k.launchInfo[t] IN
        [slotIndex |-> info.slotIndex, costPaid |-> info.costPaid,
         stakeAmount |-> IF t \in Z THEN 0 ELSE info.stakeAmount,
         refunded |-> info.refunded \/ t \in S,
         filteredEarly |-> info.filteredEarly \/ t \in F]]

\* The stakes of the tokens T.
StakeOf(k, T) == Total([t \in T |-> k.launchInfo[t].stakeAmount])

\* Slip: the stake is not zeroed when it leaves.
SoftFilterMarked(k, survivors, forfeited) ==
    [launchInfo |-> Settled(k, survivors, forfeited, {}),
     balance |-> k.balance - StakeOf(k, survivors \cup forfeited)]

SoftFilterApplied(k, survivors, forfeited) ==
    [launchInfo |-> Settled(k, survivors, forfeited, survivors \cup forfeited),
     balance |-> k.balance - StakeOf(k, survivors \cup forfeited)]

\* What a stake storage k must satisfy to cover its stakes exactly.
CoversStakes(k) == k.balance = Total(StakeAmounts(k))

==============================================================================

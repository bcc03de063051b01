-------------------------- MODULE CreatorRightsProofs --------------------------
(***************************************************************************)
(* What holds of CreatorRights for any tokens, wallets, supplies and fees: *)
(* a pending nomination is the present admin's, a committed bag stays, and *)
(* the indexer's rows and answers are the contracts'.                      *)
(*                                                                         *)
(* The invariant is a conjunction of what concerns the registry, the locks *)
(* and balances, and the fees; each action disturbs one of them.           *)
(***************************************************************************)
EXTENDS CreatorRights, TLAPS

Registration == [creatorOf: Users \cup {NoOne}, adminOverrideOf: Users \cup {NoOne},
                 pendingAdminOf: Users \cup {NoOne}, recipientOverrideOf: Users \cup {NoOne}]

\* A token without a creator has no admin, and a nomination is the admin's.
RegistryInv ==
    /\ registry \in [Tokens -> Registration]
    /\ nominator \in [Tokens -> Users \cup {NoOne}]
    /\ \A t \in Tokens :
          /\ ~IsRegistered(t) => registry[t].pendingAdminOf = NoOne
          /\ registry[t].pendingAdminOf # NoOne => nominator[t] = AdminOf(t)

\* The lock rows are the contract's locks, which only the creator has, and a lock
\* is never shorter than what was promised. A token is minted when it is launched.
BagsInv ==
    /\ clock \in Nat
    /\ unlockOf \in [Bags -> Nat] /\ promised = unlockOf
    /\ lock \in [Bags -> [unlockTimestamp: Nat, previousUnlock: Nat]]
    /\ balanceOf \in [Bags -> Nat] /\ holder = balanceOf
    /\ \A b \in Bags : lock[b].unlockTimestamp = unlockOf[b]
                       /\ (unlockOf[b] = 0 => lock[b] = NoLock)
    /\ \A t \in Tokens, w \in Users :
          /\ unlockOf[<<w, t>>] # 0 => w = registry[t].creatorOf
          /\ ~IsRegistered(t) => balanceOf[<<w, t>>] = 0

Earning == [row: BOOLEAN, lifetimeAccrued: Nat, claimed: Nat, redirectedToTreasury: Nat,
            disabled: BOOLEAN]

\* The row e says what the distributor's record i does, and w went to the treasury.
RowIs(e, i, w) ==
    /\ e.lifetimeAccrued = i.accrued /\ e.claimed = i.claimed /\ e.disabled = i.disabled
    /\ e.redirectedToTreasury = w
    /\ i.claimed <= i.accrued
    /\ i.accrued > 0 => e.row

\* A storage of the distributor with any balances.
IsStorage(f) ==
    /\ f = [info |-> f.info, lastSeenBalance |-> f.lastSeenBalance, balance |-> f.balance]
    /\ f.info \in [Tokens -> TokenInfo]

FeesInv ==
    /\ IsStorage(fees)
    /\ earning \in [Tokens -> Earning]
    /\ toTreasury \in [Tokens -> Nat]
    /\ \A t \in Tokens : RowIs(earning[t], fees.info[t], toTreasury[t])

RightsInv == RegistryInv /\ BagsInv /\ FeesInv

LEMMA InitRights ==
  ASSUME Init
  PROVE  RightsInv
<1>1. RegistryInv
  BY DEF Init, RegistryInv, Registration, Unregistered, IsRegistered
<1>2. BagsInv
  <2>1. lock \in [Bags -> [unlockTimestamp: Nat, previousUnlock: Nat]]
    BY DEF Init, NoLock
  <2>2. \A b \in Bags : lock[b] = NoLock /\ unlockOf[b] = 0 /\ NoLock.unlockTimestamp = 0
    BY DEF Init, NoLock
  <2>3. \A t \in Tokens, w \in Users :
           <<w, t>> \in Bags /\ unlockOf[<<w, t>>] = 0 /\ balanceOf[<<w, t>>] = 0
    BY DEF Init, Bags
  <2>4. /\ unlockOf \in [Bags -> Nat] /\ promised = unlockOf /\ clock \in Nat
        /\ balanceOf \in [Bags -> Nat] /\ holder = balanceOf
    BY DEF Init
  <2> QED
    BY <2>1, <2>2, <2>3, <2>4 DEF BagsInv
<1>3. FeesInv
  <2>1. fees.info = [t \in Tokens |-> [accrued |-> 0, claimed |-> 0, disabled |-> FALSE]]
    BY DEF Init, NoFees
  <2>2. fees.info \in [Tokens -> TokenInfo]
    BY <2>1 DEF TokenInfo
  <2>3. IsStorage(fees)
    BY <2>2 DEF Init, NoFees, IsStorage
  <2>4. earning \in [Tokens -> Earning] /\ toTreasury \in [Tokens -> Nat]
    BY DEF Init, Earning, NoEarning
  <2>5. \A t \in Tokens : RowIs(earning[t], fees.info[t], toTreasury[t])
    <3>1. ASSUME NEW t \in Tokens PROVE RowIs(earning[t], fees.info[t], toTreasury[t])
      <4>1. /\ earning[t] = NoEarning /\ toTreasury[t] = 0
            /\ fees.info[t] = [accrued |-> 0, claimed |-> 0, disabled |-> FALSE]
        BY <2>1 DEF Init
      <4> QED
        BY <4>1 DEF NoEarning, RowIs
    <3> QED
      BY <3>1
  <2> QED
    BY <2>3, <2>4, <2>5 DEF FeesInv
<1> QED
  BY <1>1, <1>2, <1>3 DEF RightsInv

(***************************************************************************)
(* The registry                                                            *)
(***************************************************************************)

\* A token's registration is replaced; its nomination is the admin's.
LEMMA Registers ==
  ASSUME RegistryInv, NEW t \in Tokens, NEW r \in Registration,
         registry' = [registry EXCEPT ![t] = r],
         nominator' \in [Tokens -> Users \cup {NoOne}],
         \A u \in Tokens \ {t} : nominator'[u] = nominator[u],
         r.creatorOf = NoOne => r.pendingAdminOf = NoOne,
         r.pendingAdminOf # NoOne => nominator'[t] = AdminIn(r)
  PROVE  RegistryInv'
<1>1. registry' \in [Tokens -> Registration]
  BY DEF RegistryInv
<1>2. \A u \in Tokens : registry'[u] = IF u = t THEN r ELSE registry[u]
  BY DEF RegistryInv
<1>3. ASSUME NEW u \in Tokens
      PROVE  /\ ~IsRegistered(u)' => registry'[u].pendingAdminOf = NoOne
             /\ registry'[u].pendingAdminOf # NoOne => nominator'[u] = AdminOf(u)'
  <2>1. CASE u = t
    BY <1>2, <2>1 DEF IsRegistered, AdminOf
  <2>2. CASE u # t
    <3>1. registry'[u] = registry[u] /\ nominator'[u] = nominator[u]
      BY <1>2, <2>2
    <3> QED
      BY <3>1 DEF RegistryInv, IsRegistered, AdminOf
  <2> QED
    BY <2>1, <2>2
<1> QED
  BY <1>1, <1>3 DEF RegistryInv

\* One field of a registration.
LEMMA RegistrationFields ==
  ASSUME NEW r \in Registration, NEW u \in Users \cup {NoOne}
  PROVE  /\ LET s == [r EXCEPT !.creatorOf = u]
            IN  s \in Registration /\ s.creatorOf = u /\ s.pendingAdminOf = r.pendingAdminOf
         /\ LET s == [r EXCEPT !.recipientOverrideOf = u]
            IN  /\ s \in Registration /\ s.creatorOf = r.creatorOf
                /\ s.pendingAdminOf = r.pendingAdminOf /\ AdminIn(s) = AdminIn(r)
         /\ LET s == [r EXCEPT !.pendingAdminOf = u]
            IN  /\ s \in Registration /\ s.creatorOf = r.creatorOf
                /\ s.pendingAdminOf = u /\ AdminIn(s) = AdminIn(r)
         /\ LET s == [r EXCEPT !.adminOverrideOf = u]
            IN  s \in Registration /\ s.creatorOf = r.creatorOf
<1>1. LET s == [r EXCEPT !.creatorOf = u]
      IN  s \in Registration /\ s.creatorOf = u /\ s.pendingAdminOf = r.pendingAdminOf
  BY DEF Registration
<1>2. LET s == [r EXCEPT !.recipientOverrideOf = u]
      IN  /\ s \in Registration /\ s.creatorOf = r.creatorOf
          /\ s.pendingAdminOf = r.pendingAdminOf /\ AdminIn(s) = AdminIn(r)
  BY DEF Registration, AdminIn
<1>3. LET s == [r EXCEPT !.pendingAdminOf = u]
      IN  /\ s \in Registration /\ s.creatorOf = r.creatorOf
          /\ s.pendingAdminOf = u /\ AdminIn(s) = AdminIn(r)
  BY DEF Registration, AdminIn
<1>4. LET s == [r EXCEPT !.adminOverrideOf = u]
      IN  s \in Registration /\ s.creatorOf = r.creatorOf
  BY DEF Registration
<1> QED
  BY <1>1, <1>2, <1>3, <1>4

LEMMA AdminIsUser ==
  ASSUME RegistryInv, NEW t \in Tokens, IsRegistered(t)
  PROVE  AdminOf(t) \in Users \cup {NoOne} /\ registry[t] \in Registration
         /\ registry[t].creatorOf # NoOne
BY DEF RegistryInv, IsRegistered, AdminOf, AdminIn, Registration

\* The creator of record is set once; the other fields leave it alone.
SameCreators == \A u \in Tokens : registry'[u].creatorOf = registry[u].creatorOf

LEMMA RecipientStep ==
  ASSUME RegistryInv, NEW t \in Tokens, NEW by \in Users, NEW to \in Users,
         SetCreatorRecipient(t, by, to)
  PROVE  RegistryInv' /\ SameCreators
<1> DEFINE r == [registry[t] EXCEPT !.recipientOverrideOf = to]
<1>1. registry' = [registry EXCEPT ![t] = r] /\ nominator' = nominator /\ IsRegistered(t)
  BY DEF SetCreatorRecipient, history, RegistryInv
<1>2. registry[t] \in Registration /\ registry[t].creatorOf # NoOne
  BY <1>1, AdminIsUser
<1>3. /\ r \in Registration /\ r.creatorOf = registry[t].creatorOf
      /\ r.pendingAdminOf = registry[t].pendingAdminOf /\ AdminIn(r) = AdminIn(registry[t])
  BY <1>2, RegistrationFields
<1>4. r.pendingAdminOf # NoOne => nominator'[t] = AdminIn(r)
  BY <1>1, <1>3 DEF RegistryInv, AdminOf
<1> HIDE DEF r
<1>5. RegistryInv'
  BY <1>1, <1>2, <1>3, <1>4, Registers DEF RegistryInv
<1>6. SameCreators
  BY <1>1, <1>3 DEF RegistryInv, SameCreators
<1> QED
  BY <1>5, <1>6

LEMMA NominateStep ==
  ASSUME RegistryInv, NEW t \in Tokens, NEW by \in Users, NEW to \in Users,
         NominateAdmin(t, by, to)
  PROVE  RegistryInv' /\ SameCreators
<1> DEFINE r == [registry[t] EXCEPT !.pendingAdminOf = to]
<1>1. /\ registry' = [registry EXCEPT ![t] = r] /\ nominator' = [nominator EXCEPT ![t] = by]
      /\ IsRegistered(t) /\ by = AdminOf(t)
  BY DEF NominateAdmin, RegistryInv
<1>2. registry[t] \in Registration /\ registry[t].creatorOf # NoOne
  BY <1>1, AdminIsUser
<1>3. /\ r \in Registration /\ r.creatorOf = registry[t].creatorOf
      /\ r.pendingAdminOf = to /\ AdminIn(r) = AdminIn(registry[t])
  BY <1>2, RegistrationFields
<1>4. /\ nominator' \in [Tokens -> Users \cup {NoOne}] /\ nominator'[t] = by
      /\ \A u \in Tokens \ {t} : nominator'[u] = nominator[u]
  BY <1>1 DEF RegistryInv
<1>5. nominator'[t] = AdminIn(r)
  BY <1>1, <1>3, <1>4 DEF AdminOf
<1> HIDE DEF r
<1>6. RegistryInv'
  BY <1>1, <1>2, <1>3, <1>4, <1>5, Registers
<1>7. SameCreators
  BY <1>1, <1>3 DEF RegistryInv, SameCreators
<1> QED
  BY <1>6, <1>7

LEMMA AcceptStep ==
  ASSUME RegistryInv, NEW t \in Tokens, NEW by \in Users, AcceptAdmin(t, by)
  PROVE  RegistryInv' /\ SameCreators
<1> DEFINE a == registry[t].pendingAdminOf
           r == [registry[t] EXCEPT !.adminOverrideOf = a]
           s == [r EXCEPT !.pendingAdminOf = NoOne]
<1>1. /\ registry' = [registry EXCEPT ![t] = Accepted(registry[t])]
      /\ nominator' = nominator /\ IsRegistered(t)
  BY DEF AcceptAdmin, history, RegistryInv
<1>2. registry[t] \in Registration /\ registry[t].creatorOf # NoOne
  BY <1>1, AdminIsUser
<1>3. Accepted(registry[t]) = s
  BY <1>2 DEF Accepted, Registration
<1>4. a \in Users \cup {NoOne}
  BY <1>2 DEF Registration
<1> HIDE DEF a
<1>5. r \in Registration /\ r.creatorOf = registry[t].creatorOf
  BY <1>2, <1>4, RegistrationFields
<1> HIDE DEF r
<1>6. s \in Registration /\ s.creatorOf = r.creatorOf /\ s.pendingAdminOf = NoOne
  BY <1>5, RegistrationFields
<1> HIDE DEF s
<1>7. RegistryInv'
  BY <1>1, <1>3, <1>6, Registers DEF RegistryInv
<1>8. SameCreators
  BY <1>1, <1>3, <1>5, <1>6 DEF RegistryInv, SameCreators
<1> QED
  BY <1>7, <1>8

LEMMA CancelStep ==
  ASSUME RegistryInv, NEW t \in Tokens, NEW by \in Users, CancelNomination(t, by)
  PROVE  RegistryInv' /\ SameCreators
<1> DEFINE r == [registry[t] EXCEPT !.pendingAdminOf = NoOne]
<1>1. registry' = [registry EXCEPT ![t] = r] /\ nominator' = nominator /\ IsRegistered(t)
  BY DEF CancelNomination, history, RegistryInv
<1>2. registry[t] \in Registration /\ registry[t].creatorOf # NoOne
  BY <1>1, AdminIsUser
<1>3. r \in Registration /\ r.creatorOf = registry[t].creatorOf /\ r.pendingAdminOf = NoOne
  BY <1>2, RegistrationFields
<1> HIDE DEF r
<1>4. RegistryInv'
  BY <1>1, <1>3, Registers DEF RegistryInv
<1>5. SameCreators
  BY <1>1, <1>3 DEF RegistryInv, SameCreators
<1> QED
  BY <1>4, <1>5

LEMMA LaunchRegisters ==
  ASSUME RegistryInv, NEW t \in Tokens, NEW creator \in Users, Launch(t, creator)
  PROVE  /\ RegistryInv'
         /\ \A u \in Tokens : registry'[u].creatorOf =
               IF u = t THEN creator ELSE registry[u].creatorOf
<1> DEFINE r == [registry[t] EXCEPT !.creatorOf = creator]
<1>1. registry' = [registry EXCEPT ![t] = r] /\ nominator' = nominator /\ ~IsRegistered(t)
  BY DEF Launch, history, RegistryInv
<1>2. registry[t] \in Registration /\ registry[t].pendingAdminOf = NoOne
  BY <1>1 DEF RegistryInv
<1>3. r \in Registration /\ r.creatorOf = creator /\ r.pendingAdminOf = NoOne
  BY <1>2, RegistrationFields
<1> HIDE DEF r
<1>4. RegistryInv'
  BY <1>1, <1>3, Registers, RightsConstants DEF RegistryInv
<1>5. \A u \in Tokens : registry'[u].creatorOf =
          IF u = t THEN creator ELSE registry[u].creatorOf
  BY <1>1, <1>3 DEF RegistryInv
<1> QED
  BY <1>4, <1>5

(***************************************************************************)
(* Locks and balances                                                      *)
(***************************************************************************)

LEMMA QuietBags ==
  ASSUME BagsInv, SameCreators, UNCHANGED <<unlockOf, promised, lock, balanceOf, holder>>,
         clock' \in Nat
  PROVE  BagsInv'
BY DEF BagsInv, SameCreators, IsRegistered

LEMMA CommitStep ==
  ASSUME BagsInv, NEW t \in Tokens, NEW by \in Users, NEW until \in Nat, Commit(t, by, until)
  PROVE  BagsInv'
<1> DEFINE b == <<by, t>>
           row == [unlockTimestamp |-> until, previousUnlock |-> unlockOf[b]]
<1>1. /\ by = registry[t].creatorOf /\ until > unlockOf[b]
      /\ unlockOf' = [unlockOf EXCEPT ![b] = until]
      /\ lock' = [lock EXCEPT ![b] = row]
      /\ promised' = [promised EXCEPT ![b] = IF until > promised[b] THEN until ELSE promised[b]]
      /\ UNCHANGED <<clock, registry, balanceOf, holder>>
  BY DEF Commit, CanCommit, BagsInv
<1>2. b \in Bags /\ unlockOf[b] \in Nat /\ promised = unlockOf
  BY DEF BagsInv, Bags
<1>3. row \in [unlockTimestamp: Nat, previousUnlock: Nat] /\ row.unlockTimestamp = until
  BY <1>2
<1> HIDE DEF row
<1>4. until > 0
  BY <1>1, <1>2
<1>5. promised' = unlockOf'
  BY <1>1, <1>2
<1>6. unlockOf' \in [Bags -> Nat] /\ lock' \in [Bags -> [unlockTimestamp: Nat, previousUnlock: Nat]]
  BY <1>1, <1>3 DEF BagsInv
<1>7. \A c \in Bags : lock'[c].unlockTimestamp = unlockOf'[c]
                      /\ (unlockOf'[c] = 0 => lock'[c] = NoLock)
  BY <1>1, <1>3, <1>4 DEF BagsInv
<1>8. ASSUME NEW u \in Tokens, NEW w \in Users, unlockOf'[<<w, u>>] # 0
      PROVE  w = registry'[u].creatorOf
  <2>1. <<w, u>> \in Bags
    BY DEF Bags
  <2>2. CASE <<w, u>> = b
    BY <1>1, <2>2
  <2>3. CASE <<w, u>> # b
    <3>1. unlockOf'[<<w, u>>] = unlockOf[<<w, u>>]
      BY <1>1, <2>1, <2>3 DEF BagsInv
    <3> QED
      BY <1>1, <1>8, <3>1 DEF BagsInv
  <2> QED
    BY <2>2, <2>3
<1>9. \A u \in Tokens, w \in Users : ~IsRegistered(u)' => balanceOf'[<<w, u>>] = 0
  BY <1>1 DEF BagsInv, IsRegistered
<1> QED
  BY <1>1, <1>5, <1>6, <1>7, <1>8, <1>9 DEF BagsInv

\* A transfer of no more than the sender has takes from the sender alone.
LEMMA MovedBalances ==
  ASSUME NEW b \in [Bags -> Nat], NEW t \in Tokens, NEW from \in Users, NEW to \in Users,
         NEW amount \in Nat, amount <= b[<<from, t>>]
  PROVE  /\ Moved(b, t, from, to, amount) \in [Bags -> Nat]
         /\ \A k \in Bags : Moved(b, t, from, to, amount)[k] < b[k] => k = <<from, t>>
         /\ \A k \in Bags : k[2] # t => Moved(b, t, from, to, amount)[k] = b[k]
<1> DEFINE f == <<from, t>>
           g == <<to, t>>
           n == b[f] - amount
           c == [b EXCEPT ![f] = n]
           v == c[g] + amount
           d == [c EXCEPT ![g] = v]
<1>1. f \in Bags /\ g \in Bags /\ f[2] = t /\ g[2] = t
  BY DEF Bags
<1> HIDE DEF f, g
<1>2. n \in Nat
  BY <1>1 DEF f
<1>3. c \in [Bags -> Nat] /\ c[f] = n /\ \A k \in Bags : k # f => c[k] = b[k]
  BY <1>1, <1>2
<1>4. Moved(b, t, from, to, amount) = d
  BY <1>1, <1>3 DEF Moved, f, g
<1> HIDE DEF c
<1>5. v \in Nat
  BY <1>1, <1>3
<1> HIDE DEF v, n
<1>6. d \in [Bags -> Nat] /\ d[g] = v /\ \A k \in Bags : k # g => d[k] = c[k]
  BY <1>1, <1>3, <1>5
<1> HIDE DEF d
<1>7. ASSUME NEW k \in Bags, k # f PROVE d[k] >= b[k]
  <2>1. CASE k = g
    <3>1. d[k] = b[k] + amount
      BY <1>3, <1>6, <1>7, <2>1 DEF v
    <3> QED
      BY <3>1
  <2>2. CASE k # g
    BY <1>3, <1>6, <1>7, <2>2
  <2> QED
    BY <2>1, <2>2
<1>8. \A k \in Bags : d[k] < b[k] => k = f
  BY <1>6, <1>7
<1>9. \A k \in Bags : k[2] # t => d[k] = b[k]
  BY <1>1, <1>3, <1>6
<1> QED
  BY <1>4, <1>6, <1>8, <1>9 DEF f

LEMMA TransferIsMoved ==
  ASSUME BagsInv, NEW t \in Tokens, NEW from \in Users, NEW to \in Users, NEW amount \in Nat,
         Transfer(t, from, to, amount)
  PROVE  /\ IsRegistered(t) /\ ~IsLocked(from, t) /\ amount <= balanceOf[<<from, t>>]
         /\ balanceOf' = Moved(balanceOf, t, from, to, amount) /\ holder' = balanceOf'
         /\ UNCHANGED <<clock, registry, unlockOf, promised, lock>>
<1>1. balanceOf' = Moved(balanceOf, t, from, to, amount)
  BY DEF Transfer
<1>2. holder' = balanceOf'
  BY <1>1 DEF Transfer, BagsInv
<1> QED
  BY <1>1, <1>2 DEF Transfer, history

LEMMA TransferStep ==
  ASSUME BagsInv, NEW t \in Tokens, NEW from \in Users, NEW to \in Users, NEW amount \in Nat,
         Transfer(t, from, to, amount)
  PROVE  BagsInv'
<1>1. /\ IsRegistered(t) /\ amount <= balanceOf[<<from, t>>] /\ holder' = balanceOf'
      /\ balanceOf' = Moved(balanceOf, t, from, to, amount)
      /\ UNCHANGED <<clock, registry, unlockOf, promised, lock>>
  BY TransferIsMoved
<1>2. balanceOf \in [Bags -> Nat]
  BY DEF BagsInv
<1>3. /\ balanceOf' \in [Bags -> Nat]
      /\ \A k \in Bags : k[2] # t => balanceOf'[k] = balanceOf[k]
  BY <1>1, <1>2, MovedBalances
<1>4. ASSUME NEW u \in Tokens, NEW w \in Users, ~IsRegistered(u)'
      PROVE  balanceOf'[<<w, u>>] = 0
  <2>1. u # t /\ <<w, u>> \in Bags
    BY <1>1, <1>4 DEF IsRegistered, Bags
  <2>2. balanceOf'[<<w, u>>] = balanceOf[<<w, u>>]
    BY <1>3, <2>1
  <2> QED
    BY <1>1, <1>4, <2>2 DEF BagsInv, IsRegistered
<1> QED
  BY <1>1, <1>3, <1>4 DEF BagsInv

LEMMA LaunchBags ==
  ASSUME RegistryInv, BagsInv, NEW t \in Tokens, NEW creator \in Users, Launch(t, creator)
  PROVE  BagsInv'
<1>1. /\ ~IsRegistered(t)
      /\ balanceOf' = [balanceOf EXCEPT ![<<Pool, t>>] = Supply]
      /\ holder' = [holder EXCEPT ![<<Pool, t>>] = Supply]
      /\ UNCHANGED <<clock, unlockOf, promised, lock>>
  BY DEF Launch, history
<1>2. <<Pool, t>> \in Bags /\ Supply \in Nat
  BY RightsConstants DEF Bags
<1>3. balanceOf' \in [Bags -> Nat] /\ holder' = balanceOf'
  BY <1>1, <1>2 DEF BagsInv
<1>4. \A u \in Tokens : registry'[u].creatorOf = IF u = t THEN creator ELSE registry[u].creatorOf
  BY LaunchRegisters
<1>5. ASSUME NEW u \in Tokens, NEW w \in Users
      PROVE  /\ unlockOf'[<<w, u>>] # 0 => w = registry'[u].creatorOf
             /\ ~IsRegistered(u)' => balanceOf'[<<w, u>>] = 0
  <2>1. <<w, u>> \in Bags
    BY DEF Bags
  <2>2. CASE u = t
    <3>1. unlockOf[<<w, u>>] = 0
      BY <1>1, <2>2, RightsConstants DEF BagsInv, IsRegistered
    <3> QED
      BY <1>1, <1>4, <2>2, <3>1, RightsConstants DEF IsRegistered
  <2>3. CASE u # t
    <3>1. balanceOf'[<<w, u>>] = balanceOf[<<w, u>>]
      BY <1>1, <2>1, <2>3 DEF BagsInv
    <3> QED
      BY <1>1, <1>4, <2>3, <3>1 DEF BagsInv, IsRegistered
  <2> QED
    BY <2>2, <2>3
<1> QED
  BY <1>1, <1>3, <1>5 DEF BagsInv

(***************************************************************************)
(* Fees and their rows                                                     *)
(***************************************************************************)

\* A record of the distributor, field by field.
InfoOf(accrued, claimed, disabled) ==
    [accrued |-> accrued, claimed |-> claimed, disabled |-> disabled]

LEMMA InfoFields ==
  ASSUME NEW f, IsStorage(f), NEW t \in Tokens
  PROVE  /\ f.info[t] \in TokenInfo
         /\ f.info[t].accrued \in Nat /\ f.info[t].claimed \in Nat
         /\ f.info[t].disabled \in BOOLEAN
         /\ f.info[t] = InfoOf(f.info[t].accrued, f.info[t].claimed, f.info[t].disabled)
BY DEF IsStorage, TokenInfo, InfoOf

\* One field of a record.
LEMMA InfoChanges ==
  ASSUME NEW i \in TokenInfo, NEW n \in Nat
  PROVE  /\ [i EXCEPT !.accrued = n] = InfoOf(n, i.claimed, i.disabled)
         /\ [i EXCEPT !.claimed = n] = InfoOf(i.accrued, n, i.disabled)
         /\ [i EXCEPT !.disabled = TRUE] = InfoOf(i.accrued, i.claimed, TRUE)
<1>1. [i EXCEPT !.accrued = n] = InfoOf(n, i.claimed, i.disabled)
  BY DEF TokenInfo, InfoOf
<1>2. [i EXCEPT !.claimed = n] = InfoOf(i.accrued, n, i.disabled)
  BY DEF TokenInfo, InfoOf
<1>3. [i EXCEPT !.disabled = TRUE] = InfoOf(i.accrued, i.claimed, TRUE)
  <2>1. \A r, s \in TokenInfo :
           r.accrued = s.accrued /\ r.claimed = s.claimed /\ r.disabled = s.disabled => r = s
    BY DEF TokenInfo
  <2>2. [i EXCEPT !.disabled = TRUE] \in TokenInfo
    BY DEF TokenInfo
  <2>3. InfoOf(i.accrued, i.claimed, TRUE) \in TokenInfo
    BY DEF TokenInfo, InfoOf
  <2>4. LET r == [i EXCEPT !.disabled = TRUE]
        IN  r.accrued = i.accrued /\ r.claimed = i.claimed /\ r.disabled = TRUE
    BY DEF TokenInfo
  <2>5. LET r == InfoOf(i.accrued, i.claimed, TRUE)
        IN  r.accrued = i.accrued /\ r.claimed = i.claimed /\ r.disabled = TRUE
    BY DEF InfoOf
  <2> QED
    BY <2>1, <2>2, <2>3, <2>4, <2>5
<1> QED
  BY <1>1, <1>2, <1>3

\* notifyFee with the WETH sent just before: a fee accrues, unless it is redirected.
LEMMA NotifiedInfo ==
  ASSUME NEW f, IsStorage(f), NEW t \in Tokens, NEW a \in Nat
  PROVE  LET g == FeeNotified(FeeSent(f, a), t, a)
             i == f.info[t]
         IN  /\ IsStorage(g)
             /\ i.disabled => g.info = f.info
             /\ ~i.disabled =>
                   g.info = [f.info EXCEPT ![t] = InfoOf(i.accrued + a, i.claimed, i.disabled)]
<1> DEFINE s == FeeSent(f, a)
           g == FeeNotified(s, t, a)
           i == f.info[t]
<1>1. /\ i \in TokenInfo /\ i.accrued \in Nat /\ i.claimed \in Nat /\ i.disabled \in BOOLEAN
      /\ i = InfoOf(i.accrued, i.claimed, i.disabled)
  BY InfoFields
<1>2. s = [info |-> f.info, lastSeenBalance |-> f.lastSeenBalance, balance |-> f.balance + a]
  BY DEF FeeSent, IsStorage
<1>3. f.info \in [Tokens -> TokenInfo]
  BY DEF IsStorage
<1> HIDE DEF s
<1>4. CASE i.disabled
  <2>1. g = [info |-> f.info, lastSeenBalance |-> s.balance - a, balance |-> s.balance - a]
    BY <1>2, <1>4 DEF FeeNotified
  <2> QED
    BY <1>3, <1>4, <2>1 DEF IsStorage, s
<1>5. CASE ~i.disabled
  <2> DEFINE r == InfoOf(i.accrued + a, i.claimed, i.disabled)
  <2>1. g = [info |-> [f.info EXCEPT ![t].accrued = @ + a], lastSeenBalance |-> s.balance,
             balance |-> s.balance]
    BY <1>2, <1>5 DEF FeeNotified
  <2>2. [f.info EXCEPT ![t].accrued = @ + a] = [f.info EXCEPT ![t] = r]
    <3>1. [f.info EXCEPT ![t].accrued = @ + a]
             = [f.info EXCEPT ![t] = [i EXCEPT !.accrued = i.accrued + a]]
      OBVIOUS
    <3>2. i.accrued + a \in Nat
      BY <1>1
    <3> QED
      BY <1>1, <3>1, <3>2, InfoChanges
  <2>3. r \in TokenInfo
    BY <1>1 DEF TokenInfo, InfoOf
  <2> HIDE DEF r
  <2>4. [f.info EXCEPT ![t] = r] \in [Tokens -> TokenInfo]
    BY <1>3, <2>3
  <2>5. IsStorage(g) /\ g.info = [f.info EXCEPT ![t] = r]
    BY <2>1, <2>2, <2>4 DEF IsStorage
  <2> QED
    BY <1>5, <2>5 DEF r, s
<1> QED
  BY <1>4, <1>5 DEF s

\* A claim and a sweep leave nothing pending.
LEMMA PaidOutInfo ==
  ASSUME NEW f, IsStorage(f), NEW t \in Tokens, ~f.info[t].disabled
  PROVE  LET i == f.info[t] IN
         /\ IsStorage(PaidOut(f, t)) /\ IsStorage(FeeDisabled(f, t))
         /\ PaidOut(f, t).info =
               [f.info EXCEPT ![t] = InfoOf(i.accrued, i.accrued, i.disabled)]
         /\ FeeDisabled(f, t).info =
               [f.info EXCEPT ![t] = InfoOf(i.accrued, i.accrued, TRUE)]
<1> DEFINE paid == PaidOut(f, t)
           i == f.info[t]
           r == InfoOf(i.accrued, i.accrued, i.disabled)
           d == InfoOf(i.accrued, i.accrued, TRUE)
<1>1. /\ i \in TokenInfo /\ i.accrued \in Nat /\ i.claimed \in Nat /\ i.disabled \in BOOLEAN
      /\ i = InfoOf(i.accrued, i.claimed, i.disabled)
  BY InfoFields
<1>2. f.info \in [Tokens -> TokenInfo]
  BY DEF IsStorage
<1>3. r \in TokenInfo /\ d \in TokenInfo /\ d = [r EXCEPT !.disabled = TRUE]
  <2>1. r \in TokenInfo /\ d \in TokenInfo
    BY <1>1 DEF TokenInfo, InfoOf
  <2>2. r.accrued = i.accrued /\ r.claimed = i.accrued
    BY DEF InfoOf
  <2> HIDE DEF r
  <2> QED
    BY <2>1, <2>2, <1>1, InfoChanges
<1>4. paid = [info |-> [f.info EXCEPT ![t].claimed = i.accrued],
              lastSeenBalance |-> f.lastSeenBalance - Pending(f, t),
              balance |-> f.balance - Pending(f, t)]
  <2>1. f = [info |-> f.info, lastSeenBalance |-> f.lastSeenBalance, balance |-> f.balance]
    BY DEF IsStorage
  <2>2. PaidOut(f, t) = [f EXCEPT !.info = [@ EXCEPT ![t].claimed = f.info[t].accrued],
                                  !.lastSeenBalance = @ - Pending(f, t),
                                  !.balance = @ - Pending(f, t)]
    BY DEF PaidOut
  <2> QED
    BY <2>1, <2>2
<1>5. [f.info EXCEPT ![t].claimed = i.accrued] = [f.info EXCEPT ![t] = r]
  <2>1. [f.info EXCEPT ![t].claimed = i.accrued]
           = [f.info EXCEPT ![t] = [i EXCEPT !.claimed = i.accrued]]
    OBVIOUS
  <2> QED
    BY <1>1, <2>1, InfoChanges
<1> HIDE DEF r, d
<1>6. [f.info EXCEPT ![t] = r] \in [Tokens -> TokenInfo]
  BY <1>2, <1>3
<1>7. /\ paid.info = [f.info EXCEPT ![t] = r] /\ IsStorage(paid)
      /\ paid = [info |-> paid.info, lastSeenBalance |-> paid.lastSeenBalance,
                 balance |-> paid.balance]
  BY <1>4, <1>5, <1>6 DEF IsStorage
<1> HIDE DEF paid
<1> DEFINE off == [paid EXCEPT !.info[t].disabled = TRUE]
           info == [paid.info EXCEPT ![t].disabled = TRUE]
<1>8. off = [info |-> info, lastSeenBalance |-> paid.lastSeenBalance, balance |-> paid.balance]
  <2>1. off = [paid EXCEPT !.info = info]
    OBVIOUS
  <2> HIDE DEF info, off
  <2> QED
    BY <1>7, <2>1
<1>9. info = [f.info EXCEPT ![t] = d]
  BY <1>2, <1>3, <1>7
<1>10. [f.info EXCEPT ![t] = d] \in [Tokens -> TokenInfo]
  BY <1>2, <1>3
<1> HIDE DEF info, off
<1>11. off.info = [f.info EXCEPT ![t] = d] /\ IsStorage(off)
  BY <1>8, <1>9, <1>10 DEF IsStorage
<1>12. FeeDisabled(f, t) = off
  BY DEF FeeDisabled, off, paid
<1> QED
  BY <1>7, <1>11, <1>12 DEF paid, r, d

\* One token's record, row and share of the treasury change together.
LEMMA OneRow ==
  ASSUME FeesInv, NEW t \in Tokens, NEW i, NEW e \in Earning, NEW w \in Nat,
         IsStorage(fees'), fees'.info = [fees.info EXCEPT ![t] = i],
         earning' = [earning EXCEPT ![t] = e], toTreasury' = [toTreasury EXCEPT ![t] = w],
         RowIs(e, i, w)
  PROVE  FeesInv'
<1>1. earning' \in [Tokens -> Earning] /\ toTreasury' \in [Tokens -> Nat]
  BY DEF FeesInv
<1>2. ASSUME NEW u \in Tokens PROVE RowIs(earning'[u], fees'.info[u], toTreasury'[u])
  <2>1. CASE u = t
    <3>1. earning'[u] = e /\ fees'.info[u] = i /\ toTreasury'[u] = w
      BY <2>1 DEF FeesInv, IsStorage
    <3> QED
      BY <3>1
  <2>2. CASE u # t
    <3>1. earning'[u] = earning[u] /\ fees'.info[u] = fees.info[u]
          /\ toTreasury'[u] = toTreasury[u]
      BY <2>2 DEF FeesInv, IsStorage
    <3> QED
      BY <3>1 DEF FeesInv
  <2> QED
    BY <2>1, <2>2
<1> QED
  BY <1>1, <1>2 DEF FeesInv

\* What the handlers make of a row.
LEMMA EarningFields ==
  ASSUME NEW e \in Earning, NEW a \in Nat
  PROVE  /\ LET g == OnAccrued(e, a)
            IN  /\ g \in Earning /\ g.row /\ g.lifetimeAccrued = e.lifetimeAccrued + a
                /\ g.claimed = e.claimed /\ g.disabled = e.disabled
                /\ g.redirectedToTreasury = e.redirectedToTreasury
         /\ LET g == OnRedirected(e, a)
            IN  /\ g \in Earning /\ g.row /\ g.lifetimeAccrued = e.lifetimeAccrued
                /\ g.claimed = e.claimed /\ g.disabled = e.disabled
                /\ g.redirectedToTreasury = e.redirectedToTreasury + a
         /\ LET g == OnDisabled(e)
            IN  /\ g \in Earning /\ g.row /\ g.lifetimeAccrued = e.lifetimeAccrued
                /\ g.claimed = e.lifetimeAccrued /\ g.disabled = TRUE
                /\ g.redirectedToTreasury = e.redirectedToTreasury
         /\ LET g == OnClaimed(e, a)
            IN  /\ g \in Earning /\ g.row
                /\ e.row => g.lifetimeAccrued = e.lifetimeAccrued
                /\ g.claimed = e.claimed + a /\ g.disabled = e.disabled
                /\ g.redirectedToTreasury = e.redirectedToTreasury
<1> DEFINE s == Inserted(e)
<1>1. /\ s \in Earning /\ s.row /\ s.lifetimeAccrued = e.lifetimeAccrued
      /\ s.claimed = e.claimed /\ s.disabled = e.disabled
      /\ s.redirectedToTreasury = e.redirectedToTreasury
  BY DEF Earning, Inserted
<1>2. e.lifetimeAccrued \in Nat /\ e.claimed \in Nat /\ e.redirectedToTreasury \in Nat
  BY DEF Earning
<1> HIDE DEF s
<1>3. LET g == OnAccrued(e, a)
      IN  /\ g \in Earning /\ g.row /\ g.lifetimeAccrued = e.lifetimeAccrued + a
          /\ g.claimed = e.claimed /\ g.disabled = e.disabled
          /\ g.redirectedToTreasury = e.redirectedToTreasury
  <2>1. OnAccrued(e, a) = [s EXCEPT !.lifetimeAccrued = e.lifetimeAccrued + a]
    BY <1>1 DEF OnAccrued, s
  <2> QED
    BY <1>1, <1>2, <2>1 DEF Earning
<1>4. LET g == OnRedirected(e, a)
      IN  /\ g \in Earning /\ g.row /\ g.lifetimeAccrued = e.lifetimeAccrued
          /\ g.claimed = e.claimed /\ g.disabled = e.disabled
          /\ g.redirectedToTreasury = e.redirectedToTreasury + a
  <2>1. OnRedirected(e, a) = [s EXCEPT !.redirectedToTreasury = e.redirectedToTreasury + a]
    BY <1>1 DEF OnRedirected, s
  <2> QED
    BY <1>1, <1>2, <2>1 DEF Earning
<1>5. LET g == OnDisabled(e)
      IN  /\ g \in Earning /\ g.row /\ g.lifetimeAccrued = e.lifetimeAccrued
          /\ g.claimed = e.lifetimeAccrued /\ g.disabled = TRUE
          /\ g.redirectedToTreasury = e.redirectedToTreasury
  <2> DEFINE d == [s EXCEPT !.disabled = TRUE]
  <2>1. OnDisabled(e) = [d EXCEPT !.claimed = e.lifetimeAccrued]
    BY DEF OnDisabled, s
  <2>2. /\ d \in Earning /\ d.row /\ d.lifetimeAccrued = e.lifetimeAccrued /\ d.disabled = TRUE
        /\ d.redirectedToTreasury = e.redirectedToTreasury
    BY <1>1 DEF Earning
  <2> HIDE DEF d
  <2> QED
    BY <1>2, <2>1, <2>2 DEF Earning
<1>6. LET g == OnClaimed(e, a)
      IN  /\ g \in Earning /\ g.row
          /\ e.row => g.lifetimeAccrued = e.lifetimeAccrued
          /\ g.claimed = e.claimed + a /\ g.disabled = e.disabled
          /\ g.redirectedToTreasury = e.redirectedToTreasury
  <2> DEFINE d == [s EXCEPT !.claimed = e.claimed + a]
             n == IF e.row THEN e.lifetimeAccrued ELSE e.lifetimeAccrued + a
  <2>1. OnClaimed(e, a) = [d EXCEPT !.lifetimeAccrued = n]
    BY <1>1 DEF OnClaimed, s
  <2>2. /\ d \in Earning /\ d.row /\ d.claimed = e.claimed + a /\ d.disabled = e.disabled
        /\ d.redirectedToTreasury = e.redirectedToTreasury
    BY <1>1, <1>2 DEF Earning
  <2>3. n \in Nat /\ (e.row => n = e.lifetimeAccrued)
    BY <1>2
  <2> HIDE DEF d, n
  <2> QED
    BY <2>1, <2>2, <2>3 DEF Earning
<1> QED
  BY <1>3, <1>4, <1>5, <1>6

\* The record of a token and its row, in a storage of the distributor.
LEMMA RowFacts ==
  ASSUME FeesInv, NEW t \in Tokens
  PROVE  /\ IsStorage(fees) /\ earning[t] \in Earning /\ toTreasury[t] \in Nat
         /\ fees.info[t].accrued \in Nat /\ fees.info[t].claimed \in Nat
         /\ fees.info[t].disabled \in BOOLEAN
         /\ Pending(fees, t) \in Nat
         /\ Pending(fees, t) = fees.info[t].accrued - fees.info[t].claimed
         /\ RowIs(earning[t], fees.info[t], toTreasury[t])
<1>1. IsStorage(fees) /\ earning[t] \in Earning /\ toTreasury[t] \in Nat
  BY DEF FeesInv
<1>2. /\ fees.info[t].accrued \in Nat /\ fees.info[t].claimed \in Nat
      /\ fees.info[t].disabled \in BOOLEAN
  BY <1>1, InfoFields
<1>3. RowIs(earning[t], fees.info[t], toTreasury[t])
  BY DEF FeesInv
<1>4. fees.info[t].claimed <= fees.info[t].accrued
  BY <1>3 DEF RowIs
<1> QED
  BY <1>1, <1>2, <1>3, <1>4 DEF Pending

LEMMA NotifyStep ==
  ASSUME FeesInv, NEW t \in Tokens, NEW a \in Nat, NotifyFee(t, a)
  PROVE  FeesInv'
<1> DEFINE g == FeeNotified(FeeSent(fees, a), t, a)
           i == fees.info[t]
           e == earning[t]
           w == toTreasury[t]
<1>1. /\ IsStorage(fees) /\ e \in Earning /\ w \in Nat /\ i.accrued \in Nat /\ i.claimed \in Nat
      /\ i.disabled \in BOOLEAN /\ RowIs(e, i, w)
  BY RowFacts
<1>2. /\ fees' = g
      /\ earning' = [earning EXCEPT ![t] = IF i.disabled THEN OnRedirected(e, a)
                                           ELSE OnAccrued(e, a)]
      /\ toTreasury' = [toTreasury EXCEPT ![t] = IF i.disabled THEN w + a ELSE w]
  BY DEF NotifyFee
<1>3. /\ IsStorage(g) /\ (i.disabled => g.info = fees.info)
      /\ ~i.disabled =>
            g.info = [fees.info EXCEPT ![t] = InfoOf(i.accrued + a, i.claimed, i.disabled)]
  BY <1>1, NotifiedInfo
<1> HIDE DEF g
<1>4. CASE i.disabled
  <2>1. g.info = [fees.info EXCEPT ![t] = i]
    <3>1. fees.info \in [Tokens -> TokenInfo]
      BY <1>1 DEF IsStorage
    <3> QED
      BY <1>3, <1>4, <3>1
  <2>2. OnRedirected(e, a) \in Earning /\ RowIs(OnRedirected(e, a), i, w + a)
    <3> DEFINE c == OnRedirected(e, a)
    <3>1. /\ c \in Earning /\ c.row /\ c.lifetimeAccrued = e.lifetimeAccrued
          /\ c.claimed = e.claimed /\ c.disabled = e.disabled
          /\ c.redirectedToTreasury = e.redirectedToTreasury + a
      <4>1. e \in Earning /\ a \in Nat
        BY <1>1
      <4> QED
        BY ONLY <4>1, EarningFields
    <3> HIDE DEF c
    <3>2. c.disabled = i.disabled
      <4>1. e.disabled = i.disabled
        BY <1>1 DEF RowIs
      <4> QED
        BY <3>1, <4>1
    <3>3. c.lifetimeAccrued = i.accrued /\ c.claimed = i.claimed
          /\ c.redirectedToTreasury = w + a /\ i.claimed <= i.accrued
      BY <1>1, <3>1 DEF RowIs
    <3> QED
      BY <3>1, <3>2, <3>3 DEF RowIs, c
  <2>3. w + a \in Nat
    BY <1>1
  <2> HIDE DEF i, e, w
  <2> QED
    BY <1>2, <1>3, <1>4, <2>1, <2>2, <2>3, OneRow
<1>5. CASE ~i.disabled
  <2> DEFINE j == InfoOf(i.accrued + a, i.claimed, i.disabled)
  <2>1. /\ j.accrued = i.accrued + a /\ j.claimed = i.claimed /\ j.disabled = i.disabled
    BY DEF InfoOf
  <2> HIDE DEF j
  <2>2. OnAccrued(e, a) \in Earning /\ RowIs(OnAccrued(e, a), j, w)
    <3> DEFINE c == OnAccrued(e, a)
    <3>1. /\ c \in Earning /\ c.row /\ c.lifetimeAccrued = e.lifetimeAccrued + a
          /\ c.claimed = e.claimed /\ c.disabled = e.disabled
          /\ c.redirectedToTreasury = e.redirectedToTreasury
      <4>1. e \in Earning /\ a \in Nat
        BY <1>1
      <4> QED
        BY ONLY <4>1, EarningFields
    <3> HIDE DEF c
    <3>2. c.disabled = j.disabled
      <4>1. e.disabled = i.disabled
        BY <1>1 DEF RowIs
      <4> QED
        BY <2>1, <3>1, <4>1
    <3>3. c.lifetimeAccrued = j.accrued /\ c.claimed = j.claimed /\ c.redirectedToTreasury = w
          /\ j.claimed <= j.accrued
      BY <1>1, <2>1, <3>1 DEF RowIs
    <3> QED
      BY <3>1, <3>2, <3>3 DEF RowIs, c
  <2>3. g.info = [fees.info EXCEPT ![t] = j]
    BY <1>3, <1>5 DEF j
  <2> HIDE DEF i, e, w
  <2> QED
    BY <1>1, <1>2, <1>3, <1>5, <2>2, <2>3, OneRow
<1> QED
  BY <1>4, <1>5

LEMMA ClaimStep ==
  ASSUME FeesInv, NEW t \in Tokens, NEW by \in Users, Claim(t, by)
  PROVE  FeesInv'
<1> DEFINE i == fees.info[t]
           e == earning[t]
           w == toTreasury[t]
           n == Pending(fees, t)
           d == IF n > 0 THEN OnClaimed(e, n) ELSE e
           j == InfoOf(i.accrued, i.accrued, i.disabled)
<1>1. /\ IsStorage(fees) /\ e \in Earning /\ w \in Nat /\ i.accrued \in Nat /\ i.claimed \in Nat
      /\ i.disabled \in BOOLEAN /\ RowIs(e, i, w) /\ n \in Nat /\ n = i.accrued - i.claimed
  BY RowFacts
<1>2. /\ fees' = PaidOut(fees, t) /\ ~i.disabled /\ earning' = [earning EXCEPT ![t] = d]
      /\ toTreasury' = toTreasury
  BY DEF Claim, CanClaimFees, history
<1>3. IsStorage(fees') /\ fees'.info = [fees.info EXCEPT ![t] = j]
  BY <1>1, <1>2, PaidOutInfo
<1>4. j.accrued = i.accrued /\ j.claimed = i.accrued /\ j.disabled = i.disabled
  BY DEF InfoOf
<1> HIDE DEF j, n
<1>5. d \in Earning /\ RowIs(d, j, w)
  <2>1. CASE n > 0
    <3>1. e.row /\ e.claimed + n = i.accrued
      BY <1>1, <2>1 DEF RowIs
    <3>2. LET c == OnClaimed(e, n)
          IN  /\ c \in Earning /\ c.row /\ c.lifetimeAccrued = e.lifetimeAccrued
              /\ c.claimed = e.claimed + n /\ c.disabled = e.disabled
              /\ c.redirectedToTreasury = e.redirectedToTreasury
      BY <1>1, <3>1, EarningFields
    <3> HIDE DEF e, i
    <3>3. RowIs(OnClaimed(e, n), j, w)
      BY <1>1, <1>4, <3>1, <3>2 DEF RowIs
    <3> QED
      BY <2>1, <3>2, <3>3
  <2>2. CASE ~(n > 0)
    <3>1. i.claimed = i.accrued
      BY <1>1, <2>2
    <3> QED
      BY <1>1, <1>4, <2>2, <3>1 DEF RowIs
  <2> QED
    BY <2>1, <2>2
<1>6. toTreasury' = [toTreasury EXCEPT ![t] = w]
  BY <1>2 DEF FeesInv
<1> HIDE DEF d, w
<1> QED
  BY <1>1, <1>2, <1>3, <1>5, <1>6, OneRow

LEMMA DisableStep ==
  ASSUME FeesInv, NEW t \in Tokens, DisableCreatorFee(t)
  PROVE  FeesInv'
<1> DEFINE i == fees.info[t]
           e == earning[t]
           w == toTreasury[t]
           n == Pending(fees, t)
           off == OnDisabled(e)
           d == IF n > 0 THEN OnRedirected(off, n) ELSE off
           j == InfoOf(i.accrued, i.accrued, TRUE)
<1>1. /\ IsStorage(fees) /\ e \in Earning /\ w \in Nat /\ i.accrued \in Nat /\ i.claimed \in Nat
      /\ i.disabled \in BOOLEAN /\ RowIs(e, i, w) /\ n \in Nat
  BY RowFacts
<1>2. /\ fees' = FeeDisabled(fees, t) /\ ~i.disabled /\ earning' = [earning EXCEPT ![t] = d]
      /\ toTreasury' = [toTreasury EXCEPT ![t] = w + n]
  BY DEF DisableCreatorFee
<1>3. IsStorage(fees') /\ fees'.info = [fees.info EXCEPT ![t] = j]
  BY <1>1, <1>2, PaidOutInfo
<1>4. j.accrued = i.accrued /\ j.claimed = i.accrued /\ j.disabled = TRUE
  BY DEF InfoOf
<1> HIDE DEF j, n
<1>5. /\ off \in Earning /\ off.row /\ off.lifetimeAccrued = e.lifetimeAccrued
      /\ off.claimed = e.lifetimeAccrued /\ off.disabled = TRUE
      /\ off.redirectedToTreasury = e.redirectedToTreasury
  BY <1>1, EarningFields
<1> HIDE DEF off
<1>6. d \in Earning /\ RowIs(d, j, w + n)
  <2>1. CASE n > 0
    <3> DEFINE c == OnRedirected(off, n)
    <3>1. /\ c \in Earning /\ c.row /\ c.lifetimeAccrued = off.lifetimeAccrued
          /\ c.claimed = off.claimed /\ c.disabled = off.disabled
          /\ c.redirectedToTreasury = off.redirectedToTreasury + n
      BY <1>1, <1>5, EarningFields
    <3> HIDE DEF c
    <3>2. c.disabled = j.disabled
      BY <1>4, <1>5, <3>1
    <3>3. /\ c.lifetimeAccrued = j.accrued /\ c.claimed = j.claimed
          /\ c.redirectedToTreasury = w + n /\ j.claimed <= j.accrued
      BY <1>1, <1>4, <1>5, <3>1 DEF RowIs
    <3>4. RowIs(c, j, w + n)
      BY <3>1, <3>2, <3>3 DEF RowIs
    <3> QED
      BY <2>1, <3>1, <3>4 DEF c
  <2>2. CASE ~(n > 0)
    <3>1. w + n = w
      BY <1>1, <2>2
    <3>2. off.disabled = j.disabled
      BY <1>4, <1>5
    <3>3. /\ off.lifetimeAccrued = j.accrued /\ off.claimed = j.claimed
          /\ off.redirectedToTreasury = w /\ j.claimed <= j.accrued
      BY <1>1, <1>4, <1>5 DEF RowIs
    <3>4. RowIs(off, j, w)
      BY <1>5, <3>2, <3>3 DEF RowIs
    <3> QED
      BY <1>5, <2>2, <3>1, <3>4
  <2> QED
    BY <2>1, <2>2
<1>7. w + n \in Nat
  BY <1>1
<1> HIDE DEF d, w
<1> QED
  BY <1>1, <1>2, <1>3, <1>6, <1>7, OneRow

LEMMA QuietFees ==
  ASSUME FeesInv, UNCHANGED <<fees, earning, toTreasury>>
  PROVE  FeesInv'
BY DEF FeesInv

(***************************************************************************)
(* Every step                                                              *)
(***************************************************************************)

LEMMA QuietRegistry ==
  ASSUME RegistryInv, UNCHANGED <<registry, nominator>>
  PROVE  RegistryInv' /\ SameCreators
BY DEF RegistryInv, IsRegistered, AdminOf, SameCreators

\* A step of the registry leaves the locks, the balances and the fees.
LEMMA RegistryActions ==
  ASSUME RightsInv, NEW t \in Tokens, NEW by \in Users,
         \/ AcceptAdmin(t, by) \/ CancelNomination(t, by)
         \/ \E to \in Users : SetCreatorRecipient(t, by, to) \/ NominateAdmin(t, by, to)
  PROVE  RightsInv'
<1>1. UNCHANGED <<clock, unlockOf, promised, lock, balanceOf, holder, fees, earning, toTreasury>>
  BY DEF AcceptAdmin, CancelNomination, SetCreatorRecipient, NominateAdmin, tables, history
<1>2. RegistryInv' /\ SameCreators
  BY AcceptStep, CancelStep, RecipientStep, NominateStep DEF RightsInv
<1>3. BagsInv'
  BY <1>1, <1>2, QuietBags DEF RightsInv, BagsInv
<1>4. FeesInv'
  BY <1>1, QuietFees DEF RightsInv
<1> QED
  BY <1>2, <1>3, <1>4 DEF RightsInv

\* A step of the fees leaves the registry, the locks and the balances.
LEMMA FeeActions ==
  ASSUME RightsInv, NEW t \in Tokens,
         \/ \E by \in Users : Claim(t, by)
         \/ DisableCreatorFee(t)
         \/ \E amount \in Amounts : NotifyFee(t, amount)
  PROVE  RightsInv'
<1>1. UNCHANGED <<clock, registry, unlockOf, promised, lock, balanceOf, holder, nominator>>
  BY DEF Claim, DisableCreatorFee, NotifyFee, history
<1>2. RegistryInv' /\ SameCreators
  BY <1>1, QuietRegistry DEF RightsInv
<1>3. BagsInv'
  BY <1>1, <1>2, QuietBags DEF RightsInv, BagsInv
<1>4. FeesInv'
  <2>1. CASE \E by \in Users : Claim(t, by)
    BY <2>1, ClaimStep DEF RightsInv
  <2>2. CASE DisableCreatorFee(t)
    BY <2>2, DisableStep DEF RightsInv
  <2>3. CASE \E amount \in Amounts : NotifyFee(t, amount)
    BY <2>3, NotifyStep, RightsConstants DEF RightsInv
  <2> QED
    BY <2>1, <2>2, <2>3
<1> QED
  BY <1>2, <1>3, <1>4 DEF RightsInv

\* A step of the locks and balances leaves the registry and the fees.
LEMMA BagActions ==
  ASSUME RightsInv, NEW t \in Tokens, NEW by \in Users,
         \/ \E until \in 1..(MaxTime + 1) : Commit(t, by, until)
         \/ \E to \in Users, amount \in Amounts : Transfer(t, by, to, amount)
  PROVE  RightsInv'
<1>1. UNCHANGED <<registry, nominator, fees, earning, toTreasury>>
  BY DEF Commit, Transfer, history
<1>2. RegistryInv' /\ FeesInv'
  BY <1>1, QuietRegistry, QuietFees DEF RightsInv
<1>3. BagsInv'
  <2>1. CASE \E until \in 1..(MaxTime + 1) : Commit(t, by, until)
    <3>1. PICK until \in 1..(MaxTime + 1) : Commit(t, by, until)
      BY <2>1
    <3>2. until \in Nat
      BY RightsConstants
    <3> QED
      BY <3>1, <3>2, CommitStep DEF RightsInv
  <2>2. CASE \E to \in Users, amount \in Amounts : Transfer(t, by, to, amount)
    BY <2>2, TransferStep, RightsConstants DEF RightsInv
  <2> QED
    BY <2>1, <2>2
<1> QED
  BY <1>2, <1>3 DEF RightsInv

LEMMA NextRights ==
  ASSUME RightsInv, [Next]_vars
  PROVE  RightsInv'
<1>1. ASSUME NEW t \in Tokens, NEW by \in Users, Launch(t, by) PROVE RightsInv'
  <2>1. RegistryInv' /\ BagsInv'
    BY <1>1, LaunchRegisters, LaunchBags DEF RightsInv
  <2>2. FeesInv'
    BY <1>1, QuietFees DEF RightsInv, Launch, history
  <2> QED
    BY <2>1, <2>2 DEF RightsInv
<1>2. ASSUME Wait PROVE RightsInv'
  <2>1. /\ UNCHANGED <<registry, nominator, fees, earning, toTreasury>>
        /\ UNCHANGED <<unlockOf, promised, lock, balanceOf, holder>> /\ clock' = clock + 1
    BY <1>2 DEF Wait, tables, history
  <2>2. clock' \in Nat
    BY <2>1 DEF RightsInv, BagsInv
  <2> QED
    BY <2>1, <2>2, QuietRegistry, QuietBags, QuietFees DEF RightsInv
<1>3. ASSUME UNCHANGED vars PROVE RightsInv'
  <2>1. /\ UNCHANGED <<registry, nominator, fees, earning, toTreasury>>
        /\ UNCHANGED <<unlockOf, promised, lock, balanceOf, holder>> /\ clock' = clock
    BY <1>3 DEF vars, tables, history
  <2>2. clock' \in Nat
    BY <2>1 DEF RightsInv, BagsInv
  <2> QED
    BY <2>1, <2>2, QuietRegistry, QuietBags, QuietFees DEF RightsInv
<1> QED
  BY <1>1, <1>2, <1>3, RegistryActions, FeeActions, BagActions DEF Next

\* What the three properties below rest on, whatever registry, distributor, locks,
\* transfers and handlers do.
THEOREM RightsInvariant == Spec => []RightsInv
<1>1. Init => RightsInv
  BY InitRights
<1>2. RightsInv /\ [Next]_vars => RightsInv'
  BY NextRights
<1> QED
  BY <1>1, <1>2, PTL DEF Spec

\* The pending nomination of a token was made by whoever is its admin now, through
\* nominateAdmin, acceptAdmin and cancelNomination in any order.
THEOREM NominationsBindTheAdmin == Spec => []NominationsAreTheAdmins
<1>1. RightsInv => NominationsAreTheAdmins
  BY DEF RightsInv, RegistryInv, NominationsAreTheAdmins
<1> QED
  BY <1>1, RightsInvariant, PTL

\* The one row of a locked token is its creator's.
LEMMA LockRow ==
  ASSUME RightsInv, NEW t \in Tokens, IsRegistered(t)
  PROVE  BagLock(t) = [isLocked |-> IsLocked(registry[t].creatorOf, t),
                       creator |-> registry[t].creatorOf]
<1> DEFINE c == registry[t].creatorOf
<1>1. c \in Users /\ <<c, t>> \in Bags /\ clock \in Nat
  BY RightsConstants DEF RightsInv, RegistryInv, BagsInv, Registration, IsRegistered, Bags
<1>2. \A w \in Users : lock[<<w, t>>] # NoLock => w = c
  BY DEF RightsInv, BagsInv, Bags
<1>3. lock[<<c, t>>].unlockTimestamp = unlockOf[<<c, t>>]
  BY <1>1 DEF RightsInv, BagsInv
<1>4. CASE BagLocksForTokens(t) = {}
  <2>1. lock[<<c, t>>] = NoLock
    BY <1>1, <1>4 DEF BagLocksForTokens
  <2>2. unlockOf[<<c, t>>] = 0
    BY <1>3, <2>1 DEF NoLock
  <2>3. IsLocked(c, t) = FALSE
    BY <1>1, <2>2 DEF IsLocked
  <2> QED
    BY <1>4, <2>3 DEF BagLock
<1>5. CASE BagLocksForTokens(t) # {}
  <2>1. (CHOOSE w \in BagLocksForTokens(t) : TRUE) = c
    BY <1>2, <1>5 DEF BagLocksForTokens
  <2>2. BagLock(t) = [isLocked |-> lock[<<c, t>>].unlockTimestamp > clock, creator |-> c]
    BY <1>5, <2>1 DEF BagLock
  <2>3. (lock[<<c, t>>].unlockTimestamp > clock) = IsLocked(c, t)
    BY <1>1, <1>3 DEF IsLocked, RightsInv, BagsInv
  <2> QED
    BY <2>2, <2>3
<1> QED
  BY <1>4, <1>5

\* What the indexer's rows say of fees, locks and balances, and what the API makes of
\* them for /creator-earnings and the bagLock of /tokens, is what the contracts hold.
THEOREM RowsAreTheContracts == Spec => []RowsMatchContracts
<1>1. ASSUME RightsInv PROVE RowsMatchContracts
  <2>1. \A t \in Tokens : RowIs(earning[t], fees.info[t], toTreasury[t])
    BY <1>1 DEF RightsInv, FeesInv
  <2>2. \A b \in Bags : lock[b].unlockTimestamp = unlockOf[b] /\ holder[b] = balanceOf[b]
    BY <1>1 DEF RightsInv, BagsInv
  <2>3. \A t \in Tokens : CreatorEarnings(t).claimable = Pending(fees, t)
    BY <2>1 DEF CreatorEarnings, Pending, RowIs
  <2>4. \A t \in Tokens :
           LET e == earning[t]
           IN  /\ e.lifetimeAccrued = fees.info[t].accrued /\ e.claimed = fees.info[t].claimed
               /\ e.disabled = fees.info[t].disabled /\ e.redirectedToTreasury = toTreasury[t]
    BY <2>1 DEF RowIs
  <2> QED
    BY <1>1, <2>2, <2>3, <2>4, LockRow DEF RowsMatchContracts
<1> QED
  BY <1>1, RightsInvariant, PTL

\* Only a transfer by an unlocked sender takes from a wallet.
LEMMA OnlyTheUnlockedPay ==
  ASSUME RightsInv, [Next]_vars, NEW b \in Bags, balanceOf'[b] < balanceOf[b]
  PROVE  clock >= promised[b]
<1>1. /\ balanceOf \in [Bags -> Nat] /\ promised = unlockOf /\ unlockOf[b] \in Nat
      /\ clock \in Nat
  BY DEF RightsInv, BagsInv
<1>2. balanceOf' # balanceOf
  BY <1>1
<1>3. ASSUME NEW t \in Tokens, NEW creator \in Users, Launch(t, creator) PROVE FALSE
  <2>1. ~IsRegistered(t) /\ balanceOf' = [balanceOf EXCEPT ![<<Pool, t>>] = Supply]
    BY <1>3 DEF Launch
  <2>2. balanceOf[<<Pool, t>>] = 0 /\ Supply \in Nat
    BY <2>1, RightsConstants DEF RightsInv, BagsInv
  <2> QED
    BY <1>1, <2>1, <2>2
<1>4. PICK t \in Tokens, from \in Users, to \in Users, amount \in Amounts :
         Transfer(t, from, to, amount)
  BY <1>2, <1>3 DEF Next, vars, Wait, AcceptAdmin, CancelNomination, Claim, Commit,
                    DisableCreatorFee, NotifyFee, SetCreatorRecipient, NominateAdmin
<1>5. /\ ~IsLocked(from, t) /\ amount <= balanceOf[<<from, t>>] /\ amount \in Nat
      /\ balanceOf' = Moved(balanceOf, t, from, to, amount)
  BY <1>4, TransferIsMoved, RightsConstants DEF RightsInv
<1>6. b = <<from, t>>
  BY <1>1, <1>5, MovedBalances
<1> QED
  BY <1>1, <1>5, <1>6 DEF IsLocked

\* Nothing leaves a wallet before the end of every lock it committed to the token,
\* however locks, admins and transfers follow one another (CreatorCommitments.sol).
THEOREM CommittedBagsStay == Spec => BagsStayLocked
<1>1. RightsInv /\ [Next]_vars =>
         [\A b \in Bags : balanceOf'[b] < balanceOf[b] => clock >= promised[b]]_vars
  BY OnlyTheUnlockedPay
<1> QED
  BY <1>1, RightsInvariant, PTL DEF Spec, BagsStayLocked

==============================================================================

----------------------------- MODULE UserProfiles -----------------------------
(***************************************************************************)
(* POST /profile/:address/username of the indexer: the token bucket that   *)
(* admits a request (ratelimit.ts), setUsernameHandler with the rules of   *)
(* username.ts, and the tables it reads and writes (userProfileStore.ts).  *)
(*                                                                         *)
(* The handler awaits every query, so that requests interleave between any *)
(* two of them, with operators editing the blocklist and time passing. A   *)
(* query is one atomic statement. The request's format and signature are   *)
(* checked before the first one, at once, and are good; all requests       *)
(* come from one IP address.                                               *)
(***************************************************************************)
EXTENDS Naturals, Sequences

CONSTANTS
    Addresses, Names,     \* wallets and canonical handles
    Casings,              \* ways to write a handle
    Reserved,             \* RESERVED_USERNAMES
    Requests,             \* requests, each sent at most once
    Cooldown,             \* USERNAME_COOLDOWN_MS
    Burst, Rate, Token,   \* a token is worth Token; Rate is refilled per unit of time
    PruneIdle,            \* PRUNE_IDLE_MS
    MaxTime               \* bound: how far the clock goes forward in all

ASSUME ProfileConstants ==
    /\ Reserved \subseteq Names /\ "null" \notin Names
    /\ {Cooldown, Burst, Token} \subseteq Nat \ {0}
    /\ {Rate, PruneIdle, MaxTime} \subseteq Nat
    \* "Strictly larger than the burst-refill window" (middleware.ts).
    /\ PruneIdle * Rate >= Burst * Token

VARIABLES
    clock,        \* Date.now()
    elapsed,      \* history: how far the clock has gone forward in all
    profile,      \* user_profile: the row of each address, or NoRow
    blocklist,    \* username_operator_blocklist
    bucket,       \* the IP address's bucket, or NoBucket
    request,      \* what each request is waiting for, and what it has read
    changes,      \* history: how often each address's handle was set
    admitted      \* history: elapsed when each request was admitted

profileVars == <<clock, elapsed, profile, blocklist, bucket, request, changes, admitted>>

NoRow == [username |-> "null"]
NoBucket == [tokens |-> 0]

Displays == Names \X Casings
Row == [username: Names, display: Displays, changedAt: 0..MaxTime]
Bucket == [tokens: 0..(Burst * Token), refilledAt: 0..MaxTime]
Idle == [at |-> "unsent"]
Answered ==
    [at: {"answered"}, answer: {"200", "taken", "blocklisted", "cooldown-active", "429"}]
\* A request that waits for the answer to a query.
Waiting ==
    [at: {"row", "blocklist", "case", "taken", "upsert", "reason"}, address: Addresses,
     display: Displays, commitNow: 0..MaxTime, existing: Row \cup {NoRow}, blocked: BOOLEAN]

Smaller(m, n) == IF m < n THEN m ELSE n

ProfileInit ==
    /\ clock = 0 /\ elapsed = 0
    /\ profile = [a \in Addresses |-> NoRow]
    /\ blocklist = {} /\ bucket = NoBucket
    /\ request = [r \in Requests |-> Idle]
    /\ changes = [a \in Addresses |-> 0]
    /\ admitted = <<>>

(***************************************************************************)
(* The token bucket                                                        *)
(***************************************************************************)

\* Slip: the refill is computed from when the bucket was made.
RefilledFromStart(b) ==
    [tokens |-> Smaller(Burst * Token, b.tokens + clock * Rate), refilledAt |-> clock]

\* Math.max(0, ...): the clock may have been set back behind the stamp.
Since(b) == IF clock > b.refilledAt THEN clock - b.refilledAt ELSE 0

\* consumeBucket up to the comparison with one token; a new bucket is full, and the
\* stamp goes back with the clock.
Refilled(b) ==
    [tokens |-> IF b = NoBucket THEN Burst * Token
                ELSE Smaller(Burst * Token, b.tokens + Since(b) * Rate),
     refilledAt |-> clock]

\* pruneBuckets, from a timer of its own.
PruneBuckets ==
    /\ bucket # NoBucket /\ clock > bucket.refilledAt + PruneIdle
    /\ bucket' = NoBucket
    /\ UNCHANGED <<clock, elapsed, profile, blocklist, request, changes, admitted>>

(***************************************************************************)
(* The handler                                                             *)
(***************************************************************************)

Answer(r, answer) == request' = [request EXCEPT ![r] = [at |-> "answered", answer |-> answer]]

\* The request waits for its next query, with what it has read.
Awaits(r, query, read) == request' = [request EXCEPT ![r] = [read EXCEPT !.at = query]]

\* The request arrives, is admitted and pins commitNow.
Post(r, a, display) ==
    LET b == Refilled(bucket)
    IN  /\ request[r].at = "unsent"
        /\ IF b.tokens >= Token
           THEN /\ bucket' = [b EXCEPT !.tokens = @ - Token]
                /\ admitted' = Append(admitted, elapsed)
                /\ request' = [request EXCEPT ![r] =
                        [at |-> "row", address |-> a, display |-> display, commitNow |-> clock,
                         existing |-> NoRow, blocked |-> FALSE]]
           ELSE /\ bucket' = b /\ Answer(r, "429") /\ UNCHANGED admitted
        /\ UNCHANGED <<clock, elapsed, profile, blocklist, changes>>

\* getByAddress.
ReadRow(r) ==
    /\ request[r].at = "row"
    /\ Awaits(r, "blocklist", [request[r] EXCEPT !.existing = profile[request[r].address]])
    /\ UNCHANGED <<clock, elapsed, profile, blocklist, bucket, changes, admitted>>

\* The wallet's row already has the canonical handle.
OwnsHandle(q) == q.existing.username = q.display[1]

\* isOperatorBlocked, and the idempotent re-set of a handle the wallet has.
ReadBlocklist(r) ==
    LET q == request[r]
        blocked == q.display[1] \in blocklist
    IN  /\ q.at = "blocklist"
        /\ IF OwnsHandle(q) /\ ~blocked
           THEN IF q.existing.display = q.display THEN Answer(r, "200")
                ELSE Awaits(r, "case", [q EXCEPT !.existing = NoRow])
           ELSE Awaits(r, "taken", [q EXCEPT !.blocked = blocked])
        /\ UNCHANGED <<clock, elapsed, profile, blocklist, bucket, changes, admitted>>

\* updateDisplayCase finds its row by the address alone.
CaseUpdated(row, q) == [row EXCEPT !.display = q.display]

UpdateDisplayCase(r) ==
    LET q == request[r]
    IN  /\ q.at = "case"
        /\ profile' = [profile EXCEPT ![q.address] = CaseUpdated(@, q)]
        /\ Answer(r, "200")
        /\ UNCHANGED <<clock, elapsed, blocklist, bucket, changes, admitted>>

TakenByOther(name, a) == \E other \in Addresses \ {a} : profile[other].username = name

\* isWithinCooldown.
WithinCooldown(row, now) == row # NoRow /\ now < row.changedAt + Cooldown

\* isUsernameTakenByOther, then evaluateSetUsername on all that was read.
Evaluate(r) ==
    LET q == request[r]
        name == q.display[1]
    IN  /\ q.at = "taken"
        /\ IF name \in Reserved \/ q.blocked THEN Answer(r, "blocklisted")
           ELSE IF TakenByOther(name, q.address) THEN Answer(r, "taken")
           ELSE IF WithinCooldown(q.existing, q.commitNow) THEN Answer(r, "cooldown-active")
           ELSE Awaits(r, "upsert", [q EXCEPT !.existing = NoRow])
        /\ UNCHANGED <<clock, elapsed, profile, blocklist, bucket, changes, admitted>>

\* Slip: the statement relies on the cooldown checked before.
UpsertAppliesAsChecked(q) == q.display[1] \notin blocklist

\* Slip: the statement relies on the blocklist checked before.
UpsertAppliesOverBlock(q) == ~WithinCooldown(profile[q.address], q.commitNow)

\* The WHERE clauses of upsertUsername's statement.
UpsertApplies(q) ==
    q.display[1] \notin blocklist /\ ~WithinCooldown(profile[q.address], q.commitNow)

\* Slip: the partial index covers the display, casing and all.
IndexRefusesDisplay(q) ==
    \E other \in Addresses \ {q.address} :
        profile[other] # NoRow /\ profile[other].display = q.display

\* The unique index on lower(username).
IndexRefuses(q) == TakenByOther(q.display[1], q.address)

\* A statement that applies to no row is followed by a query for the reason.
UpsertUsername(r) ==
    LET q == request[r]
    IN  /\ q.at = "upsert"
        /\ IF ~UpsertApplies(q)
           THEN Awaits(r, "reason", q) /\ UNCHANGED <<profile, changes>>
           ELSE IF IndexRefuses(q)
           THEN Answer(r, "taken") /\ UNCHANGED <<profile, changes>>
           ELSE /\ profile' = [profile EXCEPT ![q.address] =
                        [username |-> q.display[1], display |-> q.display,
                         changedAt |-> q.commitNow]]
                /\ changes' = [changes EXCEPT ![q.address] = @ + 1]
                /\ Answer(r, "200")
        /\ UNCHANGED <<clock, elapsed, blocklist, bucket, admitted>>

ReadReason(r) ==
    /\ request[r].at = "reason"
    /\ Answer(r, IF request[r].display[1] \in blocklist THEN "blocklisted" ELSE "cooldown-active")
    /\ UNCHANGED <<clock, elapsed, profile, blocklist, bucket, changes, admitted>>

(***************************************************************************)
(* The environment                                                         *)
(***************************************************************************)

\* An operator edits the blocklist with SQL of his own.
EditBlocklist(name) ==
    /\ blocklist' = IF name \in blocklist THEN blocklist \ {name} ELSE blocklist \cup {name}
    /\ UNCHANGED <<clock, elapsed, profile, bucket, request, changes, admitted>>

Wait ==
    /\ elapsed < MaxTime
    /\ clock' = clock + 1 /\ elapsed' = elapsed + 1
    /\ UNCHANGED <<profile, blocklist, bucket, request, changes, admitted>>

\* The host's clock is corrected.
SetBack(now) ==
    /\ clock' = now
    /\ UNCHANGED <<elapsed, profile, blocklist, bucket, request, changes, admitted>>

ProfileNext ==
    \/ \E r \in Requests, a \in Addresses, d \in Displays : Post(r, a, d)
    \/ \E r \in Requests :
          \/ ReadRow(r) \/ ReadBlocklist(r) \/ UpdateDisplayCase(r)
          \/ Evaluate(r) \/ UpsertUsername(r) \/ ReadReason(r)
    \/ \E name \in Names : EditBlocklist(name)
    \/ PruneBuckets \/ Wait
    \/ \E now \in 0..MaxTime : now < clock /\ SetBack(now)

ProfileSpec == ProfileInit /\ [][ProfileNext]_profileVars

(***************************************************************************)
(* Properties                                                              *)
(***************************************************************************)

\* Every table and every request has its type.
ProfileTypeOK ==
    /\ elapsed \in 0..MaxTime /\ clock \in 0..elapsed
    /\ profile \in [Addresses -> Row \cup {NoRow}]
    /\ blocklist \subseteq Names
    /\ bucket \in Bucket \cup {NoBucket}
    /\ request \in [Requests -> {Idle} \cup Answered \cup Waiting]
    /\ changes \in [Addresses -> Nat]
    /\ admitted \in Seq(0..MaxTime)

\* Two wallets never hold the same handle in any casing, however their reads of
\* a free handle interleave with the writes (the index on lower(username)).
UsernamesAreUnique ==
    \A a, b \in Addresses :
        a # b /\ profile[a] # NoRow => profile[a].username # profile[b].username

\* A wallet cannot get round the cooldown by racing itself, nor by a clock that is set
\* back between its requests: it has set its handle at most once for every cooldown that
\* the clock has gone forward, and once more (setUsernameHandler, upsertUsername).
HandlesCostTime ==
    \A a \in Addresses :
        profile[a] # NoRow => (changes[a] - 1) * Cooldown <= profile[a].changedAt
                              /\ profile[a].changedAt <= elapsed

\* Nobody comes to hold a handle while it is on the operator's blocklist, even
\* if it was added after the request read the list (upsertUsername).
BlocklistBinds ==
    [][\A a \in Addresses :
          profile'[a].username # profile[a].username =>
              profile'[a].username \notin blocklist \cup Reserved]_profileVars

\* Through refills, refusals, pruning and a clock that is set back between requests, an
\* IP address gets no more requests in any stretch than the burst and what is refilled
\* for the time the clock goes forward in it (consumeBucket, pruneBuckets).
AdmissionsAreBounded ==
    \A i, j \in 1..Len(admitted) :
        i <= j => (j - i + 1) * Token <= Burst * Token + (admitted[j] - admitted[i]) * Rate
=============================================================================

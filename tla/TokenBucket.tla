---------------------------- MODULE TokenBucket ----------------------------
(***************************************************************************)
(* The token bucket of one connection (apps/messaging/buckets.py): a row    *)
(* that is locked, refilled by the elapsed time and debited, and created    *)
(* full by whoever sends first.                                             *)
(*                                                                         *)
(* A sender is a worker's transaction: the row it debited stays locked      *)
(* until the transaction ends, and a rollback gives its tokens back.  A web *)
(* request is a sender that commits after every pass.  Tokens are counted   *)
(* in what one moment refills, Price of them to a message.  The rate does   *)
(* not change.                                                              *)
(***************************************************************************)
EXTENDS Naturals

CONSTANTS
    Sender,      \* transactions sending at once
    Price,       \* one message: cost / rate
    Burst,       \* capacity / rate
    MaxWait,     \* acquire's budget
    Horizon      \* bound: the last moment

ASSUME BucketAssumption ==
    /\ {Price, Burst, MaxWait, Horizon} \subseteq Nat
    /\ Burst >= Price     \* capacity_for: room for one message at least

VARIABLES
    moment,      \* clock_timestamp()
    bucket,      \* the committed row
    grants,      \* [Instant -> Nat], grants that were committed (history)
    locker,      \* SUBSET Sender: who holds the row, one at most
    draft,       \* what its transaction has written: the row and its grants
    stage,       \* [Sender -> how far try_acquire has got]
    since,       \* [Sender -> Instant], start of its transaction
    until        \* [Sender -> Nat], the deadline of acquire

senderVars == <<stage, since, until>>
bucketVars == <<moment, bucket, grants, locker, draft, senderVars>>

Instant == 0..Horizon
BucketRow == [made : BOOLEAN, tokens : 0..Burst, refilled : Instant]
NoBucket == [made |-> FALSE, tokens |-> 0, refilled |-> 0]

BucketInit ==
    /\ moment = 0
    /\ bucket = NoBucket
    /\ grants = [t \in Instant |-> 0]
    /\ locker = {}
    /\ draft = [row |-> NoBucket, grants |-> grants]
    /\ stage = [s \in Sender |-> "idle"]
    /\ since = [s \in Sender |-> 0]
    /\ until = [s \in Sender |-> 0]

-----------------------------------------------------------------------------
Stands(s, at) == stage' = [stage EXCEPT ![s] = at]

OneGrant(given) == [given EXCEPT ![moment] = @ + 1]

\* A transaction begins and asks for a token.
Acquire(s) ==
    /\ stage[s] = "idle"
    /\ Stands(s, "trying")
    /\ since' = [since EXCEPT ![s] = moment]
    /\ until' = [until EXCEPT ![s] = moment + MaxWait]
    /\ UNCHANGED <<moment, bucket, grants, locker, draft>>

\* The same transaction sends another message.
AcquireMore(s) ==
    /\ stage[s] = "granted"
    /\ Stands(s, "trying")
    /\ until' = [until EXCEPT ![s] = moment + MaxWait]
    /\ UNCHANGED <<moment, bucket, grants, locker, draft, since>>

\* The locked read finds nothing: an insert that is not committed is not seen.
FindNoBucket(s) ==
    /\ stage[s] = "trying"
    /\ s \notin locker /\ ~bucket.made
    /\ Stands(s, "creating")
    /\ UNCHANGED <<moment, bucket, grants, locker, draft, since, until>>

\* get_or_create waits on the unique index for another's insert.  The loser of
\* the race goes back and debits the winner's row.  The row is stamped with the
\* start of the transaction, not with the moment of the grant.
CreateFull(s) ==
    /\ stage[s] = "creating"
    /\ locker = {}
    /\ IF bucket.made
       THEN Stands(s, "trying") /\ UNCHANGED <<locker, draft>>
       ELSE /\ Stands(s, "granted")
            /\ locker' = {s}
            /\ draft' = [row |-> [made |-> TRUE, tokens |-> Burst - Price,
                                  refilled |-> since[s]],
                         grants |-> OneGrant(grants)]
    /\ UNCHANGED <<moment, bucket, grants, since, until>>

Lower(a, b) == IF a <= b THEN a ELSE b

Available(row) == Lower(Burst, row.tokens + (moment - row.refilled))

\* Mutant: the elapsed time is not stamped when a token is taken.
DebitedUnstamped(row) == [row EXCEPT !.tokens = Available(row) - Price]

Debited(row) == [made |-> TRUE, tokens |-> Available(row) - Price, refilled |-> moment]

Topped(row) == [made |-> TRUE, tokens |-> Available(row), refilled |-> moment]

\* The row and grants as the sender's own transaction sees them.
Sees(s) == IF s \in locker THEN draft ELSE [row |-> bucket, grants |-> grants]

Spend(s) ==
    LET seen == Sees(s)
    IN  /\ stage[s] = "trying"
        /\ locker \subseteq {s}
        /\ seen.row.made
        /\ locker' = {s}
        /\ IF Available(seen.row) >= Price
           THEN /\ draft' = [row |-> Debited(seen.row), grants |-> OneGrant(seen.grants)]
                /\ Stands(s, "granted")
           ELSE /\ draft' = [row |-> Topped(seen.row), grants |-> seen.grants]
                /\ Stands(s, IF moment + Price > until[s] + Available(seen.row)
                             THEN "deferred" ELSE "trying")
        /\ UNCHANGED <<moment, bucket, grants, since, until>>

CommitSend(s) ==
    /\ stage[s] \in {"granted", "deferred"}
    /\ bucket' = draft.row
    /\ grants' = draft.grants
    /\ locker' = {}
    /\ Stands(s, "idle")
    /\ UNCHANGED <<moment, draft, since, until>>

\* The handler raises or its process dies.
RollBackSend(s) ==
    /\ stage[s] # "idle"
    /\ locker' = locker \ {s}
    /\ draft' = IF s \in locker THEN [row |-> bucket, grants |-> grants] ELSE draft
    /\ Stands(s, "idle")
    /\ UNCHANGED <<moment, bucket, grants, since, until>>

BucketTick ==
    /\ moment < Horizon
    /\ moment' = moment + 1
    /\ UNCHANGED <<bucket, grants, locker, draft, senderVars>>

BucketNext ==
    \/ \E s \in Sender : \/ Acquire(s) \/ AcquireMore(s) \/ FindNoBucket(s) \/ CreateFull(s)
                         \/ Spend(s) \/ CommitSend(s) \/ RollBackSend(s)
    \/ BucketTick

BucketSpec == BucketInit /\ [][BucketNext]_bucketVars

-----------------------------------------------------------------------------
(* Properties.                                                             *)

\* Types of all variables.
BucketTypeOK ==
    /\ moment \in Instant
    /\ bucket \in BucketRow
    /\ grants \in [Instant -> Nat]
    /\ locker \in SUBSET Sender
    /\ draft \in [row : BucketRow, grants : [Instant -> Nat]]
    /\ stage \in [Sender -> {"idle", "trying", "creating", "granted", "deferred"}]
    /\ since \in [Sender -> Instant]
    /\ until \in [Sender -> 0..(Horizon + MaxWait)]

\* How many are given before each moment, and before the one after the last.
GivenBefore(given) ==
    LET before[n \in 0..(Horizon + 1)] == IF n = 0 THEN 0 ELSE before[n - 1] + given[n - 1]
    IN  before

GrantsWithin(a, b) == GivenBefore(grants)[b + 1] - GivenBefore(grants)[a]

\* A window that holds the connection's first message: the bucket's clock began
\* with that transaction, so what refilled while it waited counts on top.
FirstEver(a) == \A t \in Instant : t < a => grants[t] = 0

(***************************************************************************)
(* SPEC 8's throttle, over committed sends: no window of time sees more     *)
(* than a burst and what refills meanwhile, whoever creates the bucket,     *)
(* waits, rolls back or takes several tokens; one more message at most in   *)
(* the connection's first window.                                           *)
(***************************************************************************)
ThrottleHolds ==
    \A a, b \in Instant : a <= b =>
        Price * GrantsWithin(a, b) <= Burst + (b - a) + (IF FirstEver(a) THEN Price ELSE 0)
=============================================================================

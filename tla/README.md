# A TLA+ model of brightbean-chat

brightbean-chat is a Django application for chat marketing: it receives
messages from messaging platforms, runs flows for contacts, sends broadcasts and
sequences, and lets people answer from an inbox.  Almost everything it does
later than "now" goes through one table, `queueing_scheduled_action`, drained by
any number of worker processes, cron ticks and HTTP ticks against one PostgreSQL
database at READ COMMITTED.  This directory models the parts of it whose
correctness depends on the order of events, checks them with TLC on small
instances, and proves the most important results with TLAPS for every instance.

## Contents

| module | what it is |
|---|---|
| `ActionLifecycle` | abstract specification of one queue row: the documented status moves, work committed at most once (with its proof) |
| `ActionQueue` | the work queue: claims, batches, stamps, contact locks, failures, releases, the zombie sweep, cancel, purge, admin retry, crashes, time |
| `HousekeepingChain` | the self-rescheduling hourly sweep and its bootstrap, on top of what the queue gives |
| `Broadcast` | one broadcast: fan-out in chunks, sends, cancel, settling, the reconciling sweep, as interleaved transactions |
| `SendPipeline` | one outbound message: claim, token, provider call, retries, give-up, withdrawal, deaths and rollbacks |
| `OneConversation` | abstract specification of what the flow engine promises a contact |
| `FlowEngine` | executions of flows for contacts, their waits and timers, the 30-day sweep, and the life of a flow that is published, switched off, archived and restored meanwhile |
| `DripSequence` | the people enrolled in one sequence, their step rows, the step handler, requests, edits and the repair sweep |
| `InboundEvents` | an event a platform delivers: log, persist, route in the request or on the worker, with repeats and deaths |
| `Cooldown` | the guard that lets a rule fire once per period, and the prune of its rows |
| `PlanGate` | the plan's limit on active automations |
| `StripeEvents` | Stripe's subscription events applied to an organization's billing row, and the reconcile job |
| `WebhookHealth` | the failure streak of an outbound webhook and its automatic switch-off |
| `DeferredReply` | a reply an agent schedules, edits and calls off, against its queue row |
| `Erasure` | erasing a contact: record, tombstone, teardown inline or queued, reclaiming a stuck record |
| `TokenBucket` | a connection's send rate: the locked row, first use, waiting and rollbacks |
| `ContactFilters`, `MCContactFilters` | the filter language in SQL's three-valued logic against its meaning in sets, with saved segments; a small workspace for it |
| `Consent` | one contact's consent and window under messages, STOP, START and captured addresses, and the gates of `can_send` |
| `ContactImport` | one CSV import: the wizard and the batches of the queue |
| `DeliveryLadder` | one message's receipts, redaction and open pixel against its sender's answer, and the node's counters |
| `ActionQueueProofs`, `HousekeepingChainProofs`, `BroadcastProofs`, `SendPipelineProofs`, `FlowEngineProofs`, `ServicesProofs`, `ContactProofs` | the theorems (`ServicesProofs`: `InboundEvents`, `PlanGate`, `WebhookHealth`, `Cooldown`, `DeliveryLadder`, `DeferredReply`, `StripeEvents`, `DripSequence`; `ContactProofs`: `Consent`, `ContactImport`, `TokenBucket`, `ContactFilters`) |
| `MCActionQueue`, `MCHousekeepingChain`, `MCBroadcast`, `MCSendPipeline`, `MCFlowEngine`, `MCServices` | small instances; `MCServices` holds thirteen, one to a behaviour |

`PROJECT.json` ties every definition to the lines of `src/` it models and lists
the runs, the mutants that show each property can fail, the hazards, the
findings and the theorems.

## The system: inventory

For each part: its state, its operations, what it touches, what is hard, and
what makes it correct.  The parts that are only adapters, pages or formatting
are in `PROJECT.json` with the reason they are left out.

**Work queue** (`apps/queueing`: `worker.py`, `registry.py`, `locks.py`).
State: rows with `status`, `attempts`, `run_at`, `updated_at`, an idempotency
key and possibly a contact; per-contact advisory locks; each worker's in-memory
copies of claimed rows.  Operations: schedule, claim a batch with SKIP LOCKED,
stamp a row alive, run a handler inside a transaction under the contact's lock
and mark the row done in it, record a failure in a second transaction, release
what is left of a batch, sweep rows not stamped for ten minutes, cancel, purge
for an erased contact, "retry now".  Hard: writes by primary key from a stale
copy, a sweep under a live worker, a crash anywhere.  Correct when: one live
worker owns a row, a row's work commits once, the budget is neither exceeded nor
cut short, no row is lost, and one handler runs per contact.

**Housekeeping chain** (`queueing/housekeeping.py`, `management/commands`).
State: the chain's rows, the hour key.  Operations: bootstrap under an advisory
lock, schedule the successor first, run the jobs, retry.  Correct when: sweeps
go on for ever, and two chains merge.

**Broadcasts** (`apps/broadcasts`).  State: the broadcast's status and stats,
one recipient row per contact, its fan-out and send rows in the queue, the
retries of deferred messages.  Operations: schedule, expand a chunk, send,
cancel, settle, reconcile.  Hard: every handler is a transaction of several
statements, and four parties may try to finish the broadcast at once.  Correct
when: nobody is sent twice or forgotten, the end is announced once, what was
sent stays recorded, cancel stops it, and it comes to rest.

**Messaging send pipeline** (`messaging/services.py`, `handlers.py`,
`buckets.py`).  State: a message row that owns an idempotency key, its claim
(`dispatched_at`), `send_attempts`, its `send_retry` rows, the connection's token
bucket.  Operations: send, claim, release, finalize, defer, retry, give up,
withdraw; take or wait for a token.  Hard: a crash after the provider accepted, a
retry that re-opens a claim in flight, a withdrawal that races a deferral, a
bucket two senders create at once.  Correct when: a claim owns at most one call,
the budget counts calls, what is settled is never queued again, what is queued
has somebody to move it, and no window sees more than a burst and its refill.

**Flow engine and flow lifecycle** (`flows/engine`, `flows/handlers.py`,
`flows/housekeeping.py`, `flows/services.py`).  State: executions with a position
and a wait token, their timers in the queue, versions and status of flows.
Operations: start, supersede, answer, re-ask, fire a timer, hand off, stop,
expire; publish, take offline, archive, restore.  Hard: timers against replies,
two writers that take no contact lock, a start that has resolved its version
while the flow is switched off.  Correct when: one execution is live per contact,
a wait is left once, keeps its timer and does not last for ever, and an offline
flow is quiet.

**Inbound ingest, triggers and routing** (`messaging/ingest.py`, `channels`
webhook views, `flows/triggers`).  State: the event log, messages, `route_event`
rows and `RoutedEvent` claims, cooldown rows.  Operations: log, persist, walk the
stages under a try-lock or hand them off; claim and prune a cooldown.  Hard:
repeated and concurrent deliveries, deaths, a job handled twice.  Correct when: an
event acts once and a rule fires once per period.

**Compliance and consent** (`messaging/compliance.py`, `services.py`,
`ingest.py`).  State: an identity's opt-in, opt-out and window.  Operations:
claim a message's activity, STOP, START, capture an address, decide a send.
Hard: writers that save an older copy of the row.  Correct when: nobody is
written to who has not agreed or has said STOP.

**Delivery states and counters** (`messaging/ingest.py`, `analytics/counters.py`).
State: a message's status, its node's counters.  Operations: the sender's answer,
receipts, redaction, the open pixel.  Hard: receipts that are late, repeated,
concurrent or of a message whose sender has not answered.  Correct when: a status
never goes back and each rung is counted once.

**Campaigns** (`apps/campaigns`).  State: enrollments with a position, step rows
named by enrollment and position.  Operations: subscribe, unsubscribe, run a
step, edit, delete, repair.  Hard: a handler that writes back an older copy, keys
that renumbering reuses.  Correct when: a step runs once, an unsubscribe sticks
and a walk ends.

**Contacts** (`contacts/erasure.py`, `imports.py`, `conditions.py`).  Erasures
that may stop half-way and must stay possible; imports in batches whose rows must
be applied once; filters that must mean the same in SQL as to their author, with
segments that change between validation and use.

**Billing** (`billing/events.py`, `entitlements.py`, `housekeeping.py`): events in
any order read, compared and saved whole; limits checked before a write.
**Webhook delivery** (`api/delivery.py`): a streak several workers count.
**Inbox** (`inbox/services.py`, `handlers.py`): scheduled replies re-armed while
their row runs.

**Not modelled**: channel adapters, public API, members and organizations,
notifications, media, credentials, front end, deployment (see the last section).

How they interact: every part schedules rows (`registry.schedule`), the worker
calls the part's handler with the row, and handlers for a contact exclude one
another through the contact lock; housekeeping calls one job of each part in its
own transaction; broadcasts, sequences and the flow engine send through the
messaging facade, which schedules its own retries and asks `can_send`, whose
answer depends on what ingest writes.  Each model takes from the queue exactly
what `ActionQueue` shows: a row is handled by one worker at a time, once and
possibly once more, until it is done or out of attempts, and `ContactExclusive`.

## Plan

Done, in this order: the queue with its abstract specification; the chain; the
broadcast; the send pipeline; the flow engine with its abstract specification; the
services around them (sequences, inbound events, cooldown, plan, billing, webhook
health, scheduled replies, erasure, bucket); contact filters, consent and imports;
the delivery ladder; the proofs named below.

Left, in this order:

1. Seats and roles (`members/services.py`): invitations counted as seats while
   they are accepted, revoked and sent again; the last admin of a workspace.
2. Contact resolution and merge (`contacts/services.py`), with the queue rows of the
   merged contact.
3. The nodes of a flow as a composition of `FlowEngine` with `SendPipeline`.
4. Notifications: the re-mail after a crash between mail and commit.

## ActionQueue

A row is named by its idempotency key.  `held[w][a]` is the attempts count in
worker `w`'s copy of row `a`, taken at the claim: `_mark_done` and
`_record_failure` write from that copy by primary key, so `Finish` and
`WriteFailure` do the same and overwrite whatever the row has become.  `phase`
follows `run_batch`: claimed, between rows, waiting for the contact lock, in the
handler's transaction, failing.  `StartAction` is `_mark_alive` (its own
commit), `Finish` is the handler's commit with the row's `done`, `Raise` its
rollback, `RecordFailure` the second transaction, `Strand` that transaction's own
failure, `ReleaseRest` the hand-back of unstarted rows, and `Crash` a worker dying
in any phase.  `ResetZombieActions` is the two UPDATEs of the sweep.
`PurgeForContact` is erasure from a request, `Erased` the same from within a
`contact_erasure` handler.

Time is in ticks.  `age` is the time since `updated_at`, `delay` the time to
`run_at`.  `Tick` does not pass while a live worker is about to exceed its
bounds: `HandlerLimit` for one handler and `HoldLimit` for a claimed row that is
not stamped again.  With `Punctual`, nothing but handlers and waiting for a
taken lock takes time.  The code enforces none of these; the results say which
of them they need.

*Runs.*  `queue` takes `HoldLimit <= ZombieAfter`, the assumption the code's
comments rest on (two workers, three rows, two of them for one contact, one an
erasure, one without handler, batches of two, two attempts, one operator retry):
exclusive claims, one handler per contact, the budget (which no refund takes below
what was charged), at most one committed run through the refinement of
`ActionLifecycle`, and that every row settles.  What remains without the
assumption is proved: `ContactsAreExclusive` and `RefundsAreCovered` take none.
`queue_twice` is a disagreement: with every handler
within `ZOMBIE_AFTER`, a row that waits in a batch of three is swept and run
twice, since it is stamped only when its turn comes.

*Bounds.*  Two workers are enough for every overwrite the code can do (one stale
copy, one current owner); three rows are the smallest batch in which a row waits
behind another while a third is claimed elsewhere.

*Fairness.*  Weak, for each worker's polling and work, for time and for the
sweep: the workers loop for ever, handlers return or die, and housekeeping runs
hourly (`HousekeepingChain` is about that last assumption).  No owner is obliged
to act and no crash to happen.

*Proofs* (`ActionQueueProofs`), for any number of workers, rows, contacts and
attempts:

- `TypeCorrect` and `RefundsAreCovered`: the types together with
  `RefundsStayCovered`, inductive with one addition (`HasCurrent`: a worker that
  processes has a row).
- `ContactsAreExclusive`: needs `LockHeld`, that a worker in a handler's
  transaction is the lock's recorded owner; no assumption on speed.
- `ClaimsAreExclusive`, assuming `HoldLimit <= ZombieAfter`: strengthened by
  `ProcessingHolds` (the row being processed is one the worker has a copy of) and
  the ages that `Tick` allows; the sweep then never reaches a held row.
- `BudgetIsRespected`: the same, with "an unscheduled row has no attempts".
- `QueueImplementsLifecycle`: every step maps to a step of `ActionLifecycle` or a
  stutter; the claim invariant is what makes the overwrites by primary key legal
  moves.  `WorkRunsAtMostOnce` follows from it and from the abstract theorem
  `LifecycleCommitsOnce`.

The assumption `HoldLimit <= ZombieAfter` is a hypothesis of those theorems, and
the run `queue_twice` shows that they fail without it.  `EventuallySettled` is
model-checked only: liveness is out of the prover's reach.

## HousekeepingChain

The queue's other work is left out.  A chain row's handler inserts the successor
(`ScheduleSuccessor`, uncommitted), sweeps zombies, runs the jobs and commits
(`Commit`); a job may raise (caught), or break the transaction (`Break`), whose
rollback takes the successor with it; the row is then retried until its budget is
spent.  `Start` and `Create` are the bootstrap that every worker and tick runs
once, under its advisory lock.  The successor's key is next hour's, so only one
key is ever looked up; `KeysLapse` is the hour turning.  Rows are recycled once
settled.

*Runs.*  `chain` (a worker process and a cron tick; one crash, one broken
transaction, one operator retry; three ticks to the hour): a completed sweep leaves another row alive, sweeps go on being
completed, and two chains merge once the deployment keeps up.  Sweeps continue
*because* ticks bootstrap again: `chain_restart` has one worker process and no
tick, and there a crash in the sweep followed by a restart within `ZOMBIE_AFTER`
ends housekeeping, since the restart finds the dead row fresh and nothing asks
again.  `chain_broken_job` shows that a database error inside one job takes the
successor with it, which the code says cannot happen.  `SweepLeavesNext` is stated
for runs in which no operator pulls a sweep into an earlier hour.

*Fairness.*  Weak for time and for each process's loop: a process that is down is
started again, and a tick ends so that cron can start the next one.  A live worker
process is never obliged to stop, so it need not bootstrap a second time.  Mishaps are finite (`MaxCrashes`,
`MaxBreaks`, `MaxRequeues`).  Six rows never run out.

*Proofs* (`HousekeepingChainProofs`), for any number of processes, rows and mishaps:
`SweepsStayExclusive`, a successor not committed yet has one open writer and no two
processes sweep for one row, assuming `Prompt == SweepLimit <= ZombieAfter`.  `SweepInv` says
what a sweeper and a row know of one another: whoever runs a row finds it claimed,
no older than the time it has been running, so that the zombie rule, its own or a
bootstrap's, reaches it only after it has ended.  The property is only proved, not a
property of the run.

`SweepsLeaveNext` proves `SweepLeavesNext`, with a second assumption:
`Persistent == SweepLimit <= (MaxAttempts - 1) * Backoff`, that a row's attempts
outlast a sweep that runs beside it (five attempts, the first two half a minute and two
minutes apart, the rest ten and more: `worker.py`, against a sweep of less than ten
minutes).  Without it the row that holds next hour's key could be tried to its end while
another sweep finds the key held and relies on it.  `NextInv` follows the clock: a row
that holds the key waits for its hour and is untried, and what a sweeper relies on has had
its attempts, `Backoff` apart, since that sweep began.

`ChainStays` says what is true of "why the chain cannot break": from the first process
that comes up, a housekeeping row is pending or in the hands of a worker, unless a process
was killed, jobs broke the transaction as often as a row has attempts, or an operator
retried a row.  `ChainInv` adds that an attempt which is not the last ended in a break.
The first two exceptions are the two findings.  The third is a trace TLC gives: a failed
row that "retry now" pulls forward is claimed in the hour whose next key it still holds, so
its sweep finds that key held, by itself, and leaves no successor.  `SweepsContinue` and
`ChainsConverge` are liveness and only model-checked.

## Broadcast

The variables are the committed state; a transaction that has read or written and
not committed is in `fphase` (a fan-out row), `sphase` and `outcome` (a send),
`cancelling` (the cancel, holding the broadcast's row) or `hphase`, `listed` and
`abandoned` (the housekeeping job).  A statement that others can come between is
a step: `ClaimFanout`, `LoadFanout` (the unlocked read), `SaveSending`,
`WriteChunk` (recipients, sends, successor or settle, commit); `ClaimSend`,
`LoadSend`, `Record` (provider call, recipient's row, count of what is pending),
`CommitSend` (the rest of `settle`); `BeginCancel`, `CommitCancel`; `ListPending`,
`Reconcile`, `CommitSweep`.  A held row blocks other writers (`RowFree`,
`Written`), a deadlock between the cancel and the last send is broken by rolling
either back, and `Rollback...` loses any transaction (retry or, out of attempts,
failure).  `Rerun` is a row swept under a slow worker and claimed again after it
was done.  The queue is taken as `ActionQueue` describes it.

`delivered` counts provider calls of transactions that were not rolled back: a
call whose transaction is lost is made again, and that is the messaging
pipeline's risk, not modelled here.  A template and a mini-flow are not
distinguished, "skipped" stands for "failed" too where a send records it, and the
audience is a fixed list whose eligibility may differ each time a chunk is run.
A row swept while its first transaction is still open is not modelled: for a send
the contact lock makes the second run wait for the first, and for a fan-out it is
what `ClaimsExclusive` rules out, under its assumption.

*Runs.*  `broadcast` (two contacts, one full chunk and the empty one after it,
one cancel, one lost transaction or repeated row, any number of deadlocks): no
contact is sent twice; `broadcast.finished` goes out once, exactly when the status
is sent; a recipient that is owed a send has a row that will make it or that the
sweep will find; a recipient that was sent stays so unless its deferred message
was really stopped; and the broadcast comes to rest unless a chunk failed for
good, which the code leaves visible on purpose.  `broadcast_cancel_lost`: the first
chunk's unconditional save overwrites a cancel.  `broadcast_sent_early`: settle's
two reads straddle the last chunk's commit.

*Bounds.*  Two contacts are needed for two last sends that miss each other; a
chunk of two makes the fan-out arm a successor that finds the audience
exhausted; three contacts, in `broadcast_sent_early`, give the last chunk
recipients of its own.

*Fairness.*  Weak for each row's handler, the sweep and deadlock detection;
strong for the cancel's commit, because PostgreSQL hands a freed row lock to the
transaction waiting for it.  `CHECK_DEADLOCK FALSE` in its configurations: a
broadcast at rest has nothing to do.

*Proofs* (`BroadcastProofs`), for any audience, chunk size and number of mishaps
and cancels, from `BroadcastAssumption` alone (a positive chunk size).  `IInv` is
`TypeOK` with `SendInv`, three facts about each contact: a transaction that has
written the recipient's row holds it until it ends (`TxnInv`); one that read the
recipient as pending cannot meanwhile see it sent (`RecipientInv`), since only the
row's one worker or the sweep that waited for that row writes it; and until
somebody records an answer no call was made and none is deferred (`CallInv`).
Neither half is inductive alone: a rollback subtracts a call, which is a natural
number only because `CallInv` says one was made.  `SentOnce`, `PendingIsArmed`
and, as a property of the steps, `SentStands` follow.  `AnnouncedIfSent` has its
own invariant `AInv`: until the first chunk has started the broadcast nobody else
has a fan-out row (`StartInv`), and a cancel that holds the row found it live and
excludes the unconditional save (`CancelInv`), so the status leaves "sent" for
nothing and every move to it is announced.

`SentReachesAll` is the half of `SentIsComplete` that holds: a broadcast that is "sent"
has a recipient row for every contact, so the early settle of `broadcast_sent_early`
is early about sends and never about the fan-out, which is what `fanout_outstanding`
asks about ("nine thousand five hundred people never hear from it").  `CoverInv`: a chunk
that is done has written its recipients and armed the next, unless the broadcast was over
when it looked, and `settle` sees no fan-out row due only when the chunks have been done
to the end.  That chunks from 0 in steps of the size cover the audience
is an induction; it is made through a least contact not covered (`LeastNat`), which the
library's well-founded order of finite sets gives.  `ComesToRest` is liveness and stays
with TLC.

## SendPipeline

One message, by its idempotency key.  `row` is the committed row: its status, whether
`dispatched_at` is set, and `send_attempts`.  `inline` fixes who sends.  For a web
request (API, inbox, an inline flow step) every statement commits by itself:
`SendOutbound` (the gates, then the insert or the row that owns the key), `Refuse`
and `RefuseDispatch`, `Claim`, `TakeToken`, `BucketEmpty` and `ReleaseClaim`,
`Answer`, `ArmRetry`, `GiveUp`, `Requeue`; `pc` is the statement a request is at,
and two requests may race under one key.  For a queue handler it is one
transaction: `HandlerSend`, `WorkerAnswer`, `Commit`, with what was written so far in
`draft`.  Retries always run there: `StartRetry`, `LoadRetry` (the unlocked read and
the decision made on it), `WriteRetry` (the first write, on the row as it is by
then, up to the provider call).  `Held` is the row lock between a transaction's first
write and its end.  One worker is enough, because every `send_retry`, and every
handler that sends, names the contact whose lock the worker takes (`ContactExclusive`
of `ActionQueue`).  `WithdrawSend` is the public withdrawal; nothing in the
repository calls it outside the tests, whose races (`messaging/tests/test_services.py`)
it takes part in here.  `StopRetries` is what a cancelled broadcast and a removed
contact really do: they cancel the retry and leave the row queued.  `Die` loses a
request between any two statements, `Rollback` a transaction with everything it
wrote, and `Rerun` repeats a retry that was swept under a slow worker.

A provider's answer is "sent", "rejected" or "unanswered" (429, 5xx, timeout,
adapter bug).  `calls` counts calls that were not rolled back, `reopened` the
retries that cleared the claim.  The bucket's arithmetic is a choice, at most
`MaxDeferrals` times.  A status "failed" with error `withdrawn:...` is the status
"withdrawn" here, since the properties tell them apart.  Receipts ("delivered",
"read", "deleted") are the subject of `DeliveryLadder`.  The withdrawal's UPDATE and
its cancel of the retries are one step.

*Runs.*  `send`: attempts count calls exactly; calls are bounded by one more than the
claims re-opened (`CallsPerOpening`, a part of `BudgetRespected`); a queued message has a retry or somebody at work, or a retry row that
failed or was stopped, or is a dead request's; nothing settled is queued again; a
handler's message is decided once and called for at most `MAX_SEND_ATTEMPTS` times;
and a queued message is settled in the end.  `send_orphaned`: a request that dies in
the provider call leaves a row that no retry will ever find, though the module says
one can.

`DecidedOnce` and the budget itself are stated for a handler's messages.  For web
requests TLC refutes both.  A retry re-opens the claim of a request still calling,
so two calls may be in flight and the budget passed by one.  `_failed` saves
"failed" over a row that has been sent since it was read, `_finalize` saves an answer
over a withdrawal that was accepted after a stale `_release_claim`.  The code
documents the first as a duplicate risk it accepts; none contradicts a sentence of
its documentation, so they are hazards and not findings.

*Bounds.*  Two requests are needed for a race under a key; three attempts give the
first call, a retry and the last rung; two deferrals let a message wait for a token
twice; two mishaps let a request die and a retry be rolled back.

*Fairness.*  Weak for each request and for the worker: requests run to their end
or die, and the queue is drained.  Nothing is assumed of withdrawals, stopped
retries or mishaps.  `CHECK_DEADLOCK FALSE`: a settled message has nothing to do.

*Proofs* (`SendPipelineProofs`: `NothingIsResurrected`, `HandlersDecideOnce`,
`BudgetCountsCalls`, `OnlyTheWinnerCalls`, `LadderHasAnEnd`, `NoMessageIsForgotten`),
for any number of requests, attempts, deferrals and
mishaps, from `SendAssumption` alone (finitely many requests, at least one attempt).
`IInv` is `TypeOK` with `WorkInv` (what a worker's transaction is: it has written
the row or it has not, and a handler's message does not exist before its handler
commits), `DraftInv` (what a transaction has written agrees with the committed row it
holds: one attempt more if it called, never a settled row re-queued, a queued row
only with a retry) and `FoundInv` (a handler's retry that asked about an unknown
outcome still sees the row it asked about).  `NoResurrection` and `DecidedOnce` follow
as properties of its steps.  The counting rests on two more invariants, neither of
which the properties state: `CountInv`, attempts are calls and the claims of `Open`,
and `ClaimInv`, which treats the claim as a resource: one, and one more for each
re-opening, is free on the row, in use by a request or spent on a call.  Every
step of a request moves one unit (`CallerCounts`); a transaction takes them into its
draft, commits them or gives them back (`WorkerCounts`); `AttemptsAreCalls` and
`CallsPerOpening` are what is left.  `BudgetInv` adds that between a handler's
retry's question and its write nobody else claims.  `MovedInv` strengthens
`QueuedIsMoved`: a request that has not claimed yet counts as the mover only while the
claim is free, since otherwise it is about to lose it.  `Settles` is liveness and
stays with TLC.

## FlowEngine

Executions of flows for contacts.  `execution` and `timer` are committed;
`step[c]` is the transaction in flight for contact `c`, under its advisory lock,
with the rows it has written and holds (`touched`).  A transaction begins by
`StartFlow` (a trigger, an API call or a test; what is live is superseded), `Answer`
or `Reask` (a reply to a wait), `FireTimer`; goes on by `RunBlock` and `HandOff` (to
another flow, with a new execution); and ends by `RunComplete`, `RunFail`,
`RunWait`, `RunDelay` or `RollBack`.  The number of a wait stands for the random
token of the code.  `DropStaleTimer` is the handler that finds a token which is no
longer current; `RetryTimer` a row the queue runs again.  `StopAutomation` is the
stop from the inbox.  Two writers take no contact lock: `ExpireStaleExecutions`
(the 30-day UPDATE, which waits for the rows others hold) and taking a flow offline:
`SetOffline` commits the status, `ScanConversations` reads what is live,
`StopConversations` expires it and its timers, and `OfflineCrash` is a death between
the two transactions.  `Publish`, `ArchiveFlow` and `RestoreFlow` are the other
edits.  `answered` and `elapsed` record how each wait was left.

*Run.*  `flow`: a wait is left once, by its reply or its timer; a wait with a
deadline keeps its queue row; an offline flow has no conversation, and none that was
being started or resumed appears later; every step is a step of `OneConversation`
(one live execution per contact across all flows, and what is over stays over);
and no wait lasts for ever.

*Bounds.*  One contact, since contacts share only flows; two executions are what a
supersede and a hand-off need; a re-ask, a second wait of the first execution and a
ring of two flows cut by `LoopCap` are reached.  The instance is divided in two
(`part`): in "steps" the flows stay published and everything else happens; in "life"
one flow is edited, and `LifeBound` leaves out second waits and replies, since a timer
resumes in the same way.  The proofs have no such bound.

*Fairness.*  A transaction goes on and ends; the sweep gets every execution that
stays waiting (strong fairness: it queues for a row that steps take in between).
Nobody has to reply and timers may fail for good.

*Proofs* (`FlowEngineProofs`), for all contacts, flows, executions and waits.
`NextMoves` first shows that each action is one of a few moves seen from the
committed rows, so that each invariant is argued once per move.  `EngineInv` is the
types, `OneLiveExecution` and `StepInv`: a transaction holds its run, every row it
holds but that one is over in its own view, and every live execution of its contact
is among the rows it holds; so what it commits leaves one alive.  That and
`over` only growing give `EngineImplementsConversation`.  `HeldInv` (rows held by a
step stay as it read them, since every other writer waits for them) and `PastInv`
(a wait that was left is not the one an execution is at) give `WaitsAreLeftOnce`;
`CommitSpares` that what a commit cancels are timers of executions it ends,
`WaitsStayArmed`; `QuietInv` that once the status is committed off, who is live in the
flow is on take_offline's list or in a transaction that began before, which will find
the flow closed, `OfflineStaysQuiet`; `CountInv`, that hand-offs carry the block
count, `RingsAreCut`.  `NoWaitIsForever` is liveness and stays with TLC.

## The services around the queue

These modules share no state, so one run checks them: in `MCServices` a behaviour
belongs to one of thirteen parts, whose next-state relation it follows while the
others rest.  Each part can be read and bounded by itself.

**DripSequence** (`campaigns/handlers.py`, `services.py`, `housekeeping.py`).  A
step's transaction holds the contact's lock and the enrollment's row between
`BeginStep` and `FinishStep`, which saves the copy it read; requests read without a
lock (`BeginRequest`) and save later (`Unsubscribe`, `Subscribe`).  The step's own
flow may unsubscribe or enroll again.  `EditSteps` adds and deletes steps,
`SweepEnrollment` is the hourly repair, `DeleteContact` and `DeleteSequence` retire.
Checked and proved (`StepsRunOnce`, `UnsubscribesStick`, `ActivesStayArmed`): a step runs
once; after a request's unsubscribe no step starts; an active enrollment has its step's
row.  `SeqInv` says why: a handler holds an enrollment at its position, which is that of
its row; no row exists beyond that position and what has run lies before it; an
enrollment that a request stopped is neither active nor held.  Checked only: nobody stays
on a sequence for ever, under weak fairness for rows, handlers and the sweep.  Two enrollments of one contact and two
steps give a re-enrollment and a renumbering; `DripBound` keeps edits between
requests and before the first unsubscribe.

**InboundEvents** (`channels` webhook views, `messaging/ingest.py`,
`flows/triggers`).  Two deliveries of one event go through `LogEvent`, `PersistEvent`
and the stages, and may die at each; stages that cannot get the contact's lock are
handed off to `route_event` rows, which claim `(event, stage)` in `RoutedEvent` and may
be handled twice.  Checked and proved (`RoutedOnce`, `EventsActOnce`): an event
starts or resumes one flow at most.  The invariant names the one delivery that may be
beyond the log, and that nothing has acted before it reaches the engine.

**Cooldown** (`campaigns/rules.py`, `housekeeping.py`).  A claim reads the clock
before it asks for the row; the prune selects, then deletes with the same condition.
Checked and proved for every period: two fires are a period apart, as long as a claim
takes no longer than `PRUNE_MARGIN` (`Patience <= Margin`, which the code assumes and
does not enforce).

**PlanGate** (`billing/entitlements.py`, `flows/services.py`).  `Activate` checks and
writes under the organization's lock; `restore_flow` checks, releases and saves, so
the limit can be passed.  Checked and proved: by at most the restores in flight.

**StripeEvents** (`billing/events.py`, `housekeeping.py`).  Two deliveries of two events
claim, read, compare and save the whole row, fail, die, and are sent again; the
reconcile job saves Stripe's answer over what it read.  Checked and proved
(`NewestStands`): when everything is
processed the row shows the newest event, or one created in the same second, unless two
saves overlapped.  Nothing orders those, nor a second's events among themselves:
`created` takes every assignment of seconds to events that keeps their order, and
`InOrder` lets a tie through, as the code does.  `StripeInv`: nobody knows of an event not emitted, and who holds an older copy
has not saved over a newer row unless two saves overlapped.  `StripeBound` stops at such an overlap and runs the snapshot beside one
delivery.

**WebhookHealth** (`api/delivery.py`, `services.py`).  Workers count failures under
the row's lock, an edit saves what it read.  Checked and proved: an endpoint with a
full streak is off, unless a stale edit saved it on.  The invariant is that the count is
the streak and that whoever is to count holds the row as it is.

**DeferredReply** (`inbox/services.py`, `handlers.py`).  Requests save statement by
statement and may die (`CancelOld`, `Arm`, `SaveArmed`), while a row's handler runs.
Checked and proved (`RepliesStayArmed`): a reply shown as pending has a row that will send
it, but for a death half-way and a row so early that it ran before it was linked.
`DeferredInv`: a request's copy knows the rows the reply has had, and a row beyond them is
the one being armed or was left by a request that died.

**Erasure** (`contacts/erasure.py`).  Two requests record, hide and tear down, now or by
the queue, with two mishaps and two attempts of a queue row (`JobAttempts`, five in the
code).  The run's first statement makes the record "running" under the index that allows
one live record, so a request that another one reclaimed fails while that one is live
(`NoRival`), without a mishap and without end.  Checked (`EraseComesTrue`): if somebody asks
again whenever that is accepted, mishaps stop, and requests do not overtake one another
for ever (`<>[]~Overtaken`), a hidden contact is erased in the end.  Only the last
condition keeps the code's livelock out: without it TLC finds two requests that reclaim and
fail each other in turn.

**TokenBucket** (`messaging/buckets.py`).  Two transactions find, create, wait for and
debit the row, and commit or roll back.  Checked and proved (`ThrottleStays`): no window of
committed sends exceeds a burst and its refill, plus one message in a connection's first
window, because a new bucket is stamped with its transaction's start.  Horizon 3 is longer
than a burst takes to refill.  `BucketInv`: whatever a window has spent, together with what
the row can give at once, is within that window's bound (`Covers`), of the committed row and
of the copy its one holder has written; a rollback returns to the first.

**ContactFilters** (`contacts/conditions.py`, the sources of `messaging` and
`campaigns`, segments in `contacts/services.py`).  `Validate` resolves references under
the depth and rule limits, and `CompileQ` builds the predicate the code builds, in
three-valued logic; `ValidateSave`/`WriteSave` are two people saving segments at
once, `DeleteSegment` one going.  Checked against `Meaning`, written in sets: a filter
in use selects exactly the contacts it describes.  The workspace of
`MCContactFilters` has every contact that differs in one thing from a new or a complete
one, every rule over those things, every document of one rule and the pairs of four,
days of unequal length, and segments two deep; `FilterBound` restricts what is held at
once.  Proved (`FiltersStayTrue`) for every workspace, calendar and depth, by induction over
the depth of segments: each rule's predicate is two-valued and says whether the contact
is in the rule's set, a day of the calendar holds exactly the moments between its bounds, and
what `Valid` has let through refers to segments that exist, no deeper than is compiled.
The assumptions are that the calendar is in order (`DaysInOrder`) and that documents name
fields there are, which `_parse_rule` and `_resolve_group` refuse otherwise, and days of
the calendar that have a next one (`FormAssumption`), which nothing refuses for the last
day of the year 9999.

**Consent** (`messaging/services.py`, `ingest.py`, `compliance.py`).  Two calls (a
message, STOP, START, a captured address) read the row, and save columns or a whole
copy; `CanSend` is the gates in the code's order for every policy, source and tag.
Checked and proved (`GrantsStayEarned`): a grant was permitted and not stopped, lies
within its window, and START is honoured, unless an older copy overtook a keyword.
`ConsentInv`: the row and every copy are no newer than the newest message, an
opt-in was given, and the last keyword is in force unless overtaken.  `ConsentBound`
stops at an overtaking, which the property excepts.

**ContactImport** (`contacts/imports.py`, `views.py`).  Three queue rows, two wizard
requests, three rows of which the cap admits two, batches of one.  Checked and proved
(`ImportsStayWhole`): an import that is done has applied its rows, and none more often
than somebody confirmed, unless two passes met.  `ImportInv`: every due row of an import
finds the rows before its offset applied, and while importing the rows not reached
have one confirmation to spare.

**DeliveryLadder** (`messaging/services.py`, `ingest.py`, `analytics/counters.py`,
`views_public.py`).  One sender (a request, or a handler and its retries) and two web
workers that read a status and write it back if unchanged.  A message of a platform gets
every receipt and may be deleted; an e-mail gets its provider's "delivered" and "failed" by
the provider's id and opens of its pixel by the message's key, in any order and at once.  Checked and proved
(`LadderIsCounted`): a status never falls below what was seen, and each counter is the
rungs reached.  `LadderInv`: the counters agree with the highest rung, a row in a
provider call is still queued, and a receipt in flight is a legal move from what it
read.  Four receipts exceed the rungs.  Two senders under one key are
`SendPipeline`'s subject; the increments themselves are atomic.

*Queue rows.*  Three of these modules move their queue rows themselves.
`RouteJobsAreRows`, `ReplyRowsAreRows` and `StepRowsAreRows` prove that the rows of
`InboundEvents`, `DeferredReply` and `DripSequence` refine `ActionLifecycle`, as those of
`ActionQueue` do: in particular a claimed row is never cancelled beside its handler and no
key is used again to revive a row.  They need that a handler in flight has its row claimed
(`SendingClaimed`, `HandlersClaimed`).

*Fairness* of the run: that of the sequences and of the erasure (rows are taken and
handled, requests go on or die), which workers and web processes give.  That somebody asks
again is a premise of `EraseComesTrue`, not an assumption on the code.  `CHECK_DEADLOCK FALSE`: a part that is finished
has nothing to do.

## What the models show of the code besides

Behaviours met while modelling that no run singles out.  Those marked * contradict a
sentence of the code or its documentation; the others are what a property had to
except, or a consequence of the design.

- *Queue and flows.*  A crash between the two transactions of take_offline leaves
  conversations of an offline flow until the 30-day sweep; `smart_delay` may exceed
  the 30 days after which that sweep expires it; after a publish and an archive between
  the two steps, the second stops conversations that nobody is taking offline any more.
- *Sequences.*  An unsubscribe by a step's own flow is undone by `_advance`, which
  saves the older copy (`campaigns/handlers.py`, `_enrollment`); an unsubscribe that
  races the last step turns "completed" into "unsubscribed"; the repair changes nothing
  while a failed row holds the key; and after `move_step` somebody who waits for the second of two
  swapped steps gets the first one again and the second never ("nobody is skipped")*.
- *Inbound.*  An event whose process dies after it was logged is never processed; a
  worker-mode deferral drops it after its claim.
- *Consent.*  `_upsert_one` saves a whole older copy, so it can clear a concurrent
  opt-out ("an `opted_out_at` is never cleared from here")* and move the window back; a
  keyword that returns early on a stale copy is lost.
- *Delivery.*  A message given up after its last attempt is not counted as failed while
  a withdrawn one is; sent, failed, sent, failed counts two failures ("can only be written off
  once")*; an e-mail that failed at the send and is opened counts as delivered without
  having been sent*; a pixel fetched during the call is overwritten by the answer; a
  receipt that loses its comparison, or is earlier than the provider's id, is dropped.
- *Imports.*  A check's leftover row whose offset is the import's next runs the rest as a
  check, and the import ends "validated" with rows unwritten, although the offset guard
  is said to strand it*; a leftover import row may write during a check nobody has
  confirmed; a batch out of attempts leaves the import "importing" for good.
- *Segments.*  The form can store a filter the engine refuses later, by an edit, a
  deletion or two saves at once ("neither a form nor the Django admin can")*; cycles are
  refused when used; the day 9999-12-31 is accepted and overflows when its end is computed
  (`contacts/conditions.py:1111`).
- *Billing.*  Overlapping saves are not ordered; of two events of one second the one that
  arrives last stands, though it be the older ("dropped rather than being allowed to
  resurrect an old state")*; a redelivery within five minutes of a
  crashed one is answered 200 and lost; a refreshed `raw` is not saved
  (`billing/events.py:88`).
- *Erasure.*  A request that tears down by itself has no queue row, so a second one takes its
  live record for stalled, although only "a second **live** request" is refused*; the first
  then fails at its "running" update, and two in turn may fail each other for ever.
- *Members.*  `accept_invitation` takes its invitation's row but not the organization's
  lock, which `entitlements.py:311` says it takes second*; sending an expired invitation
  again makes it count as a seat without a check; the last admin is an unlocked read.
- *Inbox.*  A reply due between its schedule and the save that links it is dropped and
  stays pending; a cancel may overwrite "sent".
- *Merging contacts.*  Only `send_retry` rows are moved to the surviving contact; other
  rows go on naming, and locking, the old one.

## What is checked, what is proved, what is neither

Every property of a passing run has a mutant of the code that breaks it under the
same configuration.  Every safety and action property of a passing run is proved for
every instance, the two refinements included, and beyond them that sweeps are
exclusive (`SweepsStayExclusive`), the chain stays (`ChainStays`), a sent broadcast reaches
its whole audience (`SentReachesAll`) and the services' rows are rows of the queue.

Only model-checked is liveness, which the provers cannot treat:
`EventuallySettled`, `SweepsContinue`, `ChainsConverge`, `ComesToRest`, `Settles`,
`NoWaitIsForever`, `WalksEnd` and `EraseComesTrue`.  `Erasure` has no other property worth
a theorem, and what the six disagreement runs refute is not there to be proved.

Theorems rest on the constants' named assumptions, which TLC evaluates, and where it
is said on `HoldLimit <= ZombieAfter`, `Prompt` or `Persistent`.  Induction over numbers
is done by a least counterexample, from the library's well-founded order of finite sets
(`LeastNat`, `SetInduction`), since its induction theorems take an operator, which these
provers cannot instantiate.

## Not modelled

- *Channel adapters* (`channels/providers`), the largest part of the code: payloads
  and third-party HTTP.  The models see a send that is accepted, refused or unanswered.
  Signature checks and parsing of the webhook views likewise.
- *Views, forms, templates, the public API, the front end, portability of flows, flow
  validation*: they read and format, or call the services that are modelled.
- *What a node of a flow does* besides going on, waiting, ending or failing: variables,
  answers, HTTP calls.
- *Contact resolution and merge, tags and fields, assignment and inbox rules, click
  tracking and attribution, usage metering, the customer's binding to Stripe*.
- *Accounts, members, organizations, workspaces, media, credentials, notifications*: rows
  written under one lock, or storage; the plan lists what is worth adding.
- Retention deletes of old settled rows; the text of keys and payloads; clock skew
  between processes; `READ COMMITTED` effects finer than one statement; the reminders
  of the inbox, which go the way of `DeferredReply`.

These parts are most of the lines and little of the order of events, so the share of the
code that the models stand for stays small: about a twelfth of its lines.

## To check

`tlc -config MCBroadcast.cfg MCBroadcast.tla`, and likewise the other configurations:
`MCActionQueue`, `MCHousekeepingChain`, `MCSendPipeline`, `MCFlowEngine` and `MCServices`,
each one to three minutes, and the six that show disagreements (`MCQueueTwice`,
`MCChainRestart`, `MCChainBreak`, `MCBroadcastCancel`, `MCBroadcastSent`, `MCSendStuck`).
`tlapm` on `ActionLifecycle` and each of the modules named `...Proofs`.

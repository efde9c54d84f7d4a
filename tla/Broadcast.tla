------------------------------- MODULE Broadcast -------------------------------
(***************************************************************************)
(* One broadcast of apps/broadcasts: scheduled, fanned out over its audience *)
(* in chunks, sent contact by contact, cancelled, and settled by whoever    *)
(* finds nothing left to do.                                                *)
(*                                                                         *)
(* Every handler is one READ COMMITTED transaction of several statements.   *)
(* The variables hold the committed state; what a transaction has read and  *)
(* written so far is in its own variables until it commits, and a write it  *)
(* holds blocks the writes of others to the same row.  The queue is taken   *)
(* as ActionQueue describes it: a row runs in one worker at a time, may     *)
(* be rolled back and retried, and (a swept row) may run again after it     *)
(* is done.                                                                *)
(*                                                                         *)
(* Whether the content is a template or a mini-flow is left out: an         *)
(* archived flow only makes "failed" the outcome of a send.                 *)
(***************************************************************************)
EXTENDS Naturals, FiniteSets

CONSTANTS
    Audience,       \* number of contacts, fanned out in the order 1..Audience
    ChunkSize,      \* CHUNK_SIZE
    MaxMishaps,     \* bound: transactions lost to crashes and errors, and done
                    \* rows that are run again
    MaxCancels      \* bound: how often an operator tries to cancel

ASSUME BroadcastAssumption ==
    /\ {Audience, MaxMishaps, MaxCancels} \subseteq Nat
    /\ ChunkSize \in Nat \ {0}

Contact == 1..Audience
\* The cursor a fanout row starts after; 0 is the row keyed "start".
Cursor  == {k \in 0..Audience : k % ChunkSize = 0}

VARIABLES
    status,     \* the broadcast's status
    recipient,  \* [Contact -> RecipientStatus]
    fanout,     \* [Cursor -> ActionStatus], the broadcast_fanout rows
    send,       \* [Contact -> ActionStatus], the broadcast_send rows
    retry,      \* [Contact -> ActionStatus], the send_retry of a deferred message
    fphase,     \* [Cursor -> phase], a fanout row's transaction
    sphase,     \* [Contact -> phase], a send row's transaction
    outcome,    \* [Contact -> Outcome], what that transaction wrote
    cancelling, \* BOOLEAN, a cancel holds the broadcast's row
    hphase,     \* phase of the housekeeping job
    listed,     \* the pending recipients it has read
    abandoned,  \* those it has failed, uncommitted
    delivered,  \* [Contact -> Nat], provider calls not rolled back (history)
    announced,  \* broadcast.finished events (history)
    mishaps, cancels

queue   == <<fanout, send, retry>>
txns    == <<fphase, sphase, outcome, cancelling, hphase, listed, abandoned>>
history == <<delivered, announced>>
bounds  == <<mishaps, cancels>>
vars    == <<status, recipient, queue, txns, history, bounds>>

BroadcastStatus == {"draft", "scheduled", "sending", "sent", "cancelled"}
RecipientStatus == {"none", "pending", "sent", "failed", "skipped", "cancelled"}
ActionStatus    == {"none", "pending", "running", "done", "failed", "cancelled"}
Outcome         == {"none", "sent", "deferred", "skipped", "cancelled"}
LiveStatuses    == {"scheduled", "sending"}

Init ==
    /\ status = "draft"
    /\ recipient = [c \in Contact |-> "none"]
    /\ fanout = [k \in Cursor |-> "none"]
    /\ send = [c \in Contact |-> "none"]
    /\ retry = [c \in Contact |-> "none"]
    /\ fphase = [k \in Cursor |-> "none"]
    /\ sphase = [c \in Contact |-> "none"]
    /\ outcome = [c \in Contact |-> "none"]
    /\ cancelling = FALSE
    /\ hphase = "none" /\ listed = {} /\ abandoned = {}
    /\ delivered = [c \in Contact |-> 0]
    /\ announced = 0
    /\ mishaps = 0 /\ cancels = 0

\* Nobody holds an uncommitted write to the broadcast's row.
RowFree == ~cancelling /\ \A k \in Cursor : fphase[k] # "saved"

\* A recipient's row with an uncommitted write.
Written(c) == outcome[c] # "none" \/ c \in abandoned

ScheduleBroadcast ==
    /\ status = "draft"
    /\ status' = "scheduled"
    /\ fanout' = [fanout EXCEPT ![0] = "pending"]
    /\ UNCHANGED <<recipient, send, retry, txns, history, bounds>>

-----------------------------------------------------------------------------
(* Settling, shared by the send handler, the fanout and the housekeeping.   *)

FanoutOutstanding(own) ==
    \E k \in Cursor \ own : fanout[k] \in {"pending", "running", "failed"}

\* Mutant: the status is not part of the UPDATE.
SettleAnyway(finished) ==
    /\ status' = IF finished THEN "sent" ELSE status
    /\ announced' = IF finished THEN announced + 1 ELSE announced

\* The conditional UPDATE, and what only the transaction that wins it does.
Settle(finished) ==
    LET claimed == finished /\ status = "sending"
    IN  /\ claimed => RowFree
        /\ status' = IF claimed THEN "sent" ELSE status
        /\ announced' = IF claimed THEN announced + 1 ELSE announced

-----------------------------------------------------------------------------
(* handle_broadcast_fanout.                                                *)

ClaimFanout(k) ==
    /\ fanout[k] = "pending"
    /\ fanout' = [fanout EXCEPT ![k] = "running"]
    /\ fphase' = [fphase EXCEPT ![k] = "claimed"]
    /\ UNCHANGED <<status, recipient, send, retry, sphase, outcome, cancelling, hphase, listed,
                   abandoned, history, bounds>>

\* The broadcast is read without a lock; one that is not live ends the handler.
LoadFanout(k) ==
    /\ fphase[k] = "claimed"
    /\ IF status \in LiveStatuses
         THEN /\ fphase' = [fphase EXCEPT ![k] = IF status = "scheduled" THEN "first" ELSE "chunk"]
              /\ UNCHANGED fanout
         ELSE /\ fphase' = [fphase EXCEPT ![k] = "none"]
              /\ fanout' = [fanout EXCEPT ![k] = "done"]
    /\ UNCHANGED <<status, recipient, send, retry, sphase, outcome, cancelling, hphase, listed,
                   abandoned, history, bounds>>

\* The unconditional save of "sending", after which the row is held.
SaveSending(k) ==
    /\ fphase[k] = "first"
    /\ RowFree
    /\ fphase' = [fphase EXCEPT ![k] = "saved"]
    /\ UNCHANGED <<status, recipient, queue, sphase, outcome, cancelling, hphase, listed,
                   abandoned, history, bounds>>

Chunk(k) == {c \in Contact : k < c /\ c <= k + ChunkSize}

\* bulk_create with ignore_conflicts: a contact has one recipient row for good.
Recipients(k, eligible) ==
    [c \in Contact |-> IF c \notin Chunk(k) \/ recipient[c] # "none" THEN recipient[c]
                       ELSE IF c \in eligible THEN "pending" ELSE "skipped"]

\* The chunk, its sends, then either the successor or, the audience exhausted,
\* an attempt to settle; committed with the row's own "done".
WriteChunk(k, eligible) ==
    LET rows  == Recipients(k, eligible)
        arm   == {c \in eligible : rows[c] = "pending" /\ send[c] = "none"}
        full  == Cardinality(Chunk(k)) = ChunkSize
        next  == k + ChunkSize
        ended == ~full /\ ~FanoutOutstanding({k}) /\ \A c \in Contact : rows[c] # "pending"
        own   == fphase[k] = "saved"
    IN  /\ fphase[k] \in {"chunk", "saved"}
        /\ own \/ RowFree \/ rows = recipient
        /\ recipient' = rows
        /\ send' = [c \in Contact |-> IF c \in arm THEN "pending" ELSE send[c]]
        /\ fanout' = [j \in Cursor |-> IF j = k THEN "done"
                                       ELSE IF full /\ j = next /\ fanout[j] = "none" THEN "pending"
                                       ELSE fanout[j]]
        /\ fphase' = [fphase EXCEPT ![k] = "none"]
        /\ IF own
             THEN /\ status' = IF ended THEN "sent" ELSE "sending"
                  /\ announced' = IF ended THEN announced + 1 ELSE announced
             ELSE Settle(ended)
        /\ UNCHANGED <<retry, sphase, outcome, cancelling, hphase, listed, abandoned,
                       delivered, bounds>>

-----------------------------------------------------------------------------
(* handle_broadcast_send.                                                  *)

ClaimSend(c) ==
    /\ send[c] = "pending"
    /\ send' = [send EXCEPT ![c] = "running"]
    /\ sphase' = [sphase EXCEPT ![c] = "claimed"]
    /\ UNCHANGED <<status, recipient, fanout, retry, fphase, outcome, cancelling, hphase, listed,
                   abandoned, history, bounds>>

\* Mutant: the recipient's outcome is not looked at.
OwedAnyway(c) == TRUE

\* A recipient another run settled is left alone.
Owed(c) == recipient[c] = "pending"

\* Mutant: the cancellation is looked at first.
LoadSendCancelledFirst(c) ==
    /\ sphase[c] = "claimed"
    /\ IF Owed(c) \/ status = "cancelled"
         THEN /\ sphase' = [sphase EXCEPT ![c] = IF status = "cancelled" THEN "refused" ELSE "owed"]
              /\ UNCHANGED send
         ELSE /\ sphase' = [sphase EXCEPT ![c] = "none"]
              /\ send' = [send EXCEPT ![c] = "done"]
    /\ UNCHANGED <<status, recipient, fanout, retry, fphase, outcome, cancelling, hphase, listed,
                   abandoned, history, bounds>>

\* What the rest of the handler will do is decided by one read of both rows.
LoadSend(c) ==
    /\ sphase[c] = "claimed"
    /\ IF Owed(c)
         THEN /\ sphase' = [sphase EXCEPT ![c] = IF status = "cancelled" THEN "refused" ELSE "owed"]
              /\ UNCHANGED send
         ELSE /\ sphase' = [sphase EXCEPT ![c] = "none"]
              /\ send' = [send EXCEPT ![c] = "done"]
    /\ UNCHANGED <<status, recipient, fanout, retry, fphase, outcome, cancelling, hphase, listed,
                   abandoned, history, bounds>>

NothingPending(mine) == \A c \in Contact \ mine : recipient[c] # "pending"

\* The provider is called, unless compliance refuses or nothing can be sent, the
\* recipient's row is written, and _maybe_settle counts what others committed.
\* A deferred message counts as sent; "skipped" stands for "failed" as well.
Record(c, result) ==
    /\ \/ sphase[c] = "owed" /\ result \in {"sent", "deferred", "skipped"}
       \/ sphase[c] = "refused" /\ result = "cancelled"
    /\ c \notin abandoned
    /\ outcome' = [outcome EXCEPT ![c] = result]
    /\ sphase' = [sphase EXCEPT ![c] =
                    IF result # "cancelled" /\ NothingPending({c}) THEN "last" ELSE "counted"]
    /\ delivered' = [delivered EXCEPT ![c] = IF result = "sent" THEN @ + 1 ELSE @]
    /\ UNCHANGED <<status, recipient, queue, fphase, cancelling, hphase, listed, abandoned,
                   announced, bounds>>

Recorded(result) == IF result = "deferred" THEN "sent" ELSE result

\* The rest of settle, and the commit.
CommitSend(c) ==
    /\ sphase[c] \in {"counted", "last"}
    /\ Settle(sphase[c] = "last" /\ ~FanoutOutstanding({}))
    /\ recipient' = [recipient EXCEPT ![c] = Recorded(outcome[c])]
    /\ retry' = [retry EXCEPT ![c] = IF outcome[c] = "deferred" THEN "pending" ELSE @]
    /\ send' = [send EXCEPT ![c] = "done"]
    /\ sphase' = [sphase EXCEPT ![c] = "none"]
    /\ outcome' = [outcome EXCEPT ![c] = "none"]
    /\ UNCHANGED <<fanout, fphase, cancelling, hphase, listed, abandoned, delivered, bounds>>

\* handle_send_retry, which knows nothing of broadcasts and may be refused by
\* compliance.  Once claimed, no cancel reaches it, so it may as well have run.
RunRetry(c, calls) ==
    /\ retry[c] = "pending"
    /\ retry' = [retry EXCEPT ![c] = "done"]
    /\ delivered' = [delivered EXCEPT ![c] = @ + calls]
    /\ UNCHANGED <<status, recipient, fanout, send, txns, announced, bounds>>

-----------------------------------------------------------------------------
(* cancel_broadcast.                                                       *)

BeginCancel ==
    /\ cancels < MaxCancels
    /\ cancels' = cancels + 1
    /\ RowFree
    /\ status \in LiveStatuses
    /\ cancelling' = TRUE
    /\ UNCHANGED <<status, recipient, queue, fphase, sphase, outcome, hphase, listed, abandoned,
                   history, mishaps>>

\* Mutant: the recipients are left to the sends.
FlippedNone == {}

\* The recipients a cancel settles; it waits for those a transaction has written.
Flipped == {c \in Contact : recipient[c] = "pending"}

\* The deferred messages it can still stop.
Stoppable == {c \in Contact : recipient[c] = "sent" /\ retry[c] = "pending"}

CommitCancel ==
    /\ cancelling
    /\ \A c \in Flipped : ~Written(c)
    /\ cancelling' = FALSE
    /\ status' = "cancelled"
    /\ fanout' = [k \in Cursor |-> IF fanout[k] = "pending" THEN "cancelled" ELSE fanout[k]]
    /\ send' = [c \in Contact |-> IF send[c] = "pending" THEN "cancelled" ELSE send[c]]
    /\ retry' = [c \in Contact |-> IF c \in Stoppable THEN "cancelled" ELSE retry[c]]
    /\ recipient' = [c \in Contact |-> IF c \in Flipped \cup Stoppable THEN "cancelled" ELSE recipient[c]]
    /\ UNCHANGED <<fphase, sphase, outcome, hphase, listed, abandoned, history, bounds>>

-----------------------------------------------------------------------------
(* settle_broadcasts, the hourly job, in the sweep's transaction.           *)

ListPending ==
    /\ hphase = "none"
    /\ status = "sending"
    /\ hphase' = "listed"
    /\ listed' = {c \in Contact : recipient[c] = "pending"}
    /\ UNCHANGED <<status, recipient, queue, fphase, sphase, outcome, cancelling, abandoned,
                   history, bounds>>

\* Mutant: a failed row is still waited for.
AliveOrFailed(c) == send[c] \in {"pending", "running", "failed"}

Alive(c) == send[c] \in {"pending", "running"}

\* Fails the recipients whose send gave up, among those that are still pending,
\* and counts what is left.
Reconcile ==
    LET gone == {c \in listed : ~Alive(c) /\ recipient[c] = "pending"}
    IN  /\ hphase = "listed"
        /\ hphase' = IF NothingPending(gone) THEN "last" ELSE "counted"
        /\ abandoned' = gone
        /\ listed' = {}
        /\ UNCHANGED <<status, recipient, queue, fphase, sphase, outcome, cancelling, history, bounds>>

CommitSweep ==
    /\ hphase \in {"counted", "last"}
    /\ Settle(hphase = "last" /\ ~FanoutOutstanding({}))
    /\ hphase' = "none"
    /\ recipient' = [c \in Contact |-> IF c \in abandoned THEN "failed" ELSE recipient[c]]
    /\ abandoned' = {}
    /\ UNCHANGED <<queue, fphase, sphase, outcome, cancelling, listed, delivered, bounds>>

-----------------------------------------------------------------------------
(* Rollbacks: a handler that raises, a worker that dies, a deadlock victim. *)

\* The cancel waits for a recipient's row, whose writer waits for the broadcast's.
DeadlockedSend(c) ==
    cancelling /\ sphase[c] = "last" /\ recipient[c] = "pending" /\ ~FanoutOutstanding({})
DeadlockedSweep ==
    cancelling /\ hphase = "last" /\ abandoned # {} /\ ~FanoutOutstanding({})

\* PostgreSQL always breaks a deadlock; other mishaps are bounded.
Mishap(deadlock) == IF deadlock THEN UNCHANGED mishaps
                    ELSE mishaps < MaxMishaps /\ mishaps' = mishaps + 1

\* The row is retried, by backoff or the zombie sweep, or is out of attempts.
RollbackFanout(k, next) ==
    /\ fphase[k] # "none"
    /\ Mishap(FALSE)
    /\ next \in {"pending", "failed"}
    /\ fanout' = [fanout EXCEPT ![k] = next]
    /\ fphase' = [fphase EXCEPT ![k] = "none"]
    /\ UNCHANGED <<status, recipient, send, retry, sphase, outcome, cancelling, hphase, listed,
                   abandoned, history, cancels>>

RollbackSend(c, next) ==
    /\ sphase[c] # "none"
    /\ Mishap(DeadlockedSend(c))
    /\ next \in {"pending", "failed"}
    /\ send' = [send EXCEPT ![c] = next]
    /\ delivered' = [delivered EXCEPT ![c] = IF outcome[c] = "sent" THEN @ - 1 ELSE @]
    /\ sphase' = [sphase EXCEPT ![c] = "none"]
    /\ outcome' = [outcome EXCEPT ![c] = "none"]
    /\ UNCHANGED <<status, recipient, fanout, retry, fphase, cancelling, hphase, listed, abandoned,
                   announced, cancels>>

RollbackSweep ==
    /\ hphase # "none"
    /\ Mishap(DeadlockedSweep)
    /\ hphase' = "none" /\ listed' = {} /\ abandoned' = {}
    /\ UNCHANGED <<status, recipient, queue, fphase, sphase, outcome, cancelling, history,
                   cancels>>

RollbackCancel ==
    /\ cancelling
    /\ Mishap(DeadlockedSweep \/ \E c \in Contact : DeadlockedSend(c))
    /\ cancelling' = FALSE
    /\ UNCHANGED <<status, recipient, queue, fphase, sphase, outcome, hphase, listed, abandoned,
                   history, cancels>>

BreakDeadlock ==
    \/ DeadlockedSweep /\ (RollbackSweep \/ RollbackCancel)
    \/ \E c \in Contact :
         /\ DeadlockedSend(c)
         /\ RollbackCancel \/ \E next \in ActionStatus : RollbackSend(c, next)

\* A row swept under a slow worker runs again after it is done.
Rerun ==
    /\ Mishap(FALSE)
    /\ \/ \E k \in Cursor : /\ fanout[k] = "done"
                            /\ fanout' = [fanout EXCEPT ![k] = "pending"]
                            /\ UNCHANGED send
       \/ \E c \in Contact : /\ send[c] = "done"
                             /\ send' = [send EXCEPT ![c] = "pending"]
                             /\ UNCHANGED fanout
    /\ UNCHANGED <<status, recipient, retry, txns, history, cancels>>

-----------------------------------------------------------------------------

Fanout(k) == \/ ClaimFanout(k) \/ LoadFanout(k) \/ SaveSending(k)
             \/ \E eligible \in SUBSET Chunk(k) : WriteChunk(k, eligible)

Send(c) == \/ ClaimSend(c) \/ LoadSend(c) \/ \E result \in Outcome : Record(c, result)
           \/ CommitSend(c)

SettleBroadcasts == ListPending \/ Reconcile \/ CommitSweep

Rollback == \/ \E k \in Cursor, next \in ActionStatus : RollbackFanout(k, next)
            \/ \E c \in Contact, next \in ActionStatus : RollbackSend(c, next)
            \/ RollbackSweep \/ RollbackCancel

Next == \/ ScheduleBroadcast \/ BeginCancel \/ CommitCancel
        \/ \E k \in Cursor : Fanout(k)
        \/ \E c \in Contact : Send(c) \/ \E calls \in 0..1 : RunRetry(c, calls)
        \/ SettleBroadcasts
        \/ Rollback \/ Rerun

Spec == Init /\ [][Next]_vars

\* Workers drain the queue, statements return, deadlocks are broken, the sweep
\* runs every hour, and a row's lock goes to the transaction that waits for it.
FairSpec ==
    /\ Spec
    /\ \A k \in Cursor : WF_vars(Fanout(k))
    /\ \A c \in Contact : WF_vars(Send(c))
    /\ SF_vars(CommitCancel) /\ WF_vars(SettleBroadcasts) /\ WF_vars(BreakDeadlock)

-----------------------------------------------------------------------------
(* Properties.                                                             *)

TypeOK ==
    /\ status \in BroadcastStatus
    /\ recipient \in [Contact -> RecipientStatus]
    /\ {fanout} \subseteq [Cursor -> ActionStatus]
    /\ {send, retry} \subseteq [Contact -> ActionStatus]
    /\ fphase \in [Cursor -> {"none", "claimed", "first", "saved", "chunk"}]
    /\ sphase \in [Contact -> {"none", "claimed", "owed", "refused", "counted", "last"}]
    /\ outcome \in [Contact -> Outcome]
    /\ cancelling \in BOOLEAN
    /\ hphase \in {"none", "listed", "counted", "last"}
    /\ listed \subseteq Contact /\ abandoned \subseteq Contact
    /\ delivered \in [Contact -> Nat]
    /\ {announced, mishaps, cancels} \subseteq Nat

(***************************************************************************)
(* A contact is sent a broadcast once, whatever is re-run, cancelled or     *)
(* deferred: a second provider call happens only for a first one whose      *)
(* transaction was rolled back ("One send per contact per broadcast,        *)
(* whatever re-runs this").                                                *)
(***************************************************************************)
SentOnce == \A c \in Contact : delivered[c] <= 1

(***************************************************************************)
(* broadcast.finished goes out exactly once, for a broadcast that is sent,  *)
(* although several sends, the fanout and the sweep may all find that       *)
(* nothing is left (settle: "exactly one of them may emit").                *)
(***************************************************************************)
AnnouncedIfSent == announced = IF status = "sent" THEN 1 ELSE 0

(***************************************************************************)
(* Nobody is forgotten: a recipient that is still owed an answer has a send *)
(* row that will give it, or one that failed, which the sweep looks for.    *)
(***************************************************************************)
PendingIsArmed == \A c \in Contact : recipient[c] = "pending" => send[c] \in {"pending", "running", "failed"}

(***************************************************************************)
(* Already-sent stands: no later run, cancel or sweep rewrites a recipient  *)
(* that got the message, unless the message was deferred and is stopped.    *)
(***************************************************************************)
SentStands ==
    [][\A c \in Contact : recipient[c] = "sent" =>
         \/ recipient'[c] = "sent"
         \/ recipient'[c] = "cancelled" /\ retry'[c] = "cancelled"]_vars

(***************************************************************************)
(* A broadcast comes to rest: whoever dies, gives up or sees a stale count, *)
(* the sweep settles it, unless a chunk of its audience failed for good.    *)
(***************************************************************************)
ComesToRest ==
    (status = "sending") ~> (status \in {"sent", "cancelled"} \/ \E k \in Cursor : fanout[k] = "failed")

(***************************************************************************)
(* A cancelled broadcast stays cancelled (BroadcastStatus: "cancelled" is   *)
(* reached from scheduled and sending and left for nothing).               *)
(***************************************************************************)
CancelStands == [][status = "cancelled" => status' = "cancelled"]_vars

(***************************************************************************)
(* A broadcast marked sent has expanded its audience and has nothing        *)
(* pending (fanout_outstanding, settle).                                   *)
(***************************************************************************)
SentIsComplete ==
    status = "sent" => \A c \in Contact : recipient[c] \notin {"none", "pending"}
=============================================================================

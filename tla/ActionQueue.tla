----------------------------- MODULE ActionQueue -----------------------------
(***************************************************************************)
(* The work queue of apps/queueing: rows of queueing_scheduled_action, the *)
(* workers that claim and run them (worker.py), the per-contact advisory   *)
(* lock around a handler (locks.py), the zombie sweep (housekeeping.py),    *)
(* and what the rest of the program may do to a row (registry.py,           *)
(* admin.py).                                                               *)
(*                                                                         *)
(* A row is named by its idempotency key, so scheduling it again is a       *)
(* no-op whatever its status.  A worker's copy of a claimed row is taken at *)
(* the claim and never read again from the table; held[w][a] is the         *)
(* attempts count in that copy, and 0 when w has no copy.                   *)
(*                                                                         *)
(* Time is counted in ticks.  age[a] is the time since updated_at was last  *)
(* stamped on a running row, delay[a] the time until run_at of a pending    *)
(* one.  HandlerLimit, HoldLimit and Punctual bound how slow a live worker is.  *)
(***************************************************************************)
EXTENDS Naturals, FiniteSets

CONSTANTS
    Worker,         \* process_tasks, tick and HTTP tick processes
    Action,         \* rows that may be scheduled
    Contact,        \* contacts the rows may name
    ContactOf,      \* [Action -> Contact \cup {None}], the contact_id column
    PayloadOf,      \* [Action -> Contact \cup {None}], whom a payload quotes
    Erasing,        \* rows of type contact_erasure
    Unhandled,      \* rows whose type no handler is registered for
    MaxAttempts,    \* max_attempts of every row
    BatchSize,      \* rows a worker claims at once
    Backoff,        \* ticks until a failed row is due again
    ZombieAfter,    \* ZOMBIE_AFTER in ticks
    HandlerLimit,   \* ticks one handler may run
    HoldLimit,      \* ticks a live worker may keep a claimed row unstamped
    Punctual,       \* TRUE: only handlers, and waiting for a taken lock, take time
    MaxRequeues,    \* bound: how often an operator presses "Retry now"
    None

ASSUME QueueAssumption ==
    /\ ContactOf \in [Action -> Contact \cup {None}]
    /\ PayloadOf \in [Action -> Contact \cup {None}]
    /\ Erasing \subseteq Action
    /\ None \notin Contact \cup Worker \cup Action
    /\ Unhandled \subseteq Action
    /\ MaxAttempts \in Nat \ {0}
    /\ BatchSize \in Nat \ {0}
    /\ Backoff \in Nat
    /\ ZombieAfter \in Nat
    /\ HandlerLimit \in Nat
    /\ HoldLimit \in Nat
    /\ Punctual \in BOOLEAN
    /\ MaxRequeues \in Nat

VARIABLES
    status,      \* [Action -> Status], the row's status column
    attempts,    \* [Action -> Nat], its attempts column
    age,         \* [Action -> Nat], ticks since updated_at of a running row
    delay,       \* [Action -> Nat], ticks until run_at of a pending row
    phase,       \* [Worker -> Phase], where a worker is in run_batch
    held,        \* [Worker -> [Action -> Nat]], its in-memory copies
    current,     \* [Worker -> Action \cup {None}], the row in process_action
    spent,       \* [Worker -> Nat], ticks its handler has been running
    lock,        \* [Contact -> Worker \cup {None}], the advisory locks
    effects,     \* [Action -> Nat], committed runs of the handler (history)
    requeues     \* Nat, uses of "Retry now" so far (bounds the model)

rowVars    == <<status, attempts, age, delay>>
workerVars == <<phase, held, current, spent, lock>>
vars       == <<rowVars, workerVars, effects, requeues>>

Status == {"unscheduled", "pending", "running", "done", "failed", "cancelled", "deleted"}
Phase  == {"idle",      \* between batches
           "claimed",   \* a batch is claimed and nothing of it has started
           "between",   \* at least one row of the batch has been processed
           "locking",   \* stamped alive, waiting for the contact lock
           "handler",   \* inside the handler's transaction
           "failing"}   \* rolled back, about to record the failure

Exists(a) == status[a] \notin {"unscheduled", "deleted"}
Due(a)    == status[a] = "pending" /\ delay[a] = 0
Held(w)   == {a \in Action : held[w][a] > 0}

\* Mutant: the cutoff compared with <= instead of <.
AbandonedAtCutoff(a) == status[a] = "running" /\ age[a] >= ZombieAfter

Abandoned(a) == status[a] = "running" /\ age[a] > ZombieAfter

Init ==
    /\ status   = [a \in Action |-> "unscheduled"]
    /\ attempts = [a \in Action |-> 0]
    /\ age      = [a \in Action |-> 0]
    /\ delay    = [a \in Action |-> 0]
    /\ phase    = [w \in Worker |-> "idle"]
    /\ held     = [w \in Worker |-> [a \in Action |-> 0]]
    /\ current  = [w \in Worker |-> None]
    /\ spent    = [w \in Worker |-> 0]
    /\ lock     = [c \in Contact |-> None]
    /\ effects  = [a \in Action |-> 0]
    /\ requeues = 0

-----------------------------------------------------------------------------
(* What the rest of the program does to rows.                              *)

Schedule(a, d) ==
    /\ status[a] = "unscheduled"
    /\ status' = [status EXCEPT ![a] = "pending"]
    /\ delay' = [delay EXCEPT ![a] = d]
    /\ UNCHANGED <<attempts, age, workerVars, effects, requeues>>

\* Mutant: cancelling takes running rows too.
CancellableAlive == {"pending", "running"}

Cancellable == {"pending"}

CancelPending(a) ==
    /\ status[a] \in Cancellable
    /\ status' = [status EXCEPT ![a] = "cancelled"]
    /\ delay' = [delay EXCEPT ![a] = 0]
    /\ UNCHANGED <<attempts, age, workerVars, effects, requeues>>

Names(a, c) == c \in {ContactOf[a], PayloadOf[a]} \ {None}

\* What the erasure of c deletes; own is the row that runs the erasure, if any.
Purged(c, own) == {a \in Action \ own : Names(a, c) /\ Exists(a) /\ status[a] # "running"}

\* An erasure inside a web request, under the contact's lock.
PurgeForContact(c) ==
    LET gone == Purged(c, {})
    IN  /\ lock[c] = None
        /\ gone # {}
        /\ status' = [a \in Action |-> IF a \in gone THEN "deleted" ELSE status[a]]
        /\ delay' = [a \in Action |-> IF a \in gone THEN 0 ELSE delay[a]]
        /\ UNCHANGED <<attempts, age, workerVars, effects, requeues>>

RetryableStatuses == {"failed", "pending"}

RetryNow(a) ==
    /\ requeues < MaxRequeues
    /\ status[a] \in RetryableStatuses
    /\ status' = [status EXCEPT ![a] = "pending"]
    /\ attempts' = [attempts EXCEPT ![a] = 0]
    /\ delay' = [delay EXCEPT ![a] = 0]
    /\ requeues' = requeues + 1
    /\ UNCHANGED <<age, workerVars, effects>>

-----------------------------------------------------------------------------
(* The worker.                                                             *)

\* The batch goes on with the row a dropped from w's hands.
Drop(w, a) ==
    /\ held' = [held EXCEPT ![w][a] = 0]
    /\ current' = [current EXCEPT ![w] = None]
    /\ phase' = [phase EXCEPT ![w] = IF Held(w) \subseteq {a} THEN "idle" ELSE "between"]

Charged(S) == [a \in Action |-> IF a \in S THEN attempts[a] + 1 ELSE attempts[a]]

\* SKIP LOCKED may pass over rows, so any due rows up to the limit may come back.
ClaimBatch(w, S) ==
    /\ phase[w] = "idle"
    /\ S # {}
    /\ Cardinality(S) <= BatchSize
    /\ \A a \in S : Due(a)
    /\ status' = [a \in Action |-> IF a \in S THEN "running" ELSE status[a]]
    /\ attempts' = Charged(S)
    /\ age' = [a \in Action |-> IF a \in S THEN 0 ELSE age[a]]
    /\ held' = [held EXCEPT ![w] = [a \in Action |-> IF a \in S THEN attempts[a] + 1 ELSE 0]]
    /\ phase' = [phase EXCEPT ![w] = "claimed"]
    /\ UNCHANGED <<delay, current, spent, lock, effects, requeues>>

\* _mark_alive stamps the row whatever has become of it, in its own commit.
StartAction(w, a) ==
    /\ phase[w] \in {"claimed", "between"}
    /\ held[w][a] > 0
    /\ a \notin Unhandled
    /\ age' = [age EXCEPT ![a] = 0]
    /\ current' = [current EXCEPT ![w] = a]
    /\ phase' = [phase EXCEPT ![w] = "locking"]
    /\ UNCHANGED <<status, attempts, delay, held, spent, lock, effects, requeues>>

\* Mutant: the lock is tried and the answer ignored.
LockFreeOrNot(c) == TRUE

LockFree(c) == c # None => lock[c] = None

AcquireLock(w) ==
    /\ phase[w] = "locking"
    /\ LET c == ContactOf[current[w]]
       IN  /\ LockFree(c)
           /\ lock' = [k \in Contact |-> IF k = c THEN w ELSE lock[k]]
    /\ phase' = [phase EXCEPT ![w] = "handler"]
    /\ spent' = [spent EXCEPT ![w] = 0]
    /\ UNCHANGED <<rowVars, held, current, effects, requeues>>

ReleaseLocks(w) == lock' = [c \in Contact |-> IF lock[c] = w THEN None ELSE lock[c]]

\* The rows w's handler deletes: those of the contact, when its row is an erasure.
Erased(w) == {b \in Purged(ContactOf[current[w]], {current[w]}) : current[w] \in Erasing}

\* The handler's writes and _mark_done commit together, whatever the row says now.
Finish(w) ==
    LET a == current[w]
    IN  /\ phase[w] = "handler"
        /\ Exists(a)
        /\ status' = [b \in Action |-> IF b = a THEN "done"
                                       ELSE IF b \in Erased(w) THEN "deleted" ELSE status[b]]
        /\ age' = [age EXCEPT ![a] = 0]
        /\ effects' = [effects EXCEPT ![a] = @ + 1]
        /\ delay' = [b \in Action |-> IF b \in Erased(w) \cup {a} THEN 0 ELSE delay[b]]
        /\ Drop(w, a)
        /\ ReleaseLocks(w)
        /\ spent' = [spent EXCEPT ![w] = 0]
        /\ UNCHANGED <<attempts, requeues>>

\* The lock, the handler or the save of a deleted row raises: all is rolled back.
Raise(w) ==
    /\ phase[w] \in {"locking", "handler"}
    /\ phase' = [phase EXCEPT ![w] = "failing"]
    /\ ReleaseLocks(w)
    /\ spent' = [spent EXCEPT ![w] = 0]
    /\ UNCHANGED <<rowVars, held, current, effects, requeues>>

\* The save of status and run_at by primary key, from the in-memory copy.
WriteFailure(w, a, permanent) ==
    LET dead == permanent \/ held[w][a] >= MaxAttempts
    IN  /\ Exists(a)
        /\ status' = [status EXCEPT ![a] = IF dead THEN "failed" ELSE "pending"]
        /\ delay' = [delay EXCEPT ![a] = IF dead THEN 0 ELSE Backoff]
        /\ age' = [age EXCEPT ![a] = 0]
        /\ Drop(w, a)
        /\ UNCHANGED <<attempts, spent, lock, effects, requeues>>

RecordFailure(w) == phase[w] = "failing" /\ WriteFailure(w, current[w], FALSE)

\* No handler is registered for the row's type: a permanent failure.
StartUnhandled(w, a) ==
    /\ phase[w] \in {"claimed", "between"}
    /\ held[w][a] > 0
    /\ a \in Unhandled
    /\ WriteFailure(w, a, TRUE)

\* The bookkeeping itself raises (a dropped connection, a deleted row): the row
\* is left as it is and the batch goes on.
Strand(w, a) ==
    /\ held[w][a] > 0
    /\ \/ phase[w] \in {"claimed", "between"}
       \/ phase[w] = "failing" /\ a = current[w]
    /\ Drop(w, a)
    /\ UNCHANGED <<rowVars, spent, lock, effects, requeues>>

Returnable(w) == {a \in Held(w) : status[a] = "running"}

\* The drain's budget is spent: unstarted rows go back, their attempt refunded.
ReleaseRest(w) ==
    LET back == Returnable(w)
    IN  /\ phase[w] = "between"
        /\ status' = [a \in Action |-> IF a \in back THEN "pending" ELSE status[a]]
        /\ attempts' = [a \in Action |-> IF a \in back THEN attempts[a] - 1 ELSE attempts[a]]
        /\ age' = [a \in Action |-> IF a \in back THEN 0 ELSE age[a]]
        /\ held' = [held EXCEPT ![w] = [a \in Action |-> 0]]
        /\ phase' = [phase EXCEPT ![w] = "idle"]
        /\ UNCHANGED <<delay, current, spent, lock, effects, requeues>>

\* The process dies; Postgres rolls its transaction back and frees its lock.
Crash(w) ==
    /\ phase[w] # "idle"
    /\ phase' = [phase EXCEPT ![w] = "idle"]
    /\ held' = [held EXCEPT ![w] = [a \in Action |-> 0]]
    /\ current' = [current EXCEPT ![w] = None]
    /\ spent' = [spent EXCEPT ![w] = 0]
    /\ ReleaseLocks(w)
    /\ UNCHANGED <<rowVars, effects, requeues>>

-----------------------------------------------------------------------------
(* Housekeeping and time.                                                  *)

\* Mutant: the budget of an abandoned row is not looked at.
SweptUncounted(a) == "pending"

\* Mutant: only rows out of attempts are moved.
SweptIfExhausted(a) == IF attempts[a] >= MaxAttempts THEN "failed" ELSE "running"

SweptTo(a) == IF attempts[a] >= MaxAttempts THEN "failed" ELSE "pending"

ResetZombieActions ==
    /\ \E a \in Action : Abandoned(a)
    /\ status' = [a \in Action |-> IF Abandoned(a) THEN SweptTo(a) ELSE status[a]]
    /\ age' = [a \in Action |-> IF Abandoned(a) THEN 0 ELSE age[a]]
    /\ UNCHANGED <<attempts, delay, workerVars, effects, requeues>>

Waiting(w) == /\ phase[w] = "locking"
              /\ ContactOf[current[w]] # None
              /\ lock[ContactOf[current[w]]] # None

\* Time passes only as far as the slowness bounds on live workers allow.
Tick ==
    /\ \A w \in Worker :
          /\ Punctual => phase[w] \in {"idle", "handler"} \/ Waiting(w)
          /\ phase[w] = "handler" => spent[w] < HandlerLimit
          /\ \A a \in Held(w) : status[a] = "running" => age[a] < HoldLimit
    /\ age' = [a \in Action |->
                 IF status[a] = "running" /\ age[a] <= ZombieAfter THEN age[a] + 1 ELSE age[a]]
    /\ delay' = [a \in Action |-> IF delay[a] > 0 THEN delay[a] - 1 ELSE 0]
    /\ spent' = [w \in Worker |-> IF phase[w] = "handler" THEN spent[w] + 1 ELSE spent[w]]
    /\ UNCHANGED <<status, attempts, phase, held, current, lock, effects, requeues>>

Owner == \/ \E a \in Action, d \in 0..Backoff : Schedule(a, d)
         \/ \E a \in Action : CancelPending(a) \/ RetryNow(a)
         \/ \E c \in Contact : PurgeForContact(c)

Work(w) == \/ \E a \in Action : StartAction(w, a) \/ StartUnhandled(w, a) \/ Strand(w, a)
           \/ AcquireLock(w) \/ Finish(w) \/ Raise(w) \/ RecordFailure(w) \/ ReleaseRest(w)

Claim(w) == \E S \in SUBSET Action : ClaimBatch(w, S)

Next == \/ Owner
        \/ \E w \in Worker : Claim(w) \/ Work(w) \/ Crash(w)
        \/ ResetZombieActions
        \/ Tick

Spec == Init /\ [][Next]_vars

\* Workers keep polling, handlers return, time passes, the hourly sweep runs.
\* Nothing obliges an owner to act, or a worker to crash.
Fairness == /\ \A w \in Worker : WF_vars(Claim(w)) /\ WF_vars(Work(w))
            /\ WF_vars(ResetZombieActions)
            /\ WF_vars(Tick)

FairSpec == Spec /\ Fairness

-----------------------------------------------------------------------------
(* Properties.                                                             *)

TypeOK ==
    /\ status \in [Action -> Status]
    /\ attempts \in [Action -> Nat]
    /\ age \in [Action -> Nat]
    /\ delay \in [Action -> Nat]
    /\ phase \in [Worker -> Phase]
    /\ held \in [Worker -> [Action -> Nat]]
    /\ current \in [Worker -> Action \cup {None}]
    /\ spent \in [Worker -> Nat]
    /\ lock \in [Contact -> Worker \cup {None}]
    /\ effects \in [Action -> Nat]
    /\ requeues \in Nat

(***************************************************************************)
(* Two handlers never run at once for the same contact, however slow or    *)
(* stale the workers are: the advisory lock of process_action is what       *)
(* every write to an execution relies on (SPEC 9.6).                       *)
(***************************************************************************)
ContactExclusive ==
    \A w1, w2 \in Worker :
        /\ w1 # w2 /\ phase[w1] = "handler" /\ phase[w2] = "handler"
        /\ ContactOf[current[w1]] # None
        => ContactOf[current[w1]] # ContactOf[current[w2]]

(***************************************************************************)
(* A running row has been claimed at least once since its counter was last *)
(* zero, so the refund in _release never takes the unsigned attempts column *)
(* below zero, even when the row now belongs to a different worker.        *)
(***************************************************************************)
RefundsStayCovered == \A a \in Action : status[a] = "running" => attempts[a] >= 1

(***************************************************************************)
(* A claimed row is in one live worker's hands only, is still running and  *)
(* still has the attempts count the worker copied: the overwrites by       *)
(* primary key in _mark_done and _record_failure write what they meant to. *)
(***************************************************************************)
ClaimsExclusive ==
    \A w \in Worker, a \in Action :
        held[w][a] > 0 =>
            /\ status[a] = "running"
            /\ attempts[a] = held[w][a]
            /\ \A v \in Worker \ {w} : held[v][a] = 0

(***************************************************************************)
(* The retry budget is neither exceeded nor cut short: a row that may still *)
(* be claimed has an attempt left, one that failed had used them all or has *)
(* no handler, and every refund gives back an attempt that was charged.     *)
(***************************************************************************)
BudgetRespected ==
    /\ RefundsStayCovered
    /\ \A a \in Action :
        /\ attempts[a] <= MaxAttempts
        /\ status[a] = "pending" => attempts[a] < MaxAttempts
        /\ status[a] = "failed" => attempts[a] >= MaxAttempts \/ a \in Unhandled

\* A handler's work is committed at most once per row (test_concurrency.py,
\* TestExactlyOnce, and the docstring of _mark_alive).
RunsAtMostOnce == \A a \in Action : effects[a] <= 1

\* ActionQueue does what ActionLifecycle promises: no row leaves done or
\* cancelled, and work is committed only by taking a row from running to done.
Lifecycle == INSTANCE ActionLifecycle
ImplementsLifecycle == Lifecycle!Spec

(***************************************************************************)
(* No work is lost: a scheduled row is eventually done, failed, cancelled  *)
(* or deleted, whatever crashes and lost bookkeeping come in between.      *)
(***************************************************************************)
EventuallySettled ==
    \A a \in Action : status[a] = "pending" ~> status[a] \in {"done", "failed", "cancelled", "deleted"}
=============================================================================

-------------------------- MODULE ActionQueueProofs --------------------------
(***************************************************************************)
(* Theorems about ActionQueue for every number of workers, rows, contacts   *)
(* and attempts, every batch size and every delay.                          *)
(***************************************************************************)
EXTENDS ActionQueue, TLAPS

\* A worker inside process_action has a row there.
Processing(w) == phase[w] \in {"locking", "handler", "failing"}
HasCurrent == \A w \in Worker : Processing(w) => current[w] \in Action

(***************************************************************************)
(* TypeOK alone is not inductive: _release subtracts one from attempts and *)
(* only a running row's counter is known to be positive; a finished handler *)
(* counts an effect for current[w], which must be a row.                    *)
(***************************************************************************)
TypeInv == TypeOK /\ RefundsStayCovered /\ HasCurrent

LEMMA NextCases ==
    ASSUME Next
    PROVE  \/ \E a \in Action, d \in 0..Backoff : Schedule(a, d)
           \/ \E a \in Action : CancelPending(a) \/ RetryNow(a)
           \/ \E c \in Contact : PurgeForContact(c)
           \/ \E w \in Worker, S \in SUBSET Action : ClaimBatch(w, S)
           \/ \E w \in Worker, a \in Action :
                 StartAction(w, a) \/ StartUnhandled(w, a) \/ Strand(w, a)
           \/ \E w \in Worker :
                 AcquireLock(w) \/ Finish(w) \/ Raise(w) \/ RecordFailure(w) \/ ReleaseRest(w) \/ Crash(w)
           \/ ResetZombieActions
           \/ Tick
BY DEF Next, Owner, Work, Claim

\* A finishing handler completes its own row and deletes only rows that are not running.
LEMMA FinishMoves ==
    ASSUME TypeOK, NEW w \in Worker, Finish(w), current[w] \in Action
    PROVE  /\ status' \in [Action -> Status]
           /\ delay' \in [Action -> Nat]
           /\ status'[current[w]] = "done"
           /\ \A b \in Action \ {current[w]} :
                 \/ status'[b] = status[b]
                 \/ /\ status[b] \in {"pending", "done", "failed", "cancelled"}
                    /\ status'[b] = "deleted"
<1>1. /\ status' = [b \in Action |-> IF b = current[w] THEN "done"
                                    ELSE IF b \in Erased(w) THEN "deleted" ELSE status[b]]
      /\ delay' = [b \in Action |-> IF b \in Erased(w) \cup {current[w]} THEN 0 ELSE delay[b]]
  BY DEF Finish
<1>2. \A b \in Erased(w) : status[b] \in {"pending", "done", "failed", "cancelled"}
  BY DEF Erased, Purged, Exists, TypeOK, Status
<1>3. QED
  BY <1>1, <1>2 DEF TypeOK, Status

\* The types hold initially and every step keeps them.
LEMMA TypeInvInductive ==
    /\ Init => TypeInv
    /\ TypeInv /\ [Next]_vars => TypeInv'
<1> USE QueueAssumption DEF TypeInv, TypeOK, RefundsStayCovered, HasCurrent, Processing, Status, Phase
<1>1. Init => TypeInv
  BY DEF Init
<1>2. ASSUME TypeInv, UNCHANGED vars PROVE TypeInv'
  BY <1>2 DEF vars, rowVars, workerVars
<1>3. ASSUME TypeInv, Next PROVE TypeInv'
  <2> USE <1>3 DEF rowVars, workerVars
  <2>1. ASSUME NEW a \in Action, NEW d \in 0..Backoff, Schedule(a, d) PROVE TypeInv'
    BY <2>1 DEF Schedule
  <2>2. ASSUME NEW a \in Action, CancelPending(a) PROVE TypeInv'
    BY <2>2 DEF CancelPending, Cancellable
  <2>3. ASSUME NEW a \in Action, RetryNow(a) PROVE TypeInv'
    BY <2>3 DEF RetryNow, RetryableStatuses
  <2>4. ASSUME NEW c \in Contact, PurgeForContact(c) PROVE TypeInv'
    BY <2>4 DEF PurgeForContact, Purged, Exists
  <2>5. ASSUME NEW w \in Worker, NEW S \in SUBSET Action, ClaimBatch(w, S) PROVE TypeInv'
    BY <2>5 DEF ClaimBatch, Charged
  <2>6. ASSUME NEW w \in Worker, NEW a \in Action, StartAction(w, a) PROVE TypeInv'
    BY <2>6 DEF StartAction
  <2>7. ASSUME NEW w \in Worker, NEW a \in Action, StartUnhandled(w, a) PROVE TypeInv'
    BY <2>7 DEF StartUnhandled, WriteFailure, Drop
  <2>8. ASSUME NEW w \in Worker, NEW a \in Action, Strand(w, a) PROVE TypeInv'
    BY <2>8 DEF Strand, Drop
  <2>9. ASSUME NEW w \in Worker, AcquireLock(w) PROVE TypeInv'
    BY <2>9 DEF AcquireLock
  <2>10. ASSUME NEW w \in Worker, Finish(w) PROVE TypeInv'
    <3>1. current[w] \in Action
      BY <2>10 DEF Finish
    <3>2. effects' \in [Action -> Nat] /\ age' \in [Action -> Nat] /\ UNCHANGED <<attempts, requeues>>
      BY <2>10, <3>1 DEF Finish
    <3>3. /\ held' \in [Worker -> [Action -> Nat]] /\ phase' \in [Worker -> Phase]
          /\ current' \in [Worker -> Action \cup {None}] /\ spent' \in [Worker -> Nat]
          /\ lock' \in [Contact -> Worker \cup {None}]
      BY <2>10 DEF Finish, Drop, ReleaseLocks
    <3>4. /\ status' \in [Action -> Status] /\ delay' \in [Action -> Nat]
          /\ \A a \in Action : status'[a] = "running" => status[a] = "running"
      BY <2>10, <3>1, FinishMoves
    <3>5. HasCurrent'
      BY <2>10 DEF Finish, Drop
    <3>6. QED
      BY <3>2, <3>3, <3>4, <3>5
  <2>11. ASSUME NEW w \in Worker, Raise(w) PROVE TypeInv'
    BY <2>11 DEF Raise, ReleaseLocks
  <2>12. ASSUME NEW w \in Worker, RecordFailure(w) PROVE TypeInv'
    BY <2>12 DEF RecordFailure, WriteFailure, Drop
  <2>13. ASSUME NEW w \in Worker, ReleaseRest(w) PROVE TypeInv'
    BY <2>13 DEF ReleaseRest, Returnable, Held
  <2>14. ASSUME NEW w \in Worker, Crash(w) PROVE TypeInv'
    BY <2>14 DEF Crash, ReleaseLocks
  <2>15. ASSUME ResetZombieActions PROVE TypeInv'
    BY <2>15 DEF ResetZombieActions, SweptTo, Abandoned
  <2>16. ASSUME Tick PROVE TypeInv'
    BY <2>16 DEF Tick
  <2>17. QED
    BY NextCases, <2>1, <2>2, <2>3, <2>4, <2>5, <2>6, <2>7, <2>8, <2>9, <2>10, <2>11,
       <2>12, <2>13, <2>14, <2>15, <2>16
<1>4. QED
  BY <1>1, <1>2, <1>3

(***************************************************************************)
(* The queue is type correct, and the unsigned attempts column is never    *)
(* taken below zero: what _release relies on.                              *)
(***************************************************************************)
THEOREM TypeCorrect == Spec => [](TypeOK /\ RefundsStayCovered)
BY TypeInvInductive, PTL DEF Spec, TypeInv

(***************************************************************************)
(* The refund of _release never takes the unsigned counter below zero, for  *)
(* any number of workers, also when live workers are slower than the zombie *)
(* threshold and their rows are swept and claimed again under them.         *)
(***************************************************************************)
THEOREM RefundsAreCovered == Spec => []RefundsStayCovered
BY TypeInvInductive, PTL DEF Spec, TypeInv

-----------------------------------------------------------------------------
(***************************************************************************)
(* The worker inside a handler holds the advisory lock of its row's        *)
(* contact.  This is inductive by itself: a lock is only taken when free,  *)
(* and a worker only ever frees the locks that are its own.                *)
(***************************************************************************)
LockHeld == \A w \in Worker :
    phase[w] = "handler" /\ ContactOf[current[w]] # None => lock[ContactOf[current[w]]] = w

LEMMA LockHeldInductive ==
    /\ Init => LockHeld
    /\ TypeInv /\ LockHeld /\ [Next]_vars => LockHeld'
<1> USE QueueAssumption DEF TypeInv, TypeOK, HasCurrent, Processing, LockHeld, Phase
<1>1. Init => LockHeld
  BY DEF Init
<1>2. ASSUME LockHeld, UNCHANGED vars PROVE LockHeld'
  BY <1>2 DEF vars, rowVars, workerVars
<1>3. ASSUME TypeInv, LockHeld, Next PROVE LockHeld'
  <2> USE <1>3 DEF rowVars, workerVars
  <2>1. ASSUME \/ \E a \in Action, d \in 0..Backoff : Schedule(a, d)
               \/ \E a \in Action : CancelPending(a) \/ RetryNow(a)
               \/ \E c \in Contact : PurgeForContact(c)
               \/ ResetZombieActions
               \/ Tick
        PROVE  LockHeld'
    BY <2>1 DEF Schedule, CancelPending, RetryNow, PurgeForContact, ResetZombieActions, SweptTo, Tick
  <2>2. ASSUME NEW w \in Worker, NEW S \in SUBSET Action, ClaimBatch(w, S) PROVE LockHeld'
    BY <2>2 DEF ClaimBatch, Charged
  <2>3. ASSUME NEW w \in Worker, NEW a \in Action, StartAction(w, a) PROVE LockHeld'
    BY <2>3 DEF StartAction
  <2>4. ASSUME NEW w \in Worker, NEW a \in Action, StartUnhandled(w, a) \/ Strand(w, a)
        PROVE  LockHeld'
    BY <2>4 DEF StartUnhandled, Strand, WriteFailure, Drop
  <2>5. ASSUME NEW w \in Worker, AcquireLock(w) PROVE LockHeld'
    BY <2>5 DEF AcquireLock, LockFree
  <2>6. ASSUME NEW w \in Worker, Finish(w) PROVE LockHeld'
    BY <2>6 DEF Finish, Drop, ReleaseLocks
  <2>7. ASSUME NEW w \in Worker, Raise(w) PROVE LockHeld'
    BY <2>7 DEF Raise, ReleaseLocks
  <2>8. ASSUME NEW w \in Worker, RecordFailure(w) PROVE LockHeld'
    BY <2>8 DEF RecordFailure, WriteFailure, Drop
  <2>9. ASSUME NEW w \in Worker, ReleaseRest(w) PROVE LockHeld'
    BY <2>9 DEF ReleaseRest
  <2>10. ASSUME NEW w \in Worker, Crash(w) PROVE LockHeld'
    BY <2>10 DEF Crash, ReleaseLocks
  <2>11. QED
    BY NextCases, <2>1, <2>2, <2>3, <2>4, <2>5, <2>6, <2>7, <2>8, <2>9, <2>10
<1>4. QED
  BY <1>1, <1>2, <1>3

\* Two workers that both hold one contact's lock are the same worker.
LEMMA LockExcludes == TypeInv /\ LockHeld => ContactExclusive
BY QueueAssumption DEF TypeInv, TypeOK, HasCurrent, Processing, LockHeld, ContactExclusive

(***************************************************************************)
(* No two handlers run at once for one contact.  Nothing is assumed about  *)
(* the speed of workers: it holds through sweeps of live rows and crashes. *)
(***************************************************************************)
THEOREM ContactsAreExclusive == Spec => []ContactExclusive
BY TypeInvInductive, LockHeldInductive, LockExcludes, PTL DEF Spec

-----------------------------------------------------------------------------
(***************************************************************************)
(* As long as a live worker never keeps a claimed row unstamped for longer *)
(* than ZombieAfter, the sweep finds only rows no worker holds.  Then a    *)
(* worker's copy of a row stays accurate, which is what lets it overwrite  *)
(* the row by primary key.                                                 *)
(***************************************************************************)
Prompt == HoldLimit <= ZombieAfter

ProcessingHolds == \A w \in Worker : Processing(w) => held[w][current[w]] > 0
HeldIsFresh     == \A w \in Worker, a \in Action : held[w][a] > 0 => age[a] <= HoldLimit
ClaimInv        == ProcessingHolds /\ HeldIsFresh /\ ClaimsExclusive

LEMMA ClaimInvInductive ==
    ASSUME Prompt
    PROVE  /\ Init => ClaimInv
           /\ TypeInv /\ ClaimInv /\ [Next]_vars => ClaimInv'
<1> USE QueueAssumption DEF TypeInv, TypeOK, HasCurrent, Processing, Phase,
                            ClaimInv, ProcessingHolds, HeldIsFresh, ClaimsExclusive
<1>1. Init => ClaimInv
  BY DEF Init
<1>2. ASSUME ClaimInv, UNCHANGED vars PROVE ClaimInv'
  BY <1>2 DEF vars, rowVars, workerVars
<1>3. ASSUME TypeInv, ClaimInv, Next PROVE ClaimInv'
  <2> USE <1>3 DEF rowVars, workerVars
  <2>1. ASSUME NEW a \in Action, NEW d \in 0..Backoff, Schedule(a, d) PROVE ClaimInv'
    BY <2>1 DEF Schedule
  <2>2. ASSUME NEW a \in Action, CancelPending(a) \/ RetryNow(a) PROVE ClaimInv'
    BY <2>2 DEF CancelPending, RetryNow, Cancellable, RetryableStatuses
  <2>3. ASSUME NEW c \in Contact, PurgeForContact(c) PROVE ClaimInv'
    BY <2>3 DEF PurgeForContact, Purged
  <2>4. ASSUME NEW w \in Worker, NEW S \in SUBSET Action, ClaimBatch(w, S) PROVE ClaimInv'
    BY <2>4 DEF ClaimBatch, Charged, Due
  <2>5. ASSUME NEW w \in Worker, NEW a \in Action, StartAction(w, a) PROVE ClaimInv'
    BY <2>5 DEF StartAction
  <2>6. ASSUME NEW w \in Worker, NEW a \in Action, StartUnhandled(w, a) PROVE ClaimInv'
    BY <2>6 DEF StartUnhandled, WriteFailure, Drop
  <2>7. ASSUME NEW w \in Worker, NEW a \in Action, Strand(w, a) PROVE ClaimInv'
    BY <2>7 DEF Strand, Drop
  <2>8. ASSUME NEW w \in Worker, AcquireLock(w) \/ Raise(w) PROVE ClaimInv'
    BY <2>8 DEF AcquireLock, Raise
  <2>9. ASSUME NEW w \in Worker, Finish(w) PROVE ClaimInv'
    <3>1. current[w] \in Action /\ held[w][current[w]] > 0
      BY <2>9 DEF Finish
    <3>2. \A b \in Action \ {current[w]} : status[b] = "running" => status'[b] = "running"
      BY <2>9, <3>1, FinishMoves
    <3>3. /\ attempts' = attempts /\ age' = [age EXCEPT ![current[w]] = 0]
          /\ held' = [held EXCEPT ![w][current[w]] = 0]
          /\ current' = [current EXCEPT ![w] = None]
          /\ \A v \in Worker \ {w} : phase'[v] = phase[v]
          /\ phase'[w] \in {"idle", "between"}
      BY <2>9 DEF Finish, Drop
    <3>4. QED
      BY <3>1, <3>2, <3>3
  <2>10. ASSUME NEW w \in Worker, RecordFailure(w) PROVE ClaimInv'
    BY <2>10 DEF RecordFailure, WriteFailure, Drop
  <2>11. ASSUME NEW w \in Worker, ReleaseRest(w) PROVE ClaimInv'
    BY <2>11 DEF ReleaseRest, Returnable, Held
  <2>12. ASSUME NEW w \in Worker, Crash(w) PROVE ClaimInv'
    BY <2>12 DEF Crash
  <2>13. ASSUME ResetZombieActions PROVE ClaimInv'
    BY <2>13, Prompt DEF ResetZombieActions, SweptTo, Abandoned, Prompt
  <2>14. ASSUME Tick PROVE ClaimInv'
    BY <2>14 DEF Tick, Held
  <2>15. QED
    BY NextCases, <2>1, <2>2, <2>3, <2>4, <2>5, <2>6, <2>7, <2>8, <2>9, <2>10, <2>11,
       <2>12, <2>13, <2>14
<1>4. QED
  BY <1>1, <1>2, <1>3

(***************************************************************************)
(* Under that promptness no row is ever in the hands of two workers, and   *)
(* what a worker remembers of a row is what the row says.                  *)
(***************************************************************************)
THEOREM ClaimsAreExclusive ==
    ASSUME Prompt
    PROVE  Spec => []ClaimsExclusive
<1>1. ClaimInv => ClaimsExclusive
  BY DEF ClaimInv
<1>2. QED
  BY <1>1, TypeInvInductive, ClaimInvInductive, PTL DEF Spec

-----------------------------------------------------------------------------
(***************************************************************************)
(* The budget invariant needs one more fact: a row not scheduled yet has   *)
(* used no attempt.  Accurate copies carry it through _record_failure,     *)
(* which compares the worker's count, not the row's.                       *)
(***************************************************************************)
BudgetInv == BudgetRespected /\ \A a \in Action : status[a] = "unscheduled" => attempts[a] = 0

LEMMA BudgetInvInductive ==
    ASSUME Prompt
    PROVE  /\ Init => BudgetInv
           /\ TypeInv /\ ClaimInv /\ BudgetInv /\ [Next]_vars => BudgetInv'
<1> USE QueueAssumption DEF TypeInv, TypeOK, HasCurrent, RefundsStayCovered, Processing,
                            Status, Phase, ClaimInv, ProcessingHolds, ClaimsExclusive,
                            BudgetInv, BudgetRespected
<1>1. Init => BudgetInv
  BY DEF Init
<1>2. ASSUME BudgetInv, UNCHANGED vars PROVE BudgetInv'
  BY <1>2 DEF vars, rowVars, workerVars
<1>3. ASSUME TypeInv, ClaimInv, BudgetInv, Next PROVE BudgetInv'
  <2> USE <1>3 DEF rowVars, workerVars
  <2>1. ASSUME NEW a \in Action, NEW d \in 0..Backoff, Schedule(a, d) PROVE BudgetInv'
    BY <2>1 DEF Schedule
  <2>2. ASSUME NEW a \in Action, CancelPending(a) \/ RetryNow(a) PROVE BudgetInv'
    <3>1. 0 < MaxAttempts /\ 0 <= MaxAttempts
      OBVIOUS
    <3>2. CASE CancelPending(a)
      BY <3>2 DEF CancelPending, Cancellable
    <3>3. CASE RetryNow(a)
      BY <3>1, <3>3 DEF RetryNow, RetryableStatuses
    <3>4. QED
      BY <2>2, <3>2, <3>3
  <2>3. ASSUME NEW c \in Contact, PurgeForContact(c) PROVE BudgetInv'
    BY <2>3 DEF PurgeForContact, Purged
  <2>4. ASSUME NEW w \in Worker, NEW S \in SUBSET Action, ClaimBatch(w, S) PROVE BudgetInv'
    BY <2>4 DEF ClaimBatch, Charged, Due
  <2>5. ASSUME NEW w \in Worker, NEW a \in Action, StartUnhandled(w, a) PROVE BudgetInv'
    BY <2>5 DEF StartUnhandled, WriteFailure
  <2>6. ASSUME NEW w \in Worker, NEW a \in Action, StartAction(w, a) \/ Strand(w, a)
        PROVE  BudgetInv'
    BY <2>6 DEF StartAction, Strand
  <2>7. ASSUME NEW w \in Worker, AcquireLock(w) \/ Raise(w) \/ Crash(w) PROVE BudgetInv'
    BY <2>7 DEF AcquireLock, Raise, Crash
  <2>8. ASSUME NEW w \in Worker, Finish(w) PROVE BudgetInv'
    BY <2>8, FinishMoves DEF Finish
  <2>9. ASSUME NEW w \in Worker, RecordFailure(w) PROVE BudgetInv'
    BY <2>9 DEF RecordFailure, WriteFailure
  <2>10. ASSUME NEW w \in Worker, ReleaseRest(w) PROVE BudgetInv'
    BY <2>10 DEF ReleaseRest, Returnable, Held
  <2>11. ASSUME ResetZombieActions PROVE BudgetInv'
    BY <2>11 DEF ResetZombieActions, SweptTo, Abandoned
  <2>12. ASSUME Tick PROVE BudgetInv'
    BY <2>12 DEF Tick
  <2>13. QED
    BY NextCases, <2>1, <2>2, <2>3, <2>4, <2>5, <2>6, <2>7, <2>8, <2>9, <2>10, <2>11, <2>12
<1>4. QED
  BY <1>1, <1>2, <1>3

(***************************************************************************)
(* With prompt workers a row never gets more attempts than max_attempts,   *)
(* and never fails for want of attempts while it has one left.             *)
(***************************************************************************)
THEOREM BudgetIsRespected ==
    ASSUME Prompt
    PROVE  Spec => []BudgetRespected
<1>1. BudgetInv => BudgetRespected
  BY DEF BudgetInv
<1>2. QED
  BY <1>1, TypeInvInductive, ClaimInvInductive, BudgetInvInductive, PTL DEF Spec

-----------------------------------------------------------------------------
\* Every step of the queue is a step of its abstract lifecycle, or a stutter.
LEMMA StepImplementsLifecycle ==
    TypeInv /\ ClaimInv /\ TypeInv' /\ [Next]_vars => [Lifecycle!Next]_Lifecycle!vars
<1> USE QueueAssumption
    DEF TypeInv, TypeOK, HasCurrent, Processing, Phase, ClaimInv, ProcessingHolds, ClaimsExclusive,
        Lifecycle!vars, Lifecycle!Next, Lifecycle!Stays, Lifecycle!Moved,
        Lifecycle!Completed, Lifecycle!Moves, Lifecycle!Terminal, Lifecycle!Status, Status
<1>1. ASSUME UNCHANGED vars PROVE UNCHANGED Lifecycle!vars
  BY <1>1 DEF vars, rowVars
<1>2. ASSUME TypeInv, ClaimInv, TypeInv', Next PROVE [Lifecycle!Next]_Lifecycle!vars
  <2> USE <1>2 DEF rowVars, workerVars
  <2>1. ASSUME NEW a \in Action, NEW d \in 0..Backoff, Schedule(a, d) PROVE Lifecycle!Next
    BY <2>1 DEF Schedule
  <2>2. ASSUME NEW a \in Action, CancelPending(a) PROVE Lifecycle!Next
    BY <2>2 DEF CancelPending, Cancellable
  <2>3. ASSUME NEW a \in Action, RetryNow(a) PROVE Lifecycle!Next
    BY <2>3 DEF RetryNow, RetryableStatuses
  <2>4. ASSUME NEW c \in Contact, PurgeForContact(c) PROVE Lifecycle!Next
    BY <2>4 DEF PurgeForContact, Purged, Exists
  <2>5. ASSUME NEW w \in Worker, NEW S \in SUBSET Action, ClaimBatch(w, S)
        PROVE  Lifecycle!Next
    BY <2>5 DEF ClaimBatch, Charged, Due
  <2>6. ASSUME NEW w \in Worker, NEW a \in Action, StartUnhandled(w, a) PROVE Lifecycle!Next
    BY <2>6 DEF StartUnhandled, WriteFailure
  <2>7. ASSUME NEW w \in Worker, NEW a \in Action, StartAction(w, a) \/ Strand(w, a)
        PROVE  UNCHANGED Lifecycle!vars
    BY <2>7 DEF StartAction, Strand
  <2>8. ASSUME NEW w \in Worker, AcquireLock(w) \/ Raise(w) \/ Crash(w)
        PROVE  UNCHANGED Lifecycle!vars
    BY <2>8 DEF AcquireLock, Raise, Crash
  <2>9. ASSUME NEW w \in Worker, Finish(w) PROVE Lifecycle!Next
    <3>1. current[w] \in Action /\ status[current[w]] = "running"
      BY <2>9 DEF Finish
    <3>2. effects' = [effects EXCEPT ![current[w]] = @ + 1]
      BY <2>9 DEF Finish
    <3>3. Lifecycle!Completed(current[w])
      BY <2>9, <3>1, <3>2, FinishMoves
    <3>4. ASSUME NEW b \in Action \ {current[w]} PROVE Lifecycle!Stays(b) \/ Lifecycle!Moved(b)
      BY <2>9, <3>1, <3>2, FinishMoves
    <3>5. QED
      BY <3>1, <3>3, <3>4
  <2>10. ASSUME NEW w \in Worker, RecordFailure(w) PROVE Lifecycle!Next
    BY <2>10 DEF RecordFailure, WriteFailure
  <2>11. ASSUME NEW w \in Worker, ReleaseRest(w) PROVE Lifecycle!Next
    BY <2>11 DEF ReleaseRest, Returnable, Held
  <2>12. ASSUME ResetZombieActions PROVE Lifecycle!Next
    BY <2>12 DEF ResetZombieActions, SweptTo, Abandoned
  <2>13. ASSUME Tick PROVE UNCHANGED Lifecycle!vars
    BY <2>13 DEF Tick
  <2>14. QED
    BY NextCases, <2>1, <2>2, <2>3, <2>4, <2>5, <2>6, <2>7, <2>8, <2>9, <2>10, <2>11,
       <2>12, <2>13
<1>3. QED
  BY <1>1, <1>2

(***************************************************************************)
(* With prompt workers the queue implements the lifecycle that             *)
(* ActionStatus documents: no terminal row moves but by an operator or an  *)
(* erasure, and work commits exactly when a running row becomes done.      *)
(***************************************************************************)
THEOREM QueueImplementsLifecycle ==
    ASSUME Prompt
    PROVE  Spec => ImplementsLifecycle
<1>1. Init => Lifecycle!Init
  BY DEF Init, Lifecycle!Init
<1>2. QED
  BY <1>1, TypeInvInductive, ClaimInvInductive, StepImplementsLifecycle, PTL
     DEF Spec, ImplementsLifecycle, Lifecycle!Spec

(***************************************************************************)
(* So with prompt workers the work behind a row is committed at most once, *)
(* however often it is claimed, abandoned, retried or requeued.            *)
(***************************************************************************)
THEOREM WorkRunsAtMostOnce ==
    ASSUME Prompt
    PROVE  Spec => []RunsAtMostOnce
<1>1. Lifecycle!CommittedAtMostOnce => RunsAtMostOnce
  BY DEF Lifecycle!CommittedAtMostOnce, RunsAtMostOnce
<1>2. QED
  BY <1>1, QueueImplementsLifecycle, Lifecycle!LifecycleCommitsOnce, PTL DEF ImplementsLifecycle
=============================================================================

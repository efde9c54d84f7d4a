--------------------------- MODULE HousekeepingChain ---------------------------
(***************************************************************************)
(* The hourly housekeeping chain of apps/queueing/housekeeping.py: a system *)
(* row whose handler first schedules its own successor, and the bootstrap   *)
(* that every worker and every tick runs when it starts.                    *)
(*                                                                         *)
(* A successor is keyed by the hour it runs in, which is always the hour    *)
(* after now, so the only key that is ever looked up is next hour's:        *)
(* keyed[r] says that r holds it.  The keys expire when the hour turns.     *)
(* The rest of the queue is ActionQueue's; here it is the deployment's      *)
(* other work and left out.                                                *)
(*                                                                         *)
(* Time is counted in ticks, TicksPerHour to the hour; minute is the tick   *)
(* within the hour.  MaxCrashes, MaxBreaks and MaxRequeues say that the     *)
(* mishaps they count happen finitely often.                               *)
(***************************************************************************)
EXTENDS Naturals, FiniteSets

CONSTANTS
    Worker,         \* processes that drain the queue
    Ticking,        \* those run by cron or over HTTP: one drain, then exit
    Row,            \* primary keys of the chain's rows, recycled when settled
    TicksPerHour,   \* HOUSEKEEPING_INTERVAL
    ZombieAfter,    \* ZOMBIE_AFTER
    Backoff,        \* ticks until a failed sweep is due again
    MaxAttempts,    \* max_attempts of a row
    SweepLimit,     \* ticks a live worker may take for one sweep
    MaxCrashes,     \* bound: processes killed
    MaxBreaks,      \* bound: jobs that leave the transaction aborted
    MaxRequeues,    \* bound: how often an operator presses "Retry now"
    None

ASSUME ChainAssumption ==
    /\ Ticking \subseteq Worker
    /\ None \notin Row
    /\ TicksPerHour \in Nat \ {0}
    /\ {ZombieAfter, Backoff, SweepLimit, MaxCrashes, MaxBreaks, MaxRequeues} \subseteq Nat
    /\ MaxAttempts \in Nat \ {0}

VARIABLES
    status,     \* [Row -> Status]
    keyed,      \* [Row -> BOOLEAN], the row holds next hour's idempotency key
    attempts,   \* [Row -> Nat]
    age,        \* [Row -> Nat], ticks since updated_at of a running row
    delay,      \* [Row -> Nat], ticks until run_at
    phase,      \* [Worker -> Phase]
    row,        \* [Worker -> Row \cup {None}], the row it is sweeping for
    successor,  \* [Worker -> Row \cup {None}], the row its transaction inserted
    minute,     \* 0..TicksPerHour-1
    crashes, breaks, requeues

rowVars    == <<status, keyed, attempts, age, delay>>
workerVars == <<phase, row, successor>>
bounds     == <<crashes, breaks, requeues>>
vars       == <<rowVars, workerVars, minute, bounds>>

Status == {"none", "uncommitted", "pending", "running", "done", "failed"}
Phase  == {"down", "creating", "up", "sweeping", "scheduled", "failing"}

Due(r)   == status[r] = "pending" /\ delay[r] = 0

\* Mutant: any running row suppresses a new chain.
LiveAny(r) == status[r] \in {"pending", "running"}

Live(r)  == \/ status[r] = "pending"
            \/ status[r] = "running" /\ age[r] <= ZombieAfter

\* A primary key the model may use for a new row.
Free(r)  == /\ status[r] \in {"none", "done", "failed"}
            /\ ~keyed[r]
            /\ \A w \in Worker : row[w] # r

\* Rows are interchangeable, so a new one may as well be always the same.
Fresh == CHOOSE r \in Row : Free(r)

Init ==
    /\ status    = [r \in Row |-> "none"]
    /\ keyed     = [r \in Row |-> FALSE]
    /\ attempts  = [r \in Row |-> 0]
    /\ age       = [r \in Row |-> 0]
    /\ delay     = [r \in Row |-> 0]
    /\ phase     = [w \in Worker |-> "down"]
    /\ row       = [w \in Worker |-> None]
    /\ successor = [w \in Worker |-> None]
    /\ minute    = 0
    /\ crashes = 0 /\ breaks = 0 /\ requeues = 0

NewRow(r, st, key, d) ==
    /\ r \in Row
    /\ Free(r)
    /\ status' = [status EXCEPT ![r] = st]
    /\ keyed' = [keyed EXCEPT ![r] = key]
    /\ attempts' = [attempts EXCEPT ![r] = 0]
    /\ age' = [age EXCEPT ![r] = 0]
    /\ delay' = [delay EXCEPT ![r] = d]

-----------------------------------------------------------------------------
(* ensure_housekeeping_scheduled, at the start of every worker and tick.    *)

\* The check, under the bootstrap lock; the lock is kept only to create a row.
Start(w) ==
    /\ phase[w] = "down"
    /\ \A v \in Worker : phase[v] # "creating"
    /\ phase' = [phase EXCEPT ![w] = IF \E r \in Row : Live(r) THEN "up" ELSE "creating"]
    /\ UNCHANGED <<rowVars, row, successor, minute, bounds>>

\* No idempotency key, and due now.
Create(w) ==
    /\ phase[w] = "creating"
    /\ NewRow(Fresh, "pending", FALSE, 0)
    /\ phase' = [phase EXCEPT ![w] = "up"]
    /\ UNCHANGED <<row, successor, minute, bounds>>

\* A tick ends on a short claim; a worker process is told to stop, between batches.
Exit(w) ==
    /\ phase[w] = "up"
    /\ ~ \E r \in Row : Due(r)
    /\ phase' = [phase EXCEPT ![w] = "down"]
    /\ UNCHANGED <<rowVars, row, successor, minute, bounds>>

-----------------------------------------------------------------------------
(* One sweep: the claim, then the handler's transaction.                   *)

Claim(w, r) ==
    /\ phase[w] = "up"
    /\ Due(r)
    /\ status' = [status EXCEPT ![r] = "running"]
    /\ attempts' = [attempts EXCEPT ![r] = @ + 1]
    /\ age' = [age EXCEPT ![r] = 0]
    /\ phase' = [phase EXCEPT ![w] = "sweeping"]
    /\ row' = [row EXCEPT ![w] = r]
    /\ UNCHANGED <<keyed, delay, successor, minute, bounds>>

\* Mutant: every sweep adds a row of its own.
ScheduleAlways(w) ==
    /\ phase[w] = "sweeping"
    /\ phase' = [phase EXCEPT ![w] = "scheduled"]
    /\ NewRow(Fresh, "uncommitted", TRUE, TicksPerHour)
    /\ successor' = [successor EXCEPT ![w] = Fresh]
    /\ UNCHANGED <<row, minute, bounds>>

\* The insert waits for another transaction's uncommitted row of the same key;
\* a committed one is taken as it is, whatever its status.
ScheduleSuccessor(w) ==
    /\ phase[w] = "sweeping"
    /\ ~ \E r \in Row : keyed[r] /\ status[r] = "uncommitted"
    /\ phase' = [phase EXCEPT ![w] = "scheduled"]
    /\ IF \E r \in Row : keyed[r]
         THEN UNCHANGED <<rowVars, successor>>
         ELSE /\ NewRow(Fresh, "uncommitted", TRUE, TicksPerHour)
              /\ successor' = [successor EXCEPT ![w] = Fresh]
    /\ UNCHANGED <<row, minute, bounds>>

SweptTo(r) == IF attempts[r] >= MaxAttempts THEN "failed" ELSE "pending"

\* What the job reset_zombie_actions moves, when it does not fail itself.
Zombies(ok) == {r \in Row : ok /\ status[r] = "running" /\ age[r] > ZombieAfter}

\* A tick that is out of time ends here, any other drain goes on.
Carry(w, next) ==
    /\ next \in {"up"} \cup {"down" : v \in Ticking \cap {w}}
    /\ phase' = [phase EXCEPT ![w] = next]
    /\ row' = [row EXCEPT ![w] = None]
    /\ successor' = [successor EXCEPT ![w] = None]

\* The jobs, of which any may raise, then _mark_done, and all of it commits.
Commit(w, ok, next) ==
    /\ phase[w] = "scheduled"
    /\ status' = [r \in Row |-> IF r = row[w] THEN "done"
                                ELSE IF r = successor[w] THEN "pending"
                                ELSE IF r \in Zombies(ok) THEN SweptTo(r) ELSE status[r]]
    /\ age' = [r \in Row |-> IF r \in Zombies(ok) \cup {row[w]} THEN 0 ELSE age[r]]
    /\ delay' = [delay EXCEPT ![row[w]] = 0]
    /\ Carry(w, next)
    /\ UNCHANGED <<keyed, attempts, minute, bounds>>

\* What a rollback leaves of the inserted row: nothing.
Undo(w) ==
    /\ status' = [r \in Row |-> IF r = successor[w] THEN "none" ELSE status[r]]
    /\ keyed' = [r \in Row |-> keyed[r] /\ r # successor[w]]
    /\ delay' = [r \in Row |-> IF r = successor[w] THEN 0 ELSE delay[r]]

\* A job's statement fails in the database: what follows it fails as well,
\* _mark_done included, and the whole transaction is rolled back.
Break(w) ==
    /\ phase[w] = "scheduled"
    /\ breaks < MaxBreaks
    /\ breaks' = breaks + 1
    /\ Undo(w)
    /\ successor' = [successor EXCEPT ![w] = None]
    /\ phase' = [phase EXCEPT ![w] = "failing"]
    /\ UNCHANGED <<attempts, age, row, minute, crashes, requeues>>

RecordFailure(w, next) ==
    LET r    == row[w]
        dead == attempts[r] >= MaxAttempts
    IN  /\ phase[w] = "failing"
        /\ status' = [status EXCEPT ![r] = IF dead THEN "failed" ELSE "pending"]
        /\ delay' = [delay EXCEPT ![r] = IF dead THEN 0 ELSE Backoff]
        /\ age' = [age EXCEPT ![r] = 0]
        /\ Carry(w, next)
        /\ UNCHANGED <<keyed, attempts, minute, bounds>>

Crash(w) ==
    /\ phase[w] # "down"
    /\ crashes < MaxCrashes
    /\ crashes' = crashes + 1
    /\ Undo(w)
    /\ phase' = [phase EXCEPT ![w] = "down"]
    /\ row' = [row EXCEPT ![w] = None]
    /\ successor' = [successor EXCEPT ![w] = None]
    /\ UNCHANGED <<attempts, age, minute, breaks, requeues>>

-----------------------------------------------------------------------------

\* admin.retry_now
RetryNow(r) ==
    /\ requeues < MaxRequeues
    /\ requeues' = requeues + 1
    /\ status[r] \in {"failed", "pending"}
    /\ status' = [status EXCEPT ![r] = "pending"]
    /\ attempts' = [attempts EXCEPT ![r] = 0]
    /\ delay' = [delay EXCEPT ![r] = 0]
    /\ UNCHANGED <<keyed, age, workerVars, minute, crashes, breaks>>

\* Mutant: one key for good.
KeysNeverLapse == FALSE

\* The hour turns with this tick, and next hour's key becomes this hour's.
KeysLapse == minute = TicksPerHour - 1

Tick ==
    /\ \A w \in Worker : row[w] # None => age[row[w]] < SweepLimit
    /\ minute' = (minute + 1) % TicksPerHour
    /\ keyed' = [r \in Row |-> keyed[r] /\ ~KeysLapse]
    /\ age' = [r \in Row |->
                 IF status[r] = "running" /\ age[r] <= ZombieAfter THEN age[r] + 1 ELSE age[r]]
    /\ delay' = [r \in Row |-> IF delay[r] > 0 THEN delay[r] - 1 ELSE 0]
    /\ UNCHANGED <<status, attempts, workerVars, bounds>>

Sweep(w) == \E ok \in BOOLEAN, next \in Phase : Commit(w, ok, next)

Run(w) == \/ Start(w) \/ Create(w)
          \/ w \in Ticking /\ Exit(w)
          \/ \E r \in Row : Claim(w, r)
          \/ ScheduleSuccessor(w) \/ Sweep(w)
          \/ \E next \in Phase : RecordFailure(w, next)

Next == \/ \E w \in Worker : Run(w) \/ Exit(w) \/ Break(w) \/ Crash(w)
        \/ \E r \in Row : RetryNow(r)
        \/ Tick

Spec == Init /\ [][Next]_vars

\* A process that is down is started again, a live one goes on, time passes.
\* Ticks end and come again; nothing obliges a live worker process to stop and
\* bootstrap once more.
FairSpec == Spec /\ WF_vars(Tick) /\ \A w \in Worker : WF_vars(Run(w))

-----------------------------------------------------------------------------
(* Properties.                                                             *)

TypeOK ==
    /\ status \in [Row -> Status]
    /\ keyed \in [Row -> BOOLEAN]
    /\ attempts \in [Row -> Nat]
    /\ age \in [Row -> Nat]
    /\ delay \in [Row -> Nat]
    /\ phase \in [Worker -> Phase]
    /\ row \in [Worker -> Row \cup {None}]
    /\ successor \in [Worker -> Row \cup {None}]
    /\ minute \in 0..TicksPerHour - 1
    /\ {crashes, breaks, requeues} \subseteq Nat

(***************************************************************************)
(* A transaction owns what it touches: a row that no other transaction can  *)
(* see yet has exactly one writer, which is still open, and no two sweeps   *)
(* run for the same row (proved in HousekeepingChainProofs).                *)
(***************************************************************************)
SweepsAreExclusive ==
    /\ \A r \in Row : status[r] = "uncommitted"
                     <=> \E w \in Worker : successor[w] = r /\ phase[w] = "scheduled"
    /\ \A v, w \in Worker : v # w =>
         /\ row[v] = row[w] => row[v] = None
         /\ successor[v] = successor[w] => successor[v] = None

(***************************************************************************)
(* One bad hour cannot end housekeeping: sweeps go on being completed       *)
(* (module docstring, "Why the chain cannot break").                       *)
(***************************************************************************)
SweepsContinue == []<><<\E w \in Worker : Sweep(w)>>_vars

(***************************************************************************)
(* A sweep that completes leaves another row waiting or at work, although   *)
(* it may have found next hour's key taken: no row under that key has       *)
(* settled, unless an operator pulled it forward (handle_housekeeping,      *)
(* "having first guaranteed there will be a next one").                    *)
(***************************************************************************)
SweepLeavesNext ==
    [][requeues = 0 =>
         \A w \in Worker : Sweep(w) => \E r \in Row : status'[r] \in {"pending", "running"}]_vars

(***************************************************************************)
(* A bootstrap that raced with a sweep, or replaced a dead one, does not    *)
(* leave two chains behind for good: once the deployment keeps up, each     *)
(* sweep done within the tick it is due in, the hour keys merge them        *)
(* ("two workers, a tick and a restart all converge on the same row").      *)
(***************************************************************************)
KeepsUp == <>[][Tick => \A r \in Row : ~Due(r) /\ \A w \in Worker : row[w] # r]_vars
ChainsConverge == KeepsUp => <>[](Cardinality({r \in Row : Live(r)}) <= 1)

(***************************************************************************)
(* However a sweep ends, short of its process dying, the successor survives *)
(* (handle_housekeeping, "the chain survives anything the jobs do").        *)
(***************************************************************************)
SuccessorSurvivesJobs ==
    [][\A w \in Worker :
         phase[w] \in {"scheduled", "failing"} /\ phase'[w] \in {"up", "down"} /\ crashes' = crashes
         => \E r \in Row \ {row[w]} : status'[r] = "pending"]_vars
=============================================================================

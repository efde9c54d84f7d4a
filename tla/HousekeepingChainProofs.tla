------------------------ MODULE HousekeepingChainProofs ------------------------
(***************************************************************************)
(* What two processes that sweep at once can be told apart by, and what a   *)
(* sweep leaves behind, for every deployment and every number of crashes,   *)
(* breaks and retries.                                                      *)
(***************************************************************************)
EXTENDS HousekeepingChain, TLAPS

\* A live worker finishes a sweep before anybody takes its row for a zombie.
Prompt == SweepLimit <= ZombieAfter

(***************************************************************************)
(* A worker's row is running and younger than the sweep's age; only a       *)
(* worker that has scheduled holds a successor.  The zombie sweep therefore *)
(* takes nobody's row, and a free row is nobody's successor.                *)
(***************************************************************************)
SweepInv ==
    /\ TypeOK
    /\ \A w \in Worker :
         /\ row[w] # None <=> phase[w] \in {"sweeping", "scheduled", "failing"}
         /\ row[w] # None => status[row[w]] = "running" /\ age[row[w]] <= SweepLimit
         /\ successor[w] # None => phase[w] = "scheduled" /\ status[successor[w]] = "uncommitted"
    /\ \A r \in Row : status[r] = "uncommitted" => \E w \in Worker : successor[w] = r
    /\ \A v, w \in Worker : v # w =>
         /\ row[v] = row[w] => row[v] = None
         /\ successor[v] = successor[w] => successor[v] = None

LEMMA SweepInvSuffices == SweepInv => SweepsAreExclusive
BY ChainAssumption DEF SweepInv, SweepsAreExclusive, TypeOK

LEMMA SweepInvHolds ==
    ASSUME Prompt
    PROVE  /\ Init => SweepInv
           /\ SweepInv /\ [Next]_vars => SweepInv'
<1> USE ChainAssumption DEF SweepInv, TypeOK, Status, Phase, rowVars, workerVars, bounds
<1>1. Init => SweepInv
  BY DEF Init
<1>2. ASSUME SweepInv, UNCHANGED vars PROVE SweepInv'
  BY <1>2 DEF vars
<1>3. ASSUME SweepInv, NEW w \in Worker, Start(w) \/ Exit(w) PROVE SweepInv'
  BY <1>3 DEF Start, Exit
<1>4. ASSUME SweepInv, NEW w \in Worker, Create(w) PROVE SweepInv'
  BY <1>4 DEF Create, NewRow, Free
<1>5. ASSUME SweepInv, NEW w \in Worker, NEW r \in Row, Claim(w, r) PROVE SweepInv'
  BY <1>5 DEF Claim, Due
<1>6. ASSUME SweepInv, NEW w \in Worker, ScheduleSuccessor(w) PROVE SweepInv'
  <2>1. CASE \E r \in Row : keyed[r]
    <3>1. /\ phase[w] = "sweeping"
          /\ phase' = [phase EXCEPT ![w] = "scheduled"]
          /\ UNCHANGED <<status, keyed, attempts, age, delay, row, successor, minute>>
          /\ UNCHANGED <<crashes, breaks, requeues>>
      BY <1>6, <2>1, Zenon DEF ScheduleSuccessor
    <3>2. QED
      BY <1>6, <3>1
  <2>2. CASE ~ \E r \in Row : keyed[r]
    <3> DEFINE f == Fresh
    <3>1. /\ f \in Row /\ Free(f) /\ phase[w] = "sweeping"
          /\ status' = [status EXCEPT ![f] = "uncommitted"]
          /\ keyed' = [keyed EXCEPT ![f] = TRUE]
          /\ attempts' = [attempts EXCEPT ![f] = 0]
          /\ age' = [age EXCEPT ![f] = 0]
          /\ delay' = [delay EXCEPT ![f] = TicksPerHour]
          /\ phase' = [phase EXCEPT ![w] = "scheduled"]
          /\ successor' = [successor EXCEPT ![w] = f]
          /\ UNCHANGED <<row, minute, crashes, breaks, requeues>>
      BY <1>6, <2>2 DEF ScheduleSuccessor, NewRow
    <3>2. f # None /\ status[f] # "uncommitted" /\ \A v \in Worker : row[v] # f
      BY <3>1 DEF Free
    <3>3. successor[w] = None
      BY <1>6, <3>1
    <3> HIDE DEF f
    <3>4. QED
      BY <1>6, <3>1, <3>2, <3>3
  <2>3. QED
    BY <2>1, <2>2
<1>7. ASSUME SweepInv, NEW w \in Worker, NEW ok \in BOOLEAN, NEW next \in Phase, Commit(w, ok, next)
      PROVE  SweepInv'
  BY <1>7 DEF Commit, Carry, Zombies, SweptTo, Prompt
<1>8. ASSUME SweepInv, NEW w \in Worker, Break(w) \/ Crash(w) PROVE SweepInv'
  <2>1. keyed' \in [Row -> BOOLEAN]
    <3>1. keyed' = [r \in Row |-> keyed[r] /\ r # successor[w]]
      BY <1>8, Zenon DEF Break, Crash, Undo
    <3>2. \A r \in Row : (keyed[r] /\ r # successor[w]) \in BOOLEAN
      OBVIOUS
    <3>3. QED
      BY <3>1, <3>2
  <2>2. /\ status' = [r \in Row |-> IF r = successor[w] THEN "none" ELSE status[r]]
        /\ delay' = [r \in Row |-> IF r = successor[w] THEN 0 ELSE delay[r]]
        /\ successor' = [successor EXCEPT ![w] = None]
    BY <1>8, Zenon DEF Break, Crash, Undo
  <2>3. CASE Break(w)
    BY <1>8, <2>1, <2>2, <2>3 DEF Break
  <2>4. CASE Crash(w)
    <3>1. TypeOK'
      BY <1>8, <2>1, <2>2, <2>4 DEF Crash
    <3>2. /\ phase' = [phase EXCEPT ![w] = "down"]
          /\ row' = [row EXCEPT ![w] = None]
          /\ UNCHANGED age
      BY <2>4 DEF Crash
    <3>3. \A r \in Row : r # successor[w] => status'[r] = status[r]
      BY <2>2
    <3>4. \A v \in Worker \ {w} : row[v] # None => row[v] \in Row /\ row[v] # successor[w]
      BY <1>8
    <3>5. QED
      BY <1>8, <2>2, <3>1, <3>2, <3>3, <3>4
  <2>5. QED
    BY <1>8, <2>3, <2>4
<1>9. ASSUME SweepInv, NEW w \in Worker, NEW next \in Phase, RecordFailure(w, next) PROVE SweepInv'
  BY <1>9 DEF RecordFailure, Carry
<1>10. ASSUME SweepInv, NEW r \in Row, RetryNow(r) PROVE SweepInv'
  BY <1>10 DEF RetryNow
<1>11. ASSUME SweepInv, Tick PROVE SweepInv'
  BY <1>11 DEF Tick, KeysLapse
<1>12. QED
  BY <1>1, <1>2, <1>3, <1>4, <1>5, <1>6, <1>7, <1>8, <1>9, <1>10, <1>11 DEF Next, Run, Sweep

(***************************************************************************)
(* With sweeps prompt, an uncommitted successor has one open writer and a   *)
(* row is swept for by one worker at a time.                                *)
(***************************************************************************)
THEOREM SweepsStayExclusive ==
    ASSUME Prompt
    PROVE  Spec => []SweepsAreExclusive
BY SweepInvSuffices, SweepInvHolds, PTL DEF Spec

-----------------------------------------------------------------------------
(* What a sweep leaves behind.                                             *)

\* A row's attempts outlast a sweep: five of them, 30 s, 2, 10 and 60 minutes
\* apart (worker.py), and a sweep of less than the ten minutes that Prompt allows.
Persistent == SweepLimit <= (MaxAttempts - 1) * Backoff

\* How long ago w began its sweep.
Begun(w) == age[row[w]]

(***************************************************************************)
(* r is there to run after w's sweep.  It was due after w began and has had *)
(* its attempts since then, Backoff apart; it began its own sweep later.    *)
(***************************************************************************)
Follows(w, r) ==
    /\ r # row[w]
    /\ \/ /\ status[r] = "pending"
          /\ Begun(w) + delay[r] >= 1 + attempts[r] * Backoff
       \/ /\ status[r] = "running"
          /\ attempts[r] >= 1
          /\ Begun(w) >= 1 + (attempts[r] - 1) * Backoff
          /\ age[r] < Begun(w)

(***************************************************************************)
(* A row that holds next hour's key waits for the hour, and is untried; so  *)
(* what a sweep finds under the key, or inserts, follows it.                *)
(***************************************************************************)
Untried == \A r \in Row : status[r] = "uncommitted" => attempts[r] = 0

KeysWait ==
    requeues = 0 => \A r \in Row : keyed[r] => /\ status[r] \in {"uncommitted", "pending"}
                                               /\ attempts[r] = 0
                                               /\ delay[r] >= TicksPerHour - minute

SweepsFollowed ==
    requeues = 0 => \A w \in Worker : phase[w] = "scheduled" /\ successor[w] = None =>
                       \E r \in Row : Follows(w, r)

NextInv == SweepInv /\ Untried /\ KeysWait /\ SweepsFollowed

\* One attempt more is one Backoff more.
LEMMA OneAttemptMore ==
    ASSUME NEW n \in Nat
    PROVE  /\ n * Backoff \in Nat
           /\ (n + 1) * Backoff = n * Backoff + Backoff
           /\ n >= 1 => n * Backoff = (n - 1) * Backoff + Backoff /\ (n - 1) * Backoff \in Nat
           /\ n >= MaxAttempts => (n - 1) * Backoff >= (MaxAttempts - 1) * Backoff
<1>1. Backoff \in Nat /\ MaxAttempts \in Nat \ {0}
  BY ChainAssumption
<1> QED  BY <1>1

\* While a sweep runs, what follows it has attempts left and is no zombie.
LEMMA FollowersAreLive ==
    ASSUME Prompt, Persistent, SweepInv, NEW w \in Worker, phase[w] = "scheduled",
           NEW r \in Row, Follows(w, r)
    PROVE  /\ status[r] \in {"pending", "running"}
           /\ r # row[w] /\ r # successor[w]
           /\ status[r] = "running" => attempts[r] < MaxAttempts
           /\ \A ok \in BOOLEAN : r \notin Zombies(ok)
<1>1. row[w] # None /\ row[w] \in Row /\ Begun(w) \in Nat /\ Begun(w) <= SweepLimit
      /\ age[r] \in Nat /\ attempts[r] \in Nat /\ SweepLimit \in Nat /\ ZombieAfter \in Nat
      /\ Backoff \in Nat /\ MaxAttempts \in Nat
  BY ChainAssumption DEF SweepInv, TypeOK, Begun
<1>2. r # row[w] /\ status[r] \in {"pending", "running"}
  BY DEF Follows
<1>3. r # successor[w]
  BY <1>2, ChainAssumption DEF SweepInv
<1>4. ASSUME status[r] = "running", attempts[r] >= MaxAttempts PROVE FALSE
  <2>1. Begun(w) >= 1 + (attempts[r] - 1) * Backoff /\ attempts[r] >= 1
    BY <1>4 DEF Follows
  <2>2. (attempts[r] - 1) * Backoff >= (MaxAttempts - 1) * Backoff
        /\ (attempts[r] - 1) * Backoff \in Nat
    BY <1>1, <1>4, <2>1, OneAttemptMore
  <2>3. (MaxAttempts - 1) * Backoff \in Nat
    <3>1. MaxAttempts - 1 \in Nat
      BY ChainAssumption
    <3> QED  BY <3>1, OneAttemptMore
  <2> QED  BY <1>1, <2>1, <2>2, <2>3 DEF Persistent
<1>5. ASSUME NEW ok \in BOOLEAN, r \in Zombies(ok) PROVE FALSE
  BY <1>1, <1>5 DEF Zombies, Follows, Prompt
<1> QED  BY <1>1, <1>2, <1>3, <1>4, <1>5

\* SMT needs this of % by itself.
LEMMA WithinTheHour ==
    ASSUME NEW m \in Nat, NEW n \in Nat, m < n
    PROVE  m % n = m
OBVIOUS

\* The types, in the form the leaves use.
LEMMA ChainTypes ==
    ASSUME SweepInv
    PROVE  /\ \A r \in Row : attempts[r] \in Nat /\ age[r] \in Nat /\ delay[r] \in Nat
           /\ status \in [Row -> Status] /\ attempts \in [Row -> Nat] /\ age \in [Row -> Nat]
           /\ delay \in [Row -> Nat] /\ keyed \in [Row -> BOOLEAN] /\ phase \in [Worker -> Phase]
           /\ row \in [Worker -> Row \cup {None}] /\ successor \in [Worker -> Row \cup {None}]
           /\ minute \in Nat /\ minute <= TicksPerHour - 1 /\ requeues \in Nat
           /\ TicksPerHour \in Nat /\ Backoff \in Nat /\ SweepLimit \in Nat /\ ZombieAfter \in Nat
           /\ TicksPerHour >= 1 /\ None \notin Row
BY ChainAssumption DEF SweepInv, TypeOK

\* A worker that has scheduled, and the row that follows its sweep.
LEMMA SweepTypes ==
    ASSUME SweepInv, NEW w \in Worker, phase[w] = "scheduled"
    PROVE  /\ row[w] \in Row /\ row[w] # None /\ status[row[w]] = "running"
           /\ Begun(w) \in Nat /\ Begun(w) <= SweepLimit
BY DEF SweepInv, TypeOK, Begun

\* A step that leaves the two rows alone.
LEMMA StillFollows ==
    ASSUME NEW w \in Worker, NEW r \in Row, Follows(w, r),
           row'[w] = row[w], age'[row[w]] = age[row[w]], status'[r] = status[r],
           delay'[r] = delay[r], attempts'[r] = attempts[r], age'[r] = age[r]
    PROVE  Follows(w, r)'
BY DEF Follows, Begun

\* No row, no worker, nothing to show.
LEMMA NextInvStarts == Init => NextInv
<1> SUFFICES ASSUME Init PROVE NextInv
  OBVIOUS
<1>1. SweepInv
  <2>1. Init => SweepInv
    BY ChainAssumption DEF Init, SweepInv, TypeOK, Status, Phase
  <2> QED  BY <2>1
<1> QED  BY <1>1 DEF Init, NextInv, Untried, KeysWait, SweepsFollowed

\* Steps that change no row.
LEMMA NextByWorkers ==
    ASSUME NextInv, UNCHANGED <<rowVars, row, minute, requeues>>,
           \A v \in Worker : phase'[v] = "scheduled" /\ successor'[v] = None
                             => phase[v] = "scheduled" /\ successor[v] = None
    PROVE  Untried' /\ KeysWait' /\ SweepsFollowed'
<1> USE DEF rowVars
<1>1. Untried' /\ KeysWait'
  BY DEF NextInv, Untried, KeysWait
<1>2. SweepsFollowed'
  <2> SUFFICES ASSUME requeues' = 0, NEW v \in Worker, phase'[v] = "scheduled", successor'[v] = None
               PROVE  \E r \in Row : Follows(v, r)'
    BY DEF SweepsFollowed
  <2>1. PICK r \in Row : Follows(v, r)
    BY DEF NextInv, SweepsFollowed
  <2>2. Follows(v, r)'
    BY <2>1, StillFollows
  <2> QED  BY <2>2
<1> QED  BY <1>1, <1>2

\* A new row, of the bootstrap or of a sweep.
LEMMA NextByNewRow ==
    ASSUME NextInv, NEW st \in {"pending", "uncommitted"}, NEW key \in BOOLEAN,
           NEW d \in Nat, key => d = TicksPerHour, NEW f, NewRow(f, st, key, d),
           UNCHANGED <<row, minute, requeues>>,
           \A v \in Worker : phase'[v] = "scheduled" /\ successor'[v] = None
                             => phase[v] = "scheduled" /\ successor[v] = None
    PROVE  Untried' /\ KeysWait' /\ SweepsFollowed'
<1>0. SweepInv
  BY DEF NextInv
<1>1. /\ f \in Row /\ status[f] \in {"none", "done", "failed"} /\ \A v \in Worker : row[v] # f
      /\ status' = [status EXCEPT ![f] = st]
      /\ keyed' = [keyed EXCEPT ![f] = key]
      /\ attempts' = [attempts EXCEPT ![f] = 0]
      /\ age' = [age EXCEPT ![f] = 0]
      /\ delay' = [delay EXCEPT ![f] = d]
  BY DEF NewRow, Free
<1>2. Untried'
  BY <1>0, <1>1, ChainTypes DEF NextInv, Untried
<1>3. KeysWait'
  <2> SUFFICES ASSUME requeues' = 0, NEW r \in Row, keyed'[r]
               PROVE  /\ status'[r] \in {"uncommitted", "pending"} /\ attempts'[r] = 0
                      /\ delay'[r] >= TicksPerHour - minute'
    BY DEF KeysWait
  <2>1. CASE r = f
    BY <1>0, <1>1, <2>1, ChainTypes
  <2>2. CASE r # f
    BY <1>0, <1>1, <2>2, ChainTypes DEF NextInv, KeysWait
  <2> QED  BY <2>1, <2>2
<1>4. SweepsFollowed'
  <2> SUFFICES ASSUME requeues' = 0, NEW v \in Worker, phase'[v] = "scheduled", successor'[v] = None
               PROVE  \E r \in Row : Follows(v, r)'
    BY DEF SweepsFollowed
  <2>0. phase[v] = "scheduled" /\ successor[v] = None
    OBVIOUS
  <2>1. PICK r \in Row : Follows(v, r)
    BY <2>0 DEF NextInv, SweepsFollowed
  <2>2. r # f /\ row[v] # f /\ row[v] \in Row
    BY <1>0, <1>1, <2>0, <2>1, SweepTypes DEF Follows
  <2>3. Follows(v, r)'
    BY <1>0, <1>1, <2>1, <2>2, ChainTypes, StillFollows
  <2> QED  BY <2>3
<1> QED  BY <1>2, <1>3, <1>4

\* enqueue_next: the key is held, by a row that waits for the hour, or is taken now.
LEMMA NextBySchedule ==
    ASSUME NextInv, NEW w \in Worker, ScheduleSuccessor(w)
    PROVE  Untried' /\ KeysWait' /\ SweepsFollowed'
<1>0. SweepInv
  BY DEF NextInv
<1>1. CASE \E r \in Row : keyed[r]
  <2>1. /\ phase[w] = "sweeping" /\ phase' = [phase EXCEPT ![w] = "scheduled"]
        /\ UNCHANGED <<status, keyed, attempts, age, delay, row, successor, minute, requeues>>
        /\ \A r \in Row : keyed[r] => status[r] # "uncommitted"
    BY <1>1, Zenon DEF ScheduleSuccessor, rowVars, bounds
  <2>2. Untried' /\ KeysWait'
    BY <2>1 DEF NextInv, Untried, KeysWait
  <2>3. SweepsFollowed'
    <3> SUFFICES ASSUME requeues' = 0, NEW v \in Worker, phase'[v] = "scheduled", successor'[v] = None
                 PROVE  \E r \in Row : Follows(v, r)'
      BY DEF SweepsFollowed
    <3>1. CASE v = w
      <4>1. PICK r \in Row : keyed[r]
        BY <1>1
      <4>2. status[r] = "pending" /\ attempts[r] = 0 /\ delay[r] >= TicksPerHour - minute
        BY <2>1, <4>1 DEF NextInv, KeysWait
      <4>3. row[w] \in Row /\ status[row[w]] = "running" /\ Begun(w) \in Nat
        BY <1>0, <2>1 DEF SweepInv, TypeOK, Begun
      <4>4. 0 * Backoff = 0
        BY <1>0, ChainTypes
      <4>5. Begun(w) + delay[r] >= 1 + attempts[r] * Backoff
        BY <1>0, <4>2, <4>3, <4>4, ChainTypes
      <4>6. Follows(w, r)
        BY <4>2, <4>3, <4>5 DEF Follows
      <4>7. Follows(w, r)'
        BY <2>1, <4>6, StillFollows
      <4> QED  BY <3>1, <4>7
    <3>2. CASE v # w
      <4>1. phase[v] = "scheduled" /\ successor[v] = None
        BY <1>0, <2>1, <3>2, ChainTypes
      <4>2. PICK r \in Row : Follows(v, r)
        BY <2>1, <4>1 DEF NextInv, SweepsFollowed
      <4>3. Follows(v, r)'
        BY <2>1, <4>2, StillFollows
      <4> QED  BY <4>3
    <3> QED  BY <3>1, <3>2
  <2> QED  BY <2>2, <2>3
<1>2. CASE ~ \E r \in Row : keyed[r]
  <2> DEFINE f == Fresh
  <2>1. /\ NewRow(f, "uncommitted", TRUE, TicksPerHour)
        /\ phase' = [phase EXCEPT ![w] = "scheduled"]
        /\ successor' = [successor EXCEPT ![w] = f]
        /\ UNCHANGED <<row, minute, requeues>>
    BY <1>2 DEF ScheduleSuccessor, bounds
  <2> HIDE DEF f
  <2>2. f # None
    BY <1>0, <2>1, ChainTypes DEF NewRow
  <2>3. \A v \in Worker : phase'[v] = "scheduled" /\ successor'[v] = None
                             => phase[v] = "scheduled" /\ successor[v] = None
    BY <1>0, <2>1, <2>2, ChainTypes
  <2> QED  BY <1>0, <2>1, <2>3, ChainTypes, NextByNewRow
<1> QED  BY <1>1, <1>2

\* A claimed row still follows the sweeps that run: it begins after them.
LEMMA NextByClaim ==
    ASSUME NextInv, NEW w \in Worker, NEW r \in Row, Claim(w, r)
    PROVE  Untried' /\ KeysWait' /\ SweepsFollowed'
<1>0. SweepInv
  BY DEF NextInv
<1>1. /\ phase[w] = "up" /\ status[r] = "pending" /\ delay[r] = 0
      /\ status' = [status EXCEPT ![r] = "running"]
      /\ attempts' = [attempts EXCEPT ![r] = @ + 1]
      /\ age' = [age EXCEPT ![r] = 0]
      /\ phase' = [phase EXCEPT ![w] = "sweeping"]
      /\ row' = [row EXCEPT ![w] = r]
      /\ UNCHANGED <<keyed, delay, successor, minute, requeues>>
  BY DEF Claim, Due, bounds
<1>2. Untried'
  BY <1>0, <1>1, ChainTypes DEF NextInv, Untried
<1>3. KeysWait'
  <2> SUFFICES ASSUME requeues' = 0, NEW q \in Row, keyed'[q]
               PROVE  /\ status'[q] \in {"uncommitted", "pending"} /\ attempts'[q] = 0
                      /\ delay'[q] >= TicksPerHour - minute'
    BY DEF KeysWait
  <2>1. q # r
    BY <1>0, <1>1, ChainTypes DEF NextInv, KeysWait
  <2> QED  BY <1>0, <1>1, <2>1, ChainTypes DEF NextInv, KeysWait
<1>4. SweepsFollowed'
  <2> SUFFICES ASSUME requeues' = 0, NEW v \in Worker, phase'[v] = "scheduled", successor'[v] = None
               PROVE  \E q \in Row : Follows(v, q)'
    BY DEF SweepsFollowed
  <2>0. phase[v] = "scheduled" /\ successor[v] = None /\ row'[v] = row[v] /\ v # w
    BY <1>0, <1>1, ChainTypes
  <2>1. PICK q \in Row : Follows(v, q)
    BY <1>1, <2>0 DEF NextInv, SweepsFollowed
  <2>2. row[v] # r /\ row[v] \in Row /\ Begun(v) \in Nat
    BY <1>0, <1>1, <2>0, SweepTypes
  <2>3. CASE q = r
    <3>1. Begun(v) >= 1 + attempts[r] * Backoff /\ attempts[r] * Backoff \in Nat /\ attempts[r] \in Nat
      BY <1>0, <1>1, <2>1, <2>2, <2>3, ChainTypes, OneAttemptMore DEF Follows
    <3>2. /\ Begun(v)' = Begun(v) /\ status'[r] = "running" /\ age'[r] = 0
          /\ attempts'[r] = attempts[r] + 1 /\ attempts'[r] - 1 = attempts[r]
      BY <1>0, <1>1, <2>0, <2>2, <3>1, ChainTypes DEF Begun
    <3>3. Follows(v, r)'
      BY <2>0, <2>2, <3>1, <3>2 DEF Follows
    <3> QED  BY <3>3
  <2>4. CASE q # r
    <3>1. Follows(v, q)'
      BY <1>0, <1>1, <2>0, <2>1, <2>2, <2>4, ChainTypes, StillFollows
    <3> QED  BY <3>1
  <2> QED  BY <2>3, <2>4
<1> QED  BY <1>2, <1>3, <1>4

\* A failed sweep waits Backoff, or has no attempt left and follows nobody.
LEMMA NextByFailure ==
    ASSUME Prompt, Persistent, NextInv, NEW w \in Worker, NEW next \in Phase, RecordFailure(w, next)
    PROVE  Untried' /\ KeysWait' /\ SweepsFollowed'
<1>0. SweepInv
  BY DEF NextInv
<1> DEFINE r == row[w]
           dead == attempts[r] >= MaxAttempts
<1>1. /\ phase[w] = "failing"
      /\ status' = [status EXCEPT ![r] = IF dead THEN "failed" ELSE "pending"]
      /\ delay' = [delay EXCEPT ![r] = IF dead THEN 0 ELSE Backoff]
      /\ age' = [age EXCEPT ![r] = 0]
      /\ next \in {"up", "down"}
      /\ phase' = [phase EXCEPT ![w] = next]
      /\ row' = [row EXCEPT ![w] = None]
      /\ successor' = [successor EXCEPT ![w] = None]
      /\ UNCHANGED <<keyed, attempts, minute, requeues>>
  BY DEF RecordFailure, Carry, bounds
<1>a. r \in Row /\ status[r] = "running"
  BY <1>0, <1>1 DEF SweepInv, TypeOK
<1> HIDE DEF r
<1>2. Untried'
  BY <1>0, <1>1, <1>a, ChainTypes DEF NextInv, Untried
<1>3. KeysWait'
  <2> SUFFICES ASSUME requeues' = 0, NEW q \in Row, keyed'[q]
               PROVE  /\ status'[q] \in {"uncommitted", "pending"} /\ attempts'[q] = 0
                      /\ delay'[q] >= TicksPerHour - minute'
    BY DEF KeysWait
  <2>1. q # r
    BY <1>0, <1>1, <1>a, ChainTypes DEF NextInv, KeysWait
  <2> QED  BY <1>0, <1>1, <2>1, ChainTypes DEF NextInv, KeysWait
<1>4. SweepsFollowed'
  <2> SUFFICES ASSUME requeues' = 0, NEW v \in Worker, phase'[v] = "scheduled", successor'[v] = None
               PROVE  \E q \in Row : Follows(v, q)'
    BY DEF SweepsFollowed
  <2>0. phase[v] = "scheduled" /\ successor[v] = None /\ row'[v] = row[v] /\ v # w
    BY <1>0, <1>1, ChainTypes
  <2>1. PICK q \in Row : Follows(v, q)
    BY <1>1, <2>0 DEF NextInv, SweepsFollowed
  <2>2. row[v] # r /\ row[v] \in Row /\ Begun(v) \in Nat
    BY <1>0, <1>1, <1>a, <2>0, SweepTypes DEF SweepInv, r
  <2>3. CASE q = r
    <3>0. ~dead
      BY <1>0, <1>a, <2>0, <2>1, <2>3, FollowersAreLive, ChainTypes, ChainAssumption
    <3>1. /\ attempts[r] >= 1 /\ attempts[r] \in Nat /\ (attempts[r] - 1) * Backoff \in Nat
          /\ Begun(v) >= 1 + (attempts[r] - 1) * Backoff
          /\ attempts[r] * Backoff = (attempts[r] - 1) * Backoff + Backoff
      BY <1>0, <1>a, <2>1, <2>3, ChainTypes, OneAttemptMore DEF Follows
    <3>2. /\ Begun(v)' = Begun(v) /\ status'[q] = "pending" /\ delay'[q] = Backoff
          /\ attempts'[q] = attempts[r]
      BY <1>0, <1>1, <1>a, <2>0, <2>2, <2>3, <3>0, ChainTypes DEF Begun
    <3>3. Begun(v) + Backoff >= 1 + attempts[r] * Backoff
      BY <1>0, <2>2, <3>1, ChainTypes
    <3>4. Follows(v, q)'
      BY <2>0, <2>2, <2>3, <3>2, <3>3 DEF Follows
    <3> QED  BY <3>4
  <2>4. CASE q # r
    <3>1. Follows(v, q)'
      BY <1>0, <1>1, <1>a, <2>0, <2>1, <2>2, <2>4, ChainTypes, StillFollows
    <3> QED  BY <3>1
  <2> QED  BY <2>3, <2>4
<1> QED  BY <1>2, <1>3, <1>4

\* A transaction that ends without effect: nothing it inserted is left.
LEMMA NextByUndo ==
    ASSUME NextInv, NEW w \in Worker, NEW next \in Phase, next # "scheduled",
           Undo(w), phase' = [phase EXCEPT ![w] = next],
           successor' = [successor EXCEPT ![w] = None],
           \A v \in Worker \ {w} : row'[v] = row[v],
           UNCHANGED <<attempts, age, minute, requeues>>
    PROVE  Untried' /\ KeysWait' /\ SweepsFollowed'
<1>0. SweepInv
  BY DEF NextInv
<1>1. /\ status' = [r \in Row |-> IF r = successor[w] THEN "none" ELSE status[r]]
      /\ keyed' = [r \in Row |-> keyed[r] /\ r # successor[w]]
      /\ delay' = [r \in Row |-> IF r = successor[w] THEN 0 ELSE delay[r]]
  BY DEF Undo
<1>2. Untried'
  BY <1>0, <1>1, ChainTypes DEF NextInv, Untried
<1>3. KeysWait'
  <2> SUFFICES ASSUME requeues' = 0, NEW q \in Row, keyed'[q]
               PROVE  /\ status'[q] \in {"uncommitted", "pending"} /\ attempts'[q] = 0
                      /\ delay'[q] >= TicksPerHour - minute'
    BY DEF KeysWait
  <2>1. q # successor[w] /\ keyed[q]
    BY <1>1
  <2> QED  BY <1>0, <1>1, <2>1, ChainTypes DEF NextInv, KeysWait
<1>4. SweepsFollowed'
  <2> SUFFICES ASSUME requeues' = 0, NEW v \in Worker, phase'[v] = "scheduled", successor'[v] = None
               PROVE  \E q \in Row : Follows(v, q)'
    BY DEF SweepsFollowed
  <2>0. phase[v] = "scheduled" /\ successor[v] = None /\ row'[v] = row[v] /\ v # w
    BY <1>0, <1>1, ChainTypes
  <2>1. PICK q \in Row : Follows(v, q)
    BY <2>0 DEF NextInv, SweepsFollowed
  <2>2. q # successor[w]
    BY <1>0, <2>1, ChainTypes DEF SweepInv, Follows
  <2>3. Follows(v, q)'
    BY <1>0, <1>1, <2>0, <2>1, <2>2, StillFollows
  <2> QED  BY <2>3
<1> QED  BY <1>2, <1>3, <1>4

\* What followed the row that is done: its successor, or what followed it in turn.
LEMMA NextByCommit ==
    ASSUME Prompt, Persistent, NextInv, NEW w \in Worker, NEW ok \in BOOLEAN, NEW next \in Phase,
           Commit(w, ok, next)
    PROVE  Untried' /\ KeysWait' /\ SweepsFollowed'
<1>0. SweepInv
  BY DEF NextInv
<1>1. /\ phase[w] = "scheduled"
      /\ status' = [r \in Row |-> IF r = row[w] THEN "done"
                                  ELSE IF r = successor[w] THEN "pending"
                                  ELSE IF r \in Zombies(ok) THEN SweptTo(r) ELSE status[r]]
      /\ age' = [r \in Row |-> IF r \in Zombies(ok) \cup {row[w]} THEN 0 ELSE age[r]]
      /\ delay' = [delay EXCEPT ![row[w]] = 0]
      /\ next \in {"up", "down"}
      /\ phase' = [phase EXCEPT ![w] = next]
      /\ row' = [row EXCEPT ![w] = None]
      /\ successor' = [successor EXCEPT ![w] = None]
      /\ UNCHANGED <<keyed, attempts, minute, requeues>>
  BY DEF Commit, Carry, bounds
<1>2. row[w] \in Row /\ status[row[w]] = "running" /\ Begun(w) \in Nat /\ Begun(w) <= SweepLimit
  BY <1>0, <1>1, SweepTypes
<1>3. \A r \in Row : SweptTo(r) \in {"failed", "pending"}
  BY DEF SweptTo
<1>4. \A r \in Zombies(ok) : status[r] = "running"
  BY DEF Zombies
<1>5. Untried'
  BY <1>0, <1>1, <1>3, <1>4, ChainTypes DEF NextInv, Untried
<1>6. KeysWait'
  <2> SUFFICES ASSUME requeues' = 0, NEW q \in Row, keyed'[q]
               PROVE  /\ status'[q] \in {"uncommitted", "pending"} /\ attempts'[q] = 0
                      /\ delay'[q] >= TicksPerHour - minute'
    BY DEF KeysWait
  <2>0. /\ status[q] \in {"uncommitted", "pending"} /\ attempts[q] = 0
        /\ delay[q] >= TicksPerHour - minute
    BY <1>1 DEF NextInv, KeysWait
  <2>1. q # row[w] /\ q \notin Zombies(ok)
    BY <1>2, <1>4, <2>0
  <2> QED  BY <1>0, <1>1, <2>0, <2>1, ChainTypes
<1>7. SweepsFollowed'
  <2> SUFFICES ASSUME requeues' = 0, NEW v \in Worker, phase'[v] = "scheduled", successor'[v] = None
               PROVE  \E q \in Row : Follows(v, q)'
    BY DEF SweepsFollowed
  <2>0. phase[v] = "scheduled" /\ successor[v] = None /\ row'[v] = row[v] /\ v # w
    BY <1>0, <1>1, ChainTypes
  <2>1. PICK r \in Row : Follows(v, r)
    BY <1>1, <2>0 DEF NextInv, SweepsFollowed
  <2>2. row[v] \in Row /\ status[row[v]] = "running" /\ Begun(v) \in Nat /\ Begun(v) <= SweepLimit
        /\ row[v] # row[w]
    BY <1>0, <1>1, <1>2, <2>0, SweepTypes DEF SweepInv
  <2>3. Begun(v)' = Begun(v)
    <3>1. row[v] \notin Zombies(ok)
      BY <1>0, <2>2, ChainTypes DEF Zombies, Begun, Prompt
    <3> QED  BY <1>1, <2>0, <2>2, <3>1 DEF Begun
  <2>4. r \notin Zombies(ok) /\ r # row[v]
    BY <1>0, <2>0, <2>1, FollowersAreLive
  <2>5. CASE r # row[w]
    <3>1. r # successor[w]
      BY <1>0, <2>1, ChainTypes DEF SweepInv, Follows
    <3>2. Follows(v, r)'
      <4>1. status'[r] = status[r] /\ delay'[r] = delay[r]
            /\ age'[r] = age[r] /\ attempts'[r] = attempts[r]
        BY <1>0, <1>1, <2>4, <2>5, <3>1, ChainTypes
      <4>2. age'[row[v]] = age[row[v]]
        BY <2>0, <2>3 DEF Begun
      <4> QED  BY <2>0, <2>1, <4>1, <4>2, StillFollows
    <3> QED  BY <3>2
  <2>6. CASE r = row[w]
    <3>1. Begun(w) < Begun(v)
      BY <1>2, <2>1, <2>6 DEF Follows, Begun
    <3>2. CASE successor[w] # None
      <4>0. PICK s \in Row : s = successor[w]
        BY <1>0, <3>2, ChainTypes
      <4>1. status[s] = "uncommitted" /\ attempts[s] = 0
        BY <1>0, <3>2, <4>0, ChainTypes DEF SweepInv, NextInv, Untried
      <4>2. s # row[w] /\ s # row[v] /\ s \notin Zombies(ok)
        BY <1>2, <1>4, <2>2, <4>1
      <4>3. status'[s] = "pending" /\ attempts'[s] = 0 /\ delay'[s] \in Nat
        BY <1>0, <1>1, <4>0, <4>1, <4>2, ChainTypes
      <4>4. 0 * Backoff = 0
        BY <1>0, ChainTypes
      <4>5. Begun(v)' + delay'[s] >= 1 + attempts'[s] * Backoff
        BY <1>2, <2>2, <2>3, <3>1, <4>3, <4>4
      <4>6. Follows(v, s)'
        BY <2>0, <4>2, <4>3, <4>5 DEF Follows
      <4> QED  BY <4>6
    <3>3. CASE successor[w] = None
      <4>1. PICK q \in Row : Follows(w, q)
        BY <1>1, <3>3 DEF NextInv, SweepsFollowed
      <4>2. q # row[w] /\ q \notin Zombies(ok)
        BY <1>0, <1>1, <4>1, FollowersAreLive
      <4>3. status'[q] = status[q] /\ delay'[q] = delay[q]
            /\ age'[q] = age[q] /\ attempts'[q] = attempts[q]
        BY <1>0, <1>1, <3>3, <4>2, ChainTypes
      <4>4. q # row[v]
        BY <1>0, <1>2, <2>2, <3>1, <4>1, ChainTypes DEF Follows, Begun
      <4>5. attempts[q] \in Nat /\ age[q] \in Nat /\ delay[q] \in Nat /\ attempts[q] * Backoff \in Nat
            /\ (attempts[q] >= 1 => (attempts[q] - 1) * Backoff \in Nat)
        BY <1>0, ChainTypes, OneAttemptMore
      <4>6. \/ status[q] = "pending" /\ Begun(v) + delay[q] >= 1 + attempts[q] * Backoff
            \/ /\ status[q] = "running" /\ attempts[q] >= 1
               /\ Begun(v) >= 1 + (attempts[q] - 1) * Backoff /\ age[q] < Begun(v)
        BY <1>2, <2>2, <3>1, <4>1, <4>5 DEF Follows
      <4>7. Follows(v, q)'
        BY <2>0, <2>3, <4>3, <4>4, <4>6 DEF Follows
      <4> QED  BY <4>7
    <3> QED  BY <3>2, <3>3
  <2> QED  BY <2>5, <2>6
<1> QED  BY <1>5, <1>6, <1>7

\* A tick: next hour's keys lapse, delays shrink and sweeps age alike.
LEMMA NextByTick ==
    ASSUME Prompt, NextInv, Tick
    PROVE  Untried' /\ KeysWait' /\ SweepsFollowed'
<1>0. SweepInv
  BY DEF NextInv
<1>1. /\ \A w \in Worker : row[w] # None => age[row[w]] < SweepLimit
      /\ minute' = (minute + 1) % TicksPerHour
      /\ keyed' = [r \in Row |-> keyed[r] /\ ~KeysLapse]
      /\ age' = [r \in Row |->
                 IF status[r] = "running" /\ age[r] <= ZombieAfter THEN age[r] + 1 ELSE age[r]]
      /\ delay' = [r \in Row |-> IF delay[r] > 0 THEN delay[r] - 1 ELSE 0]
      /\ UNCHANGED <<status, attempts, phase, row, successor, requeues>>
  BY DEF Tick, workerVars, bounds
<1>2. Untried'
  BY <1>1 DEF NextInv, Untried
<1>3. KeysWait'
  <2> SUFFICES ASSUME requeues' = 0, NEW q \in Row, keyed'[q]
               PROVE  /\ status'[q] \in {"uncommitted", "pending"} /\ attempts'[q] = 0
                      /\ delay'[q] >= TicksPerHour - minute'
    BY DEF KeysWait
  <2>1. keyed[q] /\ minute # TicksPerHour - 1
    BY <1>1 DEF KeysLapse
  <2>2. /\ status[q] \in {"uncommitted", "pending"} /\ attempts[q] = 0
        /\ delay[q] >= TicksPerHour - minute
    BY <1>1, <2>1 DEF NextInv, KeysWait
  <2>3. minute + 1 \in Nat /\ minute + 1 < TicksPerHour /\ minute' = minute + 1
    <3>1. minute + 1 \in Nat /\ TicksPerHour \in Nat /\ minute + 1 < TicksPerHour
      BY <1>0, <2>1, ChainTypes
    <3>2. minute' = (minute + 1) % TicksPerHour
      BY <1>1
    <3> QED  BY <3>1, <3>2, WithinTheHour
  <2>4. delay'[q] = delay[q] - 1
    BY <1>0, <1>1, <2>2, <2>3, ChainTypes
  <2> QED  BY <1>0, <1>1, <2>2, <2>3, <2>4, ChainTypes
<1>4. SweepsFollowed'
  <2> SUFFICES ASSUME requeues' = 0, NEW v \in Worker, phase'[v] = "scheduled", successor'[v] = None
               PROVE  \E q \in Row : Follows(v, q)'
    BY DEF SweepsFollowed
  <2>0. phase[v] = "scheduled" /\ successor[v] = None /\ row'[v] = row[v]
    BY <1>1
  <2>1. PICK q \in Row : Follows(v, q)
    BY <1>1, <2>0 DEF NextInv, SweepsFollowed
  <2>2. row[v] \in Row /\ status[row[v]] = "running" /\ Begun(v) \in Nat /\ Begun(v) < SweepLimit
    BY <1>0, <1>1, <2>0, SweepTypes DEF Begun
  <2>3. Begun(v)' = Begun(v) + 1
    BY <1>0, <1>1, <2>0, <2>2, ChainTypes DEF Begun, Prompt
  <2>4. attempts[q] \in Nat /\ age[q] \in Nat /\ delay[q] \in Nat /\ attempts[q] * Backoff \in Nat
        /\ (attempts[q] >= 1 => (attempts[q] - 1) * Backoff \in Nat)
    BY <1>0, ChainTypes, OneAttemptMore
  <2>5. delay'[q] \in Nat /\ delay'[q] >= delay[q] - 1 /\ age'[q] \in Nat /\ age'[q] <= age[q] + 1
    BY <1>0, <1>1, <2>4, ChainTypes
  <2>6. \/ status[q] = "pending" /\ (Begun(v) + 1) + delay'[q] >= 1 + attempts[q] * Backoff
        \/ /\ status[q] = "running" /\ attempts[q] >= 1
           /\ Begun(v) + 1 >= 1 + (attempts[q] - 1) * Backoff /\ age'[q] < Begun(v) + 1
    BY <2>1, <2>2, <2>4, <2>5 DEF Follows
  <2>7. Follows(v, q)'
    BY <1>1, <2>0, <2>1, <2>3, <2>6 DEF Follows
  <2> QED  BY <2>7
<1> QED  BY <1>2, <1>3, <1>4

\* One step per action.
LEMMA NextInvStays ==
    ASSUME Prompt, Persistent, NextInv, [Next]_vars
    PROVE  NextInv'
<1>0. SweepInv /\ SweepInv'
  BY SweepInvHolds DEF NextInv
<1> SUFFICES Untried' /\ KeysWait' /\ SweepsFollowed'
  BY <1>0 DEF NextInv
<1>1. CASE UNCHANGED vars
  BY <1>1, NextByWorkers DEF vars, rowVars, workerVars, bounds
<1>2. ASSUME NEW w \in Worker, Start(w) \/ Exit(w) PROVE Untried' /\ KeysWait' /\ SweepsFollowed'
  <2>1. UNCHANGED <<rowVars, row, minute, requeues>> /\ UNCHANGED successor
    BY <1>2 DEF Start, Exit, bounds
  <2>2. \A v \in Worker : phase'[v] = "scheduled" => phase[v] = "scheduled"
    BY <1>0, <1>2, ChainTypes DEF Start, Exit
  <2> QED  BY <2>1, <2>2, NextByWorkers
<1>3. ASSUME NEW w \in Worker, Create(w) PROVE Untried' /\ KeysWait' /\ SweepsFollowed'
  <2> DEFINE f == Fresh
  <2>1. NewRow(f, "pending", FALSE, 0) /\ UNCHANGED <<row, minute, requeues, successor>>
        /\ phase' = [phase EXCEPT ![w] = "up"]
    BY <1>3 DEF Create, bounds
  <2>2. \A v \in Worker : phase'[v] = "scheduled" => phase[v] = "scheduled"
    BY <1>0, <2>1, ChainTypes
  <2> HIDE DEF f
  <2> QED  BY <2>1, <2>2, NextByNewRow
<1>4. ASSUME NEW w \in Worker, Break(w) \/ Crash(w) PROVE Untried' /\ KeysWait' /\ SweepsFollowed'
  <2>1. \E next \in Phase : next # "scheduled" /\ phase' = [phase EXCEPT ![w] = next]
    BY <1>4 DEF Break, Crash, Phase
  <2>2. /\ Undo(w) /\ successor' = [successor EXCEPT ![w] = None]
        /\ UNCHANGED <<attempts, age, minute, requeues>>
    BY <1>4 DEF Break, Crash
  <2>3. \A v \in Worker \ {w} : row'[v] = row[v]
    BY <1>0, <1>4, ChainTypes DEF Break, Crash
  <2> QED  BY <2>1, <2>2, <2>3, NextByUndo
<1>5. ASSUME NEW r \in Row, RetryNow(r) PROVE Untried' /\ KeysWait' /\ SweepsFollowed'
  <2>1. requeues' # 0
    BY <1>0, <1>5, ChainTypes DEF RetryNow
  <2>2. Untried'
    BY <1>0, <1>5, ChainTypes DEF RetryNow, NextInv, Untried
  <2> QED  BY <2>1, <2>2 DEF KeysWait, SweepsFollowed
<1> QED
  BY <1>1, <1>2, <1>3, <1>4, <1>5, NextBySchedule, NextByClaim, NextByFailure, NextByCommit, NextByTick
     DEF Next, Run, Sweep

(***************************************************************************)
(* With sweeps prompt and attempts that outlast one, a sweep that completes *)
(* leaves another row waiting or at work, for every deployment, length of   *)
(* the hour and number of crashes and breaks: next hour's key is held by a  *)
(* row nobody could have finished without leaving one in turn.              *)
(***************************************************************************)
THEOREM SweepsLeaveNext ==
    ASSUME Prompt, Persistent
    PROVE  Spec => SweepLeavesNext
<1>1. NextInv /\ [Next]_vars => NextInv'
  BY NextInvStays
<1>2. ASSUME NextInv, [Next]_vars
      PROVE  [requeues = 0 => \A w \in Worker : Sweep(w) =>
                 \E r \in Row : status'[r] \in {"pending", "running"}]_vars
  <2> SUFFICES ASSUME requeues = 0, NEW w \in Worker, NEW ok \in BOOLEAN, NEW next \in Phase,
                      Commit(w, ok, next)
               PROVE  \E r \in Row : status'[r] \in {"pending", "running"}
    BY DEF Sweep
  <2>0. SweepInv
    BY <1>2 DEF NextInv
  <2>1. /\ phase[w] = "scheduled"
        /\ status' = [r \in Row |-> IF r = row[w] THEN "done"
                                    ELSE IF r = successor[w] THEN "pending"
                                    ELSE IF r \in Zombies(ok) THEN SweptTo(r) ELSE status[r]]
    BY DEF Commit
  <2>2. CASE successor[w] # None
    <3>1. successor[w] \in Row /\ successor[w] # row[w]
      BY <2>0, <2>1, <2>2, ChainTypes DEF SweepInv
    <3>2. status'[successor[w]] = "pending"
      BY <2>1, <3>1
    <3> QED  BY <3>1, <3>2
  <2>3. CASE successor[w] = None
    <3>1. PICK r \in Row : Follows(w, r)
      BY <1>2, <2>1, <2>3 DEF NextInv, SweepsFollowed
    <3>2. status'[r] = status[r] /\ status[r] \in {"pending", "running"}
      BY <2>0, <2>1, <2>3, <3>1, FollowersAreLive
    <3> QED  BY <3>2
  <2> QED  BY <2>2, <2>3
<1> QED  BY <1>1, <1>2, NextInvStarts, PTL DEF Spec, SweepLeavesNext
-----------------------------------------------------------------------------
(* The chain goes on.                                                      *)

\* No process was killed, no row pulled forward, and the breaks leave attempts.
Steady == crashes = 0 /\ requeues = 0 /\ breaks < MaxAttempts

\* Somebody holds the chain, or will.
Going == \E r \in Row : status[r] = "pending" \/ \E w \in Worker : row[w] = r

ChainGoesOn == Steady /\ (\E w \in Worker : phase[w] \notin {"down", "creating"}) => Going

(***************************************************************************)
(* While nobody is killed a running row is in somebody's hands, and an      *)
(* attempt that is not the last one ended in a break.                      *)
(***************************************************************************)
BreaksAreAttempts ==
    Steady => \A r \in Row :
        /\ status[r] = "pending" => attempts[r] <= breaks
        /\ status[r] = "running" => /\ attempts[r] <= breaks + 1
                                    /\ \E w \in Worker : row[w] = r
        /\ \A w \in Worker : phase[w] = "failing" /\ row[w] = r => attempts[r] <= breaks

ChainInv == NextInv /\ BreaksAreAttempts /\ ChainGoesOn

\* The mishaps are counted, and a steady chain was steady before.
LEMMA SteadyBefore ==
    ASSUME SweepInv, [Next]_vars, Steady'
    PROVE  /\ Steady /\ breaks \in Nat /\ breaks' \in Nat /\ breaks <= breaks'
           /\ \A w \in Worker : ~Crash(w)
           /\ \A r \in Row : ~RetryNow(r)
<1>1. {crashes, breaks, requeues} \subseteq Nat
  BY DEF SweepInv, TypeOK
<1>2. CASE UNCHANGED vars
  BY <1>1, <1>2 DEF vars, bounds, Steady, Crash, RetryNow
<1>3. ASSUME NEW w \in Worker, Run(w) \/ Exit(w) PROVE UNCHANGED bounds
  BY <1>3 DEF Run, Start, Create, Exit, Claim, ScheduleSuccessor, Sweep, Commit, RecordFailure, bounds
<1>4. ASSUME NEW w \in Worker, Break(w) PROVE UNCHANGED <<crashes, requeues>> /\ breaks' = breaks + 1
  BY <1>4 DEF Break
<1>5. ASSUME NEW w \in Worker, Crash(w) PROVE FALSE
  BY <1>1, <1>5 DEF Crash, Steady
<1>6. ASSUME NEW r \in Row, RetryNow(r) PROVE FALSE
  BY <1>1, <1>6 DEF RetryNow, Steady
<1>7. Tick => UNCHANGED bounds
  BY DEF Tick
<1>8. /\ crashes' = crashes /\ requeues' = requeues /\ (breaks' = breaks \/ breaks' = breaks + 1)
  BY <1>2, <1>3, <1>4, <1>5, <1>6, <1>7 DEF Next, vars, bounds
<1> QED  BY <1>1, <1>5, <1>6, <1>8, ChainAssumption DEF Steady

\* One step per action.
LEMMA ChainInvStays ==
    ASSUME Prompt, Persistent, ChainInv, [Next]_vars
    PROVE  ChainInv'
<1>0. SweepInv /\ NextInv' /\ SweepInv'
  BY NextInvStays DEF ChainInv, NextInv
<1> SUFFICES ASSUME Steady' PROVE BreaksAreAttempts' /\ ChainGoesOn'
  BY <1>0 DEF ChainInv, BreaksAreAttempts, ChainGoesOn
<1>s. /\ Steady /\ breaks \in Nat /\ breaks' \in Nat /\ breaks <= breaks'
      /\ \A w \in Worker : ~Crash(w)
      /\ \A r \in Row : ~RetryNow(r)
  BY <1>0, SteadyBefore
<1>t. \A r \in Row :
        /\ status[r] = "pending" => attempts[r] <= breaks
        /\ status[r] = "running" => attempts[r] <= breaks + 1 /\ \E w \in Worker : row[w] = r
        /\ \A w \in Worker : phase[w] = "failing" /\ row[w] = r => attempts[r] <= breaks
  BY <1>s DEF ChainInv, BreaksAreAttempts
<1>g. (\E w \in Worker : phase[w] \notin {"down", "creating"}) => Going
  BY <1>s DEF ChainInv, ChainGoesOn
<1> DEFINE Tries(r) ==
             /\ status[r] = "pending" => attempts[r] <= breaks
             /\ status[r] = "running" => attempts[r] <= breaks + 1 /\ \E w \in Worker : row[w] = r
             /\ \A w \in Worker : phase[w] = "failing" /\ row[w] = r => attempts[r] <= breaks
<1> SUFFICES /\ \A r \in Row : Tries(r)'
             /\ ((\E w \in Worker : phase'[w] \notin {"down", "creating"}) => Going')
  BY DEF BreaksAreAttempts, ChainGoesOn
<1>1. CASE UNCHANGED vars
  BY <1>1, <1>t, <1>g DEF vars, rowVars, workerVars, bounds, Going
<1>2. ASSUME NEW w \in Worker, Start(w)
      PROVE  /\ \A r \in Row : Tries(r)'
             /\ ((\E v \in Worker : phase'[v] \notin {"down", "creating"}) => Going')
  <2>1. UNCHANGED <<rowVars, row, bounds>>
        /\ phase' = [phase EXCEPT ![w] = IF \E r \in Row : Live(r) THEN "up" ELSE "creating"]
    BY <1>2 DEF Start
  <2>2. \A r \in Row : Tries(r)'
    BY <1>0, <1>t, <2>1, ChainTypes DEF rowVars, bounds
  <2>3. (\E r \in Row : Live(r)) => Going
    BY <1>t DEF Live, Going
  <2>4. (\E v \in Worker : phase'[v] \notin {"down", "creating"}) => Going
    BY <1>0, <1>g, <2>1, <2>3, ChainTypes
  <2> QED  BY <2>1, <2>2, <2>4 DEF Going, rowVars
<1>3. ASSUME NEW w \in Worker, Exit(w)
      PROVE  /\ \A r \in Row : Tries(r)'
             /\ ((\E v \in Worker : phase'[v] \notin {"down", "creating"}) => Going')
  <2>1. UNCHANGED <<rowVars, row, bounds>> /\ phase[w] = "up" /\ phase' = [phase EXCEPT ![w] = "down"]
    BY <1>3 DEF Exit
  <2>2. \A r \in Row : Tries(r)'
    BY <1>0, <1>t, <2>1, ChainTypes DEF rowVars, bounds
  <2> QED  BY <1>g, <2>1, <2>2 DEF Going, rowVars
<1>4. ASSUME NEW w \in Worker, NEW f, NEW st \in {"pending", "uncommitted"}, NEW key, NEW d,
             NewRow(f, st, key, d), UNCHANGED <<row, bounds>>,
             NEW p \in {"up", "scheduled"}, phase' = [phase EXCEPT ![w] = p],
             st = "pending" \/ Going
      PROVE  (\A r \in Row : Tries(r)') /\ Going'
  <2>1. /\ f \in Row /\ status[f] \in {"none", "done", "failed"} /\ \A v \in Worker : row[v] # f
        /\ status' = [status EXCEPT ![f] = st] /\ attempts' = [attempts EXCEPT ![f] = 0]
    BY <1>4 DEF NewRow, Free
  <2>2. ASSUME NEW r \in Row PROVE Tries(r)'
    <3>1. CASE r = f
      BY <1>0, <1>s, <1>4, <2>1, <3>1, ChainTypes DEF bounds
    <3>2. CASE r # f
      BY <1>0, <1>t, <1>4, <2>1, <3>2, ChainTypes DEF bounds
    <3> QED  BY <3>1, <3>2
  <2>3. Going'
    BY <1>0, <1>4, <2>1, ChainTypes DEF Going
  <2> QED  BY <2>2, <2>3
<1>5. ASSUME NEW w \in Worker, Create(w) PROVE (\A r \in Row : Tries(r)') /\ Going'
  <2>1. /\ NewRow(Fresh, "pending", FALSE, 0) /\ phase' = [phase EXCEPT ![w] = "up"]
        /\ UNCHANGED <<row, bounds>>
    BY <1>5 DEF Create
  <2> QED  BY <1>4, <2>1
<1>6. ASSUME NEW w \in Worker, ScheduleSuccessor(w) PROVE (\A r \in Row : Tries(r)') /\ Going'
  <2>1. phase[w] = "sweeping" /\ phase' = [phase EXCEPT ![w] = "scheduled"] /\ UNCHANGED <<row, bounds>>
    BY <1>6 DEF ScheduleSuccessor
  <2>2. Going
    BY <1>g, <2>1
  <2>3. CASE \E r \in Row : keyed[r]
    <3>1. UNCHANGED rowVars
      BY <1>6, <2>3 DEF ScheduleSuccessor
    <3>2. \A r \in Row : Tries(r)'
      BY <1>0, <1>t, <2>1, <3>1, ChainTypes DEF rowVars, bounds
    <3> QED  BY <2>1, <2>2, <3>1, <3>2 DEF Going, rowVars
  <2>4. CASE ~ \E r \in Row : keyed[r]
    <3>1. NewRow(Fresh, "uncommitted", TRUE, TicksPerHour)
      BY <1>6, <2>4 DEF ScheduleSuccessor
    <3> QED  BY <1>4, <2>1, <2>2, <3>1
  <2> QED  BY <2>3, <2>4
<1>7. ASSUME NEW w \in Worker, NEW q \in Row, Claim(w, q) PROVE (\A r \in Row : Tries(r)') /\ Going'
  <2>1. /\ phase[w] = "up" /\ status[q] = "pending"
        /\ status' = [status EXCEPT ![q] = "running"] /\ attempts' = [attempts EXCEPT ![q] = @ + 1]
        /\ phase' = [phase EXCEPT ![w] = "sweeping"] /\ row' = [row EXCEPT ![w] = q]
        /\ breaks' = breaks /\ row[w] = None /\ row'[w] = q /\ \A v \in Worker \ {w} : row'[v] = row[v]
    BY <1>0, <1>7, ChainTypes DEF Claim, Due, bounds, SweepInv
  <2>2. ASSUME NEW r \in Row PROVE Tries(r)'
    <3>1. CASE r = q
      <4>1. \A v \in Worker : row[v] # q
        BY <1>0, <2>1, ChainTypes DEF SweepInv
      <4>2. status'[q] = "running" /\ attempts'[q] = attempts[q] + 1 /\ attempts[q] <= breaks
        BY <1>0, <1>t, <2>1, ChainTypes
      <4>3. \A v \in Worker : row'[v] = q => phase'[v] = "sweeping"
        BY <1>0, <2>1, <4>1, ChainTypes
      <4>4. attempts'[q] <= breaks' + 1
        BY <1>0, <1>s, <2>1, <4>2, ChainTypes
      <4> QED  BY <2>1, <3>1, <4>2, <4>3, <4>4
    <3>2. CASE r # q
      <4>1. status'[r] = status[r] /\ attempts'[r] = attempts[r]
        BY <1>0, <2>1, <3>2, ChainTypes
      <4>2. \A v \in Worker : row[v] = r => row'[v] = r
        BY <1>0, <2>1, <3>2, ChainTypes
      <4>3. \A v \in Worker : row'[v] = r /\ phase'[v] = "failing" => row[v] = r /\ phase[v] = "failing"
        BY <1>0, <2>1, <3>2, ChainTypes
      <4> QED  BY <1>t, <2>1, <4>1, <4>2, <4>3
    <3> QED  BY <3>1, <3>2
  <2>3. Going'
    BY <2>1 DEF Going
  <2> QED  BY <2>2, <2>3
<1>8. ASSUME NEW w \in Worker, NEW next \in Phase, RecordFailure(w, next)
      PROVE (\A r \in Row : Tries(r)') /\ Going'
  <2>1. PICK q \in Row : q = row[w]
    BY <1>0, <1>8, ChainTypes DEF RecordFailure, SweepInv
  <2>2. attempts[q] <= breaks /\ attempts[q] \in Nat /\ ~(attempts[q] >= MaxAttempts)
    BY <1>0, <1>s, <1>t, <1>8, <2>1, ChainTypes, ChainAssumption DEF RecordFailure, Steady
  <2>3. /\ phase[w] = "failing" /\ status' = [status EXCEPT ![q] = "pending"]
        /\ next \in {"up", "down"} /\ phase' = [phase EXCEPT ![w] = next]
        /\ row' = [row EXCEPT ![w] = None] /\ attempts' = attempts /\ breaks' = breaks
    BY <1>8, <2>1, <2>2 DEF RecordFailure, Carry, bounds
  <2>4. ASSUME NEW r \in Row PROVE Tries(r)'
    <3>1. CASE r = q
      BY <1>0, <2>1, <2>2, <2>3, <3>1, ChainTypes DEF SweepInv
    <3>2. CASE r # q
      <4>1. \A v \in Worker : row[v] = r <=> row'[v] = r
        BY <1>0, <2>1, <2>3, <3>2, ChainTypes
      <4>2. \A v \in Worker : phase'[v] = "failing" => phase[v] = "failing"
        BY <1>0, <2>3, ChainTypes
      <4> QED  BY <1>0, <1>t, <2>3, <3>2, <4>1, <4>2, ChainTypes
    <3> QED  BY <3>1, <3>2
  <2>5. Going'
    BY <1>0, <2>3, ChainTypes DEF Going
  <2> QED  BY <2>4, <2>5
<1>9. ASSUME NEW w \in Worker, Break(w) PROVE (\A r \in Row : Tries(r)') /\ Going'
  <2>1. PICK q \in Row : q = row[w]
    BY <1>0, <1>9, ChainTypes DEF Break, SweepInv
  <2>2. /\ phase[w] = "scheduled" /\ breaks' = breaks + 1
        /\ status' = [r \in Row |-> IF r = successor[w] THEN "none" ELSE status[r]]
        /\ phase' = [phase EXCEPT ![w] = "failing"] /\ UNCHANGED <<attempts, row>>
    BY <1>9 DEF Break, Undo
  <2>3. status[q] = "running"
    BY <1>0, <2>1, <2>2 DEF SweepInv
  <2>4. ASSUME NEW r \in Row PROVE Tries(r)'
    <3>1. attempts[r] \in Nat /\ (status'[r] = status[r] \/ status'[r] = "none")
      BY <1>0, <2>2, ChainTypes
    <3>2. ASSUME NEW v \in Worker, phase'[v] = "failing", row'[v] = r PROVE attempts[r] <= breaks + 1
      BY <1>0, <1>s, <1>t, <2>1, <2>2, <2>3, <3>1, <3>2, ChainTypes
    <3> QED  BY <1>s, <1>t, <2>2, <3>1, <3>2
  <2>5. Going'
    BY <2>1, <2>2 DEF Going
  <2> QED  BY <2>4, <2>5
<1>10. ASSUME NEW w \in Worker, Sweep(w) PROVE (\A r \in Row : Tries(r)') /\ Going'
  <2>0. PICK ok \in BOOLEAN, next \in Phase : Commit(w, ok, next)
    BY <1>10 DEF Sweep
  <2>1. /\ phase[w] = "scheduled" /\ attempts' = attempts /\ breaks' = breaks
        /\ status' = [r \in Row |-> IF r = row[w] THEN "done"
                                    ELSE IF r = successor[w] THEN "pending"
                                    ELSE IF r \in Zombies(ok) THEN SweptTo(r) ELSE status[r]]
        /\ next \in {"up", "down"} /\ phase' = [phase EXCEPT ![w] = next]
        /\ row' = [row EXCEPT ![w] = None]
    BY <2>0 DEF Commit, Carry, bounds
  <2>2. Zombies(ok) = {}
    <3>1. ASSUME NEW r \in Row, status[r] = "running" PROVE age[r] <= ZombieAfter
      <4>1. PICK v \in Worker : row[v] = r
        BY <1>t, <3>1
      <4> QED  BY <1>0, <4>1, ChainTypes DEF SweepInv, Prompt
    <3> QED  BY <1>0, <3>1, ChainTypes DEF Zombies
  <2>3. ASSUME NEW r \in Row PROVE Tries(r)'
    <3>1. CASE r = row[w]
      BY <1>0, <2>1, <3>1, ChainTypes DEF SweepInv
    <3>2. CASE r # row[w] /\ r = successor[w]
      BY <1>0, <1>s, <2>1, <3>2, ChainTypes DEF SweepInv, NextInv, Untried, ChainInv
    <3>3. CASE r # row[w] /\ r # successor[w]
      <4>1. \A v \in Worker : row[v] = r <=> row'[v] = r
        BY <1>0, <2>1, <3>3, ChainTypes
      <4>2. \A v \in Worker : phase'[v] = "failing" => phase[v] = "failing"
        BY <1>0, <2>1, ChainTypes
      <4>3. status'[r] = status[r]
        BY <2>1, <2>2, <3>3
      <4> QED  BY <1>t, <2>1, <4>1, <4>2, <4>3
    <3> QED  BY <3>1, <3>2, <3>3
  <2>4. CASE successor[w] # None
    <3>1. successor[w] \in Row /\ successor[w] # row[w]
      BY <1>0, <2>1, <2>4, ChainTypes DEF SweepInv
    <3> QED  BY <2>1, <2>3, <3>1 DEF Going
  <2>5. CASE successor[w] = None
    <3>1. PICK r \in Row : Follows(w, r)
      BY <1>s, <2>1, <2>5 DEF ChainInv, NextInv, SweepsFollowed, Steady
    <3>2. status'[r] = status[r] /\ status[r] \in {"pending", "running"}
      BY <1>0, <2>1, <2>5, <3>1, FollowersAreLive
    <3> QED  BY <2>3, <3>2 DEF Going
  <2> QED  BY <2>3, <2>4, <2>5
<1>11. CASE Tick
  <2>1. UNCHANGED <<status, attempts, workerVars, bounds>>
    BY <1>11 DEF Tick
  <2> QED  BY <1>t, <1>g, <2>1 DEF workerVars, bounds, Going
<1> QED
  BY <1>s, <1>1, <1>2, <1>3, <1>5, <1>6, <1>7, <1>8, <1>9, <1>10, <1>11 DEF Next, Run

(***************************************************************************)
(* Why the chain cannot break, and what that takes: once a process has come *)
(* up, a housekeeping row waits or is in the hands of a worker, unless a    *)
(* process was killed, an operator pulled a row forward, or jobs broke the  *)
(* transaction as often as a row has attempts (the docstring of             *)
(* housekeeping.py; the findings are two of the three exceptions).          *)
(***************************************************************************)
THEOREM ChainStays ==
    ASSUME Prompt, Persistent
    PROVE  Spec => []ChainGoesOn
<1>1. Init => ChainInv
  <2>1. Init => BreaksAreAttempts /\ ChainGoesOn
    BY ChainAssumption DEF Init, BreaksAreAttempts, ChainGoesOn
  <2> QED  BY <2>1, NextInvStarts DEF ChainInv
<1>2. ChainInv /\ [Next]_vars => ChainInv'
  BY ChainInvStays
<1>3. ChainInv => ChainGoesOn
  BY DEF ChainInv
<1> QED  BY <1>1, <1>2, <1>3, PTL DEF Spec
=============================================================================

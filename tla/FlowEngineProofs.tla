--------------------------- MODULE FlowEngineProofs ---------------------------
(***************************************************************************)
(* Theorems about FlowEngine for every number of contacts, flows,           *)
(* executions and waits.                                                    *)
(***************************************************************************)
EXTENDS FlowEngine, TLAPS

-----------------------------------------------------------------------------
(* What a step of the engine is, seen from the committed rows.              *)

\* A transaction begins with a new execution.
Starts(c, f, explicit, e) ==
    /\ Idle(c) /\ Runnable(f, explicit) /\ e \in NextId(c)
    /\ step' = [step EXCEPT ![c] = Entering(NoStep, c, f, explicit, e)]
    /\ UNCHANGED <<lifeVars, execution, timer, history>>

Stopping == [at : {"no", "ready", "overtaken", "scanned", "late"}, scanned : SUBSET Exec]

Cause == {"reply", "timer"}

\* A transaction begins by leaving the wait an execution is at.
Resumes(e, by) ==
    /\ Idle(ContactOf[e]) /\ execution[e].status \in Waiting
    /\ step' = [step EXCEPT ![ContactOf[e]] = Resumed(e, <<e, execution[e].waits>>, by)]
    /\ UNCHANGED <<lifeVars, execution, timer, history>>

\* What a run may be when its transaction commits.
Outcome(c, row, armed) ==
    \/ /\ row = [RunRow(c) EXCEPT !.status = row.status]
       /\ row.status \in {"completed", "failed"}
       /\ armed = {}
    \/ /\ RunRow(c).waits < WaitsOf[step[c].run]
       /\ row = [RunRow(c) EXCEPT !.status = row.status, !.waits = RunRow(c).waits + 1,
                                  !.timed = row.timed]
       /\ row.status \in Waiting /\ row.timed \in BOOLEAN
       /\ armed = IF row.timed THEN {<<step[c].run, RunRow(c).waits + 1>>} ELSE {}

Ends(c, row, armed) == Running(c) /\ Outcome(c, row, armed) /\ Commit(c, row, armed)

\* Live executions that no step has locked are expired.
CutsOff(cut, who) ==
    /\ \A e \in cut : Live(e) /\ ~Locked(e)
    /\ who \subseteq {ContactOf[e] : e \in cut}
    /\ execution' = [e \in Exec |-> IF e \in cut THEN Expired(execution[e]) ELSE execution[e]]
    /\ timer' = Disarmed(who, timer)
    /\ UNCHANGED <<step, history>>

\* A claimed or pending row of the queue moves.
TimerMoves(w) ==
    /\ \/ timer[w] \in {"pending", "claimed"}
          /\ timer' \in {[timer EXCEPT ![w] = s] : s \in {"pending", "claimed", "failed"}}
       \/ DropStaleTimer(w)
    /\ UNCHANGED <<lifeVars, execution, step, history>>

\* Only the flow itself is written.
LifeMoves(f) ==
    /\ \/ Publish(f) \/ ArchiveFlow(f) \/ RestoreFlow(f)
       \/ SetOffline(f) \/ ScanConversations(f) \/ OfflineCrash(f)
    /\ UNCHANGED <<execution, timer, step, history>>

Moves ==
    \/ \E c \in Contact, f \in Flow, x \in BOOLEAN : \E e \in NextId(c) : Starts(c, f, x, e)
    \/ \E e \in Exec, by \in Cause : Resumes(e, by)
    \/ \E e \in Exec : Reask(e)
    \/ \E w \in Wait : TimerMoves(w)
    \/ \E cut \in SUBSET Exec, who \in SUBSET Contact : CutsOff(cut, who) /\ UNCHANGED lifeVars
    \/ \E f \in Flow : StopConversations(f)
    \/ \E c \in Contact : RunBlock(c) \/ RollBack(c)
    \/ \E c \in Contact, row \in Row, armed \in SUBSET Wait : Ends(c, row, armed)
    \/ \E c \in Contact, f \in Flow : HandOff(c, f)
    \/ \E f \in Flow : LifeMoves(f)

\* The rows a transaction holds: its run, and what it has superseded or left.
StepInv(c) ==
    Running(c) =>
        /\ step[c].run \in step[c].touched
        /\ step[c].touched \subseteq ExecOf(c)
        /\ RunRow(c).status = "running"
        /\ \A e \in step[c].touched \ {step[c].run} : step[c].rows[e].status \in OverStatus
        /\ LiveOf(c) \subseteq step[c].touched
        /\ \A e \in step[c].touched : ~Over(e)
        /\ step[c].by # "start" => step[c].left \in Wait

\* Between transactions nothing is held.
RestInv(c) == ~Running(c) => Idle(c)

\* The wait an execution is at is one of its waits.
WaitsInv == \A e \in Exec : execution[e].status \in Waiting => <<e, execution[e].waits>> \in Wait

EngineInv ==
    /\ FlowTypeOK
    /\ WaitsInv
    /\ OneLiveExecution
    /\ \A c \in Contact : StepInv(c) /\ RestInv(c)

-----------------------------------------------------------------------------
(* Rows and steps.                                                         *)

LEMMA RowTypes ==
    /\ NoRow \in Row /\ NoRow.status = "none"
    /\ NoRow.waits = 0 /\ NoRow.timed = FALSE
    /\ \A row \in Row : /\ Expired(row) \in Row
                        /\ Expired(row).status = "expired"
                        /\ Expired(row).waits = row.waits
<1>1. (CHOOSE f \in Flow : TRUE) \in Flow
  BY FlowAssumption
<1>2. QED
  BY <1>1 DEF NoRow, Row, Expired, LiveStatus, OverStatus

LEMMA StepTypes ==
    /\ NoStep \in Step /\ NoStep.run = 0 /\ NoStep.touched = {} /\ NoStep.left = <<>>
    /\ NoStep.shared = {} /\ NoStep.by = "start" /\ NoStep.cancels = FALSE
    /\ NoStep.rows = [e \in Exec |-> NoRow]
    /\ NoStep.blocks = 0 /\ NoStep.ran = 0
BY RowTypes DEF NoStep, Step

\* Superseding touches every live row of the contact and expires it.
LEMMA SupersedeFacts ==
    ASSUME FlowTypeOK, NEW c \in Contact, NEW s \in Step
    PROVE  /\ Supersede(s, c) \in Step
           /\ Supersede(s, c).touched = s.touched \cup LiveOf(c)
           /\ \A e \in LiveOf(c) \ s.touched : Supersede(s, c).rows[e] = Expired(execution[e])
           /\ \A e \in Exec \ (LiveOf(c) \ s.touched) : Supersede(s, c).rows[e] = s.rows[e]
           /\ Supersede(s, c).cancels = (s.cancels \/ LiveOf(c) \ s.touched # {})
           /\ Supersede(s, c).run = s.run /\ Supersede(s, c).left = s.left
           /\ Supersede(s, c).by = s.by /\ Supersede(s, c).shared = s.shared
           /\ Supersede(s, c).blocks = s.blocks /\ Supersede(s, c).ran = s.ran
<1> DEFINE gone == LiveOf(c) \ s.touched
           new == [e \in Exec |-> IF e \in gone THEN Expired(execution[e]) ELSE s.rows[e]]
<1>1. gone \subseteq Exec /\ \A e \in Exec : execution[e] \in Row
  BY DEF LiveOf, ExecOf, FlowTypeOK
<1>2. new \in [Exec -> Row]
  BY <1>1, RowTypes DEF Step
<1>3. Supersede(s, c) = [s EXCEPT !.rows = new, !.touched = s.touched \cup gone,
                                  !.cancels = s.cancels \/ gone # {}]
  BY DEF Supersede, Superseded
<1>4. s.touched \cup gone = s.touched \cup LiveOf(c) /\ s.touched \cup gone \subseteq Exec
  BY <1>1 DEF Step
<1>5. (s.cancels \/ gone # {}) \in BOOLEAN
  OBVIOUS
<1> HIDE DEF new, gone
<1>6. /\ Supersede(s, c) \in Step
      /\ Supersede(s, c).touched = s.touched \cup gone
      /\ Supersede(s, c).rows = new
      /\ Supersede(s, c).cancels = (s.cancels \/ gone # {})
      /\ Supersede(s, c).run = s.run /\ Supersede(s, c).left = s.left
      /\ Supersede(s, c).by = s.by /\ Supersede(s, c).shared = s.shared
      /\ Supersede(s, c).blocks = s.blocks /\ Supersede(s, c).ran = s.ran
  BY <1>2, <1>3, <1>4, <1>5 DEF Step
<1>7. \A e \in Exec : new[e] = IF e \in gone THEN Expired(execution[e]) ELSE s.rows[e]
  BY DEF new
<1>8. QED
  BY <1>1, <1>4, <1>6, <1>7 DEF gone

Begun(row, f, explicit) ==
    /\ row \in Row
    /\ row.status = "running" /\ row.flow = f /\ row.preview = explicit
    /\ row.waits = 0 /\ row.timed = FALSE

HandedTo(row, f) == Begun(row, f, FALSE)

\* Entering a flow adds the new run to that.
LEMMA EnteringFacts ==
    ASSUME FlowTypeOK, NEW c \in Contact, NEW s \in Step,
           NEW f \in Flow, NEW x \in BOOLEAN, NEW e \in Exec,
           NEW u, u = Entering(s, c, f, x, e)
    PROVE      /\ u \in Step
               /\ u.run = e /\ u.touched = s.touched \cup LiveOf(c) \cup {e}
               /\ Begun(u.rows[e], f, x)
               /\ \A d \in (LiveOf(c) \ s.touched) \ {e} : u.rows[d] = Expired(execution[d])
               /\ \A d \in (Exec \ (LiveOf(c) \ s.touched)) \ {e} : u.rows[d] = s.rows[d]
               /\ u.cancels = (s.cancels \/ LiveOf(c) \ s.touched # {})
               /\ u.left = s.left /\ u.by = s.by /\ u.shared = s.shared \cup {f}
               /\ u.blocks = s.blocks /\ u.ran = s.ran
<1> DEFINE t == Supersede(s, c)
           begun == [NoRow EXCEPT !.status = "running", !.flow = f, !.preview = x]
           new == [t.rows EXCEPT ![e] = begun]
           touched == t.touched \cup {e}
           shared == s.shared \cup {f}
<1>1. Begun(begun, f, x)
  BY RowTypes DEF Row, Begun, LiveStatus
<1>2. t \in Step
  BY SupersedeFacts
<1>3. new \in [Exec -> Row] /\ new[e] = begun /\ \A d \in Exec \ {e} : new[d] = t.rows[d]
  BY <1>1, <1>2 DEF Step, Begun
<1>4. Entering(s, c, f, x, e) = [t EXCEPT !.run = e, !.rows = new, !.touched = touched,
                                          !.shared = shared]
  BY DEF Entering
<1>5. touched \in SUBSET Exec /\ shared \in SUBSET Flow
  BY <1>2 DEF Step
<1> HIDE DEF new, t, begun, touched, shared
<1>6.     /\ u \in Step /\ u.run = e /\ u.rows = new /\ u.touched = touched
          /\ u.shared = shared /\ u.left = t.left /\ u.by = t.by
          /\ u.cancels = t.cancels /\ u.blocks = t.blocks /\ u.ran = t.ran
  BY <1>2, <1>3, <1>4, <1>5 DEF Step
<1>7. LiveOf(c) \subseteq Exec
  BY DEF LiveOf, ExecOf
<1>8. QED
  BY <1>1, <1>3, <1>6, <1>7, SupersedeFacts DEF t, touched, shared

\* Resuming holds the execution's row alone.
LEMMA ResumedFacts ==
    ASSUME FlowTypeOK, NEW e \in Exec, NEW w \in Wait, NEW by \in Cause,
           NEW u, u = Resumed(e, w, by)
    PROVE      /\ u \in Step
               /\ u.run = e /\ u.touched = {e} /\ u.left = w /\ u.by = by
               /\ u.shared = {} /\ ~u.cancels /\ u.blocks = 0 /\ u.ran = 0
               /\ u.rows[e] \in Row
               /\ u.rows[e].status = "running" /\ u.rows[e].flow = execution[e].flow
               /\ u.rows[e].preview = execution[e].preview
               /\ u.rows[e].waits = execution[e].waits
<1> DEFINE on == [execution[e] EXCEPT !.status = "running", !.timed = FALSE, !.tries = 0]
           new == [NoStep.rows EXCEPT ![e] = on]
           touched == {e}
<1>1. /\ on \in Row /\ on.status = "running" /\ on.flow = execution[e].flow
      /\ on.preview = execution[e].preview /\ on.waits = execution[e].waits
  <2>1. execution[e] \in Row
    BY DEF FlowTypeOK
  <2>2. QED
    BY <2>1 DEF Row, LiveStatus
<1>2. new \in [Exec -> Row] /\ new[e] = on
  BY <1>1, StepTypes, RowTypes
<1>3. Resumed(e, w, by) = [NoStep EXCEPT !.run = e, !.touched = touched, !.left = w, !.by = by,
                                         !.rows = new]
  BY DEF Resumed
<1>4. touched \in SUBSET Exec
  OBVIOUS
<1> HIDE DEF new, on, touched
<1>5.     /\ u \in Step /\ u.run = e /\ u.touched = touched /\ u.left = w /\ u.by = by
          /\ u.shared = NoStep.shared /\ u.cancels = NoStep.cancels /\ u.rows = new
          /\ u.blocks = NoStep.blocks /\ u.ran = NoStep.ran
  BY <1>2, <1>3, <1>4, StepTypes DEF Step, Cause
<1>6. QED
  BY <1>1, <1>2, <1>5, StepTypes DEF on, touched

LEMMA WaitFacts ==
    /\ \A w \in Wait : w[1] \in Exec /\ w[2] \in Nat /\ w = <<w[1], w[2]>>
    /\ \A e \in Exec, n \in Nat : n \in 1..WaitsOf[e] <=> <<e, n>> \in Wait
BY FlowAssumption DEF Wait

LEMMA RunTypes ==
    ASSUME FlowTypeOK, NEW c \in Contact, Running(c)
    PROVE  step[c] \in Step /\ step[c].run \in Exec /\ RunRow(c) \in Row
BY DEF FlowTypeOK, Running, RunRow, Step

-----------------------------------------------------------------------------
\* Every action is one of the moves.
LEMMA NextMoves ==
    ASSUME FlowTypeOK, FlowNext
    PROVE  Moves
<1>1. ASSUME NEW c \in Contact, NEW f \in Flow, NEW x \in BOOLEAN, StartFlow(c, f, x)
      PROVE  Moves
  BY <1>1 DEF StartFlow, Starts, Moves
<1>2. ASSUME NEW e \in Exec, Answer(e) PROVE Moves
  BY <1>2 DEF Answer, Resumes, Waiting, Moves, Cause
<1>3. ASSUME NEW w \in Wait, TakeTimer(w) \/ RetryTimer(w) \/ DropStaleTimer(w) PROVE Moves
  <2>1. TimerMoves(w)
    BY <1>3 DEF TakeTimer, RetryTimer, DropStaleTimer, TimerMoves
  <2>2. QED
    BY <2>1 DEF Moves
<1>4. ASSUME NEW w \in Wait, FireTimer(w) PROVE Moves
  <2>1. w[1] \in Exec /\ w = <<w[1], execution[w[1]].waits>> /\ execution[w[1]].status \in Waiting
    BY <1>4, WaitFacts DEF FireTimer, Current, AtWait
  <2>2. Resumes(w[1], "timer")
    BY <1>4, <2>1 DEF FireTimer, Resumes
  <2>3. QED
    BY <2>1, <2>2 DEF Moves, Cause
<1>5. ASSUME NEW c \in Contact, StopAutomation(c) PROVE Moves
  <2>1. LiveOf(c) \subseteq Exec /\ \A e \in LiveOf(c) : Live(e) /\ ContactOf[e] = c
    BY DEF LiveOf, ExecOf
  <2>2. \A e \in LiveOf(c) : ~Locked(e)
    BY <1>5, <2>1, StepTypes DEF StopAutomation, Idle, Locked
  <2>3. {c} \subseteq {ContactOf[e] : e \in LiveOf(c)}
    BY <1>5, <2>1 DEF StopAutomation
  <2>4. CutsOff(LiveOf(c), {c}) /\ UNCHANGED lifeVars
    BY <1>5, <2>1, <2>2, <2>3 DEF StopAutomation, CutsOff
  <2>5. QED
    BY <2>1, <2>4 DEF Moves
<1>6. ASSUME NEW stale \in SUBSET Exec \ {{}}, ExpireStaleExecutions(stale) PROVE Moves
  <2>1. \A e \in stale : Live(e) /\ ~Locked(e)
    BY <1>6 DEF ExpireStaleExecutions, Sweepable, StaleStatus, Live, LiveStatus
  <2>2. timer' = Disarmed({}, timer)
    BY <1>6 DEF ExpireStaleExecutions, Disarmed, FlowTypeOK
  <2>3. CutsOff(stale, {}) /\ UNCHANGED lifeVars
    BY <1>6, <2>1, <2>2 DEF ExpireStaleExecutions, CutsOff
  <2>4. QED
    BY <2>3 DEF Moves
<1>7. ASSUME NEW c \in Contact, RunComplete(c) \/ RunFail(c) PROVE Moves
  <2>1. PICK status \in {"completed", "failed"} :
           Running(c) /\ Commit(c, [RunRow(c) EXCEPT !.status = status], {})
    BY <1>7 DEF RunComplete, RunFail
  <2> DEFINE row == [RunRow(c) EXCEPT !.status = status]
  <2>2. row \in Row /\ row.status = status
    BY <2>1, RunTypes DEF Row, OverStatus
  <2>3. Ends(c, row, {})
    BY <2>1, <2>2 DEF Ends, Outcome
  <2>4. QED
    BY <2>2, <2>3 DEF Moves
<1>8. ASSUME NEW c \in Contact, NEW status \in Waiting, NEW timed \in BOOLEAN,
             Parked(c, status, timed)
      PROVE  Moves
  <2> DEFINE run == step[c].run
             n == RunRow(c).waits + 1
             row == [RunRow(c) EXCEPT !.status = status, !.waits = n, !.timed = timed]
             armed == IF timed THEN {<<run, n>>} ELSE {}
  <2>1. run \in Exec /\ RunRow(c) \in Row /\ WaitsOf[run] \in Nat /\ RunRow(c).waits \in Nat
    BY <1>8, RunTypes, FlowAssumption DEF Parked, Row
  <2>2. row \in Row /\ row.status = status /\ row.timed = timed
    <3>1. n \in Nat /\ status \in LiveStatus
      BY <2>1 DEF LiveStatus, Waiting
    <3> HIDE DEF n
    <3>2. QED
      BY <2>1, <3>1 DEF Row
  <2>3. n \in 1..WaitsOf[run]
    BY <1>8, <2>1 DEF Parked
  <2>4. armed \in SUBSET Wait
    BY <2>1, <2>3, WaitFacts
  <2>5. Ends(c, row, armed)
    BY <1>8, <2>2 DEF Parked, Ends, Outcome
  <2>6. QED
    BY <2>2, <2>4, <2>5 DEF Moves
<1>9. ASSUME NEW c \in Contact, Run(c) \/ RollBack(c) PROVE Moves
  BY <1>7, <1>8, <1>9 DEF Run, RunWait, RunDelay, Waiting, Moves
<1>10. ASSUME NEW f \in Flow, \/ Publish(f) \/ ArchiveFlow(f) \/ RestoreFlow(f) \/ SetOffline(f)
                              \/ ScanConversations(f) \/ OfflineCrash(f)
       PROVE  Moves
  <2>1. LifeMoves(f)
    BY <1>10 DEF LifeMoves, Publish, ArchiveFlow, RestoreFlow, SetOffline, ScanConversations,
                 OfflineCrash
  <2>2. QED
    BY <2>1 DEF Moves
<1>11. ASSUME FlowStepNext PROVE Moves
  <2>1. ASSUME NEW e \in Exec, Reask(e) PROVE Moves
    BY <2>1 DEF Moves
  <2>2. QED
    BY <1>1, <1>2, <1>3, <1>4, <1>5, <1>6, <1>9, <1>11, <2>1 DEF FlowStepNext
<1>12. ASSUME FlowLifeNext PROVE Moves
  <2>1. ASSUME NEW f \in Flow, StopConversations(f) PROVE Moves
    BY <2>1 DEF Moves
  <2>2. QED
    BY <1>1, <1>10, <1>12, <2>1, FlowAssumption DEF FlowLifeNext
<1>13. QED
  BY <1>11, <1>12 DEF FlowNext

-----------------------------------------------------------------------------
(* The engine's invariant.                                                 *)

\* A contact whose step does not move, while some of its rows are expired.
LEMMA OthersKeep ==
    ASSUME FlowTypeOK, NEW c \in Contact, StepInv(c), step'[c] = step[c],
           \A e \in ExecOf(c) :
              \/ execution'[e].status = execution[e].status
              \/ ~Locked(e) /\ execution'[e].status = "expired"
    PROVE  StepInv(c)'
<1>1. \A e \in ExecOf(c) : e \in Exec /\ (Locked(e) <=> e \in step[c].touched)
  BY DEF ExecOf, Locked
<1>2. LiveOf(c)' \subseteq LiveOf(c)
  BY <1>1 DEF LiveOf, Live, LiveStatus, ExecOf
<1>3. ASSUME Running(c), NEW e \in step[c].touched PROVE ~Over(e)'
  BY <1>1, <1>3 DEF StepInv, Over
<1>4. QED
  BY <1>2, <1>3 DEF StepInv, Running, RunRow, ExecOf

\* The rows after a commit.
LEMMA CommitFacts ==
    ASSUME FlowTypeOK, NEW c \in Contact, StepInv(c), NEW row \in Row, NEW armed \in SUBSET Wait,
           Ends(c, row, armed)
    PROVE  /\ row.status \in {"completed", "failed"} \cup Waiting
           /\ row.flow = RunRow(c).flow /\ row.preview = RunRow(c).preview
           /\ execution' \in [Exec -> Row]
           /\ execution'[step[c].run] = row
           /\ \A e \in step[c].touched \ {step[c].run} : execution'[e] = step[c].rows[e]
           /\ \A e \in Exec \ step[c].touched : execution'[e] = execution[e]
           /\ step' = [step EXCEPT ![c] = NoStep]
           /\ row.status \in Waiting => /\ <<step[c].run, row.waits>> \in Wait
                                         /\ row.waits = RunRow(c).waits + 1
           /\ row.status \notin Waiting => row.waits = RunRow(c).waits
           /\ timer' \in [Wait -> TimerStatus]
           /\ answered' \in SUBSET Wait /\ elapsed' \in SUBSET Wait
           /\ UNCHANGED lifeVars
<1> DEFINE run == step[c].run
<1>1. step[c] \in Step /\ run \in Exec /\ RunRow(c) \in Row
  BY RunTypes DEF Ends
<1>2. /\ row.status \in {"completed", "failed"} \cup Waiting
      /\ row.flow = RunRow(c).flow /\ row.preview = RunRow(c).preview
      /\ row.status \in Waiting => /\ row.waits = RunRow(c).waits + 1
                                    /\ <<run, row.waits>> \in Wait
      /\ row.status \notin Waiting => row.waits = RunRow(c).waits
  <2>1. CASE row = [RunRow(c) EXCEPT !.status = row.status] /\ row.status \in {"completed", "failed"}
    <3>1. [RunRow(c) EXCEPT !.status = row.status].flow = RunRow(c).flow
      BY <1>1 DEF Row
    <3>2. [RunRow(c) EXCEPT !.status = row.status].preview = RunRow(c).preview
      BY <1>1 DEF Row
    <3>3. [RunRow(c) EXCEPT !.status = row.status].waits = RunRow(c).waits
      BY <1>1 DEF Row
    <3>4. QED
      BY <2>1, <3>1, <3>2, <3>3 DEF Waiting
  <2>2. CASE /\ RunRow(c).waits < WaitsOf[run]
             /\ row = [RunRow(c) EXCEPT !.status = row.status, !.waits = RunRow(c).waits + 1,
                                        !.timed = row.timed]
             /\ row.status \in Waiting
    <3> DEFINE n == RunRow(c).waits + 1
               new == [RunRow(c) EXCEPT !.status = row.status, !.waits = n, !.timed = row.timed]
    <3> HIDE DEF n
    <3>1. new.flow = RunRow(c).flow /\ new.preview = RunRow(c).preview /\ new.waits = n
      BY <1>1 DEF Row
    <3>2. row = new
      BY <2>2 DEF n
    <3>3. n \in 1..WaitsOf[run]
      BY <1>1, <2>2, FlowAssumption DEF n, Row
    <3>4. <<run, n>> \in Wait
      BY <1>1, <3>3, WaitFacts
    <3>5. QED
      BY <2>2, <3>1, <3>2, <3>4 DEF n
  <2>3. QED
    BY <2>1, <2>2 DEF Ends, Outcome
<1>3. step[c].touched \subseteq Exec /\ run \in step[c].touched
  BY <1>1 DEF StepInv, Ends, Step
<1>4. execution' = [e \in Exec |-> IF e = run THEN row
                                   ELSE IF e \in step[c].touched THEN step[c].rows[e]
                                   ELSE execution[e]]
  BY DEF Ends, Commit
<1>5. execution' \in [Exec -> Row]
  BY <1>1, <1>4 DEF FlowTypeOK, Step
<1>6. timer' \in [Wait -> TimerStatus]
  <2> DEFINE kept == IF step[c].cancels THEN Disarmed({c}, timer) ELSE timer
  <2>1. kept \in [Wait -> TimerStatus]
    BY DEF FlowTypeOK, Disarmed, TimerStatus
  <2>2. \E timers \in TimerDone(step[c], kept) :
           timer' = [w \in Wait |-> IF w \in armed THEN "pending" ELSE timers[w]]
    BY DEF Ends, Commit
  <2>3. \A timers \in TimerDone(step[c], kept) : timers \in [Wait -> TimerStatus]
    BY <2>1 DEF TimerDone, TimerStatus
  <2>4. QED
    BY <2>2, <2>3 DEF TimerStatus
<1>7. answered' \in SUBSET Wait /\ elapsed' \in SUBSET Wait
  BY DEF Ends, Commit, StepInv, FlowTypeOK
<1>8. QED
  BY <1>2, <1>3, <1>4, <1>5, <1>6, <1>7 DEF Ends, Commit

LEMMA EngineInvInit == FlowInit => EngineInv
<1> SUFFICES ASSUME FlowInit PROVE EngineInv
  OBVIOUS
<1>1. FlowTypeOK
  BY StepTypes, RowTypes DEF FlowInit, FlowTypeOK, FlowStatus, TimerStatus
<1>2. \A c \in Contact : LiveOf(c) = {}
  BY RowTypes DEF FlowInit, LiveOf, ExecOf, Live, LiveStatus
<1>3. QED
  BY <1>1, <1>2, StepTypes, RowTypes
     DEF FlowInit, EngineInv, OneLiveExecution, StepInv, RestInv, Running, Idle, WaitsInv, Waiting

\* A step that has just begun, by a new execution or out of a wait.
LEMMA BeganInv ==
    ASSUME EngineInv, NEW c \in Contact, NEW u \in Step,
           step' = [step EXCEPT ![c] = u], UNCHANGED <<lifeVars, execution, timer, history>>,
           u.run \in u.touched, u.touched \subseteq ExecOf(c),
           u.rows[u.run].status = "running",
           \A e \in u.touched \ {u.run} : u.rows[e].status \in OverStatus,
           LiveOf(c) \subseteq u.touched,
           \A e \in u.touched : ~Over(e),
           u.by # "start" => u.left \in Wait
    PROVE  EngineInv'
<1>1. FlowTypeOK'
  BY DEF EngineInv, FlowTypeOK, lifeVars, history
<1>2. \A d \in Contact : LiveOf(d)' = LiveOf(d)
  BY DEF LiveOf, Live
<1>3. OneLiveExecution'
  BY <1>2 DEF EngineInv, OneLiveExecution
<1>4. step'[c] = u /\ \A d \in Contact \ {c} : step'[d] = step[d]
  BY DEF EngineInv, FlowTypeOK
<1>5. StepInv(c)'
  BY <1>2, <1>4 DEF StepInv, RunRow, Over
<1>6. Running(c)'
  BY <1>4, FlowAssumption DEF Running, ExecOf
<1>7. ASSUME NEW d \in Contact \ {c} PROVE StepInv(d)' /\ RestInv(d)'
  BY <1>4, OthersKeep DEF EngineInv, RestInv, Running, Idle
<1>8. WaitsInv'
  BY DEF EngineInv, WaitsInv
<1>9. QED
  BY <1>1, <1>3, <1>5, <1>6, <1>7, <1>8 DEF EngineInv, RestInv

\* No row changes and no step moves.
LEMMA RowsStayInv ==
    ASSUME EngineInv, FlowTypeOK',
           \A e \in Exec : /\ execution'[e].status = execution[e].status
                           /\ execution'[e].waits = execution[e].waits,
           UNCHANGED step
    PROVE  EngineInv'
<1>1. \A c \in Contact : LiveOf(c)' = LiveOf(c)
  BY DEF LiveOf, ExecOf, Live
<1>2. OneLiveExecution'
  BY <1>1 DEF EngineInv, OneLiveExecution
<1>3. ASSUME NEW c \in Contact PROVE StepInv(c)' /\ RestInv(c)'
  BY OthersKeep DEF EngineInv, RestInv, Running, Idle, ExecOf
<1>4. WaitsInv'
  BY DEF EngineInv, WaitsInv
<1>5. QED
  BY <1>2, <1>3, <1>4 DEF EngineInv

\* Some unlocked live rows are expired.
LEMMA CutInv ==
    ASSUME EngineInv, NEW cut \in SUBSET Exec, FlowTypeOK',
           \A e \in cut : Live(e) /\ ~Locked(e),
           execution' = [e \in Exec |-> IF e \in cut THEN Expired(execution[e]) ELSE execution[e]],
           UNCHANGED step
    PROVE  EngineInv'
<1>1. \A e \in Exec : execution'[e].status = IF e \in cut THEN "expired" ELSE execution[e].status
  BY RowTypes DEF EngineInv, FlowTypeOK
<1>2. \A c \in Contact : LiveOf(c)' \subseteq LiveOf(c)
  BY <1>1 DEF LiveOf, ExecOf, Live, LiveStatus
<1>3. OneLiveExecution'
  BY <1>2 DEF EngineInv, OneLiveExecution
<1>4. ASSUME NEW c \in Contact PROVE StepInv(c)' /\ RestInv(c)'
  BY <1>1, OthersKeep DEF EngineInv, RestInv, Running, Idle, ExecOf
<1>5. WaitsInv'
  BY <1>1 DEF EngineInv, WaitsInv, Waiting
<1>6. QED
  BY <1>3, <1>4, <1>5 DEF EngineInv

LEMMA LiveLists ==
    /\ \A c \in Contact : LiveOf(c) = {e \in Exec : ContactOf[e] = c /\ Live(e)}
    /\ \A e \in Exec : ContactOf[e] \in Contact /\ e # 0
    /\ Waiting \subseteq LiveStatus /\ LiveStatus \cap OverStatus = {}
    /\ "none" \notin LiveStatus \cup OverStatus
BY FlowAssumption DEF LiveOf, ExecOf, Waiting, LiveStatus, OverStatus

\* Handing off completes the run and begins another one in the same transaction.
LEMMA HandOffFacts ==
    ASSUME EngineInv, NEW c \in Contact, NEW f \in Flow, HandOff(c, f)
    PROVE  \E e \in NextId(c), u \in Step :
              /\ step' = [step EXCEPT ![c] = u]
              /\ u.run = e /\ u.touched = step[c].touched \cup {e}
              /\ HandedTo(u.rows[e], f)
              /\ u.rows[step[c].run].status = "completed"
              /\ u.rows[step[c].run].waits = step[c].rows[step[c].run].waits
              /\ \A d \in step[c].touched \ {step[c].run} : u.rows[d] = step[c].rows[d]
              /\ u.left = step[c].left /\ u.by = step[c].by
              /\ u.cancels <=> step[c].cancels
              /\ u.shared = step[c].shared \cup {f}
              /\ u.blocks = step[c].blocks + 1 /\ u.ran = step[c].ran + 1
<1> DEFINE s == step[c]
           done == [s EXCEPT !.rows[s.run].status = "completed"]
           no == FALSE
<1>1. s \in Step /\ s.run \in Exec /\ s.rows \in [Exec -> Row]
  BY RunTypes DEF HandOff, EngineInv, Step
<1>2. /\ s.run \in s.touched /\ s.touched \subseteq ExecOf(c) /\ LiveOf(c) \subseteq s.touched
  BY DEF HandOff, EngineInv, StepInv
<1>3. PICK e \in NextId(c) :
         step' = [step EXCEPT ![c] = [Entering(done, c, f, no, e)
                                        EXCEPT !.blocks = Carried(s), !.ran = s.ran + 1]]
  BY DEF HandOff
<1>4. e \in Exec /\ e \notin s.touched
  BY DEF NextId, Unused, ExecOf, Locked
<1> DEFINE rows == [s.rows EXCEPT ![s.run].status = "completed"]
<1>5. /\ rows \in [Exec -> Row] /\ rows[s.run].status = "completed"
      /\ rows[s.run].waits = s.rows[s.run].waits
      /\ \A d \in Exec \ {s.run} : rows[d] = s.rows[d]
  BY <1>1 DEF Row, OverStatus
<1>6. done = [s EXCEPT !.rows = rows]
  OBVIOUS
<1>7. /\ done \in Step /\ done.rows = rows /\ done.touched = s.touched /\ done.left = s.left
      /\ done.by = s.by /\ done.cancels = s.cancels /\ done.shared = s.shared
  <2> HIDE DEF rows, s, done
  <2>1. QED
    BY <1>1, <1>5, <1>6 DEF Step
<1> DEFINE v == Entering(done, c, f, no, e)
           u == [v EXCEPT !.blocks = Carried(s), !.ran = s.ran + 1]
<1>a. no \in BOOLEAN /\ no = FALSE
  OBVIOUS
<1> HIDE DEF s, done, rows, no
<1>8. /\ v \in Step /\ v.run = e /\ v.touched = done.touched \cup LiveOf(c) \cup {e}
      /\ Begun(v.rows[e], f, no)
      /\ \A d \in (Exec \ (LiveOf(c) \ done.touched)) \ {e} : v.rows[d] = done.rows[d]
      /\ v.cancels = (done.cancels \/ LiveOf(c) \ done.touched # {})
      /\ v.left = done.left /\ v.by = done.by /\ v.shared = done.shared \cup {f}
  <2>1. v = Entering(done, c, f, no, e) /\ FlowTypeOK /\ done \in Step
    BY <1>7 DEF EngineInv
  <2> HIDE DEF v
  <2>2. QED
    BY <1>4, <1>a, <2>1, EnteringFacts
<1>9. s.touched \subseteq Exec /\ LiveOf(c) \ done.touched = {}
  BY <1>1, <1>2, <1>7 DEF Step
<1>10. /\ v.touched = s.touched \cup {e}
       /\ \A d \in s.touched : v.rows[d] = rows[d]
       /\ v.cancels = s.cancels /\ v.left = s.left /\ v.by = s.by /\ v.shared = s.shared \cup {f}
  <2>1. s.cancels \in BOOLEAN
    BY <1>1 DEF Step
  <2>2. QED
    BY <1>2, <1>4, <1>7, <1>8, <1>9, <2>1
<1>11. Carried(s) \in Nat /\ s.ran + 1 \in Nat
  BY <1>1 DEF Carried, Step
<1> HIDE DEF v
<1>12. /\ u \in Step /\ u.run = v.run /\ u.touched = v.touched /\ u.rows = v.rows
       /\ u.cancels = v.cancels /\ u.left = v.left /\ u.by = v.by /\ u.shared = v.shared
  BY <1>8, <1>11 DEF Step
<1>13. step' = [step EXCEPT ![c] = u]
  BY <1>3 DEF v
<1> HIDE DEF u
<1>14. /\ u.rows[s.run].status = "completed" /\ u.rows[s.run].waits = s.rows[s.run].waits
       /\ \A d \in s.touched \ {s.run} : u.rows[d] = s.rows[d]
  BY <1>2, <1>5, <1>9, <1>10, <1>12
<1>15. HandedTo(u.rows[e], f)
  BY <1>a, <1>8, <1>12 DEF HandedTo
<1>16. u \in Step /\ u.run = e
  BY <1>8, <1>12
<1>17. /\ u.touched = s.touched \cup {e} /\ u.left = s.left /\ u.by = s.by
       /\ u.cancels = s.cancels /\ u.shared = s.shared \cup {f}
  BY <1>10, <1>12
<1>18. u.blocks = s.blocks + 1 /\ u.ran = s.ran + 1
  <2>1. u = [v EXCEPT !.blocks = Carried(s), !.ran = s.ran + 1]
    BY DEF u
  <2> HIDE DEF Carried
  <2>2. u.blocks = Carried(s) /\ u.ran = s.ran + 1
    BY <1>8, <2>1 DEF Step
  <2>3. QED
    BY <2>2 DEF Carried
<1>19. QED
  BY <1>13, <1>14, <1>15, <1>16, <1>17, <1>18 DEF s

\* Stopping the conversations of a flow cuts off the scanned rows that are live.
LEMMA StopCuts ==
    ASSUME FlowTypeOK, NEW f \in Flow, StopConversations(f)
    PROVE  LET cut == {e \in stopping[f].scanned : Live(e)}
           IN  /\ cut \in SUBSET Exec /\ {ContactOf[e] : e \in cut} \in SUBSET Contact
               /\ CutsOff(cut, {ContactOf[e] : e \in cut})
<1> DEFINE cut == {e \in stopping[f].scanned : Live(e)}
<1>1. cut \in SUBSET Exec
  BY DEF FlowTypeOK
<1>2. {ContactOf[e] : e \in cut} \in SUBSET Contact
  BY <1>1, FlowAssumption
<1>3. CutsOff(cut, {ContactOf[e] : e \in cut})
  BY DEF StopConversations, CutOff, CutsOff
<1>4. QED
  BY <1>1, <1>2, <1>3

LEMMA EngineInvStep == EngineInv /\ [FlowNext]_flowVars => EngineInv'
<1> SUFFICES ASSUME EngineInv, [FlowNext]_flowVars PROVE EngineInv'
  OBVIOUS
<1>0. FlowTypeOK
  BY DEF EngineInv
<1>1. CASE UNCHANGED flowVars
  BY <1>1, RowsStayInv DEF flowVars, lifeVars, history, EngineInv, FlowTypeOK
<1>2. ASSUME NEW c \in Contact, NEW f \in Flow, NEW x \in BOOLEAN, NEW e \in NextId(c),
             Starts(c, f, x, e)
      PROVE  EngineInv'
  <2> DEFINE u == Entering(NoStep, c, f, x, e)
  <2>1. e \in ExecOf(c) /\ e \in Exec /\ execution[e].status = "none"
    BY DEF NextId, Unused, ExecOf
  <2>2. /\ u \in Step /\ u.run = e /\ u.touched = LiveOf(c) \cup {e}
        /\ u.rows[e].status = "running" /\ u.by = "start"
        /\ \A d \in LiveOf(c) \ {e} : u.rows[d] = Expired(execution[d])
    <3>1. u = Entering(NoStep, c, f, x, e)
      OBVIOUS
    <3> HIDE DEF u
    <3>2. /\ u \in Step /\ u.run = e /\ u.touched = NoStep.touched \cup LiveOf(c) \cup {e}
          /\ Begun(u.rows[e], f, x) /\ u.by = NoStep.by
          /\ \A d \in (LiveOf(c) \ NoStep.touched) \ {e} : u.rows[d] = Expired(execution[d])
      BY <1>0, <2>1, <3>1, StepTypes, EnteringFacts
    <3>3. QED
      BY <3>2, StepTypes DEF Begun
  <2>3. /\ step' = [step EXCEPT ![c] = u]
        /\ UNCHANGED <<lifeVars, execution, timer, history>>
    BY <1>2 DEF Starts
  <2> HIDE DEF u
  <2>4. \A d \in LiveOf(c) : d \in ExecOf(c) /\ d \in Exec /\ Live(d)
    BY DEF LiveOf, ExecOf
  <2>5. \A d \in u.touched \ {u.run} : u.rows[d].status \in OverStatus
    BY <1>0, <2>2, <2>4, RowTypes DEF FlowTypeOK, OverStatus
  <2>6. \A d \in u.touched : ~Over(d)
    BY <2>1, <2>2, <2>4, LiveLists DEF Live, Over
  <2>7. QED
    BY <2>1, <2>2, <2>3, <2>4, <2>5, <2>6, BeganInv
<1>3. ASSUME NEW e \in Exec, NEW by \in Cause, Resumes(e, by) PROVE EngineInv'
  <2> DEFINE c == ContactOf[e]
             w == <<e, execution[e].waits>>
             u == Resumed(e, w, by)
  <2>1. c \in Contact /\ e \in LiveOf(c) /\ Live(e)
    BY <1>3, LiveLists DEF Resumes, Live
  <2>2. LiveOf(c) = {e}
    BY <2>1 DEF EngineInv, OneLiveExecution
  <2>3. w \in Wait
    BY <1>3 DEF EngineInv, WaitsInv, Resumes
  <2>4. /\ u \in Step /\ u.run = e /\ u.touched = {e} /\ u.left = w
        /\ u.rows[e].status = "running"
    <3>1. u = Resumed(e, w, by)
      OBVIOUS
    <3> HIDE DEF u, w
    <3>2. QED
      BY <1>0, <2>3, <3>1, ResumedFacts
  <2>5. /\ step' = [step EXCEPT ![c] = u]
        /\ UNCHANGED <<lifeVars, execution, timer, history>>
    BY <1>3 DEF Resumes
  <2>6. ~Over(e) /\ e \in ExecOf(c)
    BY <2>1, LiveLists DEF Live, Over, LiveOf
  <2> HIDE DEF u, c, w
  <2>7. QED
    BY <2>1, <2>2, <2>3, <2>4, <2>5, <2>6, BeganInv
<1>4. ASSUME NEW e \in Exec, Reask(e) PROVE EngineInv'
  <2>1. execution[e] \in Row /\ execution[e].tries + 1 \in Nat
    BY <1>0 DEF FlowTypeOK, Row
  <2>2. /\ execution' \in [Exec -> Row]
        /\ \A d \in Exec : /\ execution'[d].status = execution[d].status
                           /\ execution'[d].waits = execution[d].waits
    BY <1>0, <1>4, <2>1 DEF Reask, FlowTypeOK, Row
  <2>3. FlowTypeOK' /\ UNCHANGED step
    BY <1>4, <2>2 DEF Reask, EngineInv, FlowTypeOK, lifeVars, history
  <2>4. QED
    BY <2>2, <2>3, RowsStayInv
<1>5. ASSUME NEW w \in Wait, TimerMoves(w) PROVE EngineInv'
  <2>1. timer' \in [Wait -> TimerStatus]
    BY <1>0, <1>5 DEF TimerMoves, DropStaleTimer, FlowTypeOK, TimerStatus
  <2>2. UNCHANGED <<lifeVars, execution, step, history>>
    BY <1>5 DEF TimerMoves
  <2>3. QED
    BY <1>0, <2>1, <2>2, RowsStayInv DEF FlowTypeOK, lifeVars, history
<1>6. ASSUME NEW cut \in SUBSET Exec, NEW who \in SUBSET Contact, CutsOff(cut, who)
      PROVE  /\ execution' \in [Exec -> Row] /\ timer' \in [Wait -> TimerStatus]
             /\ FlowTypeOK' => EngineInv'
  <2>1. execution' \in [Exec -> Row]
    BY <1>0, <1>6, RowTypes DEF CutsOff, FlowTypeOK
  <2>2. timer' \in [Wait -> TimerStatus]
    BY <1>0, <1>6 DEF CutsOff, Disarmed, FlowTypeOK, TimerStatus
  <2>3. FlowTypeOK' => EngineInv'
    BY <1>6, CutInv DEF CutsOff
  <2>4. QED
    BY <2>1, <2>2, <2>3
<1>7. ASSUME NEW cut \in SUBSET Exec, NEW who \in SUBSET Contact, CutsOff(cut, who),
             UNCHANGED lifeVars
      PROVE  EngineInv'
  <2>1. FlowTypeOK'
    BY <1>0, <1>6, <1>7 DEF FlowTypeOK, CutsOff, lifeVars, history
  <2>2. QED
    BY <1>6, <1>7, <2>1
<1>8. ASSUME NEW f \in Flow, StopConversations(f) PROVE EngineInv'
  <2>1. PICK cut \in SUBSET Exec, who \in SUBSET Contact : CutsOff(cut, who)
    BY <1>8, StopCuts DEF EngineInv
  <2>2. FlowTypeOK'
    BY <1>0, <1>6, <1>8, <2>1 DEF FlowTypeOK, CutsOff, StopConversations, history
  <2>3. QED
    BY <1>6, <2>1, <2>2
<1>9. ASSUME NEW c \in Contact, RunBlock(c) PROVE EngineInv'
  <2> DEFINE s == step[c]
             u == [s EXCEPT !.blocks = s.blocks + 1, !.ran = s.ran + 1]
  <2>1. s \in Step /\ s.run \in Exec
    BY <1>0, <1>9, RunTypes DEF RunBlock
  <2>2. /\ step' = [step EXCEPT ![c] = u]
        /\ UNCHANGED <<lifeVars, execution, timer, history>>
    BY <1>9 DEF RunBlock
  <2>3. /\ u \in Step /\ u.run = s.run /\ u.touched = s.touched /\ u.rows = s.rows
        /\ u.by = s.by /\ u.left = s.left
    <3>1. s.blocks + 1 \in Nat /\ s.ran + 1 \in Nat
      BY <2>1 DEF Step
    <3> HIDE DEF s
    <3>2. QED
      BY <2>1, <3>1 DEF Step
  <2>4. /\ s.run \in s.touched /\ s.touched \subseteq ExecOf(c) /\ LiveOf(c) \subseteq s.touched
        /\ s.rows[s.run].status = "running"
        /\ \A e \in s.touched \ {s.run} : s.rows[e].status \in OverStatus
        /\ \A e \in s.touched : ~Over(e)
        /\ s.by # "start" => s.left \in Wait
    BY <1>9 DEF EngineInv, StepInv, RunBlock, RunRow
  <2> HIDE DEF u, s
  <2>5. QED
    BY <2>2, <2>3, <2>4, BeganInv
<1>10. ASSUME NEW c \in Contact, RollBack(c) PROVE EngineInv'
  <2>1. /\ step' = [step EXCEPT ![c] = NoStep]
        /\ UNCHANGED <<lifeVars, execution, timer, history>>
    BY <1>10 DEF RollBack
  <2>2. FlowTypeOK'
    BY <1>0, <2>1, StepTypes DEF FlowTypeOK, lifeVars, history
  <2>3. OneLiveExecution' /\ WaitsInv'
    BY <2>1 DEF EngineInv, OneLiveExecution, WaitsInv, LiveOf, Live
  <2>4. step'[c] = NoStep /\ \A d \in Contact \ {c} : step'[d] = step[d]
    BY <1>0, <2>1 DEF FlowTypeOK
  <2>5. StepInv(c)' /\ RestInv(c)'
    BY <2>4, StepTypes DEF StepInv, RestInv, Running, Idle
  <2>6. ASSUME NEW d \in Contact \ {c} PROVE StepInv(d)' /\ RestInv(d)'
    BY <2>1, <2>4, OthersKeep DEF EngineInv, RestInv, Running, Idle
  <2>7. QED
    BY <2>2, <2>3, <2>5, <2>6 DEF EngineInv
<1>11. ASSUME NEW c \in Contact, NEW row \in Row, NEW armed \in SUBSET Wait, Ends(c, row, armed)
       PROVE  EngineInv'
  <2> DEFINE run == step[c].run
             touched == step[c].touched
  <2>1. /\ run \in touched /\ touched \subseteq ExecOf(c) /\ LiveOf(c) \subseteq touched
        /\ \A e \in touched \ {run} : step[c].rows[e].status \in OverStatus
    BY <1>11 DEF Ends, EngineInv, StepInv
  <2>2. /\ execution' \in [Exec -> Row] /\ execution'[run] = row
        /\ \A e \in touched \ {run} : execution'[e] = step[c].rows[e]
        /\ \A e \in Exec \ touched : execution'[e] = execution[e]
        /\ step' = [step EXCEPT ![c] = NoStep]
        /\ timer' \in [Wait -> TimerStatus]
        /\ answered' \in SUBSET Wait /\ elapsed' \in SUBSET Wait
        /\ UNCHANGED lifeVars
        /\ row.status \in Waiting => <<run, row.waits>> \in Wait
    BY <1>0, <1>11, CommitFacts DEF EngineInv
  <2> HIDE DEF run, touched
  <2>3. FlowTypeOK'
    BY <1>0, <2>2, StepTypes DEF FlowTypeOK, lifeVars
  <2>4. ExecOf(c) \subseteq Exec /\ \A d \in Contact \ {c} : ExecOf(d) \cap ExecOf(c) = {}
    BY DEF ExecOf
  <2>5. LiveOf(c)' \subseteq {run}
    BY <2>1, <2>2, <2>4, LiveLists DEF LiveOf, Live
  <2>6. \A d \in Contact \ {c} : \A e \in ExecOf(d) : execution'[e] = execution[e]
    BY <2>1, <2>2, <2>4 DEF ExecOf
  <2>7. \A d \in Contact \ {c} : LiveOf(d)' = LiveOf(d)
    BY <2>6 DEF LiveOf, Live
  <2>8. OneLiveExecution'
    BY <2>5, <2>7 DEF EngineInv, OneLiveExecution
  <2>9. WaitsInv'
    BY <2>1, <2>2, <2>4, LiveLists DEF EngineInv, WaitsInv
  <2>10. step'[c] = NoStep /\ \A d \in Contact \ {c} : step'[d] = step[d]
    BY <1>0, <2>2 DEF FlowTypeOK
  <2>11. StepInv(c)' /\ RestInv(c)'
    BY <2>10, StepTypes DEF StepInv, RestInv, Running, Idle
  <2>12. ASSUME NEW d \in Contact \ {c} PROVE StepInv(d)' /\ RestInv(d)'
    BY <1>0, <2>6, <2>10, OthersKeep DEF EngineInv, RestInv, Running, Idle
  <2>13. QED
    BY <2>3, <2>8, <2>9, <2>11, <2>12 DEF EngineInv
<1>12. ASSUME NEW c \in Contact, NEW f \in Flow, HandOff(c, f) PROVE EngineInv'
  <2>1. PICK e \in NextId(c), u \in Step :
           /\ step' = [step EXCEPT ![c] = u]
           /\ u.run = e /\ u.touched = step[c].touched \cup {e}
           /\ HandedTo(u.rows[e], f)
           /\ u.rows[step[c].run].status = "completed"
           /\ \A d \in step[c].touched \ {step[c].run} : u.rows[d] = step[c].rows[d]
           /\ u.left = step[c].left /\ u.by = step[c].by
    BY <1>12, HandOffFacts
  <2>2. e \in ExecOf(c) /\ execution[e].status = "none"
    BY DEF NextId, Unused
  <2>3. /\ step[c].touched \subseteq ExecOf(c) /\ LiveOf(c) \subseteq step[c].touched
        /\ \A d \in step[c].touched \ {step[c].run} : step[c].rows[d].status \in OverStatus
        /\ \A d \in step[c].touched : ~Over(d)
        /\ step[c].by # "start" => step[c].left \in Wait
    BY <1>12 DEF EngineInv, StepInv, HandOff
  <2>4. \A d \in u.touched \ {u.run} : u.rows[d].status \in OverStatus
    BY <2>1, <2>3 DEF OverStatus
  <2>5. \A d \in u.touched : ~Over(d)
    BY <2>1, <2>2, <2>3, LiveLists DEF Over
  <2>6. UNCHANGED <<lifeVars, execution, timer, history>>
    BY <1>12 DEF HandOff
  <2>7. u.rows[u.run].status = "running"
    BY <2>1 DEF HandedTo, Begun
  <2>8. QED
    BY <2>1, <2>2, <2>3, <2>4, <2>5, <2>6, <2>7, BeganInv
<1>13. ASSUME NEW f \in Flow, LifeMoves(f) PROVE EngineInv'
  <2>1. UNCHANGED <<execution, timer, step, history>>
    BY <1>13 DEF LifeMoves
  <2>2. /\ flowStatus' \in [Flow -> FlowStatus] /\ published' \in [Flow -> BOOLEAN]
        /\ quiet' \in SUBSET Flow
    BY <1>0, <1>13 DEF LifeMoves, Publish, ArchiveFlow, RestoreFlow, SetOffline,
                       ScanConversations, OfflineCrash, FlowTypeOK, FlowStatus
  <2>3. stopping' \in [Flow -> Stopping]
    <3>1. stopping \in [Flow -> Stopping] /\ Scan(f) \in SUBSET Exec
      BY <1>0 DEF FlowTypeOK, Stopping, Scan
    <3>2. CASE Publish(f) \/ SetOffline(f)
      BY <3>1, <3>2 DEF Publish, SetOffline, Stopping
    <3>3. CASE ArchiveFlow(f) \/ RestoreFlow(f)
      BY <3>1, <3>3 DEF ArchiveFlow, RestoreFlow
    <3>4. CASE ScanConversations(f)
      <4>1. /\ [at |-> "no", scanned |-> {}] \in Stopping
            /\ [at |-> "scanned", scanned |-> Scan(f)] \in Stopping
            /\ [at |-> "late", scanned |-> Scan(f)] \in Stopping
        BY <3>1 DEF Stopping
      <4>2. QED
        BY <3>1, <3>4, <4>1 DEF ScanConversations
    <3>5. CASE OfflineCrash(f)
      BY <3>1, <3>5 DEF OfflineCrash, Stopping
    <3>6. QED
      BY <1>13, <3>2, <3>3, <3>4, <3>5 DEF LifeMoves
  <2>4. FlowTypeOK'
    BY <1>0, <2>1, <2>2, <2>3 DEF FlowTypeOK, Stopping, history
  <2>5. QED
    BY <2>1, <2>4, RowsStayInv
<1>14. CASE FlowNext
  BY <1>0, <1>2, <1>3, <1>4, <1>5, <1>7, <1>8, <1>9, <1>10, <1>11, <1>12, <1>13, <1>14, NextMoves
     DEF Moves
<1>15. QED
  BY <1>1, <1>14

(***************************************************************************)
(* All variables keep their types, for every number of contacts and flows.  *)
(***************************************************************************)
THEOREM FlowTypes == FlowSpec => []FlowTypeOK
<1>1. EngineInv => FlowTypeOK
  BY DEF EngineInv
<1>2. QED
  BY <1>1, EngineInvInit, EngineInvStep, PTL DEF FlowSpec

(***************************************************************************)
(* A contact has at most one live execution across all flows (SPEC 22): the *)
(* partial unique index only knows one flow, superseding under the contact  *)
(* lock does the rest, against edits and the sweep that take no such lock.  *)
(***************************************************************************)
THEOREM OneLiveExecutionHolds == FlowSpec => []OneLiveExecution
<1>1. EngineInv => OneLiveExecution
  BY DEF EngineInv
<1>2. QED
  BY <1>1, EngineInvInit, EngineInvStep, PTL DEF FlowSpec

-----------------------------------------------------------------------------
(* The engine implements OneConversation.                                  *)

LEMMA StaysTalking ==
    ASSUME FlowTypeOK, \A e \in Exec : execution'[e].status = execution[e].status
    PROVE  UNCHANGED Conversation!vars
<1>1. \A c \in Contact : LiveOf(c)' = LiveOf(c)
  BY DEF LiveOf, ExecOf, Live
<1>2. {e \in Exec : Over(e)}' = {e \in Exec : Over(e)}
  BY DEF Over
<1>3. QED
  BY <1>1, <1>2 DEF Conversation!vars

\* Cutting off executions ends whole conversations, since a contact has one.
LEMMA CutRefines ==
    ASSUME EngineInv, NEW cut \in SUBSET Exec, \A e \in cut : Live(e),
           execution' = [e \in Exec |-> IF e \in cut THEN Expired(execution[e]) ELSE execution[e]]
    PROVE  Conversation!Cut
<1> DEFINE who == {ContactOf[e] : e \in cut}
<1>1. who \in SUBSET Contact
  BY FlowAssumption
<1>2. \A e \in Exec : execution'[e].status = IF e \in cut THEN "expired" ELSE execution[e].status
  BY RowTypes DEF EngineInv, FlowTypeOK
<1>3. \A c \in Contact : LiveOf(c)' = LiveOf(c) \ cut
  BY <1>2 DEF LiveOf, ExecOf, Live, LiveStatus
<1>4. \A c \in Contact : c \in who => LiveOf(c) \subseteq cut
  BY DEF EngineInv, OneLiveExecution, LiveOf, ExecOf
<1>5. \A c \in Contact : c \notin who => LiveOf(c) \cap cut = {}
  BY DEF LiveOf, ExecOf
<1>6. \A c \in Contact : LiveOf(c)' = IF c \in who THEN {} ELSE LiveOf(c)
  BY <1>3, <1>4, <1>5
<1>7. {e \in Exec : Over(e)}' = {e \in Exec : Over(e)} \cup cut
  BY <1>2, LiveLists DEF Over, Live, OverStatus
<1> DEFINE talk == [c \in Contact |-> LiveOf(c)]
<1>8. cut = UNION {talk[c] : c \in who}
  <2>1. \A e \in cut : ContactOf[e] \in who /\ e \in LiveOf(ContactOf[e])
    BY DEF LiveOf, ExecOf
  <2>2. QED
    BY <1>1, <1>4, <2>1
<1>9. [c \in Contact |-> LiveOf(c)]' = [c \in Contact |-> IF c \in who THEN {} ELSE talk[c]]
  BY <1>6
<1> HIDE DEF who, talk
<1>10. \E w \in SUBSET Contact :
          /\ [c \in Contact |-> LiveOf(c)]' = [c \in Contact |-> IF c \in w THEN {} ELSE talk[c]]
          /\ {e \in Exec : Over(e)}' = {e \in Exec : Over(e)} \cup UNION {talk[c] : c \in w}
  BY <1>1, <1>7, <1>8, <1>9
<1>11. QED
  BY <1>10 DEF Conversation!Cut, talk

\* A committing step ends what it held and leaves its run behind, if that waits.
LEMMA CommitRefines ==
    ASSUME EngineInv, NEW c \in Contact, NEW row \in Row, NEW armed \in SUBSET Wait,
           Ends(c, row, armed)
    PROVE  Conversation!Turn(c)
<1> DEFINE run == step[c].run
           touched == step[c].touched
           next == IF row.status \in Waiting THEN {run} ELSE {}
           ended == touched \ next
           over == {e \in Exec : Over(e)}
<1>1. /\ run \in touched /\ touched \subseteq ExecOf(c) /\ LiveOf(c) \subseteq touched
      /\ \A e \in touched \ {run} : step[c].rows[e].status \in OverStatus
      /\ \A e \in touched : ~Over(e)
  BY DEF Ends, EngineInv, StepInv
<1>2. /\ row.status \in {"completed", "failed"} \cup Waiting
      /\ execution'[run] = row
      /\ \A e \in touched \ {run} : execution'[e] = step[c].rows[e]
      /\ \A e \in Exec \ touched : execution'[e] = execution[e]
  BY CommitFacts DEF EngineInv
<1> HIDE DEF run, touched
<1>3. ExecOf(c) \subseteq Exec /\ \A d \in Contact \ {c} : ExecOf(d) \cap ExecOf(c) = {}
  BY DEF ExecOf
<1>4. \A e \in touched : IF e \in next THEN execution'[e].status \in LiveStatus
                          ELSE execution'[e].status \in OverStatus
  BY <1>1, <1>2, LiveLists DEF OverStatus
<1>5. LiveOf(c)' = next
  BY <1>1, <1>2, <1>3, <1>4, LiveLists DEF LiveOf, Live
<1>6. \A d \in Contact \ {c} : LiveOf(d)' = LiveOf(d)
  BY <1>1, <1>2, <1>3 DEF LiveOf, Live, ExecOf
<1>7. over' = over \cup ended
  BY <1>1, <1>2, <1>3, <1>4, LiveLists DEF Over
<1>8. [d \in Contact |-> LiveOf(d)]' = [[d \in Contact |-> LiveOf(d)] EXCEPT ![c] = next]
  BY <1>5, <1>6
<1>9. /\ next \in {{}} \cup {{e} : e \in ExecOf(c) \ over}
      /\ ended \in SUBSET ExecOf(c) /\ ended \cap next = {} /\ LiveOf(c) \ next \subseteq ended
  BY <1>1, <1>3
<1>10. Conversation!ExecOf(c) = ExecOf(c)
  BY DEF Conversation!ExecOf, ExecOf
<1> HIDE DEF next, ended
<1>11. QED
  BY <1>7, <1>8, <1>9, <1>10 DEF Conversation!Turn

LEMMA StepRefines ==
    ASSUME EngineInv, [FlowNext]_flowVars
    PROVE  [Conversation!Next]_Conversation!vars
<1>1. CASE UNCHANGED flowVars
  BY <1>1, StaysTalking DEF EngineInv, flowVars
<1>2. CASE UNCHANGED execution
  BY <1>2, StaysTalking DEF EngineInv
<1>3. ASSUME NEW e \in Exec, Reask(e) PROVE [Conversation!Next]_Conversation!vars
  <2>1. \A d \in Exec : execution'[d].status = execution[d].status
    BY <1>3 DEF Reask, EngineInv, FlowTypeOK, Row
  <2>2. QED
    BY <2>1, StaysTalking DEF EngineInv
<1>4. ASSUME NEW cut \in SUBSET Exec, NEW who \in SUBSET Contact, CutsOff(cut, who)
      PROVE  Conversation!Next
  BY <1>4, CutRefines DEF CutsOff, Conversation!Next
<1>5. ASSUME NEW f \in Flow, StopConversations(f) PROVE Conversation!Next
  BY <1>4, <1>5, StopCuts DEF EngineInv
<1>6. ASSUME NEW c \in Contact, NEW row \in Row, NEW armed \in SUBSET Wait, Ends(c, row, armed)
      PROVE  Conversation!Next
  BY <1>6, CommitRefines DEF Conversation!Next
<1>7. CASE FlowNext
  BY <1>2, <1>3, <1>4, <1>5, <1>6, <1>7, NextMoves
     DEF EngineInv, Moves, Starts, Resumes, TimerMoves, RunBlock, RollBack, HandOff, LifeMoves
<1>8. QED
  BY <1>1, <1>7

(***************************************************************************)
(* The engine implements OneConversation: whatever starts, resumes, hands   *)
(* off, rolls back, is switched off or swept, a contact's conversation       *)
(* moves on or ends, and an execution that is over stays over.              *)
(***************************************************************************)
THEOREM EngineImplementsConversation == FlowSpec => ImplementsConversation
<1>1. FlowInit => Conversation!Init
  BY RowTypes DEF FlowInit, Conversation!Init, LiveOf, ExecOf, Live, Over, LiveStatus, OverStatus
<1>2. EngineInv /\ [FlowNext]_flowVars => [Conversation!Next]_Conversation!vars
  BY StepRefines
<1>3. QED
  BY <1>1, <1>2, EngineInvInit, EngineInvStep, PTL
     DEF FlowSpec, ImplementsConversation, Conversation!Spec

-----------------------------------------------------------------------------
(* What a transaction knows of the rows it holds.                           *)

\* It carries their waits over, its run is a new row or the one it resumes, it
\* has locked the flow of a new run, and the wait it leaves is still committed.
HeldInv(c) ==
    Running(c) =>
        /\ \A e \in step[c].touched : execution[e].status # "none" =>
                                         step[c].rows[e].waits = execution[e].waits
        /\ execution[step[c].run].status # "none" =>
              /\ execution[step[c].run].status \in Waiting
              /\ RunRow(c).flow = execution[step[c].run].flow
              /\ RunRow(c).preview <=> execution[step[c].run].preview
        /\ execution[step[c].run].status = "none" => RunRow(c).flow \in step[c].shared
        /\ step[c].by # "start" => /\ step[c].left[1] \in step[c].touched
                                   /\ AtWait(step[c].left[1], step[c].left[2])

AllHeld == \A c \in Contact : HeldInv(c)

\* Nobody else writes a row that a step has touched.
LEMMA TouchedStay ==
    ASSUME EngineInv, [FlowNext]_flowVars, NEW c \in Contact, Running(c), step'[c] = step[c]
    PROVE  \A e \in step[c].touched : execution'[e] = execution[e]
<1>1. /\ step[c].touched \subseteq ExecOf(c) /\ ExecOf(c) \subseteq Exec
      /\ \A e \in step[c].touched : e \in Exec /\ ContactOf[e] = c /\ Locked(e)
      /\ step[c].run \in Exec
  BY RunTypes DEF EngineInv, StepInv, ExecOf, Locked
<1>2. CASE UNCHANGED execution
  BY <1>2
<1>3. ASSUME NEW d \in Exec, Reask(d) PROVE \A e \in step[c].touched : execution'[e] = execution[e]
  <2>1. ContactOf[d] # c
    BY <1>3, StepTypes DEF Reask, Idle, Running
  <2>2. QED
    BY <1>1, <1>3, <2>1 DEF Reask, EngineInv, FlowTypeOK
<1>4. ASSUME NEW cut \in SUBSET Exec, NEW who \in SUBSET Contact, CutsOff(cut, who)
      PROVE  \A e \in step[c].touched : execution'[e] = execution[e]
  BY <1>1, <1>4 DEF CutsOff
<1>5. ASSUME NEW f \in Flow, StopConversations(f)
      PROVE  \A e \in step[c].touched : execution'[e] = execution[e]
  BY <1>4, <1>5, StopCuts DEF EngineInv
<1>6. ASSUME NEW d \in Contact, NEW row \in Row, NEW armed \in SUBSET Wait, Ends(d, row, armed)
      PROVE  \A e \in step[c].touched : execution'[e] = execution[e]
  <2>1. /\ \A e \in Exec \ step[d].touched : execution'[e] = execution[e]
        /\ step' = [step EXCEPT ![d] = NoStep]
    BY <1>6, CommitFacts DEF EngineInv
  <2>2. step' [d] = NoStep /\ step[d].run # 0
    BY <1>6, <2>1 DEF Ends, Running, EngineInv, FlowTypeOK
  <2>3. d # c
    BY <2>2, StepTypes
  <2>4. step[d].touched \subseteq ExecOf(d)
    BY <1>6 DEF Ends, EngineInv, StepInv
  <2>5. QED
    BY <1>1, <2>1, <2>3, <2>4 DEF ExecOf
<1>7. CASE FlowNext
  BY <1>2, <1>3, <1>4, <1>5, <1>6, <1>7, NextMoves
     DEF EngineInv, Moves, Starts, Resumes, TimerMoves, RunBlock, RollBack, HandOff, LifeMoves
<1>8. QED
  BY <1>2, <1>7 DEF flowVars

LEMMA HeldStays ==
    ASSUME EngineInv, [FlowNext]_flowVars, NEW c \in Contact, HeldInv(c), step'[c] = step[c]
    PROVE  HeldInv(c)'
<1>1. CASE ~Running(c)
  BY <1>1 DEF HeldInv, Running
<1>2. CASE Running(c)
  <2>1. \A e \in step[c].touched : execution'[e] = execution[e]
    BY <1>2, TouchedStay
  <2>2. step[c].run \in step[c].touched
    BY <1>2 DEF EngineInv, StepInv
  <2>3. QED
    BY <1>2, <2>1, <2>2 DEF HeldInv, Running, RunRow, AtWait
<1>3. QED
  BY <1>1, <1>2

LEMMA HeldInit == FlowInit => AllHeld
BY StepTypes DEF FlowInit, AllHeld, HeldInv, Running

LEMMA HeldStep ==
    ASSUME EngineInv, AllHeld, [FlowNext]_flowVars
    PROVE  AllHeld'
<1>0. FlowTypeOK
  BY DEF EngineInv
<1>3. ASSUME UNCHANGED step PROVE AllHeld'
  BY <1>3, HeldStays DEF AllHeld
<1>4. ASSUME NEW c \in Contact, NEW u \in Step, step' = [step EXCEPT ![c] = u], HeldInv(c)'
      PROVE  AllHeld'
  BY <1>0, <1>4, HeldStays DEF AllHeld, FlowTypeOK
<1>5. ASSUME NEW c \in Contact, NEW f \in Flow, NEW x \in BOOLEAN, NEW e \in NextId(c),
             Starts(c, f, x, e)
      PROVE  AllHeld'
  <2> DEFINE u == Entering(NoStep, c, f, x, e)
  <2>1. e \in Exec /\ execution[e].status = "none"
    BY DEF NextId, Unused, ExecOf
  <2>2. /\ u \in Step /\ u.run = e /\ u.touched = LiveOf(c) \cup {e}
        /\ u.rows[e].flow = f /\ u.by = "start" /\ f \in u.shared
        /\ \A d \in LiveOf(c) \ {e} : u.rows[d] = Expired(execution[d])
    <3>1. u = Entering(NoStep, c, f, x, e)
      OBVIOUS
    <3> HIDE DEF u
    <3>2. /\ u \in Step /\ u.run = e /\ u.touched = NoStep.touched \cup LiveOf(c) \cup {e}
          /\ Begun(u.rows[e], f, x) /\ u.by = NoStep.by
          /\ \A d \in (LiveOf(c) \ NoStep.touched) \ {e} : u.rows[d] = Expired(execution[d])
          /\ u.shared = NoStep.shared \cup {f}
      BY <1>0, <2>1, <3>1, StepTypes, EnteringFacts
    <3>3. QED
      BY <3>2, StepTypes DEF Begun
  <2>3. step' = [step EXCEPT ![c] = u] /\ UNCHANGED execution
    BY <1>5 DEF Starts
  <2> HIDE DEF u
  <2>4. step'[c] = u
    BY <1>0, <2>3 DEF FlowTypeOK
  <2>5. \A d \in LiveOf(c) : execution[d] \in Row
    BY <1>0 DEF LiveOf, ExecOf, FlowTypeOK
  <2>6. HeldInv(c)'
    BY <2>1, <2>2, <2>3, <2>4, <2>5, RowTypes DEF HeldInv, RunRow
  <2>7. QED
    BY <1>4, <2>2, <2>3, <2>6
<1>6. ASSUME NEW e \in Exec, NEW by \in Cause, Resumes(e, by) PROVE AllHeld'
  <2> DEFINE c == ContactOf[e]
             w == <<e, execution[e].waits>>
             u == Resumed(e, w, by)
  <2>1. c \in Contact
    BY LiveLists
  <2>2. w \in Wait /\ w[1] = e /\ w[2] = execution[e].waits /\ execution[e].status \in Waiting
    BY <1>6 DEF EngineInv, WaitsInv, Resumes
  <2>3. step' = [step EXCEPT ![c] = u] /\ UNCHANGED execution
    BY <1>6 DEF Resumes
  <2>4. u = Resumed(e, w, by)
    OBVIOUS
  <2> HIDE DEF u, w, c
  <2>5. /\ u \in Step /\ u.run = e /\ u.touched = {e} /\ u.left = w
        /\ u.rows[e].flow = execution[e].flow
        /\ u.rows[e].preview = execution[e].preview
        /\ u.rows[e].waits = execution[e].waits
    BY <1>0, <2>2, <2>4, ResumedFacts
  <2>6. step'[c] = u
    BY <1>0, <2>1, <2>3 DEF FlowTypeOK
  <2>7. HeldInv(c)'
    BY <2>2, <2>3, <2>5, <2>6, LiveLists DEF HeldInv, RunRow, AtWait
  <2>8. QED
    BY <1>4, <2>1, <2>3, <2>5, <2>7
<1>7. ASSUME NEW c \in Contact, RunBlock(c) PROVE AllHeld'
  <2> DEFINE s == step[c]
             u == [s EXCEPT !.blocks = s.blocks + 1, !.ran = s.ran + 1]
  <2>1. s \in Step
    BY <1>0 DEF FlowTypeOK
  <2>2. step' = [step EXCEPT ![c] = u] /\ UNCHANGED execution
    BY <1>7 DEF RunBlock
  <2>3. /\ u \in Step /\ u.run = s.run /\ u.touched = s.touched /\ u.rows = s.rows
        /\ u.by = s.by /\ u.left = s.left /\ u.shared = s.shared
    <3>1. s.blocks + 1 \in Nat /\ s.ran + 1 \in Nat
      BY <2>1 DEF Step
    <3> HIDE DEF s
    <3>2. QED
      BY <2>1, <3>1 DEF Step
  <2> HIDE DEF u
  <2>4. step'[c] = u
    BY <1>0, <2>2 DEF FlowTypeOK
  <2>5. HeldInv(c)'
    BY <2>2, <2>3, <2>4 DEF AllHeld, HeldInv, Running, RunRow, AtWait
  <2>6. QED
    BY <1>4, <2>2, <2>3, <2>5
<1>8. ASSUME NEW c \in Contact, step' = [step EXCEPT ![c] = NoStep] PROVE AllHeld'
  <2>1. step'[c] = NoStep
    BY <1>0, <1>8 DEF FlowTypeOK
  <2>2. HeldInv(c)'
    BY <2>1, StepTypes DEF HeldInv, Running
  <2>3. QED
    BY <1>4, <1>8, <2>2, StepTypes
<1>9. ASSUME NEW c \in Contact, NEW f \in Flow, HandOff(c, f) PROVE AllHeld'
  <2>1. PICK e \in NextId(c), u \in Step :
           /\ step' = [step EXCEPT ![c] = u]
           /\ u.run = e /\ u.touched = step[c].touched \cup {e}
           /\ HandedTo(u.rows[e], f)
           /\ u.rows[step[c].run].waits = step[c].rows[step[c].run].waits
           /\ \A d \in step[c].touched \ {step[c].run} : u.rows[d] = step[c].rows[d]
           /\ u.left = step[c].left /\ u.by = step[c].by
           /\ u.shared = step[c].shared \cup {f}
    BY <1>9, HandOffFacts
  <2>2. execution[e].status = "none" /\ UNCHANGED execution /\ Running(c)
    BY <1>9 DEF NextId, Unused, HandOff
  <2>3. step'[c] = u
    BY <1>0, <2>1 DEF FlowTypeOK
  <2>4. \A d \in step[c].touched : execution[d].status # "none" => u.rows[d].waits = execution[d].waits
    BY <2>1, <2>2 DEF AllHeld, HeldInv
  <2>5. HeldInv(c)'
    BY <2>1, <2>2, <2>3, <2>4 DEF AllHeld, HeldInv, RunRow, AtWait, HandedTo, Begun
  <2>6. QED
    BY <1>4, <2>1, <2>5
<1>10. ASSUME NEW c \in Contact, NEW row \in Row, NEW armed \in SUBSET Wait, Ends(c, row, armed)
       PROVE  AllHeld'
  BY <1>8, <1>10 DEF Ends, Commit
<1>11. ASSUME NEW f \in Flow, StopConversations(f) PROVE UNCHANGED step
  BY <1>11 DEF StopConversations
<1>12. CASE FlowNext
  BY <1>0, <1>3, <1>5, <1>6, <1>7, <1>8, <1>9, <1>10, <1>11, <1>12, NextMoves
     DEF Moves, Reask, TimerMoves, CutsOff, RollBack, LifeMoves
<1>13. QED
  BY <1>3, <1>12 DEF flowVars

-----------------------------------------------------------------------------
(* A wait that was left is not come back to.                                *)

Left == answered \cup elapsed

PastInv ==
    /\ LeftOnce
    /\ \A w \in Left : /\ execution[w[1]].status # "none"
                       /\ w[2] <= execution[w[1]].waits
                       /\ ~AtWait(w[1], w[2])

LEMMA PastInit == FlowInit => PastInv
BY DEF FlowInit, PastInv, LeftOnce, Left

LEMMA PastStep ==
    ASSUME EngineInv, AllHeld, PastInv, [FlowNext]_flowVars
    PROVE  PastInv'
<1>0. FlowTypeOK /\ \A w \in Left : w \in Wait /\ w[1] \in Exec /\ w[2] \in Nat
  BY WaitFacts DEF EngineInv, FlowTypeOK, Left
<1>1. ASSUME UNCHANGED history,
             \A e \in Exec : /\ execution'[e].waits = execution[e].waits
                             /\ \/ execution'[e].status = execution[e].status
                                \/ execution'[e].status = "expired"
      PROVE  PastInv'
  BY <1>0, <1>1 DEF PastInv, LeftOnce, Left, AtWait, history, Waiting
<1>2. ASSUME UNCHANGED <<execution, history>> PROVE PastInv'
  BY <1>1, <1>2
<1>3. ASSUME NEW e \in Exec, Reask(e) PROVE PastInv'
  <2>1. execution[e] \in Row
    BY <1>0 DEF FlowTypeOK
  <2>2. \A d \in Exec : /\ execution'[d].status = execution[d].status
                        /\ execution'[d].waits = execution[d].waits
    BY <1>0, <1>3, <2>1 DEF Reask, FlowTypeOK, Row
  <2>3. QED
    BY <1>1, <1>3, <2>2 DEF Reask
<1>4. ASSUME NEW cut \in SUBSET Exec, NEW who \in SUBSET Contact, CutsOff(cut, who)
      PROVE  PastInv'
  BY <1>0, <1>1, <1>4, RowTypes DEF CutsOff, FlowTypeOK
<1>5. ASSUME NEW f \in Flow, StopConversations(f) PROVE PastInv'
  BY <1>0, <1>4, <1>5, StopCuts
<1>6. ASSUME NEW c \in Contact, NEW row \in Row, NEW armed \in SUBSET Wait, Ends(c, row, armed)
      PROVE  PastInv'
  <2> DEFINE s == step[c]
  <2>1. /\ execution'[s.run] = row
        /\ \A e \in s.touched \ {s.run} : execution'[e] = s.rows[e]
        /\ \A e \in Exec \ s.touched : execution'[e] = execution[e]
        /\ row.status \in {"completed", "failed"} \cup Waiting
        /\ row.status \in Waiting => row.waits = RunRow(c).waits + 1
        /\ row.status \notin Waiting => row.waits = RunRow(c).waits
    BY <1>0, <1>6, CommitFacts DEF EngineInv
  <2>2. /\ Running(c) /\ s.run \in s.touched /\ s.touched \subseteq Exec
        /\ \A e \in s.touched \ {s.run} : s.rows[e].status \in OverStatus
        /\ \A e \in s.touched : execution[e].status # "none" => s.rows[e].waits = execution[e].waits
    BY <1>6 DEF Ends, EngineInv, StepInv, AllHeld, HeldInv, ExecOf
  <2>3. \A e \in Exec : execution[e].waits \in Nat
    BY <1>0 DEF FlowTypeOK, Row
  <2>4. ASSUME NEW e \in Exec, execution[e].status # "none"
        PROVE  /\ execution'[e].status # "none"
               /\ execution'[e].waits \in {execution[e].waits, execution[e].waits + 1}
               /\ e \in s.touched /\ execution'[e].status \in Waiting =>
                     execution'[e].waits = execution[e].waits + 1
               /\ e \notin s.touched => execution'[e] = execution[e]
    <3>1. CASE e = s.run
      BY <2>1, <2>2, <2>4, <3>1 DEF RunRow, Waiting
    <3>2. CASE e \in s.touched \ {s.run}
      BY <2>1, <2>2, <2>4, <3>2, LiveLists DEF OverStatus, Waiting
    <3>3. CASE e \notin s.touched
      BY <2>1, <2>4, <3>3
    <3>4. QED
      BY <3>1, <3>2, <3>3
  <2>5. ASSUME NEW v \in Left
        PROVE  /\ execution'[v[1]].status # "none" /\ v[2] <= execution'[v[1]].waits
               /\ ~AtWait(v[1], v[2])'
    BY <1>0, <2>3, <2>4, <2>5 DEF PastInv, AtWait
  <2>6. CASE s.by = "start"
    <3>1. UNCHANGED history
      BY <1>6, <2>6 DEF Ends, Commit, history
    <3>2. QED
      BY <2>5, <3>1 DEF PastInv, LeftOnce, Left, history
  <2>7. CASE s.by # "start"
    <3>1. PICK w \in Wait : /\ w = s.left /\ w[1] \in Exec /\ w[2] \in Nat
                            /\ w[1] \in s.touched /\ AtWait(w[1], w[2])
      BY <2>2, <2>7, WaitFacts DEF EngineInv, StepInv, AllHeld, HeldInv
    <3>2. w \notin Left
      BY <3>1 DEF PastInv
    <3>3. execution[w[1]].status # "none"
      BY <3>1 DEF AtWait, Waiting
    <3>4. /\ execution'[w[1]].status # "none" /\ w[2] <= execution'[w[1]].waits
          /\ ~AtWait(w[1], w[2])'
      <4>1. /\ execution'[w[1]].status # "none"
            /\ execution'[w[1]].waits \in {w[2], w[2] + 1}
            /\ execution'[w[1]].status \in Waiting => execution'[w[1]].waits = w[2] + 1
        BY <2>4, <3>1, <3>3 DEF AtWait
      <4>2. QED
        BY <3>1, <4>1 DEF AtWait
    <3>5. /\ Left' = Left \cup {w}
          /\ \/ answered' = answered \cup {w} /\ elapsed' = elapsed
             \/ answered' = answered /\ elapsed' = elapsed \cup {w}
      <4>1. s.by \in {"reply", "timer"}
        BY <1>0, <2>7 DEF FlowTypeOK, Step
      <4>2. CASE s.by = "reply"
        BY <1>6, <3>1, <4>2 DEF Ends, Commit, Left
      <4>3. CASE s.by = "timer"
        BY <1>6, <3>1, <4>3 DEF Ends, Commit, Left
      <4>4. QED
        BY <4>1, <4>2, <4>3
    <3>6. LeftOnce'
      BY <3>2, <3>5 DEF PastInv, LeftOnce, Left
    <3>7. QED
      BY <2>5, <3>4, <3>5, <3>6 DEF PastInv
  <2>8. QED
    BY <2>6, <2>7
<1>7. CASE FlowNext
  BY <1>0, <1>2, <1>3, <1>4, <1>5, <1>6, <1>7, NextMoves
     DEF Moves, Starts, Resumes, TimerMoves, RunBlock, RollBack, HandOff, LifeMoves
<1>8. QED
  BY <1>2, <1>7 DEF flowVars

(***************************************************************************)
(* A reply and a timer never both move a conversation out of the same wait, *)
(* in any order of replies, retries, starts and sweeps.                     *)
(***************************************************************************)
THEOREM WaitsAreLeftOnce == FlowSpec => []LeftOnce
<1>1. FlowInit => EngineInv /\ AllHeld /\ PastInv
  BY EngineInvInit, HeldInit, PastInit
<1>2. EngineInv /\ AllHeld /\ PastInv /\ [FlowNext]_flowVars => EngineInv' /\ AllHeld' /\ PastInv'
  BY EngineInvStep, HeldStep, PastStep
<1>3. PastInv => LeftOnce
  BY DEF PastInv
<1>4. QED
  BY <1>1, <1>2, <1>3, PTL DEF FlowSpec

-----------------------------------------------------------------------------
(* A timed wait keeps its queue row.                                        *)

Armed(w) == timer[w] \in {"pending", "claimed", "failed"}

\* What a commit does to the timer of a wait of somebody else.
LEMMA CommitSpares ==
    ASSUME EngineInv, AllHeld, NEW c \in Contact, NEW row \in Row, NEW armed \in SUBSET Wait,
           Ends(c, row, armed), NEW w \in Wait, w[1] \notin ExecOf(c)
    PROVE  Armed(w) => Armed(w)'
<1>1. w[1] \in Exec /\ ContactOf[w[1]] # c
  BY WaitFacts DEF ExecOf
<1> DEFINE kept == IF step[c].cancels THEN Disarmed({c}, timer) ELSE timer
<1>2. kept[w] = timer[w]
  BY <1>1 DEF Disarmed
<1>3. PICK timers \in TimerDone(step[c], kept) :
         timer' = [v \in Wait |-> IF v \in armed THEN "pending" ELSE timers[v]]
  BY DEF Ends, Commit
<1>4. step[c].by = "timer" => step[c].left # w
  BY DEF Ends, AllHeld, HeldInv, EngineInv, StepInv
<1>5. timers[w] = kept[w]
  <2>1. kept \in [Wait -> TimerStatus]
    BY DEF EngineInv, FlowTypeOK, Disarmed, TimerStatus
  <2> HIDE DEF kept
  <2>2. QED
    BY <1>3, <1>4, <2>1 DEF TimerDone
<1>6. QED
  BY <1>2, <1>3, <1>5 DEF Armed

LEMMA ArmedStep ==
    ASSUME EngineInv, AllHeld, WaitingIsArmed, [FlowNext]_flowVars
    PROVE  WaitingIsArmed'
<1>0. FlowTypeOK /\ WaitsInv
  BY DEF EngineInv
<1> SUFFICES ASSUME NEW e \in Exec, (execution[e].status \in Waiting)', (execution[e].timed)'
             PROVE  Armed(<<e, execution[e].waits>>)'
  BY DEF WaitingIsArmed, Armed
<1>1. execution[e].status \in Waiting /\ execution[e].timed =>
         /\ <<e, execution[e].waits>> \in Wait
         /\ Armed(<<e, execution[e].waits>>)
  BY <1>0 DEF WaitingIsArmed, WaitsInv, Armed
<1>2. ASSUME execution'[e] = execution[e], UNCHANGED timer
      PROVE  Armed(<<e, execution[e].waits>>)'
  BY <1>1, <1>2 DEF Armed
<1>3. ASSUME NEW d \in Exec, Reask(d) PROVE Armed(<<e, execution[e].waits>>)'
  <2>1. execution[d] \in Row
    BY <1>0 DEF FlowTypeOK
  <2>2. /\ execution'[e].status = execution[e].status
        /\ execution'[e].waits = execution[e].waits
        /\ execution'[e].timed = execution[e].timed
    BY <1>0, <1>3, <2>1 DEF Reask, FlowTypeOK, Row
  <2>3. QED
    BY <1>1, <1>3, <2>2 DEF Reask, Armed
<1>4. ASSUME NEW w \in Wait, TimerMoves(w) PROVE Armed(<<e, execution[e].waits>>)'
  <2>1. UNCHANGED execution
    BY <1>4 DEF TimerMoves
  <2>2. CASE \E s \in {"pending", "claimed", "failed"} : timer' = [timer EXCEPT ![w] = s]
    BY <1>0, <1>1, <2>1, <2>2 DEF Armed, FlowTypeOK
  <2>3. CASE DropStaleTimer(w)
    <3>1. <<e, execution[e].waits>> # w
      BY <2>1, <2>3 DEF DropStaleTimer, Current, Live, AtWait, Waiting, LiveStatus
    <3>2. QED
      BY <1>0, <1>1, <2>1, <2>3, <3>1 DEF DropStaleTimer, Armed, FlowTypeOK
  <2>4. QED
    BY <1>4, <2>2, <2>3 DEF TimerMoves
<1>5. ASSUME NEW cut \in SUBSET Exec, NEW who \in SUBSET Contact, CutsOff(cut, who)
      PROVE  Armed(<<e, execution[e].waits>>)'
  <2>1. e \notin cut /\ execution'[e] = execution[e]
    BY <1>0, <1>5, RowTypes DEF CutsOff, FlowTypeOK, Waiting
  <2>2. ContactOf[e] \notin who
    <3>1. ContactOf[e] \in Contact /\ Live(e)
      BY <2>1, LiveLists DEF Live
    <3>2. \A d \in cut : ContactOf[d] # ContactOf[e]
      BY <1>5, <2>1, <3>1, LiveLists DEF CutsOff, EngineInv, OneLiveExecution
    <3>3. QED
      BY <1>5, <3>2 DEF CutsOff
  <2>3. QED
    BY <1>1, <1>5, <2>1, <2>2 DEF CutsOff, Disarmed, Armed
<1>6. ASSUME NEW f \in Flow, StopConversations(f) PROVE Armed(<<e, execution[e].waits>>)'
  BY <1>0, <1>5, <1>6, StopCuts
<1>7. ASSUME NEW c \in Contact, NEW row \in Row, NEW armed \in SUBSET Wait, Ends(c, row, armed)
      PROVE  Armed(<<e, execution[e].waits>>)'
  <2>1. /\ execution'[step[c].run] = row
        /\ \A d \in step[c].touched \ {step[c].run} : execution'[d] = step[c].rows[d]
        /\ \A d \in Exec \ step[c].touched : execution'[d] = execution[d]
        /\ row.status \in Waiting => /\ <<step[c].run, row.waits>> \in Wait
                                      /\ row.waits = RunRow(c).waits + 1
    BY <1>0, <1>7, CommitFacts DEF EngineInv
  <2>2. /\ \A d \in step[c].touched \ {step[c].run} : step[c].rows[d].status \in OverStatus
        /\ LiveOf(c) \subseteq step[c].touched
    BY <1>7 DEF Ends, EngineInv, StepInv
  <2>3. CASE e = step[c].run
    <3>1. row.status \in Waiting /\ row.timed
      BY <2>1, <2>3
    <3>2. armed = {<<e, row.waits>>}
      BY <1>7, <2>1, <2>3, <3>1 DEF Ends, Outcome, Waiting
    <3>3. QED
      BY <1>7, <2>1, <2>3, <3>1, <3>2 DEF Ends, Commit, Armed
  <2>4. CASE e \in step[c].touched \ {step[c].run}
    BY <2>1, <2>2, <2>4, LiveLists
  <2>5. CASE e \notin step[c].touched
    <3>1. execution'[e] = execution[e]
      BY <2>1, <2>5
    <3>2. e \notin ExecOf(c)
      BY <2>2, <2>5, <3>1, LiveLists DEF LiveOf, Live
    <3>3. QED
      BY <1>1, <1>7, <3>1, <3>2, CommitSpares DEF Armed
  <2>6. QED
    BY <2>3, <2>4, <2>5
<1>8. CASE FlowNext
  BY <1>0, <1>2, <1>3, <1>4, <1>5, <1>6, <1>7, <1>8, NextMoves
     DEF Moves, Starts, Resumes, RunBlock, RollBack, HandOff, LifeMoves
<1>9. QED
  BY <1>2, <1>8 DEF flowVars

(***************************************************************************)
(* A conversation that waits for a deadline or a delay still has the queue  *)
(* row that ends it: superseding, taking offline and stopping cancel the     *)
(* timers of nobody who goes on waiting.                                    *)
(***************************************************************************)
THEOREM WaitsStayArmed == FlowSpec => []WaitingIsArmed
<1>1. FlowInit => EngineInv /\ AllHeld /\ WaitingIsArmed
  <2>1. FlowInit => WaitingIsArmed
    BY RowTypes DEF FlowInit, WaitingIsArmed, Waiting
  <2>2. QED
    BY <2>1, EngineInvInit, HeldInit
<1>2. EngineInv /\ AllHeld /\ WaitingIsArmed /\ [FlowNext]_flowVars =>
         EngineInv' /\ AllHeld' /\ WaitingIsArmed'
  BY EngineInvStep, HeldStep, ArmedStep
<1>3. QED
  BY <1>1, <1>2, PTL DEF FlowSpec

-----------------------------------------------------------------------------
(* A flow that was taken offline stays quiet.                               *)

\* take_offline has unpublished the flow and nobody has published it since.
Closed(f) == f \in quiet \/ stopping[f].at \in {"ready", "scanned"}

\* A conversation with a contact that a transaction is about to open, or is committed.
Opens(c, f) == /\ Running(c) /\ execution[step[c].run].status = "none"
               /\ RunRow(c).flow = f /\ ~RunRow(c).preview
Talks(e, f) == Live(e) /\ execution[e].flow = f /\ ~execution[e].preview

QuietInv(f) ==
    /\ Closed(f) => ~published[f] /\ \A c \in Contact : ~Opens(c, f)
    /\ f \in quiet => \A e \in Exec : ~Talks(e, f)
    /\ stopping[f].at = "scanned" => \A e \in Exec : Talks(e, f) => e \in stopping[f].scanned

AllQuiet == \A f \in Flow : QuietInv(f)

LEMMA QuietInit == FlowInit => AllQuiet
BY StepTypes DEF FlowInit, AllQuiet, QuietInv, Closed, Running

\* The flow is as it was and nothing opens or goes on that did not before.
LEMMA QuietFrame ==
    ASSUME AllQuiet, UNCHANGED lifeVars,
           \A f \in Flow : Closed(f) =>
              /\ \A c \in Contact : Opens(c, f)' => Opens(c, f)
              /\ \A e \in Exec : Talks(e, f)' => Talks(e, f)
    PROVE  AllQuiet'
BY DEF AllQuiet, QuietInv, Closed, lifeVars

\* The rows of a flow's own life; the conversations are as they were.
LEMMA QuietLife ==
    ASSUME EngineInv, AllHeld, AllQuiet, NEW g \in Flow, LifeMoves(g)
    PROVE  AllQuiet'
<1>0. FlowTypeOK
  BY DEF EngineInv
<1>1. UNCHANGED <<execution, step>>
  BY DEF LifeMoves
<1>2. \A f \in Flow : /\ \A c \in Contact : Opens(c, f)' <=> Opens(c, f)
                      /\ \A e \in Exec : Talks(e, f)' <=> Talks(e, f)
  BY <1>1 DEF Opens, Talks, Live, Running, RunRow
<1> SUFFICES ASSUME NEW f \in Flow PROVE QuietInv(f)'
  BY DEF AllQuiet
<1>3. QuietInv(f)
  BY DEF AllQuiet
<1>4. ASSUME /\ f \in quiet' => f \in quiet
             /\ stopping'[f].at \in {"ready", "scanned"} => Closed(f)
             /\ published'[f] => published[f] \/ ~Closed(f)'
             /\ stopping'[f].at = "scanned" => \A e \in Exec : Talks(e, f) => e \in stopping'[f].scanned
      PROVE  QuietInv(f)'
  BY <1>2, <1>3, <1>4 DEF QuietInv, Closed
<1>5. CASE Publish(g)
  <2>1. CASE f = g
    <3>1. f \notin quiet' /\ stopping'[f].at \notin {"ready", "scanned"}
      BY <1>0, <1>5, <2>1 DEF Publish, ShareFree, FlowTypeOK
    <3>2. QED
      BY <1>4, <3>1 DEF Closed
  <2>2. CASE f # g
    BY <1>0, <1>3, <1>4, <1>5, <2>2 DEF Publish, FlowTypeOK, QuietInv, Closed
  <2>3. QED
    BY <2>1, <2>2
<1>6. CASE ArchiveFlow(g) \/ RestoreFlow(g)
  BY <1>3, <1>4, <1>6 DEF ArchiveFlow, RestoreFlow, QuietInv, Closed
<1>7. CASE SetOffline(g)
  <2>1. CASE f = g
    <3>1. \A c \in Contact : ~Opens(c, f)
      BY <1>7, <2>1 DEF SetOffline, NoStartInFlight, Opens, AllHeld, HeldInv
    <3>2. ~published'[f] /\ quiet' = quiet /\ stopping'[f].at = "ready"
      BY <1>0, <1>7, <2>1 DEF SetOffline, FlowTypeOK
    <3>3. QED
      BY <1>2, <1>3, <3>1, <3>2 DEF QuietInv
  <2>2. CASE f # g
    BY <1>0, <1>3, <1>4, <1>7, <2>2 DEF SetOffline, FlowTypeOK, QuietInv, Closed
  <2>3. QED
    BY <2>1, <2>2
<1>8. CASE ScanConversations(g)
  <2>1. CASE f = g
    <3>1. stopping'[f].at = "scanned" => stopping[f].at = "ready" /\ stopping'[f].scanned = Scan(f)
      BY <1>0, <1>8, <2>1 DEF ScanConversations, FlowTypeOK
    <3>2. stopping'[f].at # "ready"
      BY <1>0, <1>8, <2>1 DEF ScanConversations, FlowTypeOK
    <3>3. \A e \in Exec : Talks(e, f) => e \in Scan(f)
      BY DEF Talks, Scan
    <3>4. QED
      BY <1>4, <1>8, <3>1, <3>2, <3>3 DEF ScanConversations, Closed
  <2>2. CASE f # g
    BY <1>0, <1>3, <1>4, <1>8, <2>2 DEF ScanConversations, FlowTypeOK, QuietInv, Closed
  <2>3. QED
    BY <2>1, <2>2
<1>9. CASE OfflineCrash(g)
  <2>1. stopping'[f].at = "no" \/ stopping'[f] = stopping[f]
    BY <1>0, <1>9 DEF OfflineCrash, FlowTypeOK
  <2>2. QED
    BY <1>3, <1>4, <1>9, <2>1 DEF OfflineCrash, QuietInv, Closed
<1>10. QED
  BY <1>5, <1>6, <1>7, <1>8, <1>9 DEF LifeMoves

LEMMA QuietStop ==
    ASSUME EngineInv, AllHeld, AllQuiet, NEW g \in Flow, StopConversations(g)
    PROVE  AllQuiet'
<1>0. FlowTypeOK
  BY DEF EngineInv
<1> DEFINE cut == {e \in stopping[g].scanned : Live(e)}
<1>1. execution' = [e \in Exec |-> IF e \in cut THEN Expired(execution[e]) ELSE execution[e]]
  BY DEF StopConversations
<1>2. \A e \in Exec : execution'[e] = IF e \in cut THEN Expired(execution[e]) ELSE execution[e]
  BY <1>1
<1>3. \A e \in Exec : e \in cut => ~Live(e)'
  BY <1>0, <1>2, RowTypes DEF FlowTypeOK, Live, LiveStatus
<1>4. \A f \in Flow, e \in Exec : Talks(e, f)' => Talks(e, f) /\ e \notin cut
  BY <1>2, <1>3 DEF Talks, Live
<1>5. ASSUME NEW c \in Contact, NEW f \in Flow, Opens(c, f)' PROVE Opens(c, f)
  <2>1. step' = step /\ Running(c)
    BY <1>5 DEF Opens, Running, StopConversations
  <2>2. step[c].run \in Exec
    BY <1>0, <2>1, RunTypes
  <2>3. execution'[step[c].run].status = "none"
    BY <1>5, <2>1 DEF Opens
  <2>4. execution[step[c].run].status = "none"
    BY <1>0, <1>2, <2>2, <2>3, RowTypes DEF FlowTypeOK
  <2>5. QED
    BY <1>5, <2>1, <2>4 DEF Opens, RunRow
<1> SUFFICES ASSUME NEW f \in Flow PROVE QuietInv(f)'
  BY DEF AllQuiet
<1>6. QuietInv(f)
  BY DEF AllQuiet
<1>7. published' = published
  BY DEF StopConversations
<1>8. CASE f # g
  <2>1. stopping'[f] = stopping[f] /\ (f \in quiet' <=> f \in quiet)
    BY <1>0, <1>8 DEF StopConversations, FlowTypeOK
  <2>2. QED
    BY <1>4, <1>5, <1>6, <1>7, <2>1 DEF QuietInv, Closed
<1>9. CASE f = g
  <2>1. stopping'[f].at = "no" /\ (f \in quiet' => f \in quiet \/ stopping[f].at = "scanned")
    BY <1>0, <1>9 DEF StopConversations, FlowTypeOK
  <2>2. f \in quiet' => \A e \in Exec : ~Talks(e, f)'
    BY <1>4, <1>6, <1>9, <2>1 DEF QuietInv, Talks
  <2>3. QED
    BY <1>5, <1>6, <1>7, <2>1, <2>2 DEF QuietInv, Closed
<1>10. QED
  BY <1>8, <1>9

LEMMA QuietStep ==
    ASSUME EngineInv, AllHeld, AllQuiet, [FlowNext]_flowVars
    PROVE  AllQuiet'
<1>0. FlowTypeOK
  BY DEF EngineInv
<1>1. ASSUME UNCHANGED <<lifeVars, step>>,
             \A e \in Exec : /\ execution'[e].status = "none" => execution[e].status = "none"
                             /\ \A f \in Flow : Talks(e, f)' => Talks(e, f)
      PROVE  AllQuiet'
  <2>1. ASSUME NEW c \in Contact, NEW f \in Flow, Opens(c, f)' PROVE Opens(c, f)
    <3>1. Running(c) /\ step[c].run \in Exec
      BY <1>0, <1>1, <2>1, RunTypes DEF Opens, Running
    <3>2. QED
      BY <1>1, <2>1, <3>1 DEF Opens, RunRow, Running
  <2>2. QED
    BY <1>1, <2>1, QuietFrame
\* One transaction moves on; what it may open is published or was being opened.
<1>2. ASSUME NEW c \in Contact, NEW u \in Step, step' = [step EXCEPT ![c] = u],
             UNCHANGED <<lifeVars, execution>>,
             \A f \in Flow : Opens(c, f)' => Opens(c, f) \/ published[f]
      PROVE  AllQuiet'
  <2>1. \A d \in Contact \ {c} : step'[d] = step[d]
    BY <1>0, <1>2 DEF FlowTypeOK
  <2>2. \A f \in Flow : \A d \in Contact \ {c} : Opens(d, f)' => Opens(d, f)
    BY <1>2, <2>1 DEF Opens, Running, RunRow
  <2>3. \A f \in Flow : \A e \in Exec : Talks(e, f)' => Talks(e, f)
    BY <1>2 DEF Talks, Live
  <2>4. \A f \in Flow : Closed(f) => ~published[f]
    BY DEF AllQuiet, QuietInv
  <2>5. \A f \in Flow : Closed(f) => \A d \in Contact : Opens(d, f)' => Opens(d, f)
    BY <1>2, <2>2, <2>4
  <2>6. QED
    BY <1>2, <2>3, <2>5, QuietFrame
<1>3. ASSUME NEW c \in Contact, NEW f \in Flow, NEW x \in BOOLEAN, NEW e \in NextId(c),
             Starts(c, f, x, e)
      PROVE  AllQuiet'
  <2> DEFINE u == Entering(NoStep, c, f, x, e)
  <2>1. /\ u \in Step /\ u.run = e /\ Begun(u.rows[e], f, x)
    <3>1. e \in Exec /\ u = Entering(NoStep, c, f, x, e)
      BY DEF NextId, Unused, ExecOf
    <3> HIDE DEF u
    <3>2. QED
      BY <1>0, <3>1, StepTypes, EnteringFacts
  <2>2. step' = [step EXCEPT ![c] = u] /\ UNCHANGED <<lifeVars, execution>>
    BY <1>3 DEF Starts
  <2> HIDE DEF u
  <2>3. step'[c] = u
    BY <1>0, <2>2 DEF FlowTypeOK
  <2>4. \A g \in Flow : Opens(c, g)' => g = f /\ ~x
    BY <2>1, <2>3 DEF Opens, RunRow, Begun
  <2>5. ~x => published[f]
    BY <1>3 DEF Starts, Runnable
  <2>6. QED
    BY <1>2, <2>1, <2>2, <2>4, <2>5
<1>4. ASSUME NEW e \in Exec, NEW by \in Cause, Resumes(e, by) PROVE AllQuiet'
  <2> DEFINE w == <<e, execution[e].waits>>
             u == Resumed(e, w, by)
  <2>1. u \in Step /\ u.run = e
    <3>1. w \in Wait /\ u = Resumed(e, w, by)
      BY <1>4 DEF EngineInv, WaitsInv, Resumes
    <3> HIDE DEF u, w
    <3>2. QED
      BY <1>0, <3>1, ResumedFacts
  <2>2. PICK c \in Contact : c = ContactOf[e]
    BY LiveLists
  <2>3. step' = [step EXCEPT ![c] = u] /\ UNCHANGED <<lifeVars, execution>>
    BY <1>4, <2>2 DEF Resumes
  <2>4. step'[c].run = e
    BY <1>0, <2>1, <2>2, <2>3 DEF FlowTypeOK
  <2>5. \A g \in Flow : ~Opens(c, g)'
    BY <1>4, <2>3, <2>4 DEF Opens, Resumes, Waiting
  <2> HIDE DEF u
  <2>6. QED
    BY <1>2, <2>1, <2>3, <2>5
<1>5. ASSUME NEW e \in Exec, Reask(e) PROVE AllQuiet'
  <2>1. execution[e] \in Row
    BY <1>0 DEF FlowTypeOK
  <2>2. \A d \in Exec : /\ execution'[d].status = execution[d].status
                        /\ execution'[d].flow = execution[d].flow
                        /\ execution'[d].preview = execution[d].preview
    BY <1>0, <1>5, <2>1 DEF Reask, FlowTypeOK, Row
  <2>3. QED
    BY <1>1, <1>5, <2>2 DEF Reask, Talks, Live
<1>6. ASSUME NEW cut \in SUBSET Exec, NEW who \in SUBSET Contact, CutsOff(cut, who),
             UNCHANGED lifeVars
      PROVE  AllQuiet'
  <2>1. \A e \in Exec : execution'[e] = IF e \in cut THEN Expired(execution[e]) ELSE execution[e]
    BY <1>6 DEF CutsOff
  <2>2. \A e \in cut : execution'[e].status = "expired"
    BY <1>0, <2>1, RowTypes DEF FlowTypeOK
  <2>3. QED
    BY <1>1, <1>6, <2>1, <2>2 DEF CutsOff, Talks, Live, LiveStatus
<1>7. ASSUME NEW c \in Contact, RunBlock(c) PROVE AllQuiet'
  <2> DEFINE s == step[c]
             u == [s EXCEPT !.blocks = s.blocks + 1, !.ran = s.ran + 1]
  <2>1. u \in Step /\ u.run = s.run /\ u.rows = s.rows
    <3>1. s \in Step /\ s.blocks + 1 \in Nat /\ s.ran + 1 \in Nat
      BY <1>0 DEF FlowTypeOK, Step
    <3> HIDE DEF s
    <3>2. QED
      BY <3>1 DEF Step
  <2>2. step' = [step EXCEPT ![c] = u] /\ UNCHANGED <<lifeVars, execution>>
    BY <1>7 DEF RunBlock
  <2>3. step'[c].run = step[c].run /\ step'[c].rows = step[c].rows
    BY <1>0, <2>1, <2>2 DEF FlowTypeOK
  <2>4. \A f \in Flow : Opens(c, f)' => Opens(c, f)
    BY <2>2, <2>3 DEF Opens, Running, RunRow
  <2> HIDE DEF u
  <2>5. QED
    BY <1>2, <2>1, <2>2, <2>4
<1>8. ASSUME NEW c \in Contact, RollBack(c) PROVE AllQuiet'
  <2>1. step' = [step EXCEPT ![c] = NoStep] /\ UNCHANGED <<lifeVars, execution>>
    BY <1>8 DEF RollBack
  <2>2. step'[c] = NoStep
    BY <1>0, <2>1 DEF FlowTypeOK
  <2>3. QED
    BY <1>2, <2>1, <2>2, StepTypes DEF Opens, Running
<1>9. ASSUME NEW c \in Contact, NEW f \in Flow, HandOff(c, f) PROVE AllQuiet'
  <2>1. PICK e \in NextId(c), u \in Step :
           step' = [step EXCEPT ![c] = u] /\ u.run = e /\ HandedTo(u.rows[e], f)
    BY <1>9, HandOffFacts
  <2>2. step'[c] = u /\ UNCHANGED <<lifeVars, execution>> /\ published[f]
    BY <1>0, <1>9, <2>1 DEF FlowTypeOK, HandOff, Runnable
  <2>3. \A g \in Flow : Opens(c, g)' => g = f
    BY <2>1, <2>2 DEF Opens, RunRow, HandedTo, Begun
  <2>4. QED
    BY <1>2, <2>1, <2>2, <2>3
\* What commits was committed before, or was being opened.
<1>10. ASSUME NEW c \in Contact, NEW row \in Row, NEW armed \in SUBSET Wait, Ends(c, row, armed)
       PROVE  AllQuiet'
  <2>1. /\ row.flow = RunRow(c).flow /\ row.preview = RunRow(c).preview
        /\ execution'[step[c].run] = row
        /\ \A e \in step[c].touched \ {step[c].run} : execution'[e] = step[c].rows[e]
        /\ \A e \in Exec \ step[c].touched : execution'[e] = execution[e]
        /\ step' = [step EXCEPT ![c] = NoStep] /\ UNCHANGED lifeVars
    BY <1>0, <1>10, CommitFacts DEF EngineInv
  <2>2. /\ Running(c) /\ step[c].touched \subseteq ExecOf(c)
        /\ \A e \in step[c].touched \ {step[c].run} : step[c].rows[e].status \in OverStatus
    BY <1>10 DEF Ends, EngineInv, StepInv
  <2>3. step'[c] = NoStep /\ \A d \in Contact \ {c} : step'[d] = step[d]
    BY <1>0, <2>1 DEF FlowTypeOK
  <2>4. \A f \in Flow : ~Opens(c, f)'
    BY <2>3, StepTypes DEF Opens, Running
  <2>5. ASSUME NEW d \in Contact \ {c}, NEW f \in Flow, Opens(d, f)' PROVE Opens(d, f)
    <3>1. Running(d)
      BY <2>3, <2>5 DEF Opens, Running
    <3>2. step[d].run \in Exec \ step[c].touched
      BY <2>2, <3>1 DEF EngineInv, StepInv, ExecOf
    <3>3. QED
      BY <2>1, <2>3, <2>5, <3>1, <3>2 DEF Opens, RunRow
  <2>6. ASSUME NEW e \in Exec, NEW f \in Flow, Talks(e, f)' PROVE Talks(e, f) \/ Opens(c, f)
    <3>1. CASE e = step[c].run
      BY <2>1, <2>2, <2>6, <3>1, LiveLists DEF Talks, Opens, AllHeld, HeldInv, Live
    <3>2. CASE e \in step[c].touched \ {step[c].run}
      BY <2>1, <2>2, <2>6, <3>2, LiveLists DEF Talks, Live
    <3>3. CASE e \notin step[c].touched
      BY <2>1, <2>6, <3>3 DEF Talks, Live
    <3>4. QED
      BY <3>1, <3>2, <3>3
  <2>7. \A f \in Flow : Closed(f) => ~Opens(c, f)
    BY DEF AllQuiet, QuietInv
  <2>8. \A f \in Flow : Closed(f) => /\ \A d \in Contact : Opens(d, f)' => Opens(d, f)
                                     /\ \A e \in Exec : Talks(e, f)' => Talks(e, f)
    BY <2>4, <2>5, <2>6, <2>7
  <2>9. QED
    BY <2>1, <2>8, QuietFrame
<1>11. ASSUME NEW w \in Wait, TimerMoves(w) PROVE AllQuiet'
  BY <1>1, <1>11 DEF TimerMoves, Talks, Live
<1>12. CASE UNCHANGED flowVars
  BY <1>1, <1>12 DEF flowVars, Talks, Live
<1>13. CASE FlowNext
  BY <1>0, <1>3, <1>4, <1>5, <1>6, <1>7, <1>8, <1>9, <1>10, <1>11, <1>13, NextMoves,
     QuietLife, QuietStop DEF Moves
<1>14. QED
  BY <1>12, <1>13

(***************************************************************************)
(* A flow that take_offline has stopped has no conversation with a contact  *)
(* left, nor gets one from a start that had already read its version or     *)
(* from a step that was running, until somebody sets it live again.         *)
(***************************************************************************)
THEOREM OfflineStaysQuiet == FlowSpec => []OfflineIsQuiet
<1>1. FlowInit => EngineInv /\ AllHeld /\ AllQuiet
  BY EngineInvInit, HeldInit, QuietInit
<1>2. EngineInv /\ AllHeld /\ AllQuiet /\ [FlowNext]_flowVars => EngineInv' /\ AllHeld' /\ AllQuiet'
  BY EngineInvStep, HeldStep, QuietStep
<1>3. EngineInv /\ AllQuiet => OfflineIsQuiet
  BY DEF EngineInv, FlowTypeOK, AllQuiet, QuietInv, OfflineIsQuiet, Talks
<1>4. QED
  BY <1>1, <1>2, <1>3, PTL DEF FlowSpec

-----------------------------------------------------------------------------
(* LOOP_CAP bounds a transaction.                                          *)

\* The counter counts every block of the transaction.
CountInv == \A c \in Contact : step[c].ran = step[c].blocks /\ step[c].blocks < LoopCap

LEMMA CountStep ==
    ASSUME EngineInv, CountInv, [FlowNext]_flowVars
    PROVE  CountInv'
<1>0. FlowTypeOK
  BY DEF EngineInv
<1>1. ASSUME UNCHANGED step PROVE CountInv'
  BY <1>1 DEF CountInv
<1>2. ASSUME NEW c \in Contact, NEW u \in Step, step' = [step EXCEPT ![c] = u],
             u.ran = u.blocks, u.blocks < LoopCap
      PROVE  CountInv'
  BY <1>0, <1>2 DEF CountInv, FlowTypeOK
<1>3. 0 < LoopCap
  BY FlowAssumption
<1>4. ASSUME NEW c \in Contact, NEW f \in Flow, NEW x \in BOOLEAN, NEW e \in NextId(c),
             Starts(c, f, x, e)
      PROVE  CountInv'
  <2> DEFINE u == Entering(NoStep, c, f, x, e)
  <2>1. u \in Step /\ u.blocks = 0 /\ u.ran = 0
    <3>1. e \in Exec /\ u = Entering(NoStep, c, f, x, e)
      BY DEF NextId, Unused, ExecOf
    <3> HIDE DEF u
    <3>2. QED
      BY <1>0, <3>1, StepTypes, EnteringFacts
  <2>2. step' = [step EXCEPT ![c] = u]
    BY <1>4 DEF Starts
  <2> HIDE DEF u
  <2>3. QED
    BY <1>2, <1>3, <2>1, <2>2
<1>5. ASSUME NEW e \in Exec, NEW by \in Cause, Resumes(e, by) PROVE CountInv'
  <2> DEFINE w == <<e, execution[e].waits>>
             u == Resumed(e, w, by)
  <2>1. u \in Step /\ u.blocks = 0 /\ u.ran = 0
    <3>1. w \in Wait /\ u = Resumed(e, w, by)
      BY <1>5 DEF EngineInv, WaitsInv, Resumes
    <3> HIDE DEF u, w
    <3>2. QED
      BY <1>0, <3>1, ResumedFacts
  <2>2. step' = [step EXCEPT ![ContactOf[e]] = u] /\ ContactOf[e] \in Contact
    BY <1>5, LiveLists DEF Resumes
  <2> HIDE DEF u
  <2>3. QED
    BY <1>2, <1>3, <2>1, <2>2
<1>6. ASSUME NEW c \in Contact, RunBlock(c) PROVE CountInv'
  <2> DEFINE s == step[c]
             u == [s EXCEPT !.blocks = s.blocks + 1, !.ran = s.ran + 1]
  <2>1. u \in Step /\ u.blocks = s.blocks + 1 /\ u.ran = s.ran + 1
    <3>1. s \in Step /\ s.blocks + 1 \in Nat /\ s.ran + 1 \in Nat
      BY <1>0 DEF FlowTypeOK, Step
    <3> HIDE DEF s
    <3>2. QED
      BY <3>1 DEF Step
  <2>2. step' = [step EXCEPT ![c] = u] /\ s.blocks + 1 < LoopCap
    BY <1>6 DEF RunBlock
  <2>3. s.ran = s.blocks
    BY DEF CountInv
  <2> HIDE DEF u
  <2>4. QED
    BY <1>2, <2>1, <2>2, <2>3
<1>7. ASSUME NEW c \in Contact, NEW f \in Flow, HandOff(c, f) PROVE CountInv'
  <2>1. PICK u \in Step : /\ step' = [step EXCEPT ![c] = u]
                          /\ u.blocks = step[c].blocks + 1 /\ u.ran = step[c].ran + 1
    BY <1>7, HandOffFacts
  <2>2. step[c].blocks + 1 < LoopCap
    BY <1>7 DEF HandOff
  <2>3. u.ran = u.blocks /\ u.blocks < LoopCap
    BY <2>1, <2>2 DEF CountInv
  <2>4. QED
    BY <1>2, <2>1, <2>3
<1>8. ASSUME NEW c \in Contact, step' = [step EXCEPT ![c] = NoStep] PROVE CountInv'
  BY <1>2, <1>3, <1>8, StepTypes
<1>9. ASSUME NEW f \in Flow, StopConversations(f) PROVE CountInv'
  BY <1>1, <1>9 DEF StopConversations
<1>10. CASE FlowNext
  BY <1>0, <1>1, <1>4, <1>5, <1>6, <1>7, <1>8, <1>9, <1>10, NextMoves
     DEF Moves, Reask, TimerMoves, CutsOff, RollBack, Ends, Commit, LifeMoves
<1>11. QED
  BY <1>1, <1>10 DEF flowVars

(***************************************************************************)
(* Flows that hand off to one another in a ring do not run for ever: no      *)
(* transaction dispatches LOOP_CAP blocks, whichever flows they belong to.   *)
(***************************************************************************)
THEOREM RingsAreCut == FlowSpec => []StepsAreBounded
<1>1. FlowInit => EngineInv /\ CountInv
  BY EngineInvInit, StepTypes, FlowAssumption DEF FlowInit, CountInv
<1>2. EngineInv /\ CountInv /\ [FlowNext]_flowVars => EngineInv' /\ CountInv'
  BY EngineInvStep, CountStep
<1>3. CountInv => StepsAreBounded
  BY DEF CountInv, StepsAreBounded
<1>4. QED
  BY <1>1, <1>2, <1>3, PTL DEF FlowSpec
=============================================================================

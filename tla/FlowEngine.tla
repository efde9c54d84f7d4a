------------------------------ MODULE FlowEngine ------------------------------
(***************************************************************************)
(* The flow engine of apps/flows: executions of flows for contacts         *)
(* (engine/runner.py, engine/waits.py, handlers.py), the life of a flow    *)
(* that people edit meanwhile (services.py), and the sweep of forgotten    *)
(* waits (housekeeping.py).                                                *)
(*                                                                         *)
(* One step of an execution is one transaction: it takes the contact's      *)
(* advisory lock and the rows it writes, runs nodes until the execution    *)
(* pauses or ends, and commits.  step[c] is the transaction in flight for   *)
(* contact c, with its uncommitted rows; execution and timer are committed. *)
(* Two writers take no contact lock and rely on row locks alone: switching  *)
(* a flow off, and the 30-day sweep.                                        *)
(*                                                                         *)
(* A wait is named by its execution and number; the number stands for the   *)
(* random token of the code, fresh at every wait.                           *)
(***************************************************************************)
EXTENDS Naturals

CONSTANTS
    Contact,        \* contacts of one workspace
    Flow,           \* its flows
    Edited,         \* bound: flows that people publish, archive and switch off
    Exec,           \* executions that may ever be created
    ContactOf,      \* [Exec -> Contact]
    WaitsOf,        \* [Exec -> Nat], bound: waits of an execution
    MaxTries,       \* retry.max of a wait: re-asks before a reply falls through
    LoopCap         \* LOOP_CAP

ASSUME FlowAssumption ==
    /\ Flow # {}
    /\ Edited \subseteq Flow
    /\ Exec \subseteq Nat \ {0}
    /\ ContactOf \in [Exec -> Contact]
    /\ WaitsOf \in [Exec -> Nat]
    /\ MaxTries \in Nat
    /\ LoopCap \in Nat \ {0}

VARIABLES
    flowStatus,     \* [Flow -> FlowStatus]
    published,      \* [Flow -> BOOLEAN], some version is published
    stopping,       \* [Flow -> where take_offline is, and the rows it scanned]
    quiet,          \* SUBSET Flow: take_offline finished and nothing set it live
    execution,      \* [Exec -> Row], committed
    timer,          \* [Wait -> TimerStatus], queue rows of timed waits
    step,           \* [Contact -> Step], the transaction holding the lock
    answered,       \* SUBSET Wait: left because of a reply (history)
    elapsed         \* SUBSET Wait: left because of the wait's timer (history)

lifeVars == <<flowStatus, published, stopping, quiet>>
history  == <<answered, elapsed>>
flowVars == <<lifeVars, execution, timer, step, history>>

Wait == UNION {{e} \X (1..WaitsOf[e]) : e \in Exec}

FlowStatus  == {"draft", "active", "offline", "archived"}
LiveStatus  == {"running", "waiting_reply", "waiting_delay"}
OverStatus  == {"completed", "failed", "expired"}
Waiting     == {"waiting_reply", "waiting_delay"}
\* "off": no row, or one that is done or cancelled; "failed": attempts spent.
TimerStatus == {"off", "pending", "claimed", "failed"}

Row == [status : {"none"} \cup LiveStatus \cup OverStatus,
        flow : Flow, preview : BOOLEAN,
        waits : Nat,             \* waits so far; the current token while waiting
        timed : BOOLEAN,         \* the current wait has a queue row
        tries : Nat]             \* retry.count of the current wait

Step == [run : Exec \cup {0},        \* the execution the runner holds, 0 if none
         rows : [Exec -> Row],       \* what the transaction has written
         touched : SUBSET Exec,      \* ... to these rows, which it has locked
         shared : SUBSET Flow,       \* flows locked FOR KEY SHARE
         cancels : BOOLEAN,          \* it cancelled the contact's pending timers
         left : {<<>>} \cup Wait,    \* the wait this step resumes, if any
         by : {"start", "reply", "timer"},
         blocks : Nat,               \* blocks_since_pause
         ran : Nat]                  \* blocks of this transaction (history)

NoRow == [status |-> "none", flow |-> CHOOSE f \in Flow : TRUE, preview |-> FALSE,
          waits |-> 0, timed |-> FALSE, tries |-> 0]

NoStep == [run |-> 0, rows |-> [e \in Exec |-> NoRow], touched |-> {}, shared |-> {},
           cancels |-> FALSE, left |-> <<>>, by |-> "start", blocks |-> 0, ran |-> 0]

ExecOf(c) == {e \in Exec : ContactOf[e] = c}
Live(e)   == execution[e].status \in LiveStatus
Over(e)   == execution[e].status \in OverStatus
LiveOf(c) == {e \in ExecOf(c) : Live(e)}
Idle(c)   == step[c] = NoStep
Locked(e) == e \in step[ContactOf[e]].touched
AtWait(e, n) == execution[e].status \in Waiting /\ execution[e].waits = n

\* A workspace of drafts, or one whose flows are all published.
FlowInit ==
    /\ \E live \in BOOLEAN :
          /\ flowStatus = [f \in Flow |-> IF live THEN "active" ELSE "draft"]
          /\ published  = [f \in Flow |-> live]
    /\ stopping   = [f \in Flow |-> [at |-> "no", scanned |-> {}]]
    /\ quiet      = {}
    /\ execution  = [e \in Exec |-> NoRow]
    /\ timer      = [w \in Wait |-> "off"]
    /\ step       = [c \in Contact |-> NoStep]
    /\ answered   = {}
    /\ elapsed    = {}

-----------------------------------------------------------------------------
(* Expiring: the status, the cleared wait, and the contact's timers.        *)

Expired(row) == [row EXCEPT !.status = "expired", !.timed = FALSE]

\* Pending resume timers of the contacts in who, cancelled.
Disarmed(who, timers) ==
    [w \in Wait |-> IF ContactOf[w[1]] \in who /\ timers[w] = "pending"
                    THEN "off" ELSE timers[w]]

\* Whatever the contact has live, in whichever flow.
Superseded(c) == LiveOf(c)

\* The transaction s of contact c, having expired them.
Supersede(s, c) ==
    LET gone == Superseded(c) \ s.touched
    IN  [s EXCEPT !.rows = [e \in Exec |-> IF e \in gone THEN Expired(execution[e]) ELSE s.rows[e]],
                  !.touched = s.touched \cup gone,
                  !.cancels = s.cancels \/ gone # {}]

-----------------------------------------------------------------------------
(* Beginning a step.                                                       *)

Unused(c) == {e \in ExecOf(c) : execution[e].status = "none" /\ ~Locked(e)}

\* Ids are handed out in order; any order would do.
NextId(c) == {e \in Unused(c) : \A d \in Unused(c) : e <= d}

\* An explicit version runs whatever is published, an archived flow never does.
Runnable(f, explicit) == flowStatus[f] # "archived" /\ (explicit \/ published[f])

\* s goes on as a new execution e of f.  An explicit version is a preview
\* unless it happens to be the published one, and that is a start like any other.
Entering(s, c, f, explicit, e) ==
    LET t == Supersede(s, c)
    IN  [t EXCEPT !.run = e,
                  !.rows = [t.rows EXCEPT ![e] = [NoRow EXCEPT !.status = "running",
                                                  !.flow = f, !.preview = explicit]],
                  !.touched = t.touched \cup {e},
                  !.shared = s.shared \cup {f}]

StartFlow(c, f, explicit) ==
    /\ Idle(c)
    /\ Runnable(f, explicit)
    /\ \E e \in NextId(c) :
          step' = [step EXCEPT ![c] = Entering(NoStep, c, f, explicit, e)]
    /\ UNCHANGED <<lifeVars, execution, timer, history>>

\* The row is locked, the wait left behind and the runner about to go on.
Resumed(e, w, by) ==
    [NoStep EXCEPT !.run = e, !.touched = {e}, !.left = w, !.by = by,
                   !.rows = [NoStep.rows EXCEPT ![e] = [execution[e] EXCEPT !.status = "running",
                                                        !.timed = FALSE, !.tries = 0]]]

\* A reply that the wait accepts.
Answer(e) ==
    /\ Idle(ContactOf[e])
    /\ execution[e].status = "waiting_reply"
    /\ step' = [step EXCEPT ![ContactOf[e]] = Resumed(e, <<e, execution[e].waits>>, "reply")]
    /\ UNCHANGED <<lifeVars, execution, timer, history>>

\* One it does not accept is re-asked and consumed while tries are left; after
\* that it falls through and the row keeps waiting as it was.
Reask(e) ==
    /\ Idle(ContactOf[e])
    /\ execution[e].status = "waiting_reply"
    /\ execution[e].tries < MaxTries
    /\ execution' = [execution EXCEPT ![e].tries = @ + 1]
    /\ UNCHANGED <<lifeVars, timer, step, history>>

TakeTimer(w) ==
    /\ timer[w] = "pending"
    /\ timer' = [timer EXCEPT ![w] = "claimed"]
    /\ UNCHANGED <<lifeVars, execution, step, history>>

\* A claimed row whose handler failed, or whose worker was taken for dead, is
\* due again until its attempts are spent.
RetryTimer(w) ==
    /\ timer[w] = "claimed"
    /\ step[ContactOf[w[1]]].left # w
    /\ \E s \in {"pending", "failed"} : timer' = [timer EXCEPT ![w] = s]
    /\ UNCHANGED <<lifeVars, execution, step, history>>

\* Mutant: any live execution is resumed, whatever wait it is at.
CurrentAny(w) == Live(w[1])

\* The execution is still live, at the wait this timer was armed for.
Current(w) == Live(w[1]) /\ AtWait(w[1], w[2])

FireTimer(w) ==
    /\ timer[w] = "claimed"
    /\ Idle(ContactOf[w[1]])
    /\ Current(w)
    /\ step' = [step EXCEPT ![ContactOf[w[1]]] = Resumed(w[1], w, "timer")]
    /\ UNCHANGED <<lifeVars, execution, timer, history>>

DropStaleTimer(w) ==
    /\ timer[w] = "claimed"
    /\ Idle(ContactOf[w[1]])
    /\ ~Current(w)
    /\ timer' = [timer EXCEPT ![w] = "off"]
    /\ UNCHANGED <<lifeVars, execution, step, history>>

StopAutomation(c) ==
    /\ Idle(c)
    /\ LiveOf(c) # {}
    /\ execution' = [e \in Exec |-> IF e \in LiveOf(c) THEN Expired(execution[e]) ELSE execution[e]]
    /\ timer' = Disarmed({c}, timer)
    /\ UNCHANGED <<lifeVars, step, history>>

-----------------------------------------------------------------------------
(* Running: nodes are dispatched until the execution pauses or ends.        *)

\* A handler that commits is done, unless the queue had already given its row to
\* another worker, which will find the wait gone.
TimerDone(s, timers) ==
    IF s.by # "timer" THEN {timers}
    ELSE {[timers EXCEPT ![s.left] = r] : r \in {"off", "claimed"}}

\* c's transaction commits with the run in state row, arming the timers in armed.
Commit(c, row, armed) ==
    LET s == step[c]
        kept == IF s.cancels THEN Disarmed({c}, timer) ELSE timer
    IN  /\ execution' = [e \in Exec |-> IF e = s.run THEN row
                                        ELSE IF e \in s.touched THEN s.rows[e] ELSE execution[e]]
        /\ \E timers \in TimerDone(s, kept) :
              timer' = [w \in Wait |-> IF w \in armed THEN "pending" ELSE timers[w]]
        /\ step' = [step EXCEPT ![c] = NoStep]
        /\ answered' = IF s.by = "reply" THEN answered \cup {s.left} ELSE answered
        /\ elapsed'  = IF s.by = "timer" THEN elapsed \cup {s.left} ELSE elapsed
        /\ UNCHANGED lifeVars

Running(c) == step[c].run # 0
RunRow(c)  == step[c].rows[step[c].run]

\* A node that goes on to another one.
RunBlock(c) ==
    /\ Running(c)
    /\ step[c].blocks + 1 < LoopCap
    /\ step' = [step EXCEPT ![c].blocks = @ + 1, ![c].ran = @ + 1]
    /\ UNCHANGED <<lifeVars, execution, timer, history>>

\* The last node, a handle that leads nowhere, or a hand-off with no target to run.
RunComplete(c) ==
    /\ Running(c)
    /\ Commit(c, [RunRow(c) EXCEPT !.status = "completed"], {})

\* A node that fails, a node without a runtime, or the loop cap.
RunFail(c) ==
    /\ Running(c)
    /\ Commit(c, [RunRow(c) EXCEPT !.status = "failed"], {})

\* The run parks; a delay always has its queue row, a question may have none.
Parked(c, status, timed) ==
    /\ Running(c)
    /\ RunRow(c).waits < WaitsOf[step[c].run]
    /\ LET n == RunRow(c).waits + 1
       IN  Commit(c, [RunRow(c) EXCEPT !.status = status, !.waits = n, !.timed = timed],
                  IF timed THEN {<<step[c].run, n>>} ELSE {})

RunWait(c, timed) == Parked(c, "waiting_reply", timed)

RunDelay(c) == Parked(c, "waiting_delay", TRUE)

\* The counter goes along into the flow that is handed to.
Carried(s) == s.blocks + 1

\* A start_flow node: this run completes and the next starts under the same lock.
HandOff(c, f) ==
    /\ Running(c)
    /\ step[c].blocks + 1 < LoopCap
    /\ Runnable(f, FALSE)
    /\ \E e \in NextId(c) :
          LET done == [step[c] EXCEPT !.rows[step[c].run].status = "completed"]
              s == [Entering(done, c, f, FALSE, e) EXCEPT !.blocks = Carried(step[c]),
                                                          !.ran = step[c].ran + 1]
          IN  step' = [step EXCEPT ![c] = s]
    /\ UNCHANGED <<lifeVars, execution, timer, history>>

\* A node raises or the process dies: nothing of the transaction happened.
RollBack(c) ==
    /\ Running(c)
    /\ step' = [step EXCEPT ![c] = NoStep]
    /\ UNCHANGED <<lifeVars, execution, timer, history>>

Run(c) == \/ RunBlock(c) \/ RunComplete(c) \/ RunFail(c) \/ RunDelay(c)
          \/ \E timed \in BOOLEAN : RunWait(c, timed)
          \/ \E f \in Flow : HandOff(c, f)

-----------------------------------------------------------------------------
(* The life of a flow.                                                     *)

\* take_offline's second transaction holds the flow FOR SHARE.
ShareFree(f) == stopping[f].at # "scanned"

\* The plan check may refuse; that only takes the action away.
Publish(f) ==
    /\ ShareFree(f)
    /\ <<flowStatus[f], published[f]>> # <<"active", TRUE>>
    /\ flowStatus' = [flowStatus EXCEPT ![f] = "active"]
    /\ published' = [published EXCEPT ![f] = TRUE]
    /\ quiet' = quiet \ {f}
    /\ stopping' = IF stopping[f].at = "ready"
                   THEN [stopping EXCEPT ![f].at = "overtaken"] ELSE stopping
    /\ UNCHANGED <<execution, timer, step, history>>

ArchiveFlow(f) ==
    /\ ShareFree(f)
    /\ flowStatus[f] # "archived"
    /\ flowStatus' = [flowStatus EXCEPT ![f] = "archived"]
    /\ UNCHANGED <<published, stopping, quiet, execution, timer, step, history>>

\* Back to active if something is published.  The lookup and the save are taken
\* together here; PlanGate takes them apart.
RestoreFlow(f) ==
    /\ ShareFree(f)
    /\ flowStatus[f] = "archived"
    /\ flowStatus' = [flowStatus EXCEPT ![f] = IF published[f] THEN "active" ELSE "draft"]
    /\ UNCHANGED <<published, stopping, quiet, execution, timer, step, history>>

\* Mutant: the flow row is not locked against starts that resolved their version.
NoStartInFlightIgnored(f) == TRUE

\* FOR UPDATE waits for every transaction that holds the flow FOR KEY SHARE.
NoStartInFlight(f) == \A c \in Contact : f \notin step[c].shared

\* One call per flow at a time (a bound: a second one is refused or waits).
SetOffline(f) ==
    /\ stopping[f].at = "no"
    /\ flowStatus[f] = "active"
    /\ NoStartInFlight(f)
    /\ flowStatus' = [flowStatus EXCEPT ![f] = "offline"]
    /\ published' = [published EXCEPT ![f] = FALSE]
    /\ stopping' = [stopping EXCEPT ![f].at = "ready"]
    /\ UNCHANGED <<quiet, execution, timer, step, history>>

\* What the UPDATE of expire_flow_executions sees when it starts: committed rows.
Scan(f) == {e \in Exec : Live(e) /\ execution[e].flow = f}

ScanConversations(f) ==
    /\ stopping[f].at \in {"ready", "overtaken"}
    /\ stopping' = [stopping EXCEPT ![f] =
                      IF flowStatus[f] = "active"
                      THEN [at |-> "no", scanned |-> {}]
                      ELSE [at |-> IF stopping[f].at = "ready" THEN "scanned" ELSE "late",
                            scanned |-> Scan(f)]]
    /\ UNCHANGED <<flowStatus, published, quiet, execution, timer, step, history>>

\* Mutant: the timers of everybody who was scanned go, expired here or not.
CutOffScanned(f, cut) == {ContactOf[e] : e \in stopping[f].scanned}

CutOff(f, cut) == {ContactOf[e] : e \in cut}

\* It waits for a step that has a scanned row locked and looks at the row again.
StopConversations(f) ==
    /\ stopping[f].at \in {"scanned", "late"}
    /\ \A e \in stopping[f].scanned : ~Locked(e)
    /\ LET cut == {e \in stopping[f].scanned : Live(e)}
       IN  /\ execution' = [e \in Exec |-> IF e \in cut THEN Expired(execution[e]) ELSE execution[e]]
           /\ timer' = Disarmed(CutOff(f, cut), timer)
    /\ quiet' = IF stopping[f].at = "scanned" THEN quiet \cup {f} ELSE quiet
    /\ stopping' = [stopping EXCEPT ![f] = [at |-> "no", scanned |-> {}]]
    /\ UNCHANGED <<flowStatus, published, step, history>>

\* The process dies between the two transactions or in the second.
OfflineCrash(f) ==
    /\ stopping[f].at # "no"
    /\ stopping' = [stopping EXCEPT ![f] = [at |-> "no", scanned |-> {}]]
    /\ UNCHANGED <<flowStatus, published, quiet, execution, timer, step, history>>

-----------------------------------------------------------------------------
(* The sweep of waits nobody answered for 30 days.                          *)

\* Mutant: the sweep looks past delays.
StaleStatusQuestion == {"waiting_reply"}

StaleStatus == {"waiting_reply", "waiting_delay"}

\* Mutant: the sweep writes rows a step has locked.
SweepableAny(e) == execution[e].status \in StaleStatus

\* The UPDATE waits for a row that a step has locked.
Sweepable(e) == execution[e].status \in StaleStatus /\ ~Locked(e)

\* One UPDATE of the waits last written 30 days ago, without the contact lock;
\* their timers stay armed.  Any wait may be that old.
ExpireStaleExecutions(stale) ==
    /\ \A e \in stale : Sweepable(e)
    /\ execution' = [e \in Exec |-> IF e \in stale THEN Expired(execution[e]) ELSE execution[e]]
    /\ UNCHANGED <<lifeVars, timer, step, history>>

-----------------------------------------------------------------------------
\* What editors of a flow do, test runs included.
FlowLifeNext ==
    \E f \in Edited : \/ Publish(f) \/ ArchiveFlow(f) \/ RestoreFlow(f)
                      \/ SetOffline(f) \/ ScanConversations(f) \/ StopConversations(f)
                      \/ OfflineCrash(f)
                      \/ \E c \in Contact : StartFlow(c, f, TRUE)

FlowStepNext ==
    \/ \E c \in Contact, f \in Flow : StartFlow(c, f, FALSE)
    \/ \E e \in Exec : Answer(e) \/ Reask(e)
    \/ \E w \in Wait : TakeTimer(w) \/ RetryTimer(w) \/ FireTimer(w) \/ DropStaleTimer(w)
    \/ \E c \in Contact : StopAutomation(c) \/ Run(c) \/ RollBack(c)
    \/ \E stale \in SUBSET Exec \ {{}} : ExpireStaleExecutions(stale)

FlowNext == FlowStepNext \/ FlowLifeNext

FlowSpec == FlowInit /\ [][FlowNext]_flowVars

(***************************************************************************)
(* A step that has begun goes on and ends (nodes have timeouts).  A wait    *)
(* that stays as it is grows 30 days old and the hourly sweep expires it:   *)
(* the UPDATE gets its rows in the end, since it queues for their locks.    *)
(* Nobody has to reply, and timers may fail for good.                       *)
(***************************************************************************)
FlowFairness ==
    /\ \A c \in Contact : WF_flowVars(Run(c))
    /\ \A e \in Exec : SF_flowVars(ExpireStaleExecutions({e}))

FairFlowSpec == FlowSpec /\ FlowFairness

-----------------------------------------------------------------------------
(* Properties.                                                             *)

\* Types of all variables.
FlowTypeOK ==
    /\ flowStatus \in [Flow -> FlowStatus]
    /\ published \in [Flow -> BOOLEAN]
    /\ stopping \in [Flow -> [at : {"no", "ready", "overtaken", "scanned", "late"},
                              scanned : SUBSET Exec]]
    /\ quiet \in SUBSET Flow
    /\ execution \in [Exec -> Row]
    /\ timer \in [Wait -> TimerStatus]
    /\ step \in [Contact -> Step]
    /\ answered \in SUBSET Wait
    /\ elapsed \in SUBSET Wait

(***************************************************************************)
(* SPEC 22, "one live execution per contact across all flows": the partial  *)
(* unique index only covers one flow, so across flows it is the superseding *)
(* under the lock that keeps it, in every transaction's own view too.       *)
(***************************************************************************)
OneLiveExecution ==
    \A c \in Contact : \A d, e \in LiveOf(c) : d = e

(***************************************************************************)
(* A wait that was given a deadline or a wake-up still has its queue row:   *)
(* nothing that cancels timers cancels those of a run that goes on waiting. *)
(***************************************************************************)
WaitingIsArmed ==
    \A e \in Exec : execution[e].status \in Waiting /\ execution[e].timed =>
                       timer[<<e, execution[e].waits>>] \in {"pending", "claimed", "failed"}

(***************************************************************************)
(* A wait is left once: by its reply or by its timer, never both, however   *)
(* the two race (runner.py, "makes a stale timer harmless").  A stale timer *)
(* that moved a later wait would put its own wait in both sets.             *)
(***************************************************************************)
LeftOnce == answered \cap elapsed = {}

(***************************************************************************)
(* Once take_offline has returned and nobody has set the flow live again,   *)
(* no conversation with a contact is going on in it, and none that was      *)
(* being started or resumed meanwhile appears in it later.                   *)
(***************************************************************************)
OfflineIsQuiet ==
    \A f \in quiet : \A e \in Exec : Live(e) /\ execution[e].flow = f => execution[e].preview

\* No transaction dispatches LoopCap blocks, however flows hand off in a ring.
StepsAreBounded == \A c \in Contact : step[c].ran < LoopCap

\* No wait lasts for ever, whether or not anybody replies or a timer works.
NoWaitIsForever == \A e \in Exec : \A n \in 1..WaitsOf[e] : AtWait(e, n) ~> ~AtWait(e, n)

\* The engine implements the abstract conversation.
Conversation ==
    INSTANCE OneConversation WITH
        talk <- [c \in Contact |-> LiveOf(c)],
        over <- {e \in Exec : Over(e)}

ImplementsConversation == Conversation!Spec
=============================================================================

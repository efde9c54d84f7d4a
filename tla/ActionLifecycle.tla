--------------------------- MODULE ActionLifecycle ---------------------------
(***************************************************************************)
(* What the queue promises about one row of queueing_scheduled_action, as  *)
(* the docstring of ActionStatus and the comment on TERMINAL_STATUSES say   *)
(* it (apps/queueing/models.py): the moves a row's status may make, and     *)
(* that the work behind it is committed exactly when the row goes from      *)
(* "running" to "done".  Nothing here knows about workers, claims, locks or *)
(* time.  ActionQueue, the detailed specification, implements it as long as *)
(* no live worker keeps a claimed row past the zombie threshold.            *)
(***************************************************************************)
EXTENDS Naturals, TLAPS

CONSTANT Action          \* the rows that may ever be scheduled

VARIABLES status,        \* [Action -> Status]
          effects        \* [Action -> Nat], committed runs of the handler

vars == <<status, effects>>

\* "unscheduled" and "deleted" are the row's absence before and after.
Status == {"unscheduled", "pending", "running", "done", "failed", "cancelled", "deleted"}

\* Statuses a row never leaves on its own.
Terminal == {"done", "failed", "cancelled"}

\* The moves that commit no work.  Owners cancel, an operator requeues a failed
\* row, and erasure deletes any row that is not running.
Moves == {<<"unscheduled", "pending">>,
          <<"pending", "running">>, <<"running", "pending">>, <<"running", "failed">>,
          <<"pending", "cancelled">>, <<"failed", "pending">>}
         \cup {<<s, "deleted">> : s \in Terminal \cup {"pending"}}

Init == /\ status = [a \in Action |-> "unscheduled"]
        /\ effects = [a \in Action |-> 0]

Stays(a) == status'[a] = status[a] /\ effects'[a] = effects[a]

Moved(a) == <<status[a], status'[a]>> \in Moves /\ effects'[a] = effects[a]

Completed(a) == /\ status[a] = "running"
                /\ status'[a] = "done"
                /\ effects'[a] = effects[a] + 1

\* One statement of the code may move several rows (a claim, a sweep, a purge).
Next == /\ status' \in [Action -> Status]
        /\ effects' \in [Action -> Nat]
        /\ \A a \in Action : Stays(a) \/ Moved(a) \/ Completed(a)

Spec == Init /\ [][Next]_vars

(***************************************************************************)
(* The consequence a caller relies on: the work behind a row is committed  *)
(* at most once, and never without the row saying so.                      *)
(***************************************************************************)
CommittedAtMostOnce ==
    \A a \in Action : /\ effects[a] <= 1
                      /\ effects[a] = 1 => status[a] \in {"done", "deleted"}

\* A row in any other status has committed nothing yet.
LifecycleInv == /\ status \in [Action -> Status]
                /\ effects \in [Action -> Nat]
                /\ CommittedAtMostOnce

(***************************************************************************)
(* Whatever follows the documented lifecycle commits its work at most      *)
(* once: only a running row commits, and nothing leads back from done.     *)
(***************************************************************************)
THEOREM LifecycleCommitsOnce == Spec => []CommittedAtMostOnce
<1> USE DEF LifecycleInv, CommittedAtMostOnce, Status
<1>1. Init => LifecycleInv
  BY DEF Init
<1>2. LifecycleInv /\ [Next]_vars => LifecycleInv'
  BY DEF Next, vars, Stays, Moved, Completed, Moves, Terminal
<1>3. QED
  BY <1>1, <1>2, PTL DEF Spec
=============================================================================

------------------------------ MODULE PlanGate ------------------------------
(***************************************************************************)
(* The plan's limit on active automations (billing/entitlements.py), spent  *)
(* by publishing a flow, activating a sequence and restoring a flow         *)
(* (flows/services.py, campaigns/services.py).                              *)
(*                                                                         *)
(* organization_locked holds the organization's row for a count and the     *)
(* write it guards.  publish and set_status write inside their transaction; *)
(* restore_flow opens none, so the lock is gone when the check returns, and *)
(* its save comes later.  The plan itself does not change here.             *)
(***************************************************************************)
EXTENDS Naturals, FiniteSets

CONSTANTS
    Automation,    \* flows and sequences of an organization
    Restorer,      \* restore requests at once
    PlanLimit      \* active automations the plan allows

ASSUME PlanAssumption ==
    /\ IsFiniteSet(Automation)
    /\ IsFiniteSet(Restorer)
    /\ PlanLimit \in Nat

VARIABLES
    active,        \* SUBSET Automation
    passed         \* [Restorer -> SUBSET Automation], the one whose check passed

gateVars == <<active, passed>>

GateInit ==
    /\ active = {}
    /\ passed = [r \in Restorer |-> {}]

\* Mutant: the slot that is being taken is not counted.
RoomForOneMore == Cardinality(active) <= PlanLimit

\* check_can_activate_automation, under the lock.
Room == Cardinality(active) < PlanLimit

\* publish, or set_status to active: one transaction.
Activate(a) ==
    /\ a \notin active
    /\ Room
    /\ active' = active \cup {a}
    /\ UNCHANGED passed

\* Archived, taken offline, set to draft or deleted.
Deactivate(a) ==
    /\ a \in active
    /\ active' = active \ {a}
    /\ UNCHANGED passed

CheckRestore(r, a) ==
    /\ passed[r] = {}
    /\ a \notin active
    /\ Room
    /\ passed' = [passed EXCEPT ![r] = {a}]
    /\ UNCHANGED active

SaveRestore(r) ==
    /\ passed[r] # {}
    /\ active' = active \cup passed[r]
    /\ passed' = [passed EXCEPT ![r] = {}]

RestoreDies(r) ==
    /\ passed[r] # {}
    /\ passed' = [passed EXCEPT ![r] = {}]
    /\ UNCHANGED active

GateNext ==
    \/ \E a \in Automation : Activate(a) \/ Deactivate(a)
    \/ \E r \in Restorer : \/ SaveRestore(r) \/ RestoreDies(r)
                           \/ \E a \in Automation : CheckRestore(r, a)

GateSpec == GateInit /\ [][GateNext]_gateVars

-----------------------------------------------------------------------------
(* Properties.                                                             *)

\* Types of all variables.
GateTypeOK ==
    /\ active \in SUBSET Automation
    /\ passed \in [Restorer -> SUBSET Automation]

(***************************************************************************)
(* The limit is passed by at most the restores that overlap: whatever is    *)
(* published, activated and restored, one after another or at once, the     *)
(* excess does not add up.  (The limit itself does not stand: a check may   *)
(* pass before somebody else's activation and be saved after it.)           *)
(***************************************************************************)
OvershootIsBounded == Cardinality(active) <= PlanLimit + Cardinality(Restorer)
=============================================================================

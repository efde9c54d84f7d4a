---------------------------- MODULE WebhookHealth ----------------------------
(***************************************************************************)
(* The health of one outbound webhook (apps/api/delivery.py): deliveries    *)
(* handled by several workers, the streak of failures that switches the     *)
(* endpoint off, and the edit that switches it on again                     *)
(* (apps/api/services.py, update_webhook).                                  *)
(***************************************************************************)
EXTENDS Naturals

CONSTANTS
    Courier,       \* workers delivering at once
    FailureLimit   \* API_WEBHOOK_MAX_CONSECUTIVE_FAILURES

ASSUME WebhookAssumption == FailureLimit \in Nat \ {0}

VARIABLES
    endpoint,      \* the row: [enabled, failures]
    courier,       \* [Courier -> where a delivery is, and the row it locked]
    editor,        \* an edit request: where it is, and the `enabled` it read
    streak,        \* deliveries given up on since the last success (history)
    reopened       \* an edit that read `enabled` before the row was switched
                   \* off saved it on again (history)

hookVars == <<endpoint, courier, editor, streak, reopened>>

NoCourier == [at |-> "no", copy |-> [enabled |-> TRUE, failures |-> 0]]
NoEditor  == [at |-> "no", sawEnabled |-> TRUE]

HookInit ==
    /\ endpoint = [enabled |-> TRUE, failures |-> 0]
    /\ courier = [d \in Courier |-> NoCourier]
    /\ editor = NoEditor
    /\ streak = 0
    /\ reopened = FALSE

\* Mutant: the failure is counted on a row nobody locked.
EndpointLockIgnored == FALSE

\* A record_failure holds the row FOR UPDATE.
EndpointLocked == \E d \in Courier : courier[d].at = "count"

\* Bound: an endpoint that was reopened fails this often again, no more.
BeginDelivery(d) ==
    /\ courier[d].at = "no"
    /\ endpoint.enabled
    /\ endpoint.failures <= FailureLimit
    /\ courier' = [courier EXCEPT ![d].at = "post"]
    /\ UNCHANGED <<endpoint, editor, streak, reopened>>

DeliverySucceeds(d) ==
    /\ courier[d].at = "post"
    /\ ~EndpointLocked
    /\ endpoint' = [endpoint EXCEPT !.failures = 0]
    /\ courier' = [courier EXCEPT ![d] = NoCourier]
    /\ streak' = 0
    /\ reopened' = FALSE
    /\ UNCHANGED editor

\* Attempts are left and a new row is enqueued, or the worker dies here.
DeliveryGoesOn(d) ==
    /\ courier[d].at # "no"
    /\ courier' = [courier EXCEPT ![d] = NoCourier]
    /\ UNCHANGED <<endpoint, editor, streak, reopened>>

\* The last attempt, or a refused address: record_failure takes the row.
GiveUp(d) ==
    /\ courier[d].at = "post"
    /\ ~EndpointLocked
    /\ courier' = [courier EXCEPT ![d] = [at |-> "count", copy |-> endpoint]]
    /\ UNCHANGED <<endpoint, editor, streak, reopened>>

RecordFailure(d) ==
    LET failures == courier[d].copy.failures + 1
        disable == failures >= FailureLimit /\ courier[d].copy.enabled
    IN  /\ courier[d].at = "count"
        /\ endpoint' = [enabled |-> endpoint.enabled /\ ~disable, failures |-> failures]
        /\ courier' = [courier EXCEPT ![d] = NoCourier]
        /\ streak' = streak + 1
        /\ reopened' = (reopened /\ ~disable)
        /\ UNCHANGED editor

\* Loaded by the view, without a lock.
EditReads ==
    /\ editor = NoEditor
    /\ editor' = [at |-> "save", sawEnabled |-> endpoint.enabled]
    /\ UNCHANGED <<endpoint, courier, streak, reopened>>

\* update_webhook: the counter is cleared only if the copy was off.
EditSaves(enabled) ==
    /\ editor.at = "save"
    /\ ~EndpointLocked
    /\ editor' = NoEditor
    /\ IF enabled /\ ~editor.sawEnabled
       THEN endpoint' = [enabled |-> TRUE, failures |-> 0] /\ streak' = 0 /\ reopened' = FALSE
       ELSE /\ endpoint' = [endpoint EXCEPT !.enabled = enabled]
            /\ reopened' = (enabled /\ (reopened \/ ~endpoint.enabled))
            /\ UNCHANGED streak
    /\ UNCHANGED courier

HookNext ==
    \/ \E d \in Courier : \/ BeginDelivery(d) \/ DeliverySucceeds(d) \/ DeliveryGoesOn(d)
                          \/ GiveUp(d) \/ RecordFailure(d)
    \/ EditReads
    \/ \E enabled \in BOOLEAN : EditSaves(enabled)

HookSpec == HookInit /\ [][HookNext]_hookVars

-----------------------------------------------------------------------------
(* Properties.                                                             *)

\* Types of all variables.
HookTypeOK ==
    /\ endpoint \in [enabled : BOOLEAN, failures : Nat]
    /\ courier \in [Courier -> [at : {"no", "post", "count"},
                                copy : [enabled : BOOLEAN, failures : Nat]]]
    /\ editor \in [at : {"no", "save"}, sawEnabled : BOOLEAN]
    /\ streak \in Nat
    /\ reopened \in BOOLEAN

(***************************************************************************)
(* SPEC 17, an endpoint that has failed FailureLimit deliveries in a row is *)
(* off, however many workers count at once ("a genuinely dead receiver can  *)
(* sit one short of the threshold indefinitely" without the lock), unless   *)
(* an edit begun before it went off has saved its own `enabled` over that.  *)
(***************************************************************************)
DeadEndpointIsOff == streak >= FailureLimit => ~endpoint.enabled \/ reopened
=============================================================================

---------------------------- MODULE InboundEvents ----------------------------
(***************************************************************************)
(* What happens to an event a platform delivers: the webhook view logs it,  *)
(* persistence stores it, and the routing tail of apps/flows/triggers walks *)
(* it through the stages, in the request or, handed off, on the worker.     *)
(*                                                                         *)
(* Platforms deliver an event as often as they like, also at once; the      *)
(* process of a delivery may die at any step, each of which commits on its  *)
(* own; and a queue row may be handled again although its work committed.   *)
(* The model covers the retention of the event log (30 days by default).    *)
(* Which stage consumes an event is left open; what counts is how often it  *)
(* starts or resumes a flow.                                                *)
(***************************************************************************)
EXTENDS Naturals

CONSTANTS
    Event,         \* events of one contact
    Delivery       \* bound: deliveries being processed at once

ASSUME InboundAssumption == Event # {}

VARIABLES
    eventLog,      \* [Event -> LogStatus], the WebhookEventLog row
    stored,        \* SUBSET Event, those with an inbound message row
    delivery,      \* [Delivery -> [event, at]], the requests
    routeJob,      \* [Event \X Stage -> JobStatus], the route_event rows
    routed,        \* SUBSET (Event \X Stage), the RoutedEvent rows
    acts           \* [Event -> Nat], flows started or resumed by it (history)

inboundVars == <<eventLog, stored, delivery, routeJob, routed, acts>>

\* hard_optout, post_persist; resume, trigger, default_reply.
Stage       == 1..5
LockFree    == 1..2
EngineStage == 3..5

LogStatus == {"no", "received", "processed", "failed"}
JobStatus == {"none", "pending", "claimed", "done", "failed"}
NoDelivery == [event |-> CHOOSE ev \in Event : TRUE, at |-> "no"]

InboundInit ==
    /\ eventLog = [ev \in Event |-> "no"]
    /\ stored = {}
    /\ delivery = [d \in Delivery |-> NoDelivery]
    /\ routeJob = [j \in Event \X Stage |-> "none"]
    /\ routed = {}
    /\ acts = [ev \in Event |-> 0]

MovesTo(d, at) == delivery' = [delivery EXCEPT ![d].at = at]

-----------------------------------------------------------------------------
(* A delivery.                                                             *)

Receive(d, ev) ==
    /\ delivery[d] = NoDelivery
    /\ delivery' = [delivery EXCEPT ![d] = [event |-> ev, at |-> "log"]]
    /\ UNCHANGED <<eventLog, stored, routeJob, routed, acts>>

\* Mutant: a delivery is only a duplicate of one that was processed.
FreshUnlessProcessed(ev) == eventLog[ev] # "processed"

\* The insert succeeds: no row has the connection and the event's id.
FreshEvent(ev) == eventLog[ev] = "no"

LogEvent(d) ==
    /\ delivery[d].at = "log"
    /\ FreshEvent(delivery[d].event)
    /\ eventLog' = [eventLog EXCEPT ![delivery[d].event] = "received"]
    /\ MovesTo(d, "persist")
    /\ UNCHANGED <<stored, routeJob, routed, acts>>

\* A duplicate, an event without a usable id, or one the database refuses.
SkipEvent(d) ==
    /\ delivery[d].at = "log"
    /\ delivery' = [delivery EXCEPT ![d] = NoDelivery]
    /\ UNCHANGED <<eventLog, stored, routeJob, routed, acts>>

\* persist_events swallows what one event raises, and routing goes on.
PersistEvent(d) ==
    /\ delivery[d].at = "persist"
    /\ stored' \in {stored, stored \cup {delivery[d].event}}
    /\ MovesTo(d, "route")
    /\ UNCHANGED <<eventLog, routeJob, routed, acts>>

\* schedule() by key: an existing row is left as it is.
HandedOff(ev, s) ==
    routeJob' = [routeJob EXCEPT ![<<ev, s>>] = IF @ = "none" THEN "pending" ELSE @]

\* The stages before the engine's commit on their own: all pass, one consumes
\* the event, aborts it or finds the contact paused, or one defers.
RouteLockFree(d) ==
    /\ delivery[d].at = "route"
    /\ \/ MovesTo(d, "engine") /\ UNCHANGED routeJob
       \/ MovesTo(d, "routed") /\ UNCHANGED routeJob
       \/ \E s \in LockFree : HandedOff(delivery[d].event, s) /\ MovesTo(d, "routed")
    /\ UNCHANGED <<eventLog, stored, routed, acts>>

\* The engine's stages, one transaction: the event is handed off (no time, a busy
\* contact, a first step that is not safe inline, a stage that defers), or a stage
\* starts or resumes a flow and consumes it, or none does.
RouteInline(d) ==
    /\ delivery[d].at = "engine"
    /\ \/ \E s \in EngineStage : HandedOff(delivery[d].event, s) /\ UNCHANGED acts
       \/ acts' = [acts EXCEPT ![delivery[d].event] = @ + 1] /\ UNCHANGED routeJob
       \/ UNCHANGED <<routeJob, acts>>
    /\ MovesTo(d, "routed")
    /\ UNCHANGED <<eventLog, stored, routed>>

FinishDelivery(d) ==
    /\ delivery[d].at = "routed"
    /\ \E s \in {"processed", "failed"} :
          eventLog' = [eventLog EXCEPT ![delivery[d].event] = s]
    /\ delivery' = [delivery EXCEPT ![d] = NoDelivery]
    /\ UNCHANGED <<stored, routeJob, routed, acts>>

DeliveryDies(d) ==
    /\ delivery[d].at # "no"
    /\ delivery' = [delivery EXCEPT ![d] = NoDelivery]
    /\ UNCHANGED <<eventLog, stored, routeJob, routed, acts>>

-----------------------------------------------------------------------------
(* The worker.                                                             *)

TakeRouteJob(j) ==
    /\ routeJob[j] = "pending"
    /\ routeJob' = [routeJob EXCEPT ![j] = "claimed"]
    /\ UNCHANGED <<eventLog, stored, delivery, routed, acts>>

\* Mutant: the handler does not look for the row.
ClaimAgain(j) == TRUE

\* The RoutedEvent row can be inserted.
ClaimRoute(j) == j \notin routed

\* One transaction under the contact's lock: the claim, the stages from there
\* on, and the row's end, unless the row was given to another worker meanwhile.
\* A stage that defers here drops the rest of the event.
HandleRouteEvent(j) ==
    /\ routeJob[j] = "claimed"
    /\ IF ClaimRoute(j)
       THEN /\ routed' = routed \cup {j}
            /\ acts' \in {acts, [acts EXCEPT ![j[1]] = @ + 1]}
       ELSE UNCHANGED <<routed, acts>>
    /\ routeJob' \in {[routeJob EXCEPT ![j] = s] : s \in {"done", "claimed"}}
    /\ UNCHANGED <<eventLog, stored, delivery>>

\* It raises, or its worker dies: everything it wrote is gone.
RouteJobFails(j) ==
    /\ routeJob[j] = "claimed"
    /\ \E s \in {"pending", "failed"} : routeJob' = [routeJob EXCEPT ![j] = s]
    /\ UNCHANGED <<eventLog, stored, delivery, routed, acts>>

-----------------------------------------------------------------------------
InboundNext ==
    \/ \E d \in Delivery :
          \/ \E ev \in Event : Receive(d, ev)
          \/ LogEvent(d) \/ SkipEvent(d) \/ PersistEvent(d) \/ RouteLockFree(d)
          \/ RouteInline(d) \/ FinishDelivery(d) \/ DeliveryDies(d)
    \/ \E j \in Event \X Stage : TakeRouteJob(j) \/ HandleRouteEvent(j) \/ RouteJobFails(j)

InboundSpec == InboundInit /\ [][InboundNext]_inboundVars

-----------------------------------------------------------------------------
(* Properties.                                                             *)

\* Types of all variables.
InboundTypeOK ==
    /\ eventLog \in [Event -> LogStatus]
    /\ stored \in SUBSET Event
    /\ delivery \in [Delivery -> [event : Event,
                                  at : {"no", "log", "persist", "route", "engine", "routed"}]]
    /\ routeJob \in [Event \X Stage -> JobStatus]
    /\ routed \in SUBSET (Event \X Stage)
    /\ acts \in [Event -> Nat]

(***************************************************************************)
(* However often an event is delivered and its queue row handled, a contact *)
(* is answered once: at most one flow is started or resumed by it, inline   *)
(* and handed off taken together (handlers.py, _claim, on SPEC 21's zero    *)
(* duplicate sends).                                                        *)
(***************************************************************************)
RoutedOnce == \A ev \in Event : acts[ev] <= 1
=============================================================================

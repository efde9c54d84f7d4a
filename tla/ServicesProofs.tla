---------------------------- MODULE ServicesProofs ----------------------------
(***************************************************************************)
(* Theorems about the small modules around the queue: inbound events, the   *)
(* plan's limit, the cooldown of a trigger, the health of a webhook, the    *)
(* delivery ladder of a message, a scheduled reply, Stripe's events and     *)
(* drip sequences, for all values of their constants; and that their queue   *)
(* rows go through the moves ActionLifecycle allows.                         *)
(***************************************************************************)
EXTENDS InboundEvents, PlanGate, Cooldown, WebhookHealth, DeliveryLadder,
        DeferredReply, StripeEvents, DripSequence, FiniteSetTheorems, TLAPS

-----------------------------------------------------------------------------
(* An event is logged once, so one delivery carries it past the log, and    *)
(* that one either acts on it or hands it off.                              *)

Beyond(d, ev) == delivery[d].event = ev /\ delivery[d].at \in {"persist", "route", "engine", "routed"}

\* Nothing has acted on the event, nor will a queue row.
Untouched(ev) == acts[ev] = 0 /\ \A s \in Stage : routeJob[<<ev, s>>] = "none"

EventInv(ev) ==
    /\ eventLog[ev] = "no" => Untouched(ev) /\ \A d \in Delivery : ~Beyond(d, ev)
    /\ \A c, d \in Delivery : Beyond(c, ev) /\ Beyond(d, ev) => c = d
    /\ \A d \in Delivery : Beyond(d, ev) /\ delivery[d].at # "routed" => Untouched(ev)
    /\ \A s, t \in Stage : routeJob[<<ev, s>>] # "none" /\ routeJob[<<ev, t>>] # "none" => s = t
    /\ \A s \in Stage : routeJob[<<ev, s>>] # "none" /\ <<ev, s>> \notin routed => acts[ev] = 0
    /\ acts[ev] <= 1

\* A queue row acts on its event at most once, and claims it then.
Acted(ev, j) ==
    \/ acts'[ev] = acts[ev]
    \/ ev = j[1] /\ acts'[ev] = acts[ev] + 1 /\ j \in routed' \ routed

InboundInv == InboundTypeOK /\ \A ev \in Event : EventInv(ev)

LEMMA StageLists == LockFree \subseteq Stage /\ EngineStage \subseteq Stage
BY DEF LockFree, EngineStage, Stage

LEMMA NoDeliveryFacts == NoDelivery.event \in Event /\ NoDelivery.at = "no"
BY InboundAssumption DEF NoDelivery

LEMMA InboundInvInit == InboundInit => InboundInv
<1> SUFFICES ASSUME InboundInit PROVE InboundInv
  OBVIOUS
<1>1. NoDelivery \in [event : Event, at : {"no", "log", "persist", "route", "engine", "routed"}]
  BY InboundAssumption DEF NoDelivery
<1>2. InboundTypeOK
  BY <1>1 DEF InboundInit, InboundTypeOK, LogStatus, JobStatus
<1>3. ASSUME NEW ev \in Event PROVE EventInv(ev)
  BY NoDeliveryFacts DEF InboundInit, EventInv, Untouched, Beyond
<1>4. QED
  BY <1>2, <1>3 DEF InboundInv

\* Jobs and acts stay; a delivery goes on within what it had begun, or ends.
LEMMA InboundFrame ==
    ASSUME InboundInv, InboundTypeOK', NEW d \in Delivery,
           \A c \in Delivery \ {d} : delivery'[c] = delivery[c],
           UNCHANGED <<routeJob, routed, acts>>,
           \A ev \in Event : /\ eventLog'[ev] = "no" <=> eventLog[ev] = "no"
                             /\ Beyond(d, ev)' => Beyond(d, ev)
                             /\ delivery[d].at = "routed" /\ Beyond(d, ev)' => delivery'[d].at = "routed"
    PROVE  InboundInv'
<1> SUFFICES ASSUME NEW ev \in Event PROVE EventInv(ev)'
  BY DEF InboundInv
<1>1. EventInv(ev)
  BY DEF InboundInv
<1>2. \A c \in Delivery : Beyond(c, ev)' => Beyond(c, ev)
  BY DEF Beyond
<1>3. \A c \in Delivery : Beyond(c, ev)' /\ delivery'[c].at # "routed" => delivery[c].at # "routed"
  BY <1>2
<1>4. QED
  BY <1>1, <1>2, <1>3 DEF EventInv, Untouched

LEMMA InboundInvStep == InboundInv /\ [InboundNext]_inboundVars => InboundInv'
<1> SUFFICES ASSUME InboundInv, [InboundNext]_inboundVars PROVE InboundInv'
  OBVIOUS
<1>0. InboundTypeOK /\ \A ev \in Event : EventInv(ev)
  BY DEF InboundInv
<1>1. CASE UNCHANGED inboundVars
  BY <1>0, <1>1 DEF inboundVars, InboundInv, InboundTypeOK, EventInv, Untouched, Beyond
\* The steps of a delivery that leave the queue alone.
<1>2. ASSUME NEW d \in Delivery, NEW ev \in Event, Receive(d, ev) PROVE InboundInv'
  <2>1. delivery' = [delivery EXCEPT ![d] = [event |-> ev, at |-> "log"]]
    BY <1>2 DEF Receive
  <2>2. InboundTypeOK'
    BY <1>0, <1>2 DEF Receive, InboundTypeOK
  <2>3. \A e \in Event : ~Beyond(d, e)'
    BY <1>0, <2>1 DEF InboundTypeOK, Beyond
  <2>4. QED
    BY <1>0, <1>2, <2>1, <2>2, <2>3, InboundFrame DEF Receive, InboundTypeOK
<1>3. ASSUME NEW d \in Delivery, SkipEvent(d) \/ DeliveryDies(d) PROVE InboundInv'
  <2>1. /\ delivery' = [delivery EXCEPT ![d] = NoDelivery]
        /\ UNCHANGED <<eventLog, stored, routeJob, routed, acts>>
    BY <1>3 DEF SkipEvent, DeliveryDies
  <2>2. NoDelivery \in [event : Event, at : {"no", "log", "persist", "route", "engine", "routed"}]
    BY InboundAssumption DEF NoDelivery
  <2>3. InboundTypeOK'
    BY <1>0, <2>1, <2>2 DEF InboundTypeOK
  <2>4. \A e \in Event : ~Beyond(d, e)'
    BY <1>0, <2>1, NoDeliveryFacts DEF InboundTypeOK, Beyond
  <2>5. QED
    BY <1>0, <2>1, <2>3, <2>4, InboundFrame DEF InboundTypeOK
<1>4. ASSUME NEW d \in Delivery, FinishDelivery(d) PROVE InboundInv'
  <2>1. PICK s \in {"processed", "failed"} : eventLog' = [eventLog EXCEPT ![delivery[d].event] = s]
    BY <1>4 DEF FinishDelivery
  <2>2. NoDelivery \in [event : Event, at : {"no", "log", "persist", "route", "engine", "routed"}]
    BY InboundAssumption DEF NoDelivery
  <2>3. delivery[d].event \in Event /\ Beyond(d, delivery[d].event)
    BY <1>0, <1>4 DEF InboundTypeOK, FinishDelivery, Beyond
  <2>4. InboundTypeOK'
    BY <1>0, <1>4, <2>1, <2>2 DEF InboundTypeOK, FinishDelivery, LogStatus
  <2>5. \A e \in Event : eventLog'[e] = "no" <=> eventLog[e] = "no"
    BY <1>0, <2>1, <2>3 DEF InboundTypeOK, EventInv
  <2>6. \A e \in Event : ~Beyond(d, e)'
    BY <1>0, <1>4, NoDeliveryFacts DEF InboundTypeOK, Beyond, FinishDelivery
  <2>7. QED
    BY <1>0, <1>4, <2>4, <2>5, <2>6, InboundFrame DEF FinishDelivery, InboundTypeOK
\* A delivery that goes on, having written at most the message.
<1>5. ASSUME NEW d \in Delivery, NEW at \in {"route", "engine", "routed"}, MovesTo(d, at),
             delivery[d].at \in {"persist", "route", "engine"},
             UNCHANGED <<eventLog, routeJob, routed, acts>>, stored' \in SUBSET Event
      PROVE  InboundInv'
  <2>1. InboundTypeOK'
    BY <1>0, <1>5 DEF MovesTo, InboundTypeOK
  <2>2. /\ \A c \in Delivery \ {d} : delivery'[c] = delivery[c]
        /\ \A e \in Event : Beyond(d, e)' <=> Beyond(d, e)
    BY <1>0, <1>5 DEF MovesTo, InboundTypeOK, Beyond
  <2>3. QED
    BY <1>5, <2>1, <2>2, InboundFrame
<1>6. ASSUME NEW d \in Delivery, PersistEvent(d) PROVE InboundInv'
  <2>1. stored' \in SUBSET Event
    BY <1>0, <1>6 DEF PersistEvent, InboundTypeOK
  <2>2. QED
    BY <1>5, <1>6, <2>1 DEF PersistEvent
\* The delivery that logs an event is the first, and alone, beyond the log.
<1>7. ASSUME NEW d \in Delivery, LogEvent(d) PROVE InboundInv'
  <2>1. PICK ev \in Event : ev = delivery[d].event /\ eventLog[ev] = "no"
    BY <1>0, <1>7 DEF LogEvent, FreshEvent, InboundTypeOK
  <2>2. InboundTypeOK'
    BY <1>0, <1>7 DEF LogEvent, MovesTo, InboundTypeOK, LogStatus
  <2>3. /\ delivery'[d].event = ev /\ delivery'[d].at = "persist"
        /\ \A c \in Delivery \ {d} : delivery'[c] = delivery[c]
        /\ eventLog'[ev] = "received" /\ \A e \in Event \ {ev} : eventLog'[e] = eventLog[e]
        /\ UNCHANGED <<routeJob, routed, acts>>
    BY <1>0, <1>7, <2>1 DEF LogEvent, MovesTo, InboundTypeOK
  <2>4. Untouched(ev) /\ \A c \in Delivery : ~Beyond(c, ev)
    BY <1>0, <2>1 DEF EventInv
  <2>5. ASSUME NEW e \in Event PROVE EventInv(e)'
    <3>1. CASE e = ev
      BY <1>0, <2>3, <2>4, <3>1 DEF EventInv, Untouched, Beyond
    <3>2. CASE e # ev
      <4>1. \A c \in Delivery : Beyond(c, e)' => Beyond(c, e) /\ delivery'[c] = delivery[c]
        BY <2>3, <3>2 DEF Beyond
      <4>2. QED
        BY <1>0, <2>3, <3>2, <4>1 DEF EventInv, Untouched
    <3>3. QED
      BY <3>1, <3>2
  <2>6. QED
    BY <2>2, <2>5 DEF InboundInv
\* The delivery that has the event hands it off.
<1>8. ASSUME NEW d \in Delivery, delivery[d].at \in {"route", "engine"},
             NEW s \in Stage, HandedOff(delivery[d].event, s), MovesTo(d, "routed"),
             UNCHANGED <<eventLog, stored, routed, acts>>
      PROVE  InboundInv'
  <2>1. PICK ev \in Event : ev = delivery[d].event /\ Beyond(d, ev) /\ Untouched(ev)
    BY <1>0, <1>8 DEF InboundTypeOK, EventInv, Beyond
  <2>2. InboundTypeOK'
    BY <1>0, <1>8, <2>1 DEF HandedOff, MovesTo, InboundTypeOK, JobStatus
  <2>3. /\ delivery'[d].event = ev /\ delivery'[d].at = "routed"
        /\ \A c \in Delivery \ {d} : delivery'[c] = delivery[c]
        /\ \A e \in Event, t \in Stage : <<e, t>> # <<ev, s>> => routeJob'[<<e, t>>] = routeJob[<<e, t>>]
    BY <1>0, <1>8, <2>1 DEF HandedOff, MovesTo, InboundTypeOK
  <2>4. ASSUME NEW e \in Event PROVE EventInv(e)'
    <3>1. \A c \in Delivery : Beyond(c, e)' <=> Beyond(c, e)
      BY <1>8, <2>1, <2>3 DEF Beyond
    <3>2. CASE e = ev
      <4>1. acts'[ev] = 0 /\ eventLog'[ev] # "no"
        BY <1>0, <1>8, <2>1 DEF EventInv, Untouched
      <4>2. \A t \in Stage : t # s => routeJob'[<<ev, t>>] = "none"
        BY <2>1, <2>3 DEF Untouched
      <4>3. \A c \in Delivery : Beyond(c, ev)' => c = d
        BY <1>0, <2>1, <3>1, <3>2 DEF EventInv
      <4>4. QED
        BY <2>3, <3>2, <4>1, <4>2, <4>3 DEF EventInv
    <3>3. CASE e # ev
      BY <1>0, <1>8, <2>3, <3>1, <3>3 DEF EventInv, Untouched, Beyond
    <3>4. QED
      BY <3>2, <3>3
  <2>5. QED
    BY <2>2, <2>4 DEF InboundInv
<1>9. ASSUME NEW d \in Delivery, RouteLockFree(d) PROVE InboundInv'
  <2>1. ASSUME NEW at \in {"engine", "routed"}, MovesTo(d, at), UNCHANGED routeJob
        PROVE  InboundInv'
    BY <1>0, <1>5, <1>9, <2>1 DEF RouteLockFree, InboundTypeOK
  <2>2. ASSUME NEW s \in LockFree, HandedOff(delivery[d].event, s), MovesTo(d, "routed")
        PROVE  InboundInv'
    BY <1>8, <1>9, <2>2, StageLists DEF RouteLockFree
  <2>3. QED
    BY <1>9, <2>1, <2>2 DEF RouteLockFree
\* Or a stage acts on it here.
<1>10. ASSUME NEW d \in Delivery, RouteInline(d) PROVE InboundInv'
  <2>1. PICK ev \in Event : ev = delivery[d].event /\ Beyond(d, ev) /\ Untouched(ev)
    BY <1>0, <1>10 DEF RouteInline, InboundTypeOK, EventInv, Beyond
  <2>2. ASSUME NEW s \in EngineStage, HandedOff(ev, s), UNCHANGED acts PROVE InboundInv'
    BY <1>8, <1>10, <2>1, <2>2, StageLists DEF RouteInline
  <2>3. ASSUME UNCHANGED <<routeJob, acts>> PROVE InboundInv'
    BY <1>0, <1>5, <1>10, <2>3 DEF RouteInline, InboundTypeOK
  <2>4. ASSUME acts' = [acts EXCEPT ![ev] = @ + 1], UNCHANGED routeJob PROVE InboundInv'
    <3>1. /\ acts'[ev] = 1 /\ \A e \in Event \ {ev} : acts'[e] = acts[e]
          /\ delivery'[d].event = ev /\ delivery'[d].at = "routed"
          /\ \A c \in Delivery \ {d} : delivery'[c] = delivery[c]
          /\ UNCHANGED <<eventLog, stored, routed>>
      BY <1>0, <1>10, <2>1, <2>4 DEF RouteInline, MovesTo, InboundTypeOK, Untouched
    <3>2. InboundTypeOK'
      BY <1>0, <1>10, <2>1, <2>4 DEF RouteInline, MovesTo, InboundTypeOK
    <3>3. ASSUME NEW e \in Event PROVE EventInv(e)'
      <4>1. \A c \in Delivery : Beyond(c, e)' <=> Beyond(c, e)
        BY <1>10, <2>1, <3>1 DEF Beyond, RouteInline
      <4>2. CASE e = ev
        <5>1. eventLog'[ev] # "no" /\ \A s \in Stage : routeJob'[<<ev, s>>] = "none"
          BY <1>0, <2>1, <2>4, <3>1 DEF EventInv, Untouched
        <5>2. \A c \in Delivery : Beyond(c, ev)' => c = d
          BY <1>0, <2>1, <4>1, <4>2 DEF EventInv
        <5>3. QED
          BY <3>1, <4>2, <5>1, <5>2 DEF EventInv
      <4>3. CASE e # ev
        BY <1>0, <2>4, <3>1, <4>1, <4>3 DEF EventInv, Untouched, Beyond
      <4>4. QED
        BY <4>2, <4>3
    <3>4. QED
      BY <3>2, <3>3 DEF InboundInv
  <2>5. QED
    BY <1>10, <2>1, <2>2, <2>3, <2>4 DEF RouteInline
\* The worker: the only row there is for the event, once claimed, is done.
<1>11. ASSUME NEW j \in Event \X Stage, NEW x \in JobStatus, x # "none", routeJob[j] # "none",
              routeJob' = [routeJob EXCEPT ![j] = x], InboundTypeOK',
              routed \subseteq routed', eventLog' = eventLog, delivery' = delivery,
              \A ev \in Event : Acted(ev, j)
       PROVE  InboundInv'
  <2>1. PICK ev \in Event, s \in Stage : j = <<ev, s>>
    OBVIOUS
  <2>2. \A e \in Event, t \in Stage : routeJob'[<<e, t>>] = "none" <=> routeJob[<<e, t>>] = "none"
    BY <1>0, <1>11 DEF InboundTypeOK
  <2>3. \A c \in Delivery, e \in Event : Beyond(c, e)' <=> Beyond(c, e)
    BY <1>11 DEF Beyond
  <2>4. ASSUME NEW e \in Event PROVE EventInv(e)'
    <3>1. CASE acts'[e] = acts[e]
      BY <1>0, <1>11, <2>2, <2>3, <3>1 DEF EventInv, Untouched
    <3>2. CASE e = ev /\ acts'[ev] = acts[ev] + 1 /\ j \in routed' \ routed
      <4>1. routeJob[<<ev, s>>] # "none" /\ <<ev, s>> \notin routed /\ acts[ev] = 0
        BY <1>0, <1>11, <2>1, <3>2 DEF EventInv
      <4>2. eventLog[ev] # "no" /\ \A c \in Delivery : Beyond(c, ev) => delivery[c].at = "routed"
        BY <1>0, <4>1 DEF EventInv, Untouched
      <4>3. \A t \in Stage : routeJob'[<<ev, t>>] # "none" => t = s
        BY <1>0, <2>2, <4>1 DEF EventInv
      <4>4. acts'[ev] = 1 /\ <<ev, s>> \in routed'
        BY <2>1, <3>2, <4>1
      <4>5. \A c, d \in Delivery : Beyond(c, ev)' /\ Beyond(d, ev)' => c = d
        BY <1>0, <2>3 DEF EventInv
      <4>6. QED
        BY <1>11, <2>3, <3>2, <4>2, <4>3, <4>4, <4>5 DEF EventInv
    <3>3. QED
      BY <1>11, <2>1, <3>1, <3>2 DEF Acted
  <2>5. QED
    BY <1>11, <2>4 DEF InboundInv
<1>12. ASSUME NEW j \in Event \X Stage, TakeRouteJob(j) \/ RouteJobFails(j) PROVE InboundInv'
  <2>1. PICK x \in JobStatus : x # "none" /\ routeJob' = [routeJob EXCEPT ![j] = x]
    BY <1>12 DEF TakeRouteJob, RouteJobFails, JobStatus
  <2>2. /\ routeJob[j] # "none" /\ routed' = routed /\ acts' = acts
        /\ eventLog' = eventLog /\ delivery' = delivery /\ stored' = stored
    BY <1>12 DEF TakeRouteJob, RouteJobFails
  <2>3. InboundTypeOK'
    BY <1>0, <2>1, <2>2 DEF InboundTypeOK
  <2>4. \A ev \in Event : Acted(ev, j)
    BY <2>2 DEF Acted
  <2>5. QED
    BY <1>11, <2>1, <2>2, <2>3, <2>4
<1>13. ASSUME NEW j \in Event \X Stage, HandleRouteEvent(j) PROVE InboundInv'
  <2>1. PICK x \in JobStatus : x # "none" /\ routeJob' = [routeJob EXCEPT ![j] = x]
    BY <1>13 DEF HandleRouteEvent, JobStatus
  <2>2. /\ j[1] \in Event /\ routeJob[j] # "none" /\ routed \subseteq routed'
        /\ eventLog' = eventLog /\ delivery' = delivery /\ stored' = stored
        /\ \/ acts' = acts
           \/ acts' = [acts EXCEPT ![j[1]] = @ + 1] /\ j \in routed' \ routed
    BY <1>13 DEF HandleRouteEvent, ClaimRoute
  <2>3. routed' \in SUBSET (Event \X Stage)
    BY <1>0, <1>13 DEF HandleRouteEvent, InboundTypeOK
  <2>4. acts' \in [Event -> Nat]
    BY <1>0, <2>2 DEF InboundTypeOK
  <2>5. InboundTypeOK'
    BY <1>0, <2>1, <2>2, <2>3, <2>4 DEF InboundTypeOK
  <2>6. \A ev \in Event : Acted(ev, j)
    BY <1>0, <2>2 DEF InboundTypeOK, Acted
  <2>7. QED
    BY <1>11, <2>1, <2>2, <2>5, <2>6
<1>14. QED
  BY <1>1, <1>2, <1>3, <1>4, <1>6, <1>7, <1>9, <1>10, <1>12, <1>13 DEF InboundNext

(***************************************************************************)
(* A platform may deliver an event any number of times, at once or after a   *)
(* crash, and the queue may hand its row out again: it starts or resumes at  *)
(* most one flow.                                                           *)
(***************************************************************************)
THEOREM EventsActOnce == InboundSpec => []RoutedOnce
<1>1. InboundInv => RoutedOnce
  BY DEF InboundInv, EventInv, RoutedOnce
<1>2. QED
  BY <1>1, InboundInvInit, InboundInvStep, PTL DEF InboundSpec

-----------------------------------------------------------------------------
(* The plan's limit.  A restore that has passed its check is an activation  *)
(* that is still to come, so the two are counted together.                  *)

Pending == {r \in Restorer : passed[r] # {}}

GateInv ==
    /\ GateTypeOK
    /\ \A r \in Restorer : passed[r] = {} \/ \E a \in Automation : passed[r] = {a}
    /\ Cardinality(active) + Cardinality(Pending) <= PlanLimit + Cardinality(Restorer)

LEMMA GateSizes ==
    GateTypeOK => /\ IsFiniteSet(active) /\ Cardinality(active) \in Nat
                  /\ IsFiniteSet(Pending) /\ Cardinality(Pending) \in Nat
                  /\ Cardinality(Pending) <= Cardinality(Restorer)
                  /\ Cardinality(Restorer) \in Nat
<1> SUFFICES ASSUME GateTypeOK
             PROVE  /\ IsFiniteSet(active) /\ Cardinality(active) \in Nat
                    /\ IsFiniteSet(Pending) /\ Cardinality(Pending) \in Nat
                    /\ Cardinality(Pending) <= Cardinality(Restorer)
                    /\ Cardinality(Restorer) \in Nat
  OBVIOUS
<1>1. Pending \subseteq Restorer /\ active \subseteq Automation
  BY DEF Pending, GateTypeOK
<1>2. IsFiniteSet(Pending) /\ IsFiniteSet(active)
  BY <1>1, PlanAssumption, FS_Subset
<1>3. Cardinality(Pending) <= Cardinality(Restorer)
  BY <1>1, PlanAssumption, FS_Subset
<1>4. QED
  BY <1>2, <1>3, PlanAssumption, FS_CardinalityType

LEMMA GateInvInit == GateInit => GateInv
<1> SUFFICES ASSUME GateInit PROVE GateInv
  OBVIOUS
<1>1. GateTypeOK /\ Pending = {} /\ active = {}
  BY DEF GateInit, GateTypeOK, Pending
<1>2. Cardinality({}) = 0
  BY FS_EmptySet
<1>3. PlanLimit \in Nat /\ Cardinality(Restorer) \in Nat
  BY <1>1, GateSizes, PlanAssumption
<1>4. QED
  BY <1>1, <1>2, <1>3 DEF GateInv, GateInit

LEMMA GateInvStep == GateInv /\ [GateNext]_gateVars => GateInv'
<1> SUFFICES ASSUME GateInv, [GateNext]_gateVars PROVE GateInv'
  OBVIOUS
<1>0. GateTypeOK /\ PlanLimit \in Nat
  BY PlanAssumption DEF GateInv
<1>1. CASE UNCHANGED gateVars
  BY <1>1 DEF gateVars, GateInv, GateTypeOK, Pending
<1>2. ASSUME NEW a \in Automation, Activate(a) PROVE GateInv'
  <2>1. GateTypeOK' /\ Pending' = Pending /\ passed' = passed
    BY <1>0, <1>2 DEF Activate, GateTypeOK, Pending
  <2>2. Cardinality(active') = Cardinality(active) + 1
    BY <1>0, <1>2, GateSizes, FS_AddElement DEF Activate
  <2>3. Cardinality(active) < PlanLimit
    BY <1>2 DEF Activate, Room
  <2>4. QED
    BY <1>0, <2>1, <2>2, <2>3, GateSizes DEF GateInv
<1>3. ASSUME NEW a \in Automation, Deactivate(a) PROVE GateInv'
  <2>1. GateTypeOK' /\ Pending' = Pending /\ passed' = passed
    BY <1>0, <1>3 DEF Deactivate, GateTypeOK, Pending
  <2>2. Cardinality(active') = Cardinality(active) - 1
    BY <1>0, <1>3, GateSizes, FS_RemoveElement DEF Deactivate
  <2>3. QED
    BY <1>0, <2>1, <2>2, GateSizes DEF GateInv
<1>4. ASSUME NEW r \in Restorer, NEW a \in Automation, CheckRestore(r, a) PROVE GateInv'
  <2>1. GateTypeOK' /\ active' = active
    BY <1>0, <1>4 DEF CheckRestore, GateTypeOK
  <2>2. \A q \in Restorer : passed'[q] = {} \/ \E b \in Automation : passed'[q] = {b}
    BY <1>0, <1>4 DEF CheckRestore, GateTypeOK, GateInv
  <2>3. Cardinality(active) < PlanLimit
    BY <1>4 DEF CheckRestore, Room
  <2>4. Cardinality(Pending') <= Cardinality(Restorer) /\ Cardinality(Pending') \in Nat
    <3>1. Pending' \subseteq Restorer
      BY DEF Pending
    <3>2. IsFiniteSet(Pending') /\ Cardinality(Pending') <= Cardinality(Restorer)
      BY <3>1, PlanAssumption, FS_Subset
    <3>3. QED
      BY <3>2, FS_CardinalityType
  <2>5. QED
    BY <1>0, <2>1, <2>2, <2>3, <2>4, GateSizes DEF GateInv
<1>5. ASSUME NEW r \in Restorer, passed[r] # {}, passed' = [passed EXCEPT ![r] = {}]
      PROVE  /\ \A q \in Restorer : passed'[q] = {} \/ \E b \in Automation : passed'[q] = {b}
             /\ Cardinality(Pending') = Cardinality(Pending) - 1
  <2>1. r \in Pending /\ Pending' = Pending \ {r}
    BY <1>0, <1>5 DEF Pending, GateTypeOK
  <2>2. Cardinality(Pending') = Cardinality(Pending) - 1
    BY <1>0, <2>1, GateSizes, FS_RemoveElement
  <2>3. QED
    BY <1>0, <1>5, <2>2 DEF GateInv, GateTypeOK
<1>6. ASSUME NEW r \in Restorer, SaveRestore(r) PROVE GateInv'
  <2>1. PICK a \in Automation : passed[r] = {a}
    BY <1>6 DEF GateInv, SaveRestore
  <2>2. GateTypeOK' /\ active' = active \cup {a}
    BY <1>0, <1>6, <2>1 DEF SaveRestore, GateTypeOK
  <2>3. Cardinality(active') \in {Cardinality(active), Cardinality(active) + 1}
    BY <1>0, <2>2, GateSizes, FS_AddElement
  <2>4. /\ \A q \in Restorer : passed'[q] = {} \/ \E b \in Automation : passed'[q] = {b}
        /\ Cardinality(Pending') = Cardinality(Pending) - 1
    BY <1>5, <1>6 DEF SaveRestore
  <2>5. QED
    BY <1>0, <2>2, <2>3, <2>4, GateSizes DEF GateInv
<1>7. ASSUME NEW r \in Restorer, RestoreDies(r) PROVE GateInv'
  <2>1. GateTypeOK' /\ active' = active
    BY <1>0, <1>7 DEF RestoreDies, GateTypeOK
  <2>2. /\ \A q \in Restorer : passed'[q] = {} \/ \E b \in Automation : passed'[q] = {b}
        /\ Cardinality(Pending') = Cardinality(Pending) - 1
    BY <1>5, <1>7 DEF RestoreDies
  <2>3. QED
    BY <1>0, <2>1, <2>2, GateSizes DEF GateInv
<1>8. QED
  BY <1>1, <1>2, <1>3, <1>4, <1>6, <1>7 DEF GateNext

(***************************************************************************)
(* However many automations are published, activated and restored, the      *)
(* plan's limit is passed by no more than the restores that overlap.        *)
(***************************************************************************)
THEOREM OvershootStays == GateSpec => []OvershootIsBounded
<1>1. GateInv => OvershootIsBounded
  BY GateSizes, PlanAssumption DEF GateInv, OvershootIsBounded
<1>2. QED
  BY <1>1, GateInvInit, GateInvStep, PTL DEF GateSpec

-----------------------------------------------------------------------------
(* The webhook's counter is its streak, and whoever holds the row has read  *)
(* it as it is.                                                             *)

HookInv ==
    /\ HookTypeOK
    /\ endpoint.failures = streak
    /\ \A c, d \in Courier : courier[c].at = "count" /\ courier[d].at = "count" => c = d
    /\ \A d \in Courier : courier[d].at = "count" => courier[d].copy = endpoint
    /\ DeadEndpointIsOff

LEMMA HookInvInit == HookInit => HookInv
<1> SUFFICES ASSUME HookInit PROVE HookInv
  OBVIOUS
<1>1. HookTypeOK
  BY DEF HookInit, HookTypeOK, NoCourier, NoEditor
<1>2. \A d \in Courier : courier[d].at # "count"
  BY DEF HookInit, NoCourier
<1>3. endpoint.failures = streak /\ DeadEndpointIsOff
  BY WebhookAssumption DEF HookInit, DeadEndpointIsOff
<1>4. QED
  BY <1>1, <1>2, <1>3 DEF HookInv

LEMMA HookInvStep == HookInv /\ [HookNext]_hookVars => HookInv'
<1> SUFFICES ASSUME HookInv, [HookNext]_hookVars PROVE HookInv'
  OBVIOUS
<1>0. HookTypeOK /\ FailureLimit \in Nat \ {0}
  BY WebhookAssumption DEF HookInv
<1> DEFINE Row == [enabled : BOOLEAN, failures : Nat]
<1>1. CASE UNCHANGED hookVars
  BY <1>1 DEF hookVars, HookInv, HookTypeOK, DeadEndpointIsOff
\* A delivery begins or ends and the endpoint is as it was.
<1>2. ASSUME NEW d \in Courier, NEW u \in [at : {"no", "post"}, copy : Row],
             courier' = [courier EXCEPT ![d] = u],
             UNCHANGED <<endpoint, editor, streak, reopened>>
      PROVE  HookInv'
  BY <1>0, <1>2 DEF HookInv, HookTypeOK, DeadEndpointIsOff
<1>3. ASSUME NEW d \in Courier, BeginDelivery(d) \/ DeliveryGoesOn(d) PROVE HookInv'
  <2>1. courier[d] \in [at : {"no", "post", "count"}, copy : Row]
    BY <1>0 DEF HookTypeOK
  <2>2. CASE BeginDelivery(d)
    <3> DEFINE u == [courier[d] EXCEPT !.at = "post"]
    <3>1. u \in [at : {"no", "post"}, copy : Row] /\ courier' = [courier EXCEPT ![d] = u]
      BY <2>1, <2>2 DEF BeginDelivery
    <3> HIDE DEF u
    <3>2. QED
      BY <1>2, <2>2, <3>1 DEF BeginDelivery
  <2>3. CASE DeliveryGoesOn(d)
    BY <1>2, <2>3 DEF DeliveryGoesOn, NoCourier
  <2>4. QED
    BY <1>3, <2>2, <2>3
\* Nobody holds the row, and it is written.
<1>4. ASSUME ~EndpointLocked, HookTypeOK', endpoint'.failures = streak', DeadEndpointIsOff',
             \A d \in Courier : courier'[d].at # "count"
      PROVE  HookInv'
  BY <1>4 DEF HookInv
<1>5. ASSUME NEW d \in Courier, DeliverySucceeds(d) PROVE HookInv'
  <2>1. HookTypeOK' /\ endpoint'.failures = 0 /\ streak' = 0
    BY <1>0, <1>5 DEF DeliverySucceeds, HookTypeOK, NoCourier
  <2>2. \A c \in Courier : courier'[c].at # "count"
    BY <1>0, <1>5 DEF DeliverySucceeds, HookTypeOK, NoCourier, EndpointLocked
  <2>3. DeadEndpointIsOff'
    BY <1>0, <2>1 DEF DeadEndpointIsOff
  <2>4. QED
    BY <1>4, <1>5, <2>1, <2>2, <2>3 DEF DeliverySucceeds
<1>6. ASSUME NEW d \in Courier, GiveUp(d) PROVE HookInv'
  <2>1. /\ HookTypeOK' /\ courier'[d].at = "count" /\ courier'[d].copy = endpoint
        /\ \A c \in Courier \ {d} : courier'[c] = courier[c]
    BY <1>0, <1>6 DEF GiveUp, HookTypeOK
  <2>2. \A c \in Courier : courier[c].at # "count"
    BY <1>6 DEF GiveUp, EndpointLocked
  <2>3. QED
    BY <1>6, <2>1, <2>2 DEF HookInv, GiveUp, DeadEndpointIsOff
<1>7. ASSUME NEW d \in Courier, RecordFailure(d) PROVE HookInv'
  <2> DEFINE n == endpoint.failures + 1
             disable == n >= FailureLimit /\ endpoint.enabled
  <2>1. courier[d].at = "count" /\ courier[d].copy = endpoint
    BY <1>7 DEF RecordFailure, HookInv
  <2>2. /\ endpoint' = [enabled |-> endpoint.enabled /\ ~disable, failures |-> n]
        /\ courier' = [courier EXCEPT ![d] = NoCourier]
        /\ streak' = streak + 1 /\ reopened' = (reopened /\ ~disable) /\ editor' = editor
    BY <1>7, <2>1 DEF RecordFailure
  <2>3. HookTypeOK'
    BY <1>0, <2>2 DEF HookTypeOK, NoCourier
  <2>4. endpoint'.failures = streak'
    BY <2>2 DEF HookInv
  <2>5. \A c \in Courier : courier'[c].at # "count"
    BY <1>0, <2>1, <2>2 DEF HookInv, HookTypeOK, NoCourier
  <2>6. DeadEndpointIsOff'
    BY <2>2, <2>4 DEF DeadEndpointIsOff
  <2>7. QED
    BY <2>3, <2>4, <2>5, <2>6 DEF HookInv
<1>8. CASE EditReads
  BY <1>0, <1>8 DEF EditReads, HookInv, HookTypeOK, DeadEndpointIsOff
<1>9. ASSUME NEW enabled \in BOOLEAN, EditSaves(enabled) PROVE HookInv'
  <2>1. \A d \in Courier : courier'[d].at # "count"
    BY <1>9 DEF EditSaves, EndpointLocked
  <2>2. CASE enabled /\ ~editor.sawEnabled
    <3>0. /\ endpoint' = [enabled |-> TRUE, failures |-> 0] /\ streak' = 0
          /\ ~reopened' /\ reopened' \in BOOLEAN /\ editor' = NoEditor /\ courier' = courier
      BY <1>9, <2>2 DEF EditSaves
    <3>1. HookTypeOK' /\ endpoint'.failures = 0 /\ streak' = 0
      BY <1>0, <3>0 DEF HookTypeOK, NoEditor
    <3>2. DeadEndpointIsOff'
      BY <1>0, <3>1 DEF DeadEndpointIsOff
    <3>3. QED
      BY <1>4, <1>9, <2>1, <3>1, <3>2 DEF EditSaves
  <2>3. CASE ~(enabled /\ ~editor.sawEnabled)
    <3>1. /\ endpoint' = [endpoint EXCEPT !.enabled = enabled] /\ streak' = streak
          /\ reopened' = (enabled /\ (reopened \/ ~endpoint.enabled))
      BY <1>9, <2>3 DEF EditSaves
    <3>2. HookTypeOK' /\ endpoint'.failures = streak' /\ (endpoint'.enabled <=> enabled)
      BY <1>0, <1>9, <3>1 DEF EditSaves, HookTypeOK, NoEditor, HookInv
    <3>3. DeadEndpointIsOff'
      <4>1. ASSUME streak >= FailureLimit, endpoint'.enabled PROVE reopened'
        <5>1. enabled /\ (~endpoint.enabled \/ reopened)
          BY <3>2, <4>1 DEF DeadEndpointIsOff, HookInv
        <5>2. QED
          BY <3>1, <5>1
      <4>2. QED
        BY <3>1, <4>1 DEF DeadEndpointIsOff
    <3>4. QED
      BY <1>4, <1>9, <2>1, <3>2, <3>3 DEF EditSaves
  <2>4. QED
    BY <2>2, <2>3
<1>10. QED
  BY <1>1, <1>3, <1>5, <1>6, <1>7, <1>8, <1>9 DEF HookNext

(***************************************************************************)
(* An endpoint that failed FailureLimit deliveries in a row is off, however *)
(* many workers count its failures, but for an edit that had read it on.     *)
(***************************************************************************)
THEOREM DeadEndpointsStayOff == HookSpec => []DeadEndpointIsOff
<1>1. HookInv => DeadEndpointIsOff
  BY DEF HookInv
<1>2. QED
  BY <1>1, HookInvInit, HookInvStep, PTL DEF HookSpec

-----------------------------------------------------------------------------
(* The cooldown.  A row that was pruned is so old that no claim still under  *)
(* way can have read the clock within a period of it.                       *)

CoolInv ==
    /\ CoolTypeOK
    /\ fireRow # NoRowYet => fireRow = fired
    /\ fireRow = NoRowYet /\ fired # NoRowYet => fired + Period + Margin < clock
    /\ \A c \in Claimer : claim[c].at # "no" => clock <= claim[c].moment + Patience
    /\ \A b, c \in Claimer : claim[b].at = "holds" /\ claim[c].at = "holds" => b = c
    /\ \A c \in Claimer : claim[c].at = "holds" => MayFire(claim[c].moment)
    /\ stale.at = "selected" => stale.cutoff + Period + Margin <= clock
    /\ ~tooSoon

LEMMA CoolNumbers ==
    /\ Period \in Nat /\ Margin \in Nat /\ Patience \in Nat /\ LastMoment \in Nat
    /\ Patience <= Margin /\ NoRowYet = LastMoment + 1 /\ NoRowYet \in Nat
BY CooldownAssumption DEF NoRowYet

LEMMA CoolInvInit == CoolInit => CoolInv
<1> SUFFICES ASSUME CoolInit PROVE CoolInv
  OBVIOUS
<1>1. CoolTypeOK
  <2>1. NoClaim \in [at : {"no", "asks", "holds"}, moment : 0..LastMoment]
    BY CoolNumbers DEF NoClaim
  <2>2. 0 \in 0..LastMoment /\ NoRowYet \in 0..NoRowYet
    BY CoolNumbers
  <2>3. QED
    BY <2>1, <2>2 DEF CoolInit, CoolTypeOK
<1>2. \A c \in Claimer : claim[c].at = "no"
  BY DEF CoolInit, NoClaim
<1>3. QED
  BY <1>1, <1>2 DEF CoolInit, CoolInv

LEMMA CoolInvStep == CoolInv /\ [CoolNext]_coolVars => CoolInv'
<1> SUFFICES ASSUME CoolInv, [CoolNext]_coolVars PROVE CoolInv'
  OBVIOUS
<1>0. CoolTypeOK
  BY DEF CoolInv
<1> DEFINE Claim == [at : {"no", "asks", "holds"}, moment : 0..LastMoment]
<1>1. CASE UNCHANGED coolVars
  BY <1>1 DEF coolVars, CoolInv, CoolTypeOK, MayFire
<1>2. CASE Tick
  <2>1. CoolTypeOK'
    BY <1>0, <1>2, CoolNumbers DEF Tick, CoolTypeOK
  <2>2. clock \in Nat /\ clock' = clock + 1 /\ fired \in Nat /\ stale.cutoff \in Nat
    BY <1>0, <1>2, CoolNumbers DEF Tick, CoolTypeOK
  <2>3. ASSUME NEW c \in Claimer, claim[c].at # "no" PROVE clock' <= claim[c].moment + Patience
    <3>1. claim[c].moment \in Nat
      BY <1>0, CoolNumbers DEF CoolTypeOK
    <3>2. clock - claim[c].moment < Patience
      BY <1>2, <2>3 DEF Tick
    <3>3. QED
      BY <2>2, <3>1, <3>2, CoolNumbers
  <2>4. fireRow' = NoRowYet' /\ fired' # NoRowYet' => fired' + Period + Margin < clock'
    BY <1>2, <2>2, CoolNumbers DEF Tick, CoolInv, NoRowYet
  <2>5. stale'.at = "selected" => stale'.cutoff + Period + Margin <= clock'
    BY <1>2, <2>2, CoolNumbers DEF Tick, CoolInv
  <2>6. QED
    BY <1>2, <2>1, <2>3, <2>4, <2>5 DEF Tick, CoolInv, MayFire
\* One claim moves and the row stays.
<1>3. ASSUME NEW c \in Claimer, NEW u \in Claim, claim' = [claim EXCEPT ![c] = u],
             UNCHANGED <<clock, fireRow, stale, fired, tooSoon>>,
             u.at # "no" => clock <= u.moment + Patience,
             u.at = "holds" => MayFire(u.moment) /\ \A b \in Claimer : claim[b].at # "holds"
      PROVE  CoolInv'
  <2>1. CoolTypeOK'
    BY <1>0, <1>3 DEF CoolTypeOK
  <2>2. claim'[c] = u /\ \A b \in Claimer \ {c} : claim'[b] = claim[b]
    BY <1>0, <1>3 DEF CoolTypeOK
  <2>3. \A b \in Claimer : /\ claim'[b].at # "no" => clock' <= claim'[b].moment + Patience
                           /\ claim'[b].at = "holds" => MayFire(claim[b].moment)'
    BY <1>3, <2>2 DEF CoolInv, MayFire
  <2>4. \A a, b \in Claimer : claim'[a].at = "holds" /\ claim'[b].at = "holds" => a = b
    BY <1>3, <2>2 DEF CoolInv
  <2>5. QED
    BY <1>3, <2>1, <2>3, <2>4 DEF CoolInv
<1>4. ASSUME NEW c \in Claimer, ReadClock(c) PROVE CoolInv'
  <2> DEFINE u == [at |-> "asks", moment |-> clock]
  <2>1. u \in Claim /\ u.at = "asks" /\ u.moment = clock /\ clock <= clock + Patience
    BY <1>0, CoolNumbers DEF CoolTypeOK
  <2>2. claim' = [claim EXCEPT ![c] = u] /\ UNCHANGED <<clock, fireRow, stale, fired, tooSoon>>
    BY <1>4 DEF ReadClock
  <2> HIDE DEF u
  <2>3. QED
    BY <1>3, <2>1, <2>2
<1>5. NoClaim \in Claim /\ NoClaim.at = "no"
  BY CoolNumbers DEF NoClaim
<1>6. ASSUME NEW c \in Claimer, ClaimFire(c) PROVE CoolInv'
  <2>1. claim[c] \in Claim /\ claim[c].at = "asks" /\ clock <= claim[c].moment + Patience
    BY <1>0, <1>6 DEF ClaimFire, CoolTypeOK, CoolInv
  <2>2. CASE ~MayFire(claim[c].moment)
    BY <1>3, <1>5, <1>6, <2>2 DEF ClaimFire
  <2>3. CASE MayFire(claim[c].moment)
    <3> DEFINE u == [claim[c] EXCEPT !.at = "holds"]
    <3>1. u \in Claim /\ u.at = "holds" /\ u.moment = claim[c].moment
      BY <2>1
    <3>2. claim' = [claim EXCEPT ![c] = u] /\ UNCHANGED <<clock, fireRow, stale, fired, tooSoon>>
      BY <1>6, <2>3 DEF ClaimFire
    <3> HIDE DEF u
    <3>3. \A b \in Claimer : claim[b].at # "holds"
      BY <1>6 DEF ClaimFire, RowTaken
    <3>4. QED
      BY <1>3, <2>1, <2>3, <3>1, <3>2, <3>3
  <2>4. QED
    BY <2>2, <2>3
<1>7. ASSUME NEW c \in Claimer, ClaimRollsBack(c) PROVE CoolInv'
  BY <1>3, <1>5, <1>7 DEF ClaimRollsBack
<1>8. ASSUME NEW c \in Claimer, Fires(c) PROVE CoolInv'
  <2> DEFINE m == claim[c].moment
  <2>1. /\ m \in Nat /\ m <= LastMoment /\ fired \in Nat /\ clock \in Nat /\ claim[c].at = "holds"
        /\ MayFire(m) /\ clock <= m + Patience
    BY <1>0, <1>8, CoolNumbers DEF Fires, CoolTypeOK, CoolInv
  <2>2. fired # NoRowYet => fired + Period <= m
    <3>1. CASE fireRow = NoRowYet
      BY <2>1, <3>1, CoolNumbers DEF CoolInv
    <3>2. CASE fireRow # NoRowYet
      BY <2>1, <3>2 DEF CoolInv, MayFire
    <3>3. QED
      BY <3>1, <3>2
  <2>3. /\ fireRow' = m /\ fired' = m /\ claim' = [claim EXCEPT ![c] = NoClaim]
        /\ clock' = clock /\ stale' = stale /\ m # NoRowYet
    BY <1>8, <2>1, CoolNumbers DEF Fires
  <2>4. ~tooSoon'
    <3>1. tooSoon' = (tooSoon \/ (fired # NoRowYet /\ m < fired + Period))
      BY <1>8 DEF Fires
    <3>2. ~(fired # NoRowYet /\ m < fired + Period)
      BY <2>1, <2>2, CoolNumbers
    <3>3. ~tooSoon
      BY DEF CoolInv
    <3>4. QED
      BY <3>1, <3>2, <3>3
  <2>5. tooSoon' \in BOOLEAN
    BY <1>8 DEF Fires
  <2>6. CoolTypeOK'
    BY <1>0, <1>5, <2>1, <2>3, <2>5, CoolNumbers DEF CoolTypeOK
  <2>7. /\ claim'[c].at = "no" /\ \A b \in Claimer \ {c} : claim'[b] = claim[b]
    BY <1>0, <1>5, <2>3 DEF CoolTypeOK
  <2>8. \A b \in Claimer : claim'[b].at # "holds"
    BY <2>1, <2>7 DEF CoolInv
  <2>9. \A b \in Claimer : claim'[b].at # "no" => clock' <= claim'[b].moment + Patience
    BY <2>3, <2>7 DEF CoolInv
  <2>10. fireRow' # NoRowYet
    BY <2>3
  <2>11. QED
    BY <2>3, <2>4, <2>6, <2>8, <2>9, <2>10 DEF CoolInv
<1>9. CASE PruneSelect
  <2> DEFINE cutoff == clock - Period - Margin
  <2>1. /\ clock \in Nat /\ clock <= LastMoment /\ fireRow \in Nat
        /\ fireRow + Period + Margin < clock
    BY <1>0, <1>9, CoolNumbers DEF PruneSelect, StaleFire, CoolTypeOK
  <2>2. cutoff \in 0..LastMoment /\ cutoff + Period + Margin <= clock
    BY <2>1, CoolNumbers
  <2> HIDE DEF cutoff
  <2>3. stale' = [at |-> "selected", cutoff |-> cutoff] /\ UNCHANGED <<clock, fireRow, claim, fired, tooSoon>>
    BY <1>9 DEF PruneSelect, cutoff
  <2>4. CoolTypeOK'
    BY <1>0, <2>2, <2>3 DEF CoolTypeOK
  <2>5. QED
    BY <2>2, <2>3, <2>4 DEF CoolInv, MayFire
<1>10. CASE PruneDelete
  <2>1. /\ UNCHANGED <<clock, claim, fired, tooSoon>> /\ stale' = [at |-> "no", cutoff |-> 0]
        /\ stale.at = "selected" /\ \A c \in Claimer : claim[c].at # "holds"
    BY <1>10 DEF PruneDelete, RowTaken
  <2>2. CASE fireRow' = fireRow
    <3>1. CoolTypeOK'
      BY <1>0, <2>1, <2>2, CoolNumbers DEF CoolTypeOK
    <3>2. QED
      BY <2>1, <2>2, <3>1 DEF CoolInv
  <2>3. CASE fireRow' = NoRowYet /\ StillStale
    <3>1. fireRow = fired /\ fired < stale.cutoff /\ fired \in Nat /\ stale.cutoff \in Nat /\ clock \in Nat
      BY <1>0, <2>3, CoolNumbers DEF StillStale, CoolInv, CoolTypeOK
    <3>2. fired + Period + Margin < clock
      BY <2>1, <3>1, CoolNumbers DEF CoolInv
    <3>3. CoolTypeOK'
      BY <1>0, <2>1, <2>3, CoolNumbers DEF CoolTypeOK
    <3>4. QED
      BY <2>1, <2>3, <3>2, <3>3 DEF CoolInv
  <2>4. QED
    BY <1>10, <2>2, <2>3 DEF PruneDelete
<1>11. QED
  BY <1>1, <1>2, <1>4, <1>6, <1>7, <1>8, <1>9, <1>10 DEF CoolNext

(***************************************************************************)
(* Two fires of a trigger for a contact are a period apart, whatever claims  *)
(* race and whenever the prune runs, as long as no claim takes longer than   *)
(* the margin of the prune.                                                 *)
(***************************************************************************)
THEOREM FiresStaySpaced == CoolSpec => []FiresAreSpaced
<1>1. CoolInv => FiresAreSpaced
  BY DEF CoolInv, FiresAreSpaced
<1>2. QED
  BY <1>1, CoolInvInit, CoolInvStep, PTL DEF CoolSpec
-----------------------------------------------------------------------------
(* The rungs of one message: what the status says of the highest rung it    *)
(* was on, and what the counters say of it.  Once a pixel was fetched       *)
(* during the provider's call nothing is claimed.                          *)

Tallied ==
    /\ NeverGoesBack
    /\ tally.sent = OneIf(peak >= 1 /\ ~unsent)
    /\ tally.delivered = OneIf(peak >= 2)
    /\ msgStatus = "failed" => tally.failed >= 1 \/ gaveUp
    /\ msgStatus = "queued" => ~unsent
    /\ msgStatus = "failed" /\ peak = 0 => unsent

LadderInv ==
    /\ LadderTypeOK
    /\ senderAt # "done" => ~known
    /\ senderAt = "handler" => \A r \in Reporter : reporter[r].at = "no"
    /\ \A r \in Reporter : reporter[r].at = "apply" => NextStatus(reporter[r].saw, reporter[r].incoming)
    /\ ~opened => Tallied /\ (InCall => msgStatus = "queued")

\* The ladder, spelled out.
LEMMA Rungs ==
    /\ \A s : OnLadder(s) <=> s \in {"queued", "sent", "delivered", "read"}
    /\ DELIVERY_PROGRESS["queued"] = 0 /\ DELIVERY_PROGRESS["sent"] = 1
    /\ DELIVERY_PROGRESS["delivered"] = 2 /\ DELIVERY_PROGRESS["read"] = 3
BY DEF OnLadder, DELIVERY_PROGRESS

\* A transition moves each counter by one at most.
LEMMA DeltaTypes ==
    ASSUME NEW previous, NEW current
    PROVE  DeltasFor(previous, current) \in [sent : 0..1, delivered : 0..1, failed : 0..1]
BY DEF DeltasFor, OneIf

\* What a write that landed is counted for.
LEMMA CountedStep ==
    ASSUME LadderTypeOK, NEW previous, NEW current, Record(previous, current)
    PROVE  /\ tally' \in [sent : Nat, delivered : Nat, failed : Nat]
           /\ tally'.sent = tally.sent + DeltasFor(previous, current).sent
           /\ tally'.delivered = tally.delivered + DeltasFor(previous, current).delivered
           /\ tally'.failed = tally.failed + DeltasFor(previous, current).failed
<1> DEFINE deltas == DeltasFor(previous, current)
<1>1. deltas \in [sent : 0..1, delivered : 0..1, failed : 0..1]
  BY DeltaTypes
<1>2. tally' = [sent      |-> tally.sent + deltas.sent,
                delivered |-> tally.delivered + deltas.delivered,
                failed    |-> tally.failed + deltas.failed]
  BY DEF Record
<1>3. tally \in [sent : Nat, delivered : Nat, failed : Nat]
  BY DEF LadderTypeOK
<1>. HIDE DEF deltas
<1>a. /\ deltas.sent \in Nat /\ deltas.delivered \in Nat /\ deltas.failed \in Nat
      /\ tally.sent \in Nat /\ tally.delivered \in Nat /\ tally.failed \in Nat
  BY <1>1, <1>3
<1>4. /\ tally' \in [sent : Nat, delivered : Nat, failed : Nat]
      /\ tally'.sent = tally.sent + deltas.sent
      /\ tally'.delivered = tally.delivered + deltas.delivered
      /\ tally'.failed = tally.failed + deltas.failed
  BY <1>2, <1>a
<1> QED  BY <1>4 DEF deltas

\* A move that the table allows keeps the rungs and their counts together.
LEMMA LegalMove ==
    ASSUME LadderTypeOK, Tallied, NEW current \in ReceiptStatus, NextStatus(msgStatus, current),
           Write(current), Record(msgStatus, current), gaveUp' = gaveUp
    PROVE  Tallied'
<1> DEFINE deltas == DeltasFor(msgStatus, current)
<1>1. msgStatus \in MessageState \ {"deleted"} /\ peak \in 0..3 /\ unsent \in BOOLEAN
  BY Rungs DEF LadderTypeOK, NextStatus, MessageState
<1>3. /\ tally'.sent = tally.sent + deltas.sent
      /\ tally'.delivered = tally.delivered + deltas.delivered
      /\ tally'.failed = tally.failed + deltas.failed
  BY CountedStep
<1>4. tally.failed \in Nat
  BY DEF LadderTypeOK
<1>5. /\ RankReached("sent") = 1 /\ RankReached("delivered") = 2 /\ RankReached("read") = 3
      /\ RankReached("failed") = 0
      /\ RankLeft("queued") = 0 /\ RankLeft("sent") = 1 /\ RankLeft("delivered") = 2
      /\ RankLeft("read") = 3 /\ RankLeft("failed") = 1
  BY Rungs DEF RankReached, RankLeft
<1>6. tally.sent \in Nat /\ tally.delivered \in Nat
  BY DEF LadderTypeOK
<1>7. msgStatus' = current /\ peak' = IF RankReached(current) > peak THEN RankReached(current) ELSE peak
  BY DEF Write
<1>8. unsent' = (unsent \/ (current = "failed" /\ peak = 0))
  BY DEF Write
<1>9. CASE msgStatus = "queued"
  <2>1. peak = 0 /\ ~unsent /\ tally.sent = 0 /\ tally.delivered = 0
    BY <1>9, Rungs DEF Tallied, NeverGoesBack, OneIf
  <2>2. CASE current = "failed"
    <3>1. deltas.sent = 0 /\ deltas.delivered = 0 /\ deltas.failed = 1
      BY <1>5, <1>9, <2>2 DEF DeltasFor, OneIf
    <3> HIDE DEF deltas
    <3>2. msgStatus' = "failed" /\ peak' = 0 /\ tally'.sent = 0 /\ tally'.delivered = 0 /\ tally'.failed >= 1
      BY <1>3, <1>4, <1>5, <1>7, <2>1, <2>2, <3>1
    <3>3. unsent' = TRUE
      BY <1>8, <2>1, <2>2
    <3> QED  BY <3>2, <3>3, Rungs DEF Tallied, NeverGoesBack, OneIf
  <2>3. CASE current # "failed"
    <3>1. deltas.sent = 1 /\ deltas.delivered = IF current = "sent" THEN 0 ELSE 1
      BY <1>5, <1>9, <2>3 DEF DeltasFor, OneIf, ReceiptStatus
    <3> HIDE DEF deltas
    <3>2. /\ msgStatus' = current /\ peak' = RankReached(current) /\ tally'.sent = 1
          /\ tally'.delivered = IF current = "sent" THEN 0 ELSE 1
      BY <1>3, <1>5, <1>7, <2>1, <2>3, <3>1 DEF ReceiptStatus
    <3>3. unsent' = FALSE
      BY <1>8, <2>1, <2>3
    <3> QED  BY <1>5, <2>3, <3>2, <3>3, Rungs DEF Tallied, NeverGoesBack, OneIf, ReceiptStatus
  <2> QED  BY <2>2, <2>3
<1>10. CASE msgStatus = "failed"
  <2>1. peak \in 0..1 /\ current # "failed" /\ tally.delivered = 0
    BY <1>1, <1>10, Rungs DEF Tallied, NeverGoesBack, OneIf, NextStatus
  <2>2. deltas.sent = 0 /\ deltas.delivered = IF current = "sent" THEN 0 ELSE 1
    BY <1>5, <1>10, <2>1 DEF DeltasFor, OneIf, ReceiptStatus
  <2> HIDE DEF deltas
  <2>3. unsent' = unsent /\ tally'.sent = tally.sent /\ (peak = 0 => unsent)
    BY <1>1, <1>3, <1>6, <1>8, <1>10, <2>1, <2>2 DEF Tallied
  <2>4. peak' = RankReached(current) \/ (current = "sent" /\ peak' = 1)
    BY <1>5, <1>7, <2>1 DEF ReceiptStatus
  <2>5. tally.sent = OneIf(peak >= 1 /\ ~unsent)
    BY DEF Tallied
  <2>6. tally'.delivered = IF current = "sent" THEN 0 ELSE 1
    BY <1>3, <2>1, <2>2
  <2> QED  BY <1>1, <1>5, <1>7, <2>1, <2>3, <2>4, <2>5, <2>6, Rungs
           DEF Tallied, NeverGoesBack, OneIf, ReceiptStatus
<1>11. CASE msgStatus \in {"sent", "delivered", "read"}
  <2>1. peak = RankReached(msgStatus) /\ peak >= 1
    BY <1>5, <1>11, Rungs DEF Tallied, NeverGoesBack
  <2>2. deltas.sent = 0 /\ deltas.delivered = IF peak < 2 /\ RankReached(current) >= 2 THEN 1 ELSE 0
    BY <1>5, <1>11, <2>1 DEF DeltasFor, OneIf
  <2>3. deltas.failed = IF current = "failed" THEN 1 ELSE 0
    BY <1>11 DEF DeltasFor, OneIf
  <2> HIDE DEF deltas
  <2>4. unsent' = unsent /\ tally'.sent = tally.sent
    BY <1>1, <1>3, <1>6, <1>8, <2>1, <2>2
  <2>5. tally.sent = OneIf(peak >= 1 /\ ~unsent) /\ tally.delivered = OneIf(peak >= 2)
    BY DEF Tallied
  <2>6. CASE current = "failed"
    <3>1. peak = 1 /\ peak' = 1 /\ msgStatus = "sent"
      BY <1>5, <1>7, <1>11, <2>1, <2>6 DEF NextStatus
    <3> QED  BY <1>1, <1>3, <1>4, <1>5, <1>6, <1>7, <2>2, <2>3, <2>4, <2>5, <2>6, <3>1, Rungs
             DEF Tallied, NeverGoesBack, OneIf
  <2>7. CASE current # "failed"
    <3>1. peak' = RankReached(current) /\ RankReached(current) > peak
      BY <1>5, <1>7, <1>11, <2>1, <2>7, Rungs DEF NextStatus, ReceiptStatus
    <3>2. tally'.delivered = OneIf(peak' >= 2)
      BY <1>1, <1>3, <1>5, <1>6, <2>2, <2>5, <2>7, <3>1 DEF OneIf, ReceiptStatus
    <3>3. tally'.sent = OneIf(peak' >= 1 /\ ~unsent')
      BY <1>1, <2>1, <2>4, <2>5, <3>1, <1>5, <2>7 DEF OneIf, ReceiptStatus
    <3> QED  BY <1>5, <1>7, <2>7, <3>1, <3>2, <3>3, Rungs DEF Tallied, NeverGoesBack, ReceiptStatus
  <2> QED  BY <2>6, <2>7
<1> QED  BY <1>1, <1>9, <1>10, <1>11 DEF MessageState

\* A write keeps the types of what it writes.
LEMMA WriteTypes ==
    ASSUME LadderTypeOK, NEW current \in MessageState, Write(current)
    PROVE  msgStatus' \in MessageState /\ peak' \in 0..3 /\ unsent' \in BOOLEAN
<1>1. RankReached(current) \in 0..3
  BY Rungs DEF RankReached
<1> QED  BY <1>1 DEF LadderTypeOK, Write

\* A message that is about to be sent.
LEMMA LadderInvInit == LadderInit => LadderInv
<1> SUFFICES ASSUME LadderInit PROVE LadderInv
  OBVIOUS
<1>1. LadderTypeOK
  <2>1. NoReceipt \in [at : {"no", "apply"}, saw : MessageState, incoming : ReceiptStatus]
    BY DEF NoReceipt, MessageState, ReceiptStatus
  <2>2. msgStatus \in MessageState /\ reporter \in [Reporter -> [at : {"no", "apply"}, saw : MessageState, incoming : ReceiptStatus]]
    BY <2>1 DEF LadderInit, MessageState
  <2>3. tally \in [sent : Nat, delivered : Nat, failed : Nat] /\ received \in Nat /\ peak \in 0..3
    BY DEF LadderInit
  <2> QED  BY <2>2, <2>3 DEF LadderInit, LadderTypeOK
<1>2. Tallied
  BY Rungs DEF LadderInit, Tallied, NeverGoesBack, OneIf
<1> QED  BY <1>1, <1>2 DEF LadderInit, LadderInv, NoReceipt

\* Only a pixel fetched during a request's call lets the answer rewrite a rung.
LEMMA LadderInvStep == LadderInv /\ [LadderNext]_ladderVars => LadderInv'
<1> SUFFICES ASSUME LadderInv, [LadderNext]_ladderVars PROVE LadderInv'
  OBVIOUS
<1> USE DEF LadderInv
<1>1. ASSUME NEW current \in {"sent", "failed"}, NEW unique \in BOOLEAN, Finalize(current, unique)
      PROVE  LadderInv'
  <2>1. current \in MessageState /\ current \in ReceiptStatus
    BY DEF MessageState, ReceiptStatus
  <2>2. /\ Write(current) /\ Record("queued", current) /\ InCall /\ senderAt' = "done"
        /\ UNCHANGED <<pixel, reporter, received, gaveUp, opened>>
        /\ known' \in BOOLEAN
    BY <1>1 DEF Finalize, LadderTypeOK
  <2>3. tally' \in [sent : Nat, delivered : Nat, failed : Nat]
    BY <2>2, CountedStep
  <2>4. LadderTypeOK'
    BY <2>1, <2>2, <2>3, WriteTypes DEF LadderTypeOK
  <2>5. ASSUME ~opened PROVE Tallied'
    <3>1. msgStatus = "queued" /\ Tallied
      BY <2>2, <2>5
    <3>2. NextStatus("queued", current)
      BY Rungs DEF NextStatus
    <3> QED  BY <2>1, <2>2, <3>1, <3>2, LegalMove
  <2> QED  BY <2>2, <2>4, <2>5 DEF InCall
<1>2. CASE Defer \/ Retry
  BY <1>2 DEF Defer, Retry, LadderTypeOK, Tallied, NeverGoesBack, InCall
<1>3. CASE GiveUpMessage
  <2>1. CASE msgStatus = "queued"
    <3>1. /\ Write("failed") /\ gaveUp' = TRUE /\ senderAt' = "done"
          /\ UNCHANGED <<known, pixel, reporter, tally, received, opened>>
      BY <1>3, <2>1 DEF GiveUpMessage
    <3>2. LadderTypeOK'
      BY <3>1, WriteTypes DEF LadderTypeOK, MessageState
    <3>3. ASSUME ~opened PROVE Tallied'
      <4>1. Tallied /\ peak = 0 /\ RankReached("failed") = 0
        BY <2>1, <3>3, Rungs DEF Tallied, NeverGoesBack, RankReached
      <4>2. tally'.sent = 0 /\ tally'.delivered = 0 /\ peak' = 0 /\ msgStatus' = "failed"
        BY <3>1, <4>1 DEF Tallied, Write, OneIf
      <4>3. unsent' = TRUE /\ gaveUp' = TRUE
        BY <3>1, <4>1 DEF Write
      <4> QED  BY <4>2, <4>3, Rungs DEF Tallied, NeverGoesBack, OneIf
    <3> QED  BY <3>1, <3>2, <3>3 DEF InCall
  <2>2. CASE msgStatus # "queued"
    BY <1>3, <2>2 DEF GiveUpMessage, LadderTypeOK, Tallied, NeverGoesBack, InCall
  <2> QED  BY <2>1, <2>2
<1>4. CASE RetryRefused
  <2>1. /\ Write("failed") /\ Record(msgStatus, "failed") /\ senderAt' = "done"
        /\ msgStatus = "queued" /\ "failed" \in MessageState /\ "failed" \in ReceiptStatus
        /\ UNCHANGED <<known, pixel, reporter, received, gaveUp, opened>>
    BY <1>4 DEF RetryRefused, MessageState, ReceiptStatus
  <2>2. tally' \in [sent : Nat, delivered : Nat, failed : Nat]
    BY <2>1, CountedStep
  <2>3. LadderTypeOK'
    BY <2>1, <2>2, WriteTypes DEF LadderTypeOK
  <2>4. NextStatus(msgStatus, "failed")
    BY <2>1 DEF NextStatus
  <2>5. ASSUME ~opened PROVE Tallied'
    BY <2>1, <2>4, <2>5, LegalMove
  <2> QED  BY <2>1, <2>3, <2>5 DEF InCall
<1>5. ASSUME NEW r \in Reporter, NEW incoming \in ReceiptStatus, ReadReceipt(r, incoming)
      PROVE  LadderInv'
  <2>1. /\ reporter' = [reporter EXCEPT ![r] = [at |-> "apply", saw |-> msgStatus, incoming |-> incoming]]
        /\ NextStatus(msgStatus, incoming) /\ received' = received + 1
        /\ senderAt # "handler"
        /\ UNCHANGED <<msgStatus, known, pixel, senderAt, tally, peak, unsent, gaveUp, opened>>
    BY <1>5 DEF ReadReceipt, Reported, Fetched
  <2>2. LadderTypeOK'
    BY <2>1 DEF LadderTypeOK
  <2>3. \A q \in Reporter : reporter'[q].at = "apply" => NextStatus(reporter'[q].saw, reporter'[q].incoming)
    BY <2>1 DEF LadderTypeOK
  <2> QED  BY <2>1, <2>2, <2>3 DEF InCall, Tallied, NeverGoesBack
<1>6. ASSUME NEW r \in Reporter, ApplyReceipt(r) PROVE LadderInv'
  <2>1. /\ reporter' = [reporter EXCEPT ![r] = NoReceipt] /\ reporter[r].at = "apply"
        /\ senderAt # "retry" /\ senderAt # "handler"
        /\ UNCHANGED <<known, pixel, senderAt, received, gaveUp>>
    BY <1>6 DEF ApplyReceipt
  <2>2. /\ NoReceipt \in [at : {"no", "apply"}, saw : MessageState, incoming : ReceiptStatus]
        /\ NoReceipt.at = "no"
    BY DEF NoReceipt, MessageState, ReceiptStatus
  <2>3. \A q \in Reporter : reporter'[q].at = "apply" => NextStatus(reporter'[q].saw, reporter'[q].incoming)
    BY <2>1, <2>2 DEF LadderTypeOK
  <2>4. CASE IfUnchanged(r)
    <3> DEFINE incoming == reporter[r].incoming
    <3>1. /\ Write(incoming) /\ Record(msgStatus, incoming) /\ NextStatus(msgStatus, incoming)
          /\ opened' = (opened \/ senderAt = "request")
      BY <1>6, <2>1, <2>4 DEF ApplyReceipt, IfUnchanged
    <3>2. incoming \in ReceiptStatus /\ incoming \in MessageState
      BY DEF LadderTypeOK, ReceiptStatus, MessageState
    <3>3. msgStatus # "deleted"
      BY <3>1, <3>2, Rungs DEF NextStatus, ReceiptStatus
    <3> HIDE DEF incoming
    <3>4. tally' \in [sent : Nat, delivered : Nat, failed : Nat]
      BY <3>1, <3>2, <3>3, CountedStep
    <3>5. msgStatus' \in MessageState /\ peak' \in 0..3 /\ unsent' \in BOOLEAN
      BY <3>1, <3>2, WriteTypes
    <3>6. LadderTypeOK'
      BY <2>1, <2>2, <3>1, <3>4, <3>5 DEF LadderTypeOK
    <3>7. ASSUME ~opened' PROVE Tallied' /\ ~InCall'
      BY <2>1, <3>1, <3>2, <3>7, LegalMove DEF InCall
    <3> QED  BY <2>1, <2>3, <3>6, <3>7
  <2>5. CASE ~IfUnchanged(r)
    <3>1. UNCHANGED <<msgStatus, tally, peak, unsent, opened>>
      BY <1>6, <2>5 DEF ApplyReceipt
    <3>2. LadderTypeOK'
      BY <2>1, <2>2, <3>1 DEF LadderTypeOK
    <3> QED  BY <2>1, <2>3, <3>1, <3>2 DEF Tallied, NeverGoesBack, InCall
  <2> QED  BY <2>4, <2>5
<1>7. CASE ApplyDeletion
  <2>1. /\ Write("deleted") /\ known /\ "deleted" \in MessageState
        /\ UNCHANGED <<known, pixel, senderAt, reporter, tally, received, gaveUp, opened>>
    BY <1>7 DEF ApplyDeletion, MessageState
  <2>2. LadderTypeOK'
    BY <2>1, WriteTypes DEF LadderTypeOK
  <2>3. senderAt = "done"
    BY <2>1
  <2>4. ASSUME ~opened PROVE Tallied'
    BY <2>1, <2>4, Rungs DEF Tallied, NeverGoesBack, Write, RankReached, LadderTypeOK
  <2> QED  BY <2>1, <2>2, <2>3, <2>4 DEF InCall
<1>8. CASE UNCHANGED ladderVars
  BY <1>8 DEF ladderVars, LadderTypeOK, Tallied, NeverGoesBack, InCall
<1> QED  BY <1>1, <1>2, <1>3, <1>4, <1>5, <1>6, <1>7, <1>8 DEF LadderNext, Accepted, Rejected

(***************************************************************************)
(* A message is on the highest rung it ever reached, and the counters of    *)
(* its node say which rungs those were, for any number of receipts in any   *)
(* order, each judged by a status that may have changed before it is        *)
(* applied.                                                                *)
(***************************************************************************)
THEOREM LadderIsCounted == LadderSpec => []CountersAreRungs
<1>1. LadderInv => CountersAreRungs
  BY DEF LadderInv, Tallied, CountersAreRungs
<1> QED  BY <1>1, LadderInvInit, LadderInvStep, PTL DEF LadderSpec

-----------------------------------------------------------------------------
(* A scheduled reply.  A request's copy knows the arms the reply has; a row *)
(* beyond them is the one being armed, or was left by a request that died,  *)
(* and only then can it be done before the reply points at it.              *)

LiveRow(n) == replyRow[n] \in {"pending", "claimed", "failed"}

AgentAt == {"no", "reschedule", "cancel", "arm", "armed", "stand down"}
Agent == [at : AgentAt, copy : ReplyRecord]

\* The rows the reply has been given, and the one beyond them.
RowsInv ==
    /\ \A n \in Arms : n > reply.arms + 1 => replyRow[n] = "none"
    /\ ~removed => \A n \in Arms : n = reply.arms + 1 =>
         /\ replyRow[n] # "cancelled"
         /\ replyRow[n] # "none" => agent.at = "armed" \/ torn
         /\ replyRow[n] = "done" => torn
         /\ agent.at = "armed" => replyRow[n] # "none"
    /\ agent.at \in {"no", "reschedule", "cancel"} /\ reply.status = "pending" /\ ~removed /\ ~torn
         => reply.action # 0 /\ LiveRow(reply.action)

CopyInv ==
    /\ reply.action <= reply.arms
    /\ reply.status = "none" => reply = NoReply
    /\ agent.at = "no" => agent = NoAgent
    /\ agent.at # "no" => /\ reply.arms < MaxArms /\ reply.status # "none"
                          /\ agent.copy.action = reply.action /\ agent.copy.arms = reply.arms
    /\ sending <= reply.arms

Typed ==
    /\ reply \in ReplyRecord /\ agent \in Agent
    /\ replyRow \in [Arms -> ReplyRowStatus]
    /\ sending \in 0..MaxArms /\ removed \in BOOLEAN /\ torn \in BOOLEAN

DeferredInv == Typed /\ CopyInv /\ RowsInv


LEMMA ReplyTypes ==
    /\ MaxArms \in Nat /\ Arms = 1..MaxArms
    /\ NoReply \in ReplyRecord /\ NoAgent \in Agent
    /\ NoReply.action = 0 /\ NoReply.arms = 0 /\ NoReply.status = "none" /\ NoAgent.at = "no"
    /\ \A s \in ReplyRecord : /\ s.status \in ReplyStatus /\ s.action \in Nat /\ s.arms \in Nat
                              /\ s.action \in 0..MaxArms /\ s.arms \in 0..MaxArms
BY DeferredAssumption DEF ReplyRecord, NoReply, NoAgent, Agent, AgentAt, Arms, ReplyStatus

LEMMA AgentWrites ==
    /\ \A at \in AgentAt, s \in ReplyRecord :
         LET b == [at |-> at, copy |-> s] IN b \in Agent /\ b.at = at /\ b.copy = s
    /\ \A a \in Agent, at \in AgentAt :
         LET b == [a EXCEPT !.at = at]
         IN  b \in Agent /\ b.at = at /\ b.copy = a.copy
    /\ \A a \in Agent : a.at \in AgentAt /\ a.copy \in ReplyRecord
BY DEF Agent


LEMMA DeferredInvHolds ==
    /\ DeferredInit => DeferredInv
    /\ DeferredInv /\ [DeferredNext]_deferredVars => DeferredInv'
<1> USE ReplyTypes DEF DeferredInv, Typed, CopyInv, RowsInv, LiveRow
<1>1. DeferredInit => DeferredInv
  <2> SUFFICES ASSUME DeferredInit PROVE DeferredInv
    OBVIOUS
  <2>1. Typed
    BY DEF DeferredInit, ReplyRowStatus
  <2>2. CopyInv
    BY DEF DeferredInit
  <2>3. RowsInv
    BY DEF DeferredInit
  <2> QED  BY <2>1, <2>2, <2>3
<1>2. ASSUME DeferredInv, UNCHANGED deferredVars PROVE DeferredInv'
  BY <1>2 DEF deferredVars
<1>3. ASSUME DeferredInv, ScheduleReply PROVE DeferredInv'
  <2>1. /\ reply' = [NoReply EXCEPT !.status = "pending"]
        /\ agent' = [at |-> "arm", copy |-> reply']
        /\ "arm" \in AgentAt /\ "pending" \in ReplyStatus
    BY <1>3 DEF ScheduleReply, AgentAt, ReplyStatus
  <2>2. /\ reply' \in ReplyRecord /\ reply'.status = "pending"
        /\ reply'.action = 0 /\ reply'.arms = 0
    BY <2>1 DEF ReplyRecord, NoReply
  <2>3. agent' \in Agent /\ agent'.at = "arm" /\ agent'.copy = reply'
    BY <2>1, <2>2, AgentWrites
  <2>4. /\ reply.arms = 0 /\ 0 < MaxArms /\ agent.at = "no"
        /\ UNCHANGED <<replyRow, sending, removed, torn>>
    BY <1>3, DeferredAssumption DEF ScheduleReply
  <2> QED  BY <1>3, <2>2, <2>3, <2>4
<1>4. ASSUME DeferredInv, NEW kind \in {"reschedule", "cancel"}, OpenReply(kind) PROVE DeferredInv'
  <2>1. kind \in AgentAt
    BY DEF AgentAt
  <2>2. agent' \in Agent /\ agent'.at = kind /\ agent'.copy = reply
    BY <1>4, <2>1, AgentWrites DEF OpenReply
  <2> QED  BY <1>4, <2>2 DEF OpenReply
<1>5. ASSUME DeferredInv, CancelOld PROVE DeferredInv'
  <2>1. \E at \in {"arm", "stand down"} : agent' = [agent EXCEPT !.at = at]
    BY <1>5 DEF CancelOld
  <2>2. /\ agent' \in Agent /\ agent'.at \in {"arm", "stand down"} /\ agent'.copy = agent.copy
        /\ agent.at # "no" /\ agent.at # "armed"
    BY <1>5, <2>1 DEF Agent, AgentAt, CancelOld
  <2>3. /\ agent.copy.action = reply.action
        /\ \A n \in Arms : replyRow'[n] = IF n = reply.action /\ replyRow[n] = "pending" THEN "cancelled"
                                          ELSE replyRow[n]
        /\ replyRow' \in [Arms -> ReplyRowStatus]
    BY <1>5, <2>2 DEF CancelOld, CancelAction, ReplyRowStatus
  <2>4. UNCHANGED <<reply, sending, removed, torn>>
    BY <1>5 DEF CancelOld
  <2>5. \A n \in Arms : n > reply.arms => replyRow'[n] = replyRow[n]
    BY <1>5, <2>3
  <2>6. Typed' /\ CopyInv'
    BY <1>5, <2>2, <2>3, <2>4
  <2>7. RowsInv'
    <3>1. reply.arms \in Nat /\ RowsInv /\ Arms \subseteq Nat
      BY <1>5
    <3>2. \A n \in Arms : n = reply.arms + 1 => replyRow'[n] = replyRow[n]
      BY <2>5, <3>1
    <3>3. \A n \in Arms : n > reply.arms + 1 => replyRow'[n] = "none"
      BY <2>5, <3>1
    <3>4. agent'.at \notin {"no", "reschedule", "cancel", "armed"} /\ agent.at # "armed"
      BY <2>2
    <3> QED  BY <2>4, <3>1, <3>2, <3>3, <3>4
  <2> QED  BY <2>6, <2>7
<1>6. ASSUME DeferredInv, StandDown \/ DismissFailed PROVE DeferredInv'
  <2>1. \E t \in ReplyStatus \ {"none", "pending"} : reply' = [reply EXCEPT !.status = t]
    BY <1>6 DEF StandDown, DismissFailed, ReplyStatus
  <2>2. /\ reply' \in ReplyRecord /\ reply'.status \notin {"none", "pending"}
        /\ reply'.action = reply.action /\ reply'.arms = reply.arms
    BY <1>6, <2>1 DEF ReplyRecord
  <2>3. agent' = NoAgent /\ agent.at # "armed"
    BY <1>6 DEF StandDown, DismissFailed
  <2> QED  BY <1>6, <2>2, <2>3 DEF StandDown, DismissFailed
<1>7. ASSUME DeferredInv, Arm PROVE DeferredInv'
  <2>1. agent' \in Agent /\ agent'.at = "armed" /\ agent'.copy = agent.copy /\ agent.at = "arm"
    BY <1>7, AgentWrites DEF Arm, AgentAt
  <2> QED  BY <1>7, <2>1 DEF Arm, KeyOf, ReplyRowStatus
<1>8. ASSUME DeferredInv, SaveArmed PROVE DeferredInv'
  <2>0. /\ reply' = [reply EXCEPT !.action = reply.arms + 1, !.arms = reply.arms + 1]
        /\ reply.arms < MaxArms
    BY <1>8 DEF SaveArmed, KeyOf
  <2>1. reply' \in ReplyRecord /\ reply'.status = reply.status /\ reply.arms < MaxArms
        /\ reply'.action = reply.arms + 1 /\ reply'.arms = reply.arms + 1
    <3>1. reply.arms + 1 \in 0..MaxArms /\ reply \in ReplyRecord
      BY <1>8, <2>0
    <3> QED  BY <2>0, <3>1, Zenon DEF ReplyRecord
  <2>2. agent' = NoAgent /\ agent.at = "armed" /\ agent.copy.arms = reply.arms
    BY <1>8 DEF SaveArmed
  <2>3. reply.status # "none"
    BY <1>8, <2>2
  <2> QED  BY <1>8, <2>1, <2>2, <2>3 DEF SaveArmed, KeyOf, ReplyRowStatus
<1>9. ASSUME DeferredInv, RequestDies PROVE DeferredInv'
  BY <1>9, AgentWrites DEF RequestDies, AgentAt
<1>10. ASSUME DeferredInv, NEW n \in Arms, TakeReplyRow(n) PROVE DeferredInv'
  BY <1>10 DEF TakeReplyRow, ReplyRowStatus
<1>11. ASSUME DeferredInv, NEW n \in Arms, BeginSend(n) PROVE DeferredInv'
  BY <1>11 DEF BeginSend, IsCurrent
<1>12. ASSUME DeferredInv, NEW n \in Arms, DropReplyRow(n) PROVE DeferredInv'
  <2>1. /\ replyRow' \in [Arms -> ReplyRowStatus]
        /\ replyRow[n] = "claimed" /\ replyRow'[n] = "done"
        /\ \A k \in Arms : k # n => replyRow'[k] = replyRow[k]
        /\ torn' \in BOOLEAN /\ (torn => torn')
        /\ ~removed /\ n = reply.arms + 1 => torn'
        /\ ~(reply.status = "pending" /\ reply.action = n)
    BY <1>12 DEF DropReplyRow, IsCurrent, KeyOf, ReplyRowStatus
  <2>2. UNCHANGED <<reply, agent, sending, removed>>
    BY <1>12 DEF DropReplyRow
  <2> QED  BY <1>12, <2>1, <2>2
<1>13. ASSUME DeferredInv, FinishSend PROVE DeferredInv'
  <2>1. \E t \in ReplyStatus \ {"none", "pending"} : reply' = [reply EXCEPT !.status = t]
    BY <1>13 DEF FinishSend, ReplyStatus
  <2>2. /\ reply' \in ReplyRecord /\ reply'.status \notin {"none", "pending"}
        /\ reply'.action = reply.action /\ reply'.arms = reply.arms
    BY <1>13, <2>1 DEF ReplyRecord
  <2> QED  BY <1>13, <2>2 DEF FinishSend, ReplyRowStatus
<1>14. ASSUME DeferredInv, SendRollsBack PROVE DeferredInv'
  BY <1>14 DEF SendRollsBack, ReplyRowStatus
<1>15. ASSUME DeferredInv, RemoveContact PROVE DeferredInv'
  BY <1>15 DEF RemoveContact, ReplyRowStatus
<1>16. QED
  BY <1>1, <1>2, <1>3, <1>4, <1>5, <1>6, <1>7, <1>8, <1>9, <1>10, <1>11, <1>12, <1>13, <1>14,
     <1>15, Zenon DEF DeferredNext

(***************************************************************************)
(* A reply that the thread shows as going out points at a row that is       *)
(* queued, claimed or failed for good, for any number of arms: each edit    *)
(* cancels the old row before the reply points at a new one.  A request     *)
(* that died half-way and a row handled too soon are the exceptions.        *)
(***************************************************************************)
THEOREM RepliesStayArmed == DeferredSpec => []PendingReplyIsArmed
<1>1. DeferredInv => PendingReplyIsArmed
  BY ReplyTypes DEF DeferredInv, RowsInv, PendingReplyIsArmed, LiveRow
<1> QED  BY <1>1, DeferredInvHolds, PTL DEF DeferredSpec

-----------------------------------------------------------------------------
(* Stripe's events.  Nothing knows of an event that was not emitted; the row *)
(* shows a state of the newest second applied, and whoever holds an older   *)
(* copy has not saved over a newer one unless two saves overlapped.         *)

HookRow == [ev : 0..LastEvent, at : {"no", "read", "write", "finish"}, copy : BillingRow]
Snapshot == [at : {"no", "ask", "save"}, copy : BillingRow, answer : 0..LastEvent]

StripeTyped ==
    /\ emitted \in 0..LastEvent /\ created \in Seconds /\ raced \in BOOLEAN
    /\ eventRow \in [StripeEvent -> EventStatus]
    /\ billing \in BillingRow
    /\ hook \in [Hook -> HookRow]
    /\ snapshot \in Snapshot

\* Nobody knows of an event that Stripe has not emitted.
KnownInv ==
    /\ billing.shows <= emitted /\ billing.last <= Moment(billing.shows)
    /\ \A ev \in StripeEvent : eventRow[ev] # "no" => ev <= emitted
    /\ \A h \in Hook : /\ hook[h].at # "no" => 1 <= hook[h].ev /\ hook[h].ev <= emitted
                       /\ hook[h].at = "no" => hook[h] = NoHook
    /\ snapshot.at = "no" => snapshot = NoAnswer
    /\ snapshot.copy.last <= Moment(emitted) /\ snapshot.answer <= emitted
    /\ snapshot.at = "save" => snapshot.copy.last <= Moment(snapshot.answer)

\* What has been applied is no younger than the row.
OrderInv ==
    ~raced => /\ \A ev \in StripeEvent : eventRow[ev] = "processed" => Moment(ev) <= billing.last
              /\ \A h \in Hook : /\ hook[h].at = "write" => hook[h].copy.last <= billing.last
                                 /\ hook[h].at = "finish" => Moment(hook[h].ev) <= billing.last

StripeInv == StripeTyped /\ KnownInv /\ OrderInv

LEMMA StripeRows ==
    /\ LastEvent \in Nat /\ StripeEvent = 1..LastEvent
    /\ NoBilling \in BillingRow /\ NoBilling.last = 0 /\ NoBilling.shows = 0
    /\ NoHook \in HookRow /\ NoHook.at = "no" /\ NoHook.ev = 0
    /\ NoAnswer \in Snapshot /\ NoAnswer.at = "no" /\ NoAnswer.copy = NoBilling /\ NoAnswer.answer = 0
    /\ \A b \in BillingRow : b.shows \in 0..LastEvent /\ b.last \in 0..LastEvent
    /\ \A u \in HookRow : /\ u.ev \in 0..LastEvent /\ u.copy \in BillingRow
                          /\ u.at \in {"no", "read", "write", "finish"}
    /\ \A t \in Snapshot : /\ t.at \in {"no", "ask", "save"} /\ t.copy \in BillingRow
                           /\ t.answer \in 0..LastEvent
BY StripeAssumption DEF HookRow, Snapshot, BillingRow, NoBilling, NoHook, NoAnswer, StripeEvent

\* A later state is from a later second, or the same.
LEMMA Moments ==
    ASSUME created \in Seconds
    PROVE  /\ \A ev \in 0..LastEvent : Moment(ev) \in 0..LastEvent
           /\ \A ev, w \in 0..LastEvent : ev <= w => Moment(ev) <= Moment(w)
<1>1. /\ created \in [StripeEvent -> StripeEvent] /\ StripeEvent = 1..LastEvent
      /\ \A i, j \in StripeEvent : i <= j => created[i] <= created[j]
  BY DEF Seconds, StripeEvent
<1> QED  BY <1>1, StripeAssumption DEF Moment

\* A delivery's step writes its own record.
LEMMA HookMoves ==
    ASSUME StripeInv, NEW h \in Hook, NEW u \in HookRow, hook' = [hook EXCEPT ![h] = u],
           UNCHANGED <<emitted, created, snapshot>>,
           eventRow' \in [StripeEvent -> EventStatus], billing' \in BillingRow, raced' \in BOOLEAN,
           billing'.shows <= emitted, billing'.last <= Moment(billing'.shows),
           \A ev \in StripeEvent : eventRow'[ev] # "no" => ev <= emitted,
           u.at # "no" => 1 <= u.ev /\ u.ev <= emitted, u.at = "no" => u = NoHook,
           ~raced' => /\ ~raced /\ billing.last <= billing'.last
                      /\ u.at = "write" => u.copy.last <= billing'.last
                      /\ u.at = "finish" => Moment(u.ev) <= billing'.last
                      /\ \A ev \in StripeEvent : eventRow'[ev] = "processed" => Moment(ev) <= billing'.last
    PROVE  StripeInv'
<1> USE StripeRows DEF StripeInv, StripeTyped, Moment
<1>1. \A g \in Hook : hook'[g] = IF g = h THEN u ELSE hook[g]
  OBVIOUS
<1>2. StripeTyped'
  OBVIOUS
<1>3. KnownInv'
  BY <1>1 DEF KnownInv
<1>4. OrderInv'
  <2> SUFFICES ASSUME ~raced' PROVE OrderInv'
    BY DEF OrderInv
  <2>0. /\ \A g \in Hook : Moment(hook[g].ev) \in Nat
        /\ billing.last \in Nat /\ billing'.last \in Nat
    BY Moments
  <2>1. \A g \in Hook : /\ hook'[g].at = "write" => hook'[g].copy.last <= billing'.last
                        /\ hook'[g].at = "finish" => Moment(hook'[g].ev) <= billing'.last
    BY <1>1, <2>0 DEF OrderInv
  <2> QED  BY <2>1 DEF OrderInv
<1> QED  BY <1>2, <1>3, <1>4
LEMMA StripeInvHolds ==
    /\ StripeInit => StripeInv
    /\ StripeInv /\ [StripeNext]_stripeVars => StripeInv'
<1> USE StripeRows DEF Moment
<1>1. StripeInit => StripeInv
  <2> SUFFICES ASSUME StripeInit PROVE StripeInv
    OBVIOUS
  <2>1. StripeTyped
    BY DEF StripeInit, StripeTyped, EventStatus
  <2>2. KnownInv
    BY DEF StripeInit, KnownInv
  <2>3. OrderInv
    BY DEF StripeInit, OrderInv
  <2> QED  BY <2>1, <2>2, <2>3 DEF StripeInv
<1>2. ASSUME StripeInv, UNCHANGED stripeVars PROVE StripeInv'
  BY <1>2 DEF stripeVars, StripeInv, StripeTyped, KnownInv, OrderInv
<1>3. ASSUME StripeInv, Emit PROVE StripeInv'
  <2>1. /\ emitted \in 0..LastEvent /\ emitted' \in 0..LastEvent /\ emitted' = emitted + 1
        /\ snapshot \in Snapshot
        /\ UNCHANGED <<created, eventRow, billing, hook, snapshot, raced>>
    BY <1>3 DEF Emit, StripeInv, StripeTyped
  <2>2. /\ Moment(emitted) \in Nat /\ Moment(emitted') \in Nat /\ snapshot.copy.last \in Nat
        /\ Moment(emitted) <= Moment(emitted')
    BY <1>3, <2>1, Moments DEF StripeInv, StripeTyped
  <2>3. StripeTyped'
    BY <1>3, <2>1 DEF StripeInv, StripeTyped
  <2>4. snapshot.copy.last <= Moment(emitted')
    BY <1>3, <2>2 DEF StripeInv, KnownInv
  <2>5. KnownInv'
    BY <1>3, <2>1, <2>4 DEF StripeInv, StripeTyped, KnownInv
  <2>6. OrderInv'
    BY <1>3, <2>1 DEF StripeInv, OrderInv
  <2> QED  BY <2>3, <2>5, <2>6 DEF StripeInv
<1>4. ASSUME StripeInv, StartCheckout PROVE StripeInv'
  <2>1. billing' = [billing EXCEPT !.pending = TRUE] /\ billing \in BillingRow
    BY <1>4 DEF StartCheckout, StripeInv, StripeTyped
  <2>2. billing' \in BillingRow /\ billing'.shows = billing.shows /\ billing'.last = billing.last
    BY <2>1 DEF BillingRow
  <2> QED  BY <1>4, <2>2 DEF StartCheckout, StripeInv, StripeTyped, KnownInv, OrderInv
<1>5. ASSUME StripeInv, NEW h \in Hook, NEW ev \in StripeEvent, ClaimEvent(h, ev) \/ RetryEvent(h, ev)
      PROVE  StripeInv'
  <2> DEFINE u == [NoHook EXCEPT !.ev = ev, !.at = "read"]
  <2>1. u \in HookRow /\ u.at = "read" /\ u.ev = ev
    <3>1. ev \in 0..LastEvent
      OBVIOUS
    <3> QED  BY <3>1, Zenon DEF HookRow
  <2>2. hook' = [hook EXCEPT ![h] = u] /\ UNCHANGED <<emitted, created, billing, snapshot, raced>>
    BY <1>5 DEF ClaimEvent, RetryEvent
  <2>3. /\ eventRow' \in [StripeEvent -> EventStatus]
        /\ \A v \in StripeEvent : eventRow'[v] = "processed" => eventRow[v] = "processed"
    BY <1>5 DEF ClaimEvent, RetryEvent, EventStatus, StripeInv, StripeTyped
  <2>4. /\ ev <= emitted
        /\ \A v \in StripeEvent : eventRow'[v] # "no" => v <= emitted
    BY <1>5 DEF ClaimEvent, RetryEvent, StripeInv, StripeTyped, KnownInv
  <2> QED
    BY <1>5, <2>1, <2>2, <2>3, <2>4, HookMoves DEF StripeInv, StripeTyped, KnownInv, OrderInv
<1>7. ASSUME StripeInv, NEW h \in Hook, ReadCustomer(h) PROVE StripeInv'
  <2> DEFINE u == [hook[h] EXCEPT !.at = "write", !.copy = billing]
  <2>1. hook' = [hook EXCEPT ![h] = u] /\ UNCHANGED <<emitted, created, eventRow, billing, snapshot, raced>>
    BY <1>7 DEF ReadCustomer, StripeInv, StripeTyped
  <2>2. hook[h] \in HookRow /\ billing \in BillingRow /\ hook[h].at = "read"
    BY <1>7 DEF ReadCustomer, StripeInv, StripeTyped
  <2>3. u \in HookRow /\ u.at = "write" /\ u.ev = hook[h].ev /\ u.copy = billing
    BY <2>2, Zenon DEF HookRow
  <2> QED
    BY <1>7, <2>1, <2>2, <2>3, HookMoves DEF StripeInv, StripeTyped, KnownInv, OrderInv
<1>8. ASSUME StripeInv, NEW h \in Hook, WriteCustomer(h) PROVE StripeInv'
  <2> DEFINE u == [hook[h] EXCEPT !.at = "finish", !.copy = NoBilling]
  <2>1. hook' = [hook EXCEPT ![h] = u] /\ UNCHANGED <<emitted, created, eventRow, snapshot>>
    BY <1>8 DEF WriteCustomer, StripeInv, StripeTyped
  <2>2. hook[h] \in HookRow /\ billing \in BillingRow /\ hook[h].at = "write"
    BY <1>8 DEF WriteCustomer, StripeInv, StripeTyped
  <2>3. u \in HookRow /\ u.at = "finish" /\ u.ev = hook[h].ev /\ u.copy = NoBilling
    BY <2>2, Zenon DEF HookRow
  <2>4. /\ hook[h].ev \in 0..LastEvent /\ hook[h].ev >= 1 /\ hook[h].ev <= emitted
        /\ Moment(hook[h].ev) = created[hook[h].ev] /\ Moment(hook[h].ev) \in 0..LastEvent
        /\ \A ev \in StripeEvent : Moment(ev) \in Nat
    BY <1>8, <2>2, Moments DEF StripeInv, StripeTyped, KnownInv
  <2> HIDE DEF u, Moment
  <2>5. CASE InOrder(hook[h].ev, hook[h].copy)
    <3>1. /\ billing' = [shows |-> hook[h].ev, last |-> Moment(hook[h].ev), pending |-> FALSE]
          /\ raced' = (raced \/ billing # hook[h].copy)
          /\ hook[h].copy.last <= Moment(hook[h].ev)
      BY <1>8, <2>2, <2>4, <2>5 DEF WriteCustomer, InOrder
    <3>2. /\ billing' \in BillingRow
          /\ billing'.shows = hook[h].ev /\ billing'.last = Moment(hook[h].ev)
      BY <2>4, <3>1 DEF BillingRow
    <3>3. billing'.shows <= emitted /\ billing'.last <= Moment(billing'.shows) /\ raced' \in BOOLEAN
      BY <1>8, <2>4, <3>1, <3>2 DEF StripeInv, StripeTyped
    <3>4. ~raced' => /\ ~raced /\ billing.last <= billing'.last
                     /\ \A ev \in StripeEvent : eventRow'[ev] = "processed" => Moment(ev) <= billing'.last
      <4> SUFFICES ASSUME ~raced'
                   PROVE  /\ ~raced /\ billing.last <= Moment(hook[h].ev)
                          /\ \A ev \in StripeEvent :
                               eventRow[ev] = "processed" => Moment(ev) <= Moment(hook[h].ev)
        BY <2>1, <3>2
      <4>1. ~raced /\ billing.last <= Moment(hook[h].ev)
        BY <3>1
      <4>2. billing.last \in Nat /\ Moment(hook[h].ev) \in Nat
        BY <2>2, <2>4
      <4>3. \A ev \in StripeEvent : eventRow[ev] = "processed" => Moment(ev) <= billing.last
        BY <1>8, <4>1 DEF StripeInv, OrderInv
      <4> QED  BY <2>4, <4>1, <4>2, <4>3
    <3> QED
      BY <1>8, <2>1, <2>2, <2>3, <2>4, <3>2, <3>3, <3>4, HookMoves
      DEF StripeInv, StripeTyped, KnownInv, OrderInv
  <2>6. CASE ~InOrder(hook[h].ev, hook[h].copy)
    <3>1. UNCHANGED <<billing, raced>> /\ Moment(hook[h].ev) < hook[h].copy.last
      BY <1>8, <2>2, <2>4, <2>6 DEF WriteCustomer, InOrder
    <3>2. ~raced => /\ Moment(hook[h].ev) <= billing.last
                    /\ \A ev \in StripeEvent : eventRow[ev] = "processed" => Moment(ev) <= billing.last
      <4> SUFFICES ASSUME ~raced
                   PROVE  /\ Moment(hook[h].ev) <= billing.last
                          /\ \A ev \in StripeEvent :
                               eventRow[ev] = "processed" => Moment(ev) <= billing.last
        OBVIOUS
      <4>1. /\ hook[h].copy.last <= billing.last
            /\ \A ev \in StripeEvent : eventRow[ev] = "processed" => Moment(ev) <= billing.last
        BY <1>8, <2>2 DEF StripeInv, OrderInv
      <4>2. hook[h].copy.last \in Nat /\ billing.last \in Nat /\ Moment(hook[h].ev) \in Nat
        BY <2>2, <2>4
      <4> QED  BY <3>1, <4>1, <4>2
    <3>3. u.at # "no" /\ u.at # "write" /\ 1 <= u.ev /\ u.ev <= emitted
      BY <2>3, <2>4
    <3>4. billing.shows <= emitted /\ billing.last <= Moment(billing.shows) /\ billing.last \in Nat
      BY <1>8, <2>2 DEF StripeInv, KnownInv
    <3>5. /\ eventRow' \in [StripeEvent -> EventStatus] /\ billing' \in BillingRow /\ raced' \in BOOLEAN
          /\ UNCHANGED <<emitted, created, snapshot>>
          /\ \A ev \in StripeEvent : eventRow'[ev] # "no" => ev <= emitted
      BY <1>8, <2>1, <2>2, <3>1 DEF StripeInv, StripeTyped, KnownInv
    <3>6. billing'.shows <= emitted /\ billing'.last <= Moment(billing'.shows)
      BY <3>1, <3>4
    <3>7. ~raced' => /\ ~raced /\ billing.last <= billing'.last
                     /\ u.at = "write" => u.copy.last <= billing'.last
                     /\ u.at = "finish" => Moment(u.ev) <= billing'.last
                     /\ \A ev \in StripeEvent : eventRow'[ev] = "processed" => Moment(ev) <= billing'.last
      BY <2>1, <2>3, <3>1, <3>2, <3>3, <3>4
    <3>8. (u.at # "no" => 1 <= u.ev /\ u.ev <= emitted) /\ (u.at = "no" => u = NoHook)
      BY <3>3
    <3> QED  BY <1>8, <2>1, <2>3, <3>5, <3>6, <3>7, <3>8, HookMoves
  <2> QED  BY <2>5, <2>6
<1>9. ASSUME StripeInv, NEW h \in Hook, FinishEvent(h) \/ FailEvent(h) \/ HookDies(h) PROVE StripeInv'
  <2>1. /\ hook' = [hook EXCEPT ![h] = NoHook]
        /\ UNCHANGED <<emitted, created, billing, snapshot, raced>>
        /\ hook[h] \in HookRow /\ hook[h].at # "no"
    BY <1>9 DEF FinishEvent, FailEvent, HookDies, StripeInv, StripeTyped
  <2>2. hook[h].ev \in StripeEvent /\ hook[h].ev <= emitted
    BY <1>9, <2>1 DEF StripeInv, KnownInv
  <2>3. /\ eventRow' \in [StripeEvent -> EventStatus]
        /\ \A v \in StripeEvent : eventRow'[v] # "no" => v <= emitted
        /\ \A v \in StripeEvent : eventRow'[v] = "processed" =>
             eventRow[v] = "processed" \/ (v = hook[h].ev /\ hook[h].at = "finish")
    BY <1>9, <2>2 DEF FinishEvent, FailEvent, HookDies, StripeInv, StripeTyped, EventStatus, KnownInv
  <2> QED
    BY <1>9, <2>1, <2>2, <2>3, HookMoves DEF StripeInv, StripeTyped, KnownInv, OrderInv
<1>11. ASSUME StripeInv, NEW ev \in StripeEvent, GrowOld(ev) PROVE StripeInv'
  BY <1>11 DEF GrowOld, StripeInv, StripeTyped, KnownInv, OrderInv, EventStatus
<1>12. ASSUME StripeInv, SelectPending PROVE StripeInv'
  <2>1. snapshot' \in Snapshot /\ snapshot'.at = "ask" /\ snapshot'.copy = billing /\ snapshot'.answer = 0
    BY <1>12, Zenon DEF SelectPending, StripeInv, StripeTyped, Snapshot, NoAnswer
  <2>2. billing.last <= Moment(emitted)
    <3>1. /\ billing.last \in Nat /\ billing.shows \in 0..LastEvent /\ emitted \in 0..LastEvent
          /\ billing.last <= Moment(billing.shows) /\ billing.shows <= emitted
      BY <1>12 DEF StripeInv, StripeTyped, KnownInv
    <3> HIDE DEF Moment
    <3>2. /\ Moment(billing.shows) \in Nat /\ Moment(emitted) \in Nat
          /\ Moment(billing.shows) <= Moment(emitted)
      BY <1>12, <3>1, Moments DEF StripeInv, StripeTyped
    <3> QED  BY <3>1, <3>2
  <2>3. StripeTyped'
    BY <1>12, <2>1 DEF SelectPending, StripeInv, StripeTyped
  <2>4. KnownInv'
    BY <1>12, <2>1, <2>2 DEF SelectPending, StripeInv, StripeTyped, KnownInv
  <2>5. OrderInv'
    BY <1>12 DEF SelectPending, StripeInv, OrderInv
  <2> QED  BY <2>3, <2>4, <2>5 DEF StripeInv
<1>13. ASSUME StripeInv, AskStripe PROVE StripeInv'
  <2>0. Moment(emitted) \in Nat
    BY <1>13, Moments DEF StripeInv, StripeTyped
  <2>1. CASE snapshot' = NoAnswer
    BY <1>13, <2>0, <2>1 DEF AskStripe, StripeInv, StripeTyped, KnownInv, OrderInv
  <2>2. CASE snapshot' = [snapshot EXCEPT !.at = "save", !.answer = emitted]
    <3>1. snapshot \in Snapshot /\ emitted \in 0..LastEvent
      BY <1>13 DEF StripeInv, StripeTyped
    <3>2. /\ snapshot' \in Snapshot /\ snapshot'.at = "save"
          /\ snapshot'.copy = snapshot.copy /\ snapshot'.answer = emitted
      BY <2>2, <3>1, Zenon DEF Snapshot
    <3> QED  BY <1>13, <3>2 DEF AskStripe, StripeInv, StripeTyped, KnownInv, OrderInv
  <2> QED  BY <1>13, <2>1, <2>2 DEF AskStripe
<1>14. ASSUME StripeInv, SaveSnapshot PROVE StripeInv'
  <2>1. /\ billing' = [shows |-> snapshot.answer, last |-> snapshot.copy.last, pending |-> FALSE]
        /\ snapshot \in Snapshot /\ snapshot.at = "save"
        /\ raced' = (raced \/ billing # snapshot.copy)
    BY <1>14 DEF SaveSnapshot, StripeInv, StripeTyped
  <2>2. /\ billing' \in BillingRow
        /\ billing'.shows = snapshot.answer /\ billing'.last = snapshot.copy.last
    BY <2>1 DEF BillingRow
  <2>3. UNCHANGED <<emitted, created, eventRow, hook>> /\ snapshot' = NoAnswer
    BY <1>14 DEF SaveSnapshot
  <2>4. StripeTyped'
    BY <1>14, <2>1, <2>2, <2>3 DEF StripeInv, StripeTyped
  <2>5. KnownInv'
    <3>1. Moment(emitted) \in Nat
      BY <1>14, Moments DEF StripeInv, StripeTyped
    <3>2. billing'.shows <= emitted /\ billing'.last <= Moment(billing'.shows)
      BY <1>14, <2>1, <2>2 DEF StripeInv, KnownInv
    <3> QED  BY <1>14, <2>3, <3>1, <3>2 DEF StripeInv, StripeTyped, KnownInv
  <2>6. ~raced' => ~raced /\ billing'.last = billing.last
    BY <1>14, <2>1, <2>2 DEF StripeInv, StripeTyped
  <2>7. OrderInv'
    BY <1>14, <2>3, <2>6 DEF StripeInv, OrderInv
  <2> QED  BY <2>4, <2>5, <2>7 DEF StripeInv
<1> QED
  BY <1>1, <1>2, <1>3, <1>4, <1>5, <1>7, <1>8, <1>9, <1>11, <1>12, <1>13, <1>14, Zenon DEF StripeNext

(***************************************************************************)
(* When every event is processed the row shows a state of the newest        *)
(* second, for any number of events and deliveries, however many events     *)
(* share a second, unless two saves overlapped.                            *)
(***************************************************************************)
THEOREM NewestStands == StripeSpec => []NewestEventStands
<1>1. StripeInv => NewestEventStands
  <2> SUFFICES ASSUME StripeInv, Settled, ~raced PROVE Moment(billing.shows) = Moment(emitted)
    BY DEF NewestEventStands
  <2>1. /\ emitted \in 0..LastEvent /\ billing.shows \in 0..LastEvent /\ billing.last \in Nat
        /\ billing.shows <= emitted /\ billing.last <= Moment(billing.shows)
    BY StripeRows DEF StripeInv, StripeTyped, KnownInv
  <2>2. /\ Moment(billing.shows) <= Moment(emitted)
        /\ Moment(billing.shows) \in Nat /\ Moment(emitted) \in Nat
    BY <2>1, Moments, StripeRows DEF StripeInv, StripeTyped
  <2>3. emitted # 0 => Moment(emitted) <= billing.last
    <3> SUFFICES ASSUME emitted # 0 PROVE Moment(emitted) <= billing.last
      OBVIOUS
    <3>1. emitted \in 1..emitted /\ emitted \in StripeEvent
      BY <2>1, StripeRows
    <3> QED  BY <3>1 DEF Settled, StripeInv, OrderInv
  <2>4. CASE emitted = 0
    BY <2>1, <2>4
  <2>5. CASE emitted # 0
    BY <2>1, <2>2, <2>3, <2>5
  <2> QED  BY <2>4, <2>5
<1>2. QED
  BY <1>1, StripeInvHolds, PTL DEF StripeSpec

-----------------------------------------------------------------------------
(* Drip sequences.  A handler that holds an enrollment holds it at its      *)
(* position, no row exists beyond that position, what has run lies before   *)
(* it, and nothing that was stopped is active or held.                      *)

Position == 1..(MaxSteps + 1)
Place == [status : EnrollmentStatus, current : Position]
Handler == [at : 0..MaxSteps, starts : BOOLEAN, verb : {"no", "unsubscribed", "resubscribed"}]
Asker == Subscriber \cup {CHOOSE s \in Subscriber : TRUE}
AskedFor == [kind : {"no", "subscribe", "unsubscribe"}, who : Asker, seen : Enrollment \cup {0}]

SeqTyped ==
    /\ ladder \in 0..MaxSteps
    /\ enrollment \in [Enrollment -> Place]
    /\ seqRow \in [StepKey -> RowStatus]
    /\ handling \in [Enrollment -> Handler]
    /\ request \in [Request -> AskedFor]
    /\ runs \in [StepKey -> Nat]
    /\ stopped \in SUBSET Enrollment

LiveStep(k) == seqRow[k] \in {"pending", "claimed", "failed"}

PlaceInv(e) ==
    /\ Held(e) => IsActive(e) /\ handling[e].at = enrollment[e].current
    /\ enrollment[e].status = "none" => enrollment[e].current = 1 /\ e \notin stopped
    /\ IsActive(e) => enrollment[e].current <= MaxSteps /\ e \notin stopped
    /\ \A p \in 1..MaxSteps :
         /\ p > enrollment[e].current \/ enrollment[e].status = "none" => seqRow[<<e, p>>] = "none"
         /\ runs[<<e, p>>] = 0 \/ (runs[<<e, p>>] = 1 /\ p < enrollment[e].current)
    /\ IsActive(e) /\ SubscriberOf[e] \notin goneContacts => LiveStep(CurrentStep(e))

SeenInv == \A r \in Request : request[r].seen # 0 => enrollment[request[r].seen].status # "none"

SeqInv == SeqTyped /\ SeenInv /\ \A e \in Enrollment : PlaceInv(e)

LEMMA SeqSets ==
    /\ MaxSteps \in Nat /\ 0 \notin Enrollment
    /\ StepKey = Enrollment \X (1..MaxSteps)
    /\ \A e \in Enrollment, p \in 1..MaxSteps : <<e, p>> \in StepKey
    /\ \A k \in StepKey : k[1] \in Enrollment /\ k[2] \in 1..MaxSteps /\ k = <<k[1], k[2]>>
    /\ \A u \in Place : u.status \in EnrollmentStatus /\ u.current \in 1..(MaxSteps + 1)
    /\ \A u \in Handler : u.at \in 0..MaxSteps
    /\ NoHandler \in Handler /\ NoHandler.at = 0
    /\ \A u \in AskedFor : u.seen \in Enrollment \cup {0}
BY SequenceAssumption DEF StepKey, Place, Position, Handler, AskedFor, NoHandler

\* An enrollment stays where it is, and the row of its step, if it goes on, is live.
LEMMA PlaceStays ==
    ASSUME NEW e \in Enrollment, SeqTyped, SeqTyped', PlaceInv(e),
           enrollment'[e] = enrollment[e], handling'[e].at \in {0, handling[e].at},
           goneContacts \subseteq goneContacts',
           e \in stopped' => e \in stopped,
           \A p \in 1..MaxSteps : /\ runs'[<<e, p>>] = runs[<<e, p>>]
                                  /\ seqRow[<<e, p>>] = "none" => seqRow'[<<e, p>>] = "none",
           IsActive(e) /\ SubscriberOf[e] \notin goneContacts' => LiveStep(CurrentStep(e))'
    PROVE  PlaceInv(e)'
<1> USE SeqSets DEF Held, IsActive
<1>1. \A p \in 1..MaxSteps :
         /\ p > enrollment'[e].current \/ enrollment'[e].status = "none" => seqRow'[<<e, p>>] = "none"
         /\ runs'[<<e, p>>] = 0 \/ (runs'[<<e, p>>] = 1 /\ p < enrollment'[e].current)
  BY DEF PlaceInv
<1>2. Held(e)' => IsActive(e)' /\ handling'[e].at = enrollment'[e].current
  BY DEF PlaceInv
<1>3. /\ enrollment'[e].status = "none" => enrollment'[e].current = 1 /\ e \notin stopped'
      /\ IsActive(e)' => enrollment'[e].current <= MaxSteps /\ e \notin stopped'
  BY DEF PlaceInv
<1> QED  BY <1>1, <1>2, <1>3 DEF PlaceInv

\* An enrollment that was ever one is over, at the position where it was.
LEMMA PlaceEnds ==
    ASSUME NEW e \in Enrollment, SeqTyped, SeqTyped', PlaceInv(e),
           enrollment[e].status # "none" /\ handling'[e].at = 0,
           enrollment'[e].status \notin {"none", "active"},
           enrollment'[e].current = enrollment[e].current,
           \A p \in 1..MaxSteps : /\ runs'[<<e, p>>] = runs[<<e, p>>]
                                  /\ seqRow[<<e, p>>] = "none" => seqRow'[<<e, p>>] = "none"
    PROVE  PlaceInv(e)'
<1> USE SeqSets DEF Held, IsActive
<1>1. \A p \in 1..MaxSteps :
         /\ p > enrollment'[e].current \/ enrollment'[e].status = "none" => seqRow'[<<e, p>>] = "none"
         /\ runs'[<<e, p>>] = 0 \/ (runs'[<<e, p>>] = 1 /\ p < enrollment'[e].current)
  BY DEF PlaceInv
<1> QED  BY <1>1 DEF PlaceInv

\* A contact's new enrollment, at the first step, with its row if there is one.
LEMMA PlaceBegins ==
    ASSUME NEW e \in Enrollment, SeqTyped, SeqTyped', PlaceInv(e),
           enrollment[e].status = "none", e \notin stopped', handling'[e].at = handling[e].at,
           enrollment'[e].status \in {"active", "completed"},
           enrollment'[e].current = enrollment[e].current,
           enrollment'[e].status = "active" => 1 <= MaxSteps /\ seqRow'[<<e, 1>>] = "pending",
           \A p \in 1..MaxSteps : /\ runs'[<<e, p>>] = runs[<<e, p>>]
                                  /\ p # 1 => seqRow'[<<e, p>>] = seqRow[<<e, p>>]
    PROVE  PlaceInv(e)'
<1> USE SeqSets DEF Held, IsActive
<1>1. ~Held(e) /\ ~Held(e)' /\ enrollment'[e].current = 1
  BY DEF PlaceInv
<1>2. \A p \in 1..MaxSteps :
         /\ p > enrollment'[e].current \/ enrollment'[e].status = "none" => seqRow'[<<e, p>>] = "none"
         /\ runs'[<<e, p>>] = 0 \/ (runs'[<<e, p>>] = 1 /\ p < enrollment'[e].current)
  BY <1>1 DEF PlaceInv
<1>3. IsActive(e)' => LiveStep(CurrentStep(e))'
  BY <1>1 DEF LiveStep, CurrentStep
<1> QED  BY <1>1, <1>2, <1>3 DEF PlaceInv

\* The handler of a step ends: the enrollment is one position on.
LEMMA PlaceMoves ==
    ASSUME NEW e \in Enrollment, SeqTyped, SeqTyped', PlaceInv(e), Held(e), ~Held(e)',
           e \in stopped' => e \in stopped,
           enrollment'[e].status \in {"active", "completed"},
           enrollment'[e].current = MovedOn(e),
           IsActive(e)' => MovedOn(e) <= MaxSteps /\ seqRow'[<<e, MovedOn(e)>>] = "pending",
           \A p \in 1..MaxSteps :
             /\ runs'[<<e, p>>] = runs[<<e, p>>]
                \/ (p = handling[e].at /\ runs'[<<e, p>>] = runs[<<e, p>>] + 1)
             /\ p > MovedOn(e) => seqRow'[<<e, p>>] = seqRow[<<e, p>>]
    PROVE  PlaceInv(e)'
<1> USE SeqSets DEF Held, IsActive, MovedOn
<1>1. /\ enrollment[e] \in Place /\ enrollment[e].current \in 1..(MaxSteps + 1)
      /\ enrollment[e].status = "active" /\ handling[e].at = enrollment[e].current
  BY DEF PlaceInv, SeqTyped
<1>2. \A p \in 1..MaxSteps :
         /\ p > enrollment'[e].current => seqRow'[<<e, p>>] = "none"
         /\ runs'[<<e, p>>] = 0 \/ (runs'[<<e, p>>] = 1 /\ p < enrollment'[e].current)
  BY <1>1 DEF PlaceInv
<1>3. IsActive(e)' => LiveStep(CurrentStep(e))'
  BY <1>1 DEF LiveStep, CurrentStep
<1> QED  BY <1>1, <1>2, <1>3 DEF PlaceInv

\* What the row operators return.
LEMMA RowWrites ==
    ASSUME SeqTyped
    PROVE  /\ \A keys : /\ CancelledIn(seqRow, keys) \in [StepKey -> RowStatus]
                        /\ \A k \in StepKey : /\ k \notin keys => CancelledIn(seqRow, keys)[k] = seqRow[k]
                                              /\ seqRow[k] = "none" => CancelledIn(seqRow, keys)[k] = "none"
           /\ \A rows \in [StepKey -> RowStatus], k \in StepKey :
                /\ Enqueued(rows, k) \in [StepKey -> RowStatus]
                /\ Enqueued(rows, k)[k] = IF rows[k] = "none" THEN "pending" ELSE rows[k]
                /\ \A j \in StepKey : j # k => Enqueued(rows, k)[j] = rows[j]
                /\ \A done \in RowDone(rows, k) :
                     /\ done \in [StepKey -> RowStatus]
                     /\ \A j \in StepKey : j # k => done[j] = rows[j]
<1>1. seqRow \in [StepKey -> RowStatus]
  BY DEF SeqTyped
<1>2. \A keys : /\ CancelledIn(seqRow, keys) \in [StepKey -> RowStatus]
               /\ \A k \in StepKey : /\ k \notin keys => CancelledIn(seqRow, keys)[k] = seqRow[k]
                                     /\ seqRow[k] = "none" => CancelledIn(seqRow, keys)[k] = "none"
  BY <1>1 DEF CancelledIn, RowStatus
<1>3. ASSUME NEW rows \in [StepKey -> RowStatus], NEW k \in StepKey
      PROVE  /\ Enqueued(rows, k) \in [StepKey -> RowStatus]
             /\ Enqueued(rows, k)[k] = IF rows[k] = "none" THEN "pending" ELSE rows[k]
             /\ \A j \in StepKey : j # k => Enqueued(rows, k)[j] = rows[j]
  BY <1>3 DEF Enqueued, RowStatus
<1>4. ASSUME NEW rows \in [StepKey -> RowStatus], NEW k \in StepKey, NEW done \in RowDone(rows, k)
      PROVE  /\ done \in [StepKey -> RowStatus]
             /\ \A j \in StepKey : j # k => done[j] = rows[j]
  BY <1>4 DEF RowDone, RowStatus
<1> QED  BY <1>2, <1>3, <1>4

\* What retiring an enrollment writes.
LEMMA RetiredWrites ==
    ASSUME SeqTyped, NEW e \in Enrollment
    PROVE  /\ Retired(e) \in [Enrollment -> Place]
           /\ Retired(e)[e].status = "unsubscribed" /\ Retired(e)[e].current = enrollment[e].current
           /\ \A d \in Enrollment : d # e => Retired(e)[d] = enrollment[d]
<1>1. enrollment \in [Enrollment -> Place] /\ enrollment[e] \in Place
  BY DEF SeqTyped
<1>2. [enrollment[e] EXCEPT !.status = "unsubscribed"] \in Place
  BY <1>1 DEF Place, EnrollmentStatus
<1>3. Retired(e) = [enrollment EXCEPT ![e] = [enrollment[e] EXCEPT !.status = "unsubscribed"]]
  BY Zenon DEF Retired
<1>4. /\ [enrollment[e] EXCEPT !.status = "unsubscribed"].status = "unsubscribed"
      /\ [enrollment[e] EXCEPT !.status = "unsubscribed"].current = enrollment[e].current
  BY <1>1 DEF Place
<1> QED  BY <1>1, <1>2, <1>3, <1>4

LEMMA SeqInitHolds == SeqInit => SeqInv
<1> SUFFICES ASSUME SeqInit PROVE SeqInv
  OBVIOUS
<1> USE SeqSets
<1>1. SeqTyped
  <2>1. [status |-> "none", current |-> 1] \in Place
    BY DEF Place, Position, EnrollmentStatus
  <2>2. NoRequest \in AskedFor
    BY DEF NoRequest, AskedFor, Asker
  <2> QED  BY <2>1, <2>2 DEF SeqInit, SeqTyped, RowStatus
<1>2. SeenInv
  BY DEF SeqInit, SeenInv, NoRequest
<1>3. ASSUME NEW e \in Enrollment PROVE PlaceInv(e)
  BY DEF SeqInit, PlaceInv, Held, IsActive
<1> QED  BY <1>1, <1>2, <1>3 DEF SeqInv

LEMMA CurrentPlace ==
    ASSUME SeqTyped, NEW e \in Enrollment, PlaceInv(e)
    PROVE  /\ IsActive(e) => enrollment[e].current \in 1..MaxSteps
           /\ Held(e) => /\ handling[e].at \in 1..MaxSteps /\ handling[e].at = enrollment[e].current
                         /\ enrollment[e].status = "active"
<1>1. enrollment[e] \in Place /\ enrollment[e].current \in 1..(MaxSteps + 1)
  BY SeqSets DEF SeqTyped
<1> QED  BY <1>1, SeqSets DEF PlaceInv, IsActive

\* The actions that write no enrollment, row or handler.
LEMMA QuietSteps ==
    ASSUME SeqInv, SeqTyped', SeenInv', UNCHANGED <<enrollment, seqRow, runs, stopped>>,
           goneContacts \subseteq goneContacts', \A e \in Enrollment : handling'[e].at \in {0, handling[e].at}
    PROVE  SeqInv'
<1>1. ASSUME NEW e \in Enrollment PROVE PlaceInv(e)'
  <2>1. IsActive(e) /\ SubscriberOf[e] \notin goneContacts' => LiveStep(CurrentStep(e))'
    BY DEF SeqInv, PlaceInv, LiveStep, CurrentStep, IsActive
  <2> QED  BY <2>1, PlaceStays DEF SeqInv
<1> QED  BY <1>1 DEF SeqInv

LEMMA RequestSteps ==
    ASSUME SeqInv, NEW r \in Request,
           \/ \E s \in Subscriber, kind \in {"subscribe", "unsubscribe"} : BeginRequest(r, kind, s)
           \/ SubscribeRefused(r)
    PROVE  SeqInv'
<1>1. SeqTyped /\ SeenInv
  BY DEF SeqInv
<1>2. UNCHANGED <<ladder, enrollment, seqRow, handling, runs, stopped, goneContacts>>
  BY DEF BeginRequest, SubscribeRefused, editVars, rowVars, pastVars
<1>3. PICK q \in AskedFor :
        /\ request' = [request EXCEPT ![r] = q]
        /\ q.seen # 0 => enrollment[q.seen].status # "none"
  <2>1. ASSUME NEW s \in Subscriber, NEW kind \in {"subscribe", "unsubscribe"}, BeginRequest(r, kind, s)
        PROVE  \E q \in AskedFor : /\ request' = [request EXCEPT ![r] = q]
                                   /\ q.seen # 0 => enrollment[q.seen].status # "none"
    <3>1. PICK seen \in IF ActiveOf(s) = {} THEN {0} ELSE ActiveOf(s) :
            request' = [request EXCEPT ![r] = [kind |-> kind, who |-> s, seen |-> seen]]
      BY <2>1 DEF BeginRequest
    <3>2. [kind |-> kind, who |-> s, seen |-> seen] \in AskedFor
      BY <3>1 DEF AskedFor, Asker, ActiveOf
    <3>3. seen # 0 => enrollment[seen].status # "none"
      BY <3>1 DEF ActiveOf, IsActive
    <3> QED  BY <3>1, <3>2, <3>3
  <2>2. CASE SubscribeRefused(r)
    <3>1. NoRequest \in AskedFor /\ NoRequest.seen = 0
      BY DEF NoRequest, AskedFor, Asker
    <3> QED  BY <2>2, <3>1 DEF SubscribeRefused, Saves
  <2> QED  BY <2>1, <2>2
<1>4. SeqTyped'
  BY <1>1, <1>2, <1>3 DEF SeqTyped
<1>5. SeenInv'
  BY <1>1, <1>2, <1>3 DEF SeenInv, SeqTyped
<1> QED  BY <1>2, <1>4, <1>5, QuietSteps

LEMMA UnsubscribeStep ==
    ASSUME SeqInv, NEW r \in Request, Unsubscribe(r)
    PROVE  SeqInv'
<1> DEFINE e == request[r].seen
<1>1. SeqTyped /\ SeenInv /\ (\A d \in Enrollment : PlaceInv(d))
  BY DEF SeqInv
<1>2. UNCHANGED <<ladder, handling, runs, goneContacts>> /\ request' = [request EXCEPT ![r] = NoRequest]
  BY DEF Unsubscribe, Saves, editVars
<1>3. NoRequest \in AskedFor /\ NoRequest.seen = 0
  BY DEF NoRequest, AskedFor, Asker
<1>4. CASE Vanished(e)
  <2>1. UNCHANGED <<enrollment, seqRow, stopped>>
    BY <1>4 DEF Unsubscribe
  <2>2. SeqTyped' /\ SeenInv'
    BY <1>1, <1>2, <1>3, <2>1 DEF SeqTyped, SeenInv
  <2> QED  BY <1>2, <2>1, <2>2, QuietSteps
<1>5. CASE ~Vanished(e)
  <2>1. /\ e \in Enrollment /\ enrollment[e].status \notin {"none", "deleted"} /\ ~Held(e)
        /\ enrollment' = Retired(e) /\ seqRow' = CancelledIn(seqRow, StepsOf(e))
        /\ stopped' = stopped \cup {e}
    BY <1>1, <1>5, SeqSets DEF Unsubscribe, Saves, Vanished, RowLocked, SeqTyped, SeenInv
  <2>2. SeqTyped'
    BY <1>1, <1>2, <1>3, <2>1, RowWrites, RetiredWrites DEF SeqTyped
  <2>3. SeenInv'
    BY <1>1, <1>2, <1>3, <2>1, RetiredWrites, SeqSets DEF SeqTyped, SeenInv
  <2>4. ASSUME NEW d \in Enrollment PROVE PlaceInv(d)'
    <3>1. CASE d = e
      BY <3>1, <1>1, <1>2, <2>1, <2>2, RowWrites, RetiredWrites, PlaceEnds, SeqSets DEF Held
    <3>2. CASE d # e
      <4>1. \A p \in 1..MaxSteps : seqRow'[<<d, p>>] = seqRow[<<d, p>>]
        BY <3>2, <1>1, <2>1, RowWrites, SeqSets DEF StepsOf
      <4>2. IsActive(d) /\ SubscriberOf[d] \notin goneContacts' => LiveStep(CurrentStep(d))'
        BY <3>2, <4>1, <1>1, <1>2, <2>1, RetiredWrites, SeqSets
        DEF PlaceInv, LiveStep, CurrentStep, IsActive, SeqTyped
      <4> QED  BY <3>2, <4>1, <4>2, <1>1, <1>2, <2>1, <2>2, RetiredWrites, PlaceStays
    <3> QED  BY <3>1, <3>2
  <2> QED  BY <2>2, <2>3, <2>4 DEF SeqInv
<1> QED  BY <1>4, <1>5

\* What makes a fresh enrollment, beside writes that leave it alone.
LEMMA FreshWrites ==
    ASSUME SeqTyped, NEW kept \in [Enrollment -> Place], NEW d \in Enrollment,
           kept[d].status = "none", NEW rows \in [StepKey -> RowStatus],
           MaxSteps = 0 \/ rows[<<d, 1>>] = "none"
    PROVE  /\ [kept EXCEPT ![d].status = FirstStatus] \in [Enrollment -> Place]
           /\ [kept EXCEPT ![d].status = FirstStatus][d].status = FirstStatus
           /\ [kept EXCEPT ![d].status = FirstStatus][d].current = kept[d].current
           /\ \A e \in Enrollment : e # d => [kept EXCEPT ![d].status = FirstStatus][e] = kept[e]
           /\ FirstStatus \in {"active", "completed"}
           /\ FirstStepIn(rows, d) \in [StepKey -> RowStatus]
           /\ FirstStatus = "active" => 1 <= MaxSteps /\ FirstStepIn(rows, d)[<<d, 1>>] = "pending"
           /\ \A e \in Enrollment, p \in 1..MaxSteps :
                e # d \/ p # 1 => FirstStepIn(rows, d)[<<e, p>>] = rows[<<e, p>>]
<1>1. kept[d] \in Place /\ FirstStatus \in {"active", "completed"}
  BY DEF FirstStatus
<1>2. /\ [kept[d] EXCEPT !.status = FirstStatus] \in Place
      /\ [kept[d] EXCEPT !.status = FirstStatus].status = FirstStatus
      /\ [kept[d] EXCEPT !.status = FirstStatus].current = kept[d].current
  BY <1>1 DEF Place, EnrollmentStatus
<1>3. [kept EXCEPT ![d].status = FirstStatus]
        = [kept EXCEPT ![d] = [kept[d] EXCEPT !.status = FirstStatus]]
  BY Zenon
<1>4. /\ [kept EXCEPT ![d].status = FirstStatus] \in [Enrollment -> Place]
      /\ [kept EXCEPT ![d].status = FirstStatus][d] = [kept[d] EXCEPT !.status = FirstStatus]
      /\ \A e \in Enrollment : e # d => [kept EXCEPT ![d].status = FirstStatus][e] = kept[e]
  BY <1>2, <1>3
<1>5. CASE ladder = 0
  BY <1>5, <1>1, <1>2, <1>4 DEF FirstStatus, FirstStepIn
<1>6. CASE ladder # 0
  <2>1. 1 \in 1..MaxSteps /\ <<d, 1>> \in StepKey
    BY <1>6, SeqSets DEF SeqTyped
  <2>2. FirstStepIn(rows, d) = Enqueued(rows, <<d, 1>>)
    BY <1>6 DEF FirstStepIn
  <2>3. rows[<<d, 1>>] = "none"
    BY <2>1, SeqSets
  <2>4. /\ FirstStepIn(rows, d) \in [StepKey -> RowStatus]
        /\ FirstStepIn(rows, d)[<<d, 1>>] = "pending"
        /\ \A j \in StepKey : j # <<d, 1>> => FirstStepIn(rows, d)[j] = rows[j]
    <3>1. /\ Enqueued(rows, <<d, 1>>) \in [StepKey -> RowStatus]
          /\ Enqueued(rows, <<d, 1>>)[<<d, 1>>] = "pending"
          /\ \A j \in StepKey : j # <<d, 1>> => Enqueued(rows, <<d, 1>>)[j] = rows[j]
      BY <2>1, <2>3 DEF Enqueued, RowStatus
    <3> QED  BY <2>2, <3>1, Zenon
  <2>5. \A e \in Enrollment, p \in 1..MaxSteps :
          e # d \/ p # 1 => FirstStepIn(rows, d)[<<e, p>>] = rows[<<e, p>>]
    BY <2>4, SeqSets
  <2> QED  BY <2>1, <2>4, <2>5, <1>1, <1>2, <1>4, SeqSets
<1> QED  BY <1>5, <1>6

LEMMA SubscribeStep ==
    ASSUME SeqInv, NEW r \in Request, Subscribe(r)
    PROVE  SeqInv'
<1> DEFINE old == request[r].seen
           kept == IF old = 0 THEN enrollment ELSE Retired(old)
           rows == IF old = 0 THEN seqRow ELSE CancelledIn(seqRow, StepsOf(old))
<1>1. SeqTyped /\ SeenInv /\ (\A d \in Enrollment : PlaceInv(d))
  BY DEF SeqInv
<1>2. /\ UNCHANGED <<ladder, handling, runs, stopped, goneContacts>>
      /\ request' = [request EXCEPT ![r] = NoRequest]
  BY DEF Subscribe, Saves, editVars, pastVars
<1>3. NoRequest \in AskedFor /\ NoRequest.seen = 0
  BY DEF NoRequest, AskedFor, Asker
<1>4. PICK d \in Enrollment :
        /\ enrollment[d].status = "none"
        /\ enrollment' = [kept EXCEPT ![d].status = FirstStatus]
        /\ seqRow' = FirstStepIn(rows, d)
  BY DEF Subscribe, Fresh
<1>5. old # 0 => old \in Enrollment /\ enrollment[old].status # "none" /\ ~Held(old)
  BY <1>1, SeqSets DEF Subscribe, Saves, RowLocked, SeqTyped, SeenInv
<1>6. /\ kept \in [Enrollment -> Place] /\ kept[d] = enrollment[d]
      /\ \A e \in Enrollment : e # old => kept[e] = enrollment[e]
      /\ old # 0 => kept[old].status = "unsubscribed" /\ kept[old].current = enrollment[old].current
  BY <1>1, <1>4, <1>5, RetiredWrites DEF SeqTyped
<1>7. /\ rows \in [StepKey -> RowStatus]
      /\ \A k \in StepKey : /\ k[1] # old => rows[k] = seqRow[k]
                            /\ seqRow[k] = "none" => rows[k] = "none"
  BY <1>1, <1>5, RowWrites DEF SeqTyped, StepsOf
<1>8. \A p \in 1..MaxSteps : seqRow[<<d, p>>] = "none" /\ rows[<<d, p>>] = "none"
  BY <1>1, <1>4, <1>7, SeqSets DEF PlaceInv
<1>9. MaxSteps = 0 \/ rows[<<d, 1>>] = "none"
  BY <1>8, SeqSets
<1>10. /\ enrollment' \in [Enrollment -> Place]
       /\ enrollment'[d].status = FirstStatus /\ enrollment'[d].current = enrollment[d].current
       /\ \A e \in Enrollment : e # d => enrollment'[e] = kept[e]
       /\ FirstStatus \in {"active", "completed"}
       /\ seqRow' \in [StepKey -> RowStatus]
       /\ FirstStatus = "active" => 1 <= MaxSteps /\ seqRow'[<<d, 1>>] = "pending"
       /\ \A e \in Enrollment, p \in 1..MaxSteps :
            e # d \/ p # 1 => seqRow'[<<e, p>>] = rows[<<e, p>>]
  <2> HIDE DEF kept, rows
  <2> QED  BY <1>1, <1>4, <1>6, <1>7, <1>9, FreshWrites
<1> HIDE DEF kept, rows, old
<1>11. SeqTyped'
  BY <1>1, <1>2, <1>3, <1>10 DEF SeqTyped
<1>12. SeenInv'
  <2>1. \A e \in Enrollment : enrollment[e].status # "none" => enrollment'[e].status # "none"
    BY <1>4, <1>5, <1>6, <1>10, SeqSets
  <2> QED  BY <2>1, <1>1, <1>2, <1>3, SeqSets DEF SeqTyped, SeenInv
<1>13. ASSUME NEW e \in Enrollment PROVE PlaceInv(e)'
  <2>1. CASE e = d
    <3>1. d \notin stopped' /\ handling'[d].at = handling[d].at
      BY <1>1, <1>2, <1>4 DEF PlaceInv
    <3>2. \A p \in 1..MaxSteps : /\ runs'[<<d, p>>] = runs[<<d, p>>]
                                 /\ p # 1 => seqRow'[<<d, p>>] = seqRow[<<d, p>>]
      BY <1>2, <1>8, <1>10
    <3> QED  BY <2>1, <3>1, <3>2, <1>1, <1>4, <1>10, <1>11, PlaceBegins
  <2>2. CASE e # d /\ e = old
    <3>1. /\ enrollment[e].status # "none" /\ handling'[e].at = 0 /\ enrollment'[e].status = "unsubscribed"
          /\ enrollment'[e].current = enrollment[e].current
      BY <2>2, <1>2, <1>5, <1>6, <1>10, SeqSets DEF Held
    <3>2. \A p \in 1..MaxSteps : /\ runs'[<<e, p>>] = runs[<<e, p>>]
                                 /\ seqRow[<<e, p>>] = "none" => seqRow'[<<e, p>>] = "none"
      BY <2>2, <1>2, <1>7, <1>10, SeqSets
    <3> QED  BY <3>1, <3>2, <1>1, <1>11, PlaceEnds
  <2>3. CASE e # d /\ e # old
    <3>1. enrollment'[e] = enrollment[e]
      BY <2>3, <1>6, <1>10
    <3>2. \A p \in 1..MaxSteps : seqRow'[<<e, p>>] = seqRow[<<e, p>>]
      BY <2>3, <1>7, <1>10, SeqSets
    <3>3. IsActive(e) /\ SubscriberOf[e] \notin goneContacts' => LiveStep(CurrentStep(e))'
      BY <3>1, <3>2, <1>1, <1>2, SeqSets DEF PlaceInv, LiveStep, CurrentStep, IsActive, SeqTyped
    <3> QED  BY <3>1, <3>2, <3>3, <1>1, <1>2, <1>11, PlaceStays
  <2> QED  BY <2>1, <2>2, <2>3
<1> QED  BY <1>11, <1>12, <1>13 DEF SeqInv

LEMMA EditsHold ==
    ASSUME SeqInv,
           \/ \E s \in Subscriber : DeleteContact(s)
           \/ \E status \in {"draft", "active", "archived"} : SetStatus(status)
           \/ \E n \in 0..MaxSteps : EditSteps(n)
    PROVE  SeqInv'
<1>1. SeqTyped /\ SeenInv /\ (\A d \in Enrollment : PlaceInv(d))
  BY DEF SeqInv
<1>2. ASSUME NEW s \in Subscriber, DeleteContact(s) PROVE SeqInv'
  <2>1. /\ UNCHANGED <<ladder, enrollment, handling, request, runs, stopped>>
        /\ goneContacts' = goneContacts \cup {s}
        /\ seqRow' = CancelledIn(seqRow, {k \in StepKey : SubscriberOf[k[1]] = s})
    BY <1>2 DEF DeleteContact, editVars, pastVars
  <2>2. SeqTyped' /\ SeenInv'
    BY <1>1, <2>1, RowWrites DEF SeqTyped, SeenInv
  <2>3. ASSUME NEW e \in Enrollment PROVE PlaceInv(e)'
    <3>1. \A p \in 1..MaxSteps : /\ seqRow[<<e, p>>] = "none" => seqRow'[<<e, p>>] = "none"
                                 /\ SubscriberOf[e] # s => seqRow'[<<e, p>>] = seqRow[<<e, p>>]
      BY <1>1, <2>1, RowWrites, SeqSets
    <3>2. ASSUME IsActive(e), SubscriberOf[e] \notin goneContacts' PROVE LiveStep(CurrentStep(e))'
      <4>1. SubscriberOf[e] # s /\ SubscriberOf[e] \notin goneContacts
        BY <3>2, <2>1
      <4>2. enrollment[e].current \in 1..MaxSteps /\ LiveStep(CurrentStep(e))
        BY <3>2, <4>1, <1>1, CurrentPlace DEF PlaceInv
      <4> QED  BY <3>1, <4>1, <4>2, <2>1 DEF LiveStep, CurrentStep
    <3> QED  BY <3>1, <3>2, <1>1, <2>1, <2>2, PlaceStays
  <2> QED  BY <2>2, <2>3 DEF SeqInv
<1>3. ASSUME NEW status, SetStatus(status) PROVE SeqInv'
  <2>1. UNCHANGED <<ladder, enrollment, seqRow, handling, request, runs, stopped, goneContacts>>
    BY <1>3 DEF SetStatus, rowVars, pastVars
  <2>2. SeqTyped' /\ SeenInv'
    BY <1>1, <2>1 DEF SeqTyped, SeenInv
  <2> QED  BY <2>1, <2>2, QuietSteps
<1>4. ASSUME NEW n \in 0..MaxSteps, EditSteps(n) PROVE SeqInv'
  <2>1. UNCHANGED <<enrollment, seqRow, handling, request, runs, stopped, goneContacts>> /\ ladder' = n
    BY <1>4 DEF EditSteps, rowVars, pastVars
  <2>2. SeqTyped' /\ SeenInv'
    BY <1>1, <2>1 DEF SeqTyped, SeenInv
  <2> QED  BY <2>1, <2>2, QuietSteps
<1> QED  BY <1>2, <1>3, <1>4

\* An action that retires one enrollment, whose steps nobody runs.
LEMMA RetireOne ==
    ASSUME SeqInv, NEW e \in Enrollment, enrollment[e].status # "none", ~Held(e),
           UNCHANGED <<ladder, handling, request, runs, stopped, goneContacts>>,
           enrollment' = Retired(e), seqRow' \in [StepKey -> RowStatus],
           \A k \in StepKey : /\ k[1] # e => seqRow'[k] = seqRow[k]
                              /\ seqRow[k] = "none" => seqRow'[k] = "none"
    PROVE  SeqInv'
<1>1. SeqTyped /\ SeenInv /\ (\A d \in Enrollment : PlaceInv(d))
  BY DEF SeqInv
<1>2. SeqTyped'
  BY <1>1, RetiredWrites DEF SeqTyped
<1>3. SeenInv'
  <2>1. \A d \in Enrollment : enrollment[d].status # "none" => enrollment'[d].status # "none"
    BY <1>1, RetiredWrites
  <2> QED  BY <2>1, <1>1, SeqSets DEF SeqTyped, SeenInv
<1>4. ASSUME NEW d \in Enrollment PROVE PlaceInv(d)'
  <2>1. \A p \in 1..MaxSteps : /\ runs'[<<d, p>>] = runs[<<d, p>>]
                               /\ d # e => seqRow'[<<d, p>>] = seqRow[<<d, p>>]
                               /\ seqRow[<<d, p>>] = "none" => seqRow'[<<d, p>>] = "none"
    BY SeqSets
  <2>2. CASE d = e
    BY <2>1, <2>2, <1>1, <1>2, RetiredWrites, PlaceEnds DEF Held
  <2>3. CASE d # e
    <3>1. enrollment'[d] = enrollment[d]
      BY <2>3, <1>1, RetiredWrites
    <3>2. IsActive(d) /\ SubscriberOf[d] \notin goneContacts' => LiveStep(CurrentStep(d))'
      BY <2>1, <2>3, <3>1, <1>1, CurrentPlace DEF PlaceInv, LiveStep, CurrentStep
    <3> QED  BY <2>1, <2>3, <3>1, <3>2, <1>1, <1>2, PlaceStays
  <2> QED  BY <2>2, <2>3
<1> QED  BY <1>2, <1>3, <1>4 DEF SeqInv

\* An action that writes rows only: none of them goes back to "none", and the row
\* of a step that goes on stays live.
LEMMA RowsOnly ==
    ASSUME SeqInv, UNCHANGED <<ladder, enrollment, request, runs, stopped, goneContacts>>,
           handling' \in [Enrollment -> Handler],
           \A e \in Enrollment : handling'[e].at \in {0, handling[e].at},
           seqRow' \in [StepKey -> RowStatus],
           \A k \in StepKey : /\ k[2] # enrollment[k[1]].current /\ seqRow[k] = "none" => seqRow'[k] = "none"
                              /\ enrollment[k[1]].status = "none" => seqRow'[k] = seqRow[k]
                              /\ IsActive(k[1]) /\ k = CurrentStep(k[1])
                                   => seqRow'[k] = seqRow[k] \/ LiveStep(k)'
    PROVE  SeqInv'
<1>1. SeqTyped /\ SeenInv /\ (\A d \in Enrollment : PlaceInv(d))
  BY DEF SeqInv
<1>2. SeqTyped' /\ SeenInv'
  BY <1>1 DEF SeqTyped, SeenInv
<1>3. ASSUME NEW e \in Enrollment PROVE PlaceInv(e)'
  <2>1. \A p \in 1..MaxSteps :
           /\ p # enrollment[e].current /\ seqRow[<<e, p>>] = "none" => seqRow'[<<e, p>>] = "none"
           /\ enrollment[e].status = "none" => seqRow'[<<e, p>>] = seqRow[<<e, p>>]
           /\ runs'[<<e, p>>] = runs[<<e, p>>]
    BY SeqSets
  <2>2. ASSUME IsActive(e), SubscriberOf[e] \notin goneContacts PROVE LiveStep(CurrentStep(e))'
    <3>1. enrollment[e].current \in 1..MaxSteps /\ LiveStep(CurrentStep(e))
      BY <2>2, <1>1, CurrentPlace DEF PlaceInv
    <3>2. CurrentStep(e) \in StepKey /\ CurrentStep(e)[1] = e
      BY <3>1, SeqSets DEF CurrentStep
    <3>3. seqRow'[CurrentStep(e)] = seqRow[CurrentStep(e)] \/ LiveStep(CurrentStep(e))'
      BY <2>2, <3>2 DEF LiveStep, CurrentStep
    <3> QED  BY <3>1, <3>3 DEF LiveStep, CurrentStep
  <2>3. enrollment[e].current \in Nat
    BY <1>1, SeqSets DEF SeqTyped
  <2>4. \A p \in 1..MaxSteps :
         /\ p > enrollment[e].current \/ enrollment[e].status = "none" => seqRow'[<<e, p>>] = "none"
         /\ runs'[<<e, p>>] = 0 \/ (runs'[<<e, p>>] = 1 /\ p < enrollment[e].current)
    BY <2>1, <2>3, <1>1 DEF PlaceInv
  <2> QED  BY <2>2, <2>4, <1>1, SeqSets DEF PlaceInv, Held, IsActive
<1> QED  BY <1>2, <1>3 DEF SeqInv

\* An action that moves one enrollment on, and may make another.
LEMMA MoveOne ==
    ASSUME SeqInv, NEW e \in Enrollment, Held(e),
           UNCHANGED <<ladder, request, stopped, goneContacts>>,
           handling' = [handling EXCEPT ![e] = NoHandler],
           SeqTyped', enrollment'[e].current = MovedOn(e),
           enrollment'[e].status \in {"active", "completed"},
           IsActive(e)' => MovedOn(e) <= MaxSteps /\ seqRow'[<<e, MovedOn(e)>>] = "pending",
           runs' \in {runs, [runs EXCEPT ![<<e, handling[e].at>>] = @ + 1]},
           \A p \in 1..MaxSteps : p > MovedOn(e) => seqRow'[<<e, p>>] = seqRow[<<e, p>>],
           \A d \in Enrollment : d # e =>
             \/ /\ enrollment'[d] = enrollment[d]
                /\ \A p \in 1..MaxSteps : seqRow'[<<d, p>>] = seqRow[<<d, p>>]
             \/ /\ enrollment[d].status = "none" /\ enrollment'[d].status \in {"active", "completed"}
                /\ enrollment'[d].current = enrollment[d].current
                /\ enrollment'[d].status = "active" => 1 <= MaxSteps /\ seqRow'[<<d, 1>>] = "pending"
                /\ \A p \in 1..MaxSteps : p # 1 => seqRow'[<<d, p>>] = seqRow[<<d, p>>]
    PROVE  SeqInv'
<1>1. SeqTyped /\ SeenInv /\ (\A d \in Enrollment : PlaceInv(d))
  BY DEF SeqInv
<1>2. SeenInv'
  <2>1. \A d \in Enrollment : enrollment[d].status # "none" => enrollment'[d].status # "none"
    OBVIOUS
  <2> QED  BY <2>1, <1>1, SeqSets DEF SeqTyped, SeenInv
<1>3. /\ handling'[e] = NoHandler /\ ~Held(e)'
      /\ \A d \in Enrollment : d # e => handling'[d] = handling[d]
  BY <1>1, SeqSets DEF SeqTyped, Held
<1>4. handling[e].at \in 1..MaxSteps
  BY <1>1, CurrentPlace
<1>5. \A p \in 1..MaxSteps :
        \/ runs'[<<e, p>>] = runs[<<e, p>>]
        \/ p = handling[e].at /\ runs'[<<e, p>>] = runs[<<e, p>>] + 1
  <2> SUFFICES ASSUME NEW p \in 1..MaxSteps
               PROVE  \/ runs'[<<e, p>>] = runs[<<e, p>>]
                      \/ p = handling[e].at /\ runs'[<<e, p>>] = runs[<<e, p>>] + 1
    OBVIOUS
  <2>1. runs \in [StepKey -> Nat] /\ <<e, p>> \in StepKey /\ <<e, handling[e].at>> \in StepKey
    BY <1>1, <1>4, SeqSets DEF SeqTyped
  <2>2. CASE p = handling[e].at
    BY <2>1, <2>2
  <2>3. CASE p # handling[e].at
    <3>1. <<e, p>> # <<e, handling[e].at>>
      BY <2>3
    <3> QED  BY <2>1, <3>1
  <2> QED  BY <2>2, <2>3
<1>6. ASSUME NEW d \in Enrollment, d # e, NEW p \in 1..MaxSteps
      PROVE  runs'[<<d, p>>] = runs[<<d, p>>]
  <2>1. <<d, p>> \in StepKey /\ <<d, p>> # <<e, handling[e].at>>
    BY <1>6, SeqSets
  <2> QED  BY <2>1, <1>1 DEF SeqTyped
<1>7. PlaceInv(e)'
  BY <1>1, <1>3, <1>5, PlaceMoves
<1>8. ASSUME NEW d \in Enrollment, d # e PROVE PlaceInv(d)'
  <2>1. CASE /\ enrollment'[d] = enrollment[d]
             /\ \A p \in 1..MaxSteps : seqRow'[<<d, p>>] = seqRow[<<d, p>>]
    <3>1. IsActive(d) /\ SubscriberOf[d] \notin goneContacts' => LiveStep(CurrentStep(d))'
      BY <2>1, <1>1, CurrentPlace DEF PlaceInv, LiveStep, CurrentStep
    <3> QED  BY <2>1, <3>1, <1>1, <1>3, <1>6, <1>8, PlaceStays
  <2>2. CASE /\ enrollment[d].status = "none" /\ enrollment'[d].status \in {"active", "completed"}
             /\ enrollment'[d].current = enrollment[d].current
             /\ enrollment'[d].status = "active" => 1 <= MaxSteps /\ seqRow'[<<d, 1>>] = "pending"
             /\ \A p \in 1..MaxSteps : p # 1 => seqRow'[<<d, p>>] = seqRow[<<d, p>>]
    <3>1. d \notin stopped' /\ handling'[d].at = handling[d].at
      BY <2>2, <1>1, <1>3, <1>8 DEF PlaceInv
    <3>2. \A p \in 1..MaxSteps : /\ runs'[<<d, p>>] = runs[<<d, p>>]
                                 /\ p # 1 => seqRow'[<<d, p>>] = seqRow[<<d, p>>]
      BY <2>2, <1>6, <1>8
    <3> QED  BY <2>2, <3>1, <3>2, <1>1, PlaceBegins
  <2> QED  BY <2>1, <2>2, <1>8
<1> QED  BY <1>2, <1>7, <1>8 DEF SeqInv

LEMMA SequenceEnds == ASSUME SeqInv, DeleteSequence PROVE SeqInv'
<1>1. SeqTyped /\ SeenInv /\ (\A d \in Enrollment : PlaceInv(d))
  BY DEF SeqInv
<1>2. /\ UNCHANGED <<ladder, handling, request, runs, stopped, goneContacts>>
      /\ \A e \in Enrollment : ~Held(e)
      /\ seqRow' = CancelledIn(seqRow, {k \in StepKey : IsActive(k[1])})
  BY DEF DeleteSequence, pastVars
<1>3. \A e \in Enrollment : enrollment[e] \in Place
  BY <1>1 DEF SeqTyped
<1>4. /\ enrollment' \in [Enrollment -> Place]
      /\ \A e \in Enrollment :
           /\ enrollment[e].status = "none" => enrollment'[e] = enrollment[e]
           /\ enrollment[e].status # "none" => /\ enrollment'[e].status = "deleted"
                                               /\ enrollment'[e].current = enrollment[e].current
  BY <1>3 DEF DeleteSequence, Place, EnrollmentStatus
<1>5. SeqTyped'
  BY <1>1, <1>2, <1>4, RowWrites DEF SeqTyped
<1>6. SeenInv'
  BY <1>1, <1>2, <1>4, SeqSets DEF SeqTyped, SeenInv
<1>7. ASSUME NEW e \in Enrollment PROVE PlaceInv(e)'
  <2>1. \A p \in 1..MaxSteps : /\ runs'[<<e, p>>] = runs[<<e, p>>]
                               /\ seqRow[<<e, p>>] = "none" => seqRow'[<<e, p>>] = "none"
    BY <1>1, <1>2, RowWrites, SeqSets
  <2>2. CASE enrollment[e].status = "none"
    BY <2>1, <2>2, <1>1, <1>2, <1>4, <1>5, PlaceStays DEF IsActive
  <2>3. CASE enrollment[e].status # "none"
    BY <2>1, <2>3, <1>1, <1>2, <1>4, <1>5, PlaceEnds DEF Held
  <2> QED  BY <2>2, <2>3
<1> QED  BY <1>5, <1>6, <1>7 DEF SeqInv

LEMMA WorkHolds == ASSUME SeqInv, NEW k \in StepKey, Work(k) PROVE SeqInv'
<1>1. SeqTyped /\ SeenInv /\ (\A d \in Enrollment : PlaceInv(d))
  BY DEF SeqInv
<1>2. k[1] \in Enrollment /\ k[2] \in 1..MaxSteps /\ k = <<k[1], k[2]>>
  BY SeqSets
<1>3. ASSUME seqRow[k] # "none" PROVE enrollment[k[1]].status # "none"
  BY <1>1, <1>2, <1>3 DEF PlaceInv
<1>4. CASE TakeStep(k)
  <2>1. /\ UNCHANGED <<ladder, enrollment, handling, request, runs, stopped, goneContacts>>
        /\ seqRow[k] = "pending" /\ seqRow' = [seqRow EXCEPT ![k] = "claimed"]
    BY <1>4 DEF TakeStep, editVars, pastVars
  <2>2. /\ seqRow' \in [StepKey -> RowStatus] /\ seqRow'[k] = "claimed"
        /\ \A j \in StepKey : j # k => seqRow'[j] = seqRow[j]
    BY <2>1, <1>1 DEF SeqTyped, RowStatus
  <2> QED  BY <2>1, <2>2, <1>1, <1>3, RowsOnly DEF SeqTyped, LiveStep
<1>5. CASE BeginStep(k)
  <2> DEFINE h == [at |-> k[2], starts |-> k[2] <= ladder, verb |-> "no"]
  <2>1. /\ UNCHANGED <<ladder, enrollment, seqRow, request, runs, stopped, goneContacts>>
        /\ IsActive(k[1]) /\ k = CurrentStep(k[1]) /\ handling' = [handling EXCEPT ![k[1]] = h]
    BY <1>5 DEF BeginStep, OnTurn, editVars, rowVars, pastVars
  <2>2. h \in Handler /\ h.at = k[2]
    BY <1>2, SeqSets DEF Handler
  <2>3. /\ handling' \in [Enrollment -> Handler] /\ handling'[k[1]].at = k[2]
        /\ \A d \in Enrollment : d # k[1] => handling'[d] = handling[d]
    <3> HIDE DEF h
    <3> QED  BY <2>1, <2>2, <1>1, <1>2 DEF SeqTyped
  <2> HIDE DEF h
  <2>4. SeqTyped' /\ SeenInv'
    BY <2>1, <2>3, <1>1 DEF SeqTyped, SeenInv
  <2>5. k[2] = enrollment[k[1]].current
    BY <2>1, <1>2 DEF CurrentStep
  <2>6. ASSUME NEW d \in Enrollment PROVE PlaceInv(d)'
    BY <1>1, <1>2, <2>1, <2>3, <2>5, SeqSets DEF PlaceInv, Held, IsActive, LiveStep, CurrentStep
  <2> QED  BY <2>4, <2>6 DEF SeqInv
<1>6. CASE DropStep(k)
  <2>1. /\ UNCHANGED <<ladder, enrollment, handling, request, runs, stopped, goneContacts>>
        /\ seqRow[k] = "claimed" /\ seqRow' \in RowDone(seqRow, k) /\ ~OnTurn(k)
    BY <1>6 DEF DropStep, Handles, editVars, pastVars
  <2>2. /\ seqRow' \in [StepKey -> RowStatus] /\ seqRow'[k] # "none"
        /\ \A j \in StepKey : j # k => seqRow'[j] = seqRow[j]
    BY <2>1, <1>1 DEF SeqTyped, RowStatus, RowDone
  <2> QED  BY <2>1, <2>2, <1>1, <1>3, RowsOnly DEF SeqTyped, OnTurn
<1>7. CASE RetireStep(k)
  <2>1. /\ UNCHANGED <<ladder, handling, request, runs, stopped, goneContacts>>
        /\ seqRow[k] = "claimed" /\ enrollment' = Retired(k[1]) /\ ~Held(k[1])
        /\ seqRow' \in RowDone(CancelledIn(seqRow, StepsOf(k[1])), k)
    BY <1>7, <1>2 DEF RetireStep, Handles, ContactBusy, Held, editVars, pastVars
  <2>2. /\ CancelledIn(seqRow, StepsOf(k[1])) \in [StepKey -> RowStatus]
        /\ \A j \in StepKey :
             /\ j[1] # k[1] => CancelledIn(seqRow, StepsOf(k[1]))[j] = seqRow[j]
             /\ seqRow[j] = "none" => CancelledIn(seqRow, StepsOf(k[1]))[j] = "none"
    BY <1>1, RowWrites DEF StepsOf
  <2>3. /\ seqRow' \in [StepKey -> RowStatus]
        /\ \A j \in StepKey : j # k => seqRow'[j] = CancelledIn(seqRow, StepsOf(k[1]))[j]
    BY <2>1, <2>2, <1>1, RowWrites
  <2>4. \A j \in StepKey : /\ j[1] # k[1] => seqRow'[j] = seqRow[j]
                           /\ seqRow[j] = "none" => seqRow'[j] = "none"
    BY <2>1, <2>2, <2>3
  <2> QED  BY <2>1, <2>3, <2>4, <1>2, <1>3, RetireOne
<1> QED  BY <1>4, <1>5, <1>6, <1>7 DEF Work

LEMMA FlowVerbsHold ==
    ASSUME SeqInv, NEW e \in Enrollment, FlowUnsubscribes(e) \/ FlowResubscribes(e)
    PROVE  SeqInv'
<1>1. SeqTyped /\ SeenInv
  BY DEF SeqInv
<1>2. UNCHANGED <<ladder, enrollment, seqRow, request, runs, stopped, goneContacts>>
  BY DEF FlowUnsubscribes, FlowResubscribes, editVars, rowVars, pastVars
<1>3. PICK verb \in {"unsubscribed", "resubscribed"} :
        handling' = [handling EXCEPT ![e].verb = verb]
  BY DEF FlowUnsubscribes, FlowResubscribes
<1>4. handling' = [handling EXCEPT ![e] = [handling[e] EXCEPT !.verb = verb]]
  BY <1>3, Zenon
<1>5. handling[e] \in Handler
  BY <1>1 DEF SeqTyped
<1>6. /\ [handling[e] EXCEPT !.verb = verb] \in Handler
      /\ [handling[e] EXCEPT !.verb = verb].at = handling[e].at
  BY <1>5 DEF Handler
<1>7. /\ handling' \in [Enrollment -> Handler]
      /\ \A d \in Enrollment : handling'[d].at = handling[d].at
  BY <1>1, <1>4, <1>6 DEF SeqTyped
<1>8. SeqTyped' /\ SeenInv'
  BY <1>1, <1>2, <1>7 DEF SeqTyped, SeenInv
<1> QED  BY <1>2, <1>7, <1>8, QuietSteps

LEMMA SweepHolds == ASSUME SeqInv, NEW e \in Enrollment, SweepEnrollment(e) PROVE SeqInv'
<1>1. SeqTyped /\ SeenInv /\ (\A d \in Enrollment : PlaceInv(d))
  BY DEF SeqInv
<1>2. /\ UNCHANGED <<ladder, handling, request, runs, stopped, goneContacts>>
      /\ IsActive(e) /\ ~Held(e)
  BY DEF SweepEnrollment, editVars, pastVars
<1>3. CASE RetireIfContactGone(e)
  <2>1. enrollment' = Retired(e) /\ seqRow' = CancelledIn(seqRow, StepsOf(e))
    BY <1>3 DEF SweepEnrollment
  <2>2. /\ seqRow' \in [StepKey -> RowStatus]
        /\ \A k \in StepKey : /\ k[1] # e => seqRow'[k] = seqRow[k]
                              /\ seqRow[k] = "none" => seqRow'[k] = "none"
    BY <2>1, <1>1, RowWrites DEF StepsOf
  <2> QED  BY <2>1, <2>2, <1>2, RetireOne DEF IsActive
<1>4. CASE ~RetireIfContactGone(e)
  <2>1. seqRow' = Enqueued(seqRow, CurrentStep(e)) /\ UNCHANGED enrollment
    BY <1>4 DEF SweepEnrollment
  <2>2. CurrentStep(e) \in StepKey /\ CurrentStep(e)[1] = e /\ CurrentStep(e)[2] = enrollment[e].current
    BY <1>1, <1>2, CurrentPlace, SeqSets DEF CurrentStep
  <2>3. SubscriberOf[e] \notin goneContacts
    BY <1>4 DEF RetireIfContactGone
  <2>4. seqRow[CurrentStep(e)] # "none"
    BY <2>3, <1>1, <1>2 DEF PlaceInv, LiveStep
  <2>5. seqRow \in [StepKey -> RowStatus]
    BY <1>1 DEF SeqTyped
  <2>6. seqRow' = seqRow
    BY <2>1, <2>2, <2>4, <2>5 DEF Enqueued
  <2> QED  BY <2>1, <2>6, <1>1, <1>2, QuietSteps DEF SeqTyped, SeenInv
<1> QED  BY <1>3, <1>4

LEMMA RollBackHolds == ASSUME SeqInv, NEW e \in Enrollment, RollBackStep(e) PROVE SeqInv'
<1> DEFINE key == <<e, handling[e].at>>
<1>1. SeqTyped /\ SeenInv /\ (\A d \in Enrollment : PlaceInv(d))
  BY DEF SeqInv
<1>2. /\ UNCHANGED <<ladder, enrollment, request, runs, stopped, goneContacts>>
      /\ Held(e) /\ handling' = [handling EXCEPT ![e] = NoHandler]
      /\ \E status \in {"pending", "failed"} : seqRow' = [seqRow EXCEPT ![key] = status]
  BY DEF RollBackStep, editVars, pastVars
<1>3. /\ handling' \in [Enrollment -> Handler]
      /\ \A d \in Enrollment : handling'[d].at \in {0, handling[d].at}
  BY <1>1, <1>2, SeqSets DEF SeqTyped
<1>4. key \in StepKey /\ key[1] = e /\ key[2] = enrollment[e].current /\ enrollment[e].status = "active"
  BY <1>1, <1>2, CurrentPlace, SeqSets
<1> HIDE DEF key
<1>5. /\ seqRow' \in [StepKey -> RowStatus] /\ seqRow'[key] \in {"pending", "failed"}
      /\ \A k \in StepKey : k # key => seqRow'[k] = seqRow[k]
  BY <1>1, <1>2, <1>4 DEF SeqTyped, RowStatus
<1> QED  BY <1>1, <1>2, <1>3, <1>4, <1>5, RowsOnly DEF LiveStep

LEMMA FinishHolds ==
    ASSUME SeqInv, NEW e \in Enrollment, FinishStep(e) \/ FinishResubscribed(e)
    PROVE  SeqInv'
<1> DEFINE key == <<e, handling[e].at>>
           next == MovedOn(e)
<1>1. SeqTyped /\ SeenInv /\ (\A d \in Enrollment : PlaceInv(d))
  BY DEF SeqInv
<1>2. /\ UNCHANGED <<ladder, request, stopped, goneContacts>> /\ Held(e)
      /\ handling' = [handling EXCEPT ![e] = NoHandler]
      /\ runs' \in {runs, [runs EXCEPT ![key] = @ + 1]}
  BY DEF FinishStep, FinishResubscribed, editVars
<1>3. /\ key \in StepKey /\ enrollment[e].status = "active"
      /\ handling[e].at \in 1..MaxSteps /\ handling[e].at = enrollment[e].current
      /\ next = handling[e].at + 1 /\ next \in 1..(MaxSteps + 1)
  BY <1>1, <1>2, CurrentPlace, SeqSets DEF MovedOn
<1>4. /\ handling' \in [Enrollment -> Handler] /\ runs' \in [StepKey -> Nat]
  <2>1. handling \in [Enrollment -> Handler] /\ runs \in [StepKey -> Nat] /\ NoHandler \in Handler
    BY <1>1, SeqSets DEF SeqTyped
  <2>2. runs[key] + 1 \in Nat
    BY <1>3, <2>1
  <2>3. [runs EXCEPT ![key] = @ + 1] \in [StepKey -> Nat]
    <3> HIDE DEF key
    <3> QED  BY <2>1, <2>2
  <2> QED  BY <1>2, <2>1, <2>3
<1>5. \A rows \in RowDone(seqRow, key) :
        /\ rows \in [StepKey -> RowStatus]
        /\ \A k \in StepKey : k # key => rows[k] = seqRow[k]
  BY <1>1, <1>3, RowWrites DEF SeqTyped
<1>6. /\ [status |-> "active", current |-> next] \in Place
      /\ [status |-> "completed", current |-> next] \in Place
  BY <1>3 DEF Place, Position, EnrollmentStatus
<1>7. CASE FinishStep(e)
  <2>1. PICK rows \in RowDone(seqRow, key) :
          seqRow' = IF next <= ladder THEN Enqueued(rows, <<e, next>>) ELSE rows
    BY <1>7 DEF FinishStep
  <2>2. enrollment' = [enrollment EXCEPT ![e] =
                         [status |-> IF next <= ladder THEN "active" ELSE "completed", current |-> next]]
    BY <1>7 DEF FinishStep
  <2>3. /\ enrollment' \in [Enrollment -> Place] /\ enrollment'[e].current = next
        /\ enrollment'[e].status = IF next <= ladder THEN "active" ELSE "completed"
        /\ \A d \in Enrollment : d # e => enrollment'[d] = enrollment[d]
    BY <2>2, <1>1, <1>6 DEF SeqTyped
  <2> HIDE DEF key, next
  <2>4. ASSUME next <= ladder
        PROVE  /\ seqRow' \in [StepKey -> RowStatus] /\ next <= MaxSteps
               /\ seqRow'[<<e, next>>] = "pending"
               /\ \A k \in StepKey : k # key /\ k # <<e, next>> => seqRow'[k] = seqRow[k]
    <3>1. next \in 1..MaxSteps /\ next > enrollment[e].current /\ <<e, next>> \in StepKey
      BY <2>4, <1>1, <1>3, SeqSets DEF SeqTyped
    <3>2. seqRow[<<e, next>>] = "none" /\ <<e, next>> # key
      BY <3>1, <1>1, <1>3 DEF PlaceInv, key
    <3>3. rows[<<e, next>>] = "none" /\ rows \in [StepKey -> RowStatus]
      BY <3>1, <3>2, <1>5
    <3>4. seqRow' = Enqueued(rows, <<e, next>>)
      BY <2>1, <2>4
    <3> QED  BY <3>1, <3>2, <3>3, <3>4, <1>5 DEF Enqueued, RowStatus
  <2>5. next > ladder => seqRow' = rows
    BY <2>1, <1>1, <1>3, SeqSets DEF SeqTyped
  <2>6. seqRow' \in [StepKey -> RowStatus]
    BY <2>4, <2>5, <1>1, <1>3, <1>5, SeqSets DEF SeqTyped
  <2>7. \A k \in StepKey : k # key /\ k # <<e, next>> => seqRow'[k] = seqRow[k]
    BY <2>4, <2>5, <1>1, <1>3, <1>5, SeqSets DEF SeqTyped
  <2>8. SeqTyped'
    BY <1>1, <1>2, <1>4, <2>3, <2>6 DEF SeqTyped
  <2>9. \A p \in 1..MaxSteps : p > next => seqRow'[<<e, p>>] = seqRow[<<e, p>>]
    BY <2>7, <1>3, SeqSets DEF key
  <2>10. \A d \in Enrollment, p \in 1..MaxSteps : d # e => seqRow'[<<d, p>>] = seqRow[<<d, p>>]
    BY <2>7, SeqSets DEF key
  <2>11. IsActive(e)' => next <= MaxSteps /\ seqRow'[<<e, next>>] = "pending"
    BY <2>3, <2>4 DEF IsActive
  <2>12. enrollment'[e].status \in {"active", "completed"}
    BY <2>3
  <2> QED  BY <2>3, <2>8, <2>9, <2>10, <2>11, <2>12, <1>2, MoveOne DEF key, next
<1>8. CASE FinishResubscribed(e)
  <2> DEFINE moved == [enrollment EXCEPT ![e] = [status |-> "completed", current |-> next]]
  <2>1. PICK d \in Enrollment, rows \in RowDone(seqRow, key) :
          /\ enrollment[d].status = "none"
          /\ enrollment' = [enrollment EXCEPT ![e] = [status |-> "completed", current |-> next],
                                              ![d].status = FirstStatus]
          /\ seqRow' = FirstStepIn(rows, d)
    BY <1>8 DEF FinishResubscribed, Fresh
  <2>2. enrollment' = [moved EXCEPT ![d].status = FirstStatus]
    BY <2>1
  <2>3. /\ moved \in [Enrollment -> Place] /\ moved[e] = [status |-> "completed", current |-> next]
        /\ \A c \in Enrollment : c # e => moved[c] = enrollment[c]
    BY <1>1, <1>6 DEF SeqTyped
  <2>4. d # e /\ moved[d] = enrollment[d] /\ moved[d].status = "none"
    BY <2>1, <2>3, <1>3
  <2> HIDE DEF moved, key, next
  <2>5. rows \in [StepKey -> RowStatus] /\ (\A k \in StepKey : k # key => rows[k] = seqRow[k])
    BY <2>1, <1>5
  <2>6. \A c \in Enrollment, p \in 1..MaxSteps : c # e => rows[<<c, p>>] = seqRow[<<c, p>>]
    BY <2>5, SeqSets DEF key
  <2>7. MaxSteps = 0 \/ rows[<<d, 1>>] = "none"
    BY <2>1, <2>4, <2>6, <1>1, SeqSets DEF PlaceInv
  <2>8. /\ enrollment' \in [Enrollment -> Place]
        /\ enrollment'[d].status = FirstStatus /\ enrollment'[d].current = moved[d].current
        /\ \A c \in Enrollment : c # d => enrollment'[c] = moved[c]
        /\ FirstStatus \in {"active", "completed"}
        /\ seqRow' \in [StepKey -> RowStatus]
        /\ FirstStatus = "active" => 1 <= MaxSteps /\ seqRow'[<<d, 1>>] = "pending"
        /\ \A c \in Enrollment, p \in 1..MaxSteps :
             c # d \/ p # 1 => seqRow'[<<c, p>>] = rows[<<c, p>>]
    BY <2>1, <2>2, <2>3, <2>4, <2>5, <2>7, <1>1, FreshWrites
  <2>9. SeqTyped'
    BY <1>1, <1>2, <1>4, <2>8 DEF SeqTyped
  <2>10. /\ enrollment'[e].current = next /\ enrollment'[e].status = "completed"
    BY <2>3, <2>4, <2>8
  <2>11. \A p \in 1..MaxSteps : p > next => seqRow'[<<e, p>>] = seqRow[<<e, p>>]
    BY <2>4, <2>5, <2>8, <1>3, SeqSets DEF key
  <2>12. ASSUME NEW c \in Enrollment, c # e
         PROVE  \/ /\ enrollment'[c] = enrollment[c]
                   /\ \A p \in 1..MaxSteps : seqRow'[<<c, p>>] = seqRow[<<c, p>>]
                \/ /\ enrollment[c].status = "none" /\ enrollment'[c].status \in {"active", "completed"}
                   /\ enrollment'[c].current = enrollment[c].current
                   /\ enrollment'[c].status = "active" => 1 <= MaxSteps /\ seqRow'[<<c, 1>>] = "pending"
                   /\ \A p \in 1..MaxSteps : p # 1 => seqRow'[<<c, p>>] = seqRow[<<c, p>>]
    BY <2>1, <2>3, <2>4, <2>6, <2>8, <2>12
  <2>13. IsActive(e)' => next <= MaxSteps /\ seqRow'[<<e, next>>] = "pending"
    BY <2>10 DEF IsActive
  <2> QED  BY <2>9, <2>10, <2>11, <2>12, <2>13, <1>2, MoveOne DEF key, next
<1> QED  BY <1>7, <1>8

LEMMA SeqInvStep == SeqInv /\ [SeqNext]_seqVars => SeqInv'
<1> SUFFICES ASSUME SeqInv, [SeqNext]_seqVars PROVE SeqInv'
  OBVIOUS
<1>1. CASE UNCHANGED seqVars
  <2>1. UNCHANGED <<ladder, enrollment, seqRow, handling, request, runs, stopped, goneContacts>>
    BY <1>1 DEF seqVars, editVars, rowVars, pastVars
  <2> QED  BY <2>1, QuietSteps DEF SeqInv, SeqTyped, SeenInv
<1>2. CASE \E r \in Request, s \in Subscriber, kind \in {"subscribe", "unsubscribe"} :
             BeginRequest(r, kind, s)
  BY <1>2, RequestSteps
<1>3. CASE \E r \in Request : Unsubscribe(r) \/ Subscribe(r) \/ SubscribeRefused(r)
  BY <1>3, RequestSteps, UnsubscribeStep, SubscribeStep
<1>4. CASE \E k \in StepKey : Work(k)
  BY <1>4, WorkHolds
<1>5. CASE \E e \in Enrollment : \/ FlowUnsubscribes(e) \/ FlowResubscribes(e)
                                \/ Handle(e) \/ SweepEnrollment(e)
  BY <1>5, FlowVerbsHold, FinishHolds, RollBackHolds, SweepHolds DEF Handle
<1>6. CASE \/ \E s \in Subscriber : DeleteContact(s)
           \/ \E status \in {"draft", "active", "archived"} : SetStatus(status)
           \/ \E n \in 0..MaxSteps : EditSteps(n)
  BY <1>6, EditsHold
<1>7. CASE DeleteSequence
  BY <1>7, SequenceEnds
<1> QED  BY <1>1, <1>2, <1>3, <1>4, <1>5, <1>6, <1>7 DEF SeqNext

\* What has run stays run while the enrollment that was stopped is not held.
LEMMA StoppedRestsStep ==
    ASSUME SeqInv, [SeqNext]_seqVars, NEW k \in StepKey, k[1] \in stopped
    PROVE  runs'[k] = runs[k]
<1>1. SeqTyped /\ k[1] \in Enrollment /\ ~Held(k[1])
  BY SeqSets DEF SeqInv, PlaceInv
<1>2. ASSUME NEW e \in Enrollment, FinishStep(e) \/ FinishResubscribed(e)
      PROVE  runs'[k] = runs[k]
  <2>1. Held(e) /\ runs' \in {runs, [runs EXCEPT ![<<e, handling[e].at>>] = @ + 1]}
    BY <1>2 DEF FinishStep, FinishResubscribed
  <2>2. k # <<e, handling[e].at>>
    BY <2>1, <1>1
  <2> QED  BY <2>1, <2>2, <1>1 DEF SeqTyped
<1>3. CASE UNCHANGED runs
  BY <1>3
<1>4. (\A e \in Enrollment : ~FinishStep(e) /\ ~FinishResubscribed(e)) => UNCHANGED runs
  BY DEF SeqNext, seqVars, pastVars, BeginRequest, Unsubscribe, Subscribe, SubscribeRefused, Work, TakeStep,
         BeginStep, DropStep, RetireStep, FlowUnsubscribes, FlowResubscribes, Handle, RollBackStep,
         SweepEnrollment, DeleteContact, SetStatus, EditSteps, DeleteSequence
<1> QED  BY <1>2, <1>4

(***************************************************************************)
(* A step runs at most once per enrollment, for any number of people, steps *)
(* and requests: the handler holds the enrollment at the row's position and *)
(* leaves it one further on, and no edit moves an enrollment back.          *)
(***************************************************************************)
THEOREM StepsRunOnce == SeqSpec => []StepRunsOnce
<1>1. SeqInv => StepRunsOnce
  <2> SUFFICES ASSUME SeqInv, NEW k \in StepKey PROVE runs[k] <= 1
    BY DEF StepRunsOnce
  <2>1. k[1] \in Enrollment /\ k[2] \in 1..MaxSteps /\ k = <<k[1], k[2]>>
    BY SeqSets
  <2> QED  BY <2>1 DEF SeqInv, PlaceInv
<1> QED  BY <1>1, SeqInitHolds, SeqInvStep, PTL DEF SeqSpec

(***************************************************************************)
(* An enrollment that goes on has the queue row of its current step,        *)
(* whatever was cancelled, edited or subscribed again meanwhile.            *)
(***************************************************************************)
THEOREM ActivesStayArmed == SeqSpec => []ActiveIsArmed
<1>1. SeqInv => ActiveIsArmed
  BY DEF SeqInv, PlaceInv, LiveStep, ActiveIsArmed
<1> QED  BY <1>1, SeqInitHolds, SeqInvStep, PTL DEF SeqSpec

(***************************************************************************)
(* Once a request's unsubscribe has committed no step of that enrollment    *)
(* starts: the save waits for the handler's row lock, so no handler holds   *)
(* an enrollment that was stopped, and none finds it active again.          *)
(***************************************************************************)
THEOREM UnsubscribesStick == SeqSpec => UnsubscribeSticks
<1>1. SeqInv /\ [SeqNext]_seqVars => [\A k \in StepKey : k[1] \in stopped => runs'[k] = runs[k]]_seqVars
  BY StoppedRestsStep
<1> QED  BY <1>1, SeqInitHolds, SeqInvStep, PTL DEF SeqSpec, UnsubscribeSticks

-----------------------------------------------------------------------------
(* The queue rows these modules assume.  Each moves its rows itself; what   *)
(* it lets them do is shown to be what ActionLifecycle allows of any row of *)
(* the queue, which ActionQueue implements.  A row's committed runs are not *)
(* a variable of these modules: a row that is done has had one.             *)

\* The queue's name for a row's state, and the runs it has committed.
QueueStatus(state) ==
    IF state = "none" THEN "unscheduled" ELSE IF state = "claimed" THEN "running" ELSE state

CommittedBy(state) == IF state = "done" THEN 1 ELSE 0

RowStates == {"none", "pending", "claimed", "done", "failed", "cancelled"}

RowMoves == {<<"none", "pending">>, <<"pending", "claimed">>, <<"claimed", "pending">>,
             <<"claimed", "done">>, <<"claimed", "failed">>, <<"pending", "cancelled">>}

MayBecome(s, t) == s = t \/ <<s, t>> \in RowMoves

RouteRows == INSTANCE ActionLifecycle WITH
    Action <- Event \X Stage,
    status <- [j \in Event \X Stage |-> QueueStatus(routeJob[j])],
    effects <- [j \in Event \X Stage |-> CommittedBy(routeJob[j])]

ReplyRows == INSTANCE ActionLifecycle WITH
    Action <- Arms,
    status <- [n \in Arms |-> QueueStatus(replyRow[n])],
    effects <- [n \in Arms |-> CommittedBy(replyRow[n])]

StepRows == INSTANCE ActionLifecycle WITH
    Action <- StepKey,
    status <- [k \in StepKey |-> QueueStatus(seqRow[k])],
    effects <- [k \in StepKey |-> CommittedBy(seqRow[k])]

LEMMA QueueNames ==
    /\ QueueStatus("none") = "unscheduled" /\ CommittedBy("none") = 0
    /\ \A s \in RowStates :
          /\ QueueStatus(s) \in {"unscheduled", "pending", "running", "done", "failed", "cancelled"}
          /\ CommittedBy(s) \in Nat
BY DEF QueueStatus, CommittedBy, RowStates

\* The moves that commit nothing, and the one that does.
LEMMA MovesOfRows ==
    ASSUME NEW s \in RowStates, NEW t \in RowStates, MayBecome(s, t)
    PROVE  \/ QueueStatus(t) = QueueStatus(s) /\ CommittedBy(t) = CommittedBy(s)
           \/ /\ <<QueueStatus(s), QueueStatus(t)>> \in
                   {<<"unscheduled", "pending">>, <<"pending", "running">>, <<"running", "pending">>,
                    <<"running", "failed">>, <<"pending", "cancelled">>}
              /\ CommittedBy(t) = CommittedBy(s)
           \/ /\ QueueStatus(s) = "running" /\ QueueStatus(t) = "done"
              /\ CommittedBy(t) = CommittedBy(s) + 1
BY DEF QueueStatus, CommittedBy, RowStates, RowMoves, MayBecome

\* Rows of handed-off events: inserted by key, claimed, and ended by the claimant.
LEMMA RouteRowsMove ==
    ASSUME InboundInv, [InboundNext]_inboundVars, NEW j \in Event \X Stage
    PROVE  MayBecome(routeJob[j], routeJob'[j])
<1> USE DEF MayBecome, RowMoves
<1>1. routeJob \in [Event \X Stage -> JobStatus] /\ delivery \in [Delivery -> [event : Event,
         at : {"no", "log", "persist", "route", "engine", "routed"}]]
  BY DEF InboundInv, InboundTypeOK
<1>2. ASSUME NEW ev \in Event, NEW s \in Stage, HandedOff(ev, s)
      PROVE  MayBecome(routeJob[j], routeJob'[j])
  BY <1>1, <1>2 DEF HandedOff
<1>3. ASSUME NEW d \in Delivery, RouteLockFree(d) \/ RouteInline(d)
      PROVE  MayBecome(routeJob[j], routeJob'[j])
  BY <1>1, <1>2, <1>3, StageLists DEF RouteLockFree, RouteInline
<1>4. ASSUME NEW i \in Event \X Stage, TakeRouteJob(i) \/ HandleRouteEvent(i) \/ RouteJobFails(i)
      PROVE  MayBecome(routeJob[j], routeJob'[j])
  BY <1>1, <1>4 DEF TakeRouteJob, HandleRouteEvent, RouteJobFails
<1>5. CASE UNCHANGED routeJob
  BY <1>5
<1> QED
  BY <1>3, <1>4, <1>5 DEF InboundNext, inboundVars, Receive, LogEvent, SkipEvent, PersistEvent,
                          FinishDelivery, DeliveryDies

(***************************************************************************)
(* route_event rows go through the statuses as the queue's lifecycle says:   *)
(* a later delivery of the event inserts none anew, and done is final.      *)
(***************************************************************************)
THEOREM RouteJobsAreRows == InboundSpec => RouteRows!Spec
<1>1. InboundInit => RouteRows!Init
  BY QueueNames DEF InboundInit, RouteRows!Init
<1>2. ASSUME InboundInv, InboundInv', [InboundNext]_inboundVars PROVE RouteRows!Next
  <2>1. \A j \in Event \X Stage : /\ routeJob[j] \in RowStates /\ routeJob'[j] \in RowStates
                                  /\ MayBecome(routeJob[j], routeJob'[j])
    BY <1>2, RouteRowsMove DEF InboundInv, InboundTypeOK, JobStatus, RowStates
  <2> QED
    BY <2>1, QueueNames, MovesOfRows
    DEF RouteRows!Next, RouteRows!Stays, RouteRows!Moved, RouteRows!Completed, RouteRows!Moves,
        RouteRows!Status
<1> QED  BY <1>1, <1>2, InboundInvInit, InboundInvStep, PTL DEF InboundSpec, RouteRows!Spec

-----------------------------------------------------------------------------
\* The handler that runs has claimed its row.
SendingClaimed == sending # 0 => replyRow[sending] = "claimed"

\* Requests insert by key and cancel what is pending.
LEMMA ReplyRowsMove ==
    ASSUME DeferredInv, SendingClaimed, [DeferredNext]_deferredVars
    PROVE  SendingClaimed' /\ \A n \in Arms : MayBecome(replyRow[n], replyRow'[n])
<1> USE DEF MayBecome, RowMoves, SendingClaimed, Arms
<1>1. replyRow \in [Arms -> ReplyRowStatus] /\ sending \in 0..MaxArms /\ MaxArms \in Nat
      /\ (sending # 0 => sending \in Arms)
  BY ReplyTypes DEF DeferredInv, Typed
<1>2. CASE CancelOld
  BY <1>1, <1>2 DEF CancelOld, CancelAction
<1>3. CASE Arm
  BY <1>1, <1>3 DEF Arm
<1>4. CASE \E n \in Arms : TakeReplyRow(n) \/ BeginSend(n) \/ DropReplyRow(n)
  BY <1>1, <1>4 DEF TakeReplyRow, BeginSend, DropReplyRow
<1>5. CASE FinishSend \/ SendRollsBack
  BY <1>1, <1>5 DEF FinishSend, SendRollsBack
<1>6. CASE RemoveContact
  BY <1>1, <1>6 DEF RemoveContact
<1>7. CASE UNCHANGED <<replyRow, sending>>
  BY <1>7
<1> QED
  BY <1>2, <1>3, <1>4, <1>5, <1>6, <1>7
  DEF DeferredNext, deferredVars, ScheduleReply, StandDown, DismissFailed, SaveArmed, RequestDies,
      OpenReply

(***************************************************************************)
(* The rows of a scheduled reply go through the statuses as the queue's      *)
(* lifecycle says, with requests that edit and call off beside the handler:  *)
(* a cancelled row is not revived, nor one in a handler's hands cancelled.   *)
(***************************************************************************)
THEOREM ReplyRowsAreRows == DeferredSpec => ReplyRows!Spec
<1>1. DeferredInit => ReplyRows!Init /\ SendingClaimed
  BY QueueNames DEF DeferredInit, ReplyRows!Init, SendingClaimed
<1>2. DeferredInv /\ SendingClaimed /\ [DeferredNext]_deferredVars => SendingClaimed'
  BY ReplyRowsMove
<1>3. ASSUME DeferredInv, DeferredInv', SendingClaimed, [DeferredNext]_deferredVars PROVE ReplyRows!Next
  <2>1. \A n \in Arms : /\ replyRow[n] \in RowStates /\ replyRow'[n] \in RowStates
                        /\ MayBecome(replyRow[n], replyRow'[n])
    BY <1>3, ReplyRowsMove DEF DeferredInv, Typed, ReplyRowStatus, RowStates
  <2> QED
    BY <2>1, QueueNames, MovesOfRows
    DEF ReplyRows!Next, ReplyRows!Stays, ReplyRows!Moved, ReplyRows!Completed, ReplyRows!Moves,
        ReplyRows!Status
<1> QED  BY <1>1, <1>2, <1>3, DeferredInvHolds, PTL DEF DeferredSpec, ReplyRows!Spec

-----------------------------------------------------------------------------
\* A handler in flight has the row of its step.
HandlersClaimed == \A e \in Enrollment : Held(e) => seqRow[<<e, handling[e].at>>] = "claimed"

\* What the row operators do to each row: claimed rows stay so.
LEMMA EachRow ==
    ASSUME NEW rows \in [StepKey -> RowStatus], NEW k \in StepKey
    PROVE  /\ \A keys : /\ CancelledIn(rows, keys) \in [StepKey -> RowStatus]
                        /\ \/ CancelledIn(rows, keys)[k] = rows[k]
                           \/ rows[k] = "pending" /\ CancelledIn(rows, keys)[k] = "cancelled"
           /\ \A i : \/ Enqueued(rows, i)[k] = rows[k]
                     \/ rows[k] = "none" /\ Enqueued(rows, i)[k] = "pending"
           /\ \A e : \/ FirstStepIn(rows, e)[k] = rows[k]
                     \/ rows[k] = "none" /\ FirstStepIn(rows, e)[k] = "pending"
           /\ \A i : \A done \in RowDone(rows, i) :
                /\ done \in [StepKey -> RowStatus]
                /\ k # i => done[k] = rows[k]
                /\ k = i => done[k] \in {"done", "claimed"}
<1>1. \A keys : /\ CancelledIn(rows, keys) \in [StepKey -> RowStatus]
                /\ \/ CancelledIn(rows, keys)[k] = rows[k]
                   \/ rows[k] = "pending" /\ CancelledIn(rows, keys)[k] = "cancelled"
  BY DEF CancelledIn, RowStatus
<1>2. \A i : \/ Enqueued(rows, i)[k] = rows[k]
             \/ rows[k] = "none" /\ Enqueued(rows, i)[k] = "pending"
  BY DEF Enqueued
<1>3. \A i : \A done \in RowDone(rows, i) :
                /\ done \in [StepKey -> RowStatus]
                /\ k # i => done[k] = rows[k]
                /\ k = i => done[k] \in {"done", "claimed"}
  BY DEF RowDone, RowStatus
<1> QED  BY <1>1, <1>2, <1>3 DEF FirstStepIn

\* Rows are enqueued and called off, whoever holds a handler.
Gentle(k) ==
    \/ seqRow'[k] = seqRow[k]
    \/ seqRow[k] = "none" /\ seqRow'[k] = "pending"
    \/ seqRow[k] = "pending" /\ seqRow'[k] \in {"claimed", "cancelled"}

LEMMA GentleSteps ==
    ASSUME HandlersClaimed, SeqTyped, \A k \in StepKey : Gentle(k),
           \A e \in Enrollment : Held(e)' =>
              \/ Held(e) /\ handling'[e].at = handling[e].at
              \/ seqRow'[<<e, handling'[e].at>>] = "claimed"
    PROVE  HandlersClaimed' /\ \A k \in StepKey : MayBecome(seqRow[k], seqRow'[k])
<1>1. ASSUME NEW e \in Enrollment, Held(e)' PROVE seqRow'[<<e, handling'[e].at>>] = "claimed"
  <2>1. CASE Held(e) /\ handling'[e].at = handling[e].at
    <3>1. <<e, handling[e].at>> \in StepKey
      BY <2>1, SeqSets DEF SeqTyped, Held
    <3> QED  BY <2>1, <3>1 DEF HandlersClaimed, Gentle
  <2> QED  BY <1>1, <2>1
<1> QED  BY <1>1 DEF HandlersClaimed, MayBecome, RowMoves, Gentle

LEMMA StepRowsMove ==
    ASSUME SeqInv, HandlersClaimed, [SeqNext]_seqVars
    PROVE  HandlersClaimed' /\ \A k \in StepKey : MayBecome(seqRow[k], seqRow'[k])
<1> DEFINE Goal == HandlersClaimed' /\ \A k \in StepKey : MayBecome(seqRow[k], seqRow'[k])
<1>1. /\ SeqTyped /\ seqRow \in [StepKey -> RowStatus] /\ handling \in [Enrollment -> Handler]
      /\ \A e \in Enrollment : Held(e) => <<e, handling[e].at>> \in StepKey
  BY SeqSets DEF SeqInv, SeqTyped, Held
<1>2. CASE UNCHANGED <<seqRow, handling>>
  BY <1>2 DEF HandlersClaimed, MayBecome, Held
<1>3. ASSUME UNCHANGED handling, \A k \in StepKey : Gentle(k) PROVE Goal
  BY <1>1, <1>3, GentleSteps DEF Held
<1>4. ASSUME NEW r \in Request, Unsubscribe(r) PROVE Goal
  BY <1>1, <1>3, <1>4, EachRow DEF Unsubscribe, Gentle
<1>5. ASSUME NEW r \in Request, Subscribe(r) PROVE Goal
  <2> DEFINE kept == IF request[r].seen = 0 THEN seqRow ELSE CancelledIn(seqRow, StepsOf(request[r].seen))
  <2>1. /\ kept \in [StepKey -> RowStatus]
        /\ \A k \in StepKey : kept[k] = seqRow[k] \/ (seqRow[k] = "pending" /\ kept[k] = "cancelled")
    <3>1. CASE request[r].seen = 0
      BY <1>1, <3>1
    <3>2. CASE request[r].seen # 0
      <4>1. kept = CancelledIn(seqRow, StepsOf(request[r].seen))
        BY <3>2
      <4> HIDE DEF kept
      <4>2. kept \in [StepKey -> RowStatus]
        BY <1>1, <4>1 DEF CancelledIn, RowStatus
      <4> QED  BY <1>1, <4>1, <4>2, EachRow
    <3> QED  BY <3>1, <3>2
  <2>2. \E e \in Enrollment : seqRow' = FirstStepIn(kept, e)
    BY <1>5 DEF Subscribe, Fresh
  <2>3. UNCHANGED handling
    BY <1>5 DEF Subscribe
  <2> HIDE DEF kept
  <2>4. \A k \in StepKey : Gentle(k)
    BY <1>1, <2>1, <2>2, EachRow DEF Gentle
  <2> QED  BY <1>3, <2>3, <2>4
<1>6. ASSUME NEW k \in StepKey, TakeStep(k) PROVE Goal
  BY <1>1, <1>3, <1>6 DEF TakeStep, Gentle
<1>7. ASSUME NEW k \in StepKey, BeginStep(k) PROVE Goal
  <2>1. /\ UNCHANGED seqRow /\ seqRow[k] = "claimed" /\ k = <<k[1], k[2]>> /\ k[1] \in Enrollment
        /\ handling'[k[1]].at = k[2]
        /\ \A e \in Enrollment : e # k[1] => handling'[e] = handling[e]
    BY <1>1, <1>7, SeqSets DEF BeginStep, Handles, rowVars
  <2> QED  BY <1>1, <2>1, GentleSteps DEF Gentle, Held
<1>8. ASSUME NEW k \in StepKey, DropStep(k) \/ RetireStep(k) PROVE Goal
  <2>1. \E rows \in [StepKey -> RowStatus] :
          /\ seqRow' \in RowDone(rows, k)
          /\ \A i \in StepKey : rows[i] = seqRow[i] \/ (seqRow[i] = "pending" /\ rows[i] = "cancelled")
    BY <1>1, <1>8, EachRow DEF DropStep, RetireStep
  <2>2. /\ seqRow'[k] \in {"done", "claimed"}
        /\ \A i \in StepKey \ {k} : Gentle(i)
    BY <2>1, EachRow DEF Gentle
  <2>3. /\ seqRow[k] = "claimed" /\ UNCHANGED handling
        /\ ~Held(k[1]) /\ k[1] \in Enrollment
    BY <1>8, SeqSets DEF DropStep, RetireStep, Handles, ContactBusy, Held
  <2>4. ASSUME NEW e \in Enrollment, Held(e)' PROVE seqRow'[<<e, handling'[e].at>>] = "claimed"
    BY <1>1, <2>2, <2>3, <2>4 DEF Held, HandlersClaimed, Gentle
  <2> QED  BY <2>2, <2>3, <2>4 DEF HandlersClaimed, MayBecome, RowMoves, Gentle
<1>9. ASSUME NEW e \in Enrollment, FlowUnsubscribes(e) \/ FlowResubscribes(e) PROVE Goal
  <2>1. /\ UNCHANGED seqRow
        /\ \E verb : handling' = [handling EXCEPT ![e].verb = verb]
    BY <1>9 DEF FlowUnsubscribes, FlowResubscribes, rowVars
  <2>2. \A d \in Enrollment : handling'[d].at = handling[d].at
    BY <1>1, <2>1 DEF Handler
  <2> QED  BY <1>1, <2>1, <2>2, GentleSteps DEF Gentle, Held
\* The end of a handler: its own row moves on, and the handler is gone.
<1>10. ASSUME NEW e \in Enrollment, Held(e), handling' = [handling EXCEPT ![e] = NoHandler],
              seqRow'[<<e, handling[e].at>>] \in {"done", "claimed", "pending", "failed"},
              \A i \in StepKey \ {<<e, handling[e].at>>} : Gentle(i)
       PROVE  Goal
  <2>1. ASSUME NEW d \in Enrollment, Held(d)' PROVE seqRow'[<<d, handling'[d].at>>] = "claimed"
    <3>1. d # e /\ handling'[d] = handling[d] /\ Held(d)
      BY <1>1, <1>10, <2>1, SeqSets DEF Held
    <3>2. <<d, handling[d].at>> \in StepKey \ {<<e, handling[e].at>>}
      BY <1>1, <3>1
    <3> QED  BY <1>10, <3>1, <3>2 DEF HandlersClaimed, Gentle
  <2> QED  BY <1>1, <1>10, <2>1 DEF HandlersClaimed, MayBecome, RowMoves, Gentle
<1>11. ASSUME NEW e \in Enrollment, FinishStep(e) \/ FinishResubscribed(e) PROVE Goal
  <2> DEFINE key == <<e, handling[e].at>>
  <2>1. Held(e) /\ handling' = [handling EXCEPT ![e] = NoHandler] /\ key \in StepKey
    BY <1>1, <1>11 DEF FinishStep, FinishResubscribed
  <2>2. \E rows \in RowDone(seqRow, key) :
           seqRow' = rows \/ (\E i : seqRow' = Enqueued(rows, i)) \/ (\E d : seqRow' = FirstStepIn(rows, d))
    BY <1>11 DEF FinishStep, FinishResubscribed
  <2>3. seqRow'[key] \in {"done", "claimed"} /\ \A i \in StepKey \ {key} : Gentle(i)
    BY <1>1, <2>1, <2>2, EachRow DEF Gentle
  <2> QED  BY <1>10, <2>1, <2>3
<1>12. ASSUME NEW e \in Enrollment, RollBackStep(e) PROVE Goal
  BY <1>1, <1>10, <1>12 DEF RollBackStep, Gentle
<1>13. ASSUME NEW e \in Enrollment, SweepEnrollment(e) PROVE Goal
  BY <1>1, <1>3, <1>13, EachRow DEF SweepEnrollment, Gentle
<1>14. ASSUME NEW s \in Subscriber, DeleteContact(s) PROVE Goal
  BY <1>1, <1>3, <1>14, EachRow DEF DeleteContact, Gentle
<1>15. ASSUME DeleteSequence PROVE Goal
  BY <1>1, <1>3, <1>15, EachRow DEF DeleteSequence, Gentle
<1>16. CASE \/ \E r \in Request, s \in Subscriber, kind \in {"subscribe", "unsubscribe"} :
                  BeginRequest(r, kind, s)
            \/ \E r \in Request : SubscribeRefused(r)
            \/ \E status \in {"draft", "active", "archived"} : SetStatus(status)
            \/ \E n \in 0..MaxSteps : EditSteps(n)
            \/ UNCHANGED seqVars
  BY <1>2, <1>16 DEF BeginRequest, SubscribeRefused, SetStatus, EditSteps, seqVars, rowVars
<1> QED
  BY <1>4, <1>5, <1>6, <1>7, <1>8, <1>9, <1>11, <1>12, <1>13, <1>14, <1>15, <1>16
  DEF SeqNext, Work, Handle

(***************************************************************************)
(* The rows of a sequence's steps go through the statuses as the queue's     *)
(* lifecycle says, whatever requests, handlers, the sweep and edits do at    *)
(* once: a claimed row is never cancelled, and none that is done, failed or  *)
(* cancelled is revived, also by a key that renumbering uses again.          *)
(***************************************************************************)
THEOREM StepRowsAreRows == SeqSpec => StepRows!Spec
<1>1. SeqInit => StepRows!Init /\ HandlersClaimed
  BY QueueNames DEF SeqInit, StepRows!Init, HandlersClaimed, Held, NoHandler
<1>2. SeqInv /\ HandlersClaimed /\ [SeqNext]_seqVars => HandlersClaimed'
  BY StepRowsMove
<1>3. ASSUME SeqInv, SeqInv', HandlersClaimed, [SeqNext]_seqVars PROVE StepRows!Next
  <2>1. \A k \in StepKey : /\ seqRow[k] \in RowStates /\ seqRow'[k] \in RowStates
                           /\ MayBecome(seqRow[k], seqRow'[k])
    BY <1>3, StepRowsMove DEF SeqInv, SeqTyped, RowStatus, RowStates
  <2> QED
    BY <2>1, QueueNames, MovesOfRows
    DEF StepRows!Next, StepRows!Stays, StepRows!Moved, StepRows!Completed, StepRows!Moves,
        StepRows!Status
<1> QED  BY <1>1, <1>2, <1>3, SeqInitHolds, SeqInvStep, PTL DEF SeqSpec, StepRows!Spec
=============================================================================

---------------------------- MODULE MCFlowEngine ----------------------------
(***************************************************************************)
(* A small instance of FlowEngine: one contact, two executions of which the *)
(* first may wait twice, two flows of which one is edited.  A behaviour is  *)
(* about the engine on flows that stay published ("steps"), or about drafts *)
(* that are published, switched off and archived meanwhile ("life").        *)
(***************************************************************************)
EXTENDS FlowEngine

CONSTANTS c1, f1, f2

VARIABLE part

MCContactOf == [e \in Exec |-> c1]
MCWaitsOf   == [e \in Exec |-> IF e = 1 THEN 2 ELSE 1]

\* While flows are edited the first execution waits once, and nothing is re-asked
\* or answered: timers alone resume.
LifeBound ==
    /\ execution'[1].waits <= 1
    /\ execution'[1].tries + execution'[2].tries = 0
    /\ step'[c1].by # "reply"

PartInit == FlowInit /\ part = IF published[f1] THEN "steps" ELSE "life"

PartNext ==
    /\ part' = part
    /\ \/ part = "steps" /\ FlowStepNext
       \/ part = "life" /\ FlowNext /\ LifeBound

PartSpec == PartInit /\ [][PartNext]_<<flowVars, part>> /\ FlowFairness
=============================================================================

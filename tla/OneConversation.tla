--------------------------- MODULE OneConversation ---------------------------
(***************************************************************************)
(* What the flow engine promises about a contact: at most one execution is *)
(* live at a time, across every flow, and an execution that is over stays  *)
(* over.  Starting, resuming, finishing, superseding, switching a flow off *)
(* and expiring old waits are all one of two moves.  FlowEngine implements *)
(* this under a refinement mapping.                                         *)
(***************************************************************************)
CONSTANTS Contact,     \* the people of a workspace
          Exec,        \* executions that may ever exist
          ContactOf    \* [Exec -> Contact]

VARIABLES talk,        \* [Contact -> SUBSET Exec], the live executions of each
          over         \* SUBSET Exec, executions that have ended

vars == <<talk, over>>

ExecOf(c) == {e \in Exec : ContactOf[e] = c}

Init == /\ talk = [c \in Contact |-> {}]
        /\ over = {}

\* c's conversation ends, moves on inside its execution, or gives way to a new
\* one.  A chain of flows may pass through executions that end in the same move.
Turn(c) == \E next \in {{}} \cup {{e} : e \in ExecOf(c) \ over} :
              \E ended \in SUBSET ExecOf(c) :
                 /\ talk[c] \ next \subseteq ended
                 /\ ended \cap next = {}
                 /\ talk' = [talk EXCEPT ![c] = next]
                 /\ over' = over \cup ended

\* Some conversations are cut off at once, whoever they belong to.
Cut == \E who \in SUBSET Contact :
          /\ talk' = [c \in Contact |-> IF c \in who THEN {} ELSE talk[c]]
          /\ over' = over \cup UNION {talk[c] : c \in who}

Next == Cut \/ \E c \in Contact : Turn(c)

Spec == Init /\ [][Next]_vars
=============================================================================

------------------------------ MODULE Consent ------------------------------
(***************************************************************************)
(* What one contact has permitted on one channel: the identity's row, the   *)
(* requests that write it (messaging/ingest.py, messaging/services.py), and *)
(* the gate every send asks (messaging/compliance.py).                      *)
(*                                                                         *)
(* A request works on the copy of the row it has read.  Most write back the *)
(* columns they changed; a captured address writes back the whole row.      *)
(***************************************************************************)
EXTENDS Naturals

CONSTANTS
    Call,          \* requests that touch the row at once
    Inbound,       \* messages the contact sends; a platform may deliver one again
    Hours,         \* the platform's window_hours
    AgentDays,     \* human_agent_days, in the same unit
    LastInstant    \* bound: the clock stops here

ASSUME ConsentAssumption ==
    {Hours, AgentDays, LastInstant} \subseteq Nat \ {0}

VARIABLES
    instant,       \* 0..LastInstant
    identity,      \* [opt_in, opted_out, expires, heard]
    inserted,      \* inbound messages with a row
    call,          \* [Call -> [what, event, permits, copy, at]]
    lastWord,      \* the contact's last keyword: "none", "stop", "start" (history)
    overtaken,     \* what was written since overtook it on an old copy (history)
    permitted,     \* the contact has ever written, or given an address to use (history)
    newest         \* when a message was last received for the first time (history)

consentVars == <<instant, identity, inserted, call, lastWord, overtaken, permitted, newest>>

\* The moments are counted from 1: 0 is a column that is NULL.
Never == 0
NoCall == [what |-> "none", event |-> {}, permits |-> FALSE,
           copy |-> [opt_in |-> FALSE, opted_out |-> FALSE, expires |-> Never, heard |-> Never],
           at |-> Never]

ConsentInit ==
    /\ instant = 1
    /\ identity = NoCall.copy
    /\ inserted = {}
    /\ call = [c \in Call |-> NoCall]
    /\ lastWord = "none"
    /\ overtaken = FALSE
    /\ permitted = FALSE
    /\ newest = Never

ConsentTick ==
    /\ instant < LastInstant
    /\ instant' = instant + 1
    /\ UNCHANGED <<identity, inserted, call, lastWord, overtaken, permitted, newest>>

Begin(c, what, event, permits) ==
    /\ call[c] = NoCall
    /\ call' = [call EXCEPT ![c] = [what |-> what, event |-> event, permits |-> permits,
                                    copy |-> identity, at |-> instant]]
    /\ UNCHANGED <<instant, identity, inserted, lastWord, overtaken, permitted, newest>>

ReceiveMessage(c) == \E e \in Inbound : Begin(c, "message", {e}, FALSE)
ReceiveStop(c) == Begin(c, "stop", {}, FALSE)
ReceiveStart(c) == Begin(c, "start", {}, FALSE)
Capture(c) == \E permits \in BOOLEAN : Begin(c, "capture", {}, permits)

Finish(c) == call' = [call EXCEPT ![c] = NoCall]

\* record_consent only ever adds, and only what the copy lacks.
Consented(copy, row) ==
    IF copy.opted_out \/ copy.opt_in THEN row ELSE [row EXCEPT !.opt_in = TRUE]

\* Mutant: the whole copy is saved.
ActivityOnCopy(c) ==
    [Consented(call[c].copy, call[c].copy) EXCEPT !.heard = call[c].at,
                                                  !.expires = call[c].at + Hours]

\* The columns in update_fields.
Activity(c) ==
    [Consented(call[c].copy, identity) EXCEPT !.heard = call[c].at,
                                              !.expires = call[c].at + Hours]

AlreadyStored(c) == call[c].event \subseteq inserted

\* The insert of a message that is there already ends the request.
PersistMessage(c) ==
    /\ call[c].what = "message"
    /\ identity' = IF AlreadyStored(c) THEN identity ELSE Activity(c)
    /\ inserted' = inserted \cup call[c].event
    /\ permitted' = TRUE
    /\ newest' = IF call[c].event \subseteq inserted \/ call[c].at < newest THEN newest ELSE call[c].at
    /\ Finish(c)
    /\ UNCHANGED <<instant, lastWord, overtaken>>

\* Both keywords return early on what their copy says.
ApplyOptOut(c) ==
    LET copy == call[c].copy
    IN  /\ call[c].what = "stop"
        /\ identity' = IF copy.opted_out THEN identity
                       ELSE [identity EXCEPT !.opted_out = TRUE, !.opt_in = FALSE]
        /\ lastWord' = "stop"
        /\ overtaken' = (copy.opted_out /\ ~identity.opted_out)
        /\ Finish(c)
        /\ UNCHANGED <<instant, inserted, permitted, newest>>

ApplyOptIn(c) ==
    LET copy == call[c].copy
        noChange == ~copy.opted_out /\ copy.opt_in
    IN  /\ call[c].what = "start"
        /\ identity' = IF noChange THEN identity
                       ELSE [identity EXCEPT !.opted_out = FALSE, !.opt_in = TRUE]
        /\ lastWord' = "start"
        /\ permitted' = TRUE
        /\ overtaken' = (noChange /\ (identity.opted_out \/ ~identity.opt_in))
        /\ Finish(c)
        /\ UNCHANGED <<instant, inserted, newest>>

\* _upsert_one: identity.save() writes every column of the copy.
SaveCaptured(c) ==
    LET copy == call[c].copy
    IN  /\ call[c].what = "capture"
        /\ identity' = [copy EXCEPT !.opt_in = @ \/ (call[c].permits /\ ~copy.opted_out)]
        /\ permitted' = (permitted \/ call[c].permits)
        /\ overtaken' = (overtaken \/ copy.opted_out # identity.opted_out \/ copy.opt_in # identity.opt_in)
        /\ Finish(c)
        /\ UNCHANGED <<instant, inserted, lastWord, newest>>

\* One transaction per event, rolled back and logged if anything in it raises.
Abandon(c) ==
    /\ call[c] # NoCall
    /\ Finish(c)
    /\ UNCHANGED <<instant, identity, inserted, lastWord, overtaken, permitted, newest>>

ConsentNext ==
    \/ ConsentTick
    \/ \E c \in Call : \/ ReceiveMessage(c) \/ ReceiveStop(c) \/ ReceiveStart(c) \/ Capture(c)
                       \/ PersistMessage(c) \/ ApplyOptOut(c) \/ ApplyOptIn(c)
                       \/ SaveCaptured(c) \/ Abandon(c)

ConsentSpec == ConsentInit /\ [][ConsentNext]_consentVars

-----------------------------------------------------------------------------
(* The gate.  The row has a connection, and its platform a window.          *)

Policy == [broadcast_allowed : BOOLEAN, human_agent : BOOLEAN,
           outside : {"needs_tag", "needs_template", "blocked"}]
Source == {"agent", "flow", "broadcast"}
Outbound == [tag : BOOLEAN, template : BOOLEAN]

Grant == {"in_window", "human_agent", "tag_supplied", "template_supplied"}

OutsideWindow(policy, outbound) ==
    CASE policy.outside = "needs_tag" -> IF outbound.tag THEN "tag_supplied" ELSE "needs_tag"
      [] policy.outside = "needs_template" ->
           IF outbound.template THEN "template_supplied" ELSE "needs_template"
      [] policy.outside = "blocked" -> "outside_window"

\* The first rule that matches answers.
CanSend(policy, source, outbound) ==
    CASE identity.opted_out -> "opted_out"
      [] ~identity.opted_out /\ ~identity.opt_in -> "no_opt_in"
      [] OTHER ->
           IF source = "broadcast" /\ ~policy.broadcast_allowed THEN "broadcast_not_allowed"
           ELSE IF identity.expires > instant THEN "in_window"
           ELSE IF /\ source = "agent" /\ policy.human_agent
                   /\ identity.heard # Never /\ identity.heard + AgentDays >= instant
                THEN "human_agent"
           ELSE OutsideWindow(policy, outbound)

-----------------------------------------------------------------------------
(* Properties.                                                             *)

\* Types of all variables.
ConsentTypeOK ==
    LET Row == [opt_in : BOOLEAN, opted_out : BOOLEAN,
                expires : 0..LastInstant + Hours, heard : 0..LastInstant]
    IN  /\ instant \in 1..LastInstant
        /\ identity \in Row
        /\ inserted \in SUBSET Inbound
        /\ call \in [Call -> [what : {"none", "message", "stop", "start", "capture"},
                              event : SUBSET Inbound, permits : BOOLEAN,
                              copy : Row, at : 0..LastInstant]]
        /\ lastWord \in {"none", "stop", "start"}
        /\ {overtaken, permitted} \subseteq BOOLEAN
        /\ newest \in 0..LastInstant

(***************************************************************************)
(* Whatever the platform's policy, the source and the message, a send is    *)
(* allowed only to somebody who has given permission and whose last keyword *)
(* was not STOP; "in_window" only within the window of a message received   *)
(* for the first time, "human_agent" only for an agent and within its days; *)
(* and after START nothing is refused for want of consent.  Messages, both  *)
(* keywords and captured addresses overlap and arrive again.  Excepted is a *)
(* keyword that returned early, or a captured address that wrote consent,   *)
(* on a copy that was no longer true.                                      *)
(***************************************************************************)
GrantsAreEarned ==
    \A policy \in Policy, source \in Source, outbound \in Outbound :
      LET code == CanSend(policy, source, outbound)
      IN  /\ code \in Grant => permitted /\ (lastWord = "stop" => overtaken)
          /\ code = "in_window" => instant < newest + Hours
          /\ code = "human_agent" => source = "agent" /\ instant <= newest + AgentDays
          /\ lastWord = "start" /\ ~overtaken => code \notin {"opted_out", "no_opt_in"}
=============================================================================

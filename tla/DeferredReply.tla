---------------------------- MODULE DeferredReply ----------------------------
(***************************************************************************)
(* A reply an agent schedules for later (apps/inbox/services.py), edits and *)
(* calls off, and the handler that sends it (apps/inbox/handlers.py).       *)
(* Reminders go the same way, without editing.                              *)
(*                                                                         *)
(* Requests run without a transaction around them: every save commits, and  *)
(* the process may die after each.  Queue row n is the one whose            *)
(* idempotency key carries arm_count n.                                     *)
(***************************************************************************)
EXTENDS Naturals

CONSTANT MaxArms   \* bound: how often the reply is armed

ASSUME DeferredAssumption == MaxArms \in Nat \ {0}

VARIABLES
    reply,         \* the ScheduledReply row: [status, action, arms]
    replyRow,      \* [1..MaxArms -> RowStatus], the queue rows
    agent,         \* the request: where it is, and its copy of the reply; one
                   \* at a time (a bound)
    sending,       \* 0, or the queue row whose handler is running
    removed,       \* the contact is deleted
    torn           \* a request died before it had armed again, or was overtaken
                   \* by its own queue row while linking it (history)

deferredVars == <<reply, replyRow, agent, sending, removed, torn>>

Arms == 1..MaxArms
ReplyStatus == {"none", "pending", "sent", "failed", "cancelled", "dismissed"}
ReplyRowStatus == {"none", "pending", "claimed", "done", "failed", "cancelled"}

NoReply == [status |-> "none", action |-> 0, arms |-> 0]
NoAgent == [at |-> "no", copy |-> NoReply]

DeferredInit ==
    /\ reply = NoReply
    /\ replyRow = [n \in Arms |-> "none"]
    /\ agent = NoAgent
    /\ sending = 0
    /\ removed = FALSE
    /\ torn = FALSE

\* _cancel_action: by primary key, and only a row still pending.
CancelAction(n) ==
    replyRow' = [k \in Arms |-> IF k = n /\ replyRow[k] = "pending" THEN "cancelled"
                                ELSE replyRow[k]]

-----------------------------------------------------------------------------
(* Requests.                                                               *)

\* The row is inserted; a second post of the same form finds it and stops.
ScheduleReply ==
    /\ agent = NoAgent
    /\ ~removed
    /\ reply.status = "none"
    /\ reply' = [NoReply EXCEPT !.status = "pending"]
    /\ agent' = [at |-> "arm", copy |-> reply']
    /\ UNCHANGED <<replyRow, sending, removed, torn>>

\* The row is loaded; what it says counts until the request is over.
OpenReply(kind) ==
    /\ agent = NoAgent
    /\ reply.status = "pending"
    /\ reply.arms < MaxArms
    /\ agent' = [at |-> kind, copy |-> reply]
    /\ UNCHANGED <<reply, replyRow, sending, removed, torn>>

\* reschedule_reply and _stand_down both begin with the queue row.
CancelOld ==
    /\ agent.at \in {"reschedule", "cancel"}
    /\ CancelAction(agent.copy.action)
    /\ agent' = [agent EXCEPT !.at = IF @ = "reschedule" THEN "arm" ELSE "stand down"]
    /\ UNCHANGED <<reply, sending, removed, torn>>

StandDown ==
    /\ agent.at = "stand down"
    /\ reply' = [reply EXCEPT !.status = "cancelled"]
    /\ agent' = NoAgent
    /\ UNCHANGED <<replyRow, sending, removed, torn>>

DismissFailed ==
    /\ agent = NoAgent
    /\ reply.status = "failed"
    /\ reply' = [reply EXCEPT !.status = "dismissed"]
    /\ UNCHANGED <<replyRow, agent, sending, removed, torn>>

\* Mutant: the key carries the time, and the time did not change.
KeyOfTime(arms) == 1

KeyOf(arms) == arms + 1

\* schedule(): a row with the key is returned as it is.
Arm ==
    /\ agent.at = "arm"
    /\ replyRow' = [replyRow EXCEPT ![KeyOf(agent.copy.arms)] =
                      IF @ = "none" THEN "pending" ELSE @]
    /\ agent' = [agent EXCEPT !.at = "armed"]
    /\ UNCHANGED <<reply, sending, removed, torn>>

SaveArmed ==
    /\ agent.at = "armed"
    /\ reply' = [reply EXCEPT !.action = KeyOf(agent.copy.arms), !.arms = agent.copy.arms + 1]
    /\ agent' = NoAgent
    /\ torn' = (replyRow[KeyOf(agent.copy.arms)] = "done" /\ torn)
    /\ UNCHANGED <<replyRow, sending, removed>>

RequestDies ==
    /\ agent # NoAgent
    /\ torn' = (torn \/ agent.at \in {"arm", "armed", "stand down"})
    /\ agent' = NoAgent
    /\ UNCHANGED <<reply, replyRow, sending, removed>>

-----------------------------------------------------------------------------
(* The worker, under the contact's lock, which requests do not take.        *)

TakeReplyRow(n) ==
    /\ replyRow[n] = "pending"
    /\ replyRow' = [replyRow EXCEPT ![n] = "claimed"]
    /\ UNCHANGED <<reply, agent, sending, removed, torn>>

IsCurrent(n) == reply.status = "pending" /\ reply.action = n

BeginSend(n) ==
    /\ replyRow[n] = "claimed"
    /\ sending = 0
    /\ IsCurrent(n)
    /\ sending' = n
    /\ UNCHANGED <<reply, replyRow, agent, removed, torn>>

\* Also a row that fell due before the reply was linked to it.
DropReplyRow(n) ==
    /\ replyRow[n] = "claimed"
    /\ sending = 0
    /\ ~IsCurrent(n)
    /\ replyRow' = [replyRow EXCEPT ![n] = "done"]
    /\ torn' = (torn \/ (agent.at = "armed" /\ n = KeyOf(agent.copy.arms)))
    /\ UNCHANGED <<reply, agent, sending, removed>>

\* Saved with the status alone, whatever has been written meanwhile.
FinishSend ==
    /\ sending # 0
    /\ \E status \in {"sent", "failed"} : reply' = [reply EXCEPT !.status = status]
    /\ replyRow' = [replyRow EXCEPT ![sending] = "done"]
    /\ sending' = 0
    /\ UNCHANGED <<agent, removed, torn>>

\* It raises or its worker dies: due again, or out of attempts.
SendRollsBack ==
    /\ sending # 0
    /\ \E status \in {"pending", "failed"} :
          replyRow' = [replyRow EXCEPT ![sending] = status]
    /\ sending' = 0
    /\ UNCHANGED <<reply, agent, removed, torn>>

\* stand_down of apps/contacts cancels everything pending for the contact.
RemoveContact ==
    /\ ~removed
    /\ sending = 0
    /\ removed' = TRUE
    /\ replyRow' = [n \in Arms |-> IF replyRow[n] = "pending" THEN "cancelled" ELSE replyRow[n]]
    /\ UNCHANGED <<reply, agent, sending, torn>>

DeferredNext ==
    \/ ScheduleReply \/ CancelOld \/ StandDown \/ DismissFailed \/ Arm \/ SaveArmed \/ RequestDies
    \/ \E kind \in {"reschedule", "cancel"} : OpenReply(kind)
    \/ \E n \in Arms : TakeReplyRow(n) \/ BeginSend(n) \/ DropReplyRow(n)
    \/ FinishSend \/ SendRollsBack \/ RemoveContact

DeferredSpec == DeferredInit /\ [][DeferredNext]_deferredVars

-----------------------------------------------------------------------------
(* Properties.                                                             *)

ReplyRecord == [status : ReplyStatus, action : 0..MaxArms, arms : 0..MaxArms]

\* Types of all variables.
DeferredTypeOK ==
    /\ reply \in ReplyRecord
    /\ replyRow \in [Arms -> ReplyRowStatus]
    /\ agent \in [at : {"no", "reschedule", "cancel", "arm", "armed", "stand down"},
                  copy : ReplyRecord]
    /\ sending \in 0..MaxArms
    /\ removed \in BOOLEAN
    /\ torn \in BOOLEAN

(***************************************************************************)
(* A reply that the thread shows as going out later will go out: its queue  *)
(* row is waiting, running or out of attempts, after any edits and with a   *)
(* handler running beside them (services.py, _arm, on the key that would    *)
(* hand back a cancelled row: "the reply silently never sends").  Two cases  *)
(* are excepted, since nothing rearms them: a request that died half-way,   *)
(* and a row due so soon that it was handled before the reply pointed at it. *)
(***************************************************************************)
PendingReplyIsArmed ==
    reply.status = "pending" /\ agent = NoAgent /\ ~removed /\ ~torn =>
        reply.action # 0 /\ replyRow[reply.action] \in {"pending", "claimed", "failed"}
=============================================================================

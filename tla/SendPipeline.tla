------------------------------ MODULE SendPipeline ------------------------------
(***************************************************************************)
(* One outbound message of apps/messaging, by one idempotency key: the row  *)
(* that owns the key, the claim that owns a provider call, the token that   *)
(* may not be there, the send_retry rows, and a withdrawal.                *)
(*                                                                         *)
(* Two kinds of message.  An API or inbox send runs in a web request, where *)
(* every statement commits by itself, and may be sent again under its key   *)
(* while the first is under way.  A send by a queue handler runs inside the *)
(* handler's transaction; its handlers look at their own state first and    *)
(* send under one key once per commit.  Retries always run in a worker's    *)
(* transaction, which holds the message's row from its first write to its   *)
(* end, and one at a time: every send_retry names the contact, whose        *)
(* advisory lock the worker takes.                                         *)
(*                                                                         *)
(* A provider's answer is what the row ends up saying: whether a call that  *)
(* was not answered reached anybody is unknown here as it is there.         *)
(***************************************************************************)
EXTENDS Naturals, FiniteSets

CONSTANTS
    Caller,         \* web requests that send under the key
    MaxAttempts,    \* MAX_SEND_ATTEMPTS
    MaxDeferrals,   \* bound: how often the connection's bucket is found empty
    MaxMishaps      \* bound: processes that die, handlers that raise, retries
                    \* that are run again after they are done

ASSUME SendAssumption ==
    /\ IsFiniteSet(Caller)
    /\ MaxAttempts \in Nat \ {0}
    /\ {MaxDeferrals, MaxMishaps} \subseteq Nat

VARIABLES
    inline,     \* BOOLEAN, the kind of message: sent by web requests
    row,        \* the committed message row
    pc,         \* [Caller -> phase]
    mine,       \* [Caller -> Nat], send_attempts as the caller read it
    died,       \* callers whose process died
    pending,    \* Nat, send_retry rows waiting for their run_at
    stopped,    \* BOOLEAN, a send_retry row failed for good or was stopped
    handler,    \* status of the queue row whose handler sends
    job,        \* what the contact's worker runs
    wphase,     \* phase of its transaction
    draft,      \* what it has written
    calls,      \* provider calls begun and not rolled back (history)
    reopened,   \* retries that re-opened the claim (history)
    deferrals, mishaps

callers == <<pc, mine, died>>
retries == <<pending, stopped>>
worker  == <<handler, job, wphase, draft>>
history == <<calls, reopened>>
bounds  == <<deferrals, mishaps>>
vars    == <<inline, row, callers, retries, worker, history, bounds>>

MessageStatus == {"none", "queued", "sent", "failed", "withdrawn"}
Settled       == {"sent", "failed", "withdrawn"}
Message       == [status : MessageStatus, dispatched : BOOLEAN, attempts : Nat]
ActionStatus  == {"none", "pending", "running", "done", "failed"}
Reply         == {"sent", "rejected", "unanswered"}

NoMessage == [status |-> "none", dispatched |-> FALSE, attempts |-> 0]
Inserted  == [NoMessage EXCEPT !.status = "queued"]

\* called: the transaction holds a provider call; again: it re-opened the claim;
\* arm: it inserted a send_retry row.
Draft   == [row : Message, called : BOOLEAN, again : BOOLEAN, arm : BOOLEAN]
Wrote(r, called, again, arm) == [row |-> r, called |-> called, again |-> again, arm |-> arm]
NoDraft == Wrote(NoMessage, FALSE, FALSE, FALSE)

Init ==
    /\ inline \in BOOLEAN
    /\ row = NoMessage
    /\ pc = [c \in Caller |-> "idle"]
    /\ mine = [c \in Caller |-> 0]
    /\ died = {}
    /\ pending = 0 /\ stopped = FALSE
    /\ handler = IF inline THEN "none" ELSE "pending"
    /\ job = "none" /\ wphase = "none" /\ draft = NoDraft
    /\ calls = 0 /\ reopened = 0
    /\ deferrals = 0 /\ mishaps = 0

-----------------------------------------------------------------------------
(* The UPDATE statements, as what they make of the row.                    *)

\* Mutant: a claim that does not ask for the status.
ClaimableAnyStatus(r) == r.status # "none" /\ ~r.dispatched

Claimable(r) == r.status = "queued" /\ ~r.dispatched

Withdrawable(r) == r.status = "queued" /\ ~r.dispatched

Claimed(r) == [status |-> r.status, dispatched |-> TRUE, attempts |-> r.attempts + 1]

\* Mutant: a wait for a token is charged as an attempt.
ReleasedOnly(r) == [r EXCEPT !.dispatched = FALSE]

Released(r) == [status |-> r.status, dispatched |-> FALSE,
                attempts |-> IF r.attempts > 0 THEN r.attempts - 1 ELSE 0]

Finalized(r, status) == [r EXCEPT !.status = status]

FinalizedIfQueued(r, status) == IF r.status = "queued" THEN Finalized(r, status) ELSE r

\* Mutant: one attempt too many.
SpentBeyond(attempts) == attempts > MaxAttempts

Spent(attempts) == attempts >= MaxAttempts

\* The worker's transaction has written the row; other writers wait for its end.
Held == wphase \in {"calling", "ending"}

-----------------------------------------------------------------------------
(* send_outbound in a web request, one statement at a time.                *)

Alive(c) == inline /\ c \notin died

\* The gates, then the insert, or the row that already owns the key.
SendOutbound(c, allowed) ==
    /\ Alive(c) /\ pc[c] = "idle"
    /\ row' = IF row.status = "none" THEN Inserted ELSE row
    /\ pc' = [pc EXCEPT ![c] = IF row.status \in Settled THEN "done"
                               ELSE IF allowed THEN "recorded" ELSE "refused"]
    /\ UNCHANGED <<inline, mine, died, retries, worker, history, bounds>>

\* _failed: the row was queued when it was read, and is saved as failed.
Refuse(c) ==
    /\ Alive(c) /\ pc[c] = "refused"
    /\ ~Held
    /\ row' = Finalized(row, "failed")
    /\ pc' = [pc EXCEPT ![c] = "done"]
    /\ UNCHANGED <<inline, mine, died, retries, worker, history, bounds>>

\* Deleted contact, no adapter.
RefuseDispatch(c) ==
    /\ Alive(c) /\ pc[c] = "recorded"
    /\ ~Held
    /\ row' = FinalizedIfQueued(row, "failed")
    /\ pc' = [pc EXCEPT ![c] = "done"]
    /\ UNCHANGED <<inline, mine, died, retries, worker, history, bounds>>

\* _claim, then the reload.
Claim(c) ==
    /\ Alive(c) /\ pc[c] = "recorded"
    /\ ~Held
    /\ row' = IF Claimable(row) THEN Claimed(row) ELSE row
    /\ mine' = IF Claimable(row) THEN [mine EXCEPT ![c] = row'.attempts] ELSE mine
    /\ pc' = [pc EXCEPT ![c] = IF Claimable(row) THEN "claimed" ELSE "done"]
    /\ UNCHANGED <<inline, died, retries, worker, history, bounds>>

TakeToken(c) ==
    /\ Alive(c) /\ pc[c] = "claimed"
    /\ pc' = [pc EXCEPT ![c] = "calling"]
    /\ calls' = calls + 1
    /\ UNCHANGED <<inline, row, mine, died, retries, worker, reopened, bounds>>

BucketEmpty(c) ==
    /\ Alive(c) /\ pc[c] = "claimed"
    /\ deferrals < MaxDeferrals
    /\ deferrals' = deferrals + 1
    /\ pc' = [pc EXCEPT ![c] = "empty"]
    /\ UNCHANGED <<inline, row, mine, died, retries, worker, history, mishaps>>

ReleaseClaim(c) ==
    /\ Alive(c) /\ pc[c] = "empty"
    /\ ~Held
    /\ row' = Released(row)
    /\ pc' = [pc EXCEPT ![c] = "deferred"]
    /\ UNCHANGED <<inline, mine, died, retries, worker, history, bounds>>

\* The adapter returns or raises, and what it says is recorded; a 429, a 5xx, a
\* timeout and an adapter's bug are all "unanswered".
Answer(c, reply) ==
    /\ Alive(c) /\ pc[c] = "calling"
    /\ pc' = [pc EXCEPT ![c] = IF reply = "unanswered" THEN "unanswered" ELSE "done"]
    /\ \/ reply = "unanswered" /\ UNCHANGED row
       \/ reply = "sent" /\ ~Held /\ row' = Finalized(row, "sent")
       \/ reply = "rejected" /\ ~Held /\ row' = Finalized(row, "failed")
    /\ UNCHANGED <<inline, mine, died, retries, worker, history, bounds>>

\* schedule_send_retry: a wait for a token costs nothing.  Two arms in the same
\* second share a row.
ArmRetry(c) ==
    /\ Alive(c)
    /\ \/ pc[c] = "deferred"
       \/ pc[c] = "unanswered" /\ ~Spent(mine[c])
    /\ pending' \in {pending, pending + 1} \ {0}
    /\ pc' = [pc EXCEPT ![c] = "armed"]
    /\ UNCHANGED <<inline, row, mine, died, stopped, worker, history, bounds>>

\* _give_up, or the action could not be scheduled.
GiveUp(c) ==
    /\ Alive(c) /\ pc[c] \in {"deferred", "unanswered"}
    /\ ~Held
    /\ row' = FinalizedIfQueued(row, "failed")
    /\ pc' = [pc EXCEPT ![c] = "done"]
    /\ UNCHANGED <<inline, mine, died, retries, worker, history, bounds>>

\* Mutant: the status is saved whatever it has become.
RequeueAnyway(c) ==
    /\ Alive(c) /\ pc[c] = "armed"
    /\ ~Held
    /\ row' = Finalized(row, "queued")
    /\ pc' = [pc EXCEPT ![c] = "done"]
    /\ UNCHANGED <<inline, mine, died, retries, worker, history, bounds>>

\* The end of _defer: if somebody decided meanwhile, the retries are disarmed.
Requeue(c) ==
    /\ Alive(c) /\ pc[c] = "armed"
    /\ ~Held
    /\ pending' = IF row.status = "queued" THEN pending ELSE 0
    /\ pc' = [pc EXCEPT ![c] = "done"]
    /\ UNCHANGED <<inline, row, mine, died, stopped, worker, history, bounds>>

Die(c) ==
    /\ Alive(c) /\ pc[c] \notin {"idle", "done"}
    /\ mishaps < MaxMishaps
    /\ mishaps' = mishaps + 1
    /\ died' = died \cup {c}
    /\ UNCHANGED <<inline, row, pc, mine, retries, worker, history, deferrals>>

-----------------------------------------------------------------------------
(* The worker's transactions.                                              *)

\* The transaction is over, or has come to its end with d written.
Write(phase, d) == wphase' = phase /\ draft' = d

\* What _dispatch makes of a row that may be claimed: refused (deleted contact, no
\* adapter), put off for want of a token, or on its way to the provider.
Dispatch(r, again) ==
    \/ /\ Write("ending", Wrote(FinalizedIfQueued(r, "failed"), FALSE, again, FALSE))
       /\ UNCHANGED <<calls, deferrals>>
    \/ /\ Claimable(r)
       /\ deferrals < MaxDeferrals
       /\ deferrals' = deferrals + 1
       /\ Write("ending", Wrote(Released(Claimed(r)), FALSE, again, TRUE))
       /\ UNCHANGED calls
    \/ /\ Claimable(r)
       /\ Write("calling", Wrote(Claimed(r), TRUE, again, FALSE))
       /\ calls' = calls + 1
       /\ UNCHANGED deferrals
    \/ /\ ~Claimable(r)
       /\ Write("ending", Wrote(r, FALSE, again, FALSE))
       /\ UNCHANGED <<calls, deferrals>>

\* A handler sends: the row is its own until it commits.
HandlerSend(allowed) ==
    /\ handler = "pending" /\ job = "none"
    /\ handler' = "running" /\ job' = "send"
    /\ \/ allowed /\ Dispatch(Inserted, FALSE)
       \/ /\ ~allowed
          /\ Write("ending", Wrote(Finalized(Inserted, "failed"), FALSE, FALSE, FALSE))
          /\ UNCHANGED <<calls, deferrals>>
    /\ UNCHANGED <<inline, row, callers, retries, reopened, mishaps>>

StartRetry ==
    /\ pending > 0 /\ job = "none"
    /\ pending' = pending - 1
    /\ job' = "retry" /\ wphase' = "started"
    /\ UNCHANGED <<inline, row, callers, stopped, handler, draft, history, bounds>>

\* Mutant: an unknown outcome is left as it is.
PlansUnlessUnknown(r) ==
    IF r.status # "queued" \/ r.dispatched THEN {"none"}
    ELSE IF Spent(r.attempts) THEN {"refuse"} ELSE {"refuse", "resend"}

\* What handle_send_retry makes of the row it loads: nothing, if it is settled;
\* give up; refuse (no identity, compliance); a lookup finds that the call of
\* an unknown outcome got through; or send.
Plans(r) ==
    IF r.status # "queued" THEN {"none"}
    ELSE IF Spent(r.attempts) THEN {"refuse"}
    ELSE {"refuse", "resend"} \cup (IF r.dispatched /\ calls > 0 THEN {"found"} ELSE {})

LoadRetry(plan) ==
    /\ wphase = "started"
    /\ plan \in Plans(row)
    /\ wphase' = plan
    /\ job' = IF plan = "none" THEN "none" ELSE job
    /\ UNCHANGED <<inline, row, callers, retries, handler, draft, history, bounds>>

\* The first write, on the row as it is by now.
WriteRetry ==
    /\ \/ /\ wphase = "refuse"
          /\ Write("ending", Wrote(FinalizedIfQueued(row, "failed"), FALSE, FALSE, FALSE))
          /\ UNCHANGED <<calls, reopened, deferrals>>
       \/ /\ wphase = "found"
          /\ Write("ending", Wrote(Finalized(row, "sent"), FALSE, FALSE, FALSE))
          /\ UNCHANGED <<calls, reopened, deferrals>>
       \/ /\ wphase = "resend"
          /\ reopened' = reopened + 1
          /\ Dispatch([row EXCEPT !.dispatched = FALSE], TRUE)
    /\ UNCHANGED <<inline, row, callers, retries, handler, job, mishaps>>

\* Mutant: the row is queued whether or not an attempt was armed.
DeferredAnyway(d) == [d EXCEPT !.arm = ~Spent(d.row.attempts)]

Deferred(d) == IF Spent(d.row.attempts) THEN [d EXCEPT !.row = Finalized(@, "failed")]
               ELSE [d EXCEPT !.arm = TRUE]

WorkerAnswer(reply) ==
    /\ wphase = "calling"
    /\ \/ reply = "sent" /\ Write("ending", [draft EXCEPT !.row = Finalized(@, "sent")])
       \/ reply = "rejected" /\ Write("ending", [draft EXCEPT !.row = Finalized(@, "failed")])
       \/ reply = "unanswered" /\ Write("ending", Deferred(draft))
    /\ UNCHANGED <<inline, row, callers, retries, handler, job, history, bounds>>

Commit ==
    /\ wphase = "ending"
    /\ row' = draft.row
    /\ pending' \in IF draft.arm THEN {pending, pending + 1} \ {0} ELSE {pending}
    /\ handler' = IF job = "send" THEN "done" ELSE handler
    /\ job' = "none"
    /\ Write("none", NoDraft)
    /\ UNCHANGED <<inline, callers, stopped, history, bounds>>

\* Everything written is gone; the provider's call is not, but nobody knows of it.
Rollback(next) ==
    /\ job # "none"
    /\ mishaps < MaxMishaps
    /\ mishaps' = mishaps + 1
    /\ next \in {"pending", "failed"}
    /\ IF job = "send"
         THEN handler' = next /\ UNCHANGED retries
         ELSE /\ pending' = IF next = "pending" THEN pending + 1 ELSE pending
              /\ stopped' = (stopped \/ next = "failed")
              /\ UNCHANGED handler
    /\ job' = "none"
    /\ Write("none", NoDraft)
    /\ calls' = IF draft.called THEN calls - 1 ELSE calls
    /\ reopened' = IF draft.again THEN reopened - 1 ELSE reopened
    /\ UNCHANGED <<inline, row, callers, deferrals>>

\* A retry that was swept under a slow worker runs again after it is done.
Rerun ==
    /\ mishaps < MaxMishaps
    /\ mishaps' = mishaps + 1
    /\ reopened > 0 /\ job = "none"
    /\ pending' = pending + 1
    /\ UNCHANGED <<inline, row, callers, stopped, worker, history, deferrals>>

-----------------------------------------------------------------------------

\* withdraw_send, with its cancel of the retries.
WithdrawSend ==
    /\ Withdrawable(row)
    /\ ~Held
    /\ row' = Finalized(row, "withdrawn")
    /\ pending' = 0
    /\ UNCHANGED <<inline, callers, stopped, worker, history, bounds>>

\* Somebody stops the pending retries and leaves the message as it is: a cancelled
\* broadcast, or the removal of the contact.
StopRetries ==
    /\ pending > 0
    /\ pending' = 0
    /\ stopped' = TRUE
    /\ UNCHANGED <<inline, row, callers, worker, history, bounds>>

CallerStep(c) ==
    \/ Refuse(c) \/ RefuseDispatch(c) \/ Claim(c) \/ TakeToken(c) \/ BucketEmpty(c)
    \/ ReleaseClaim(c) \/ \E reply \in Reply : Answer(c, reply)
    \/ ArmRetry(c) \/ GiveUp(c) \/ Requeue(c)

WorkerStep ==
    \/ \E allowed \in BOOLEAN : HandlerSend(allowed)
    \/ StartRetry \/ \E plan \in {"none", "refuse", "found", "resend"} : LoadRetry(plan)
    \/ WriteRetry \/ \E reply \in Reply : WorkerAnswer(reply)
    \/ Commit

Next ==
    \/ \E c \in Caller : \/ \E allowed \in BOOLEAN : SendOutbound(c, allowed)
                         \/ CallerStep(c) \/ Die(c)
    \/ WorkerStep \/ \E next \in ActionStatus : Rollback(next)
    \/ Rerun \/ WithdrawSend \/ StopRetries

Spec == Init /\ [][Next]_vars

\* Requests end, the worker drains the queue; the bucket refills, which
\* MaxDeferrals says.
FairSpec == Spec /\ WF_vars(WorkerStep) /\ \A c \in Caller : WF_vars(CallerStep(c))

-----------------------------------------------------------------------------
(* Properties.                                                             *)

\* Claims that are charged as attempts before there is a call.
Open == {c \in Caller : pc[c] \in {"claimed", "empty"}}

TypeOK ==
    /\ row \in Message /\ draft \in Draft
    /\ pc \in [Caller -> {"idle", "recorded", "refused", "claimed", "empty", "calling",
                          "deferred", "unanswered", "armed", "done"}]
    /\ mine \in [Caller -> Nat] /\ died \subseteq Caller
    /\ inline \in BOOLEAN /\ stopped \in BOOLEAN
    /\ handler \in ActionStatus /\ job \in {"none", "send", "retry"}
    /\ wphase \in {"none", "started", "refuse", "found", "resend", "calling", "ending"}
    /\ {pending, calls, reopened, deferrals, mishaps} \subseteq Nat

(***************************************************************************)
(* The types, and that send_attempts counts provider calls, waits for a     *)
(* token and lost claims not included ("the budget counts provider calls   *)
(* rather than trips through this function").                              *)
(***************************************************************************)
AttemptsAreCalls ==
    /\ TypeOK
    /\ row.attempts + (IF draft.called THEN 1 ELSE 0) = calls + Cardinality(Open)

(***************************************************************************)
(* However many callers race on the key, and whatever claims they hand      *)
(* back, the provider is called once, and once more for every retry that    *)
(* re-opened the claim on purpose ("Only the winner of the second one calls *)
(* the adapter").                                                          *)
(***************************************************************************)
CallsPerOpening == calls <= 1 + reopened

(***************************************************************************)
(* A queued message has a caller at work, a retry that is armed or runs, or *)
(* a retry row that failed or was stopped, which an operator can see; the   *)
(* exception is the message whose web request died before it armed one      *)
(* (_defer: "stuck forever, with an operator staring at the wrong status"). *)
(***************************************************************************)
AtWork == \E c \in Caller \ died : pc[c] \notin {"idle", "done"}
Orphaned == \E c \in died : pc[c] # "armed"
QueuedIsMoved ==
    row.status = "queued" => pending > 0 \/ job = "retry" \/ stopped \/ AtWork \/ Orphaned

(***************************************************************************)
(* No message is resurrected: what was sent, failed or withdrawn is never   *)
(* queued again, by whatever handed its claim back or armed a retry before. *)
(***************************************************************************)
NoResurrection == [][row.status \in Settled => row'.status \in Settled]_vars

(***************************************************************************)
(* A handler's message is decided once: after it is sent, failed or         *)
(* withdrawn nothing rewrites it and no provider is called for it, not even *)
(* by a retry that had loaded it before (withdraw_send: a worker that       *)
(* claims the row in the window between them finds a message it must not    *)
(* send).                                                                  *)
(***************************************************************************)
DecidedOnce ==
    [][~inline /\ row.status \in Settled => row'.status = row.status /\ calls' <= calls]_vars

(***************************************************************************)
(* One call for each opening of the claim, and for a handler's message at   *)
(* most the calls the ladder has rungs for.                                *)
(***************************************************************************)
BudgetRespected == CallsPerOpening /\ (~inline => calls <= MaxAttempts)

(***************************************************************************)
(* A queued message is settled in the end, if no request died with it and   *)
(* no retry row failed for good or was stopped.                            *)
(***************************************************************************)
Settles == (row.status = "queued") ~> (row.status \in Settled \/ stopped \/ Orphaned)

(***************************************************************************)
(* A message whose call was made and never answered has a retry to ask      *)
(* about it, or a request still at work (module docstring: "a crash         *)
(* mid-call leaves a queued row a retry can find").                        *)
(***************************************************************************)
QueuedIsFound ==
    row.status = "queued" /\ row.dispatched /\ calls > 0
        => pending > 0 \/ job = "retry" \/ stopped \/ AtWork
=============================================================================

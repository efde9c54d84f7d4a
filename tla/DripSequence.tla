---------------------------- MODULE DripSequence ----------------------------
(***************************************************************************)
(* Drip sequences (apps/campaigns): people enrolled in one sequence, the    *)
(* queue rows of their next steps, the handler that runs a step and moves   *)
(* the enrollment on (handlers.py), the requests that subscribe and         *)
(* unsubscribe meanwhile (services.py), the repair sweep (housekeeping.py)  *)
(* and edits of the sequence itself.                                        *)
(*                                                                         *)
(* The handler's transaction is in flight between BeginStep and FinishStep: *)
(* it holds the contact's lock and the enrollment row, and writes back the  *)
(* copy it read.  Requests read the active enrollment without a lock and    *)
(* save it later.  A row is named by its idempotency key, the enrollment    *)
(* and the position.  Time is left out: a due row may run at any moment.     *)
(***************************************************************************)
EXTENDS Naturals

CONSTANTS
    Subscriber,      \* contacts
    Enrollment,      \* enrollments that may ever be created
    SubscriberOf,    \* [Enrollment -> Subscriber]
    Request,         \* web requests and flow verbs running at once
    MaxSteps,        \* bound: steps of the sequence (MAX_STEPS in the code)
    StepAttempts     \* max_attempts of a step's row

ASSUME SequenceAssumption ==
    /\ Enrollment \subseteq Nat \ {0}
    /\ SubscriberOf \in [Enrollment -> Subscriber]
    /\ MaxSteps \in Nat
    /\ StepAttempts \in Nat \ {0}

VARIABLES
    seqStatus,       \* "draft", "active", "archived" or "deleted"
    ladder,          \* how many steps it has; position p exists iff p <= ladder
    goneContacts,    \* SUBSET Subscriber, soft-deleted
    enrollment,      \* [Enrollment -> [status, current]], committed
    seqRow,          \* [StepKey -> RowStatus], their queue rows
    strikes,         \* [StepKey -> Nat], attempts column of the row
    handling,        \* [Enrollment -> the handler transaction in flight]
    request,         \* [Request -> a request between its read and its save]
    runs,            \* [StepKey -> Nat], committed starts of the step (history)
    stopped          \* SUBSET Enrollment: unsubscribed by a request (history)

editVars == <<seqStatus, ladder>>
rowVars  == <<seqRow, strikes>>
pastVars == <<runs, stopped>>
seqVars  == <<editVars, goneContacts, enrollment, rowVars, handling, request, pastVars>>

StepKey == Enrollment \X (1..MaxSteps)
EnrollmentStatus == {"none", "active", "completed", "unsubscribed", "deleted"}
RowStatus == {"none", "pending", "claimed", "done", "failed", "cancelled"}

NoHandler == [at |-> 0, starts |-> FALSE, verb |-> "no"]
NoRequest == [kind |-> "no", who |-> CHOOSE s \in Subscriber : TRUE, seen |-> 0]

IsActive(e)  == enrollment[e].status = "active"
ActiveOf(s)  == {e \in Enrollment : SubscriberOf[e] = s /\ IsActive(e)}
CurrentStep(e) == <<e, enrollment[e].current>>

Held(e) == handling[e].at # 0

\* Mutant: the handler reads the enrollment without FOR UPDATE.
ReadUnlocked(e) == FALSE

\* The enrollment row is locked, and a save of it waits.
RowLocked(e) == Held(e)

\* The worker holds the contact's advisory lock.
ContactBusy(s) == \E e \in Enrollment : SubscriberOf[e] = s /\ handling[e].at # 0

SeqInit ==
    /\ seqStatus = "active"
    /\ ladder = MaxSteps
    /\ goneContacts = {}
    /\ enrollment = [e \in Enrollment |-> [status |-> "none", current |-> 1]]
    /\ seqRow = [k \in StepKey |-> "none"]
    /\ strikes = [k \in StepKey |-> 0]
    /\ handling = [e \in Enrollment |-> NoHandler]
    /\ request = [r \in Request |-> NoRequest]
    /\ runs = [k \in StepKey |-> 0]
    /\ stopped = {}

-----------------------------------------------------------------------------
(* Queue rows.                                                             *)

\* schedule() by key: an existing row, whatever its status, is left as it is.
Enqueued(rows, k) == [rows EXCEPT ![k] = IF @ = "none" THEN "pending" ELSE @]

\* Mutant: the steps of every enrollment of the contact are cancelled.
StepsOfContact(e) == {k \in StepKey : SubscriberOf[k[1]] = SubscriberOf[e]}

StepsOf(e) == {k \in StepKey : k[1] = e}

CancelledIn(rows, keys) ==
    [k \in StepKey |-> IF k \in keys /\ rows[k] = "pending" THEN "cancelled" ELSE rows[k]]

\* What _retire writes, whatever the row says by now.
Retired(e) == [enrollment EXCEPT ![e].status = "unsubscribed"]

-----------------------------------------------------------------------------
(* Subscribing and unsubscribing: a read, then a save that waits for the    *)
(* handler's row lock.                                                      *)

BeginRequest(r, kind, s) ==
    /\ request[r] = NoRequest
    /\ seqStatus # "deleted"
    /\ IF kind = "subscribe" THEN seqStatus = "active" ELSE ActiveOf(s) # {}
    /\ s \notin goneContacts
    /\ \E seen \in IF ActiveOf(s) = {} THEN {0} ELSE ActiveOf(s) :
          request' = [request EXCEPT ![r] = [kind |-> kind, who |-> s, seen |-> seen]]
    /\ UNCHANGED <<editVars, goneContacts, enrollment, rowVars, handling, pastVars>>

Saves(r, kind) ==
    /\ request[r].kind = kind
    /\ request[r].seen # 0 => ~RowLocked(request[r].seen)
    /\ request' = [request EXCEPT ![r] = NoRequest]

\* Nobody was enrolled, or the enrollment has been deleted since.
Vanished(e) == e = 0 \/ (e # 0 /\ enrollment[e].status = "deleted")

Unsubscribe(r) ==
    LET e == request[r].seen
    IN  /\ Saves(r, "unsubscribe")
        /\ IF Vanished(e)
           THEN UNCHANGED <<enrollment, seqRow, stopped>>
           ELSE /\ enrollment' = Retired(e)
                /\ seqRow' = CancelledIn(seqRow, StepsOf(e))
                /\ stopped' = stopped \cup {e}
        /\ UNCHANGED <<editVars, goneContacts, strikes, handling, runs>>

\* The partial unique index allows one active enrollment per contact.
Fresh(s) == {e \in Enrollment : SubscriberOf[e] = s /\ enrollment[e].status = "none"}

\* With no step to begin at, the enrollment is over at once.
FirstStatus == IF ladder = 0 THEN "completed" ELSE "active"
FirstStepIn(rows, e) == IF ladder = 0 THEN rows ELSE Enqueued(rows, <<e, 1>>)

\* Re-enrolling retires the enrollment that was read; a lost race is refused whole.
Subscribe(r) ==
    LET old == request[r].seen
        s == request[r].who
        kept == IF old = 0 THEN seqRow ELSE CancelledIn(seqRow, StepsOf(old))
    IN  /\ Saves(r, "subscribe")
        /\ seqStatus # "deleted"
        /\ ActiveOf(s) \subseteq {old}
        /\ \E e \in Fresh(s) :
              /\ enrollment' = [IF old = 0 THEN enrollment ELSE Retired(old)
                                  EXCEPT ![e].status = FirstStatus]
              /\ seqRow' = FirstStepIn(kept, e)
        /\ UNCHANGED <<editVars, goneContacts, strikes, handling, pastVars>>

SubscribeRefused(r) ==
    /\ Saves(r, "subscribe")
    /\ \/ seqStatus = "deleted"
       \/ ~(ActiveOf(request[r].who) \subseteq {request[r].seen})
    /\ UNCHANGED <<editVars, goneContacts, enrollment, rowVars, handling, pastVars>>

-----------------------------------------------------------------------------
(* The step handler, inside the worker's transaction.                       *)

TakeStep(k) ==
    /\ seqRow[k] = "pending"
    /\ seqRow' = [seqRow EXCEPT ![k] = "claimed"]
    /\ UNCHANGED <<editVars, goneContacts, enrollment, strikes, handling, request, pastVars>>

\* The worker has the row and the contact's lock and re-reads the enrollment.
Handles(k) == seqRow[k] = "claimed" /\ ~ContactBusy(SubscriberOf[k[1]])

\* A handler that commits is done, unless its row was given to another worker.
RowDone(rows, k) == {[rows EXCEPT ![k] = r] : r \in {"done", "claimed"}}

\* Mutant: the position of the row is not compared.
AnyTurn(k) == IsActive(k[1])

\* Still active, and at the position the row is for.
OnTurn(k) == IsActive(k[1]) /\ k = CurrentStep(k[1])

BeginStep(k) ==
    /\ Handles(k)
    /\ SubscriberOf[k[1]] \notin goneContacts
    /\ OnTurn(k)
    /\ handling' = [handling EXCEPT ![k[1]] =
                      [at |-> k[2], starts |-> k[2] <= ladder, verb |-> "no"]]
    /\ UNCHANGED <<editVars, goneContacts, enrollment, rowVars, request, pastVars>>

DropStep(k) ==
    /\ Handles(k)
    /\ SubscriberOf[k[1]] \notin goneContacts \/ enrollment[k[1]].status = "deleted"
    /\ ~OnTurn(k)
    /\ seqRow' \in RowDone(seqRow, k)
    /\ UNCHANGED <<editVars, goneContacts, enrollment, strikes, handling, request, pastVars>>

RetireStep(k) ==
    /\ Handles(k)
    /\ SubscriberOf[k[1]] \in goneContacts
    /\ enrollment[k[1]].status # "deleted"
    /\ enrollment' = Retired(k[1])
    /\ seqRow' \in RowDone(CancelledIn(seqRow, StepsOf(k[1])), k)
    /\ UNCHANGED <<editVars, goneContacts, strikes, handling, request, pastVars>>

\* The flow the step starts runs an unsubscribe_sequence action: the enrollment
\* is retired inside the handler's own transaction, which FinishStep undoes.
FlowUnsubscribes(e) ==
    /\ handling[e].starts
    /\ handling[e].verb = "no"
    /\ handling' = [handling EXCEPT ![e].verb = "unsubscribed"]
    /\ UNCHANGED <<editVars, goneContacts, enrollment, rowVars, request, pastVars>>

\* Or a subscribe_sequence action: this enrollment is retired for a new one.  A
\* handler performs one such action (a bound).
FlowResubscribes(e) ==
    /\ handling[e].starts
    /\ handling[e].verb = "no"
    /\ seqStatus = "active"
    /\ handling' = [handling EXCEPT ![e].verb = "resubscribed"]
    /\ UNCHANGED <<editVars, goneContacts, enrollment, rowVars, request, pastVars>>

MovedOn(e) == handling[e].at + 1

\* _advance: the copy read at the start is written back, one position on, over
\* whatever the transaction itself did to the row; the next step is enqueued.
FinishStep(e) ==
    LET next == MovedOn(e)
        more == next <= ladder
        key == <<e, handling[e].at>>
    IN  /\ Held(e)
        /\ handling[e].verb # "resubscribed"
        /\ enrollment' = [enrollment EXCEPT ![e] =
                            [status |-> IF more THEN "active" ELSE "completed", current |-> next]]
        /\ \E rows \in RowDone(seqRow, key) :
              seqRow' = IF more THEN Enqueued(rows, <<e, next>>) ELSE rows
        /\ handling' = [handling EXCEPT ![e] = NoHandler]
        /\ runs' = IF handling[e].starts THEN [runs EXCEPT ![key] = @ + 1] ELSE runs
        /\ UNCHANGED <<editVars, goneContacts, strikes, request, stopped>>

\* After a re-enrollment, saving this one as active would violate the unique index
\* and raise; on its last step it completes, next to the new one.
FinishResubscribed(e) ==
    LET key == <<e, handling[e].at>>
    IN  /\ Held(e)
        /\ handling[e].verb = "resubscribed"
        /\ MovedOn(e) > ladder
        /\ \E d \in Fresh(SubscriberOf[e]), rows \in RowDone(seqRow, key) :
              /\ enrollment' = [enrollment EXCEPT
                                  ![e] = [status |-> "completed", current |-> MovedOn(e)],
                                  ![d].status = FirstStatus]
              /\ seqRow' = FirstStepIn(rows, d)
        /\ handling' = [handling EXCEPT ![e] = NoHandler]
        /\ runs' = [runs EXCEPT ![key] = @ + 1]
        /\ UNCHANGED <<editVars, goneContacts, strikes, request, stopped>>

\* The handler raises, or its worker dies and the zombie sweep takes the row.
RollBackStep(e) ==
    LET key == <<e, handling[e].at>>
    IN  /\ Held(e)
        /\ handling' = [handling EXCEPT ![e] = NoHandler]
        /\ strikes' = [strikes EXCEPT ![key] = @ + 1]
        /\ seqRow' = [seqRow EXCEPT ![key] =
                        IF strikes[key] + 1 < StepAttempts THEN "pending" ELSE "failed"]
        /\ UNCHANGED <<editVars, goneContacts, enrollment, request, pastVars>>

-----------------------------------------------------------------------------
(* The sweep, contact deletion and edits.                                   *)

\* Mutant: the sweep only enqueues.
RetireNobody(e) == FALSE

RetireIfContactGone(e) == SubscriberOf[e] \in goneContacts

\* FOR UPDATE SKIP LOCKED: a row a handler holds is left for the next run.
SweepEnrollment(e) ==
    /\ IsActive(e)
    /\ ~Held(e)
    /\ IF RetireIfContactGone(e)
       THEN /\ enrollment' = Retired(e)
            /\ seqRow' = CancelledIn(seqRow, StepsOf(e))
       ELSE /\ seqRow' = Enqueued(seqRow, CurrentStep(e))
            /\ UNCHANGED enrollment
    /\ UNCHANGED <<editVars, goneContacts, strikes, handling, request, pastVars>>

\* stand_down cancels every pending row of the contact, under its lock.
DeleteContact(s) ==
    /\ s \notin goneContacts
    /\ ~ContactBusy(s)
    /\ goneContacts' = goneContacts \cup {s}
    /\ seqRow' = CancelledIn(seqRow, {k \in StepKey : SubscriberOf[k[1]] = s})
    /\ UNCHANGED <<editVars, enrollment, strikes, handling, request, pastVars>>

SetStatus(status) ==
    /\ seqStatus \notin {status, "deleted"}
    /\ status = "active" => ladder > 0
    /\ seqStatus' = status
    /\ UNCHANGED <<ladder, goneContacts, enrollment, rowVars, handling, request, pastVars>>

\* Adding a step, or deleting one: the others close the gap and enrollments stay
\* at their positions.  Moving a step changes no position's existence.
EditSteps(n) ==
    /\ seqStatus # "deleted"
    /\ n \in {ladder - 1, ladder + 1} \cap (0..MaxSteps)
    /\ ladder' = n
    /\ UNCHANGED <<seqStatus, goneContacts, enrollment, rowVars, handling, request, pastVars>>

\* The enrollments go with it; their rows are cancelled first.
DeleteSequence ==
    /\ seqStatus # "deleted"
    /\ \A e \in Enrollment : ~Held(e)
    /\ seqStatus' = "deleted"
    /\ seqRow' = CancelledIn(seqRow, {k \in StepKey : IsActive(k[1])})
    /\ enrollment' = [e \in Enrollment |-> IF enrollment[e].status = "none" THEN enrollment[e]
                                           ELSE [enrollment[e] EXCEPT !.status = "deleted"]]
    /\ UNCHANGED <<ladder, goneContacts, strikes, handling, request, pastVars>>

-----------------------------------------------------------------------------
Handle(e) == FinishStep(e) \/ FinishResubscribed(e) \/ RollBackStep(e)

Work(k) == TakeStep(k) \/ BeginStep(k) \/ DropStep(k) \/ RetireStep(k)

SeqNext ==
    \/ \E r \in Request, s \in Subscriber, kind \in {"subscribe", "unsubscribe"} :
          BeginRequest(r, kind, s)
    \/ \E r \in Request : Unsubscribe(r) \/ Subscribe(r) \/ SubscribeRefused(r)
    \/ \E k \in StepKey : Work(k)
    \/ \E e \in Enrollment : \/ FlowUnsubscribes(e) \/ FlowResubscribes(e)
                             \/ Handle(e) \/ SweepEnrollment(e)
    \/ \E s \in Subscriber : DeleteContact(s)
    \/ \E status \in {"draft", "active", "archived"} : SetStatus(status)
    \/ \E n \in 0..MaxSteps : EditSteps(n)
    \/ DeleteSequence

SeqSpec == SeqInit /\ [][SeqNext]_seqVars

(***************************************************************************)
(* Workers take due rows and handle them, a handler ends, and the hourly    *)
(* sweep comes round.  Nothing obliges anybody to subscribe or edit.        *)
(***************************************************************************)
SeqFairness ==
    /\ \A k \in StepKey : WF_seqVars(Work(k))
    /\ \A e \in Enrollment : WF_seqVars(Handle(e)) /\ WF_seqVars(SweepEnrollment(e))

-----------------------------------------------------------------------------
(* Properties.                                                             *)

\* Types of all variables.
SeqTypeOK ==
    /\ seqStatus \in {"draft", "active", "archived", "deleted"}
    /\ ladder \in 0..MaxSteps
    /\ goneContacts \in SUBSET Subscriber
    /\ enrollment \in [Enrollment -> [status : EnrollmentStatus, current : 1..(MaxSteps + 1)]]
    /\ seqRow \in [StepKey -> RowStatus]
    /\ strikes \in [StepKey -> 0..StepAttempts]
    /\ handling \in [Enrollment -> [at : 0..MaxSteps, starts : BOOLEAN,
                                    verb : {"no", "unsubscribed", "resubscribed"}]]
    /\ request \in [Request -> [kind : {"no", "subscribe", "unsubscribe"},
                                who : Subscriber, seen : Enrollment \cup {0}]]
    /\ runs \in [StepKey -> Nat]
    /\ stopped \in SUBSET Enrollment

(***************************************************************************)
(* A step runs at most once per enrollment, although a queue row may be     *)
(* handled twice and steps are deleted and added under people's feet.       *)
(***************************************************************************)
StepRunsOnce == \A k \in StepKey : runs[k] <= 1

(***************************************************************************)
(* SPEC 12, "unsubscribe stops future steps": once a request's unsubscribe  *)
(* has committed, no step of that enrollment starts, also when it raced a   *)
(* handler that had read the enrollment as active.  (An unsubscribe by the  *)
(* step's own flow does not stick: FinishStep saves the older copy.)        *)
(***************************************************************************)
UnsubscribeSticks ==
    [][\A k \in StepKey : k[1] \in stopped => runs'[k] = runs[k]]_seqVars

(***************************************************************************)
(* An active enrollment of somebody who still exists has the queue row of   *)
(* its current step, waiting, running, or failed for good: no unsubscribe,  *)
(* re-enrollment or edit cancels the row of an enrollment that goes on.      *)
(***************************************************************************)
ActiveIsArmed ==
    \A e \in Enrollment : IsActive(e) /\ SubscriberOf[e] \notin goneContacts =>
        seqRow[CurrentStep(e)] \in {"pending", "claimed", "failed"}

(***************************************************************************)
(* Nobody stays on a sequence for ever: an enrollment ends, unless the row  *)
(* of its current step has spent its attempts (which no sweep repairs, since *)
(* the row still holds the key).                                             *)
(***************************************************************************)
WalksEnd ==
    \A e \in Enrollment :
        IsActive(e) ~> (~IsActive(e) \/ seqRow[CurrentStep(e)] = "failed")
=============================================================================

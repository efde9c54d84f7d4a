----------------------------- MODULE StripeEvents -----------------------------
(***************************************************************************)
(* Subscription events from Stripe (apps/billing/events.py) applied to the  *)
(* billing row of one organization, and the job that asks Stripe about      *)
(* checkouts nobody heard of again (apps/billing/housekeeping.py).          *)
(*                                                                         *)
(* Stripe stamps its events with the second they were created in, delivers  *)
(* them in any order, more than once and also at the same time; a delivery  *)
(* may die at any step.  No step holds a lock: the row is read, compared,   *)
(* and saved whole.                                                        *)
(***************************************************************************)
EXTENDS Naturals

CONSTANTS
    LastEvent,     \* bound: events Stripe emits
    Hook           \* bound: deliveries handled at once

ASSUME StripeAssumption == LastEvent \in Nat

VARIABLES
    emitted,       \* 0..LastEvent, Stripe's own state
    created,       \* [StripeEvent -> its second], by Stripe's clock
    eventRow,      \* [1..LastEvent -> EventStatus], StripeEventLog
    billing,       \* the BillingCustomer row: [shows, last, pending]
    hook,          \* [Hook -> a delivery: the event, where it is, the row it read]
    snapshot,      \* the reconcile job: where it is, its row, Stripe's answer
    raced          \* a save went over somebody else's since its read (history)

stripeVars == <<emitted, created, eventRow, billing, hook, snapshot, raced>>

StripeEvent == 1..LastEvent
\* Events come about one after another, several perhaps within one second.
Seconds == {f \in [StripeEvent -> StripeEvent] : \A i, j \in StripeEvent : i <= j => f[i] <= f[j]}
\* "old": RECEIVED for more than STALE_RECEIVED_MINUTES.
EventStatus == {"no", "received", "old", "processed", "failed"}

\* `shows` is the event whose state the row has, `last` the second in last_event_at.
NoBilling == [shows |-> 0, last |-> 0, pending |-> FALSE]
NoHook    == [ev |-> 0, at |-> "no", copy |-> NoBilling]
NoAnswer  == [at |-> "no", copy |-> NoBilling, answer |-> 0]

StripeInit ==
    /\ emitted = 0
    /\ created \in Seconds
    /\ eventRow = [ev \in StripeEvent |-> "no"]
    /\ billing = NoBilling
    /\ hook = [h \in Hook |-> NoHook]
    /\ snapshot = NoAnswer
    /\ raced = FALSE

Emit ==
    /\ emitted < LastEvent
    /\ emitted' = emitted + 1
    /\ UNCHANGED <<created, eventRow, billing, hook, snapshot, raced>>

\* A column of its own, and refused while one is pending.
StartCheckout ==
    /\ ~billing.pending
    /\ billing' = [billing EXCEPT !.pending = TRUE]
    /\ UNCHANGED <<emitted, created, eventRow, hook, snapshot, raced>>

-----------------------------------------------------------------------------
(* A delivery.                                                             *)

ClaimEvent(h, ev) ==
    /\ hook[h] = NoHook
    /\ ev <= emitted
    /\ eventRow[ev] = "no"
    /\ eventRow' = [eventRow EXCEPT ![ev] = "received"]
    /\ hook' = [hook EXCEPT ![h] = [NoHook EXCEPT !.ev = ev, !.at = "read"]]
    /\ UNCHANGED <<emitted, created, billing, snapshot, raced>>

\* A redelivery of one that failed, or was received long ago and never finished;
\* the row stays as it is until the end.
RetryEvent(h, ev) ==
    /\ hook[h] = NoHook
    /\ eventRow[ev] \in {"failed", "old"}
    /\ hook' = [hook EXCEPT ![h] = [NoHook EXCEPT !.ev = ev, !.at = "read"]]
    /\ UNCHANGED <<emitted, created, eventRow, billing, snapshot, raced>>

GrowOld(ev) ==
    /\ eventRow[ev] = "received"
    /\ eventRow' = [eventRow EXCEPT ![ev] = "old"]
    /\ UNCHANGED <<emitted, created, billing, hook, snapshot, raced>>

ReadCustomer(h) ==
    /\ hook[h].at = "read"
    /\ hook' = [hook EXCEPT ![h].at = "write", ![h].copy = billing]
    /\ UNCHANGED <<emitted, created, eventRow, billing, snapshot, raced>>

\* Mutant: events are applied in the order they arrive.
InOrderAlways(ev, row) == TRUE

\* Stale is what was created in an earlier second; a tie goes to the later arrival.
InOrder(ev, row) == created[ev] >= row.last

WriteCustomer(h) ==
    /\ hook[h].at = "write"
    /\ IF InOrder(hook[h].ev, hook[h].copy)
       THEN /\ billing' = [shows |-> hook[h].ev, last |-> created[hook[h].ev], pending |-> FALSE]
            /\ raced' = (raced \/ billing # hook[h].copy)
       ELSE UNCHANGED <<billing, raced>>
    /\ hook' = [hook EXCEPT ![h].at = "finish", ![h].copy = NoBilling]
    /\ UNCHANGED <<emitted, created, eventRow, snapshot>>

FinishEvent(h) ==
    /\ hook[h].at = "finish"
    /\ eventRow' = [eventRow EXCEPT ![hook[h].ev] = "processed"]
    /\ hook' = [hook EXCEPT ![h] = NoHook]
    /\ UNCHANGED <<emitted, created, billing, snapshot, raced>>

\* It raises, or its process dies without saying so.
FailEvent(h) ==
    /\ hook[h].at \in {"read", "write"}
    /\ eventRow' = [eventRow EXCEPT ![hook[h].ev] = "failed"]
    /\ hook' = [hook EXCEPT ![h] = NoHook]
    /\ UNCHANGED <<emitted, created, billing, snapshot, raced>>

HookDies(h) ==
    /\ hook[h].at # "no"
    /\ hook' = [hook EXCEPT ![h] = NoHook]
    /\ UNCHANGED <<emitted, created, eventRow, billing, snapshot, raced>>

-----------------------------------------------------------------------------
(* reconcile_pending_checkouts, for this row.                              *)

SelectPending ==
    /\ snapshot.at = "no"
    /\ billing.pending
    /\ snapshot' = [NoAnswer EXCEPT !.at = "ask", !.copy = billing]
    /\ UNCHANGED <<emitted, created, eventRow, billing, hook, raced>>

\* With no answer the row is left for the next run.
AskStripe ==
    /\ snapshot.at = "ask"
    /\ snapshot' \in {NoAnswer, [snapshot EXCEPT !.at = "save", !.answer = emitted]}
    /\ UNCHANGED <<emitted, created, eventRow, billing, hook, raced>>

\* apply_snapshot: no comparison, and last_event_at stays as it was read.
SaveSnapshot ==
    /\ snapshot.at = "save"
    /\ billing' = [shows |-> snapshot.answer, last |-> snapshot.copy.last, pending |-> FALSE]
    /\ raced' = (raced \/ billing # snapshot.copy)
    /\ snapshot' = NoAnswer
    /\ UNCHANGED <<emitted, created, eventRow, hook>>

-----------------------------------------------------------------------------
StripeNext ==
    \/ Emit \/ StartCheckout
    \/ \E h \in Hook : \/ \E ev \in StripeEvent : ClaimEvent(h, ev) \/ RetryEvent(h, ev)
                       \/ ReadCustomer(h) \/ WriteCustomer(h) \/ FinishEvent(h)
                       \/ FailEvent(h) \/ HookDies(h)
    \/ \E ev \in StripeEvent : GrowOld(ev)
    \/ SelectPending \/ AskStripe \/ SaveSnapshot

StripeSpec == StripeInit /\ [][StripeNext]_stripeVars

-----------------------------------------------------------------------------
(* Properties.                                                             *)

BillingRow == [shows : 0..LastEvent, last : 0..LastEvent, pending : BOOLEAN]

\* Types of all variables.
StripeTypeOK ==
    /\ emitted \in 0..LastEvent
    /\ created \in Seconds
    /\ eventRow \in [StripeEvent -> EventStatus]
    /\ billing \in BillingRow
    /\ hook \in [Hook -> [ev : 0..LastEvent, at : {"no", "read", "write", "finish"},
                          copy : BillingRow]]
    /\ snapshot \in [at : {"no", "ask", "save"}, copy : BillingRow, answer : 0..LastEvent]
    /\ raced \in BOOLEAN

Settled ==
    /\ \A ev \in 1..emitted : eventRow[ev] = "processed"
    /\ \A h \in Hook : hook[h] = NoHook
    /\ snapshot = NoAnswer

\* The second a state of Stripe's is from.
Moment(ev) == IF ev = 0 THEN 0 ELSE created[ev]

(***************************************************************************)
(* "A stale event is recorded and dropped rather than being allowed to      *)
(* resurrect an old state" (events.py): when every event is processed, in   *)
(* whatever order, twice or after failures, and with snapshots in between,  *)
(* the row shows the newest, or one created in the same second: of those    *)
(* the one that arrived last stands, however old.  This needs the saves to  *)
(* have been one after another: nothing in the code orders two that         *)
(* overlap.                                                                *)
(***************************************************************************)
NewestEventStands == Settled /\ ~raced => Moment(billing.shows) = Moment(emitted)
=============================================================================

------------------------------- MODULE Erasure -------------------------------
(***************************************************************************)
(* Erasing a contact for good (apps/contacts/erasure.py): requests that     *)
(* record the erasure, hide the contact and then tear it down themselves or *)
(* leave that to the queue.  What goes wrong anywhere on the way must not   *)
(* leave a hidden contact whose data nobody can remove any more.            *)
(*                                                                         *)
(* A request whose work no queue row will do is not known to be at work: a  *)
(* second one fails its record and makes its own, and then the first cannot *)
(* run, for a contact has one live record.                                  *)
(***************************************************************************)
EXTENDS Naturals

CONSTANTS
    Asker,         \* requests; each keeps the record and the queue row it made
    MaxMishaps,    \* bound: deaths and failures
    JobAttempts    \* attempts of a queue row

ASSUME ErasureAssumption == MaxMishaps \in Nat /\ JobAttempts \in Nat \ {0}

VARIABLES
    asker,         \* [Asker -> [at, queued, hidden]], requests in flight
    record,        \* [Asker -> RecordStatus], ContactErasure rows
    job,           \* [Asker -> JobState], contact_erasure queue rows
    tries,         \* [Asker -> 0..JobAttempts], attempts its row has had
    tombstone,     \* the contact is soft-deleted
    erased,        \* the contact's row is gone
    mishaps

eraseVars == <<asker, record, job, tries, tombstone, erased, mishaps>>

\* A record is "running" only within the transaction that makes it "done".
RecordStatus == {"none", "pending", "failed", "done"}
JobState == {"none", "pending", "claimed", "done", "failed"}

\* `hidden`: the request loaded a contact that was a tombstone already.
NoAsker == [at |-> "no", queued |-> FALSE, hidden |-> FALSE]

EraseInit ==
    /\ asker = [a \in Asker |-> NoAsker]
    /\ record = [a \in Asker |-> "none"]
    /\ job = [a \in Asker |-> "none"]
    /\ tries = [a \in Asker |-> 0]
    /\ tombstone = FALSE
    /\ erased = FALSE
    /\ mishaps = 0

LiveRecords == {a \in Asker : record[a] = "pending"}
Armed(a) == job[a] \in {"pending", "claimed"}
Mishap == mishaps < MaxMishaps /\ mishaps' = mishaps + 1

-----------------------------------------------------------------------------
(* begin.                                                                  *)

\* Mutant: a record that is not going to finish is left as it is.
ReclaimedNone == record

\* _reclaim_stale, when no queue row is armed.
Reclaimed == [a \in Asker |-> IF a \in LiveRecords THEN "failed" ELSE record[a]]

\* The reclaim refuses while a live record has a queue row to run it.  An asker
\* comes again once its own record and queue row are over.
Ask(a) ==
    /\ asker[a] = NoAsker
    /\ record[a] # "pending"
    /\ ~Armed(a)
    /\ ~erased
    /\ LiveRecords # {} => \A b \in Asker : ~Armed(b)
    /\ record' = Reclaimed
    /\ \E queued \in BOOLEAN :
         asker' = [asker EXCEPT ![a] = [at |-> "create", queued |-> queued, hidden |-> tombstone]]
    /\ UNCHANGED <<job, tries, tombstone, erased, mishaps>>

\* The partial unique index allows one live record; a request that lost is refused.
CreateRecord(a) ==
    /\ asker[a].at = "create"
    /\ IF LiveRecords = {}
       THEN /\ record' = [record EXCEPT ![a] = "pending"]
            /\ job' = [job EXCEPT ![a] = "none"]
            /\ asker' = [asker EXCEPT ![a].at = "prepare"]
       ELSE /\ asker' = [asker EXCEPT ![a] = NoAsker]
            /\ UNCHANGED <<record, job>>
    /\ UNCHANGED <<tries, tombstone, erased, mishaps>>

\* stand_down cancels what is queued for the contact; then the tombstone, and the
\* queue row if the work is left to one.  Hiding a contact that is gone raises,
\* but a copy that was hidden already is not saved.
Prepare(a) ==
    LET calm == [b \in Asker |-> IF job[b] = "pending" THEN "none" ELSE job[b]]
    IN  /\ asker[a].at = "prepare"
        /\ IF erased /\ ~asker[a].hidden
           THEN asker' = [asker EXCEPT ![a] = NoAsker] /\ UNCHANGED <<job, tries, tombstone>>
           ELSE /\ tombstone' = TRUE
                /\ job' = IF asker[a].queued THEN [calm EXCEPT ![a] = "pending"] ELSE calm
                /\ tries' = [tries EXCEPT ![a] = 0]
                /\ asker' = [asker EXCEPT ![a] = IF asker[a].queued THEN NoAsker
                                                 ELSE [@ EXCEPT !.at = "run"]]
        /\ UNCHANGED <<record, erased, mishaps>>

-----------------------------------------------------------------------------
(* run: one transaction under the contact's lock, in a request or a worker. *)

\* Its first statement makes the record "running", which the partial unique index
\* refuses while another record is live: one that was reclaimed may not run then.
NoRival(a) == LiveRecords \subseteq {a}

\* The contact's row goes, the record is done, and other queue rows of the
\* contact are purged unless they are running.
TearDown(a) ==
    /\ erased' = TRUE
    /\ record' = [record EXCEPT ![a] = "done"]
    /\ job' = [b \in Asker |-> IF job[b] # "claimed" THEN "none"
                               ELSE IF b = a THEN "done" ELSE "claimed"]

RunInline(a) ==
    /\ asker[a].at = "run" /\ NoRival(a)
    /\ asker' = [asker EXCEPT ![a] = NoAsker]
    /\ TearDown(a)
    /\ UNCHANGED <<tries, tombstone, mishaps>>

\* It raises, by the index or by mishap, and the request says so outside the
\* transaction.
RunInlineFails(a) ==
    /\ asker[a].at = "run"
    /\ IF NoRival(a) THEN Mishap ELSE mishaps' = mishaps
    /\ asker' = [asker EXCEPT ![a] = NoAsker]
    /\ record' = [record EXCEPT ![a] = "failed"]
    /\ UNCHANGED <<job, tries, tombstone, erased>>

AskerDies(a) ==
    /\ asker[a] # NoAsker
    /\ Mishap
    /\ asker' = [asker EXCEPT ![a] = NoAsker]
    /\ UNCHANGED <<record, job, tries, tombstone, erased>>

TakeErasure(a) ==
    /\ job[a] = "pending"
    /\ job' = [job EXCEPT ![a] = "claimed"]
    /\ tries' = [tries EXCEPT ![a] = @ + 1]
    /\ UNCHANGED <<asker, record, tombstone, erased, mishaps>>

RunQueued(a) ==
    /\ job[a] = "claimed" /\ ~erased /\ NoRival(a)
    /\ TearDown(a)
    /\ UNCHANGED <<asker, tries, tombstone, mishaps>>

\* Somebody else has erased the contact: the record is done all the same.
RunGone(a) ==
    /\ job[a] = "claimed" /\ erased
    /\ record' = [record EXCEPT ![a] = "done"]
    /\ job' = [job EXCEPT ![a] = "done"]
    /\ UNCHANGED <<asker, tries, tombstone, erased, mishaps>>

\* Due again, or out of attempts; the record says nothing of it.
RunQueuedFails(a) ==
    /\ job[a] = "claimed"
    /\ IF erased \/ NoRival(a) THEN Mishap ELSE mishaps' = mishaps
    /\ job' = [job EXCEPT ![a] = IF tries[a] < JobAttempts THEN "pending" ELSE "failed"]
    /\ UNCHANGED <<asker, record, tries, tombstone, erased>>

-----------------------------------------------------------------------------
BeginGoesOn(a) == CreateRecord(a) \/ Prepare(a) \/ RunInline(a) \/ RunInlineFails(a)

WorkOn(a) == TakeErasure(a) \/ RunQueued(a) \/ RunGone(a) \/ RunQueuedFails(a)

EraseNext ==
    \E a \in Asker : Ask(a) \/ BeginGoesOn(a) \/ AskerDies(a) \/ WorkOn(a)

EraseSpec == EraseInit /\ [][EraseNext]_eraseVars

\* A request goes on until it is over, and workers take due rows and run them.
EraseFairness ==
    \A a \in Asker : WF_eraseVars(BeginGoesOn(a)) /\ WF_eraseVars(WorkOn(a))

-----------------------------------------------------------------------------
(* Properties.                                                             *)

\* Types of all variables.
EraseTypeOK ==
    /\ asker \in [Asker -> [at : {"no", "create", "prepare", "run"}, queued : BOOLEAN,
                          hidden : BOOLEAN]]
    /\ record \in [Asker -> RecordStatus]
    /\ job \in [Asker -> JobState]
    /\ tries \in [Asker -> 0..JobAttempts]
    /\ tombstone \in BOOLEAN
    /\ erased \in BOOLEAN
    /\ mishaps \in 0..MaxMishaps

SomebodyAsks == \E a \in Asker : Ask(a)

\* A request at work whose record another one has reclaimed.
Overtaken == \E a \in Asker : asker[a].at \in {"prepare", "run"} /\ record[a] = "failed"

(***************************************************************************)
(* No failure makes a contact unerasable (erasure.py, _reclaim_stale: "the  *)
(* personal data is still there under a tombstone ... and no way to ask     *)
(* again"): if somebody asks again whenever a request would be accepted,    *)
(* failures stop some day and so do requests that overtake one another, a   *)
(* hidden contact is erased in the end.  What was overtaken before may      *)
(* still be queued, retried or recorded as live.  Without the second        *)
(* condition it is not: two people asking in turn can fail each other for   *)
(* ever.                                                                   *)
(***************************************************************************)
EraseComesTrue ==
    <>[]~Overtaken /\ WF_eraseVars(SomebodyAsks) => (tombstone ~> erased)
=============================================================================

--------------------------- MODULE SendPipelineProofs ---------------------------
(* The theorems about SendPipeline, for any number of requests, attempts,   *)
(* deferrals and mishaps.                                                  *)
EXTENDS SendPipeline, FiniteSetTheorems, TLAPS

-----------------------------------------------------------------------------
(* What a transaction is, and what it has written so far.                  *)

WorkInv ==
    /\ job = "none" <=> wphase = "none"
    /\ ~Held => draft = NoDraft
    /\ inline <=> handler = "none"
    /\ ~inline => \A c \in Caller : pc[c] = "idle"
    /\ handler = "running" <=> job = "send"
    /\ job = "send" => Held
    /\ handler \in {"pending", "running", "failed"} =>
           row.status = "none" /\ pending = 0 /\ reopened = 0 /\ job # "retry"
    /\ row.status = "none" => row.attempts = 0 /\ row.dispatched = FALSE
    /\ wphase \in {"refuse", "found", "resend"} => row.status # "none"

DraftInv ==
    Held =>
    /\ draft.row.status \in {"queued"} \cup Settled
    /\ draft.row.attempts = row.attempts + (IF draft.called THEN 1 ELSE 0)
    /\ row.status \in Settled => draft.row.status \in Settled
    /\ row.status \in Settled /\ ~inline => draft.row.status = row.status
    /\ wphase = "calling" => /\ draft.called /\ row.status \notin Settled
                             /\ draft.row.status = "queued"
    /\ wphase = "ending" /\ draft.row.status = "queued" => draft.arm
    /\ draft.called => calls > 0
    /\ draft.again => reopened > 0

FoundInv == wphase = "found" /\ ~inline => row.status = "queued" /\ row.dispatched

IInv == TypeOK /\ WorkInv /\ DraftInv /\ FoundInv

\* The claim as a resource: what is left of it, what is in use, what was used.
Free(r) == IF r.dispatched THEN 0 ELSE 1

One(b) == IF b THEN 1 ELSE 0

CountInv == row.attempts + One(draft.called) = calls + Cardinality(Open)

ClaimInv ==
    /\ Held => calls + Cardinality(Open) + Free(draft.row) <= 1 + reopened
    /\ calls - One(draft.called) + Cardinality(Open) + Free(row)
           <= 1 + reopened - One(draft.again)

BudgetInv ==
    ~inline =>
    /\ row.attempts <= MaxAttempts
    /\ wphase = "resend" => row.attempts < MaxAttempts
    /\ Held => draft.row.attempts <= MaxAttempts

\* Who will move a queued message: a request that has won a claim, or one that may
\* still win it.
InHand == {"claimed", "empty", "calling", "deferred", "unanswered"}
Busy == \E c \in Caller \ died : pc[c] \in InHand
Waiting == \E c \in Caller \ died : pc[c] \in {"recorded", "refused"}

MovedInv ==
    row.status = "queued" =>
        pending > 0 \/ job = "retry" \/ stopped \/ Orphaned \/ Busy
        \/ (~row.dispatched /\ Waiting)

-----------------------------------------------------------------------------
(* Operators.                                                              *)

LEMMA InsertedRow ==
    /\ Inserted \in Message
    /\ Inserted.status = "queued" /\ Inserted.dispatched = FALSE /\ Inserted.attempts = 0
BY DEF Inserted, NoMessage, Message, MessageStatus

LEMMA FinalizedRow ==
    ASSUME NEW r \in Message, NEW s \in MessageStatus
    PROVE  /\ Finalized(r, s) \in Message /\ Finalized(r, s).status = s
           /\ Finalized(r, s).attempts = r.attempts /\ Finalized(r, s).dispatched = r.dispatched
BY DEF Finalized, Message

\* What _dispatch leaves behind: a call that is under way, or a row that is
\* settled or has a retry.
LEMMA DispatchCases ==
    ASSUME NEW r \in Message, r.dispatched = FALSE, r.status # "none",
           NEW again \in BOOLEAN, calls \in Nat, deferrals \in Nat,
           Dispatch(r, again)
    PROVE  /\ deferrals' \in Nat /\ draft' \in Draft
           /\ draft'.again = again
           /\ \/ /\ wphase' = "calling" /\ draft' = Wrote(Claimed(r), TRUE, again, FALSE)
                 /\ r.status = "queued" /\ calls' = calls + 1
              \/ /\ wphase' = "ending" /\ calls' = calls
                 /\ draft'.called = FALSE
                 /\ draft'.row.attempts = r.attempts
                 /\ draft'.row.dispatched = FALSE
                 /\ draft'.row.status \in {"queued"} \cup Settled
                 /\ draft'.row.status = "queued" => draft'.arm
                 /\ r.status \in Settled => draft'.row.status = r.status
<1>1. CASE /\ Write("ending", Wrote(FinalizedIfQueued(r, "failed"), FALSE, again, FALSE))
           /\ UNCHANGED <<calls, deferrals>>
  BY <1>1 DEF Write, Wrote, Draft, Message, MessageStatus, Settled, FinalizedIfQueued, Finalized
<1>2. CASE /\ Claimable(r)
           /\ deferrals' = deferrals + 1
           /\ Write("ending", Wrote(Released(Claimed(r)), FALSE, again, TRUE))
           /\ UNCHANGED calls
  <2>2. Claimed(r) \in Message /\ Claimed(r).attempts = r.attempts + 1 /\ Claimed(r).status = r.status
    BY DEF Claimed, Message
  <2>3. /\ Released(Claimed(r)) \in Message /\ Released(Claimed(r)).attempts = r.attempts
        /\ Released(Claimed(r)).status = r.status /\ Released(Claimed(r)).dispatched = FALSE
    BY <2>2 DEF Released, Message
  <2> QED  BY <1>2, <2>3 DEF Write, Wrote, Draft, Claimable, Settled
<1>3. CASE /\ Claimable(r)
           /\ Write("calling", Wrote(Claimed(r), TRUE, again, FALSE))
           /\ calls' = calls + 1
           /\ UNCHANGED deferrals
  <2>2. Claimed(r) \in Message
    BY DEF Claimed, Message
  <2> QED  BY <1>3, <2>2 DEF Write, Wrote, Draft, Claimable
<1>4. CASE /\ ~Claimable(r)
           /\ Write("ending", Wrote(r, FALSE, again, FALSE))
           /\ UNCHANGED <<calls, deferrals>>
  BY <1>4 DEF Write, Wrote, Draft, Message, MessageStatus, Settled, Claimable
<1> QED  BY <1>1, <1>2, <1>3, <1>4 DEF Dispatch

-----------------------------------------------------------------------------
(* IInv is inductive.                                                      *)

LEMMA InitInv == Init => IInv
<1> SUFFICES ASSUME Init PROVE IInv
  OBVIOUS
<1>1. NoMessage \in Message /\ NoDraft \in Draft
  BY DEF NoMessage, NoDraft, Wrote, Draft, Message, MessageStatus
<1>2. row \in Message /\ draft \in Draft /\ {pending, calls, reopened, deferrals, mishaps} \subseteq Nat
  BY <1>1 DEF Init
<1>3. handler \in ActionStatus /\ inline \in BOOLEAN
  BY DEF Init, ActionStatus
<1>4. TypeOK
  BY <1>2, <1>3, Zenon DEF Init, TypeOK
<1>5. WorkInv /\ DraftInv /\ FoundInv
  BY DEF Init, WorkInv, DraftInv, FoundInv, Held, NoMessage
<1> QED  BY <1>4, <1>5 DEF IInv

\* A request: the worker's transaction is not touched, and a row it has written
\* is changed by nobody else.
LEMMA CallerStepInv ==
    ASSUME IInv, NEW c \in Caller,
           (\E allowed \in BOOLEAN : SendOutbound(c, allowed)) \/ CallerStep(c) \/ Die(c)
    PROVE  IInv'
<1> DEFINE RowStep ==
             /\ row' \in Message
             /\ row.status # "none" => row'.status # "none"
             /\ row'.status = "none" => row'.attempts = 0 /\ row'.dispatched = FALSE
             /\ Held => /\ row'.attempts = row.attempts
                        /\ \/ row'.status = row.status
                           \/ row'.status = "queued" /\ row.status = "none"
           Counters ==
             /\ calls' \in Nat /\ calls' >= calls /\ UNCHANGED reopened
             /\ pending' \in Nat /\ deferrals' \in Nat /\ mishaps' \in Nat
           Callers ==
             /\ pc' \in [Caller -> {"idle", "recorded", "refused", "claimed", "empty", "calling",
                                    "deferred", "unanswered", "armed", "done"}]
             /\ mine' \in [Caller -> Nat] /\ died' \subseteq Caller
<1>0. TypeOK /\ WorkInv /\ DraftInv /\ FoundInv
  BY DEF IInv
<1>1. /\ row \in Message
      /\ row.status = "none" => row.attempts = 0 /\ row.dispatched = FALSE
      /\ calls \in Nat /\ pending \in Nat /\ deferrals \in Nat /\ mishaps \in Nat
      /\ pc \in [Caller -> {"idle", "recorded", "refused", "claimed", "empty", "calling",
                            "deferred", "unanswered", "armed", "done"}]
      /\ mine \in [Caller -> Nat] /\ died \subseteq Caller
  BY <1>0 DEF TypeOK, WorkInv
<1>2. inline /\ UNCHANGED <<inline, worker, stopped>> /\ RowStep /\ Counters /\ Callers
  <2>1. CASE \E allowed \in BOOLEAN : SendOutbound(c, allowed)
    <3>1. PICK allowed \in BOOLEAN : SendOutbound(c, allowed)
      BY <2>1
    <3>2. row' \in {row, Inserted} /\ (row.status # "none" => row' = row)
      BY <3>1 DEF SendOutbound
    <3>3. RowStep
      BY <1>1, <3>2, InsertedRow
    <3> QED  BY <1>1, <3>1, <3>3 DEF SendOutbound, Alive, retries, history, bounds
  <2>2. CASE Refuse(c)
    BY <1>1, <2>2 DEF Refuse, Alive, retries, history, bounds, Finalized, Message, MessageStatus
  <2>3. CASE RefuseDispatch(c)
    BY <1>1, <2>3 DEF RefuseDispatch, Alive, retries, history, bounds, FinalizedIfQueued, Finalized, Message, MessageStatus
  <2>4. CASE Claim(c)
    BY <1>1, <2>4 DEF Claim, Alive, retries, history, bounds, Claimable, Claimed, Message, MessageStatus
  <2>5. CASE TakeToken(c)
    BY <1>1, <2>5 DEF TakeToken, Alive, retries, bounds
  <2>6. CASE BucketEmpty(c)
    BY <1>1, <2>6 DEF BucketEmpty, Alive, retries, history
  <2>7. CASE ReleaseClaim(c)
    BY <1>1, <2>7 DEF ReleaseClaim, Alive, retries, history, bounds, Released, Message, MessageStatus
  <2>8. CASE \E reply \in Reply : Answer(c, reply)
    BY <1>1, <2>8 DEF Answer, Alive, retries, history, bounds, Finalized, Message, MessageStatus
  <2>9. CASE ArmRetry(c)
    BY <1>1, <2>9 DEF ArmRetry, Alive, history, bounds
  <2>10. CASE GiveUp(c)
    BY <1>1, <2>10 DEF GiveUp, Alive, retries, history, bounds, FinalizedIfQueued, Finalized, Message, MessageStatus
  <2>11. CASE Requeue(c)
    BY <1>1, <2>11 DEF Requeue, Alive, history, bounds
  <2>12. CASE Die(c)
    BY <1>1, <2>12 DEF Die, Alive, retries, history
  <2> QED  BY <2>1, <2>2, <2>3, <2>4, <2>5, <2>6, <2>7, <2>8, <2>9, <2>10, <2>11, <2>12 DEF CallerStep
<1>3. TypeOK'
  BY <1>0, <1>2 DEF TypeOK, worker
<1>4. WorkInv'
  BY <1>0, <1>2 DEF WorkInv, worker, Held
<1>5. DraftInv'
  BY <1>0, <1>2 DEF DraftInv, TypeOK, worker, Held, Settled
<1>6. FoundInv'
  BY <1>2 DEF FoundInv
<1> QED  BY <1>3, <1>4, <1>5, <1>6 DEF IInv

\* The transactions, one lemma for each step.
LEMMA HandlerSendInv ==
    ASSUME IInv, NEW allowed \in BOOLEAN, HandlerSend(allowed)
    PROVE  IInv'
<1>0. TypeOK /\ WorkInv /\ DraftInv /\ FoundInv
  BY DEF IInv
<1>1. /\ row \in Message /\ draft \in Draft
      /\ calls \in Nat /\ reopened \in Nat /\ pending \in Nat /\ deferrals \in Nat /\ mishaps \in Nat
      /\ handler \in ActionStatus /\ stopped \in BOOLEAN /\ inline \in BOOLEAN
  BY <1>0 DEF TypeOK
<1>2. /\ handler = "pending" /\ job = "none" /\ handler' = "running" /\ job' = "send"
      /\ UNCHANGED <<inline, row, callers, retries, reopened, mishaps>>
  BY DEF HandlerSend
<1>3. /\ deferrals' \in Nat /\ draft' \in Draft /\ draft'.again = FALSE
      /\ \/ /\ wphase' = "calling" /\ draft' = Wrote(Claimed(Inserted), TRUE, FALSE, FALSE)
            /\ calls' = calls + 1
         \/ /\ wphase' = "ending" /\ calls' = calls
            /\ draft'.called = FALSE /\ draft'.row.attempts = 0
            /\ draft'.row.status \in {"queued"} \cup Settled
            /\ draft'.row.status = "queued" => draft'.arm
  <2>1. CASE Dispatch(Inserted, FALSE)
    BY <1>1, <2>1, DispatchCases, InsertedRow
  <2>2. CASE /\ Write("ending", Wrote(Finalized(Inserted, "failed"), FALSE, FALSE, FALSE))
             /\ UNCHANGED <<calls, deferrals>>
    BY <1>1, <2>2, InsertedRow DEF Write, Wrote, Draft, Finalized, Message, MessageStatus, Settled
  <2> QED  BY <2>1, <2>2 DEF HandlerSend
<1>4. TypeOK'
  <2>1. calls' \in Nat
    <3>1. calls' = calls + 1 \/ calls' = calls
      BY <1>3
    <3> QED  BY <1>1, <3>1
  <2>2. wphase' \in {"calling", "ending"} /\ handler' \in ActionStatus
    BY <1>2, <1>3 DEF ActionStatus
  <2> QED  BY <1>0, <1>2, <1>3, <2>1, <2>2 DEF TypeOK, callers, retries
<1>5. row.status = "none" /\ pending = 0 /\ row.attempts = 0 /\ ~inline
  BY <1>0, <1>2 DEF WorkInv
<1>6. WorkInv'
  BY <1>0, <1>2, <1>3, <1>5 DEF WorkInv, callers, retries, Held
<1>7. DraftInv'
  BY <1>1, <1>2, <1>3, <1>5, InsertedRow DEF DraftInv, Settled, Wrote, Claimed
<1>8. FoundInv'
  BY <1>3 DEF FoundInv
<1> QED  BY <1>4, <1>6, <1>7, <1>8 DEF IInv

LEMMA StartRetryInv ==
    ASSUME IInv, StartRetry
    PROVE  IInv'
<1>0. TypeOK /\ WorkInv /\ DraftInv /\ FoundInv
  BY DEF IInv
<1>1. /\ row \in Message /\ draft \in Draft
      /\ calls \in Nat /\ reopened \in Nat /\ pending \in Nat /\ deferrals \in Nat /\ mishaps \in Nat
      /\ handler \in ActionStatus /\ stopped \in BOOLEAN /\ inline \in BOOLEAN
  BY <1>0 DEF TypeOK
<1>2. TypeOK'
  BY <1>0, <1>1 DEF StartRetry, TypeOK, callers, history, bounds
<1>3. WorkInv'
  BY <1>0, <1>1 DEF StartRetry, WorkInv, callers, Held
<1>4. DraftInv' /\ FoundInv'
  BY DEF StartRetry, DraftInv, FoundInv, Held
<1> QED  BY <1>2, <1>3, <1>4 DEF IInv

LEMMA LoadRetryInv ==
    ASSUME IInv, NEW plan \in {"none", "refuse", "found", "resend"}, LoadRetry(plan)
    PROVE  IInv'
<1>0. TypeOK /\ WorkInv /\ DraftInv /\ FoundInv
  BY DEF IInv
<1>1. /\ row \in Message /\ draft \in Draft
      /\ calls \in Nat /\ reopened \in Nat /\ pending \in Nat /\ deferrals \in Nat /\ mishaps \in Nat
      /\ handler \in ActionStatus /\ stopped \in BOOLEAN /\ inline \in BOOLEAN
  BY <1>0 DEF TypeOK
<1>2. TypeOK'
  BY <1>0, <1>1 DEF LoadRetry, TypeOK, callers, retries, history, bounds
<1>3. plan # "none" => row.status = "queued"
  BY DEF LoadRetry, Plans
<1>4. WorkInv'
  <2>1. /\ UNCHANGED <<inline, row, pc, pending, reopened, handler, draft>>
        /\ wphase = "started" /\ wphase' = plan /\ ~Held /\ ~Held'
        /\ job' = IF plan = "none" THEN "none" ELSE job
    BY DEF LoadRetry, callers, retries, history, Held
  <2>2. job # "none" /\ job # "send"
    BY <1>0, <2>1 DEF WorkInv
  <2> QED  BY <1>0, <1>3, <2>1, <2>2 DEF WorkInv
<1>5. DraftInv'
  BY DEF LoadRetry, DraftInv, Held
<1>6. FoundInv'
  BY DEF LoadRetry, FoundInv, Plans
<1> QED  BY <1>2, <1>4, <1>5, <1>6 DEF IInv

LEMMA WriteRetryInv ==
    ASSUME IInv, WriteRetry
    PROVE  IInv'
<1>0. TypeOK /\ WorkInv /\ DraftInv /\ FoundInv
  BY DEF IInv
<1>1. /\ row \in Message /\ draft \in Draft
      /\ calls \in Nat /\ reopened \in Nat /\ pending \in Nat /\ deferrals \in Nat /\ mishaps \in Nat
      /\ handler \in ActionStatus /\ stopped \in BOOLEAN /\ inline \in BOOLEAN
  BY <1>0 DEF TypeOK
<1>2. /\ UNCHANGED <<inline, row, callers, retries, handler, job, mishaps>>
      /\ wphase \in {"refuse", "found", "resend"} /\ row.status # "none"
  BY <1>0 DEF WriteRetry, WorkInv
<1>3. /\ deferrals' \in Nat /\ draft' \in Draft /\ calls' \in Nat /\ reopened' \in Nat
      /\ wphase' \in {"calling", "ending"}
      /\ draft'.row.status \in {"queued"} \cup Settled
      /\ draft'.row.attempts = row.attempts + (IF draft'.called THEN 1 ELSE 0)
      /\ row.status \in Settled => draft'.row.status \in Settled
      /\ row.status \in Settled /\ ~inline => draft'.row.status = row.status
      /\ wphase' = "calling" => /\ draft'.called /\ row.status \notin Settled
                                /\ draft'.row.status = "queued"
      /\ wphase' = "ending" /\ draft'.row.status = "queued" => draft'.arm
      /\ draft'.called => calls' > 0
      /\ draft'.again => reopened' > 0
  <2>1. CASE /\ wphase = "refuse"
             /\ Write("ending", Wrote(FinalizedIfQueued(row, "failed"), FALSE, FALSE, FALSE))
             /\ UNCHANGED <<calls, reopened, deferrals>>
    BY <1>1, <1>2, <2>1 DEF Write, Wrote, Draft, FinalizedIfQueued, Finalized, Message, MessageStatus, Settled
  <2>2. CASE /\ wphase = "found"
             /\ Write("ending", Wrote(Finalized(row, "sent"), FALSE, FALSE, FALSE))
             /\ UNCHANGED <<calls, reopened, deferrals>>
    <3>1. ~inline => row.status = "queued"
      BY <1>0, <2>2 DEF FoundInv
    <3> QED  BY <1>1, <2>2, <3>1 DEF Write, Wrote, Draft, Finalized, Message, MessageStatus, Settled
  <2>3. CASE /\ wphase = "resend"
             /\ reopened' = reopened + 1
             /\ Dispatch([row EXCEPT !.dispatched = FALSE], TRUE)
    <3> DEFINE r == [row EXCEPT !.dispatched = FALSE]
    <3>1. /\ r \in Message /\ r.dispatched = FALSE /\ r.status = row.status /\ r.attempts = row.attempts
      BY <1>1 DEF Message
    <3> HIDE DEF r
    <3>2. Dispatch(r, TRUE)
      BY <2>3 DEF r
    <3>3. /\ deferrals' \in Nat /\ draft' \in Draft
          /\ \/ /\ wphase' = "calling" /\ draft' = Wrote(Claimed(r), TRUE, TRUE, FALSE)
                /\ r.status = "queued" /\ calls' = calls + 1
             \/ /\ wphase' = "ending" /\ calls' = calls
                /\ draft'.called = FALSE /\ draft'.row.attempts = r.attempts
                /\ draft'.row.status \in {"queued"} \cup Settled
                /\ draft'.row.status = "queued" => draft'.arm
                /\ r.status \in Settled => draft'.row.status = r.status
      BY <1>1, <1>2, <3>1, <3>2, DispatchCases
    <3> QED  BY <1>1, <2>3, <3>1, <3>3 DEF Wrote, Claimed, Settled, Message
  <2> QED  BY <2>1, <2>2, <2>3 DEF WriteRetry
<1>4. TypeOK'
  BY <1>0, <1>2, <1>3 DEF TypeOK, callers, retries
<1>5. WorkInv'
  BY <1>0, <1>2, <1>3 DEF WorkInv, callers, retries, Held
<1>6. DraftInv'
  BY <1>2, <1>3 DEF DraftInv
<1>7. FoundInv'
  BY <1>3 DEF FoundInv
<1> QED  BY <1>4, <1>5, <1>6, <1>7 DEF IInv

LEMMA WorkerAnswerInv ==
    ASSUME IInv, NEW reply \in Reply, WorkerAnswer(reply)
    PROVE  IInv'
<1>0. TypeOK /\ WorkInv /\ DraftInv /\ FoundInv
  BY DEF IInv
<1>1. /\ row \in Message /\ draft \in Draft
      /\ calls \in Nat /\ reopened \in Nat /\ pending \in Nat /\ deferrals \in Nat /\ mishaps \in Nat
      /\ handler \in ActionStatus /\ stopped \in BOOLEAN /\ inline \in BOOLEAN
  BY <1>0 DEF TypeOK
<1>2. /\ UNCHANGED <<inline, row, callers, retries, handler, job, history, bounds>>
      /\ wphase = "calling" /\ wphase' = "ending"
  BY DEF WorkerAnswer, Write
<1>3. /\ draft.called /\ row.status \notin Settled /\ draft.row.status = "queued"
      /\ draft.row.attempts = row.attempts + 1 /\ calls > 0 /\ (draft.again => reopened > 0)
  BY <1>0, <1>2 DEF DraftInv, Held
<1>4. /\ draft' \in Draft /\ draft'.called /\ draft'.again = draft.again
      /\ draft'.row.attempts = draft.row.attempts
      /\ draft'.row.status \in {"queued"} \cup Settled
      /\ draft'.row.status = "queued" => draft'.arm
  <2>1. ASSUME NEW s \in {"sent", "failed"}, draft' = [draft EXCEPT !.row = Finalized(draft.row, s)]
        PROVE  /\ draft' \in Draft /\ draft'.called /\ draft'.again = draft.again
               /\ draft'.row.attempts = draft.row.attempts
               /\ draft'.row.status \in {"queued"} \cup Settled
               /\ draft'.row.status = "queued" => draft'.arm
    <3>1. draft.row \in Message
      BY <1>1 DEF Draft
    <3> QED  BY <1>1, <1>3, <2>1, <3>1, FinalizedRow DEF Draft, Settled, MessageStatus
  <2>2. CASE draft' = [draft EXCEPT !.arm = TRUE]
    BY <1>1, <1>3, <2>2 DEF Draft
  <2> QED  BY <2>1, <2>2 DEF WorkerAnswer, Write, Deferred
<1>5. TypeOK'
  BY <1>0, <1>2, <1>4 DEF TypeOK, callers, retries, history, bounds
<1>6. WorkInv'
  <2>1. UNCHANGED <<inline, row, pc, pending, reopened, handler, job>> /\ Held /\ Held'
    BY <1>2 DEF callers, retries, history, Held
  <2> QED  BY <1>0, <1>2, <2>1 DEF WorkInv
<1>7. DraftInv'
  BY <1>2, <1>3, <1>4 DEF DraftInv, history
<1>8. FoundInv'
  BY <1>2 DEF FoundInv
<1> QED  BY <1>5, <1>6, <1>7, <1>8 DEF IInv

LEMMA CommitInv ==
    ASSUME IInv, Commit
    PROVE  IInv'
<1>0. TypeOK /\ WorkInv /\ DraftInv /\ FoundInv
  BY DEF IInv
<1>1. /\ row \in Message /\ draft \in Draft
      /\ calls \in Nat /\ reopened \in Nat /\ pending \in Nat /\ deferrals \in Nat /\ mishaps \in Nat
      /\ handler \in ActionStatus /\ stopped \in BOOLEAN /\ inline \in BOOLEAN
  BY <1>0 DEF TypeOK
<1>2. /\ UNCHANGED <<inline, callers, stopped, history, bounds>>
      /\ wphase = "ending" /\ row' = draft.row /\ job' = "none" /\ wphase' = "none" /\ draft' = NoDraft
      /\ pending' \in Nat
      /\ handler' = IF job = "send" THEN "done" ELSE handler
  BY <1>1 DEF Commit, Write
<1>3. row' \in Message /\ row'.status # "none" /\ NoDraft \in Draft
  BY <1>0, <1>1, <1>2
     DEF DraftInv, Held, Draft, Settled, NoDraft, NoMessage, Wrote, Message, MessageStatus
<1>4. TypeOK'
  BY <1>0, <1>2, <1>3 DEF TypeOK, callers, history, bounds, ActionStatus
<1>5. WorkInv'
  BY <1>0, <1>2, <1>3 DEF WorkInv, TypeOK, callers, Held, ActionStatus
<1>6. DraftInv' /\ FoundInv'
  BY <1>2 DEF DraftInv, FoundInv, Held
<1> QED  BY <1>4, <1>5, <1>6 DEF IInv

LEMMA RollbackInv ==
    ASSUME IInv, NEW next \in ActionStatus, Rollback(next)
    PROVE  IInv'
<1>0. TypeOK /\ WorkInv /\ DraftInv /\ FoundInv
  BY DEF IInv
<1>1. /\ row \in Message /\ draft \in Draft
      /\ calls \in Nat /\ reopened \in Nat /\ pending \in Nat /\ deferrals \in Nat /\ mishaps \in Nat
      /\ handler \in ActionStatus /\ stopped \in BOOLEAN /\ inline \in BOOLEAN
  BY <1>0 DEF TypeOK
<1>2. /\ UNCHANGED <<inline, row, callers, deferrals>>
      /\ job # "none" /\ job' = "none" /\ wphase' = "none" /\ draft' = NoDraft
      /\ mishaps' \in Nat /\ next \in {"pending", "failed"}
      /\ IF job = "send"
           THEN handler' = next /\ UNCHANGED retries
           ELSE /\ pending' = IF next = "pending" THEN pending + 1 ELSE pending
                /\ stopped' = (stopped \/ next = "failed")
                /\ UNCHANGED handler
  BY <1>1 DEF Rollback, Write
<1>3. calls' \in Nat /\ reopened' \in Nat
  <2>1. (draft.called => calls > 0) /\ (draft.again => reopened > 0)
    BY <1>0 DEF DraftInv, WorkInv, NoDraft, Wrote
  <2> QED  BY <1>1, <2>1 DEF Rollback
<1>4. pending' \in Nat /\ stopped' \in BOOLEAN /\ handler' \in ActionStatus
  <2>1. CASE job = "send"
    BY <1>1, <1>2, <2>1 DEF retries
  <2>2. CASE job # "send"
    <3>1. handler' \in ActionStatus /\ pending' \in Nat
      BY <1>1, <1>2, <2>2
    <3>2. stopped' \in BOOLEAN
      BY <1>1, <1>2, <2>2, Zenon
    <3> QED  BY <3>1, <3>2
  <2> QED  BY <2>1, <2>2
<1>5. NoDraft \in Draft
  BY DEF NoDraft, NoMessage, Wrote, Draft, Message, MessageStatus
<1>6. TypeOK'
  BY <1>0, <1>2, <1>3, <1>4, <1>5 DEF TypeOK, callers
<1>7. WorkInv'
  <2>1. UNCHANGED <<inline, row, pc>> /\ ~Held'
    BY <1>2 DEF callers, Held
  <2>2. CASE job = "send"
    <3>1. /\ handler' \in {"pending", "failed"} /\ UNCHANGED pending /\ handler = "running"
          /\ row.status = "none" /\ pending = 0 /\ reopened = 0 /\ ~inline
      BY <1>0, <1>2, <2>2 DEF WorkInv, retries
    <3>2. reopened' = 0
      BY <1>0, <2>2, <3>1 DEF WorkInv, DraftInv, Rollback
    <3> QED  BY <1>0, <1>2, <2>1, <3>1, <3>2 DEF WorkInv
  <2>3. CASE job = "retry"
    <3>1. UNCHANGED handler /\ handler \notin {"pending", "running", "failed"}
      BY <1>0, <1>2, <2>3 DEF WorkInv
    <3> QED  BY <1>0, <1>2, <2>1, <3>1 DEF WorkInv
  <2> QED  BY <1>0, <1>2, <2>2, <2>3 DEF TypeOK
<1>8. DraftInv' /\ FoundInv'
  BY <1>2 DEF DraftInv, FoundInv, Held
<1> QED  BY <1>6, <1>7, <1>8 DEF IInv

LEMMA RerunInv ==
    ASSUME IInv, Rerun
    PROVE  IInv'
<1>0. TypeOK /\ WorkInv /\ DraftInv /\ FoundInv
  BY DEF IInv
<1>1. /\ row \in Message /\ draft \in Draft
      /\ calls \in Nat /\ reopened \in Nat /\ pending \in Nat /\ deferrals \in Nat /\ mishaps \in Nat
      /\ handler \in ActionStatus /\ stopped \in BOOLEAN /\ inline \in BOOLEAN
  BY <1>0 DEF TypeOK
<1>2. TypeOK'
  BY <1>0, <1>1 DEF Rerun, TypeOK, callers, worker, history
<1>3. handler \notin {"pending", "running", "failed"} 
  BY <1>0, <1>1 DEF Rerun, WorkInv
<1>4. WorkInv'
  BY <1>0, <1>3 DEF Rerun, WorkInv, callers, worker, history, Held
<1>5. DraftInv' /\ FoundInv'
  BY <1>0 DEF Rerun, DraftInv, FoundInv, worker, history, Held
<1> QED  BY <1>2, <1>4, <1>5 DEF IInv

LEMMA StandDownInv ==
    ASSUME IInv, WithdrawSend \/ StopRetries
    PROVE  IInv'
<1>0. TypeOK /\ WorkInv /\ DraftInv /\ FoundInv
  BY DEF IInv
<1>1. /\ row \in Message /\ draft \in Draft
      /\ calls \in Nat /\ reopened \in Nat /\ pending \in Nat /\ deferrals \in Nat /\ mishaps \in Nat
      /\ handler \in ActionStatus /\ stopped \in BOOLEAN /\ inline \in BOOLEAN
  BY <1>0 DEF TypeOK
<1>2. /\ UNCHANGED <<inline, callers, worker, history, bounds>>
      /\ pending' = 0 /\ stopped' \in BOOLEAN
  BY <1>1 DEF WithdrawSend, StopRetries
<1>3. \/ UNCHANGED row
      \/ /\ row.status = "queued" /\ row.dispatched = FALSE /\ ~Held
         /\ row' \in Message /\ row'.status = "withdrawn"
  BY <1>1 DEF WithdrawSend, StopRetries, Withdrawable, Finalized, Message, MessageStatus
<1>4. TypeOK'
  BY <1>0, <1>2, <1>3 DEF TypeOK, callers, worker, history, bounds
<1>5. WorkInv'
  <2>1. UNCHANGED <<inline, pc, reopened, handler, job, wphase, draft>> /\ (Held' <=> Held)
    BY <1>2 DEF callers, worker, history, Held
  <2> QED  BY <1>0, <1>2, <1>3, <2>1 DEF WorkInv
<1>6. DraftInv'
  BY <1>0, <1>2, <1>3 DEF DraftInv, worker, history, Held
<1>7. FoundInv'
  BY <1>0, <1>2, <1>3 DEF FoundInv, worker
<1> QED  BY <1>4, <1>5, <1>6, <1>7 DEF IInv

LEMMA StutterInv == IInv /\ UNCHANGED vars => IInv'
BY DEF IInv, TypeOK, WorkInv, DraftInv, FoundInv, Held, vars, callers, retries, worker, history, bounds

LEMMA StepInv == IInv /\ [Next]_vars => IInv'
<1> SUFFICES ASSUME IInv, [Next]_vars PROVE IInv'
  OBVIOUS
<1>1. CASE \E c \in Caller : (\E allowed \in BOOLEAN : SendOutbound(c, allowed)) \/ CallerStep(c) \/ Die(c)
  BY <1>1, CallerStepInv
<1>2. CASE WorkerStep
  BY <1>2, HandlerSendInv, StartRetryInv, LoadRetryInv, WriteRetryInv, WorkerAnswerInv, CommitInv DEF WorkerStep
<1>3. CASE \E next \in ActionStatus : Rollback(next)
  BY <1>3, RollbackInv
<1>4. CASE Rerun \/ WithdrawSend \/ StopRetries
  BY <1>4, RerunInv, StandDownInv
<1> QED  BY <1>1, <1>2, <1>3, <1>4, StutterInv DEF Next

LEMMA Invariant == Spec => []IInv
<1> QED  BY InitInv, StepInv, PTL DEF Spec

-----------------------------------------------------------------------------
(* What a step may do to a settled message.                                *)

\* A settled message stays settled: no step of a request, a worker or a withdrawal
\* queues it again, whatever it read before.
LEMMA StaysSettled ==
    ASSUME IInv, [Next]_vars, row.status \in Settled
    PROVE  row'.status \in Settled
<1>0. row \in Message /\ TypeOK /\ WorkInv /\ DraftInv
  BY DEF IInv, TypeOK
<1>1. CASE \E c \in Caller : (\E allowed \in BOOLEAN : SendOutbound(c, allowed)) \/ CallerStep(c) \/ Die(c)
  <2>1. PICK c \in Caller : (\E allowed \in BOOLEAN : SendOutbound(c, allowed)) \/ CallerStep(c) \/ Die(c)
    BY <1>1
  <2>2. CASE \/ \E allowed \in BOOLEAN : SendOutbound(c, allowed)
             \/ TakeToken(c) \/ BucketEmpty(c) \/ ArmRetry(c) \/ Requeue(c) \/ Die(c)
    BY <2>2 DEF SendOutbound, TakeToken, BucketEmpty, ArmRetry, Requeue, Die, Settled
  <2>3. CASE Refuse(c) \/ RefuseDispatch(c) \/ GiveUp(c) \/ (\E reply \in Reply : Answer(c, reply))
    <3>1. \/ UNCHANGED row
          \/ \E s \in {"sent", "failed"} : row' = Finalized(row, s)
      BY <2>3 DEF Refuse, RefuseDispatch, GiveUp, Answer, FinalizedIfQueued
    <3> QED  BY <1>0, <3>1, FinalizedRow DEF Settled, MessageStatus
  <2>4. CASE Claim(c) \/ ReleaseClaim(c)
    BY <2>4 DEF Claim, ReleaseClaim, Claimed, Released
  <2> QED  BY <2>1, <2>2, <2>3, <2>4 DEF CallerStep
<1>2. CASE Commit
  BY <1>0, <1>2 DEF Commit, DraftInv, Held
<1>3. CASE \/ \E allowed \in BOOLEAN : HandlerSend(allowed)
           \/ StartRetry \/ \E plan \in {"none", "refuse", "found", "resend"} : LoadRetry(plan)
           \/ WriteRetry \/ \E reply \in Reply : WorkerAnswer(reply)
           \/ \E next \in ActionStatus : Rollback(next)
           \/ Rerun \/ StopRetries \/ UNCHANGED vars
  BY <1>3 DEF HandlerSend, StartRetry, LoadRetry, WriteRetry, WorkerAnswer, Rollback, Rerun, StopRetries, vars
<1>4. CASE WithdrawSend
  BY <1>4 DEF WithdrawSend, Withdrawable, Settled
<1> QED  BY <1>1, <1>2, <1>3, <1>4 DEF Next, WorkerStep

\* What was sent, failed or withdrawn is never queued again (services._defer, _claim,
\* withdraw_send).
THEOREM NothingIsResurrected == Spec => NoResurrection
<1>1. IInv /\ [Next]_vars => (row.status \in Settled => row'.status \in Settled)
  BY StaysSettled
<1> QED  BY <1>1, Invariant, PTL DEF Spec, NoResurrection

-----------------------------------------------------------------------------
(* Attempts and calls.                                                     *)

LEMMA OpenFinite == IsFiniteSet(Open) /\ Cardinality(Open) \in Nat
BY SendAssumption, FS_Subset, FS_CardinalityType DEF Open

\* The claims in use, by what a request does.
LEMMA OpenEnter ==
    ASSUME TypeOK, NEW c \in Caller, pc[c] \notin {"claimed", "empty"}, pc' = [pc EXCEPT ![c] = "claimed"]
    PROVE  Cardinality(Open') = Cardinality(Open) + 1
<1>1. Open' = Open \cup {c} /\ c \notin Open
  BY DEF Open, TypeOK
<1> QED  BY <1>1, OpenFinite, FS_AddElement

LEMMA OpenLeave ==
    ASSUME TypeOK, NEW c \in Caller, NEW x \in {"calling", "deferred"},
           pc[c] \in {"claimed", "empty"}, pc' = [pc EXCEPT ![c] = x]
    PROVE  Cardinality(Open') = Cardinality(Open) - 1
<1>1. Open' = Open \ {c} /\ c \in Open
  BY DEF Open, TypeOK
<1> QED  BY <1>1, OpenFinite, FS_RemoveElement

LEMMA OpenSame ==
    ASSUME TypeOK, NEW c \in Caller, pc[c] \notin {"claimed", "empty"},
           NEW x \in {"recorded", "refused", "unanswered", "armed", "done"}, pc' = [pc EXCEPT ![c] = x]
    PROVE  Open' = Open
BY DEF Open, TypeOK

LEMMA CallerCounts ==
    ASSUME IInv, NEW c \in Caller,
           (\E allowed \in BOOLEAN : SendOutbound(c, allowed)) \/ CallerStep(c) \/ Die(c)
    PROVE  \/ /\ Cardinality(Open') = Cardinality(Open) + 1 /\ calls' = calls
              /\ row.dispatched = FALSE /\ row' = Claimed(row) /\ ~Held
           \/ /\ Cardinality(Open') = Cardinality(Open) - 1 /\ calls' = calls + 1 /\ row' = row
           \/ /\ Cardinality(Open') = Cardinality(Open) - 1 /\ calls' = calls
              /\ row' = Released(row) /\ ~Held
           \/ /\ Cardinality(Open') = Cardinality(Open) /\ calls' = calls
              /\ row'.attempts = row.attempts /\ row'.dispatched = row.dispatched
<1>0. TypeOK /\ WorkInv /\ row \in Message
  BY DEF IInv, TypeOK
<1>1. CASE Claim(c) /\ Claimable(row)
  <2>1. pc[c] \notin {"claimed", "empty"} /\ pc' = [pc EXCEPT ![c] = "claimed"]
    BY <1>1 DEF Claim
  <2> QED  BY <1>0, <1>1, <2>1, OpenEnter DEF Claim, Claimable, Message, history
<1>2. CASE TakeToken(c)
  <2>1. pc[c] \in {"claimed", "empty"} /\ pc' = [pc EXCEPT ![c] = "calling"]
    BY <1>2 DEF TakeToken
  <2> QED  BY <1>0, <1>2, <2>1, OpenLeave DEF TakeToken
<1>3. CASE ReleaseClaim(c)
  <2>1. pc[c] \in {"claimed", "empty"} /\ pc' = [pc EXCEPT ![c] = "deferred"]
    BY <1>3 DEF ReleaseClaim
  <2> QED  BY <1>0, <1>3, <2>1, OpenLeave DEF ReleaseClaim, history
<1>4. CASE BucketEmpty(c) \/ Die(c)
  <2>1. Open' = Open
    BY <1>0, <1>4 DEF BucketEmpty, Die, Open, TypeOK
  <2> QED  BY <1>4, <2>1 DEF BucketEmpty, Die, history
<1>5. CASE ArmRetry(c) \/ Requeue(c)
  <2>1. /\ pc[c] \notin {"claimed", "empty"} /\ UNCHANGED <<row, calls>>
        /\ \E x \in {"armed", "done"} : pc' = [pc EXCEPT ![c] = x]
    BY <1>5 DEF ArmRetry, Requeue, history
  <2> QED  BY <1>0, <2>1, OpenSame
<1>6. CASE Claim(c) /\ ~Claimable(row)
  <2>1. pc[c] \notin {"claimed", "empty"} /\ pc' = [pc EXCEPT ![c] = "done"] /\ UNCHANGED <<row, calls>>
    BY <1>6 DEF Claim, history
  <2> QED  BY <1>0, <2>1, OpenSame
<1>7. CASE \E allowed \in BOOLEAN : SendOutbound(c, allowed)
  <2>1. PICK allowed \in BOOLEAN : SendOutbound(c, allowed)
    BY <1>7
  <2>2. row'.attempts = row.attempts /\ row'.dispatched = row.dispatched
    BY <1>0, <2>1, InsertedRow DEF SendOutbound, WorkInv
  <2>3. /\ \E x \in {"done", "recorded", "refused"} : pc' = [pc EXCEPT ![c] = x]
        /\ pc[c] \notin {"claimed", "empty"} /\ calls' = calls
    BY <2>1 DEF SendOutbound, history
  <2> QED  BY <1>0, <2>2, <2>3, OpenSame
<1>8. CASE Refuse(c) \/ RefuseDispatch(c) \/ GiveUp(c) \/ (\E reply \in Reply : Answer(c, reply))
  <2>1. \/ UNCHANGED row
        \/ \E s \in {"sent", "failed"} : row' = Finalized(row, s)
    BY <1>8 DEF Refuse, RefuseDispatch, GiveUp, Answer, FinalizedIfQueued
  <2>2. row'.attempts = row.attempts /\ row'.dispatched = row.dispatched
    BY <1>0, <2>1, FinalizedRow DEF MessageStatus
  <2>3. /\ \E x \in {"done", "unanswered"} : pc' = [pc EXCEPT ![c] = x]
        /\ pc[c] \notin {"claimed", "empty"} /\ calls' = calls
    BY <1>8 DEF Refuse, RefuseDispatch, GiveUp, Answer, history
  <2> QED  BY <1>0, <2>2, <2>3, OpenSame
<1> QED  BY <1>1, <1>2, <1>3, <1>4, <1>5, <1>6, <1>7, <1>8 DEF CallerStep

\* The beginning, the end and the loss of a transaction, and every other step.
Begins ==
    /\ ~Held /\ Held' /\ row' = row
    /\ calls' = calls + One(draft'.called) /\ reopened' = reopened + One(draft'.again)
    /\ Free(draft'.row) + One(draft'.called) <= Free(row) + One(draft'.again)
Commits == Held /\ ~Held' /\ row' = draft.row /\ calls' = calls /\ reopened' = reopened
IsLost  == ~Held' /\ row' = row /\ calls' = calls - One(draft.called)
           /\ reopened' = reopened - One(draft.again)
Keeps   == /\ Held' <=> Held
           /\ calls' = calls /\ reopened' = reopened
           /\ row'.attempts = row.attempts /\ row'.dispatched = row.dispatched
           /\ draft'.called = draft.called /\ draft'.again = draft.again
           /\ draft'.row.dispatched = draft.row.dispatched

LEMMA WorkerCounts ==
    ASSUME IInv, \/ WorkerStep \/ (\E next \in ActionStatus : Rollback(next))
                 \/ Rerun \/ WithdrawSend \/ StopRetries \/ UNCHANGED vars
    PROVE  Open' = Open /\ (Begins \/ Commits \/ IsLost \/ Keeps)
<1>0. /\ TypeOK /\ WorkInv /\ DraftInv /\ row \in Message /\ draft \in Draft
      /\ calls \in Nat /\ reopened \in Nat /\ deferrals \in Nat
  BY DEF IInv, TypeOK
<1>1. Open' = Open
  BY DEF WorkerStep, HandlerSend, StartRetry, LoadRetry, WriteRetry, WorkerAnswer, Commit, Rollback,
         Rerun, WithdrawSend, StopRetries, vars, callers, Open
<1>2. ASSUME NEW allowed \in BOOLEAN, HandlerSend(allowed) PROVE Begins
  <2>1. row' = row /\ reopened' = reopened /\ handler = "pending" /\ job = "none"
    BY <1>2 DEF HandlerSend
  <2>2. row.dispatched = FALSE /\ ~Held
    BY <1>0, <2>1 DEF WorkInv, Held
  <2>3. CASE Dispatch(Inserted, FALSE)
    <3>1. /\ draft' \in Draft /\ draft'.again = FALSE /\ wphase' \in {"calling", "ending"}
          /\ \/ calls' = calls + 1 /\ draft' = Wrote(Claimed(Inserted), TRUE, FALSE, FALSE)
             \/ calls' = calls /\ draft'.called = FALSE /\ draft'.row.dispatched = FALSE
      BY <1>0, <2>3, DispatchCases, InsertedRow
    <3> QED  BY <1>0, <2>1, <2>2, <3>1 DEF Begins, One, Free, Held, Wrote, Claimed
  <2>4. CASE /\ Write("ending", Wrote(Finalized(Inserted, "failed"), FALSE, FALSE, FALSE))
             /\ UNCHANGED <<calls, deferrals>>
    BY <1>0, <2>1, <2>2, <2>4 DEF Begins, One, Free, Held, Write, Wrote, Finalized
  <2> QED  BY <1>2, <2>3, <2>4 DEF HandlerSend
<1>3. ASSUME WriteRetry PROVE Begins
  <2>1. row' = row /\ ~Held
    BY <1>3 DEF WriteRetry, Held
  <2>2. ASSUME NEW s \in {"sent", "failed"}, NEW d \in Message, d = row \/ d = Finalized(row, s),
               Write("ending", Wrote(d, FALSE, FALSE, FALSE)), UNCHANGED <<calls, reopened, deferrals>>
        PROVE  Begins
    <3>1. d.dispatched = row.dispatched
      BY <1>0, <2>2, FinalizedRow DEF MessageStatus
    <3> QED  BY <1>0, <2>1, <2>2, <3>1 DEF Begins, One, Free, Held, Write, Wrote
  <2>3. CASE /\ wphase = "resend" /\ reopened' = reopened + 1
             /\ Dispatch([row EXCEPT !.dispatched = FALSE], TRUE)
    <3> DEFINE r == [row EXCEPT !.dispatched = FALSE]
    <3>1. /\ r \in Message /\ r.dispatched = FALSE /\ r.status # "none"
      BY <1>0, <2>3 DEF Message, WorkInv
    <3> HIDE DEF r
    <3>2. Dispatch(r, TRUE)
      BY <2>3 DEF r
    <3>3. /\ draft' \in Draft /\ draft'.again = TRUE /\ wphase' \in {"calling", "ending"}
          /\ \/ calls' = calls + 1 /\ draft' = Wrote(Claimed(r), TRUE, TRUE, FALSE)
             \/ calls' = calls /\ draft'.called = FALSE /\ draft'.row.dispatched = FALSE
      BY <1>0, <3>1, <3>2, DispatchCases
    <3> QED  BY <1>0, <2>1, <2>3, <3>3 DEF Begins, One, Free, Held, Wrote, Claimed
  <2>4. Finalized(row, "sent") \in Message /\ Finalized(row, "failed") \in Message
    BY <1>0, FinalizedRow DEF MessageStatus
  <2> QED  BY <1>0, <1>3, <2>2, <2>3, <2>4 DEF WriteRetry, FinalizedIfQueued
<1>4. ASSUME NEW reply \in Reply, WorkerAnswer(reply) PROVE Keeps
  <2>1. /\ UNCHANGED <<row, calls, reopened>> /\ Held /\ Held'
        /\ draft.row \in Message
    BY <1>0, <1>4 DEF WorkerAnswer, Write, Held, history, Draft
  <2>2. \/ \E s \in {"sent", "failed"} : draft' = [draft EXCEPT !.row = Finalized(draft.row, s)]
        \/ draft' = [draft EXCEPT !.arm = TRUE]
    BY <1>4 DEF WorkerAnswer, Write, Deferred
  <2>3. /\ draft'.called = draft.called /\ draft'.again = draft.again
        /\ draft'.row.dispatched = draft.row.dispatched
    BY <1>0, <2>1, <2>2, FinalizedRow DEF Draft, MessageStatus
  <2> QED  BY <2>1, <2>3 DEF Keeps
<1>5. ASSUME Commit PROVE Commits
  BY <1>5 DEF Commit, Write, Commits, Held, history
<1>6. ASSUME NEW next \in ActionStatus, Rollback(next) PROVE IsLost
  BY <1>0, <1>6 DEF Rollback, Write, IsLost, Held, One
<1>7. ASSUME \/ StartRetry \/ (\E plan \in {"none", "refuse", "found", "resend"} : LoadRetry(plan))
             \/ Rerun \/ StopRetries \/ UNCHANGED vars
      PROVE  Keeps
  BY <1>0, <1>7 DEF StartRetry, LoadRetry, Rerun, StopRetries, Keeps, Held, vars, worker, history, WorkInv
<1>8. ASSUME WithdrawSend PROVE Keeps
  <2>1. row'.attempts = row.attempts /\ row'.dispatched = row.dispatched
    BY <1>0, <1>8, FinalizedRow DEF WithdrawSend, MessageStatus
  <2> QED  BY <1>8, <2>1 DEF WithdrawSend, Keeps, Held, worker, history
<1> QED  BY <1>1, <1>2, <1>3, <1>4, <1>5, <1>6, <1>7, <1>8 DEF WorkerStep

LEMMA CountStep ==
    ASSUME IInv, IInv', CountInv, ClaimInv, [Next]_vars
    PROVE  CountInv' /\ ClaimInv'
<1> DEFINE n == Cardinality(Open)
<1>0. /\ row \in Message /\ row' \in Message /\ draft \in Draft /\ draft' \in Draft
      /\ draft.row \in Message /\ draft'.row \in Message
      /\ calls \in Nat /\ reopened \in Nat /\ n \in Nat
  BY OpenFinite DEF IInv, TypeOK, Draft
<1>1. /\ Held => draft.row.attempts = row.attempts + One(draft.called)
      /\ ~Held => draft.called = FALSE /\ draft.again = FALSE
      /\ ~Held' => draft'.called = FALSE /\ draft'.again = FALSE
  BY DEF IInv, WorkInv, DraftInv, NoDraft, Wrote, One
<1>2. CASE \E c \in Caller : (\E allowed \in BOOLEAN : SendOutbound(c, allowed)) \/ CallerStep(c) \/ Die(c)
  <2>1. UNCHANGED <<worker, reopened>>
    BY <1>2 DEF SendOutbound, CallerStep, Die, Refuse, RefuseDispatch, Claim, TakeToken, BucketEmpty,
                ReleaseClaim, Answer, ArmRetry, GiveUp, Requeue, history
  <2>2. UNCHANGED <<draft, reopened>> /\ (Held' <=> Held)
    BY <2>1 DEF worker, Held
  <2>3. \/ /\ Cardinality(Open') = n + 1 /\ calls' = calls
           /\ row.dispatched = FALSE /\ row' = Claimed(row) /\ ~Held
        \/ /\ Cardinality(Open') = n - 1 /\ calls' = calls + 1 /\ row' = row
        \/ /\ Cardinality(Open') = n - 1 /\ calls' = calls
           /\ row' = Released(row) /\ ~Held
        \/ /\ Cardinality(Open') = n /\ calls' = calls
           /\ row'.attempts = row.attempts /\ row'.dispatched = row.dispatched
    BY <1>2, CallerCounts
  <2>4. Cardinality(Open') \in Nat
    BY SendAssumption, FS_Subset, FS_CardinalityType DEF Open
  <2>5. CountInv'
    <3>1. One(draft.called) \in Nat /\ draft'.called = draft.called /\ (~Held => One(draft.called) = 0)
      BY <1>1, <2>2 DEF One
    <3>2. row'.attempts = row.attempts + Cardinality(Open') + calls' - n - calls
      <4>1. CASE row' = Claimed(row) /\ Cardinality(Open') = n + 1 /\ calls' = calls
        BY <1>0, <4>1 DEF Claimed, Message
      <4>2. CASE row' = Released(row) /\ Cardinality(Open') = n - 1 /\ calls' = calls /\ ~Held
        <5>1. row.attempts > 0
          BY <1>0, <2>4, <3>1, <4>2 DEF CountInv, Message
        <5> QED  BY <1>0, <4>2, <5>1 DEF Released, Message
      <4>3. CASE row'.attempts = row.attempts /\ Cardinality(Open') + calls' = n + calls
        <5>1. row.attempts \in Nat /\ calls' \in Nat
          BY <1>0, <2>3 DEF Message
        <5> HIDE DEF n
        <5> QED  BY ONLY <1>0, <2>4, <4>3, <5>1
      <4> QED  BY <1>0, <2>3, <4>1, <4>2, <4>3
    <3>3. row.attempts \in Nat /\ row'.attempts \in Nat /\ calls' \in Nat
      BY <1>0, <2>3 DEF Message
    <3> QED  BY <1>0, <2>4, <3>1, <3>2, <3>3 DEF CountInv
  <2>6. ClaimInv'
    BY <1>0, <1>1, <2>2, <2>3, <2>4 DEF ClaimInv, Claimed, Released, One, Free
  <2> QED  BY <2>5, <2>6
<1>3. CASE \/ WorkerStep \/ (\E next \in ActionStatus : Rollback(next))
           \/ Rerun \/ WithdrawSend \/ StopRetries \/ UNCHANGED vars
  <2>1. Cardinality(Open') = n /\ (Begins \/ Commits \/ IsLost \/ Keeps)
    BY <1>3, WorkerCounts
  <2> HIDE DEF n
  <2>2. CountInv'
    <3>0. row.attempts \in Nat /\ One(draft.called) + row.attempts = calls + n
      BY <1>0 DEF CountInv, n, Message, One
    <3>1. One(draft.called) \in Nat /\ One(draft'.called) \in Nat
      BY DEF One
    <3>2. CASE Begins
      <4>1. One(draft.called) = 0
        BY <1>1, <3>2 DEF Begins, One
      <4>2. row'.attempts = row.attempts /\ calls' = calls + One(draft'.called)
        BY <3>2 DEF Begins
      <4>3. row.attempts + One(draft'.called) = calls' + Cardinality(Open')
        BY ONLY <1>0, <2>1, <3>0, <3>1, <4>1, <4>2
      <4> QED  BY <4>2, <4>3 DEF CountInv
    <3>3. CASE Commits
      BY <1>0, <1>1, <2>1, <3>3 DEF CountInv, n, Commits, One
    <3>4. CASE IsLost
      <4>1. One(draft'.called) = 0
        BY <1>1, <3>4 DEF IsLost, One
      <4>2. row'.attempts = row.attempts /\ calls' = calls - One(draft.called)
        BY <3>4 DEF IsLost
      <4>3. row.attempts + One(draft'.called) = calls' + Cardinality(Open')
        BY ONLY <1>0, <2>1, <3>0, <3>1, <4>1, <4>2
      <4> QED  BY <4>2, <4>3 DEF CountInv
    <3>5. CASE Keeps
      BY <1>0, <1>1, <2>1, <3>5 DEF CountInv, n, Keeps, One
    <3> QED  BY <2>1, <3>2, <3>3, <3>4, <3>5
  <2>3. ClaimInv'
    BY <1>0, <1>1, <2>1 DEF ClaimInv, n, Begins, Commits, IsLost, Keeps, One, Free
  <2> QED  BY <2>2, <2>3
<1> QED  BY <1>2, <1>3 DEF Next

LEMMA CountInit == Init => CountInv /\ ClaimInv
<1> SUFFICES ASSUME Init PROVE CountInv /\ ClaimInv
  OBVIOUS
<1>1. Open = {}
  BY DEF Init, Open
<1>2. Cardinality(Open) = 0
  BY <1>1, FS_EmptySet
<1>3. /\ row.attempts = 0 /\ row.dispatched = FALSE /\ draft.called = FALSE /\ draft.again = FALSE
      /\ calls = 0 /\ reopened = 0 /\ ~Held
  BY DEF Init, NoMessage, NoDraft, Wrote, Held
<1> QED  BY <1>2, <1>3 DEF CountInv, ClaimInv, One, Free

LEMMA Counted == Spec => [](IInv /\ CountInv /\ ClaimInv)
<1>1. Init => IInv /\ CountInv /\ ClaimInv
  BY InitInv, CountInit
<1>2. IInv /\ CountInv /\ ClaimInv /\ [Next]_vars => (IInv /\ CountInv /\ ClaimInv)'
  BY StepInv, CountStep
<1> QED  BY <1>1, <1>2, PTL DEF Spec

(***************************************************************************)
(* The budget counts provider calls: send_attempts is the number of calls,  *)
(* less the claims that are charged and still wait for a token, however     *)
(* many requests and retries take claims and hand them back.               *)
(***************************************************************************)
THEOREM BudgetCountsCalls == Spec => []AttemptsAreCalls
<1>1. IInv /\ CountInv => AttemptsAreCalls
  BY DEF IInv, CountInv, AttemptsAreCalls, One
<1> QED  BY <1>1, Counted, PTL

(***************************************************************************)
(* Only the winner of the claim calls the adapter: one call, and one more   *)
(* for every retry that re-opened the claim, for any number of requests     *)
(* that race on the key.                                                   *)
(***************************************************************************)
THEOREM OnlyTheWinnerCalls == Spec => []CallsPerOpening
<1>1. IInv /\ ClaimInv => CallsPerOpening
  <2> SUFFICES ASSUME IInv, ClaimInv PROVE CallsPerOpening
    OBVIOUS
  <2>1. calls \in Nat /\ reopened \in Nat /\ Cardinality(Open) \in Nat
    BY OpenFinite DEF IInv, TypeOK
  <2>2. Free(draft.row) \in Nat /\ Free(row) \in Nat
    BY DEF Free
  <2>3. ~Held => draft.called = FALSE /\ draft.again = FALSE
    BY DEF IInv, WorkInv, NoDraft, Wrote
  <2> QED  BY <2>1, <2>2, <2>3 DEF ClaimInv, CallsPerOpening, One
<1> QED  BY <1>1, Counted, PTL

-----------------------------------------------------------------------------
(* A handler's message: its requests never start, and what it is decided    *)
(* to be stands.                                                           *)

LEMMA HandlersOwn ==
    ASSUME IInv, ~inline, NEW c \in Caller
    PROVE  ~(CallerStep(c) \/ Die(c) \/ \E allowed \in BOOLEAN : SendOutbound(c, allowed))
BY DEF CallerStep, Die, SendOutbound, Refuse, RefuseDispatch, Claim, TakeToken, BucketEmpty,
       ReleaseClaim, Answer, ArmRetry, GiveUp, Requeue, Alive

LEMMA StaysDecided ==
    ASSUME IInv, [Next]_vars, ~inline, row.status \in Settled
    PROVE  row'.status = row.status /\ calls' <= calls
<1>0. TypeOK /\ WorkInv /\ DraftInv /\ row \in Message /\ calls \in Nat
  BY DEF IInv, TypeOK
<1>1. CASE \E allowed \in BOOLEAN : HandlerSend(allowed)
  BY <1>0, <1>1 DEF HandlerSend, WorkInv, Settled
<1>2. CASE StartRetry \/ Rerun \/ StopRetries \/ (UNCHANGED vars)
           \/ (\E plan \in {"none", "refuse", "found", "resend"} : LoadRetry(plan))
  BY <1>0, <1>2 DEF StartRetry, Rerun, StopRetries, LoadRetry, vars, history
<1>3. CASE WriteRetry
  <2> DEFINE r == [row EXCEPT !.dispatched = FALSE]
  <2>1. row' = row /\ (calls' = calls \/ Dispatch(r, TRUE))
    BY <1>3 DEF WriteRetry
  <2>2. ~Claimable(r)
    BY <1>0 DEF Claimable, Settled, Message
  <2> HIDE DEF r
  <2>3. calls' = calls
    BY <2>1, <2>2 DEF Dispatch
  <2> QED  BY <1>0, <2>1, <2>3
<1>4. CASE \E reply \in Reply : WorkerAnswer(reply)
  BY <1>0, <1>4 DEF WorkerAnswer, history
<1>5. CASE Commit
  BY <1>0, <1>5 DEF Commit, history, DraftInv, Held
<1>6. CASE \E next \in ActionStatus : Rollback(next)
  BY <1>0, <1>6 DEF Rollback
<1>7. CASE WithdrawSend
  BY <1>7 DEF WithdrawSend, Withdrawable, Settled
<1> QED  BY <1>1, <1>2, <1>3, <1>4, <1>5, <1>6, <1>7, HandlersOwn DEF Next, WorkerStep

(***************************************************************************)
(* A message of a queue handler is decided once, and no provider is called  *)
(* for it afterwards, whatever a retry had read before.                    *)
(***************************************************************************)
THEOREM HandlersDecideOnce == Spec => DecidedOnce
<1>1. IInv /\ [Next]_vars =>
          [~inline /\ row.status \in Settled => row'.status = row.status /\ calls' <= calls]_vars
  BY StaysDecided
<1> QED  BY <1>1, Invariant, PTL DEF Spec, DecidedOnce

-----------------------------------------------------------------------------
(* The ladder of a handler's message.                                      *)

LEMMA BudgetStep ==
    ASSUME IInv, IInv', BudgetInv, [Next]_vars
    PROVE  BudgetInv'
<1> SUFFICES ASSUME ~inline
             PROVE  /\ row'.attempts <= MaxAttempts
                    /\ wphase' = "resend" => row'.attempts < MaxAttempts
                    /\ Held' => draft'.row.attempts <= MaxAttempts
  <2>1. inline' = inline
    BY DEF Next, SendOutbound, CallerStep, Die, Refuse, RefuseDispatch, Claim, TakeToken, BucketEmpty,
           ReleaseClaim, Answer, ArmRetry, GiveUp, Requeue, WorkerStep, HandlerSend, StartRetry,
           LoadRetry, WriteRetry, WorkerAnswer, Commit, Rollback, Rerun, WithdrawSend, StopRetries, vars
  <2> QED  BY <2>1 DEF BudgetInv
<1>0. /\ TypeOK /\ WorkInv /\ DraftInv /\ row \in Message /\ draft.row \in Message
      /\ row.attempts \in Nat /\ calls \in Nat /\ deferrals \in Nat
      /\ MaxAttempts \in Nat /\ MaxAttempts >= 1
  BY SendAssumption DEF IInv, TypeOK, Draft, Message
<1>1. /\ row.attempts <= MaxAttempts
      /\ wphase = "resend" => row.attempts < MaxAttempts
      /\ Held => draft.row.attempts <= MaxAttempts
  BY DEF BudgetInv
<1>2. ASSUME NEW allowed \in BOOLEAN, HandlerSend(allowed)
      PROVE  row' = row /\ wphase' # "resend" /\ draft'.row.attempts <= 1
  <2>1. CASE Dispatch(Inserted, FALSE)
    <3>1. \/ wphase' = "calling" /\ draft' = Wrote(Claimed(Inserted), TRUE, FALSE, FALSE)
          \/ wphase' = "ending" /\ draft'.row.attempts = 0
      BY <1>0, <2>1, DispatchCases, InsertedRow
    <3> QED  BY <1>2, <3>1, InsertedRow DEF HandlerSend, Wrote, Claimed
  <2>2. CASE Write("ending", Wrote(Finalized(Inserted, "failed"), FALSE, FALSE, FALSE))
    <3>1. Finalized(Inserted, "failed").attempts = 0
      BY InsertedRow, FinalizedRow DEF MessageStatus
    <3> QED  BY <1>2, <2>2, <3>1 DEF HandlerSend, Write, Wrote
  <2> QED  BY <1>2, <2>1, <2>2 DEF HandlerSend
<1>3. ASSUME WriteRetry
      PROVE  row' = row /\ wphase' # "resend" /\ draft'.row.attempts <= MaxAttempts
  <2>1. CASE wphase = "resend" /\ Dispatch([row EXCEPT !.dispatched = FALSE], TRUE)
    <3> DEFINE r == [row EXCEPT !.dispatched = FALSE]
    <3>1. r \in Message /\ r.dispatched = FALSE /\ r.status # "none" /\ r.attempts = row.attempts
      BY <1>0, <2>1 DEF Message, WorkInv
    <3>2. Dispatch(r, TRUE)
      BY <2>1
    <3> HIDE DEF r
    <3>3. \/ wphase' = "calling" /\ draft' = Wrote(Claimed(r), TRUE, TRUE, FALSE)
          \/ wphase' = "ending" /\ draft'.row.attempts = row.attempts
      BY <1>0, <3>1, <3>2, DispatchCases
    <3> QED  BY <1>0, <1>1, <1>3, <2>1, <3>1, <3>3 DEF WriteRetry, Wrote, Claimed
  <2>2. ASSUME NEW s \in {"sent", "failed"}, NEW d, d = row \/ d = Finalized(row, s),
               Write("ending", Wrote(d, FALSE, FALSE, FALSE))
        PROVE  wphase' = "ending" /\ draft'.row.attempts = row.attempts
    BY <1>0, <2>2, FinalizedRow DEF MessageStatus, Write, Wrote
  <2>3. \/ wphase = "resend" /\ Dispatch([row EXCEPT !.dispatched = FALSE], TRUE)
        \/ \E s \in {"sent", "failed"} : \E d \in {row, Finalized(row, s)} :
               Write("ending", Wrote(d, FALSE, FALSE, FALSE))
    BY <1>3 DEF WriteRetry, FinalizedIfQueued
  <2> QED  BY <1>1, <1>3, <2>1, <2>2, <2>3 DEF WriteRetry
<1>4. ASSUME NEW plan, LoadRetry(plan)
      PROVE  row' = row /\ draft' = draft /\ ~Held' /\ (wphase' = "resend" => row.attempts < MaxAttempts)
  BY <1>0, <1>4 DEF LoadRetry, Plans, Spent, Held
<1>5. ASSUME NEW reply \in Reply, WorkerAnswer(reply)
      PROVE  row' = row /\ wphase' = "ending" /\ draft'.row.attempts <= MaxAttempts
  <2>1. \/ \E s \in {"sent", "failed"} : draft' = [draft EXCEPT !.row = Finalized(draft.row, s)]
        \/ draft' = [draft EXCEPT !.arm = TRUE]
    BY <1>5 DEF WorkerAnswer, Write, Deferred
  <2>2. draft'.row.attempts = draft.row.attempts
    BY <1>0, <2>1, FinalizedRow DEF TypeOK, Draft, MessageStatus
  <2> QED  BY <1>1, <1>5, <2>2 DEF WorkerAnswer, Write, Held
<1>6. ASSUME Commit PROVE row' = draft.row /\ ~Held' /\ wphase' = "none" /\ Held
  BY <1>6 DEF Commit, Write, Held
<1>7. ASSUME StartRetry \/ \E next \in ActionStatus : Rollback(next)
      PROVE  row' = row /\ ~Held' /\ wphase' # "resend"
  BY <1>7 DEF StartRetry, Rollback, Write, Held
<1>8. ASSUME Rerun \/ StopRetries \/ UNCHANGED vars
      PROVE  row' = row /\ wphase' = wphase /\ draft' = draft
  BY <1>8 DEF Rerun, StopRetries, vars, worker
<1>9. ASSUME WithdrawSend
      PROVE  row'.attempts = row.attempts /\ wphase' = wphase /\ draft' = draft
  BY <1>0, <1>9, FinalizedRow DEF WithdrawSend, worker, MessageStatus
<1>10. draft'.row \in Message
  BY DEF IInv, TypeOK, Draft
<1>11. CASE (\E allowed \in BOOLEAN : HandlerSend(allowed)) \/ WriteRetry
            \/ (\E reply \in Reply : WorkerAnswer(reply))
  <2>1. row' = row /\ wphase' # "resend" /\ (draft'.row.attempts <= 1 \/ draft'.row.attempts <= MaxAttempts)
    BY <1>2, <1>3, <1>5, <1>11
  <2> QED  BY <1>0, <1>1, <1>10, <2>1 DEF Message
<1>12. CASE Commit
  BY <1>1, <1>6, <1>12
<1>13. CASE \/ StartRetry \/ \E plan \in {"none", "refuse", "found", "resend"} : LoadRetry(plan)
            \/ \E next \in ActionStatus : Rollback(next)
  BY <1>1, <1>4, <1>7, <1>13
<1>14. CASE Rerun \/ StopRetries \/ WithdrawSend \/ UNCHANGED vars
  BY <1>1, <1>8, <1>9, <1>14 DEF Held
<1> QED  BY <1>11, <1>12, <1>13, <1>14, HandlersOwn DEF Next, WorkerStep

(***************************************************************************)
(* A handler's message gets at most the calls the ladder has rungs for: a   *)
(* retry asks whether the budget is spent before it re-opens the claim, and *)
(* nobody else claims between its question and its write.                  *)
(***************************************************************************)
THEOREM LadderHasAnEnd == Spec => []BudgetRespected
<1>1. Init => BudgetInv
  BY SendAssumption DEF Init, BudgetInv, NoMessage, Held
<1>2. IInv /\ IInv' /\ BudgetInv /\ [Next]_vars => BudgetInv'
  BY BudgetStep
<1>3. IInv /\ CountInv /\ BudgetInv /\ CallsPerOpening => BudgetRespected
  <2> SUFFICES ASSUME IInv, CountInv, BudgetInv, ~inline PROVE calls <= MaxAttempts
    BY DEF BudgetRespected
  <2>1. Open = {}
    BY DEF Open, IInv, WorkInv
  <2>2. Cardinality(Open) = 0
    BY <2>1, FS_EmptySet
  <2>3. calls \in Nat /\ row.attempts \in Nat /\ MaxAttempts \in Nat
    BY SendAssumption DEF IInv, TypeOK, Message
  <2>4. calls = row.attempts + One(draft.called)
    BY <2>2, <2>3 DEF CountInv, One
  <2>5. Held => draft.row.attempts = row.attempts + One(draft.called)
    BY DEF IInv, DraftInv, One
  <2>6. ~Held => One(draft.called) = 0
    BY DEF IInv, WorkInv, NoDraft, Wrote, One
  <2> QED  BY <2>3, <2>4, <2>5, <2>6 DEF BudgetInv
<1> QED  BY <1>1, <1>2, <1>3, Invariant, Counted, OnlyTheWinnerCalls, PTL DEF Spec

-----------------------------------------------------------------------------
(* Who moves a queued message.                                             *)

\* One request goes from one phase to the next; the others stay where they are.
LEMMA OthersStay ==
    ASSUME TypeOK, NEW c \in Caller, c \notin died, NEW x, pc' = [pc EXCEPT ![c] = x], died' = died
    PROVE  /\ Orphaned => Orphaned'
           /\ x \in InHand => Busy'
           /\ pc[c] \notin InHand /\ Busy => Busy'
           /\ x \in {"recorded", "refused"} => Waiting'
           /\ pc[c] \notin {"recorded", "refused"} /\ Waiting => Waiting'
<1>0. DOMAIN pc = Caller /\ died \subseteq Caller
  BY DEF TypeOK
<1>1. pc'[c] = x /\ \A b \in Caller \ {c} : pc'[b] = pc[b]
  BY <1>0
<1>2. Orphaned => Orphaned'
  BY <1>0, <1>1 DEF Orphaned
<1>3. (x \in InHand => Busy') /\ (pc[c] \notin InHand /\ Busy => Busy')
  BY <1>1 DEF Busy, InHand
<1>4. /\ x \in {"recorded", "refused"} => Waiting'
      /\ pc[c] \notin {"recorded", "refused"} /\ Waiting => Waiting'
  BY <1>1 DEF Waiting
<1> QED  BY <1>2, <1>3, <1>4

LEMMA CallerMoves ==
    ASSUME IInv, MovedInv, NEW c \in Caller,
           (\E allowed \in BOOLEAN : SendOutbound(c, allowed)) \/ CallerStep(c) \/ Die(c)
    PROVE  MovedInv'
<1>0. /\ TypeOK /\ row \in Message /\ pending \in Nat /\ c \notin died /\ job' = job /\ stopped' = stopped
  BY DEF IInv, TypeOK, CallerStep, Die, SendOutbound, Refuse, RefuseDispatch, Claim, TakeToken,
         BucketEmpty, ReleaseClaim, Answer, ArmRetry, GiveUp, Requeue, Alive, worker, retries
<1>1. CASE \E allowed \in BOOLEAN : SendOutbound(c, allowed)
  <2>1. PICK allowed \in BOOLEAN : SendOutbound(c, allowed)
    BY <1>1
  <2>2. /\ pending' = pending /\ died' = died
        /\ pc[c] = "idle"
        /\ row.status # "none" => row' = row
    BY <2>1 DEF SendOutbound, retries
  <2>3. CASE row.status \in Settled
    BY <1>0, <2>1, <2>3 DEF SendOutbound, Settled, MovedInv
  <2>4. CASE row.status \notin Settled
    <3>1. PICK x \in {"recorded", "refused"} : pc' = [pc EXCEPT ![c] = x]
      BY <2>1, <2>4 DEF SendOutbound
    <3>2. Waiting' /\ (Orphaned => Orphaned') /\ (Busy => Busy')
      BY <1>0, <2>2, <3>1, OthersStay DEF InHand
    <3>3. row.status = "none" => row'.dispatched = FALSE
      BY <2>1, InsertedRow DEF SendOutbound
    <3>4. row.status \in {"none", "queued"}
      BY <1>0, <2>4 DEF Message, MessageStatus, Settled
    <3> QED  BY <1>0, <2>2, <3>2, <3>3, <3>4 DEF MovedInv
  <2> QED  BY <2>3, <2>4
<1>2. CASE Refuse(c) \/ RefuseDispatch(c) \/ GiveUp(c) \/ Answer(c, "sent") \/ Answer(c, "rejected")
  <2>1. row'.status # "queued"
    BY <1>0, <1>2, FinalizedRow DEF Refuse, RefuseDispatch, GiveUp, Answer, FinalizedIfQueued, MessageStatus
  <2> QED  BY <2>1 DEF MovedInv
<1>3. CASE Claim(c)
  <2>1. /\ pending' = pending /\ died' = died /\ pc[c] = "recorded"
        /\ pc' = [pc EXCEPT ![c] = IF Claimable(row) THEN "claimed" ELSE "done"]
        /\ ~Claimable(row) => row' = row
    BY <1>3 DEF Claim, retries
  <2>2. /\ Orphaned => Orphaned'
        /\ Claimable(row) => Busy'
        /\ Busy => Busy'
    BY <1>0, <2>1, OthersStay DEF InHand
  <2> QED  BY <1>0, <2>1, <2>2 DEF MovedInv, Claimable, Message
<1>4. CASE TakeToken(c) \/ BucketEmpty(c) \/ Answer(c, "unanswered")
  <2>1. /\ pending' = pending /\ died' = died /\ row' = row
        /\ \E x \in InHand : pc' = [pc EXCEPT ![c] = x]
    BY <1>4 DEF TakeToken, BucketEmpty, Answer, retries, InHand
  <2>2. Busy'
    BY <1>0, <2>1, OthersStay
  <2> QED  BY <2>2 DEF MovedInv
<1>5. CASE ReleaseClaim(c)
  <2>1. died' = died /\ pc' = [pc EXCEPT ![c] = "deferred"]
    BY <1>5 DEF ReleaseClaim
  <2>2. Busy'
    BY <1>0, <2>1, OthersStay DEF InHand
  <2> QED  BY <2>2 DEF MovedInv
<1>6. CASE ArmRetry(c)
  <2>1. pending' > 0
    BY <1>0, <1>6 DEF ArmRetry
  <2> QED  BY <2>1 DEF MovedInv
<1>7. CASE Requeue(c)
  <2>1. /\ row' = row /\ died' = died /\ pc[c] = "armed" /\ pc' = [pc EXCEPT ![c] = "done"]
        /\ row.status = "queued" => pending' = pending
    BY <1>7 DEF Requeue
  <2>2. (Orphaned => Orphaned') /\ (Busy => Busy') /\ (Waiting => Waiting')
    BY <1>0, <2>1, OthersStay DEF InHand
  <2> QED  BY <1>0, <2>1, <2>2 DEF MovedInv
<1>8. CASE Die(c)
  <2>1. pc' = pc /\ died' = died \cup {c} /\ row' = row /\ pending' = pending
    BY <1>8 DEF Die, retries
  <2>2. CASE pc[c] = "armed"
    <3>1. (Orphaned => Orphaned') /\ (Busy => Busy') /\ (Waiting => Waiting')
      BY <2>1, <2>2 DEF Orphaned, Busy, Waiting, InHand
    <3> QED  BY <1>0, <2>1, <3>1 DEF MovedInv
  <2>3. CASE pc[c] # "armed"
    <3>1. Orphaned'
      BY <2>1, <2>3 DEF Orphaned
    <3> QED  BY <3>1 DEF MovedInv
  <2> QED  BY <2>2, <2>3
<1> QED  BY <1>1, <1>2, <1>3, <1>4, <1>5, <1>6, <1>7, <1>8 DEF CallerStep, Reply

LEMMA WorkerMoves ==
    ASSUME IInv, MovedInv, row.status \notin Settled,
           WorkerStep \/ (\E next \in ActionStatus : Rollback(next))
           \/ Rerun \/ WithdrawSend \/ StopRetries \/ UNCHANGED vars
    PROVE  MovedInv'
<1>0. /\ TypeOK /\ WorkInv /\ DraftInv /\ row \in Message /\ pending \in Nat
  BY DEF IInv, TypeOK
<1>1. UNCHANGED <<pc, died>>
  BY DEF WorkerStep, HandlerSend, StartRetry, LoadRetry, WriteRetry, WorkerAnswer, Commit, Rollback,
         Rerun, WithdrawSend, StopRetries, vars, callers
<1>2. (Orphaned' <=> Orphaned) /\ (Busy' <=> Busy) /\ (Waiting' <=> Waiting)
  BY <1>1 DEF Orphaned, Busy, Waiting
<1>3. CASE \E allowed \in BOOLEAN : HandlerSend(allowed)
  BY <1>0, <1>3 DEF HandlerSend, WorkInv, MovedInv
<1>4. CASE StartRetry
  BY <1>4 DEF StartRetry, MovedInv
<1>5. CASE (\E plan \in {"none", "refuse", "found", "resend"} : LoadRetry(plan))
           \/ WriteRetry \/ (\E reply \in Reply : WorkerAnswer(reply)) \/ UNCHANGED vars
  <2>1. /\ row' = row /\ pending' = pending /\ stopped' = stopped
        /\ row.status = "queued" => job' = job
    BY <1>5 DEF LoadRetry, WriteRetry, WorkerAnswer, Plans, Spent, vars, retries, worker
  <2> QED  BY <1>0, <1>2, <2>1 DEF MovedInv
<1>6. CASE Commit
  <2>1. row' = draft.row /\ wphase = "ending" /\ Held /\ (draft.arm => pending' > 0)
    BY <1>0, <1>6 DEF Commit, Held
  <2> QED  BY <1>0, <2>1 DEF MovedInv, DraftInv
<1>7. CASE \E next \in ActionStatus : Rollback(next)
  <2>1. PICK next \in ActionStatus : Rollback(next)
    BY <1>7
  <2>2. row' = row /\ job \in {"send", "retry"}
    BY <1>0, <2>1 DEF Rollback, TypeOK
  <2>3. CASE job = "send"
    BY <1>0, <2>2, <2>3 DEF WorkInv, MovedInv
  <2>4. CASE job = "retry"
    <3>1. CASE next = "pending"
      <4>1. pending' = pending + 1
        BY <2>1, <2>4, <3>1 DEF Rollback
      <4> QED  BY <1>0, <4>1 DEF MovedInv
    <3>2. CASE next = "failed"
      <4>1. stopped' = TRUE
        BY <2>1, <2>4, <3>2 DEF Rollback
      <4> QED  BY <4>1 DEF MovedInv
    <3> QED  BY <2>1, <3>1, <3>2 DEF Rollback
  <2> QED  BY <2>2, <2>3, <2>4
<1>8. CASE Rerun
  BY <1>0, <1>8 DEF Rerun, MovedInv
<1>9. CASE WithdrawSend
  <2>1. row'.status = "withdrawn"
    BY <1>0, <1>9, FinalizedRow DEF WithdrawSend, MessageStatus
  <2> QED  BY <2>1 DEF MovedInv
<1>10. CASE StopRetries
  BY <1>10 DEF StopRetries, MovedInv
<1> QED  BY <1>3, <1>4, <1>5, <1>6, <1>7, <1>8, <1>9, <1>10 DEF WorkerStep

(***************************************************************************)
(* No message sits in "queued" with nobody to move it: each has a retry, a  *)
(* request that holds the claim or may still win it, or the trace of a      *)
(* retry that failed, of one that was stopped, or of a request that died.   *)
(***************************************************************************)
THEOREM NoMessageIsForgotten == Spec => []QueuedIsMoved
<1>1. Init => MovedInv
  BY DEF Init, MovedInv, NoMessage
<1>2. IInv /\ MovedInv /\ [Next]_vars => MovedInv'
  <2> SUFFICES ASSUME IInv, MovedInv, [Next]_vars PROVE MovedInv'
    OBVIOUS
  <2>1. CASE row.status \in Settled
    <3>1. row'.status # "queued"
      BY <2>1, StaysSettled DEF Settled
    <3> QED  BY <3>1 DEF MovedInv
  <2>2. CASE row.status \notin Settled
    BY <2>2, CallerMoves, WorkerMoves DEF Next
  <2> QED  BY <2>1, <2>2
<1>3. MovedInv => QueuedIsMoved
  BY DEF MovedInv, QueuedIsMoved, AtWork, Busy, Waiting, InHand
<1> QED  BY <1>1, <1>2, <1>3, Invariant, PTL DEF Spec
=============================================================================

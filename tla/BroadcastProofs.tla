---------------------------- MODULE BroadcastProofs ----------------------------
(***************************************************************************)
(* Theorems about Broadcast for every audience, chunk size and number of    *)
(* mishaps and cancels: who is sent what, who announces the end, and that   *)
(* the end comes after the whole audience.                                 *)
(***************************************************************************)
EXTENDS Broadcast, FiniteSetTheorems, TLAPS

LEMMA NextCases ==
    ASSUME Next
    PROVE  \/ ScheduleBroadcast \/ BeginCancel \/ CommitCancel
           \/ \E k \in Cursor : ClaimFanout(k) \/ LoadFanout(k) \/ SaveSending(k)
           \/ \E k \in Cursor, eligible \in SUBSET Contact : WriteChunk(k, eligible)
           \/ \E c \in Contact : ClaimSend(c) \/ LoadSend(c) \/ CommitSend(c)
           \/ \E c \in Contact, result \in Outcome : Record(c, result)
           \/ \E c \in Contact, calls \in 0..1 : RunRetry(c, calls)
           \/ ListPending \/ Reconcile \/ CommitSweep
           \/ \E k \in Cursor, next \in ActionStatus : RollbackFanout(k, next)
           \/ \E c \in Contact, next \in ActionStatus : RollbackSend(c, next)
           \/ RollbackSweep \/ RollbackCancel \/ Rerun
<1>1. \A k \in Cursor : Chunk(k) \subseteq Contact
  BY DEF Chunk
<1>2. QED
  BY <1>1 DEF Next, Fanout, Send, SettleBroadcasts, Rollback

-----------------------------------------------------------------------------
(* What a contact's rows say about the provider calls made for it.         *)

\* Nothing has been sent to the contact and nothing is on its way.
Untouched(c) == delivered[c] = 0 /\ retry[c] = "none"

\* A send's transaction runs in its row's one worker, and holds a write to the
\* recipient's row exactly from Record to its end.
TxnInv(c) ==
    /\ sphase[c] # "none" => send[c] = "running"
    /\ sphase[c] \in {"counted", "last"} => outcome[c] # "none"
    /\ sphase[c] \notin {"counted", "last"} => outcome[c] = "none"
    /\ outcome[c] # "none" => c \notin abandoned

\* A send past LoadSend, and a sweep past Reconcile, found the recipient pending;
\* since then it cannot have been sent.
RecipientInv(c) ==
    /\ sphase[c] \in {"owed", "refused", "counted", "last"} => recipient[c] \notin {"none", "sent"}
    /\ c \in abandoned => recipient[c] \notin {"none", "sent"}
    /\ recipient[c] = "none" => send[c] = "none"
    /\ recipient[c] = "pending" => send[c] \in {"pending", "running", "failed"}

\* Until somebody records an answer nothing was sent; a deferred message is the
\* only send that is left to somebody else.
CallInv(c) ==
    /\ delivered[c] <= 1
    /\ retry[c] = "pending" => delivered[c] = 0
    /\ recipient[c] \in {"none", "pending"} /\ outcome[c] = "none" => Untouched(c)
    /\ sphase[c] \in {"owed", "refused"} => Untouched(c)
    /\ outcome[c] # "none" => retry[c] = "none" /\ delivered[c] = IF outcome[c] = "sent" THEN 1 ELSE 0

SendInv == \A c \in Contact : TxnInv(c) /\ RecipientInv(c) /\ CallInv(c)

(***************************************************************************)
(* TypeOK alone is not inductive: a rolled back call is taken off           *)
(* delivered, which only SendInv knows to be positive.                     *)
(***************************************************************************)
IInv == TypeOK /\ SendInv

LEMMA TypeInductive ==
    /\ Init => TypeOK
    /\ TypeOK /\ SendInv /\ [Next]_vars => TypeOK'
<1> USE BroadcastAssumption DEF TypeOK, BroadcastStatus, RecipientStatus, ActionStatus, Outcome
<1>1. ASSUME Init PROVE TypeOK
  <2>1. cancelling \in BOOLEAN
    BY <1>1 DEF Init
  <2>2. QED
    BY <1>1, <2>1 DEF Init
<1>2. ASSUME TypeOK, SendInv, UNCHANGED vars PROVE TypeOK'
  BY <1>2 DEF vars, queue, txns, history, bounds
<1>3. ASSUME TypeOK, SendInv, Next PROVE TypeOK'
  <2> USE <1>3 DEF queue, txns, history, bounds
  <2>1. ASSUME ScheduleBroadcast PROVE TypeOK'
    BY <2>1 DEF ScheduleBroadcast
  <2>2. ASSUME BeginCancel PROVE TypeOK'
    BY <2>2 DEF BeginCancel
  <2>3. ASSUME CommitCancel PROVE TypeOK'
    <3>1. cancelling' \in BOOLEAN
      BY <2>3 DEF CommitCancel
    <3>2. recipient' \in [Contact -> RecipientStatus]
      BY <2>3 DEF CommitCancel
    <3>3. QED
      BY <2>3, <3>1, <3>2 DEF CommitCancel
  <2>4. ASSUME NEW k \in Cursor, ClaimFanout(k) PROVE TypeOK'
    BY <2>4 DEF ClaimFanout
  <2>5. ASSUME NEW k \in Cursor, LoadFanout(k) PROVE TypeOK'
    BY <2>5 DEF LoadFanout
  <2>6. ASSUME NEW k \in Cursor, SaveSending(k) PROVE TypeOK'
    BY <2>6 DEF SaveSending
  <2>7. ASSUME NEW k \in Cursor, NEW eligible \in SUBSET Contact, WriteChunk(k, eligible) PROVE TypeOK'
    BY <2>7 DEF WriteChunk, Recipients, Settle
  <2>8. ASSUME NEW c \in Contact, ClaimSend(c) PROVE TypeOK'
    BY <2>8 DEF ClaimSend
  <2>9. ASSUME NEW c \in Contact, LoadSend(c) PROVE TypeOK'
    BY <2>9 DEF LoadSend, Owed
  <2>10. ASSUME NEW c \in Contact, CommitSend(c) PROVE TypeOK'
    BY <2>10 DEF CommitSend, Settle, Recorded
  <2>11. ASSUME NEW c \in Contact, NEW result \in Outcome, Record(c, result) PROVE TypeOK'
    BY <2>11 DEF Record
  <2>12. ASSUME NEW c \in Contact, NEW calls \in 0..1, RunRetry(c, calls) PROVE TypeOK'
    BY <2>12 DEF RunRetry
  <2>13. ASSUME ListPending PROVE TypeOK'
    BY <2>13 DEF ListPending
  <2>14. ASSUME Reconcile PROVE TypeOK'
    BY <2>14 DEF Reconcile, Alive
  <2>15. ASSUME CommitSweep PROVE TypeOK'
    BY <2>15 DEF CommitSweep, Settle
  <2>16. ASSUME NEW k \in Cursor, NEW next \in ActionStatus, RollbackFanout(k, next) PROVE TypeOK'
    BY <2>16 DEF RollbackFanout, Mishap
  <2>17. ASSUME NEW c \in Contact, NEW next \in ActionStatus, RollbackSend(c, next) PROVE TypeOK'
    <3>1. delivered' \in [Contact -> Nat]
      BY <2>17 DEF RollbackSend, SendInv, CallInv
    <3>2. mishaps' \in Nat
      BY <2>17 DEF RollbackSend, Mishap
    <3>3. QED
      BY <2>17, <3>1, <3>2 DEF RollbackSend
  <2>18. ASSUME RollbackSweep PROVE TypeOK'
    BY <2>18 DEF RollbackSweep, Mishap
  <2>19. ASSUME RollbackCancel PROVE TypeOK'
    <3>1. cancelling' \in BOOLEAN
      BY <2>19 DEF RollbackCancel
    <3>2. mishaps' \in Nat
      BY <2>19 DEF RollbackCancel, Mishap
    <3>3. QED
      BY <2>19, <3>1, <3>2 DEF RollbackCancel
  <2>20. ASSUME Rerun PROVE TypeOK'
    BY <2>20 DEF Rerun, Mishap
  <2>21. QED
    BY NextCases, <2>1, <2>2, <2>3, <2>4, <2>5, <2>6, <2>7, <2>8, <2>9, <2>10, <2>11, <2>12, <2>13, <2>14, <2>15, <2>16, <2>17, <2>18, <2>19, <2>20
<1>4. QED
  BY <1>1, <1>2, <1>3

LEMMA SendInvInductive ==
    /\ Init => SendInv
    /\ TypeOK /\ SendInv /\ [Next]_vars => SendInv'
<1> USE DEF SendInv, TxnInv, RecipientInv, CallInv, Untouched
<1>1. Init => SendInv
  BY DEF Init
<1>2. ASSUME TypeOK, SendInv, UNCHANGED vars PROVE SendInv'
  BY <1>2 DEF vars, queue, txns, history, bounds
<1>3. ASSUME TypeOK, SendInv, Next PROVE SendInv'
  <2> USE <1>3 DEF queue, txns, history, bounds, TypeOK, RecipientStatus, ActionStatus, Outcome
  <2>1. ASSUME ScheduleBroadcast PROVE SendInv'
    BY <2>1 DEF ScheduleBroadcast
  <2>2. ASSUME BeginCancel PROVE SendInv'
    BY <2>2 DEF BeginCancel
  <2>3. ASSUME CommitCancel PROVE SendInv'
    BY <2>3 DEF CommitCancel, Flipped, Stoppable, Written
  <2>4. ASSUME NEW k \in Cursor, ClaimFanout(k) PROVE SendInv'
    BY <2>4 DEF ClaimFanout
  <2>5. ASSUME NEW k \in Cursor, LoadFanout(k) PROVE SendInv'
    BY <2>5 DEF LoadFanout
  <2>6. ASSUME NEW k \in Cursor, SaveSending(k) PROVE SendInv'
    BY <2>6 DEF SaveSending
  <2>7. ASSUME NEW k \in Cursor, NEW eligible \in SUBSET Contact, WriteChunk(k, eligible) PROVE SendInv'
    BY <2>7 DEF WriteChunk, Recipients, Settle
  <2>8. ASSUME NEW c \in Contact, ClaimSend(c) PROVE SendInv'
    BY <2>8 DEF ClaimSend
  <2>9. ASSUME NEW c \in Contact, LoadSend(c) PROVE SendInv'
    BY <2>9 DEF LoadSend, Owed
  <2>10. ASSUME NEW c \in Contact, CommitSend(c) PROVE SendInv'
    BY <2>10 DEF CommitSend, Settle, Recorded
  <2>11. ASSUME NEW c \in Contact, NEW result \in Outcome, Record(c, result) PROVE SendInv'
    BY <2>11 DEF Record
  <2>12. ASSUME NEW c \in Contact, NEW calls \in 0..1, RunRetry(c, calls) PROVE SendInv'
    BY <2>12 DEF RunRetry
  <2>13. ASSUME ListPending PROVE SendInv'
    BY <2>13 DEF ListPending
  <2>14. ASSUME Reconcile PROVE SendInv'
    BY <2>14 DEF Reconcile, Alive
  <2>15. ASSUME CommitSweep PROVE SendInv'
    BY <2>15 DEF CommitSweep, Settle
  <2>16. ASSUME NEW k \in Cursor, NEW next \in ActionStatus, RollbackFanout(k, next) PROVE SendInv'
    BY <2>16 DEF RollbackFanout, Mishap
  <2>17. ASSUME NEW c \in Contact, NEW next \in ActionStatus, RollbackSend(c, next) PROVE SendInv'
    BY <2>17 DEF RollbackSend, Mishap
  <2>18. ASSUME RollbackSweep PROVE SendInv'
    BY <2>18 DEF RollbackSweep, Mishap
  <2>19. ASSUME RollbackCancel PROVE SendInv'
    BY <2>19 DEF RollbackCancel, Mishap
  <2>20. ASSUME Rerun PROVE SendInv'
    BY <2>20 DEF Rerun, Mishap
  <2>21. QED
    BY NextCases, <2>1, <2>2, <2>3, <2>4, <2>5, <2>6, <2>7, <2>8, <2>9, <2>10, <2>11, <2>12, <2>13, <2>14, <2>15, <2>16, <2>17, <2>18, <2>19, <2>20
<1>4. QED
  BY <1>1, <1>2, <1>3

(***************************************************************************)
(* Broadcast is type correct, for every audience and chunk size.           *)
(***************************************************************************)
THEOREM TypeCorrect == Spec => []TypeOK
BY TypeInductive, SendInvInductive, PTL DEF Spec

(***************************************************************************)
(* A contact is sent a broadcast once, through any number of re-runs,      *)
(* rollbacks and cancels.                                                  *)
(***************************************************************************)
THEOREM ContactsAreSentOnce == Spec => []SentOnce
<1>1. SendInv => SentOnce
  BY DEF SendInv, CallInv, SentOnce
<1>2. QED
  BY <1>1, TypeInductive, SendInvInductive, PTL DEF Spec

(***************************************************************************)
(* No recipient is left pending without a send row that will answer or     *)
(* that the sweep will find.                                               *)
(***************************************************************************)
THEOREM PendingAreArmed == Spec => []PendingIsArmed
<1>1. SendInv => PendingIsArmed
  BY DEF SendInv, RecipientInv, PendingIsArmed
<1>2. QED
  BY <1>1, TypeInductive, SendInvInductive, PTL DEF Spec

(***************************************************************************)
(* What was sent stays sent, unless the message was deferred and a cancel   *)
(* stops it: the property of the steps that SentStands boxes.               *)
(***************************************************************************)
SentStandsStep ==
    \A c \in Contact : recipient[c] = "sent" =>
      \/ recipient'[c] = "sent"
      \/ recipient'[c] = "cancelled" /\ retry'[c] = "cancelled"

LEMMA StepsLeaveSent == ASSUME TypeOK, SendInv, [Next]_vars PROVE SentStandsStep
<1> USE DEF SentStandsStep
<1>1. CASE UNCHANGED <<recipient, retry>>
  BY <1>1
<1>2. ASSUME NEW k \in Cursor, NEW eligible \in SUBSET Contact, WriteChunk(k, eligible) PROVE SentStandsStep
  BY <1>2 DEF WriteChunk, Recipients
<1>3. ASSUME NEW c \in Contact, CommitSend(c) PROVE SentStandsStep
  <2>1. recipient[c] # "sent"
    BY <1>3 DEF CommitSend, SendInv, RecipientInv
  <2>2. \A d \in Contact \ {c} : recipient'[d] = recipient[d]
    BY <1>3 DEF CommitSend, TypeOK
  <2>3. QED
    BY <2>1, <2>2
<1>4. ASSUME CommitCancel PROVE SentStandsStep
  BY <1>4 DEF CommitCancel, Flipped, Stoppable
<1>5. ASSUME CommitSweep PROVE SentStandsStep
  BY <1>5 DEF CommitSweep, SendInv, RecipientInv
<1>6. ASSUME NEW c \in Contact, NEW calls \in 0..1, RunRetry(c, calls) PROVE SentStandsStep
  BY <1>6 DEF RunRetry
<1>7. CASE UNCHANGED vars
  BY <1>7, <1>1 DEF vars, queue
<1>8. CASE Next
  <2> USE <1>1 DEF queue
  <2>1. CASE ScheduleBroadcast \/ BeginCancel
    BY <2>1 DEF ScheduleBroadcast, BeginCancel
  <2>2. ASSUME NEW k \in Cursor, ClaimFanout(k) \/ LoadFanout(k) \/ SaveSending(k) PROVE SentStandsStep
    BY <2>2 DEF ClaimFanout, LoadFanout, SaveSending
  <2>3. ASSUME NEW c \in Contact, ClaimSend(c) \/ LoadSend(c) PROVE SentStandsStep
    BY <2>3 DEF ClaimSend, LoadSend
  <2>4. ASSUME NEW c \in Contact, NEW result \in Outcome, Record(c, result) PROVE SentStandsStep
    BY <2>4 DEF Record
  <2>5. CASE ListPending \/ Reconcile
    BY <2>5 DEF ListPending, Reconcile
  <2>6. ASSUME NEW k \in Cursor, NEW next \in ActionStatus, RollbackFanout(k, next) PROVE SentStandsStep
    BY <2>6 DEF RollbackFanout
  <2>7. ASSUME NEW c \in Contact, NEW next \in ActionStatus, RollbackSend(c, next) PROVE SentStandsStep
    BY <2>7 DEF RollbackSend
  <2>8. CASE RollbackSweep \/ RollbackCancel \/ Rerun
    BY <2>8 DEF RollbackSweep, RollbackCancel, Rerun
  <2>9. QED
    BY NextCases, <1>2, <1>3, <1>4, <1>5, <1>6, <1>8, <2>1, <2>2, <2>3, <2>4, <2>5, <2>6, <2>7, <2>8
<1>9. QED
  BY <1>7, <1>8

(***************************************************************************)
(* No re-run, cancel or sweep rewrites a recipient that got the message.    *)
(***************************************************************************)
THEOREM SentIsLeftAlone == Spec => SentStands
<1>1. TypeOK /\ SendInv /\ [Next]_vars => [SentStandsStep]_vars
  BY StepsLeaveSent
<1>2. QED
  BY <1>1, TypeInductive, SendInvInductive, PTL DEF Spec, SentStands, SentStandsStep

-----------------------------------------------------------------------------
(* The status and its announcement.                                        *)

\* While the broadcast has not started, only the first fan-out row exists; the
\* chunk that starts it is the one that found it scheduled, and until it commits
\* nobody else moves the status, except to cancelled.
StartInv ==
    /\ status \in {"draft", "scheduled"} =>
         \A k \in Cursor \ {0} : fanout[k] = "none" /\ fphase[k] = "none"
    /\ \A k \in Cursor :
         /\ fphase[k] \in {"first", "saved"} => k = 0 /\ status \in {"scheduled", "cancelled"}
         /\ fphase[k] = "chunk" => status \notin {"draft", "scheduled"}

\* A cancel that holds the row found the broadcast live and keeps it so.
CancelInv == cancelling => status \in LiveStatuses /\ \A k \in Cursor : fphase[k] # "saved"

AInv == StartInv /\ CancelInv /\ AnnouncedIfSent

LEMMA AInvInductive ==
    /\ Init => AInv
    /\ TypeOK /\ AInv /\ [Next]_vars => AInv'
<1> USE DEF AInv, StartInv, CancelInv, LiveStatuses, AnnouncedIfSent
<1>1. Init => AInv
  BY DEF Init
<1>2. ASSUME TypeOK, AInv, UNCHANGED vars PROVE AInv'
  BY <1>2 DEF vars, queue, txns, history, bounds
<1>3. ASSUME TypeOK, AInv, Next PROVE AInv'
  <2> USE <1>3 DEF queue, txns, history, bounds, TypeOK, BroadcastStatus, ActionStatus, RowFree
  <2>1. ASSUME ScheduleBroadcast PROVE AInv'
    BY <2>1 DEF ScheduleBroadcast
  <2>2. ASSUME BeginCancel PROVE AInv'
    BY <2>2 DEF BeginCancel
  <2>3. ASSUME CommitCancel PROVE AInv'
    BY <2>3 DEF CommitCancel
  <2>4. ASSUME NEW k \in Cursor, ClaimFanout(k) PROVE AInv'
    BY <2>4 DEF ClaimFanout
  <2>5. ASSUME NEW k \in Cursor, LoadFanout(k) PROVE AInv'
    BY <2>5 DEF LoadFanout
  <2>6. ASSUME NEW k \in Cursor, SaveSending(k) PROVE AInv'
    BY <2>6 DEF SaveSending
  <2>7. ASSUME NEW k \in Cursor, NEW eligible \in SUBSET Contact, WriteChunk(k, eligible) PROVE AInv'
    BY <2>7 DEF WriteChunk, Recipients, Settle
  <2>8. ASSUME NEW c \in Contact, ClaimSend(c) PROVE AInv'
    BY <2>8 DEF ClaimSend
  <2>9. ASSUME NEW c \in Contact, LoadSend(c) PROVE AInv'
    BY <2>9 DEF LoadSend, Owed
  <2>10. ASSUME NEW c \in Contact, CommitSend(c) PROVE AInv'
    BY <2>10 DEF CommitSend, Settle, Recorded
  <2>11. ASSUME NEW c \in Contact, NEW result \in Outcome, Record(c, result) PROVE AInv'
    BY <2>11 DEF Record
  <2>12. ASSUME NEW c \in Contact, NEW calls \in 0..1, RunRetry(c, calls) PROVE AInv'
    BY <2>12 DEF RunRetry
  <2>13. ASSUME ListPending PROVE AInv'
    BY <2>13 DEF ListPending
  <2>14. ASSUME Reconcile PROVE AInv'
    BY <2>14 DEF Reconcile, Alive
  <2>15. ASSUME CommitSweep PROVE AInv'
    BY <2>15 DEF CommitSweep, Settle
  <2>16. ASSUME NEW k \in Cursor, NEW next \in ActionStatus, RollbackFanout(k, next) PROVE AInv'
    BY <2>16 DEF RollbackFanout, Mishap
  <2>17. ASSUME NEW c \in Contact, NEW next \in ActionStatus, RollbackSend(c, next) PROVE AInv'
    BY <2>17 DEF RollbackSend, Mishap
  <2>18. ASSUME RollbackSweep PROVE AInv'
    BY <2>18 DEF RollbackSweep, Mishap
  <2>19. ASSUME RollbackCancel PROVE AInv'
    BY <2>19 DEF RollbackCancel, Mishap
  <2>20. ASSUME Rerun PROVE AInv'
    BY <2>20 DEF Rerun, Mishap
  <2>21. QED
    BY NextCases, <2>1, <2>2, <2>3, <2>4, <2>5, <2>6, <2>7, <2>8, <2>9, <2>10, <2>11, <2>12, <2>13, <2>14, <2>15, <2>16, <2>17, <2>18, <2>19, <2>20
<1>4. QED
  BY <1>1, <1>2, <1>3

(***************************************************************************)
(* broadcast.finished goes out exactly once, when the broadcast is sent.    *)
(***************************************************************************)
THEOREM AnnouncedOnce == Spec => []AnnouncedIfSent
BY TypeInductive, SendInvInductive, AInvInductive, PTL DEF Spec, AInv
-----------------------------------------------------------------------------
(* The expansion of the audience.                                          *)

\* The chunk after k has recipient rows, and the fan-out row after it exists.
Expanded(rows, people, k) ==
    /\ \A c \in Chunk(k) : people[c] # "none"
    /\ k + ChunkSize \in Cursor => rows[k + ChunkSize] # "none"

(***************************************************************************)
(* A fan-out row that is done has expanded its chunk, or the broadcast was  *)
(* over when it looked; a broadcast that is sent is expanded to its end.    *)
(***************************************************************************)
CoverInv ==
    /\ \A k \in Cursor :
         /\ fphase[k] # "none" => fanout[k] = "running"
         /\ fphase[k] \in {"first", "saved"} => \A j \in Cursor \ {0} : fanout[j] = "none"
    /\ status = "draft" => \A k \in Cursor : fanout[k] = "none"
    /\ status # "draft" => fanout[0] # "none"
    /\ status # "cancelled" => \A k \in Cursor :
         fanout[k] # "cancelled" /\ (fanout[k] = "done" => Expanded(fanout, recipient, k))
    /\ status = "sent" => \A k \in Cursor : fanout[k] # "none" /\ Expanded(fanout, recipient, k)

\* A nonempty set of numbers has a least one.
LEMMA LeastNat ==
    ASSUME NEW T \in SUBSET Nat, T # {}
    PROVE  \E m \in T : \A n \in T : m <= n
<1> DEFINE D == {0..n : n \in T}
           R == StrictSubsetOrdering(Nat)
<1>1. IsWellFoundedOn(R, FiniteSubsetsOf(Nat))
  BY FS_StrictSubsetOrderingWellFounded
<1>2. D \subseteq FiniteSubsetsOf(Nat) /\ D # {}
  <2>1. ASSUME NEW n \in T PROVE 0..n \in FiniteSubsetsOf(Nat)
    <3>1. IsFiniteSet(0..n) /\ 0..n \in SUBSET Nat
      BY FS_Interval
    <3> QED  BY <3>1 DEF FiniteSubsetsOf
  <2> QED  BY <2>1
<1>3. \E x \in D : \A y \in D : ~ (<<y, x>> \in R)
  <2> HIDE DEF D, R
  <2> QED BY <1>1, <1>2, WFMin
<1>4. PICK m \in T : \A n \in T : ~ (<<0..n, 0..m>> \in R)
  BY <1>3
<1>5. ASSUME NEW n \in T, n < m PROVE FALSE
  <2>1. 0..n \subseteq 0..m /\ 0..n # 0..m /\ 0..n \in SUBSET Nat /\ 0..m \in SUBSET Nat
    <3>1. m \in 0..m /\ m \notin 0..n
       BY <1>5
    <3> QED BY <1>5, <3>1
  <2> QED  BY <2>1, <1>4 DEF StrictSubsetOrdering
<1> QED  BY <1>4, <1>5

\* Cursors are ChunkSize apart.
LEMMA CursorBefore ==
    ASSUME NEW k \in Cursor, k # 0
    PROVE  k - ChunkSize \in Cursor
<1> DEFINE n == ChunkSize
           a == k \div n
           b == (k - n) \div n
           r == (k - n) % n
<1>0. k \in Nat /\ n \in Nat \ {0} /\ k % n = 0 /\ k <= Audience /\ Audience \in Nat
  BY BroadcastAssumption DEF Cursor
<1>1. k >= n /\ a \in Nat /\ k = n * a
  <2> HIDE DEF n
  <2> QED  BY <1>0
<1>2. b \in Nat /\ r \in Nat /\ r < n /\ k - n = n * b + r
  <2>1. k - n \in Nat
    BY <1>0, <1>1
  <2> HIDE DEF n
  <2> QED  BY <1>0, <2>1
<1> HIDE DEF n, a, b, r
<1>3. n * b \in Nat
  BY <1>0, <1>2
<1>4. CASE a >= b + 2
  <2>1. n * a >= n * (b + 2)
    BY <1>0, <1>1, <1>2, <1>4
  <2>2. n * (b + 2) = n * b + n + n
    BY <1>0, <1>2
  <2> QED  BY <1>0, <1>1, <1>2, <1>3, <2>1, <2>2
<1>5. CASE a <= b + 1
  <2>1. n * a <= n * (b + 1)
    BY <1>0, <1>1, <1>2, <1>5
  <2>2. n * (b + 1) = n * b + n
    BY <1>0, <1>2
  <2>3. r = 0
    BY <1>0, <1>1, <1>2, <1>3, <2>1, <2>2
  <2>4. k - n \in Nat /\ k - n <= Audience /\ (k - n) % n = 0
    BY <1>0, <1>1, <2>3 DEF r
  <2> QED  BY <2>4 DEF Cursor, n
<1> QED  BY <1>1, <1>2, <1>4, <1>5

\* What is left of a number without its remainder.
LEMMA RoundedDown ==
    ASSUME NEW m \in Nat, NEW d \in Nat \ {0}
    PROVE  (m - (m % d)) % d = 0 /\ m % d < d /\ m % d \in Nat /\ m % d <= m
OBVIOUS

\* Every contact is in somebody's chunk.
LEMMA ChunksCover ==
    ASSUME NEW c \in Contact
    PROVE  \E k \in Cursor : c \in Chunk(k)
<1> DEFINE n == ChunkSize
           k == (c - 1) - ((c - 1) % n)
<1>0. c - 1 \in Nat /\ n \in Nat \ {0} /\ c \in Nat /\ c <= Audience /\ Audience \in Nat
  BY BroadcastAssumption DEF Contact
<1>1. k % n = 0 /\ k \in Nat /\ k <= c - 1 /\ c - 1 < k + n
  <2> DEFINE e == (c - 1) % n
  <2>2. k % n = 0 /\ e \in Nat /\ e <= c - 1 /\ e < n
    BY <1>0, RoundedDown
  <2>3. k = (c - 1) - e
    OBVIOUS
  <2> HIDE DEF e, k
  <2> QED  BY <1>0, <2>2, <2>3
<1> HIDE DEF k
<1> QED  BY <1>0, <1>1 DEF Cursor, Chunk

\* A chunk that another follows is a full one.
LEMMA FullChunk ==
    ASSUME NEW k \in Cursor, k + ChunkSize \in Cursor
    PROVE  Cardinality(Chunk(k)) = ChunkSize
<1>1. k \in Nat /\ ChunkSize \in Nat \ {0} /\ Audience \in Nat /\ k + ChunkSize <= Audience
  BY BroadcastAssumption DEF Cursor
<1>2. Chunk(k) = (k + 1)..(k + ChunkSize)
  BY <1>1 DEF Chunk, Contact
<1>3. Cardinality((k + 1)..(k + ChunkSize)) = (k + ChunkSize) - (k + 1) + 1
  BY <1>1, FS_Interval
<1> QED  BY <1>1, <1>2, <1>3

\* If the first chunk was fanned out and no row is left to run, all chunks were.
LEMMA FanoutReachesAll ==
    ASSUME NEW rows, NEW people, rows[0] # "none",
           \A k \in Cursor : rows[k] # "none" => Expanded(rows, people, k)
    PROVE  \A k \in Cursor : rows[k] # "none"
<1> DEFINE T == {k \in Cursor : rows[k] = "none"}
<1> SUFFICES ASSUME T # {} PROVE FALSE
  OBVIOUS
<1>1. T \subseteq Nat
  BY BroadcastAssumption DEF Cursor
<1>2. PICK m \in T : \A k \in T : m <= k
  BY <1>1, LeastNat
<1>3. m - ChunkSize \in Cursor /\ m \in Nat /\ ChunkSize \in Nat \ {0}
  BY <1>1, <1>2, CursorBefore, BroadcastAssumption
<1>4. rows[m - ChunkSize] # "none"
  <2>1. m - ChunkSize \in Nat
    BY <1>3, BroadcastAssumption DEF Cursor
  <2>2. ~ (m <= m - ChunkSize)
    BY <1>3, <2>1
  <2> QED  BY <1>2, <1>3, <2>2
<1>5. (m - ChunkSize) + ChunkSize = m
  BY <1>3
<1> QED  BY <1>2, <1>3, <1>4, <1>5 DEF Expanded

\* No row is lost: what is expanded stays so.
LEMMA StaysExpanded ==
    ASSUME NEW rows, NEW people, NEW rows2, NEW people2, NEW k \in Cursor,
           \A j \in Cursor : rows[j] # "none" => rows2[j] # "none",
           \A c \in Contact : people[c] # "none" => people2[c] # "none",
           Expanded(rows, people, k)
    PROVE  Expanded(rows2, people2, k)
BY DEF Expanded, Chunk

\* Steps that neither end nor start a fan-out row, and leave the status alone or cancel.
LEMMA CoverStays ==
    ASSUME CoverInv,
           \/ status' = status
           \/ status' = "cancelled" /\ status # "draft",
           \A k \in Cursor :
             /\ fanout[k] # "none" => fanout'[k] # "none"
             /\ fanout'[k] # "none" => fanout[k] # "none"
             /\ fanout'[k] = "done" =>
                  fanout[k] = "done" \/ Expanded(fanout, recipient, k) \/ status' = "cancelled"
             /\ fanout'[k] = "cancelled" => fanout[k] = "cancelled" \/ status' = "cancelled"
             /\ fphase'[k] # "none" => fanout'[k] = "running"
             /\ fphase'[k] \in {"first", "saved"} =>
                  fphase[k] \in {"first", "saved"} \/ \A j \in Cursor \ {0} : fanout[j] = "none",
           \A c \in Contact : recipient[c] # "none" => recipient'[c] # "none"
    PROVE  CoverInv'
<1>1. \A k \in Cursor : Expanded(fanout, recipient, k) => Expanded(fanout', recipient', k)
  BY StaysExpanded
<1>2. 0 \in Cursor
  BY BroadcastAssumption DEF Cursor
<1>3. \A k \in Cursor :
         /\ fphase'[k] # "none" => fanout'[k] = "running"
         /\ fphase'[k] \in {"first", "saved"} => \A j \in Cursor \ {0} : fanout'[j] = "none"
  BY DEF CoverInv
<1>4. /\ status' = "draft" => \A k \in Cursor : fanout'[k] = "none"
      /\ status' # "draft" => fanout'[0] # "none"
  BY <1>2 DEF CoverInv
<1>5. status' # "cancelled" => \A k \in Cursor :
         fanout'[k] # "cancelled" /\ (fanout'[k] = "done" => Expanded(fanout', recipient', k))
  BY <1>1 DEF CoverInv
<1>6. status' = "sent" => \A k \in Cursor : fanout'[k] # "none" /\ Expanded(fanout', recipient', k)
  BY <1>1 DEF CoverInv
<1> QED  BY <1>3, <1>4, <1>5, <1>6 DEF CoverInv

\* Whoever settles a broadcast finds no fan-out row to run.
LEMMA CoverSettles ==
    ASSUME TypeOK, CoverInv, status = "sending", ~FanoutOutstanding({})
    PROVE  \A k \in Cursor : fanout[k] # "none" /\ Expanded(fanout, recipient, k)
<1>1. \A k \in Cursor : fanout[k] \in {"none", "done"}
  BY DEF TypeOK, ActionStatus, FanoutOutstanding, CoverInv
<1>2. \A k \in Cursor : fanout[k] # "none" => Expanded(fanout, recipient, k)
  BY <1>1 DEF CoverInv
<1>3. fanout[0] # "none"
  BY DEF CoverInv
<1> QED  BY <1>2, <1>3, FanoutReachesAll
\* The chunk that is written; the first one may overwrite a cancel.
LEMMA CoverByChunk ==
    ASSUME TypeOK, AInv, CoverInv,
           NEW k \in Cursor, NEW eligible \in SUBSET Contact, WriteChunk(k, eligible)
    PROVE  CoverInv'
<1> DEFINE full == Cardinality(Chunk(k)) = ChunkSize
           next == k + ChunkSize
           own  == fphase[k] = "saved"
<1>1. /\ fphase[k] \in {"chunk", "saved"}
      /\ recipient' = Recipients(k, eligible)
      /\ fanout' = [j \in Cursor |-> IF j = k THEN "done"
                                     ELSE IF full /\ j = next /\ fanout[j] = "none" THEN "pending"
                                     ELSE fanout[j]]
      /\ fphase' = [fphase EXCEPT ![k] = "none"]
  BY DEF WriteChunk
<1>2. PICK ended \in BOOLEAN :
        /\ ended => ~full /\ ~FanoutOutstanding({k})
        /\ status' = IF own THEN IF ended THEN "sent" ELSE "sending"
                     ELSE IF ended /\ status = "sending" THEN "sent" ELSE status
  <2> DEFINE e == /\ ~full /\ ~FanoutOutstanding({k})
                  /\ \A c \in Contact : Recipients(k, eligible)[c] # "pending"
  <2>1. status' = IF own THEN IF e THEN "sent" ELSE "sending"
                  ELSE IF e /\ status = "sending" THEN "sent" ELSE status
    BY DEF WriteChunk, Settle
  <2> QED  BY <2>1
<1> HIDE DEF full, own
<1>3. fanout[k] = "running" /\ fanout \in [Cursor -> ActionStatus] /\ 0 \in Cursor /\ k # next
      /\ fphase \in [Cursor -> {"none", "claimed", "first", "saved", "chunk"}]
  BY <1>1, BroadcastAssumption DEF CoverInv, TypeOK, Cursor
<1>4. \A j \in Cursor : fanout[j] # "none" => fanout'[j] # "none"
  BY <1>1, <1>3
<1>5. \A c \in Contact : /\ recipient[c] # "none" => recipient'[c] # "none"
                         /\ c \in Chunk(k) => recipient'[c] # "none"
  BY <1>1 DEF Recipients
<1>6. Expanded(fanout', recipient', k)
  <2>1. \A c \in Chunk(k) : recipient'[c] # "none"
    BY <1>5 DEF Chunk
  <2>2. next \in Cursor => fanout'[next] # "none"
    BY <1>1, <1>3, FullChunk DEF full
  <2> QED  BY <2>1, <2>2 DEF Expanded
<1>7. \A j \in Cursor : Expanded(fanout, recipient, j) => Expanded(fanout', recipient', j)
  BY <1>4, <1>5, StaysExpanded
<1>8. CASE own
  <2>1. k = 0 /\ status \in {"scheduled", "cancelled"} /\ \A j \in Cursor \ {0} : fanout[j] = "none"
    BY <1>1, <1>8 DEF AInv, StartInv, CoverInv, own
  <2>2. \A j \in Cursor : fphase'[j] = "none"
    BY <1>1, <1>3, <2>1 DEF CoverInv
  <2>3. fanout'[0] = "done" /\ \A j \in Cursor \ {0} : fanout'[j] \in {"none", "pending"}
    BY <1>1, <1>3, <2>1
  <2>4. ASSUME status' = "sent"
        PROVE  \A j \in Cursor : fanout'[j] # "none" /\ Expanded(fanout', recipient', j)
    <3>1. ~full
      BY <1>2, <1>8, <2>4
    <3>2. \A j \in Cursor : fanout'[j] # "none" => j = 0
      BY <1>1, <2>1, <3>1
    <3> QED  BY <1>6, <2>1, <2>3, <3>2, FanoutReachesAll
  <2>5. status' \in {"sending", "sent"}
    BY <1>2, <1>8
  <2> QED  BY <1>6, <2>1, <2>2, <2>3, <2>4, <2>5 DEF CoverInv
<1>9. CASE ~own
  <2>1. fphase[k] = "chunk" /\ status \notin {"draft", "scheduled"}
    BY <1>1, <1>9 DEF AInv, StartInv, own
  <2>2. \/ status' = status
        \/ status = "sending" /\ status' = "sent" /\ ~full /\ ~FanoutOutstanding({k})
    BY <1>2, <1>9
  <2>3. \A j \in Cursor : /\ fphase[j] \notin {"first", "saved"}
                          /\ fphase'[j] # "none" => fphase[j] # "none" /\ j # k /\ fphase'[j] = fphase[j]
    <3>1. ASSUME NEW j \in Cursor, fphase[j] \in {"first", "saved"} PROVE FALSE
      BY <1>3, <2>1, <3>1 DEF AInv, StartInv, CoverInv
    <3> QED  BY <1>1, <1>3, <3>1
  <2>4. \A j \in Cursor : /\ fphase'[j] # "none" => fanout'[j] = "running"
                          /\ fphase'[j] \notin {"first", "saved"}
    BY <1>1, <1>3, <2>3 DEF CoverInv
  <2>5. status' # "draft" /\ fanout'[0] # "none"
    BY <1>3, <1>4, <2>1, <2>2 DEF CoverInv
  <2>6. ASSUME status' # "cancelled", NEW j \in Cursor
        PROVE  fanout'[j] # "cancelled" /\ (fanout'[j] = "done" => Expanded(fanout', recipient', j))
    <3>1. status # "cancelled"
      BY <2>2, <2>6
    <3> QED  BY <1>1, <1>6, <1>7, <3>1 DEF CoverInv
  <2>7. ASSUME status' = "sent"
        PROVE  \A j \in Cursor : fanout'[j] # "none" /\ Expanded(fanout', recipient', j)
    <3>1. CASE status = "sent"
      BY <1>4, <1>7, <3>1 DEF CoverInv
    <3>2. CASE status # "sent"
      <4>1. status = "sending" /\ ~full /\ ~FanoutOutstanding({k})
        BY <2>2, <2>7, <3>2
      <4>2. \A j \in Cursor : fanout'[j] \in {"none", "done"}
        BY <1>1, <1>3, <4>1 DEF FanoutOutstanding, CoverInv, ActionStatus
      <4> QED  BY <2>5, <2>6, <2>7, <4>2, FanoutReachesAll
    <3> QED  BY <3>1, <3>2
  <2> QED  BY <2>4, <2>5, <2>6, <2>7 DEF CoverInv
<1> QED  BY <1>8, <1>9

\* A settling UPDATE changes the status of a broadcast that is expanded.
LEMMA CoverBySettle ==
    ASSUME TypeOK, CoverInv, NEW last \in BOOLEAN, Settle(last /\ ~FanoutOutstanding({})),
           UNCHANGED <<fanout, fphase>>,
           \A c \in Contact : recipient[c] # "none" => recipient'[c] # "none"
    PROVE  CoverInv'
<1>1. CASE status' = status
  BY <1>1, CoverStays DEF CoverInv
<1>2. CASE status' # status
  <2>1. status = "sending" /\ status' = "sent" /\ ~FanoutOutstanding({})
    BY <1>2 DEF Settle
  <2>2. \A k \in Cursor : fanout[k] # "none" /\ Expanded(fanout, recipient, k)
    BY <2>1, CoverSettles
  <2>3. \A k \in Cursor : Expanded(fanout', recipient', k)
    BY <2>2, StaysExpanded
  <2> QED  BY <2>1, <2>2, <2>3 DEF CoverInv
<1> QED  BY <1>1, <1>2

\* One step per action; most leave the fan-out rows alone.
LEMMA CoverInvInductive ==
    /\ Init => CoverInv
    /\ TypeOK /\ SendInv /\ AInv /\ CoverInv /\ [Next]_vars => CoverInv'
<1>1. Init => CoverInv
  BY DEF Init, CoverInv
<1>2. ASSUME TypeOK, SendInv, AInv, CoverInv, UNCHANGED vars PROVE CoverInv'
  BY <1>2, CoverStays DEF vars, queue, txns, CoverInv
<1>3. ASSUME TypeOK, SendInv, AInv, CoverInv, Next PROVE CoverInv'
  <2>0. /\ fanout \in [Cursor -> ActionStatus] /\ recipient \in [Contact -> RecipientStatus]
        /\ fphase \in [Cursor -> {"none", "claimed", "first", "saved", "chunk"}]
        /\ 0 \in Cursor
        /\ \A k \in Cursor :
             /\ fphase[k] # "none" => fanout[k] = "running"
             /\ fphase[k] \in {"first", "saved"} => \A j \in Cursor \ {0} : fanout[j] = "none"
    BY <1>3, BroadcastAssumption DEF TypeOK, CoverInv, Cursor
  <2>1. ASSUME ScheduleBroadcast PROVE CoverInv'
    <3>1. /\ status = "draft" /\ status' = "scheduled" /\ fanout' = [fanout EXCEPT ![0] = "pending"]
          /\ UNCHANGED <<fphase, recipient>>
      BY <2>1 DEF ScheduleBroadcast, txns
    <3>2. \A k \in Cursor : fanout[k] = "none" /\ fphase[k] = "none"
      BY <1>3, <2>0, <3>1 DEF CoverInv
    <3> QED  BY <2>0, <3>1, <3>2 DEF CoverInv
  <2>2. ASSUME BeginCancel \/ ListPending \/ Reconcile \/ RollbackSweep \/ RollbackCancel PROVE CoverInv'
    <3>1. UNCHANGED <<status, fanout, fphase, recipient>>
      BY <2>2 DEF BeginCancel, ListPending, Reconcile, RollbackSweep, RollbackCancel, queue
    <3> QED  BY <1>3, <2>0, <3>1, CoverStays
  <2>3. ASSUME CommitCancel PROVE CoverInv'
    <3>1. /\ status' = "cancelled" /\ status # "draft" /\ UNCHANGED fphase
          /\ fanout' = [k \in Cursor |-> IF fanout[k] = "pending" THEN "cancelled" ELSE fanout[k]]
          /\ \A c \in Contact : recipient[c] # "none" => recipient'[c] # "none"
      BY <1>3, <2>3 DEF CommitCancel, AInv, CancelInv, LiveStatuses
    <3> QED  BY <1>3, <2>0, <3>1, CoverStays
  <2>4. ASSUME NEW k \in Cursor, ClaimFanout(k) PROVE CoverInv'
    <3>1. /\ fanout[k] = "pending" /\ fanout' = [fanout EXCEPT ![k] = "running"]
          /\ fphase' = [fphase EXCEPT ![k] = "claimed"] /\ UNCHANGED <<status, recipient>>
      BY <2>4 DEF ClaimFanout
    <3> QED  BY <1>3, <2>0, <3>1, CoverStays
  <2>5. ASSUME NEW k \in Cursor, LoadFanout(k) PROVE CoverInv'
    <3>1. UNCHANGED <<status, recipient>> /\ fphase[k] = "claimed" /\ fanout[k] = "running"
      BY <2>0, <2>5 DEF LoadFanout
    <3>2. CASE status \in LiveStatuses
      <4>1. /\ UNCHANGED fanout
            /\ fphase' = [fphase EXCEPT ![k] = IF status = "scheduled" THEN "first" ELSE "chunk"]
        BY <2>5, <3>2 DEF LoadFanout
      <4>2. status = "scheduled" => \A j \in Cursor \ {0} : fanout[j] = "none"
        BY <1>3 DEF AInv, StartInv
      <4> QED  BY <1>3, <2>0, <3>1, <4>1, <4>2, CoverStays
    <3>3. CASE status \notin LiveStatuses
      <4>1. fphase' = [fphase EXCEPT ![k] = "none"] /\ fanout' = [fanout EXCEPT ![k] = "done"]
        BY <2>5, <3>3 DEF LoadFanout
      <4>2. status = "cancelled" \/ Expanded(fanout, recipient, k)
        BY <1>3, <3>1, <3>3 DEF TypeOK, BroadcastStatus, LiveStatuses, CoverInv
      <4> QED  BY <1>3, <2>0, <3>1, <4>1, <4>2, CoverStays
    <3> QED  BY <3>2, <3>3
  <2>6. ASSUME NEW k \in Cursor, SaveSending(k) PROVE CoverInv'
    <3>1. /\ fphase[k] = "first" /\ fphase' = [fphase EXCEPT ![k] = "saved"]
          /\ UNCHANGED <<status, fanout, recipient>>
      BY <2>6 DEF SaveSending, queue
    <3> QED  BY <1>3, <2>0, <3>1, CoverStays
  <2>7. ASSUME NEW k \in Cursor, NEW eligible \in SUBSET Contact, WriteChunk(k, eligible) PROVE CoverInv'
    BY <1>3, <2>7, CoverByChunk
  <2>8. ASSUME NEW c \in Contact, ClaimSend(c) \/ LoadSend(c) PROVE CoverInv'
    <3>1. UNCHANGED <<status, fanout, fphase, recipient>>
      BY <2>8 DEF ClaimSend, LoadSend
    <3> QED  BY <1>3, <2>0, <3>1, CoverStays
  <2>9. ASSUME NEW c \in Contact, CommitSend(c) PROVE CoverInv'
    <3>1. /\ Settle(sphase[c] = "last" /\ ~FanoutOutstanding({})) /\ UNCHANGED <<fanout, fphase>>
          /\ recipient' = [recipient EXCEPT ![c] = Recorded(outcome[c])]
          /\ sphase[c] \in {"counted", "last"}
      BY <2>9 DEF CommitSend
    <3>2. Recorded(outcome[c]) # "none"
      BY <1>3, <3>1 DEF SendInv, TxnInv, Recorded
    <3>3. \A d \in Contact : recipient[d] # "none" => recipient'[d] # "none"
      BY <2>0, <3>1, <3>2
    <3> QED  BY <1>3, <3>1, <3>3, CoverBySettle
  <2>10. ASSUME NEW c \in Contact, NEW result \in Outcome, Record(c, result) PROVE CoverInv'
    <3>1. UNCHANGED <<status, fanout, fphase, recipient>>
      BY <2>10 DEF Record, queue
    <3> QED  BY <1>3, <2>0, <3>1, CoverStays
  <2>11. ASSUME NEW c \in Contact, NEW calls \in 0..1, RunRetry(c, calls) PROVE CoverInv'
    <3>1. UNCHANGED <<status, fanout, fphase, recipient>>
      BY <2>11 DEF RunRetry, txns
    <3> QED  BY <1>3, <2>0, <3>1, CoverStays
  <2>12. ASSUME CommitSweep PROVE CoverInv'
    <3>1. /\ Settle(hphase = "last" /\ ~FanoutOutstanding({})) /\ UNCHANGED <<fanout, fphase>>
          /\ \A d \in Contact : recipient[d] # "none" => recipient'[d] # "none"
      BY <2>12 DEF CommitSweep, queue
    <3> QED  BY <1>3, <3>1, CoverBySettle
  <2>13. ASSUME NEW k \in Cursor, NEW next \in ActionStatus, RollbackFanout(k, next) PROVE CoverInv'
    <3>1. /\ next \in {"pending", "failed"} /\ fanout' = [fanout EXCEPT ![k] = next]
          /\ fphase' = [fphase EXCEPT ![k] = "none"] /\ UNCHANGED <<status, recipient>>
          /\ fanout[k] = "running"
      BY <2>0, <2>13 DEF RollbackFanout
    <3> QED  BY <1>3, <2>0, <3>1, CoverStays
  <2>14. ASSUME NEW c \in Contact, NEW next \in ActionStatus, RollbackSend(c, next) PROVE CoverInv'
    <3>1. UNCHANGED <<status, fanout, fphase, recipient>>
      BY <2>14 DEF RollbackSend
    <3> QED  BY <1>3, <2>0, <3>1, CoverStays
  <2>15. ASSUME Rerun PROVE CoverInv'
    <3>1. /\ UNCHANGED <<status, fphase, recipient>>
          /\ \/ UNCHANGED fanout
             \/ \E k \in Cursor : fanout[k] = "done" /\ fanout' = [fanout EXCEPT ![k] = "pending"]
      BY <2>15 DEF Rerun, txns
    <3> QED  BY <1>3, <2>0, <3>1, CoverStays
  <2> QED
    BY <1>3, NextCases, <2>1, <2>2, <2>3, <2>4, <2>5, <2>6, <2>7, <2>8, <2>9, <2>10, <2>11, <2>12, <2>13,
       <2>14, <2>15
<1> QED  BY <1>1, <1>2, <1>3

\* The half of SentIsComplete that holds.
SentIsExpanded == status = "sent" => \A c \in Contact : recipient[c] # "none"

(***************************************************************************)
(* Nobody in the audience is left out: however cancels, re-runs, crashes    *)
(* and the early settle of SentIsComplete's counterexample interleave, a    *)
(* broadcast that says "sent" has a recipient row for every contact         *)
(* (fanout_outstanding's docstring: settled between two chunks, "nine        *)
(* thousand five hundred people never hear from it").                      *)
(***************************************************************************)
THEOREM SentReachesAll == Spec => []SentIsExpanded
<1>1. CoverInv => SentIsExpanded
  BY ChunksCover DEF CoverInv, SentIsExpanded, Expanded
<1>2. QED
  BY <1>1, TypeInductive, SendInvInductive, AInvInductive, CoverInvInductive, PTL DEF Spec
=============================================================================

---------------------------- MODULE DeliveryLadder ----------------------------
(***************************************************************************)
(* What becomes of one message of a flow node once its claim is taken: the  *)
(* answer of its sender (apps/messaging/services.py), the receipts and the  *)
(* redaction that the platform reports or the open pixel of an e-mail       *)
(* (apps/messaging/ingest.py, apps/analytics/views_public.py), and the       *)
(* node's counters, which each of them moves (apps/analytics/counters.py).  *)
(* There is one sender, with its retries: two under one key are the subject *)
(* of SendPipeline.                                                        *)
(***************************************************************************)
EXTENDS Naturals

CONSTANTS
    Reporter,      \* web workers applying a receipt
    MaxReceipts    \* bound: receipts that would move the message

ASSUME LadderAssumption == MaxReceipts \in Nat

VARIABLES
    msgStatus,     \* the committed row's status
    known,         \* the row has the platform's id for it
    pixel,         \* an e-mail, which carries an open pixel
    senderAt,      \* where its sender is
    reporter,      \* [Reporter -> the receipt it holds and the status it read]
    tally,         \* the node's counters
    received,      \* receipts begun
    peak,          \* the highest rung the row was ever on (history)
    unsent,        \* failed before it was on a rung (history)
    gaveUp,        \* failed for spending its attempts (history)
    opened         \* a pixel was fetched during the provider call (history)

ladderVars == <<msgStatus, known, pixel, senderAt, reporter, tally, received,
                peak, unsent, gaveUp, opened>>

MessageState == {"queued", "sent", "delivered", "read", "failed", "deleted"}
ReceiptStatus == {"sent", "delivered", "read", "failed"}

DELIVERY_PROGRESS == [queued |-> 0, sent |-> 1, delivered |-> 2, read |-> 3]
OnLadder(s) == s \in DOMAIN DELIVERY_PROGRESS

NoReceipt == [at |-> "no", saw |-> "queued", incoming |-> "read"]

\* A request calls over a committed row; a handler inserts its row and calls
\* within one transaction.
LadderInit ==
    /\ msgStatus = "queued" /\ known = FALSE
    /\ pixel \in BOOLEAN
    /\ senderAt \in {"request", "handler"}
    /\ reporter = [r \in Reporter |-> NoReceipt]
    /\ tally = [sent |-> 0, delivered |-> 0, failed |-> 0]
    /\ received = 0 /\ peak = 0
    /\ unsent = FALSE /\ gaveUp = FALSE /\ opened = FALSE

-----------------------------------------------------------------------------
(* The two decision tables.                                                *)

\* _next_status: the ladder goes forward, a failure is believed of what has not
\* arrived, a receipt beats a failure, and what is redacted stays.
NextStatus(current, incoming) ==
    IF incoming = "failed" THEN current \in {"queued", "sent"}
    ELSE \/ current = "failed"
         \/ /\ OnLadder(current)
            /\ DELIVERY_PROGRESS[incoming] > DELIVERY_PROGRESS[current]

\* What failed counts as sent when it is left, and as nothing when it is entered.
RankLeft(s) == IF s = "failed" THEN 1 ELSE DELIVERY_PROGRESS[s]
RankReached(s) == IF OnLadder(s) THEN DELIVERY_PROGRESS[s] ELSE 0

OneIf(b) == IF b THEN 1 ELSE 0
DeltasFor(previous, current) ==
    [sent      |-> OneIf(RankLeft(previous) < 1 /\ RankReached(current) >= 1),
     delivered |-> OneIf(RankLeft(previous) < 2 /\ RankReached(current) >= 2),
     failed    |-> OneIf(current = "failed" /\ previous # "failed")]

\* record_message_status, after a write that landed.
Record(previous, current) ==
    LET deltas == DeltasFor(previous, current) IN
    tally' = [sent      |-> tally.sent + deltas.sent,
              delivered |-> tally.delivered + deltas.delivered,
              failed    |-> tally.failed + deltas.failed]

\* Every write of the status; a message is off the ladder when it has failed.
Write(current) ==
    /\ msgStatus' = current
    /\ peak' = IF RankReached(current) > peak THEN RankReached(current) ELSE peak
    /\ unsent' = (unsent \/ (current = "failed" /\ peak = 0))

-----------------------------------------------------------------------------
(* The sender.                                                             *)

InCall == senderAt \in {"request", "handler", "retry"}

\* _finalize: saved whatever the row is by now, counted from the copy, which
\* has been "queued" since the claim.  The id is dropped if another row has it.
Finalize(current, unique) ==
    /\ InCall
    /\ Write(current)
    /\ Record("queued", current)
    /\ known' = (known \/ unique)
    /\ senderAt' = "done"
    /\ UNCHANGED <<pixel, reporter, received, gaveUp, opened>>
Accepted(unique) == Finalize("sent", unique)
Rejected == Finalize("failed", FALSE)

\* _defer: a retry is armed, and withdrawn if the row is not queued any more.
Defer ==
    /\ InCall
    /\ senderAt' = IF msgStatus = "queued" THEN "wait" ELSE "done"
    /\ UNCHANGED <<msgStatus, known, pixel, reporter, tally, received, peak, unsent, gaveUp, opened>>

\* _give_up, when no attempt is left: only if still queued, and uncounted.
GiveUpMessage ==
    /\ senderAt \in {"request", "handler", "retry", "wait"}
    /\ senderAt' = "done"
    /\ IF msgStatus = "queued"
       THEN Write("failed") /\ gaveUp' = TRUE
       ELSE UNCHANGED <<msgStatus, peak, unsent, gaveUp>>
    /\ UNCHANGED <<known, pixel, reporter, tally, received, opened>>

\* handle_send_retry: the claim is taken again if the row is queued as yet.
Retry ==
    /\ senderAt = "wait"
    /\ senderAt' = IF msgStatus = "queued" THEN "retry" ELSE "done"
    /\ UNCHANGED <<msgStatus, known, pixel, reporter, tally, received, peak, unsent, gaveUp, opened>>

\* _finalize_if_queued: the retry is refused, or the message withdrawn.
RetryRefused ==
    /\ senderAt = "wait" /\ msgStatus = "queued"
    /\ Write("failed")
    /\ Record("queued", "failed")
    /\ senderAt' = "done"
    /\ UNCHANGED <<known, pixel, reporter, received, gaveUp, opened>>

-----------------------------------------------------------------------------
(* The reports.  A handler's row is there for nobody else before its        *)
(* commit, and a retry's transaction holds the row.                        *)

\* Mutant: the update of a receipt asks only whether the row is there.
IfPresent(r) == TRUE
\* Compare-and-set on the status the receipt was judged by.
IfUnchanged(r) == msgStatus = reporter[r].saw

\* A receipt finds the message by the platform's id, a pixel by its key.  An
\* e-mail's provider reports its delivery or bounce, and never that it was read.
Reported(incoming) == known /\ (pixel => incoming \in {"delivered", "failed"})
Fetched(incoming) == pixel /\ incoming = "read" /\ senderAt # "handler"

ReadReceipt(r, incoming) ==
    /\ reporter[r].at = "no" /\ received < MaxReceipts
    /\ Reported(incoming) \/ Fetched(incoming)
    /\ NextStatus(msgStatus, incoming)
    /\ reporter' = [reporter EXCEPT ![r] = [at |-> "apply", saw |-> msgStatus, incoming |-> incoming]]
    /\ received' = received + 1
    /\ UNCHANGED <<msgStatus, known, pixel, senderAt, tally, peak, unsent, gaveUp, opened>>

ApplyReceipt(r) ==
    LET saw == reporter[r].saw  incoming == reporter[r].incoming IN
    /\ reporter[r].at = "apply"
    /\ senderAt # "retry"
    /\ reporter' = [reporter EXCEPT ![r] = NoReceipt]
    /\ IF IfUnchanged(r)
       THEN /\ Write(incoming)
            /\ Record(saw, incoming)
            /\ opened' = (opened \/ senderAt = "request")
       ELSE UNCHANGED <<msgStatus, tally, peak, unsent, opened>>
    /\ UNCHANGED <<known, pixel, senderAt, received, gaveUp>>

\* The platform says that the message is gone, which no e-mail's does; one
\* statement, and uncounted.
ApplyDeletion ==
    /\ known /\ ~pixel
    /\ msgStatus # "deleted"
    /\ Write("deleted")
    /\ UNCHANGED <<known, pixel, senderAt, reporter, tally, received, gaveUp, opened>>

LadderNext ==
    \/ \E unique \in BOOLEAN : Accepted(unique)
    \/ Rejected \/ Defer \/ GiveUpMessage \/ Retry \/ RetryRefused
    \/ \E r \in Reporter : \/ \E incoming \in ReceiptStatus : ReadReceipt(r, incoming)
                           \/ ApplyReceipt(r)
    \/ ApplyDeletion

LadderSpec == LadderInit /\ [][LadderNext]_ladderVars

-----------------------------------------------------------------------------
(* Properties.                                                             *)

\* Types of all variables.
LadderTypeOK ==
    /\ msgStatus \in MessageState
    /\ known \in BOOLEAN /\ pixel \in BOOLEAN
    /\ unsent \in BOOLEAN /\ gaveUp \in BOOLEAN /\ opened \in BOOLEAN
    /\ senderAt \in {"request", "handler", "retry", "wait", "done"}
    /\ reporter \in [Reporter -> [at : {"no", "apply"}, saw : MessageState, incoming : ReceiptStatus]]
    /\ tally \in [sent : Nat, delivered : Nat, failed : Nat]
    /\ received \in Nat /\ peak \in 0..3

\* What an agent has seen delivered or read never comes back as less.
NeverGoesBack ==
    /\ OnLadder(msgStatus) => DELIVERY_PROGRESS[msgStatus] = peak
    /\ msgStatus = "failed" => peak <= 1

(***************************************************************************)
(* The rung a message is on is the highest it was ever on, and its node's   *)
(* counters say which rungs those were, each once, whatever receipts and    *)
(* opens come late, twice, together or after a failure (deltas_for:         *)
(* "crossing it twice is not a thing that happens").  An e-mail that failed *)
(* at the send and is opened all the same was never counted as sent, one    *)
(* whose attempts are spent is not counted as failed, and a pixel fetched   *)
(* while the provider is still called is overwritten by the answer.         *)
(***************************************************************************)
CountersAreRungs ==
    ~opened => /\ NeverGoesBack
               /\ tally.sent = OneIf(peak >= 1 /\ ~unsent)
               /\ tally.delivered = OneIf(peak >= 2)
               /\ msgStatus = "failed" => tally.failed >= 1 \/ gaveUp
=============================================================================

---------------------------- MODULE ContactProofs ----------------------------
(***************************************************************************)
(* Contacts and what may be sent to them: consent, CSV imports, the rate of *)
(* a connection and filters, for every number of requests, messages, rows,  *)
(* senders and segments.                                                   *)
(***************************************************************************)
EXTENDS Consent, ContactImport, TokenBucket, ContactFilters, FiniteSetTheorems, TLAPS

(***************************************************************************)
(* The row, and every copy of it a request works on, is no newer than what  *)
(* has been received and claims no more than the contact has permitted; and *)
(* the last keyword is in force unless something overtook it.               *)
(***************************************************************************)
Earned(row) ==
    /\ row.opt_in => permitted
    /\ row.heard <= newest
    /\ row.expires <= newest + Hours

ConsentInv ==
    /\ ConsentTypeOK
    /\ newest <= instant
    /\ Earned(identity)
    /\ \A c \in Call : Earned(call[c].copy) /\ call[c].at <= instant
    /\ lastWord = "stop" /\ ~overtaken => identity.opted_out
    /\ lastWord = "start" /\ ~overtaken => identity.opt_in /\ ~identity.opted_out

ConsentRow == [opt_in : BOOLEAN, opted_out : BOOLEAN,
               expires : 0..LastInstant + Hours, heard : 0..LastInstant]

\* What the type invariant says of one request.
LEMMA TypesOfConsent ==
    ASSUME ConsentTypeOK, NEW c \in Call
    PROVE  /\ identity \in ConsentRow /\ call[c].copy \in ConsentRow
           /\ call[c].at \in 0..LastInstant
           /\ identity.opt_in \in BOOLEAN /\ identity.opted_out \in BOOLEAN
           /\ call[c].copy.opt_in \in BOOLEAN /\ call[c].copy.opted_out \in BOOLEAN
           /\ call[c].permits \in BOOLEAN /\ call[c].event \in SUBSET Inbound
BY ConsentAssumption DEF ConsentTypeOK, ConsentRow

\* A request that ends leaves the other requests' copies as earned as they were.
LEMMA FinishEndsCall ==
    ASSUME ConsentInv, NEW c \in Call, Finish(c), newest <= newest', newest' \in Nat, Hours \in Nat,
           permitted => permitted', instant' = instant
    PROVE  /\ call' \in [Call -> [what : {"none", "message", "stop", "start", "capture"},
                                  event : SUBSET Inbound, permits : BOOLEAN,
                                  copy : ConsentRow, at : 0..LastInstant]]
           /\ \A d \in Call : Earned(call[d].copy)' /\ call'[d].at <= instant
<1> USE ConsentAssumption
<1>1. \A d \in Call : call'[d] = IF d = c THEN NoCall ELSE call[d]
  BY DEF ConsentInv, ConsentTypeOK, Finish
<1>2. NoCall \in [what : {"none", "message", "stop", "start", "capture"},
                 event : SUBSET Inbound, permits : BOOLEAN,
                 copy : ConsentRow, at : 0..LastInstant]
  BY DEF NoCall, Never, ConsentRow
<1>3. \A d \in Call : /\ Earned(call[d].copy) /\ call[d].at <= instant
                      /\ call[d].copy.heard \in Nat /\ call[d].copy.expires \in Nat
                      /\ call[d].at \in Nat
                      /\ newest \in Nat /\ instant \in Nat
  BY DEF ConsentInv, ConsentTypeOK
<1>4. call' \in [Call -> [what : {"none", "message", "stop", "start", "capture"},
                         event : SUBSET Inbound, permits : BOOLEAN,
                         copy : ConsentRow, at : 0..LastInstant]]
  BY <1>2 DEF ConsentInv, ConsentTypeOK, ConsentRow, Finish
<1>5. QED
  BY <1>1, <1>3, <1>4 DEF Earned, NoCall, Never

\* What an inbound message writes: the window and the hearing, and consent only ever added.
LEMMA ActivityRow ==
    ASSUME ConsentTypeOK, NEW c \in Call
    PROVE  /\ Activity(c) \in ConsentRow
           /\ Activity(c).opted_out = identity.opted_out
           /\ identity.opt_in => Activity(c).opt_in
           /\ Activity(c).heard = call[c].at
           /\ Activity(c).expires = call[c].at + Hours
<1> USE ConsentAssumption, TypesOfConsent DEF ConsentRow
<1>1. Consented(call[c].copy, identity) \in ConsentRow
  BY DEF Consented
<1>2. /\ Consented(call[c].copy, identity).opted_out = identity.opted_out
      /\ identity.opt_in => Consented(call[c].copy, identity).opt_in
  BY DEF Consented
<1> DEFINE r == Consented(call[c].copy, identity)
<1>3. Activity(c) = [r EXCEPT !.heard = call[c].at, !.expires = call[c].at + Hours]
  BY DEF Activity
<1> HIDE DEF r
<1>4. call[c].at \in 0..LastInstant /\ call[c].at + Hours \in 0..LastInstant + Hours
  OBVIOUS
<1>5. r \in ConsentRow
  BY <1>1 DEF r
<1>6. QED
  BY <1>2, <1>3, <1>4, <1>5 DEF r

\* ConsentInv is inductive.
LEMMA ConsentInvHolds ==
    /\ ConsentInit => ConsentInv
    /\ ConsentInv /\ [ConsentNext]_consentVars => ConsentInv'
<1> USE ConsentAssumption DEF ConsentInv, ConsentTypeOK, Earned
<1>1. ConsentInit => ConsentInv
  <2> SUFFICES ASSUME ConsentInit PROVE ConsentInv
    OBVIOUS
  <2>1. /\ identity = [opt_in |-> FALSE, opted_out |-> FALSE, expires |-> 0, heard |-> 0]
        /\ call = [c \in Call |-> [what |-> "none", event |-> {}, permits |-> FALSE,
                                   copy |-> identity, at |-> 0]]
        /\ instant = 1 /\ newest = 0 /\ lastWord = "none" /\ inserted = {}
        /\ overtaken = FALSE /\ permitted = FALSE
    BY DEF ConsentInit, NoCall, Never
  <2>2. 0 <= LastInstant /\ 1 <= LastInstant /\ LastInstant \in Nat /\ Hours \in Nat
    OBVIOUS
  <2>3. ConsentTypeOK
    <3>1. identity \in ConsentRow
      BY <2>1, <2>2 DEF ConsentRow
    <3>2. [what |-> "none", event |-> {}, permits |-> FALSE, copy |-> identity, at |-> 0]
            \in [what : {"none", "message", "stop", "start", "capture"},
                 event : SUBSET Inbound, permits : BOOLEAN, copy : ConsentRow, at : 0..LastInstant]
      BY <2>2, <3>1
    <3>3. call \in [Call -> [what : {"none", "message", "stop", "start", "capture"},
                            event : SUBSET Inbound, permits : BOOLEAN,
                            copy : ConsentRow, at : 0..LastInstant]]
      BY <2>1, <3>2
    <3>4. /\ instant \in 1..LastInstant /\ inserted \in SUBSET Inbound
          /\ lastWord \in {"none", "stop", "start"} /\ newest \in 0..LastInstant
      <4>1. instant \in 1..LastInstant /\ newest \in 0..LastInstant
        BY <2>1, <2>2
      <4>2. inserted \in SUBSET Inbound /\ lastWord \in {"none", "stop", "start"}
        BY <2>1, Zenon
      <4>3. QED
        BY <4>1, <4>2
    <3>5. overtaken \in BOOLEAN /\ permitted \in BOOLEAN
      BY <2>1, Zenon
    <3>6. QED
      BY <3>1, <3>3, <3>4, <3>5 DEF ConsentRow
  <2>4. \A c \in Call : call[c].copy = identity /\ call[c].at = 0
    BY <2>1
  <2>5. QED
    BY <2>1, <2>2, <2>3, <2>4
<1>2. ASSUME ConsentInv, UNCHANGED consentVars PROVE ConsentInv'
  BY <1>2 DEF consentVars
<1>3. ASSUME ConsentInv, ConsentTick PROVE ConsentInv'
  BY <1>3 DEF ConsentTick
<1>4. ASSUME ConsentInv, NEW c \in Call, NEW what \in {"message", "stop", "start", "capture"},
             NEW event \in SUBSET Inbound, NEW permits \in BOOLEAN, Begin(c, what, event, permits)
      PROVE  ConsentInv'
  BY <1>4 DEF Begin
<1>5. ASSUME ConsentInv, NEW c \in Call, PersistMessage(c) PROVE ConsentInv'
  <2>1. /\ newest' \in Nat /\ newest <= newest' /\ newest' <= instant /\ instant' = instant
        /\ newest' \in 0..LastInstant
        /\ inserted' \in SUBSET Inbound /\ permitted' = TRUE
        /\ lastWord' = lastWord /\ overtaken' = overtaken
    BY <1>5, TypesOfConsent DEF PersistMessage
  <2>2. CASE AlreadyStored(c)
    BY <1>5, <2>1, <2>2, FinishEndsCall DEF PersistMessage, ConsentRow
  <2>3. CASE ~AlreadyStored(c)
    <3>1. identity' = Activity(c) /\ call[c].at <= newest'
      BY <1>5, <2>3, TypesOfConsent DEF PersistMessage, AlreadyStored
    <3>2. QED
      BY <1>5, <2>1, <3>1, FinishEndsCall, ActivityRow, TypesOfConsent DEF PersistMessage, ConsentRow
  <2>4. QED
    BY <2>2, <2>3
<1>6. ASSUME ConsentInv, NEW c \in Call, ApplyOptOut(c) PROVE ConsentInv'
  <2>1. /\ UNCHANGED <<instant, inserted, newest>> /\ (permitted => permitted')
        /\ permitted' \in BOOLEAN /\ overtaken' \in BOOLEAN /\ lastWord' \in {"stop", "start"}
    BY <1>6, TypesOfConsent DEF ApplyOptOut
  <2>2. CASE call[c].copy.opted_out
    BY <1>6, <2>1, <2>2, FinishEndsCall, TypesOfConsent DEF ApplyOptOut, ConsentRow
  <2>3. CASE ~(call[c].copy.opted_out)
    <3>1. /\ identity' \in ConsentRow
          /\ identity'.heard = identity.heard /\ identity'.expires = identity.expires
          /\ identity'.opted_out /\ ~identity'.opt_in
      BY <1>6, <2>3, TypesOfConsent DEF ApplyOptOut, ConsentRow
    <3>2. QED
      BY <1>6, <2>1, <2>3, <3>1, FinishEndsCall DEF ApplyOptOut, ConsentRow
  <2>4. QED
    BY <2>2, <2>3
<1>7. ASSUME ConsentInv, NEW c \in Call, ApplyOptIn(c) PROVE ConsentInv'
  <2>1. /\ UNCHANGED <<instant, inserted, newest>> /\ (permitted => permitted')
        /\ permitted' \in BOOLEAN /\ overtaken' \in BOOLEAN /\ lastWord' \in {"stop", "start"}
    BY <1>7, TypesOfConsent DEF ApplyOptIn
  <2>2. CASE ~call[c].copy.opted_out /\ call[c].copy.opt_in
    BY <1>7, <2>1, <2>2, FinishEndsCall, TypesOfConsent DEF ApplyOptIn, ConsentRow
  <2>3. CASE ~(~call[c].copy.opted_out /\ call[c].copy.opt_in)
    <3>1. /\ identity' \in ConsentRow
          /\ identity'.heard = identity.heard /\ identity'.expires = identity.expires
          /\ ~identity'.opted_out /\ identity'.opt_in
      BY <1>7, <2>3, TypesOfConsent DEF ApplyOptIn, ConsentRow
    <3>2. QED
      BY <1>7, <2>1, <2>3, <3>1, FinishEndsCall DEF ApplyOptIn, ConsentRow
  <2>4. QED
    BY <2>2, <2>3
<1>8. ASSUME ConsentInv, NEW c \in Call, SaveCaptured(c) PROVE ConsentInv'
  <2> DEFINE copy == call[c].copy
             kept == copy.opted_out = identity.opted_out /\ copy.opt_in = identity.opt_in
  <2>1. /\ UNCHANGED <<instant, inserted, newest, lastWord>> /\ permitted' = (permitted \/ call[c].permits)
        /\ permitted' \in BOOLEAN /\ overtaken' \in BOOLEAN
        /\ ~overtaken' => ~overtaken /\ kept
    BY <1>8, TypesOfConsent DEF SaveCaptured
  <2>2. /\ identity' \in ConsentRow
        /\ identity'.heard = copy.heard /\ identity'.expires = copy.expires
        /\ identity'.opted_out = copy.opted_out
        /\ copy.opt_in => identity'.opt_in
        /\ identity'.opt_in => copy.opt_in \/ call[c].permits
    BY <1>8, TypesOfConsent DEF SaveCaptured, ConsentRow
  <2>3. copy.opt_in => permitted
    BY <1>8
  <2>4. QED
    BY <1>8, <2>1, <2>2, <2>3, FinishEndsCall DEF SaveCaptured, ConsentRow
<1>9. ASSUME ConsentInv, NEW c \in Call, Abandon(c) PROVE ConsentInv'
  BY <1>9, FinishEndsCall DEF Abandon, ConsentRow
<1>10. ASSUME NEW c \in Call, ReceiveMessage(c) \/ ReceiveStop(c) \/ ReceiveStart(c) \/ Capture(c)
       PROVE  \E what \in {"message", "stop", "start", "capture"}, event \in SUBSET Inbound,
                 permits \in BOOLEAN : Begin(c, what, event, permits)
  <2>1. CASE ReceiveMessage(c)
    <3>1. PICK e \in Inbound : Begin(c, "message", {e}, FALSE)
      BY <2>1 DEF ReceiveMessage
    <3>2. {e} \in SUBSET Inbound
      BY <3>1
    <3>3. QED
      BY <3>1, <3>2, Zenon
  <2>2. CASE ReceiveStop(c)
    BY <2>2, Zenon DEF ReceiveStop
  <2>3. CASE ReceiveStart(c)
    BY <2>3, Zenon DEF ReceiveStart
  <2>4. CASE Capture(c)
    BY <2>4, Zenon DEF Capture
  <2>5. QED
    BY <1>10, <2>1, <2>2, <2>3, <2>4
<1>11. ASSUME ConsentInv, ConsentNext PROVE ConsentInv'
  <2> HIDE DEF ConsentInv, ConsentTypeOK, Earned
  <2>1. QED
    BY <1>11, <1>3, <1>4, <1>5, <1>6, <1>7, <1>8, <1>9, <1>10, Zenon DEF ConsentNext
<1>12. QED
  BY <1>1, <1>2, <1>11

(***************************************************************************)
(* For every platform, source and message: a grant has been earned, and a   *)
(* START that nothing overtook is honoured.                                 *)
(***************************************************************************)
THEOREM GrantsStayEarned == ConsentSpec => []GrantsAreEarned
<1>1. ConsentInv => GrantsAreEarned
  <2> SUFFICES ASSUME ConsentInv, NEW policy \in Policy, NEW source \in Source, NEW outbound \in Outbound
               PROVE  LET code == CanSend(policy, source, outbound)
                      IN  /\ code \in Grant => permitted /\ (lastWord = "stop" => overtaken)
                          /\ code = "in_window" => instant < newest + Hours
                          /\ code = "human_agent" => source = "agent" /\ instant <= newest + AgentDays
                          /\ lastWord = "start" /\ ~overtaken => code \notin {"opted_out", "no_opt_in"}
    BY DEF GrantsAreEarned
  <2> USE ConsentAssumption
  <2>1. /\ identity.opted_out \in BOOLEAN /\ identity.opt_in \in BOOLEAN
        /\ identity.heard \in Nat /\ identity.expires \in Nat
        /\ newest \in Nat /\ instant \in Nat /\ Hours \in Nat /\ AgentDays \in Nat
    BY DEF ConsentInv, ConsentTypeOK
  <2>2. OutsideWindow(policy, outbound)
          \in {"tag_supplied", "needs_tag", "template_supplied", "needs_template", "outside_window"}
    BY DEF OutsideWindow, Policy
  <2>3. CASE identity.opted_out
    BY <2>1, <2>3 DEF ConsentInv, CanSend, Grant
  <2>4. CASE ~identity.opted_out /\ ~identity.opt_in
    BY <2>1, <2>4 DEF ConsentInv, CanSend, Grant
  <2>5. CASE ~identity.opted_out /\ identity.opt_in
    BY <2>1, <2>2, <2>5 DEF ConsentInv, Earned, CanSend, Grant
  <2>6. QED
    BY <2>1, <2>3, <2>4, <2>5
<1>2. QED
  BY <1>1, ConsentInvHolds, PTL DEF ConsentSpec

-----------------------------------------------------------------------------
(* CSV imports.                                                            *)

\* A batch is the interval of rows behind its offset, and the last one reaches the end or the cap.
LEMMA BatchCounts ==
    ASSUME NEW offset \in 0..FileRows
    PROVE  /\ Cardinality(BatchAt(offset)) \in Nat
           /\ offset + Cardinality(BatchAt(offset)) <= FileRows
           /\ \A r \in FileRow : r \in BatchAt(offset) => r <= offset + Cardinality(BatchAt(offset))
           /\ \A r \in FileRow : /\ r > offset /\ r <= MaxRows
                                 /\ r <= offset + Cardinality(BatchAt(offset))
                                 => r \in BatchAt(offset)
           /\ LastBatch(offset) => \A r \in FileRow : r > offset /\ r <= MaxRows => r \in BatchAt(offset)
<1> DEFINE top == IF offset + BatchRows <= FileRows
                  THEN IF offset + BatchRows <= MaxRows THEN offset + BatchRows ELSE MaxRows
                  ELSE IF FileRows <= MaxRows THEN FileRows ELSE MaxRows
<1>1. top \in Nat /\ FileRows \in Nat /\ MaxRows \in Nat /\ BatchRows \in Nat /\ BatchRows > 0
  BY ImportAssumption
<1>2. BatchAt(offset) = (offset + 1)..top
  BY <1>1 DEF BatchAt, FileRow
<1> HIDE DEF top
<1>3. Cardinality(BatchAt(offset)) = IF offset + 1 > top THEN 0 ELSE top - offset
  <2>1. /\ offset + 1 \in Int /\ top \in Int
        /\ top - (offset + 1) + 1 = top - offset
    BY <1>1
  <2>2. QED
    BY <1>2, <2>1, FS_Interval
<1>4. top <= FileRows /\ top <= MaxRows /\ top <= offset + BatchRows
  BY <1>1 DEF top
<1>5. LastBatch(offset) => \A r \in FileRow : r > offset /\ r <= MaxRows => r \in BatchAt(offset)
  <2> SUFFICES ASSUME LastBatch(offset), NEW r \in FileRow, r > offset, r <= MaxRows
               PROVE  r <= offset + BatchRows
    BY DEF BatchAt
  <2>1. CASE Capped(offset)
    BY <1>1, <2>1 DEF Capped, FileRow
  <2>2. CASE Cardinality(BatchAt(offset)) < BatchRows
    BY <1>1, <1>3, <2>2 DEF top, FileRow
  <2>3. QED
    BY <2>1, <2>2 DEF LastBatch
<1>6. QED
  BY <1>1, <1>2, <1>3, <1>4, <1>5 DEF FileRow

(***************************************************************************)
(* A queue row of an import carries the proof of what is behind it: every   *)
(* row of the file before its offset has been applied.  While a pass        *)
(* imports, the rows it has not reached have one confirmation to spare.     *)
(***************************************************************************)
ImportInv ==
    /\ ImportTypeOK
    /\ run.next_offset # 0 => run.processed_rows = run.next_offset
    /\ \A j \in Job : batchRow[j].due /\ batchRow[j].mode = "import"
          => \A r \in FileRow : r <= batchRow[j].offset /\ r <= MaxRows => written[r] >= 1
    /\ run.status = "done" => \A r \in FileRow : r <= MaxRows => written[r] >= 1
    /\ ~crossed => \A r \in FileRow :
          /\ written[r] <= confirms
          /\ run.status = "importing" /\ r > run.next_offset => written[r] < confirms

JobRow == [due : BOOLEAN, mode : Mode, offset : 0..FileRows]

\* A queue row is added, the others stay.
LEMMA EnqueueAddsOne ==
    ASSUME NEW jobs \in [Job -> JobRow], NEW mode \in Mode, NEW offset \in 0..FileRows,
           Enqueue(jobs, mode, offset)
    PROVE  /\ batchRow' \in [Job -> JobRow]
           /\ \A j \in Job : batchRow'[j] \in {jobs[j], [due |-> TRUE, mode |-> mode, offset |-> offset]}
BY DEF Enqueue, JobRow

\* A row that is done is no longer due.
LEMMA AfterDropsOne ==
    ASSUME batchRow \in [Job -> JobRow], NEW j \in Job, NEW again \in BOOLEAN
    PROVE  /\ After(j, again) \in [Job -> JobRow]
           /\ \A k \in Job : After(j, again)[k] = batchRow[k] \/ ~After(j, again)[k].due
BY ImportAssumption DEF After, JobRow, FreeJob, Mode

\* ImportInv is inductive.
LEMMA ImportInvHolds ==
    /\ ImportInit => ImportInv
    /\ ImportInv /\ [ImportNext]_importVars => ImportInv'
<1> USE ImportAssumption DEF ImportInv, ImportTypeOK, JobRow
<1>0. FileRows \in Nat /\ MaxRows \in Nat /\ 0 \in 0..FileRows
  OBVIOUS
<1>1. ImportInit => ImportInv
  <2> SUFFICES ASSUME ImportInit PROVE ImportInv
    OBVIOUS
  <2>1. run = [status |-> "uploaded", next_offset |-> 0, processed_rows |-> 0, total_rows |-> 0]
        /\ batchRow = [j \in Job |-> FreeJob] /\ click = [c \in Click |-> "none"]
        /\ written = [r \in FileRow |-> 0] /\ confirms = 0 /\ clicks = 0 /\ repeats = 0
    BY DEF ImportInit
  <2>2. crossed \in BOOLEAN
    BY Zenon DEF ImportInit
  <2>3. FreeJob \in JobRow /\ ~FreeJob.due
    BY DEF FreeJob, Mode
  <2>4. run \in [status : ImportStatus, next_offset : 0..FileRows,
                processed_rows : 0..FileRows, total_rows : 0..FileRows]
    BY <2>1 DEF ImportStatus
  <2>5. QED
    BY <2>1, <2>2, <2>3, <2>4
<1>2. ASSUME ImportInv, UNCHANGED importVars PROVE ImportInv'
  BY <1>2 DEF importVars
<1>3. ASSUME ImportInv, NEW c \in Click, CheckMayMap(c) \/ CheckValidated(c) PROVE ImportInv'
  BY <1>3 DEF CheckMayMap, CheckValidated
<1>4. ASSUME ImportInv, NEW c \in Click, SaveMapping(c) PROVE ImportInv'
  <2>1. /\ batchRow' \in [Job -> JobRow]
        /\ \A j \in Job : batchRow'[j] \in {batchRow[j], [due |-> TRUE, mode |-> "dry_run", offset |-> 0]}
    BY <1>4, EnqueueAddsOne DEF SaveMapping, Mode
  <2>2. /\ run' = [run EXCEPT !.next_offset = 0, !.status = "validating"]
        /\ click' \in [Click -> {"none", "map", "confirm"}]
        /\ UNCHANGED <<written, confirms, clicks, repeats>>
    BY <1>4 DEF SaveMapping
  <2>3. run' \in [status : ImportStatus, next_offset : 0..FileRows,
                 processed_rows : 0..FileRows, total_rows : 0..FileRows]
        /\ run'.next_offset = 0 /\ run'.status = "validating"
    BY <1>0, <1>4, <2>2 DEF ImportStatus
  <2>4. crossed' \in BOOLEAN /\ (~crossed' => ~crossed /\ run.status # "importing")
    BY <1>4 DEF SaveMapping
  <2>5. QED
    BY <1>4, <2>1, <2>2, <2>3, <2>4
<1>5. ASSUME ImportInv, NEW c \in Click, SaveConfirmed(c) PROVE ImportInv'
  <2>1. /\ batchRow' \in [Job -> JobRow]
        /\ \A j \in Job : batchRow'[j] \in {batchRow[j], [due |-> TRUE, mode |-> "import", offset |-> 0]}
    BY <1>5, EnqueueAddsOne DEF SaveConfirmed, Mode
  <2>2. /\ run' = [run EXCEPT !.next_offset = 0, !.status = "importing"]
        /\ click' \in [Click -> {"none", "map", "confirm"}]
        /\ confirms' = confirms + 1
        /\ UNCHANGED <<written, crossed, clicks, repeats>>
    BY <1>5 DEF SaveConfirmed
  <2>3. run' \in [status : ImportStatus, next_offset : 0..FileRows,
                 processed_rows : 0..FileRows, total_rows : 0..FileRows]
        /\ run'.next_offset = 0 /\ run'.status = "importing"
    BY <1>0, <1>5, <2>2 DEF ImportStatus
  <2>4. \A j \in Job : batchRow'[j].due /\ batchRow'[j].mode = "import"
          => \A r \in FileRow : r <= batchRow'[j].offset /\ r <= MaxRows => written'[r] >= 1
    BY <1>5, <2>1, <2>2 DEF FileRow
  <2>5. ~crossed' => \A r \in FileRow : written'[r] < confirms'
    BY <1>5, <2>2
  <2>6. QED
    BY <1>5, <2>1, <2>2, <2>3, <2>4, <2>5
<1>6. ASSUME ImportInv, NEW j \in Job, NEW again \in BOOLEAN, DropBatch(j, again) \/ FailRun(j, again)
      PROVE  ImportInv'
  <2>1. /\ batchRow' = After(j, again) /\ (run' = run \/ run' = [run EXCEPT !.status = "failed"])
        /\ UNCHANGED <<click, confirms, clicks, written, crossed>> /\ repeats' \in Nat
    BY <1>6 DEF DropBatch, FailRun, Settles
  <2>2. run' \in [status : ImportStatus, next_offset : 0..FileRows,
                 processed_rows : 0..FileRows, total_rows : 0..FileRows]
        /\ run'.next_offset = run.next_offset /\ run'.processed_rows = run.processed_rows
        /\ run'.status \in {run.status, "failed"}
    BY <1>6, <2>1 DEF ImportStatus
  <2>3. QED
    BY <1>6, <2>1, <2>2, AfterDropsOne
<1>7. ASSUME ImportInv, NEW j \in Job, GiveUpBatch(j) PROVE ImportInv'
  BY <1>7, AfterDropsOne DEF GiveUpBatch
<1>8. ASSUME ImportInv, NEW j \in Job, NEW again \in BOOLEAN, RunBatch(j, again) PROVE ImportInv'
  <2> DEFINE mode == batchRow[j].mode
             offset == batchRow[j].offset
             batch == BatchAt(offset)
             next == offset + Cardinality(batch)
             recorded == Recorded(mode, offset)
  <2>1. mode \in Mode /\ offset \in 0..FileRows /\ offset = run.next_offset
    BY <1>8 DEF RunBatch, StaleBatch
  <2>2. /\ Cardinality(batch) \in Nat /\ next \in 0..FileRows
        /\ \A r \in FileRow : r \in batch => offset < r /\ r <= next
        /\ \A r \in FileRow : r > offset /\ r <= MaxRows /\ r <= next => r \in batch
        /\ LastBatch(offset) => \A r \in FileRow : r > offset /\ r <= MaxRows => r \in batch
    <3>1. \A r \in FileRow : r \in batch => offset < r
      BY DEF BatchAt
    <3>2. Cardinality(batch) \in Nat /\ offset + Cardinality(batch) <= FileRows
      BY <2>1, BatchCounts, Zenon
    <3>3. next \in 0..FileRows
      BY <1>0, <2>1, <3>2
    <3>4. QED
      BY <2>1, <3>1, <3>2, <3>3, BatchCounts, Zenon
  <2>3. /\ written' = [r \in FileRow |-> written[r] + IF mode = "import" /\ r \in batch THEN 1 ELSE 0]
        /\ UNCHANGED <<click, confirms, clicks>> /\ repeats' \in Nat
    BY <1>8 DEF RunBatch, Settles
  <2>4. /\ crossed' \in BOOLEAN
        /\ ~crossed' => ~crossed /\ (mode = "import" <=> run.status = "importing")
    BY <1>8 DEF RunBatch
  <2>5. /\ recorded \in [status : ImportStatus, next_offset : 0..FileRows,
                         processed_rows : 0..FileRows, total_rows : 0..FileRows]
        /\ recorded.next_offset = next /\ recorded.processed_rows = next
        /\ recorded.status = IF offset # 0 THEN run.status
                             ELSE IF mode = "dry_run" THEN "validating" ELSE "importing"
    <3>1. run \in [status : ImportStatus, next_offset : 0..FileRows,
                  processed_rows : 0..FileRows, total_rows : 0..FileRows]
      BY <1>8
    <3>2. Begun(mode, offset) \in [status : ImportStatus, next_offset : 0..FileRows,
                                  processed_rows : 0..FileRows, total_rows : 0..FileRows]
          /\ Begun(mode, offset).next_offset = offset /\ Begun(mode, offset).processed_rows = offset
          /\ Begun(mode, offset).status = IF offset # 0 THEN run.status
                                          ELSE IF mode = "dry_run" THEN "validating" ELSE "importing"
      BY <1>0, <1>8, <2>1, <3>1 DEF Begun, ImportStatus
    <3> DEFINE begun == Begun(mode, offset)
    <3>3. recorded = [begun EXCEPT !.processed_rows = next, !.next_offset = next,
                                   !.total_rows = IF mode = "dry_run" THEN next ELSE @]
      BY <2>1, <2>2, <3>2 DEF Recorded
    <3> HIDE DEF begun, recorded, next, batch, mode, offset
    <3>4. QED
      BY <2>2, <3>2, <3>3 DEF begun
  <2>6. /\ \A r \in FileRow : written'[r] \in Nat /\ written'[r] >= written[r]
        /\ written' \in [FileRow -> Nat]
    BY <1>8, <2>3
  <2>7. mode = "import" => \A r \in FileRow : r <= offset /\ r <= MaxRows => written'[r] >= 1
    BY <1>8, <2>6 DEF RunBatch
  <2>8. mode = "import" => \A r \in FileRow : r \in batch => written'[r] >= 1
    <3> HIDE DEF mode, batch
    <3>1. QED
      BY <1>8, <2>3
  <2>9. ~crossed' => \A r \in FileRow : written'[r] <= confirms
    <3> SUFFICES ASSUME ~crossed', NEW r \in FileRow PROVE written'[r] <= confirms
      OBVIOUS
    <3>1. written[r] \in Nat /\ confirms \in Nat /\ written[r] <= confirms
      BY <1>8, <2>4
    <3>2. mode = "import" /\ r \in batch => written[r] < confirms
      BY <1>8, <2>1, <2>2, <2>4
    <3> HIDE DEF mode, batch
    <3>3. QED
      BY <2>3, <3>1, <3>2
  <2>10. CASE LastBatch(offset)
    <3>1. /\ run' = [recorded EXCEPT !.next_offset = 0,
                                     !.status = IF mode = "dry_run" THEN "validated" ELSE "done"]
          /\ batchRow' = After(j, again)
      BY <1>8, <2>10, Zenon DEF RunBatch
    <3>2. run' \in [status : ImportStatus, next_offset : 0..FileRows,
                   processed_rows : 0..FileRows, total_rows : 0..FileRows]
          /\ run'.next_offset = 0
          /\ run'.status = IF mode = "dry_run" THEN "validated" ELSE "done"
      BY <1>0, <2>5, <3>1 DEF ImportStatus
    <3>3. /\ batchRow' \in [Job -> JobRow]
          /\ \A k \in Job : batchRow'[k].due => batchRow'[k] = batchRow[k]
      BY <1>8, <3>1, AfterDropsOne
    <3>4. mode = "import" => \A r \in FileRow : r <= MaxRows => written'[r] >= 1
      <4> HIDE DEF batch, offset, mode
      <4>1. QED
        BY <1>0, <2>1, <2>2, <2>10, <2>7, <2>8 DEF FileRow
    <3>5. run'.status \in {"validated", "done"} /\ (run'.status = "done" => mode = "import")
      BY <2>1, <3>2 DEF Mode
    <3> HIDE DEF mode, offset, batch, next, recorded
    <3>6. QED
      BY <1>8, <2>3, <2>4, <2>6, <2>9, <3>2, <3>3, <3>4, <3>5
  <2>11. CASE ~LastBatch(offset)
    <3>1. run' = recorded /\ Enqueue(After(j, again), mode, next)
      BY <1>8, <2>11, Zenon DEF RunBatch
    <3>2. /\ batchRow' \in [Job -> JobRow]
          /\ \A k \in Job : batchRow'[k].due =>
               batchRow'[k] = batchRow[k] \/ batchRow'[k] = [due |-> TRUE, mode |-> mode, offset |-> next]
      <4>1. /\ After(j, again) \in [Job -> JobRow]
            /\ \A k \in Job : After(j, again)[k] = batchRow[k] \/ ~After(j, again)[k].due
        BY <1>8, AfterDropsOne
      <4> HIDE DEF mode, next, offset
      <4>2. /\ batchRow' \in [Job -> JobRow]
            /\ \A k \in Job : batchRow'[k] \in
                 {After(j, again)[k], [due |-> TRUE, mode |-> mode, offset |-> next]}
        BY <2>1, <2>2, <3>1, <4>1, EnqueueAddsOne
      <4>3. QED
        BY <4>1, <4>2
    <3>3. mode = "import" => \A r \in FileRow : r <= next /\ r <= MaxRows => written'[r] >= 1
      <4> HIDE DEF batch, offset, mode, next
      <4>1. QED
        BY <1>0, <2>1, <2>2, <2>7, <2>8 DEF FileRow
    <3>4. ~crossed' => \A r \in FileRow :
             run'.status = "importing" /\ r > run'.next_offset => written'[r] < confirms'
      <4> SUFFICES ASSUME ~crossed', NEW r \in FileRow, run'.status = "importing", r > run'.next_offset
                   PROVE  written'[r] < confirms'
        OBVIOUS
      <4>1. run'.next_offset = next /\ run.status = "importing"
        <5>1. mode \in {"dry_run", "import"}
          BY <2>1 DEF Mode
        <5> HIDE DEF mode, offset, next, recorded
        <5>2. QED
          BY <2>4, <2>5, <3>1, <5>1
      <4> HIDE DEF mode, offset, next, recorded
      <4>2. r \notin batch /\ r > offset
        BY <1>0, <2>1, <2>2, <4>1 DEF FileRow, next
      <4> HIDE DEF batch
      <4>3. QED
        BY <1>8, <2>1, <2>3, <2>4, <4>1, <4>2
    <3>5. run'.status # "done"
      BY <1>8, <2>5, <3>1 DEF RunBatch
    <3> HIDE DEF mode, offset, batch, next, recorded
    <3>6. QED
      BY <1>8, <2>3, <2>4, <2>5, <2>6, <2>9, <3>1, <3>2, <3>3, <3>4, <3>5
  <2>12. QED
    BY <2>10, <2>11
<1>9. QED
  BY <1>1, <1>2, <1>3, <1>4, <1>5, <1>6, <1>7, <1>8 DEF ImportNext

(***************************************************************************)
(* An import that is done has applied its file, a pass has counted what it  *)
(* went through, and no row is applied more often than somebody confirmed   *)
(* unless two passes met.                                                  *)
(***************************************************************************)
THEOREM ImportsStayWhole == ImportSpec => []RowsImportedOnce
<1>1. ImportInv => RowsImportedOnce
  BY DEF ImportInv, RowsImportedOnce
<1>2. QED
  BY <1>1, ImportInvHolds, PTL DEF ImportSpec

-----------------------------------------------------------------------------
(***************************************************************************)
(* Induction over numbers, and over the data that is built with them, from  *)
(* the well-founded order of finite sets: a set of numbers with 0 in it and *)
(* the successor of each of its members is all of them.                     *)
(***************************************************************************)
\* A nonempty set of numbers has a least one.
LEMMA LeastNat ==
    ASSUME NEW T \in SUBSET Nat, T # {}
    PROVE  \E m \in T : \A n \in T : m <= n
<1> DEFINE D == {0..n : n \in T}
           R == StrictSubsetOrdering(Nat)
<1>1. IsWellFoundedOn(R, FiniteSubsetsOf(Nat))
  BY FS_StrictSubsetOrderingWellFounded
<1>2. D \subseteq FiniteSubsetsOf(Nat) /\ D # {}
  <2>1. ASSUME NEW n \in T PROVE 0..n \in FiniteSubsetsOf(Nat)
    <3>1. IsFiniteSet(0..n) /\ 0..n \in SUBSET Nat
      BY FS_Interval
    <3> QED  BY <3>1 DEF FiniteSubsetsOf
  <2> QED  BY <2>1
<1>3. \E x \in D : \A y \in D : ~ (<<y, x>> \in R)
  <2> HIDE DEF D, R
  <2> QED BY <1>1, <1>2, WFMin
<1>4. PICK m \in T : \A n \in T : ~ (<<0..n, 0..m>> \in R)
  BY <1>3
<1>5. ASSUME NEW n \in T, n < m PROVE FALSE
  <2>1. 0..n \subseteq 0..m /\ 0..n # 0..m /\ 0..n \in SUBSET Nat /\ 0..m \in SUBSET Nat
    <3>1. m \in 0..m /\ m \notin 0..n
       BY <1>5
    <3> QED BY <1>5, <3>1
  <2> QED  BY <2>1, <1>4 DEF StrictSubsetOrdering
<1> QED  BY <1>4, <1>5

\* Induction, with the set of the numbers that have the property for the property.
LEMMA SetInduction ==
    ASSUME NEW S \in SUBSET Nat, 0 \in S, \A n \in S : n + 1 \in S
    PROVE  S = Nat
<1> SUFFICES ASSUME Nat \ S # {} PROVE FALSE
  OBVIOUS
<1>1. PICK m \in Nat \ S : \A n \in Nat \ S : m <= n
  BY LeastNat
<1>2. m - 1 \in S
  BY <1>1
<1> QED  BY <1>1, <1>2

\* What a recursive sum over the moments so far has to satisfy, up to a bound.
Sums(f, given, m) == \A n \in 0..m : f[n] = IF n = 0 THEN 0 ELSE f[n - 1] + given[n - 1]

\* A recursive sum has a value at every moment, and one only.
LEMMA SumsExist ==
    ASSUME NEW given \in [Instant -> Nat]
    PROVE  \E f \in [0..(Horizon + 1) -> Nat] : Sums(f, given, Horizon + 1)
<1> DEFINE S == {m \in Nat : m > Horizon + 1 \/ \E f \in [0..m -> Nat] : Sums(f, given, m)}
<1>0. Horizon \in Nat
  BY BucketAssumption
<1>1. 0 \in S
  <2> DEFINE f == [n \in 0..0 |-> 0]
  <2>1. f \in [0..0 -> Nat] /\ Sums(f, given, 0)
    BY DEF Sums
  <2> QED  BY <2>1
<1>2. ASSUME NEW m \in S PROVE m + 1 \in S
  <2>0. m \in Nat
    OBVIOUS
  <2>1. CASE m > Horizon
    BY <2>0, <2>1, <1>0
  <2>2. CASE m <= Horizon
    <3>1. PICK f \in [0..m -> Nat] : Sums(f, given, m)
      BY <2>2, <1>0
    <3> DEFINE g == [n \in 0..(m + 1) |-> IF n = m + 1 THEN f[m] + given[m] ELSE f[n]]
    <3>2. given[m] \in Nat /\ f[m] \in Nat
      BY <2>0, <2>2, <1>0 DEF Instant
    <3>3. g \in [0..(m + 1) -> Nat]
      BY <3>2
    <3>4. Sums(g, given, m + 1)
      <4> SUFFICES ASSUME NEW n \in 0..(m + 1)
                   PROVE  g[n] = IF n = 0 THEN 0 ELSE g[n - 1] + given[n - 1]
        BY DEF Sums
      <4>1. CASE n = m + 1
        BY <2>0, <4>1, <3>1
      <4>2. CASE n \in 0..m
        BY <2>0, <4>2, <3>1 DEF Sums
      <4> QED  BY <2>0, <4>1, <4>2
    <3>5. \E h \in [0..(m + 1) -> Nat] : Sums(h, given, m + 1)
      <4> HIDE DEF g
      <4> QED  BY <3>3, <3>4
    <3> QED  BY <2>0, <3>5
  <2> QED  BY <2>0, <2>1, <2>2, <1>0
<1>3. S = Nat
  <2>1. S \in SUBSET Nat
    OBVIOUS
  <2> HIDE DEF S
  <2> QED  BY <1>1, <1>2, <2>1, SetInduction
<1>4. Horizon + 1 \in S
  BY <1>0, <1>3
<1> QED  BY <1>0, <1>4

LEMMA SumsAreUnique ==
    ASSUME NEW given \in [Instant -> Nat],
           NEW f \in [0..(Horizon + 1) -> Nat], Sums(f, given, Horizon + 1),
           NEW g \in [0..(Horizon + 1) -> Nat], Sums(g, given, Horizon + 1)
    PROVE  f = g
<1> DEFINE S == {m \in Nat : m > Horizon + 1 \/ f[m] = g[m]}
<1>0. Horizon \in Nat
  BY BucketAssumption
<1>1. 0 \in S
  BY <1>0 DEF Sums
<1>2. ASSUME NEW m \in S PROVE m + 1 \in S
  <2>1. CASE m > Horizon
    BY <2>1, <1>0
  <2>2. CASE m <= Horizon
    <3>1. f[m] = g[m] /\ m + 1 \in 0..(Horizon + 1) /\ m + 1 # 0 /\ (m + 1) - 1 = m
      BY <2>2, <1>0
    <3>2. f[m + 1] = g[m + 1]
      BY <3>1 DEF Sums
    <3> QED  BY <3>2
  <2> QED  BY <2>1, <2>2, <1>0
<1>3. S = Nat
  <2>1. S \in SUBSET Nat
    OBVIOUS
  <2> HIDE DEF S
  <2> QED  BY <1>1, <1>2, <2>1, SetInduction
<1>4. ASSUME NEW m \in 0..(Horizon + 1) PROVE f[m] = g[m]
  <2>1. m \in S /\ ~(m > Horizon + 1)
    BY <1>0, <1>3
  <2> QED  BY <2>1
<1>5. f = [m \in 0..(Horizon + 1) |-> f[m]] /\ g = [m \in 0..(Horizon + 1) |-> g[m]]
  OBVIOUS
<1> QED  BY <1>4, <1>5

LEMMA GivenBeforeIs ==
    ASSUME NEW given \in [Instant -> Nat]
    PROVE  /\ GivenBefore(given) \in [0..(Horizon + 1) -> Nat]
           /\ Sums(GivenBefore(given), given, Horizon + 1)
<1>0. Horizon \in Nat
  BY BucketAssumption
<1>1. PICK f \in [0..(Horizon + 1) -> Nat] : Sums(f, given, Horizon + 1)
  BY SumsExist
<1>2. f = [n \in 0..(Horizon + 1) |-> IF n = 0 THEN 0 ELSE f[n - 1] + given[n - 1]]
  BY <1>1 DEF Sums
<1>3. GivenBefore(given) = [n \in 0..(Horizon + 1) |->
         IF n = 0 THEN 0 ELSE GivenBefore(given)[n - 1] + given[n - 1]]
  BY <1>2 DEF GivenBefore
<1> DEFINE h == GivenBefore(given)
<1>4. h = [n \in 0..(Horizon + 1) |-> IF n = 0 THEN 0 ELSE h[n - 1] + given[n - 1]]
  BY <1>3
<1>5. Sums(h, given, Horizon + 1)
  <2> HIDE DEF h
  <2> QED  BY <1>4 DEF Sums
<1>6. h \in [0..(Horizon + 1) -> Nat]
  <2> DEFINE S == {m \in Nat : m > Horizon + 1 \/ h[m] \in Nat}
  <2> HIDE DEF h
  <2>1. 0 \in S
    BY <1>0, <1>5 DEF Sums
  <2>2. ASSUME NEW m \in S PROVE m + 1 \in S
    <3>1. CASE m > Horizon
      BY <3>1, <1>0
    <3>2. CASE m <= Horizon
      <4>1. h[m] \in Nat /\ m + 1 \in 0..(Horizon + 1) /\ m + 1 # 0 /\ (m + 1) - 1 = m /\ m \in Instant
        BY <3>2, <1>0 DEF Instant
      <4>2. h[m + 1] = h[m] + given[m]
        BY <4>1, <1>5 DEF Sums
      <4>3. given[m] \in Nat
        BY <4>1
      <4> QED  BY <4>1, <4>2, <4>3
    <3> QED  BY <3>1, <3>2, <1>0
  <2>3. S = Nat
    <3>1. S \in SUBSET Nat
      OBVIOUS
    <3> HIDE DEF S
    <3> QED  BY <2>1, <2>2, <3>1, SetInduction
  <2>4. \A m \in 0..(Horizon + 1) : h[m] \in Nat
    BY <1>0, <2>3
  <2> QED  BY <1>4, <2>4
<1> QED  BY <1>5, <1>6

\* Nothing given, nothing summed.
LEMMA NothingGiven ==
    ASSUME NEW given \in [Instant -> Nat], \A t \in Instant : given[t] = 0,
           NEW n \in 0..(Horizon + 1)
    PROVE  GivenBefore(given)[n] = 0
<1> DEFINE f == [m \in 0..(Horizon + 1) |-> 0]
<1>0. Horizon \in Nat
  BY BucketAssumption
<1>1. f \in [0..(Horizon + 1) -> Nat] /\ Sums(f, given, Horizon + 1)
  BY <1>0 DEF Sums, Instant
<1>2. f = GivenBefore(given)
  <2> HIDE DEF f
  <2> QED  BY <1>1, GivenBeforeIs, SumsAreUnique
<1> QED  BY <1>2

OneMore(given, at) == [given EXCEPT ![at] = @ + 1]

\* One more grant counts before every later moment.
LEMMA OneMoreGiven ==
    ASSUME NEW given \in [Instant -> Nat], NEW at \in Instant
    PROVE  /\ OneMore(given, at) \in [Instant -> Nat]
           /\ \A t \in Instant \ {at} : OneMore(given, at)[t] = given[t]
           /\ \A n \in 0..(Horizon + 1) : GivenBefore(OneMore(given, at))[n] =
                 GivenBefore(given)[n] + (IF n > at THEN 1 ELSE 0)
<1> DEFINE f == [n \in 0..(Horizon + 1) |->
                   GivenBefore(given)[n] + (IF n > at THEN 1 ELSE 0)]
           p == GivenBefore(given)
           one == OneMore(given, at)
<1>0. Horizon \in Nat /\ at \in Nat
  BY BucketAssumption DEF Instant
<1>1. one \in [Instant -> Nat]
  BY DEF OneMore
<1>2. p \in [0..(Horizon + 1) -> Nat] /\ Sums(p, given, Horizon + 1)
  BY GivenBeforeIs
<1>3. f \in [0..(Horizon + 1) -> Nat]
  <2> HIDE DEF p
  <2> SUFFICES \A n \in 0..(Horizon + 1) : p[n] + (IF n > at THEN 1 ELSE 0) \in Nat
    BY DEF p
  <2> QED  BY <1>2
<1>4. Sums(f, one, Horizon + 1)
  <2> SUFFICES ASSUME NEW n \in 0..(Horizon + 1)
               PROVE  f[n] = IF n = 0 THEN 0 ELSE f[n - 1] + one[n - 1]
    BY DEF Sums
  <2>1. CASE n = 0
    <3>1. p[0] = 0
      BY <1>0, <1>2 DEF Sums
    <3> QED  BY <3>1, <2>1, <1>0
  <2>2. CASE n # 0
    <3>1. n - 1 \in Instant /\ n - 1 \in 0..(Horizon + 1)
      BY <2>2, <1>0 DEF Instant
    <3>2. p[n] = p[n - 1] + given[n - 1]
      BY <2>2, <1>2 DEF Sums
    <3>3. p[n] \in Nat /\ p[n - 1] \in Nat /\ given[n - 1] \in Nat
      BY <3>1, <1>2
    <3>4. f[n] = p[n] + (IF n > at THEN 1 ELSE 0)
          /\ f[n - 1] = p[n - 1] + (IF n - 1 > at THEN 1 ELSE 0)
      BY <3>1
    <3>5. one[n - 1] = given[n - 1] + (IF n - 1 = at THEN 1 ELSE 0)
      BY <3>1, <3>3 DEF OneMore
    <3> HIDE DEF f, p, one
    <3> QED  BY <2>2, <3>2, <3>3, <3>4, <3>5, <1>0
  <2> QED  BY <2>1, <2>2
<1>5. f = GivenBefore(one)
  <2> HIDE DEF f, one
  <2> QED  BY <1>1, <1>3, <1>4, GivenBeforeIs, SumsAreUnique
<1>6. \A t \in Instant \ {at} : one[t] = given[t]
  BY DEF OneMore
<1>7. \A n \in 0..(Horizon + 1) : GivenBefore(one)[n] =
                 GivenBefore(given)[n] + (IF n > at THEN 1 ELSE 0)
  BY <1>5
<1> QED  BY <1>1, <1>6, <1>7

(***************************************************************************)
(* What holds of a row and the grants it answers for, the committed ones or *)
(* a transaction's own: every window keeps its bound, and a window that is  *)
(* still open has room in its bound for what the row can give at once.      *)
(***************************************************************************)
Given(given, a, b) == GivenBefore(given)[b + 1] - GivenBefore(given)[a]

FirstOf(given, a) == \A t \in Instant : t < a => given[t] = 0

Bound(given, a, b) == Burst + (b - a) + (IF FirstOf(given, a) THEN Price ELSE 0)

Room(at, row) == Lower(Burst, row.tokens + (at - row.refilled))

Keeps(given) ==
    \A a, b \in Instant : a <= b => Price * Given(given, a, b) <= Bound(given, a, b)

Covers(at, row, given) ==
    \A a, b \in Instant : a <= at /\ at <= b =>
        Price * Given(given, a, b) + Room(at, row) <= Bound(given, a, at)

NoneAfter(at, given) ==
    \A n \in (at + 1)..(Horizon + 1) : GivenBefore(given)[n] = GivenBefore(given)[at + 1]

Answers(at, row, given) ==
    /\ row.refilled <= at
    /\ ~row.made => \A t \in Instant : given[t] = 0
    /\ NoneAfter(at, given)
    /\ Keeps(given)
    /\ row.made => Covers(at, row, given)

\* One transaction at most holds the row, and it answers for its own copy, the
\* others for the committed one.
BucketInv ==
    /\ BucketTypeOK
    /\ \A s \in Sender : since[s] <= moment
    /\ \A s, q \in Sender : s \in locker /\ q \in locker => s = q
    /\ \A s \in Sender : stage[s] \in {"granted", "deferred"} => s \in locker
    /\ Answers(moment, bucket, grants)
    /\ locker # {} => draft.row.made /\ Answers(moment, draft.row, draft.grants)

\* Arithmetic of a bucket.
LEMMA BucketNumbers ==
    Price \in Nat /\ Burst \in Nat /\ Horizon \in Nat /\ Price <= Burst /\ MaxWait \in Nat
BY BucketAssumption

LEMMA OneMoreMessage == ASSUME NEW x \in Int PROVE Price * (x + 1) = Price * x + Price
BY BucketNumbers

LEMMA RoomIs ==
    ASSUME NEW at \in Instant, NEW row \in BucketRow, row.refilled <= at
    PROVE  Room(at, row) \in 0..Burst
BY BucketNumbers DEF Room, Lower, BucketRow, Instant

LEMMA GivenIs ==
    ASSUME NEW given \in [Instant -> Nat], NEW a \in Instant, NEW b \in Instant
    PROVE  /\ Given(given, a, b) \in Int
           /\ Price * Given(given, a, b) \in Int
           /\ a <= b => Bound(given, a, b) \in Nat /\ Burst <= Bound(given, a, b)
<1>1. a \in 0..(Horizon + 1) /\ b + 1 \in 0..(Horizon + 1) /\ a \in Nat /\ b \in Nat
  BY BucketNumbers DEF Instant
<1>2. GivenBefore(given)[a] \in Nat /\ GivenBefore(given)[b + 1] \in Nat
  BY <1>1, GivenBeforeIs
<1>3. Given(given, a, b) \in Int
  BY <1>2 DEF Given
<1>4. Price * Given(given, a, b) \in Int
  BY <1>3, BucketNumbers
<1>5. a <= b => Bound(given, a, b) \in Nat /\ Burst <= Bound(given, a, b)
  BY <1>1, BucketNumbers DEF Bound
<1> QED  BY <1>3, <1>4, <1>5

\* A window after the present is empty.
LEMMA NothingAfter ==
    ASSUME NEW given \in [Instant -> Nat], NEW at \in Instant, NoneAfter(at, given),
           NEW a \in Instant, NEW b \in Instant, at < a, a <= b
    PROVE  Given(given, a, b) = 0
<1>1. a \in (at + 1)..(Horizon + 1) /\ b + 1 \in (at + 1)..(Horizon + 1)
      /\ at + 1 \in 0..(Horizon + 1)
  BY BucketNumbers DEF Instant
<1>2. GivenBefore(given)[at + 1] \in Nat
  BY <1>1, GivenBeforeIs
<1>3. GivenBefore(given)[a] = GivenBefore(given)[at + 1]
      /\ GivenBefore(given)[b + 1] = GivenBefore(given)[at + 1]
  BY <1>1 DEF NoneAfter
<1> QED  BY <1>2, <1>3 DEF Given

\* Before the first grant every window is.
LEMMA NothingWithin ==
    ASSUME NEW given \in [Instant -> Nat], \A t \in Instant : given[t] = 0
    PROVE  /\ \A a, b \in Instant : Given(given, a, b) = 0
           /\ \A at \in Instant : NoneAfter(at, given)
<1>1. ASSUME NEW a \in Instant, NEW b \in Instant PROVE Given(given, a, b) = 0
  <2>1. a \in 0..(Horizon + 1) /\ b + 1 \in 0..(Horizon + 1)
    BY BucketNumbers DEF Instant
  <2>2. GivenBefore(given)[a] = 0 /\ GivenBefore(given)[b + 1] = 0
    BY <2>1, NothingGiven
  <2> QED  BY <2>2 DEF Given
<1>2. ASSUME NEW at \in Instant PROVE NoneAfter(at, given)
  <2> SUFFICES ASSUME NEW n \in (at + 1)..(Horizon + 1)
               PROVE  GivenBefore(given)[n] = GivenBefore(given)[at + 1]
    BY DEF NoneAfter
  <2>1. n \in 0..(Horizon + 1) /\ at + 1 \in 0..(Horizon + 1)
    BY BucketNumbers DEF Instant
  <2> QED  BY <2>1, NothingGiven
<1> QED  BY <1>1, <1>2

\* A grant counts in the windows that hold its moment.
LEMMA OneMoreWithin ==
    ASSUME NEW given \in [Instant -> Nat], NEW at \in Instant
    PROVE  /\ OneMore(given, at) \in [Instant -> Nat]
           /\ \A a \in Instant : a <= at => (FirstOf(OneMore(given, at), a) <=> FirstOf(given, a))
           /\ \A a, b \in Instant : a <= b =>
                Given(OneMore(given, at), a, b)
                  = Given(given, a, b) + (IF a <= at /\ at <= b THEN 1 ELSE 0)
           /\ NoneAfter(at, given) => NoneAfter(at, OneMore(given, at))
<1> DEFINE one == OneMore(given, at)
<1>0. at \in Nat /\ at <= Horizon
  BY BucketNumbers DEF Instant
<1>1. one \in [Instant -> Nat] /\ \A t \in Instant \ {at} : one[t] = given[t]
  BY OneMoreGiven
<1>2. \A n \in 0..(Horizon + 1) : GivenBefore(one)[n] =
                 GivenBefore(given)[n] + (IF n > at THEN 1 ELSE 0)
  BY OneMoreGiven
<1> HIDE DEF one
<1>3. ASSUME NEW a \in Instant, a <= at PROVE FirstOf(one, a) <=> FirstOf(given, a)
  <2>1. ASSUME NEW t \in Instant, t < a PROVE one[t] = given[t]
    BY <1>0, <1>1, <1>3, <2>1 DEF Instant
  <2> QED  BY <2>1 DEF FirstOf
<1>4. ASSUME NEW a \in Instant, NEW b \in Instant, a <= b
      PROVE  Given(one, a, b) = Given(given, a, b) + (IF a <= at /\ at <= b THEN 1 ELSE 0)
  <2>1. a \in 0..(Horizon + 1) /\ b + 1 \in 0..(Horizon + 1) /\ a \in Nat /\ b \in Nat
    BY BucketNumbers DEF Instant
  <2>2. GivenBefore(given)[a] \in Nat /\ GivenBefore(given)[b + 1] \in Nat
    BY <2>1, GivenBeforeIs
  <2>3. /\ GivenBefore(one)[a] = GivenBefore(given)[a] + (IF a > at THEN 1 ELSE 0)
        /\ GivenBefore(one)[b + 1] = GivenBefore(given)[b + 1] + (IF b + 1 > at THEN 1 ELSE 0)
    BY <2>1, <1>2
  <2> QED  BY <1>0, <1>4, <2>1, <2>2, <2>3 DEF Given
<1>5. ASSUME NoneAfter(at, given) PROVE NoneAfter(at, one)
  <2> SUFFICES ASSUME NEW n \in (at + 1)..(Horizon + 1)
               PROVE  GivenBefore(one)[n] = GivenBefore(one)[at + 1]
    BY DEF NoneAfter
  <2>1. n \in 0..(Horizon + 1) /\ at + 1 \in 0..(Horizon + 1) /\ n > at /\ at + 1 > at
    BY <1>0, BucketNumbers
  <2>2. GivenBefore(given)[n] = GivenBefore(given)[at + 1]
    BY <1>5 DEF NoneAfter
  <2> QED  BY <1>2, <2>1, <2>2
<1>6. one \in [Instant -> Nat]
  BY <1>1
<1> QED  BY <1>3, <1>4, <1>5, <1>6 DEF one

-----------------------------------------------------------------------------
\* An account that is opened by the first grant.
LEMMA CreatedAnswers ==
    ASSUME NEW at \in Instant, NEW given \in [Instant -> Nat], NEW start \in Instant,
           start <= at, \A t \in Instant : given[t] = 0,
           NEW row, row = [made |-> TRUE, tokens |-> Burst - Price, refilled |-> start]
    PROVE  row \in BucketRow /\ Answers(at, row, OneMore(given, at))
<1> DEFINE one == OneMore(given, at)
<1>1. row \in BucketRow /\ row.made /\ row.refilled = start
  BY BucketNumbers DEF BucketRow
<1>2. Room(at, row) \in 0..Burst
  BY <1>1, RoomIs
<1>3. one \in [Instant -> Nat] /\ NoneAfter(at, one)
  BY OneMoreWithin, NothingWithin
<1>4. \A a, b \in Instant : a <= b => Given(one, a, b) = IF a <= at /\ at <= b THEN 1 ELSE 0
  BY OneMoreWithin, NothingWithin, BucketNumbers
<1>5. \A a \in Instant : a <= at => FirstOf(one, a)
  <2>1. \A a \in Instant : FirstOf(given, a)
    BY DEF FirstOf
  <2> QED  BY <2>1, OneMoreWithin
<1> HIDE DEF one
<1>6. Keeps(one)
  <2> SUFFICES ASSUME NEW a \in Instant, NEW b \in Instant, a <= b
               PROVE  Price * Given(one, a, b) <= Bound(one, a, b)
    BY DEF Keeps
  <2>1. Given(one, a, b) \in 0..1
    BY <1>4
  <2>2. Price * Given(one, a, b) <= Burst
    BY <2>1, BucketNumbers
  <2> QED  BY <1>3, <2>1, <2>2, GivenIs, BucketNumbers
<1>7. Covers(at, row, one)
  <2> SUFFICES ASSUME NEW a \in Instant, NEW b \in Instant, a <= at, at <= b
               PROVE  Price * Given(one, a, b) + Room(at, row) <= Bound(one, a, at)
    BY DEF Covers
  <2>1. a <= b /\ a \in Nat /\ b \in Nat /\ at \in Nat
    BY BucketNumbers DEF Instant
  <2>2. Given(one, a, b) = 1
    BY <1>4, <2>1
  <2>3. Bound(one, a, at) = Burst + (at - a) + Price
    BY <1>5 DEF Bound
  <2> QED  BY <1>2, <2>1, <2>2, <2>3, BucketNumbers
<1> QED  BY <1>1, <1>3, <1>6, <1>7 DEF Answers, one

\* A row with something to give, debited.
LEMMA DebitedAnswers ==
    ASSUME NEW at \in Instant, NEW given \in [Instant -> Nat], NEW row \in BucketRow,
           row.made, Answers(at, row, given), Room(at, row) >= Price,
           NEW less, less = [made |-> TRUE, tokens |-> Room(at, row) - Price, refilled |-> at]
    PROVE  less \in BucketRow /\ Answers(at, less, OneMore(given, at))
<1> DEFINE one == OneMore(given, at)
<1>0. at \in Nat
  BY BucketNumbers DEF Instant
<1>1. Room(at, row) \in 0..Burst
  BY RoomIs DEF Answers
<1>2. less \in BucketRow /\ less.made /\ less.refilled = at /\ Room(at, less) = Room(at, row) - Price
  <2>1. Room(at, row) - Price \in 0..Burst /\ Room(at, row) - Price <= Burst
    BY <1>1, BucketNumbers
  <2> HIDE DEF Room
  <2>2. less \in BucketRow /\ less.made /\ less.refilled = at /\ less.tokens = Room(at, row) - Price
    BY <2>1 DEF BucketRow
  <2>3. Room(at, less) = Lower(Burst, (Room(at, row) - Price) + (at - at))
    BY <2>2 DEF Room
  <2> QED  BY <1>0, <1>1, <2>1, <2>2, <2>3, BucketNumbers DEF Lower
<1>3. NoneAfter(at, given) /\ Keeps(given) /\ Covers(at, row, given)
  BY DEF Answers
<1>4. /\ one \in [Instant -> Nat] /\ NoneAfter(at, one)
      /\ \A a \in Instant : a <= at => (FirstOf(one, a) <=> FirstOf(given, a))
      /\ \A a, b \in Instant : a <= b =>
           Given(one, a, b) = Given(given, a, b) + (IF a <= at /\ at <= b THEN 1 ELSE 0)
  BY <1>3, OneMoreWithin
<1> HIDE DEF one
<1>5. Keeps(one)
  <2> SUFFICES ASSUME NEW a \in Instant, NEW b \in Instant, a <= b
               PROVE  Price * Given(one, a, b) <= Bound(one, a, b)
    BY DEF Keeps
  <2>0. a \in Nat /\ b \in Nat
    BY BucketNumbers DEF Instant
  <2>1. CASE b < at
    <3>1. Given(one, a, b) = Given(given, a, b)
      BY <1>0, <1>4, <2>0, <2>1, GivenIs
    <3>2. Bound(one, a, b) = Bound(given, a, b)
      BY <1>0, <1>4, <2>0, <2>1 DEF Bound
    <3> QED  BY <1>3, <3>1, <3>2 DEF Keeps
  <2>2. CASE a <= at /\ at <= b
    <3>1. Price * Given(one, a, b) = Price * Given(given, a, b) + Price
      BY <1>4, <2>2, GivenIs, OneMoreMessage
    <3>2. Price * Given(given, a, b) + Room(at, row) <= Bound(given, a, at)
      BY <1>3, <2>2 DEF Covers
    <3>3. Bound(given, a, at) = Bound(one, a, at) /\ Bound(one, a, at) <= Bound(one, a, b)
      BY <1>0, <1>4, <2>0, <2>2, BucketNumbers DEF Bound
    <3>4. Price * Given(given, a, b) \in Int /\ Bound(one, a, b) \in Int /\ Bound(one, a, at) \in Int
      BY <1>4, <2>2, GivenIs
    <3> QED  BY <1>1, <3>1, <3>2, <3>3, <3>4, BucketNumbers
  <2>3. CASE at < a
    <3>1. Given(one, a, b) = 0
      BY <1>4, <2>3, NothingAfter
    <3> QED  BY <1>4, <3>1, GivenIs, BucketNumbers
  <2> QED  BY <1>0, <2>0, <2>1, <2>2, <2>3
<1>6. Covers(at, less, one)
  <2> SUFFICES ASSUME NEW a \in Instant, NEW b \in Instant, a <= at, at <= b
               PROVE  Price * Given(one, a, b) + Room(at, less) <= Bound(one, a, at)
    BY DEF Covers
  <2>0. a \in Nat /\ b \in Nat /\ a <= b
    BY <1>0, BucketNumbers DEF Instant
  <2>1. Price * Given(one, a, b) = Price * Given(given, a, b) + Price
    BY <1>4, <2>0, GivenIs, OneMoreMessage
  <2>2. Price * Given(given, a, b) + Room(at, row) <= Bound(given, a, at)
    BY <1>3 DEF Covers
  <2>3. Bound(given, a, at) = Bound(one, a, at)
    BY <1>4 DEF Bound
  <2>4. Price * Given(given, a, b) \in Int /\ Bound(one, a, at) \in Int
    BY <1>4, GivenIs
  <2> QED  BY <1>1, <1>2, <2>1, <2>2, <2>3, <2>4, BucketNumbers
<1> QED  BY <1>0, <1>2, <1>4, <1>5, <1>6 DEF Answers, one

\* A row that cannot pay, brought up to date.
LEMMA ToppedAnswers ==
    ASSUME NEW at \in Instant, NEW given \in [Instant -> Nat], NEW row \in BucketRow,
           row.made, Answers(at, row, given),
           NEW more, more = [made |-> TRUE, tokens |-> Room(at, row), refilled |-> at]
    PROVE  more \in BucketRow /\ Answers(at, more, given)
<1>0. at \in Nat
  BY BucketNumbers DEF Instant
<1>1. Room(at, row) \in 0..Burst
  BY RoomIs DEF Answers
<1>2. more \in BucketRow /\ more.made /\ more.refilled = at /\ more.tokens = Room(at, row)
  BY <1>1 DEF BucketRow
<1>3. Room(at, more) = Room(at, row)
  <2>1. Room(at, more) = Lower(Burst, Room(at, row) + (at - at))
    BY <1>2 DEF Room
  <2> QED  BY <1>0, <1>1, <2>1, BucketNumbers DEF Lower
<1>4. Covers(at, more, given)
  BY <1>3 DEF Answers, Covers
<1> QED  BY <1>0, <1>2, <1>4 DEF Answers

\* The clock moves on.
LEMMA LaterAnswers ==
    ASSUME NEW at \in Instant, at < Horizon, NEW given \in [Instant -> Nat],
           NEW row \in BucketRow, Answers(at, row, given)
    PROVE  at + 1 \in Instant /\ Answers(at + 1, row, given)
<1>0. at \in Nat /\ at + 1 \in Instant
  BY BucketNumbers DEF Instant
<1>1. row.refilled <= at /\ row.refilled <= at + 1
  BY <1>0 DEF Answers, BucketRow, Instant
<1>2. NoneAfter(at + 1, given)
  <2> SUFFICES ASSUME NEW n \in ((at + 1) + 1)..(Horizon + 1)
               PROVE  GivenBefore(given)[n] = GivenBefore(given)[(at + 1) + 1]
    BY DEF NoneAfter
  <2>1. n \in (at + 1)..(Horizon + 1) /\ (at + 1) + 1 \in (at + 1)..(Horizon + 1)
    BY <1>0, BucketNumbers
  <2> QED  BY <2>1 DEF Answers, NoneAfter
<1>3. ASSUME row.made PROVE Covers(at + 1, row, given)
  <2> SUFFICES ASSUME NEW a \in Instant, NEW b \in Instant, a <= at + 1, at + 1 <= b
               PROVE  Price * Given(given, a, b) + Room(at + 1, row) <= Bound(given, a, at + 1)
    BY DEF Covers
  <2>0. a \in Nat /\ b \in Nat
    BY BucketNumbers DEF Instant
  <2>1. Room(at, row) \in 0..Burst /\ Room(at + 1, row) \in 0..Burst
    BY <1>0, <1>1, RoomIs
  <2>2. Bound(given, a, at + 1) \in Nat /\ Burst <= Bound(given, a, at + 1)
    BY <1>0, GivenIs
  <2>3. CASE a <= at
    <3>1. Price * Given(given, a, b) + Room(at, row) <= Bound(given, a, at)
      <4>1. at <= b
        BY <1>0, <2>0
      <4> QED  BY <1>3, <2>3, <4>1 DEF Answers, Covers
    <3>2. Room(at + 1, row) <= Room(at, row) + 1
      <4>1. row.tokens \in Nat /\ row.refilled \in Nat
        BY BucketNumbers DEF BucketRow, Instant
      <4> QED  BY <1>0, <4>1, BucketNumbers DEF Room, Lower
    <3>3. Bound(given, a, at + 1) = Bound(given, a, at) + 1
      BY <1>0, <2>0, BucketNumbers DEF Bound
    <3>4. Price * Given(given, a, b) \in Int /\ Bound(given, a, at) \in Int
      BY <2>3, GivenIs
    <3> QED  BY <2>1, <2>2, <3>1, <3>2, <3>3, <3>4
  <2>4. CASE a = at + 1
    <3>1. NoneAfter(at, given) /\ at < a /\ a <= b
      BY <1>0, <2>4 DEF Answers
    <3>2. Given(given, a, b) = 0
      BY <3>1, NothingAfter
    <3> QED  BY <2>1, <2>2, <3>2, BucketNumbers
  <2> QED  BY <1>0, <2>0, <2>3, <2>4
<1> QED  BY <1>0, <1>1, <1>2, <1>3 DEF Answers

-----------------------------------------------------------------------------
\* What the senders see, and what a pass over the bucket leaves.
LEMMA SeenAnswers ==
    ASSUME BucketInv, NEW s \in Sender, locker \subseteq {s}
    PROVE  /\ Sees(s).row \in BucketRow /\ Sees(s).grants \in [Instant -> Nat]
           /\ Answers(moment, Sees(s).row, Sees(s).grants)
BY DEF BucketInv, BucketTypeOK, Sees

LEMMA BucketTypes ==
    ASSUME BucketInv, NEW s \in Sender
    PROVE  /\ moment \in Instant /\ moment \in Nat /\ moment <= Horizon /\ moment \in Int
           /\ since[s] \in Instant /\ since[s] <= moment /\ since[s] \in Nat
           /\ bucket \in BucketRow /\ draft.row \in BucketRow
           /\ grants \in [Instant -> Nat] /\ draft.grants \in [Instant -> Nat]
           /\ moment + MaxWait \in 0..(Horizon + MaxWait)
BY BucketNumbers DEF BucketInv, BucketTypeOK, Instant

\* The first state, and every step.
LEMMA BucketStart == BucketInit => BucketInv
<1> SUFFICES ASSUME BucketInit PROVE BucketInv
  OBVIOUS
<1> USE DEF BucketInit, NoBucket
<1>1. moment \in Instant /\ 0 \in 0..(Horizon + MaxWait) /\ 0 \in 0..Burst /\ moment = 0
  BY BucketNumbers DEF Instant
<1>2. grants \in [Instant -> Nat] /\ \A t \in Instant : grants[t] = 0
  OBVIOUS
<1>3. BucketTypeOK
  BY <1>1, <1>2 DEF BucketTypeOK, BucketRow
<1>4. Keeps(grants)
  BY <1>2, NothingWithin, GivenIs, BucketNumbers DEF Keeps
<1>5. Answers(moment, bucket, grants)
  BY <1>1, <1>2, <1>4, NothingWithin DEF Answers
<1>6. ASSUME NEW s \in Sender PROVE since[s] <= moment
  <2>1. since[s] = 0
    OBVIOUS
  <2> QED  BY <1>1, <2>1
<1> QED  BY <1>3, <1>5, <1>6 DEF BucketInv

LEMMA BucketStays == BucketInv /\ [BucketNext]_bucketVars => BucketInv'
<1> SUFFICES ASSUME BucketInv, [BucketNext]_bucketVars PROVE BucketInv'
  OBVIOUS
<1>a. BucketTypeOK /\ Answers(moment, bucket, grants)
      /\ (locker # {} => draft.row.made /\ Answers(moment, draft.row, draft.grants))
  BY DEF BucketInv
<1>1. ASSUME NEW s \in Sender, Acquire(s) PROVE BucketInv'
  <2>1. BucketTypeOK'
    BY <1>a, <1>1, BucketTypes DEF Acquire, Stands, BucketTypeOK
  <2>2. \A q \in Sender : since'[q] <= moment'
    BY <1>1, BucketTypes DEF Acquire, BucketInv, BucketTypeOK
  <2> QED  BY <1>a, <1>1, <2>1, <2>2 DEF Acquire, Stands, BucketInv, BucketTypeOK
<1>2. ASSUME NEW s \in Sender, AcquireMore(s) PROVE BucketInv'
  <2>1. BucketTypeOK'
    BY <1>a, <1>2, BucketTypes DEF AcquireMore, Stands, BucketTypeOK
  <2> QED  BY <1>a, <1>2, <2>1 DEF AcquireMore, Stands, BucketInv, BucketTypeOK
<1>3. ASSUME NEW s \in Sender, FindNoBucket(s) PROVE BucketInv'
  <2>1. BucketTypeOK'
    BY <1>a, <1>3 DEF FindNoBucket, Stands, BucketTypeOK
  <2> QED  BY <1>a, <1>3, <2>1 DEF FindNoBucket, Stands, BucketInv, BucketTypeOK
<1>4. ASSUME NEW s \in Sender, CreateFull(s) PROVE BucketInv'
  <2>1. CASE bucket.made
    <3>1. BucketTypeOK'
      BY <1>a, <1>4, <2>1 DEF CreateFull, Stands, BucketTypeOK
    <3> QED  BY <1>a, <1>4, <2>1, <3>1 DEF CreateFull, Stands, BucketInv, BucketTypeOK
  <2>2. CASE ~bucket.made
    <3>1. /\ locker' = {s} /\ locker = {}
          /\ draft' = [row |-> draft'.row, grants |-> OneMore(grants, moment)]
          /\ draft'.row = [made |-> TRUE, tokens |-> Burst - Price, refilled |-> since[s]]
          /\ stage' = [stage EXCEPT ![s] = "granted"]
          /\ UNCHANGED <<moment, bucket, grants, since, until>>
      BY <1>4, <2>2 DEF CreateFull, Stands, OneGrant, OneMore
    <3>2. \A t \in Instant : grants[t] = 0
      BY <1>a, <2>2 DEF Answers
    <3>3. draft'.row \in BucketRow /\ Answers(moment, draft'.row, OneMore(grants, moment))
      BY <3>1, <3>2, BucketTypes, CreatedAnswers
    <3>4. OneMore(grants, moment) \in [Instant -> Nat] /\ draft'.grants = OneMore(grants, moment)
      BY <3>1, BucketTypes, OneMoreWithin
    <3>5. BucketTypeOK'
      BY <1>a, <3>1, <3>3, <3>4 DEF BucketTypeOK
    <3>6. draft'.row.made /\ Answers(moment', draft'.row, draft'.grants)
      BY <3>1, <3>3, <3>4
    <3>7. Answers(moment', bucket', grants')
      BY <1>a, <3>1
    <3>8. \A q \in Sender : stage'[q] \in {"granted", "deferred"} => q \in locker'
      BY <1>a, <3>1 DEF BucketInv, BucketTypeOK
    <3> QED  BY <3>1, <3>5, <3>6, <3>7, <3>8 DEF BucketInv
  <2> QED  BY <2>1, <2>2
<1>5. ASSUME NEW s \in Sender, Spend(s) PROVE BucketInv'
  <2> DEFINE row == Sees(s).row
             given == Sees(s).grants
  <2>1. /\ stage[s] = "trying" /\ locker \subseteq {s} /\ row.made /\ locker' = {s}
        /\ UNCHANGED <<moment, bucket, grants, since, until>>
    BY <1>5 DEF Spend
  <2>2. row \in BucketRow /\ given \in [Instant -> Nat] /\ Answers(moment, row, given)
    BY <2>1, SeenAnswers
  <2>3. Available(row) = Room(moment, row)
    BY DEF Available, Room
  <2>4. /\ draft' = [row |-> draft'.row, grants |-> draft'.grants]
        /\ draft'.row \in BucketRow /\ draft'.row.made
        /\ draft'.grants \in [Instant -> Nat]
        /\ Answers(moment, draft'.row, draft'.grants)
    <3>1. CASE Available(row) >= Price
      <4>1. draft' = [row |-> Debited(row), grants |-> OneMore(given, moment)]
        BY <1>5, <3>1 DEF Spend, OneGrant, OneMore
      <4>2. Debited(row) = [made |-> TRUE, tokens |-> Room(moment, row) - Price, refilled |-> moment]
        BY <2>3 DEF Debited
      <4> HIDE DEF row, given
      <4>3. Debited(row) \in BucketRow /\ Answers(moment, Debited(row), OneMore(given, moment))
        BY <2>1, <2>2, <2>3, <3>1, <4>2, BucketTypes, DebitedAnswers
      <4>4. OneMore(given, moment) \in [Instant -> Nat]
        BY <2>2, BucketTypes, OneMoreWithin
      <4> QED  BY <4>1, <4>2, <4>3, <4>4
    <3>2. CASE ~(Available(row) >= Price)
      <4>1. draft' = [row |-> Topped(row), grants |-> given]
        BY <1>5, <3>2 DEF Spend
      <4>2. Topped(row) = [made |-> TRUE, tokens |-> Room(moment, row), refilled |-> moment]
        BY <2>3 DEF Topped
      <4> HIDE DEF row, given
      <4>3. Topped(row) \in BucketRow /\ Answers(moment, Topped(row), given)
        BY <2>1, <2>2, <4>2, BucketTypes, ToppedAnswers
      <4> QED  BY <2>2, <4>1, <4>2, <4>3
    <3> QED  BY <3>1, <3>2
  <2>5. \E at \in {"trying", "granted", "deferred"} : stage' = [stage EXCEPT ![s] = at]
    BY <1>5 DEF Spend, Stands
  <2> HIDE DEF row, given
  <2>6. BucketTypeOK'
    BY <1>a, <2>1, <2>4, <2>5 DEF BucketTypeOK
  <2>7. Answers(moment', draft'.row, draft'.grants) /\ Answers(moment', bucket', grants')
    BY <1>a, <2>1, <2>4
  <2>8. \A q \in Sender : stage'[q] \in {"granted", "deferred"} => q \in locker'
    BY <1>a, <2>1, <2>5 DEF BucketInv, BucketTypeOK
  <2> QED  BY <2>1, <2>4, <2>6, <2>7, <2>8 DEF BucketInv
<1>6. ASSUME NEW s \in Sender, CommitSend(s) PROVE BucketInv'
  <2>1. s \in locker
    BY <1>6 DEF CommitSend, BucketInv
  <2>2. BucketTypeOK'
    BY <1>a, <1>6, BucketTypes DEF CommitSend, Stands, BucketTypeOK
  <2>3. Answers(moment', bucket', grants')
    BY <1>a, <1>6, <2>1 DEF CommitSend
  <2>4. \A q \in Sender : stage'[q] \in {"granted", "deferred"} => q \in locker'
    BY <1>a, <1>6, <2>1 DEF CommitSend, Stands, BucketInv, BucketTypeOK
  <2> QED  BY <1>6, <2>2, <2>3, <2>4 DEF CommitSend, BucketInv
<1>7. ASSUME NEW s \in Sender, RollBackSend(s) PROVE BucketInv'
  <2>1. BucketTypeOK'
    BY <1>a, <1>7 DEF RollBackSend, Stands, BucketTypeOK
  <2>2. \A q \in Sender : stage'[q] \in {"granted", "deferred"} => q \in locker'
    BY <1>a, <1>7 DEF RollBackSend, Stands, BucketInv, BucketTypeOK
  <2>3. locker' # {} => draft' = draft /\ locker # {}
    <3>1. locker' = locker \ {s} /\ (s \notin locker => draft' = draft)
      BY <1>7 DEF RollBackSend
    <3>2. \A q \in locker : s \in locker => q = s
      BY DEF BucketInv, BucketTypeOK
    <3> QED  BY <3>1, <3>2
  <2>4. \A p, q \in Sender : p \in locker' /\ q \in locker' => p = q
    <3>1. locker' \subseteq locker
      BY <1>7 DEF RollBackSend
    <3>2. \A p, q \in Sender : p \in locker /\ q \in locker => p = q
      BY DEF BucketInv
    <3> QED  BY <3>1, <3>2
  <2> QED  BY <1>a, <1>7, <2>1, <2>2, <2>3, <2>4 DEF RollBackSend, BucketInv
<1>8. ASSUME BucketTick PROVE BucketInv'
  <2>1. /\ moment < Horizon /\ moment' = moment + 1
        /\ UNCHANGED <<bucket, grants, locker, draft, stage, since, until>>
    BY <1>8 DEF BucketTick, senderVars
  <2>2. moment \in Instant /\ bucket \in BucketRow /\ grants \in [Instant -> Nat]
        /\ draft.row \in BucketRow /\ draft.grants \in [Instant -> Nat]
    BY <1>a DEF BucketTypeOK
  <2>3. moment' \in Instant /\ Answers(moment', bucket, grants)
    BY <1>a, <2>1, <2>2, LaterAnswers
  <2>4. locker # {} => draft.row.made /\ Answers(moment', draft.row, draft.grants)
    BY <1>a, <2>1, <2>2, LaterAnswers
  <2>5. \A s \in Sender : since[s] <= moment'
    <3> SUFFICES ASSUME NEW s \in Sender PROVE since[s] <= moment'
      OBVIOUS
    <3> QED  BY <2>1, BucketTypes
  <2>6. BucketTypeOK'
    BY <1>a, <2>1, <2>3 DEF BucketTypeOK
  <2> QED  BY <2>1, <2>3, <2>4, <2>5, <2>6 DEF BucketInv
<1>9. CASE UNCHANGED bucketVars
  BY <1>a, <1>9 DEF bucketVars, senderVars, BucketInv, BucketTypeOK
<1> QED  BY <1>1, <1>2, <1>3, <1>4, <1>5, <1>6, <1>7, <1>8, <1>9 DEF BucketNext

LEMMA BucketKept == BucketSpec => []BucketInv
BY BucketStart, BucketStays, PTL DEF BucketSpec

\* Types of all variables of the token bucket.
THEOREM BucketTypeStays == BucketSpec => []BucketTypeOK
<1>1. BucketInv => BucketTypeOK
  BY DEF BucketInv
<1> QED  BY <1>1, BucketKept, PTL

(***************************************************************************)
(* The throttle of SPEC 8, for every rate, burst, budget and number of      *)
(* transactions: no window of time sees more committed sends than a burst   *)
(* and what refills meanwhile, and one message more in the first window.    *)
(***************************************************************************)
THEOREM ThrottleStays == BucketSpec => []ThrottleHolds
<1>1. BucketInv => ThrottleHolds
  BY DEF BucketInv, Answers, Keeps, Given, Bound, FirstOf, ThrottleHolds, GrantsWithin, FirstEver
<1> QED  BY <1>1, BucketKept, PTL

-----------------------------------------------------------------------------
(* Filters.                                                                *)

TwoValued == {"true", "false"}

\* q is the truth value of b.
Says(q, b) == q \in TwoValued /\ (q = "true" <=> b)

\* Days have no negation.
LEMMA PositiveOps ==
    \A op \in {"before", "after", "on"} : PositiveOf(op) = op
BY DEF PositiveOf, Negation

\* A negation takes the rest of the workspace.
LEMMA SignedSays ==
    ASSUME NEW q, NEW yes, NEW rule, NEW c \in Contact, Says(q, c \in yes)
    PROVE  Says(Signed(q, rule), c \in IF PositiveOf(rule.op) = rule.op THEN yes ELSE Contact \ yes)
<1>1. CASE PositiveOf(rule.op) = rule.op
  BY <1>1 DEF Says, Signed
<1>2. CASE PositiveOf(rule.op) # rule.op
  BY <1>2 DEF Says, Signed, NotQ, TwoValued
<1> QED  BY <1>1, <1>2

\* A day of the calendar, told by its first moment and by its name.
LEMMA DaysAreMoments ==
    ASSUME NEW m, IsMoment(m), NEW day, IsDay(day), NEW op \in {"before", "after", "on"}
    PROVE  InDay(op, m, day) <=> Ordered(op, DayOf(m), day)
<1> DEFINE d == DayOf(m)
<1>1. d \in DOMAIN Dawn /\ d + 1 \in DOMAIN Dawn /\ Dawn[d] <= m /\ m < Dawn[d + 1]
  BY DEF IsMoment, IsDay, DayOf
<1>2. day \in DOMAIN Dawn /\ day + 1 \in DOMAIN Dawn
  BY DEF IsDay
<1> HIDE DEF d
<1>3. d \in Int /\ day \in Int /\ m \in Int
  BY <1>1, <1>2, FilterAssumption DEF DaysInOrder, IsMoment
<1>4. \A x, y \in DOMAIN Dawn : x <= y => Dawn[x] <= Dawn[y] /\ Dawn[x] \in Int /\ Dawn[y] \in Int
  BY FilterAssumption DEF DaysInOrder
<1>5. m < Dawn[day] <=> d < day
  <2>1. ASSUME d < day PROVE m < Dawn[day]
    <3>1. d + 1 <= day
      BY <1>3, <2>1
    <3> QED  BY <1>1, <1>2, <1>3, <1>4, <3>1
  <2>2. ASSUME ~(d < day) PROVE ~(m < Dawn[day])
    <3>1. day <= d
      BY <1>3, <2>2
    <3> QED  BY <1>1, <1>2, <1>3, <1>4, <3>1
  <2> QED  BY <2>1, <2>2
<1>6. m >= Dawn[day + 1] <=> d > day
  <2>1. ASSUME d > day PROVE m >= Dawn[day + 1]
    <3>1. day + 1 <= d
      BY <1>3, <2>1
    <3> QED  BY <1>1, <1>2, <1>3, <1>4, <3>1
  <2>2. ASSUME ~(d > day) PROVE ~(m >= Dawn[day + 1])
    <3>1. d + 1 <= day + 1
      BY <1>3, <2>2
    <3>2. Dawn[d + 1] <= Dawn[day + 1] /\ Dawn[d + 1] \in Int /\ Dawn[day + 1] \in Int
      BY <1>1, <1>2, <1>4, <3>1
    <3> QED  BY <1>1, <1>3, <3>2
  <2> QED  BY <2>1, <2>2
<1>7. Dawn[day] \in Int /\ Dawn[day + 1] \in Int
  BY <1>2, <1>4, <1>3
<1>8. (Dawn[day] <= m /\ m < Dawn[day + 1]) <=> d = day
  BY <1>3, <1>5, <1>6, <1>7
<1>9. InDay(op, m, day) <=> Ordered(op, d, day)
  BY <1>5, <1>6, <1>8 DEF InDay, Ordered, DayEnd
<1> QED  BY <1>9 DEF d

\* What a cell that has a value is asked, in SQL and in words.
LEMMA ValueSays ==
    ASSUME NEW cell, cell # NoValue, NEW type \in DOMAIN OpsByType, NEW op, NEW value,
           type = "datetime" => /\ op \in {"before", "after", "on"}
                                /\ IsMoment(cell.moment) /\ IsDay(ResolveDay(value, now))
    PROVE  Says(PositiveQ(cell, type, op, value), Asks(cell, type, op, value))
<1>1. type \in {"text", "number", "date", "datetime", "boolean"}
  BY DEF OpsByType
<1>2. CASE op = "has_value"
  BY <1>1, <1>2 DEF Says, TwoValued, PositiveQ, PopulatedQ, Holds, Asks
<1>3. CASE op # "has_value"
  <2>0. PositiveQ(cell, type, op, value) = ValueQ(cell, type, op, value)
    BY <1>3 DEF PositiveQ
  <2>1. CASE type = "datetime"
    <3>1. InDay(op, cell.moment, ResolveDay(value, now))
            <=> Ordered(op, DayOf(cell.moment), ResolveDay(value, now))
      BY <2>1, DaysAreMoments
    <3> QED  BY <1>3, <2>0, <2>1, <3>1 DEF Says, TwoValued, ValueQ, Holds, Asks
  <2>2. CASE type = "text"
    BY <1>3, <2>0, <2>2 DEF Says, TwoValued, ValueQ, Holds, Asks
  <2>3. CASE type = "number"
    BY <1>3, <2>0, <2>3 DEF Says, TwoValued, ValueQ, Holds, Asks
  <2>4. CASE type = "date"
    BY <1>3, <2>0, <2>4 DEF Says, TwoValued, ValueQ, Holds, Asks
  <2>5. CASE type = "boolean"
    BY <1>3, <2>0, <2>5 DEF Says, TwoValued, ValueQ, Holds, Asks
  <2> QED  BY <1>1, <2>1, <2>2, <2>3, <2>4, <2>5
<1> QED  BY <1>2, <1>3

\* What the ops of a rule over a field can be.
LEMMA DayRules ==
    ASSUME NEW rule, Legal(rule), rule.source \notin DOMAIN OpsBySource, TypeOf(rule) = "datetime"
    PROVE  rule.op \in {"before", "after", "on"} /\ PositiveOf(rule.op) = rule.op
<1>1. rule.op \in OpsByType["datetime"]
  BY DEF Legal
<1>2. rule.op \in {"before", "after", "on"}
  BY <1>1 DEF OpsByType
<1> QED  BY <1>2, PositiveOps

\* A rule over a custom field: no row means no value.
LEMMA CustomFieldSays ==
    ASSUME NEW rule, Legal(rule), Formed(rule), rule.source = "custom_field",
           NEW c \in Contact, now \in Now0..LastNow
    PROVE  Says(CustomFieldQ(c, rule),
                c \in IF PositiveOf(rule.op) = rule.op
                      THEN {d \in Contact :
                              Asks(d.fields[rule.key], TypeOf(rule), PositiveOf(rule.op), rule.value)}
                      ELSE Contact \ {d \in Contact :
                                         Asks(d.fields[rule.key], TypeOf(rule), PositiveOf(rule.op), rule.value)})
<1> DEFINE cell == c.fields[rule.key]
           op == PositiveOf(rule.op)
           type == TypeOf(rule)
           rows == IF cell = NoValue THEN {} ELSE {cell}
           q == Exists({PositiveQ(row, type, op, rule.value) : row \in rows})
           yes == {d \in Contact : Asks(d.fields[rule.key], type, op, rule.value)}
<1>1. rule.key \in DOMAIN FieldType /\ type = FieldType[rule.key] /\ type \in DOMAIN OpsByType
      /\ rule.source \notin DOMAIN OpsBySource
  BY FormAssumption DEF AllFormed, Formed, TypeOf, OpsBySource
<1>2. CASE cell = NoValue
  <2>1. ~Asks(cell, type, op, rule.value)
    BY <1>2 DEF Asks
  <2>2. q = "false"
    BY <1>2 DEF Exists, Holds
  <2>3. Says(q, c \in yes)
    BY <2>1, <2>2 DEF Says, TwoValued
  <2> HIDE DEF q, yes
  <2>4. Says(Signed(q, rule), c \in IF PositiveOf(rule.op) = rule.op THEN yes ELSE Contact \ yes)
    BY <2>3, SignedSays
  <2>5. CustomFieldQ(c, rule) = Signed(q, rule)
    BY DEF CustomFieldQ, q
  <2> QED  BY <2>4, <2>5 DEF yes
<1>3. CASE cell # NoValue
  <2>1. type = "datetime" => /\ op \in {"before", "after", "on"}
                             /\ IsMoment(cell.moment) /\ IsDay(ResolveDay(rule.value, now))
    BY <1>1, <1>3, DayRules, FormAssumption DEF AllFormed, Formed
  <2>2. Says(PositiveQ(cell, type, op, rule.value), Asks(cell, type, op, rule.value))
    <3> HIDE DEF cell, op, type
    <3> QED  BY <1>1, <1>3, <2>1, ValueSays
  <2>3. q = Holds(PositiveQ(cell, type, op, rule.value) = "true")
    <3> DEFINE p == PositiveQ(cell, type, op, rule.value)
    <3>1. {PositiveQ(row, type, op, rule.value) : row \in rows} = {p}
      BY <1>3
    <3> QED  BY <3>1 DEF Exists
  <2>4. c \in yes <=> Asks(cell, type, op, rule.value)
    OBVIOUS
  <2>5. Says(q, c \in yes)
    <3> HIDE DEF q, yes, cell, op, type
    <3> QED  BY <2>2, <2>3, <2>4 DEF Says, TwoValued, Holds
  <2>6. CustomFieldQ(c, rule) = Signed(q, rule)
    BY DEF CustomFieldQ
  <2> HIDE DEF q, yes
  <2>7. Says(Signed(q, rule), c \in IF PositiveOf(rule.op) = rule.op THEN yes ELSE Contact \ yes)
    BY <2>5, SignedSays
  <2> QED  BY <2>6, <2>7 DEF yes
<1> QED  BY <1>2, <1>3

\* A rule over a column of the contact, with NULL or without.
LEMMA SystemFieldSays ==
    ASSUME NEW rule, Legal(rule), Formed(rule), rule.source = "system_field",
           NEW c \in Contact, now \in Now0..LastNow
    PROVE  Says(SystemFieldQ(c, rule),
                c \in IF PositiveOf(rule.op) = rule.op
                      THEN {d \in Contact :
                              Asks(d[rule.key], TypeOf(rule), PositiveOf(rule.op), rule.value)}
                      ELSE Contact \ {d \in Contact :
                                         Asks(d[rule.key], TypeOf(rule), PositiveOf(rule.op), rule.value)})
<1> DEFINE cell == c[rule.key]
           op == PositiveOf(rule.op)
           type == TypeOf(rule)
           p == PositiveQ(cell, type, op, rule.value)
           q == IF rule.key = "last_interaction_at" THEN Definite(p, cell) ELSE p
           yes == {d \in Contact : Asks(d[rule.key], type, op, rule.value)}
<1>1. rule.source \notin DOMAIN OpsBySource
  BY DEF OpsBySource
<1>2. \/ rule.key = "first_name" /\ type = "text"
      \/ rule.key = "last_interaction_at" /\ type = "datetime"
  BY DEF Formed, TypeOf, SystemType
<1>3. type \in DOMAIN OpsByType
  BY <1>2 DEF OpsByType
<1>4. ASSUME cell = NoValue PROVE Says(q, Asks(cell, type, op, rule.value))
  <2>1. rule.key = "last_interaction_at" /\ type = "datetime"
    BY <1>2, <1>4, FormAssumption DEF AllFormed
  <2>2. op # "has_value"
    BY <1>1, <2>1, DayRules
  <2>3. p = "null"
    BY <1>4, <2>2 DEF PositiveQ, ValueQ
  <2>4. q = "false"
    BY <1>4, <2>1, <2>3 DEF Definite, AndQ, Holds
  <2>5. ~Asks(cell, type, op, rule.value)
    BY <1>4 DEF Asks
  <2> QED  BY <2>4, <2>5 DEF Says, TwoValued
<1>5. ASSUME cell # NoValue PROVE Says(q, Asks(cell, type, op, rule.value))
  <2>1. type = "datetime" => /\ op \in {"before", "after", "on"}
                             /\ IsMoment(cell.moment) /\ IsDay(ResolveDay(rule.value, now))
    BY <1>1, <1>2, <1>5, DayRules, FormAssumption DEF AllFormed, Formed
  <2>2. Says(p, Asks(cell, type, op, rule.value))
    <3> HIDE DEF cell, op, type
    <3> QED  BY <1>3, <1>5, <2>1, ValueSays
  <2>3. q = p
    <3> HIDE DEF p, cell
    <3> QED  BY <1>5, <2>2 DEF Definite, AndQ, Holds, Says, TwoValued
  <2> QED  BY <2>2, <2>3
<1>6. Says(q, c \in yes)
  <2>1. Says(q, Asks(cell, type, op, rule.value))
    BY <1>4, <1>5
  <2>2. c \in yes <=> Asks(cell, type, op, rule.value)
    OBVIOUS
  <2> HIDE DEF q, cell, op, type, yes
  <2> QED  BY <2>1, <2>2 DEF Says
<1>7. SystemFieldQ(c, rule) = Signed(q, rule)
  BY DEF SystemFieldQ
<1> HIDE DEF q, yes
<1>8. Says(Signed(q, rule), c \in IF PositiveOf(rule.op) = rule.op THEN yes ELSE Contact \ yes)
  BY <1>6, SignedSays
<1> QED  BY <1>7, <1>8 DEF yes

\* A platform's identity that can be reached, and the query for it.
LEMMA WindowSays ==
    ASSUME NEW rule, NEW c \in Contact
    PROVE  Says(WindowQ(c, rule),
                c \in IF PositiveOf(rule.op) = rule.op
                      THEN {d \in Contact : \E i \in d.identities : Reachable(i, rule.key)}
                      ELSE Contact \ {d \in Contact : \E i \in d.identities : Reachable(i, rule.key)})
<1> DEFINE open(i) == IF i.until = NoValue THEN "null" ELSE Holds(i.until.moment > now)
           one(i) == IF rule.key \in HasWindow THEN open(i) ELSE "true"
           rows == {i \in c.identities : i.platform = rule.key /\ i.opt_in /\ ~i.out}
           q == Exists({one(i) : i \in rows})
           yes == {d \in Contact : \E i \in d.identities : Reachable(i, rule.key)}
<1>1. ASSUME NEW i \in c.identities PROVE Reachable(i, rule.key) <=> i \in rows /\ one(i) = "true"
  BY DEF Reachable, Holds
<1>2. q = "true" <=> \E i \in rows : one(i) = "true"
  <2> HIDE DEF one, rows
  <2> QED  BY DEF Exists, Holds
<1>3. q \in TwoValued
  BY DEF Exists, Holds, TwoValued
<1>4. c \in yes <=> \E i \in rows : one(i) = "true"
  <2>1. c \in yes <=> \E i \in c.identities : Reachable(i, rule.key)
    OBVIOUS
  <2>2. rows \subseteq c.identities
    OBVIOUS
  <2> HIDE DEF one, rows, yes
  <2> QED  BY <1>1, <2>1, <2>2
<1>5. Says(q, c \in yes)
  <2> HIDE DEF q, yes, one, rows
  <2> QED  BY <1>2, <1>3, <1>4 DEF Says
<1>6. WindowQ(c, rule) = Signed(q, rule)
  BY DEF WindowQ
<1> HIDE DEF q, yes
<1>7. Says(Signed(q, rule), c \in IF PositiveOf(rule.op) = rule.op THEN yes ELSE Contact \ yes)
  BY <1>5, SignedSays
<1> QED  BY <1>6, <1>7 DEF yes

-----------------------------------------------------------------------------
\* qs answers for the segment a rule refers to as sets do.
Agree(qs, sets, rule, c) ==
    rule.source = "segment" => Says(qs[rule.key], c \in sets[rule.key])

\* Every rule, and every group of rules.
LEMMA RuleSays ==
    ASSUME NEW rule, Legal(rule), Formed(rule), NEW c \in Contact, now \in Now0..LastNow,
           NEW qs, NEW sets, Agree(qs, sets, rule, c)
    PROVE  Says(RuleQ(c, rule, qs), c \in Matching(rule, sets))
<1>1. rule.source \in {"tag", "segment", "sequence", "window", "custom_field", "system_field"}
  BY DEF Formed, OpsBySource
<1>2. CASE rule.source = "tag"
  <2> DEFINE yes == {d \in Contact : rule.key \in d.tags}
  <2>1. RuleQ(c, rule, qs) = Signed(Holds(rule.key \in c.tags), rule)
    BY <1>2 DEF RuleQ, TagQ
  <2>2. Matching(rule, sets) = IF PositiveOf(rule.op) = rule.op THEN yes ELSE Contact \ yes
    BY <1>2 DEF Matching
  <2>3. Says(Holds(rule.key \in c.tags), c \in yes)
    BY DEF Says, TwoValued, Holds
  <2> HIDE DEF yes
  <2> QED  BY <2>1, <2>2, <2>3, SignedSays
<1>3. CASE rule.source = "sequence"
  <2> DEFINE yes == {d \in Contact : <<rule.key, "active">> \in d.enrollments}
  <2>1. RuleQ(c, rule, qs) = Signed(Holds(<<rule.key, "active">> \in c.enrollments), rule)
    BY <1>3 DEF RuleQ, SequenceQ
  <2>2. Matching(rule, sets) = IF PositiveOf(rule.op) = rule.op THEN yes ELSE Contact \ yes
    BY <1>3 DEF Matching
  <2>3. Says(Holds(<<rule.key, "active">> \in c.enrollments), c \in yes)
    BY DEF Says, TwoValued, Holds
  <2> HIDE DEF yes
  <2> QED  BY <2>1, <2>2, <2>3, SignedSays
<1>4. CASE rule.source = "segment"
  <2>1. RuleQ(c, rule, qs) = Signed(qs[rule.key], rule)
    BY <1>4 DEF RuleQ
  <2>2. Matching(rule, sets) =
          IF PositiveOf(rule.op) = rule.op THEN sets[rule.key] ELSE Contact \ sets[rule.key]
    BY <1>4 DEF Matching
  <2>3. Says(qs[rule.key], c \in sets[rule.key])
    BY <1>4 DEF Agree
  <2> QED  BY <2>1, <2>2, <2>3, SignedSays
<1>5. CASE rule.source = "window"
  BY <1>5, WindowSays DEF RuleQ, Matching
<1>6. CASE rule.source = "custom_field"
  BY <1>6, CustomFieldSays DEF RuleQ, Matching
<1>7. CASE rule.source = "system_field"
  BY <1>7, SystemFieldSays DEF RuleQ, Matching
<1> QED  BY <1>1, <1>2, <1>3, <1>4, <1>5, <1>6, <1>7

LEMMA GroupSays ==
    ASSUME NEW group, group.match \in {"all", "any"}, \A r \in group.rules : Legal(r) /\ Formed(r),
           NEW c \in Contact, now \in Now0..LastNow,
           NEW qs, NEW sets, \A r \in group.rules : Agree(qs, sets, r, c)
    PROVE  Says(GroupQ(group, c, qs), c \in Meet(group, sets))
<1>1. \A r \in group.rules : Says(RuleQ(c, r, qs), c \in Matching(r, sets))
  BY RuleSays
<1> DEFINE each == {RuleQ(c, r, qs) : r \in group.rules}
<1>2. each \subseteq TwoValued
  BY <1>1 DEF Says
<1>3. CASE group.match = "all"
  <2>1. GroupQ(group, c, qs) = AndQ(each)
    BY <1>3 DEF GroupQ
  <2>2. c \in Meet(group, sets) <=> \A r \in group.rules : c \in Matching(r, sets)
    BY <1>3 DEF Meet
  <2>3. "false" \notin each <=> \A r \in group.rules : c \in Matching(r, sets)
    BY <1>1 DEF Says, TwoValued
  <2> HIDE DEF each
  <2>4. AndQ(each) = IF "false" \in each THEN "false" ELSE "true"
    BY <1>2 DEF AndQ, TwoValued
  <2> QED  BY <2>1, <2>2, <2>3, <2>4 DEF Says, TwoValued
<1>4. CASE group.match # "all"
  <2>1. GroupQ(group, c, qs) = OrQ(each)
    BY <1>4 DEF GroupQ
  <2>2. c \in Meet(group, sets) <=> \E r \in group.rules : c \in Matching(r, sets)
    BY <1>4 DEF Meet
  <2>3. "true" \in each <=> \E r \in group.rules : c \in Matching(r, sets)
    BY <1>1 DEF Says, TwoValued
  <2> HIDE DEF each
  <2>4. OrQ(each) = IF "true" \in each THEN "true" ELSE "false"
    BY <1>2 DEF OrQ, TwoValued
  <2> QED  BY <2>1, <2>2, <2>3, <2>4 DEF Says, TwoValued
<1> QED  BY <1>3, <1>4

-----------------------------------------------------------------------------
\* A recursive function of the depth, up to a bound, for the predicates.
LEMMA SegmentQsAre ==
    ASSUME NEW segs, NEW c, NEW d \in 1..MaxSegmentDepth, NEW s \in DOMAIN segs
    PROVE  SegmentQs(segs, c)[d][s] = GroupQ(segs[s], c, SegmentQs(segs, c)[d - 1])
<1> DEFINE Next(f, m) == IF m = 0 THEN <<>> ELSE [t \in DOMAIN segs |-> GroupQ(segs[t], c, f[m - 1])]
           Runs(f, m) == f = [n \in 0..m |-> Next(f, n)]
           S == {m \in Nat : \E f : Runs(f, m)}
<1>1. 0 \in S
  <2> DEFINE f == [n \in 0..0 |-> <<>>]
  <2>1. Runs(f, 0)
    OBVIOUS
  <2> QED  BY <2>1
<1>2. ASSUME NEW m \in S PROVE m + 1 \in S
  <2>1. PICK f : Runs(f, m)
    OBVIOUS
  <2> DEFINE g == [n \in 0..(m + 1) |-> IF n = m + 1 THEN Next(f, m + 1) ELSE f[n]]
  <2>2. ASSUME NEW n \in 0..(m + 1) PROVE g[n] = Next(g, n)
    <3>1. n = m + 1 \/ n \in 0..m
      OBVIOUS
    <3>2. CASE n = 0
      BY <2>1, <3>2
    <3>3. CASE n # 0
      <4>1. g[n - 1] = f[n - 1] /\ n - 1 \in 0..m
        BY <3>3
      <4>2. Next(g, n) = Next(f, n)
        <5> HIDE DEF g
        <5> QED  BY <3>3, <4>1
      <4>3. g[n] = Next(f, n)
        <5> HIDE DEF Next
        <5>1. CASE n = m + 1
          BY <5>1
        <5>2. CASE n \in 0..m
          BY <2>1, <5>2
        <5> QED  BY <3>1, <5>1, <5>2
      <4> QED  BY <4>2, <4>3
    <3> QED  BY <3>2, <3>3
  <2>3. Runs(g, m + 1)
    <3>1. g = [n \in 0..(m + 1) |-> g[n]]
      OBVIOUS
    <3> HIDE DEF g, Next
    <3> QED  BY <2>2, <3>1
  <2>4. \E h : Runs(h, m + 1)
    <3> HIDE DEF g, Runs
    <3> QED  BY <2>3
  <2> QED  BY <2>4
<1>3. S = Nat
  <2>1. S \in SUBSET Nat
    OBVIOUS
  <2> HIDE DEF S
  <2> QED  BY <1>1, <1>2, <2>1, SetInduction
<1>4. MaxSegmentDepth \in S /\ MaxSegmentDepth \in Nat
  BY <1>3, FilterAssumption
<1>5. PICK f : Runs(f, MaxSegmentDepth)
  BY <1>4
<1> DEFINE q == SegmentQs(segs, c)
<1>6. Runs(q, MaxSegmentDepth)
  BY <1>5 DEF SegmentQs
<1> HIDE DEF q
<1>7. q[d] = Next(q, d)
  <2>1. d \in 0..MaxSegmentDepth
    BY <1>4
  <2> HIDE DEF Next
  <2> QED  BY <1>6, <2>1
<1>8. q[d][s] = GroupQ(segs[s], c, q[d - 1])
  BY <1>7
<1> QED  BY <1>8 DEF q

\* And for the sets.
LEMMA SegmentSetsAre ==
    ASSUME NEW segs, NEW d \in 1..MaxSegmentDepth, NEW s \in DOMAIN segs
    PROVE  SegmentSets(segs)[d][s] = Meet(segs[s], SegmentSets(segs)[d - 1])
<1> DEFINE Next(f, m) == IF m = 0 THEN <<>> ELSE [t \in DOMAIN segs |-> Meet(segs[t], f[m - 1])]
           Runs(f, m) == f = [n \in 0..m |-> Next(f, n)]
           S == {m \in Nat : \E f : Runs(f, m)}
<1>1. 0 \in S
  <2> DEFINE f == [n \in 0..0 |-> <<>>]
  <2>1. Runs(f, 0)
    OBVIOUS
  <2> QED  BY <2>1
<1>2. ASSUME NEW m \in S PROVE m + 1 \in S
  <2>1. PICK f : Runs(f, m)
    OBVIOUS
  <2> DEFINE g == [n \in 0..(m + 1) |-> IF n = m + 1 THEN Next(f, m + 1) ELSE f[n]]
  <2>2. ASSUME NEW n \in 0..(m + 1) PROVE g[n] = Next(g, n)
    <3>1. n = m + 1 \/ n \in 0..m
      OBVIOUS
    <3>2. CASE n = 0
      BY <2>1, <3>2
    <3>3. CASE n # 0
      <4>1. g[n - 1] = f[n - 1] /\ n - 1 \in 0..m
        BY <3>3
      <4>2. Next(g, n) = Next(f, n)
        <5> HIDE DEF g
        <5> QED  BY <3>3, <4>1
      <4>3. g[n] = Next(f, n)
        <5> HIDE DEF Next
        <5>1. CASE n = m + 1
          BY <5>1
        <5>2. CASE n \in 0..m
          BY <2>1, <5>2
        <5> QED  BY <3>1, <5>1, <5>2
      <4> QED  BY <4>2, <4>3
    <3> QED  BY <3>2, <3>3
  <2>3. Runs(g, m + 1)
    <3>1. g = [n \in 0..(m + 1) |-> g[n]]
      OBVIOUS
    <3> HIDE DEF g, Next
    <3> QED  BY <2>2, <3>1
  <2>4. \E h : Runs(h, m + 1)
    <3> HIDE DEF g, Runs
    <3> QED  BY <2>3
  <2> QED  BY <2>4
<1>3. S = Nat
  <2>1. S \in SUBSET Nat
    OBVIOUS
  <2> HIDE DEF S
  <2> QED  BY <1>1, <1>2, <2>1, SetInduction
<1>4. MaxSegmentDepth \in S /\ MaxSegmentDepth \in Nat
  BY <1>3, FilterAssumption
<1>5. PICK f : Runs(f, MaxSegmentDepth)
  BY <1>4
<1> DEFINE q == SegmentSets(segs)
<1>6. Runs(q, MaxSegmentDepth)
  BY <1>5 DEF SegmentSets
<1> HIDE DEF q
<1>7. q[d] = Next(q, d)
  <2>1. d \in 0..MaxSegmentDepth
    BY <1>4
  <2> HIDE DEF Next
  <2> QED  BY <1>6, <2>1
<1>8. q[d][s] = Meet(segs[s], q[d - 1])
  BY <1>7
<1> QED  BY <1>8 DEF q

\* The chains of references of each length, from a document.
FirstChains(document) == {<<s>> : s \in Refs(document)}
LongerChains(chains, segs, n) ==
    UNION {{Append(c, s) : s \in Refs(segs[c[n - 1]])} : c \in {c \in chains : c[n - 1] \in DOMAIN segs}}

\* They are what the recursion gives.
LEMMA ChainsAre ==
    ASSUME NEW document, NEW segs
    PROVE  \E of : /\ Chains(document, segs) = UNION {of[n] : n \in 1..(MaxSegmentDepth + 1)}
                   /\ of[1] = FirstChains(document)
                   /\ \A n \in 2..(MaxSegmentDepth + 1) : of[n] = LongerChains(of[n - 1], segs, n)
<1> DEFINE Next(f, m) == IF m = 1 THEN FirstChains(document) ELSE LongerChains(f[m - 1], segs, m)
           Runs(f, m) == f = [n \in 1..(m + 1) |-> Next(f, n)]
           S == {m \in Nat : \E f : Runs(f, m)}
<1>1. 0 \in S
  <2> DEFINE f == [n \in 1..(0 + 1) |-> FirstChains(document)]
  <2>1. Runs(f, 0)
    <3>1. \A n \in 1..(0 + 1) : n = 1
      OBVIOUS
    <3> QED  BY <3>1
  <2> QED  BY <2>1
<1>2. ASSUME NEW m \in S PROVE m + 1 \in S
  <2>1. PICK f : Runs(f, m)
    OBVIOUS
  <2> DEFINE g == [n \in 1..((m + 1) + 1) |-> IF n = (m + 1) + 1 THEN Next(f, (m + 1) + 1) ELSE f[n]]
  <2>2. ASSUME NEW n \in 1..((m + 1) + 1) PROVE g[n] = Next(g, n)
    <3>1. n = (m + 1) + 1 \/ n \in 1..(m + 1)
      OBVIOUS
    <3>2. CASE n = 1
      BY <2>1, <3>2
    <3>3. CASE n # 1
      <4>1. g[n - 1] = f[n - 1] /\ n - 1 \in 1..(m + 1)
        BY <3>3
      <4>2. Next(g, n) = Next(f, n)
        <5> HIDE DEF g
        <5> QED  BY <3>3, <4>1
      <4>3. g[n] = Next(f, n)
        <5> HIDE DEF Next
        <5>1. CASE n = (m + 1) + 1
          BY <5>1
        <5>2. CASE n \in 1..(m + 1)
          BY <2>1, <5>2
        <5> QED  BY <3>1, <5>1, <5>2
      <4> QED  BY <4>2, <4>3
    <3> QED  BY <3>2, <3>3
  <2>3. Runs(g, m + 1)
    <3>1. g = [n \in 1..((m + 1) + 1) |-> g[n]]
      OBVIOUS
    <3> HIDE DEF g, Next
    <3> QED  BY <2>2, <3>1
  <2>4. \E h : Runs(h, m + 1)
    <3> HIDE DEF g, Runs
    <3> QED  BY <2>3
  <2> QED  BY <2>4
<1>3. S = Nat
  <2>1. S \in SUBSET Nat
    OBVIOUS
  <2> HIDE DEF S
  <2> QED  BY <1>1, <1>2, <2>1, SetInduction
<1>4. MaxSegmentDepth \in S /\ MaxSegmentDepth \in Nat
  BY <1>3, FilterAssumption
<1>5. PICK f : Runs(f, MaxSegmentDepth)
  BY <1>4
<1> DEFINE of == CHOOSE h : Runs(h, MaxSegmentDepth)
<1>6. Runs(of, MaxSegmentDepth)
  <2> HIDE DEF Runs
  <2> QED  BY <1>5
<1>7. Chains(document, segs) = UNION {of[n] : n \in DOMAIN of}
  BY DEF Chains, FirstChains, LongerChains
<1> HIDE DEF of
<1>8. of[1] = FirstChains(document)
  BY <1>4, <1>6
<1>9. ASSUME NEW n \in 2..(MaxSegmentDepth + 1) PROVE of[n] = LongerChains(of[n - 1], segs, n)
  <2>1. n \in 1..(MaxSegmentDepth + 1) /\ n # 1
    BY <1>4
  <2>2. of[n] = Next(of, n)
    <3> HIDE DEF Next
    <3> QED  BY <1>6, <2>1
  <2> QED  BY <2>1, <2>2
<1>10. DOMAIN of = 1..(MaxSegmentDepth + 1)
  <2> HIDE DEF Next
  <2> QED  BY <1>6
<1> QED  BY <1>7, <1>8, <1>9, <1>10

-----------------------------------------------------------------------------
\* Filters that validation has accepted.
Validated(document, segs) ==
    /\ document \in FilterDocument
    /\ segs \in [DOMAIN segs -> SegmentDocument]
    /\ Valid(document, segs, {})

\* Chains have the length of their number, and one reference follows another.
Grows(of, document, segs) ==
    /\ \A n \in 1..(MaxSegmentDepth + 1) : of[n] \subseteq Chains(document, segs)
    /\ \A s \in Refs(document) : <<s>> \in of[1]
    /\ \A n \in 1..MaxSegmentDepth : \A c \in of[n] :
          c[n] \in DOMAIN segs => \A s \in Refs(segs[c[n]]) :
             Append(c, s) \in of[n + 1] /\ Append(c, s)[n + 1] = s
    /\ \A n \in 1..(MaxSegmentDepth + 1) : \A c \in of[n] : Len(c) = n /\ n \in DOMAIN c

LEMMA ChainsGrow ==
    ASSUME NEW document, NEW segs
    PROVE  \E of : Grows(of, document, segs)
<1> DEFINE K == Refs(document) \cup UNION {Refs(segs[s]) : s \in DOMAIN segs}
           Depth == MaxSegmentDepth
<1>0. Depth \in Nat
  BY FilterAssumption
<1>1. PICK of : /\ Chains(document, segs) = UNION {of[n] : n \in 1..(Depth + 1)}
                /\ of[1] = FirstChains(document)
                /\ \A n \in 2..(Depth + 1) : of[n] = LongerChains(of[n - 1], segs, n)
  BY ChainsAre
<1> DEFINE Long(n) == \A c \in of[n] : c \in Seq(K) /\ Len(c) = n
           S == {m \in Nat : m > Depth \/ Long(m + 1)}
<1> HIDE DEF Depth
<1>2. 0 \in S
  <2>1. ASSUME NEW s \in Refs(document) PROVE <<s>> \in Seq(K) /\ Len(<<s>>) = 1
    <3>1. s \in K
      OBVIOUS
    <3> HIDE DEF K
    <3> QED  BY <3>1
  <2>2. Long(1)
    <3> HIDE DEF K
    <3> QED  BY <1>1, <2>1 DEF FirstChains
  <2>3. 0 + 1 = 1 /\ 0 \in Nat
    OBVIOUS
  <2> HIDE DEF Long
  <2> QED  BY <2>2, <2>3
<1>3. ASSUME NEW m \in S PROVE m + 1 \in S
  <2>1. m \in Nat
    OBVIOUS
  <2>2. CASE m >= Depth
    BY <2>1, <2>2, <1>0
  <2>3. CASE m < Depth
    <3>1. Long(m + 1)
      BY <2>1, <2>3, <1>0
    <3>2. of[m + 2] = LongerChains(of[m + 1], segs, m + 2)
      BY <1>0, <1>1, <2>1, <2>3
    <3>3. ASSUME NEW c \in of[m + 2] PROVE c \in Seq(K) /\ Len(c) = m + 2
      <4>1. PICK b \in of[m + 1], s \in K : c = Append(b, s)
        <5>1. (m + 2) - 1 = m + 1
          BY <2>1
        <5> QED  BY <3>2, <5>1 DEF LongerChains
      <4>2. b \in Seq(K) /\ Len(b) = m + 1
        BY <3>1
      <4> HIDE DEF K
      <4> QED  BY <2>1, <4>1, <4>2
    <3>4. Long(m + 2)
      BY <3>3
    <3>5. (m + 1) + 1 = m + 2
      BY <2>1
    <3> HIDE DEF Long
    <3> QED  BY <2>1, <3>4, <3>5
  <2> QED  BY <1>0, <2>1, <2>2, <2>3
<1>4. S = Nat
  <2>1. S \in SUBSET Nat
    OBVIOUS
  <2> HIDE DEF S
  <2> QED  BY <1>2, <1>3, <2>1, SetInduction
<1>5. ASSUME NEW n \in 1..(Depth + 1) PROVE Long(n)
  <2>1. n - 1 \in Nat /\ ~(n - 1 > Depth) /\ (n - 1) + 1 = n
    BY <1>0
  <2>2. n - 1 \in S
    <3> HIDE DEF S
    <3> QED  BY <1>4, <2>1
  <2> HIDE DEF Long
  <2> QED  BY <2>1, <2>2
<1>6. \A n \in 1..(Depth + 1) : of[n] \subseteq Chains(document, segs)
  BY <1>1
<1>7. \A s \in Refs(document) : <<s>> \in of[1]
  BY <1>1 DEF FirstChains
<1>8. ASSUME NEW n \in 1..Depth, NEW c \in of[n], c[n] \in DOMAIN segs, NEW s \in Refs(segs[c[n]])
      PROVE  Append(c, s) \in of[n + 1] /\ Append(c, s)[n + 1] = s
  <2>1. n + 1 \in 2..(Depth + 1) /\ (n + 1) - 1 = n /\ n \in 1..(Depth + 1)
    BY <1>0
  <2>2. of[n + 1] = LongerChains(of[n], segs, n + 1)
    BY <1>1, <2>1
  <2>3. Append(c, s) \in of[n + 1]
    BY <1>8, <2>1, <2>2 DEF LongerChains
  <2>4. c \in Seq(K) /\ Len(c) = n /\ s \in K
    BY <1>5, <1>8, <2>1
  <2> HIDE DEF K
  <2> QED  BY <2>3, <2>4
<1>9. ASSUME NEW n \in 1..(Depth + 1), NEW c \in of[n] PROVE Len(c) = n /\ n \in DOMAIN c
  <2>1. c \in Seq(K) /\ Len(c) = n
    BY <1>5
  <2> HIDE DEF K
  <2> QED  BY <2>1
<1>10. Grows(of, document, segs)
  BY <1>6, <1>7, <1>8, <1>9 DEF Depth, Grows
<1> QED  BY <1>10

\* What validation says of a chain: it ends in a legal group, soon enough.
LEMMA ChainsEnd ==
    ASSUME NEW document, NEW segs, Validated(document, segs),
           NEW ch \in Chains(document, segs), NEW n, n = Len(ch), n \in DOMAIN ch
    PROVE  /\ n <= MaxSegmentDepth /\ ch[n] \in DOMAIN segs
           /\ segs[ch[n]].match \in {"all", "any"}
           /\ \A r \in segs[ch[n]].rules : Legal(r) /\ Formed(r)
<1> DEFINE chains == Chains(document, segs)
           groups == {document} \cup {segs[d[Len(d)]] : d \in chains}
<1>1. /\ \A d \in chains : {d[i] : i \in DOMAIN d} \subseteq DOMAIN segs /\ Len(d) <= MaxSegmentDepth
      /\ \A g \in groups : \A r \in g.rules : Legal(r)
  BY DEF Validated, Valid
<1>2. ch[n] \in DOMAIN segs /\ n <= MaxSegmentDepth /\ segs[ch[n]] \in groups
  BY <1>1
<1>3. segs[ch[n]] \in SegmentDocument
  BY <1>2 DEF Validated
<1> HIDE DEF groups
<1> QED  BY <1>1, <1>2, <1>3, FormAssumption DEF AllFormed

\* The compiled predicate of a validated filter is two-valued and says what the
\* filter means, of every contact, at every depth its references reach.
LEMMA CompiledSays ==
    ASSUME NEW document, NEW segs, Validated(document, segs),
           NEW c \in Contact, now \in Now0..LastNow
    PROVE  Says(GroupQ(document, c, SegmentQs(segs, c)[MaxSegmentDepth]),
                c \in Meet(document, SegmentSets(segs)[MaxSegmentDepth]))
<1> DEFINE Depth == MaxSegmentDepth
           Q == SegmentQs(segs, c)
           M == SegmentSets(segs)
<1>0. Depth \in Nat
  BY FilterAssumption
<1>a. PICK of : Grows(of, document, segs)
  BY ChainsGrow
<1>1. /\ \A n \in 1..(Depth + 1) : of[n] \subseteq Chains(document, segs)
      /\ \A s \in Refs(document) : <<s>> \in of[1]
      /\ \A n \in 1..(Depth + 1) : \A d \in of[n] : Len(d) = n /\ n \in DOMAIN d
  BY <1>a DEF Grows
<1>b. ASSUME NEW n \in 1..Depth, NEW d \in of[n], d[n] \in DOMAIN segs, NEW s \in Refs(segs[d[n]])
      PROVE  Append(d, s) \in of[n + 1] /\ Append(d, s)[n + 1] = s
  BY <1>a, <1>b DEF Grows
<1>2. ASSUME NEW n \in 1..(Depth + 1), NEW d \in of[n]
      PROVE  /\ n <= Depth /\ d[n] \in DOMAIN segs /\ segs[d[n]].match \in {"all", "any"}
             /\ \A r \in segs[d[n]].rules : Legal(r) /\ Formed(r)
  <2>1. d \in Chains(document, segs) /\ n = Len(d) /\ n \in DOMAIN d
    BY <1>1
  <2> QED  BY <2>1, ChainsEnd
<1>3. \A k \in 1..Depth, s \in DOMAIN segs :
         Q[k][s] = GroupQ(segs[s], c, Q[k - 1]) /\ M[k][s] = Meet(segs[s], M[k - 1])
  BY SegmentQsAre, SegmentSetsAre
<1> HIDE DEF Depth, Q, M
<1> DEFINE Speak(n) == \A d \in of[n] : Says(Q[Depth + 1 - n][d[n]], c \in M[Depth + 1 - n][d[n]])
           S == {m \in Nat : m > Depth \/ Speak(Depth + 1 - m)}
<1>4. 0 \in S
  <2>1. of[Depth + 1] = {}
    BY <1>0, <1>2
  <2>2. Speak(Depth + 1 - 0)
    BY <1>0, <2>1
  <2> QED  BY <2>2
<1>5. ASSUME NEW m \in S PROVE m + 1 \in S
  <2>1. m \in Nat
    OBVIOUS
  <2>2. CASE m >= Depth
    BY <2>1, <2>2, <1>0
  <2>3. CASE m < Depth
    <3> DEFINE n == Depth - m
    <3>1. n \in 1..Depth /\ n \in 1..(Depth + 1) /\ n + 1 = Depth + 1 - m /\ n = Depth + 1 - (m + 1)
          /\ Depth + 1 - n = m + 1 /\ Depth + 1 - (n + 1) = m /\ m + 1 \in 1..Depth /\ (m + 1) - 1 = m
      BY <2>1, <2>3, <1>0
    <3>2. Speak(n + 1)
      <4> HIDE DEF Speak, n
      <4> QED  BY <2>1, <2>3, <3>1, <1>0
    <3> HIDE DEF n
    <3>3. ASSUME NEW d \in of[n] PROVE Says(Q[m + 1][d[n]], c \in M[m + 1][d[n]])
      <4>1. /\ d[n] \in DOMAIN segs /\ segs[d[n]].match \in {"all", "any"}
            /\ \A r \in segs[d[n]].rules : Legal(r) /\ Formed(r)
        BY <1>2, <3>1
      <4>2. ASSUME NEW r \in segs[d[n]].rules PROVE Agree(Q[m], M[m], r, c)
        <5> SUFFICES ASSUME r.source = "segment" PROVE Says(Q[m][r.key], c \in M[m][r.key])
          BY DEF Agree
        <5>1. r.key \in Refs(segs[d[n]])
          BY DEF Refs
        <5>2. Append(d, r.key) \in of[n + 1] /\ Append(d, r.key)[n + 1] = r.key
          BY <1>b, <3>1, <4>1, <5>1
        <5>3. Says(Q[Depth + 1 - (n + 1)][Append(d, r.key)[n + 1]],
                   c \in M[Depth + 1 - (n + 1)][Append(d, r.key)[n + 1]])
          BY <3>2, <5>2
        <5> QED  BY <3>1, <5>2, <5>3
      <4>3. Says(GroupQ(segs[d[n]], c, Q[m]), c \in Meet(segs[d[n]], M[m]))
        BY <4>1, <4>2, GroupSays
      <4>4. Q[m + 1][d[n]] = GroupQ(segs[d[n]], c, Q[m]) /\ M[m + 1][d[n]] = Meet(segs[d[n]], M[m])
        BY <1>3, <3>1, <4>1
      <4> QED  BY <4>3, <4>4
    <3>4. Speak(n)
      BY <3>1, <3>3
    <3> HIDE DEF Speak
    <3> QED  BY <2>1, <3>1, <3>4
  <2> QED  BY <1>0, <2>1, <2>2, <2>3
<1>6. S = Nat
  <2>1. S \in SUBSET Nat
    OBVIOUS
  <2> HIDE DEF S
  <2> QED  BY <1>4, <1>5, <2>1, SetInduction
<1>7. Speak(1)
  <2>1. Depth \in S /\ ~(Depth > Depth) /\ Depth + 1 - Depth = 1
    BY <1>0, <1>6
  <2> HIDE DEF Speak
  <2> QED  BY <2>1
<1>8. ASSUME NEW r \in document.rules PROVE Agree(Q[Depth], M[Depth], r, c)
  <2> SUFFICES ASSUME r.source = "segment" PROVE Says(Q[Depth][r.key], c \in M[Depth][r.key])
    BY DEF Agree
  <2>1. r.key \in Refs(document)
    BY DEF Refs
  <2>2. <<r.key>> \in of[1] /\ <<r.key>>[1] = r.key
    BY <1>1, <2>1
  <2>3. Depth + 1 - 1 = Depth
    BY <1>0
  <2> QED  BY <1>7, <2>2, <2>3
<1>9. document.match \in {"all", "any"} /\ \A r \in document.rules : Legal(r) /\ Formed(r)
  BY FormAssumption DEF AllFormed, Validated, Valid
<1>10. Says(GroupQ(document, c, Q[Depth]), c \in Meet(document, M[Depth]))
  BY <1>8, <1>9, GroupSays
<1> QED  BY <1>10 DEF Depth, Q, M

-----------------------------------------------------------------------------

SavedRow == {<<>>} \cup UNION {[{s} -> SegmentDocument] : s \in Segment}

\* What is saved is well formed, and what is held has been validated.
FilterInv ==
    /\ now \in Now0..LastNow
    /\ segments \in [DOMAIN segments -> SegmentDocument] /\ DOMAIN segments \subseteq Segment
    /\ saving \in [Saver -> SavedRow]
    /\ held # <<>> => /\ held = <<[document |-> held[1].document, expansion |-> held[1].expansion]>>
                      /\ Validated(held[1].document, held[1].expansion)

\* The first state, and every step.
LEMMA FilterStart == FilterInit => FilterInv
<1> <<>> \in SavedRow
  BY DEF SavedRow
<1> QED  BY FilterAssumption DEF FilterInit, FilterInv

LEMMA FilterStays == FilterInv /\ [FilterNext]_filterVars => FilterInv'
<1> SUFFICES ASSUME FilterInv, [FilterNext]_filterVars PROVE FilterInv'
  OBVIOUS
<1>1. CASE TimePasses
  BY <1>1, FilterAssumption DEF TimePasses, FilterInv
<1>2. ASSUME NEW d \in FilterDocument, Validate(d) PROVE FilterInv'
  <2>1. held' = <<[document |-> d, expansion |-> segments]>> /\ UNCHANGED <<now, segments, saving>>
        /\ Valid(d, segments, {})
    BY <1>2 DEF Validate
  <2>2. held'[1] = [document |-> d, expansion |-> segments]
    BY <2>1
  <2>3. Validated(d, segments)
    BY <2>1 DEF Validated, FilterInv
  <2> QED  BY <2>1, <2>2, <2>3 DEF FilterInv
<1>3. ASSUME NEW s \in Segment, DeleteSegment(s) PROVE FilterInv'
  BY <1>3 DEF DeleteSegment, FilterInv
<1>4. ASSUME NEW w \in Saver, WriteSave(w) PROVE FilterInv'
  <2>1. PICK s \in Segment : saving[w] \in [{s} -> SegmentDocument]
    <3>1. saving[w] \in SavedRow /\ saving[w] # <<>>
      BY <1>4 DEF WriteSave, FilterInv
    <3> QED  BY <3>1 DEF SavedRow
  <2>2. /\ segments' = [t \in {s} \cup DOMAIN segments |->
                         IF t \in {s} THEN saving[w][t] ELSE segments[t]]
        /\ saving' = [saving EXCEPT ![w] = <<>>] /\ UNCHANGED <<now, held>>
    BY <1>4, <2>1 DEF WriteSave
  <2>3. segments' \in [DOMAIN segments' -> SegmentDocument] /\ DOMAIN segments' \subseteq Segment
    BY <2>1, <2>2 DEF FilterInv
  <2>4. saving' \in [Saver -> SavedRow]
    BY <2>2 DEF FilterInv, SavedRow
  <2> QED  BY <2>2, <2>3, <2>4 DEF FilterInv
<1>5. ASSUME NEW w \in Saver, NEW s \in Segment, NEW d \in SegmentDocument, ValidateSave(w, s, d)
      PROVE  FilterInv'
  <2>1. [t \in {s} |-> d] \in SavedRow
    BY DEF SavedRow
  <2> QED  BY <1>5, <2>1 DEF ValidateSave, FilterInv
<1>6. CASE UNCHANGED filterVars
  BY <1>6 DEF filterVars, FilterInv
<1> QED  BY <1>1, <1>2, <1>3, <1>4, <1>5, <1>6 DEF FilterNext

(***************************************************************************)
(* A validated filter selects the active contacts it describes, whatever    *)
(* the workspace, its fields, calendar and segments and however deep they   *)
(* nest: every predicate it compiles to is two-valued, and no reference of  *)
(* its segments dangles or goes deeper than what is compiled.               *)
(***************************************************************************)
THEOREM FiltersStayTrue == FilterSpec => []FilterMeansWhatItSays
<1>1. FilterInv => FilterMeansWhatItSays
  <2> SUFFICES ASSUME FilterInv, held # <<>> PROVE QuerySet(held[1]) = Meaning(held[1])
    BY DEF FilterMeansWhatItSays
  <2> DEFINE document == held[1].document
             segs == held[1].expansion
  <2>1. Validated(document, segs) /\ now \in Now0..LastNow
    BY DEF FilterInv
  <2>2. ASSUME NEW c \in Contact PROVE CompileQ(held[1], c) = "true"
                <=> c \in Meet(document, SegmentSets(segs)[MaxSegmentDepth])
    <3> HIDE DEF document, segs
    <3>1. Says(GroupQ(document, c, SegmentQs(segs, c)[MaxSegmentDepth]),
                c \in Meet(document, SegmentSets(segs)[MaxSegmentDepth]))
      BY <2>1, CompiledSays
    <3> QED  BY <3>1 DEF Says, CompileQ, document, segs
  <2>3. Meet(document, SegmentSets(segs)[MaxSegmentDepth]) \subseteq Contact
    BY DEF Meet
  <2>4. Meaning(held[1]) = {c \in Meet(document, SegmentSets(segs)[MaxSegmentDepth]) : c.active}
    BY DEF Meaning
  <2> HIDE DEF document, segs
  <2> QED  BY <2>2, <2>3, <2>4 DEF QuerySet
<1> QED  BY <1>1, FilterStart, FilterStays, PTL DEF FilterSpec
=============================================================================

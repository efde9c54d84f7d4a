------------------------------ MODULE Cooldown ------------------------------
(***************************************************************************)
(* The guard that lets a rule trigger fire for a contact once per COOLDOWN  *)
(* (campaigns/rules.py, claim_rule_fire) and the job that prunes its rows   *)
(* (campaigns/housekeeping.py).  flows/triggers/guards.py guards default    *)
(* replies in the same way, without pruning.                                *)
(*                                                                         *)
(* One pair of trigger and contact.  A claim reads the clock, then updates  *)
(* or inserts the row, and holds it until the transaction around it ends.   *)
(***************************************************************************)
EXTENDS Naturals

CONSTANTS
    Claimer,       \* transactions that try to fire at once
    Period,        \* COOLDOWN
    Margin,        \* PRUNE_MARGIN, what a slow claim is given
    Patience,      \* bound: how long a claim may take from its clock reading
    LastMoment     \* bound: the clock stops here

ASSUME CooldownAssumption ==
    /\ {Period, Margin, Patience, LastMoment} \subseteq Nat
    /\ Patience <= Margin

VARIABLES
    clock,         \* 0..LastMoment
    fireRow,       \* last_fired_at, committed, NoRowYet if there is none
    claim,         \* [Claimer -> [at, moment]]
    stale,         \* the prune between its SELECT and its DELETE: [at, cutoff]
    fired,         \* moment of the newest committed fire (history)
    tooSoon        \* a fire was committed within Period of another (history)

coolVars == <<clock, fireRow, claim, stale, fired, tooSoon>>

NoRowYet == LastMoment + 1
NoClaim == [at |-> "no", moment |-> 0]

CoolInit ==
    /\ clock = 0
    /\ fireRow = NoRowYet
    /\ claim = [c \in Claimer |-> NoClaim]
    /\ stale = [at |-> "no", cutoff |-> 0]
    /\ fired = NoRowYet
    /\ tooSoon = FALSE

Tick ==
    /\ clock < LastMoment
    /\ \A c \in Claimer : claim[c].at # "no" => clock - claim[c].moment < Patience
    /\ clock' = clock + 1
    /\ UNCHANGED <<fireRow, claim, stale, fired, tooSoon>>

ReadClock(c) ==
    /\ claim[c].at = "no"
    /\ claim' = [claim EXCEPT ![c] = [at |-> "asks", moment |-> clock]]
    /\ UNCHANGED <<clock, fireRow, stale, fired, tooSoon>>

\* The row, or the unique index's entry for it, is another claim's.
RowTaken == \E c \in Claimer : claim[c].at = "holds"

\* The update matches the row as it is by now, or the insert finds none.
MayFire(m) == fireRow = NoRowYet \/ fireRow + Period <= m

ClaimFire(c) ==
    /\ claim[c].at = "asks"
    /\ ~RowTaken
    /\ claim' = [claim EXCEPT ![c] = IF MayFire(@.moment) THEN [@ EXCEPT !.at = "holds"] ELSE NoClaim]
    /\ UNCHANGED <<clock, fireRow, stale, fired, tooSoon>>

Fires(c) ==
    LET m == claim[c].moment
    IN  /\ claim[c].at = "holds"
        /\ fireRow' = m
        /\ fired' = m
        /\ tooSoon' = (tooSoon \/ (fired # NoRowYet /\ m < fired + Period))
        /\ claim' = [claim EXCEPT ![c] = NoClaim]
        /\ UNCHANGED <<clock, stale>>

\* The transaction around the claim rolls back and the claim with it.
ClaimRollsBack(c) ==
    /\ claim[c].at # "no"
    /\ claim' = [claim EXCEPT ![c] = NoClaim]
    /\ UNCHANGED <<clock, fireRow, stale, fired, tooSoon>>

StaleFire(m) == m + Period + Margin < clock

PruneSelect ==
    /\ stale.at = "no"
    /\ fireRow # NoRowYet
    /\ StaleFire(fireRow)
    /\ stale' = [at |-> "selected", cutoff |-> clock - Period - Margin]
    /\ UNCHANGED <<clock, fireRow, claim, fired, tooSoon>>

\* Mutant: the delete goes by primary key alone.
StillStaleAny == fireRow # NoRowYet

\* The DELETE repeats the cutoff.
StillStale == fireRow # NoRowYet /\ fireRow < stale.cutoff

\* It waits for a claim that holds the row.
PruneDelete ==
    /\ stale.at = "selected"
    /\ ~RowTaken
    /\ fireRow' = IF StillStale THEN NoRowYet ELSE fireRow
    /\ stale' = [at |-> "no", cutoff |-> 0]
    /\ UNCHANGED <<clock, claim, fired, tooSoon>>

CoolNext ==
    \/ Tick \/ PruneSelect \/ PruneDelete
    \/ \E c \in Claimer : ReadClock(c) \/ ClaimFire(c) \/ Fires(c) \/ ClaimRollsBack(c)

CoolSpec == CoolInit /\ [][CoolNext]_coolVars

-----------------------------------------------------------------------------
(* Properties.                                                             *)

\* Types of all variables.
CoolTypeOK ==
    /\ clock \in 0..LastMoment
    /\ fireRow \in 0..NoRowYet
    /\ claim \in [Claimer -> [at : {"no", "asks", "holds"}, moment : 0..LastMoment]]
    /\ stale \in [at : {"no", "selected"}, cutoff : 0..LastMoment]
    /\ fired \in 0..NoRowYet
    /\ tooSoon \in BOOLEAN

(***************************************************************************)
(* Two fires of one trigger for one contact are at least a period apart,    *)
(* with claims racing each other and the prune removing the row that says   *)
(* so (housekeeping.py: a delete by key alone would let "the very next      *)
(* event through inside the 60-second window").                             *)
(***************************************************************************)
FiresAreSpaced == ~tooSoon
=============================================================================

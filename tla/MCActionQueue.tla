---------------------------- MODULE MCActionQueue ----------------------------
(* Small instances of ActionQueue for TLC. *)
EXTENDS ActionQueue, TLC

CONSTANTS w1, w2, a1, a2, a3, c1

\* a1 and a2 name the same contact, a3 names none (a webhook delivery, say).
MCContactOf == [a \in Action |-> IF a \in {a1, a2} THEN c1 ELSE None]

\* No row names a contact, so no handler ever waits for another.
MCNoContact == [a \in Action |-> None]

\* a3's payload quotes the contact that a1 and a2 name.
MCPayloadOf == [a \in Action |-> IF a = a3 THEN c1 ELSE None]

WorkerSymmetry == Permutations({w1, w2})
=============================================================================

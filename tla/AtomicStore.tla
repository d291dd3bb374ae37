---------------------------- MODULE AtomicStore -----------------------------
(***************************************************************************)
(* What AddSector promises to whoever reads the store, whatever becomes of *)
(* the process in between.  The design document: "a failed AddSector       *)
(* leaves no partial sector visible"; after a kill the store is in         *)
(* "exactly one of two states -- sector fully absent, or sector fully      *)
(* present with correct data"; a second add of the same content            *)
(* "increments the existing sector's reference count".                     *)
(*                                                                         *)
(* An add is promised at one instant and shown at a later one, both        *)
(* indivisible.  A sector that is shown has its data, keeps it, never      *)
(* loses a reference and never has one that was not promised.  Failures,   *)
(* kills, starts and replays are stuttering steps.                         *)
(***************************************************************************)
EXTENDS Naturals

CONSTANTS
    Roots,      \* merkle roots of the sectors
    DataOf(_),  \* the bytes of the sector of a root
    Absent      \* the store does not have the sector

VARIABLES
    promised,   \* adds per sector that are past recall
    sectors     \* what the store shows of each sector

vars == <<promised, sectors>>

References(r) == IF sectors[r] = Absent THEN 0 ELSE sectors[r].count

Init ==
    /\ promised = [r \in Roots |-> 0]
    /\ sectors = [r \in Roots |-> Absent]

\* An add is past recall, and not yet shown.
Promise(r) ==
    /\ promised' = [promised EXCEPT ![r] = @ + 1]
    /\ UNCHANGED sectors

\* A promised add is shown: the sector with its data, or one more reference.
Show(r) ==
    /\ References(r) < promised[r]
    /\ sectors' = [sectors EXCEPT ![r] =
                      [count |-> References(r) + 1, data |-> DataOf(r)]]
    /\ UNCHANGED promised

Next == \E r \in Roots : Promise(r) \/ Show(r)

Spec == Init /\ [][Next]_vars

=============================================================================

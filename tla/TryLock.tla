------------------------------ MODULE TryLock -------------------------------
(***************************************************************************)
(* What the peer's guard channels promise their callers                    *)
(* (core/vm/storage_contract_validation.go, lines 744-828): a lock that is *)
(* tried and never waited for.  "HostConfigProcessing ... will deny        *)
(* another configuration request", "the client should not send another     *)
(* request message before the previous request has finished": while one    *)
(* caller holds the lock every other try is refused, and the lock is free  *)
(* again when its holder is done.                                          *)
(*                                                                         *)
(* A refused try changes nothing and is a stuttering step.                 *)
(***************************************************************************)
CONSTANT
    Procs           \* who tries the lock

VARIABLES
    held,           \* the lock is taken
    holders         \* who took it and is not done yet

vars == <<held, holders>>

TypeOK ==
    /\ held \in BOOLEAN
    /\ holders \subseteq Procs

Init ==
    /\ held = FALSE
    /\ holders = {}

\* The try that succeeds.
Acquire(p) ==
    /\ ~held
    /\ held' = TRUE
    /\ holders' = holders \cup {p}

\* The holder is done.
Release(p) ==
    /\ p \in holders
    /\ held' = FALSE
    /\ holders' = holders \ {p}

Next == \E p \in Procs : Acquire(p) \/ Release(p)

Spec == Init /\ [][Next]_vars

\* The lock is held exactly while somebody holds it, and by one at most.
Exclusive ==
    /\ held <=> holders # {}
    /\ \A p, q \in holders : p = q

=============================================================================

--------------------------- MODULE SectorRecovery ---------------------------
(***************************************************************************)
(* AddSector of the storage manager as a write-ahead-log transaction, with *)
(* a process that can be killed between any two steps and started again.   *)
(*                                                                         *)
(* What survives a kill (the log, the database of sectors and folders, the *)
(* data file) is kept apart from what does not (the folder in memory, the  *)
(* sector locks, the goroutines).  The update code and the log are not in  *)
(* the source tree and follow the design document; the manager's tests     *)
(* are, and their checks are the operators the properties are made of.     *)
(***************************************************************************)
EXTENDS Naturals, FiniteSets, FiniteSetsExt, TLC

CONSTANTS
    Workers,     \* goroutines that call addSector
    Roots,       \* merkle roots of the sectors they add
    NumSlots,    \* sector slots of the storage folder
    MaxAdds,     \* bound: calls of addSector in all
    MaxCrashes,  \* bound: times the process is killed
    None,        \* no sector at hand, nothing written to a slot
    Torn         \* what a slot holds while a write to it is under way

VARIABLES
    wal,        \* durable: the transactions of the log that are not released
    db,         \* durable: the sectors and the storage folder of the database
    disk,       \* durable: the slots of the folder's data file
    folder,     \* in memory: the storage folder
    adding,     \* in memory: the sector a goroutine holds the lock of
    pc,         \* in memory: the step a goroutine is at
    recovering, \* in memory: the transactions found at start are not all done
    committed,  \* history: transactions per sector that were marked committed
    adds,       \* calls of addSector so far
    crashes     \* kills so far

durable  == <<wal, db, disk>>
bounds   == <<adds, crashes>>
vars     == <<wal, db, disk, folder, adding, pc, recovering, committed, adds,
              crashes>>

Slots == 0 .. NumSlots - 1

EmptyFolder == [usage |-> {}, storedSectors |-> 0]

\* A sector's bytes are fixed by its merkle root: the root stands for them.
DataOf(root) == root

\* The transaction a goroutine drives: the one of the sector it has locked.
TxnOf(t) == CHOOSE x \in wal : x.root = adding[t]

Goto(t, label) == pc' = [pc EXCEPT ![t] = label]

-----------------------------------------------------------------------------
(* The storage folder and the database *)

\* Mutant: an occupied slot is counted again.
setUsedSectorSlotCountsAgain(sf, index) ==
    [usage |-> sf.usage \cup {index}, storedSectors |-> sf.storedSectors + 1]

\* Mark a slot used and count it; a slot that is occupied is refused and the
\* folder stays as it is.
setUsedSectorSlot(sf, index) ==
    IF index \in sf.usage THEN sf
    ELSE [usage |-> sf.usage \cup {index}, storedSectors |-> sf.storedSectors + 1]

\* Give a slot back.
clearUsedSectorSlot(sf, index) ==
    IF index \notin sf.usage THEN sf
    ELSE [usage |-> sf.usage \ {index}, storedSectors |-> sf.storedSectors - 1]

\* Mutant: a virtual add counts on top of what the database has.
AppliedOnTop(x) ==
    IF x.kind = "physical"
    THEN [sectors |-> (x.root :> [index |-> x.index, count |-> 1]) @@ db.sectors,
          folder  |-> setUsedSectorSlot(db.folder, x.index)]
    ELSE [db EXCEPT !.sectors[x.root].count = @ + 1]

\* The database once a transaction's update is applied: a new sector with
\* its slot, or one more reference than the transaction found.  Applying it
\* again changes nothing.
Applied(x) ==
    IF x.kind = "physical"
    THEN [sectors |-> (x.root :> [index |-> x.index, count |-> 1]) @@ db.sectors,
          folder  |-> setUsedSectorSlot(db.folder, x.index)]
    ELSE [db EXCEPT !.sectors[x.root].count = x.prev + 1]

\* The folder in memory once a transaction's update is applied.
Occupied(x) ==
    IF x.kind = "physical" THEN setUsedSectorSlot(folder, x.index) ELSE folder

-----------------------------------------------------------------------------
(* The checks of the manager's tests *)

checkSectorExist(root, count) ==
    /\ root \in DOMAIN db.sectors
    /\ LET sector == db.sectors[root] IN
         /\ sector.count = count
         /\ db.folder.storedSectors >= 1
         /\ sector.index \in db.folder.usage
         /\ sector.index \in folder.usage
         /\ disk[sector.index] = DataOf(root)

checkSectorNotExist(root) == root \notin DOMAIN db.sectors

checkFoldersHasExpectedSectors(expect) ==
    /\ folder.storedSectors = expect
    /\ db.folder.storedSectors = expect
    /\ Cardinality(DOMAIN db.sectors) = expect

checkWalTxnNum(numTxn) == Cardinality(wal) = numTxn

-----------------------------------------------------------------------------
(* addSector *)

Init ==
    /\ wal = {}
    /\ db = [sectors |-> <<>>, folder |-> EmptyFolder]
    /\ disk = [i \in Slots |-> None]
    /\ folder = EmptyFolder
    /\ adding = [t \in Workers |-> None]
    /\ pc = [t \in Workers |-> "idle"]
    /\ recovering = FALSE
    /\ committed = [r \in Roots |-> 0]
    /\ adds = 0
    /\ crashes = 0

\* The call is let in once the start of the manager is over, and waits for
\* the lock of its sector.
lockSector(t, root) ==
    /\ pc[t] = "idle"
    /\ ~recovering
    /\ adds < MaxAdds
    /\ \A u \in Workers : adding[u] # root
    /\ adding' = [adding EXCEPT ![t] = root]
    /\ adds' = adds + 1
    /\ Goto(t, "prepare")
    /\ UNCHANGED <<durable, folder, recovering, committed, crashes>>

\* The deferred unlock, with which the call returns.
Return(t) ==
    /\ adding' = [adding EXCEPT ![t] = None]
    /\ Goto(t, "idle")

\* Prepare, the sector is new: the first free slot is reserved in memory and
\* the intent is logged.
PreparePhysical(t) ==
    /\ pc[t] = "prepare"
    /\ adding[t] \notin DOMAIN db.sectors
    /\ folder.usage # Slots
    /\ LET index == Min(Slots \ folder.usage) IN
         /\ folder' = setUsedSectorSlot(folder, index)
         /\ wal' = wal \cup {[root |-> adding[t], kind |-> "physical",
                              index |-> index, prev |-> 0, committed |-> FALSE]}
    /\ Goto(t, "write")
    /\ UNCHANGED <<db, disk, adding, recovering, committed, bounds>>

\* Prepare, the sector is new and the folder is full.
NoSpace(t) ==
    /\ pc[t] = "prepare"
    /\ adding[t] \notin DOMAIN db.sectors
    /\ folder.usage = Slots
    /\ Return(t)
    /\ UNCHANGED <<durable, folder, recovering, committed, bounds>>

\* Prepare, the sector is stored: the intent to count one more reference is
\* logged with the count that was found.
PrepareVirtual(t) ==
    /\ pc[t] = "prepare"
    /\ adding[t] \in DOMAIN db.sectors
    /\ wal' = wal \cup {[root |-> adding[t], kind |-> "virtual",
                          index |-> db.sectors[adding[t]].index,
                          prev |-> db.sectors[adding[t]].count,
                          committed |-> FALSE]}
    /\ Goto(t, "commit")
    /\ UNCHANGED <<db, disk, folder, adding, recovering, committed, bounds>>

\* Process: the write of the data to the reserved slot begins, and ends.
WriteBegins(t) ==
    /\ pc[t] = "write"
    /\ disk' = [disk EXCEPT ![TxnOf(t).index] = Torn]
    /\ Goto(t, "writing")
    /\ UNCHANGED <<wal, db, folder, adding, recovering, committed, bounds>>

WriteEnds(t) ==
    /\ pc[t] = "writing"
    /\ disk' = [disk EXCEPT ![TxnOf(t).index] = DataOf(adding[t])]
    /\ Goto(t, "commit")
    /\ UNCHANGED <<wal, db, folder, adding, recovering, committed, bounds>>

\* The commit mark goes to the log, from one of the steps in `at'.
Mark(t, at) ==
    /\ pc[t] \in at
    /\ wal' = (wal \ {TxnOf(t)}) \cup {[TxnOf(t) EXCEPT !.committed = TRUE]}
    /\ committed' = [committed EXCEPT ![adding[t]] = @ + 1]
    /\ Goto(t, "apply")
    /\ UNCHANGED <<db, disk, folder, adding, recovering, bounds>>

\* Mutant: the transaction is marked committed before the data is written.
MarkBeforeWrite(t) == Mark(t, {"write", "commit"})

\* The transaction is marked committed once its data is on disk.
MarkCommitted(t) == Mark(t, {"commit"})

\* The update goes to the database, in one batch.
Apply(t) ==
    /\ pc[t] = "apply"
    /\ db' = Applied(TxnOf(t))
    /\ Goto(t, "release")
    /\ UNCHANGED <<wal, disk, folder, adding, recovering, committed, bounds>>

\* Between the logging of the intent and the commit mark.
Unmarked == {"write", "writing", "commit"}

\* The transaction leaves the log and the call returns, the folder in memory
\* being left as `sf'.
Release(t, sf) ==
    /\ folder' = sf
    /\ wal' = wal \ {TxnOf(t)}
    /\ Return(t)
    /\ UNCHANGED <<db, disk, recovering, committed, bounds>>

\* The transaction is released from the log and the call returns nil.
Released(t) == pc[t] = "release" /\ Release(t, folder)

\* Mutant: the failed update leaves its slot reserved.
RevertKeepsSlot(t) == pc[t] \in Unmarked /\ Release(t, folder)

\* A step of prepare or process fails ("physical prepare normal", "virtual
\* process normal", ...): the update is reverted where it stands, the slot
\* of a physical add given back.
Revert(t) ==
    /\ pc[t] \in Unmarked
    /\ Release(t, IF TxnOf(t).kind = "physical"
                  THEN clearUsedSectorSlot(folder, TxnOf(t).index) ELSE folder)

-----------------------------------------------------------------------------
(* The kill, and the start that follows it *)

\* The process stops and a new manager starts, its folder loaded from the
\* database; `busy' says whether it has transactions to replay first.
Start(busy) ==
    /\ crashes < MaxCrashes
    /\ crashes' = crashes + 1
    /\ folder' = db.folder
    /\ adding' = [t \in Workers |-> None]
    /\ pc' = [t \in Workers |-> "idle"]
    /\ recovering' = busy
    /\ UNCHANGED <<durable, committed, adds>>

\* Mutant: the manager takes calls while transactions wait to be replayed.
StopAndStartAtOnce == Start(FALSE)

\* The process stops where it stands ("... normal stop": addSector returns
\* nil and its transaction stays in the log), and New and Start bring up a
\* manager that replays the log before it takes calls.
StopAndStart == Start(wal # {})

\* A transaction found at start leaves the log.
Drop(x) ==
    /\ recovering /\ x \in wal
    /\ wal' = wal \ {x}
    /\ recovering' = (wal' # {})
    /\ UNCHANGED <<db, disk, folder, adding, pc, committed, bounds>>

\* Mutant: a committed transaction is released without being applied.
ReplaySkipsApply(x) == x.committed /\ db # Applied(x) /\ Drop(x)

\* A transaction with its commit mark is replayed to completion: its update
\* is applied to the database and to the folder in memory.
Replay(x) ==
    /\ recovering
    /\ x \in wal /\ x.committed /\ db # Applied(x)
    /\ db' = Applied(x)
    /\ folder' = Occupied(x)
    /\ UNCHANGED <<wal, disk, adding, pc, recovering, committed, bounds>>

\* A transaction that is applied, or has no commit mark, is released; the
\* manager takes calls when none is left.
Discard(x) == (x.committed => db = Applied(x)) /\ Drop(x)

-----------------------------------------------------------------------------
(* The specification *)

Proceed(t) ==
    \/ PreparePhysical(t) \/ NoSpace(t) \/ PrepareVirtual(t)
    \/ WriteBegins(t) \/ WriteEnds(t)
    \/ MarkCommitted(t) \/ Apply(t) \/ Released(t)

Recover == \E x \in wal : Replay(x) \/ Discard(x)

\* Every call is made and has returned, and the last kill is over.
Finished ==
    /\ adds = MaxAdds /\ crashes = MaxCrashes /\ wal = {}
    /\ \A t \in Workers : pc[t] = "idle"
    /\ UNCHANGED vars

Next ==
    \/ \E t \in Workers : (\E r \in Roots : lockSector(t, r)) \/ Proceed(t)
                              \/ Revert(t)
    \/ StopAndStart
    \/ Recover
    \/ Finished

Spec == Init /\ [][Next]_vars

\* A goroutine that can take a step takes one, and so does the start of the
\* manager; nothing makes a step fail or the process stop.
FairSpec ==
    /\ Spec
    /\ \A t \in Workers : WF_vars(Proceed(t))
    /\ WF_vars(Recover)

-----------------------------------------------------------------------------
(* Properties *)

Open(root) == \E x \in wal : x.root = root

Stored == {r \in Roots : committed[r] > 0}

\* The variables have the values their Go types and the steps allow.
TypeOK ==
    /\ wal \subseteq [root : Roots, kind : {"physical", "virtual"},
                      index : Slots, prev : 0 .. MaxAdds, committed : BOOLEAN]
    /\ DOMAIN db.sectors \subseteq Roots
    /\ \A r \in DOMAIN db.sectors :
         db.sectors[r] \in [index : Slots, count : 1 .. MaxAdds]
    /\ {db.folder, folder} \subseteq [usage : SUBSET Slots, storedSectors : 0 .. NumSlots]
    /\ disk \in [Slots -> Roots \cup {None, Torn}]
    /\ adding \in [Workers -> Roots \cup {None}]
    /\ pc \in [Workers -> {"idle", "prepare", "apply", "release"} \cup Unmarked]
    /\ recovering \in BOOLEAN
    /\ committed \in [Roots -> 0 .. MaxAdds]
    /\ adds \in 0 .. MaxAdds
    /\ crashes \in 0 .. MaxCrashes

\* No transaction of the sector is in the log and no call holds its lock
\* (the last check of checkSectorExist).
Settled(root) == ~Open(root) /\ \A t \in Workers : adding[t] # root

\* What TestAddSector, the two TestDisrupted... and the two
\* TestAddSector...StopRecover... tests assert after their one scenario each,
\* for every order of steps, failures, kills and starts: a settled sector
\* whose adds were all turned back does not exist (checkSectorNotExist), one
\* with committed adds exists with exactly that count, its slot occupied in
\* the database and in memory and its data on disk (checkSectorExist), and
\* when the log is empty the folders hold as many sectors as were stored
\* (checkFoldersHasExpectedSectors); and the log is empty when the start is
\* over and every call has returned (checkWalTxnNum 0 after shutdown).
TestsHoldWhenSettled ==
    /\ (~recovering /\ \A t \in Workers : pc[t] = "idle") => checkWalTxnNum(0)
    /\ \A r \in Roots \ Stored : Settled(r) => checkSectorNotExist(r)
    /\ \A r \in Stored : Settled(r) => checkSectorExist(r, committed[r])
    /\ checkWalTxnNum(0) => checkFoldersHasExpectedSectors(Cardinality(Stored))

\* Crash atomicity, at every step and not only when the log is empty: a
\* sector the database knows is fully there -- its slot is marked in the
\* database, is no other sector's, and holds the sector's own data, never
\* the torn or missing data of a write that was cut short -- and the
\* database marks no slot that is no sector's (no orphaned reservation
\* survives a kill, since reservations of addSector are in memory and in the
\* log until the transaction is applied).
FullyPresentOrAbsent ==
    /\ \A r \in DOMAIN db.sectors :
         /\ disk[db.sectors[r].index] = DataOf(r)
         /\ \A s \in DOMAIN db.sectors :
              db.sectors[s].index = db.sectors[r].index => s = r
    /\ db.folder.usage = {db.sectors[r].index : r \in DOMAIN db.sectors}
    /\ db.folder.storedSectors = Cardinality(db.folder.usage)

\* The folder in memory marks exactly the slots the database marks and the
\* slots reserved by the physical adds under way: a failed add gives its
\* slot back, a start loads what the database has and replay adds what the
\* log had committed, so no slot is lost to a reservation nobody holds and
\* none is handed out twice.
ReservationsAccounted ==
    ~recovering =>
        folder.usage = db.folder.usage
                         \cup {x.index : x \in {y \in wal : y.kind = "physical"}}

\* What a reader finds of each sector in the database and the data file.
Visible ==
    [r \in Roots |->
        IF r \in DOMAIN db.sectors
        THEN [count |-> db.sectors[r].count, data |-> disk[db.sectors[r].index]]
        ELSE None]

Store == INSTANCE AtomicStore WITH Absent <- None, promised <- committed,
                                   sectors <- Visible

\* addSector with its log implements the atomic store: every step of a
\* call, of a failure, of a kill and of the replay at the next start either
\* changes nothing a reader can see, or sets one commit mark, or shows one
\* add that has its mark -- a new sector with its whole data, or one more
\* reference.  A replay that is itself killed and run again, after the
\* update had reached the database or before, shows the add once.
AddsAreAtomic == Store!Spec

\* "WAL drains to zero": a transaction does not stay in the log; the
\* goroutine that logged it releases it, or the next start does.
WalDrains == \A r \in Roots : Open(r) ~> ~Open(r)

=============================================================================

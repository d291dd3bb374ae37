--------------------------- MODULE StorageManager ---------------------------
(***************************************************************************)
(* The storage manager of a storage host (package storagemanager): the     *)
(* facade through which sectors are added and read and folders are added,  *)
(* and which Close shuts down.                                             *)
(*                                                                         *)
(* An exported method is a sequence of steps of the calling goroutine, cut *)
(* where another goroutine can see or change the shared state: the atomic  *)
(* switch, the wait group, the sector locks, the folder and sector maps    *)
(* and the stop channel.                                                   *)
(*                                                                         *)
(* The exported methods are translated from the source.  The bodies of the *)
(* helpers they call (addStorageSector, addVirtualSector, the two halves   *)
(* of AddStorageFolder, startMaintenance) are not in the source tree at    *)
(* hand and follow the design document; README.md lists which.             *)
(***************************************************************************)
EXTENDS Naturals, FiniteSets, FiniteSetsExt, TLC

CONSTANTS
    Workers,     \* goroutines that call AddSector, ReadSector, AddStorageFolder
    Closers,     \* goroutines that call Close
    Roots,       \* merkle roots of the sectors the callers hold
    FolderIds,   \* indexes a storage folder can get (the uint16 key of folders)
    NumSlots,    \* sector slots of a storage folder
    MaxCalls,    \* bound: calls a worker makes before it stops
    SectorSalt,  \* the manager's salt, mixed into every sector id
    None         \* "no value": no owner, no sector, no slot, no result yet

ASSUME Assumptions ==
    /\ Workers \cap Closers = {}
    /\ Roots # {}
    /\ FolderIds \subseteq Nat
    /\ NumSlots \in Nat \ {0}
    /\ MaxCalls \in Nat
    /\ None \notin Workers \cup Closers \cup Roots

VARIABLES
    atomicSwitch,  \* 1 once Close has switched the manager off
    wg,            \* counter of the wait group
    maintenance,   \* state of the maintenance goroutine
    folders,       \* folder index -> storage folder
    sectors,       \* sector id -> storage sector
    sectorLocks,   \* sector id -> the goroutine that holds its lock, or None
    sectorData,    \* contents of the folders' data files, per folder and slot
    pc,            \* the step each goroutine is at
    call,          \* the call a worker is making, or made last
    found,         \* AddSector: the sector it read from the map
    place,         \* the folder, and the slot of it, a call works on
    result,        \* what the last call of a goroutine returned
    calls,         \* calls a worker has made
    added          \* history: successful adds per sector id

shared == <<atomicSwitch, wg, maintenance>>
store  == <<folders, sectors, sectorData, added>>
locals == <<call, found, place, calls>>
vars   == <<atomicSwitch, wg, maintenance, folders, sectors, sectorLocks,
           sectorData, pc, call, found, place, result, calls, added>>

-----------------------------------------------------------------------------
(* Values *)

Slots == 0 .. NumSlots - 1

\* The sector id is a salted hash of the root: one id per root under a salt.
getSectorID(root) == <<SectorSalt, root>>

SectorIDs == {getSectorID(r) : r \in Roots}

\* A sector's bytes are fixed by its merkle root: the root stands for them.
DataOf(root) == root

Calls == [op : {"AddSector", "ReadSector"}, root : Roots]
            \cup [op : {"AddStorageFolder"}]

Errors == {"shutDown", "noSectorMeta", "noFolder", "folderUnavailable",
           "readFailed", "noSpace", "writeFailed", "virtualFailed",
           "folderRefused", "folderFailed", "alreadyClosed"}

\* The zero value Go yields for a missing key of the sector map.
ZeroSector == [index |-> 0, storageFolder |-> 0, count |-> 0]

EmptyFolder == [usage |-> {}, sectors |-> 0, atomicUnavailable |-> 0]

Err(e)  == [err |-> e, data |-> None]
Data(d) == [err |-> None, data |-> d]
Ok      == Data(None)

\* Between wg.Add(1) and the deferred wg.Done().
InFlight == {"lockSector", "lookup", "virtual", "reserve", "write", "commit",
             "readLookup", "readData", "prepare", "process", "unlock", "done"}

Goto(t, label) == pc' = [pc EXCEPT ![t] = label]

Return(t, r) == result' = [result EXCEPT ![t] = r]

Id(t) == getSectorID(call[t].root)

Without(f, x) == Restrict(f, DOMAIN f \ {x})

\* The local variables of a call end with it.
Forget(t) ==
    /\ found' = [found EXCEPT ![t] = None]
    /\ place' = [place EXCEPT ![t] = None]

-----------------------------------------------------------------------------
(* New *)

Init ==
    /\ atomicSwitch = 0
    /\ wg = 1
    /\ maintenance = "running"
    /\ folders = <<>>
    /\ sectors = <<>>
    /\ sectorLocks = [id \in SectorIDs |-> None]
    /\ sectorData = [f \in FolderIds |-> [i \in Slots |-> None]]
    /\ pc = [t \in Workers \cup Closers |-> "idle"]
    /\ call = [t \in Workers |-> None]
    /\ found = [t \in Workers |-> None]
    /\ place = [t \in Workers |-> None]
    /\ result = [t \in Workers \cup Closers |-> None]
    /\ calls = [t \in Workers |-> 0]
    /\ added = [id \in SectorIDs |-> 0]

-----------------------------------------------------------------------------
(* Entering and leaving a call *)

\* Mutant: wg.Done() is deferred before the switch is read.
CheckDefersFirst(t, c) ==
    /\ pc[t] = "idle"
    /\ calls[t] < MaxCalls
    /\ calls' = [calls EXCEPT ![t] = @ + 1]
    /\ call' = [call EXCEPT ![t] = c]
    /\ Return(t, IF atomicSwitch = 1 THEN Err("shutDown") ELSE None)
    /\ Goto(t, IF atomicSwitch = 1 THEN "done" ELSE "register")
    /\ UNCHANGED <<shared, store, sectorLocks, found, place>>

\* The guard every exported method opens with: the switch is read, and the
\* call is turned away when the manager is shut down.
Check(t, c) ==
    /\ pc[t] = "idle"
    /\ calls[t] < MaxCalls
    /\ calls' = [calls EXCEPT ![t] = @ + 1]
    /\ call' = [call EXCEPT ![t] = c]
    /\ Return(t, IF atomicSwitch = 1 THEN Err("shutDown") ELSE None)
    /\ Goto(t, IF atomicSwitch = 1 THEN "idle" ELSE "register")
    /\ UNCHANGED <<shared, store, sectorLocks, found, place>>

AddStorageFolderCheck(t) == Check(t, [op |-> "AddStorageFolder"])

AddSectorCheck(t) == \E r \in Roots : Check(t, [op |-> "AddSector", root |-> r])

ReadSectorCheck(t) == \E r \in Roots : Check(t, [op |-> "ReadSector", root |-> r])

\* Mutant: the call is not counted into the wait group.
RegisterForgetsAdd(t) ==
    /\ pc[t] = "register"
    /\ Goto(t, IF call[t].op = "AddStorageFolder" THEN "prepare" ELSE "lockSector")
    /\ UNCHANGED <<shared, store, sectorLocks, locals, result>>

\* sm.wg.Add(1), a step of its own after the switch was read.
Register(t) ==
    /\ pc[t] = "register"
    /\ wg' = wg + 1
    /\ Goto(t, IF call[t].op = "AddStorageFolder" THEN "prepare" ELSE "lockSector")
    /\ UNCHANGED <<atomicSwitch, maintenance, store, sectorLocks, locals, result>>

\* Mutant: the call returns without wg.Done().
DoneKeepsCount(t) ==
    /\ pc[t] = "done"
    /\ Forget(t)
    /\ Goto(t, "idle")
    /\ UNCHANGED <<shared, store, sectorLocks, call, calls, result>>

\* The deferred wg.Done(): the call returns.
Done(t) ==
    /\ pc[t] = "done"
    /\ wg' = wg - 1
    /\ Forget(t)
    /\ Goto(t, "idle")
    /\ UNCHANGED <<atomicSwitch, maintenance, store, sectorLocks, call, calls,
                   result>>

-----------------------------------------------------------------------------
(* The sector locks *)

\* Mutant: the lock is taken without waiting for its holder.
LockSectorNoWait(t) ==
    /\ pc[t] = "lockSector"
    /\ sectorLocks' = [sectorLocks EXCEPT ![Id(t)] = t]
    /\ Goto(t, IF call[t].op = "AddSector" THEN "lookup" ELSE "readLookup")
    /\ UNCHANGED <<shared, store, locals, result>>

\* sm.lockSector(id): block until the sector's lock is free, and take it.
LockSector(t) ==
    /\ pc[t] = "lockSector"
    /\ sectorLocks[Id(t)] = None
    /\ sectorLocks' = [sectorLocks EXCEPT ![Id(t)] = t]
    /\ Goto(t, IF call[t].op = "AddSector" THEN "lookup" ELSE "readLookup")
    /\ UNCHANGED <<shared, store, locals, result>>

\* Mutant: the call leaves with the sector still locked.
UnlockSectorKeepsLock(t) ==
    /\ pc[t] = "unlock"
    /\ Goto(t, "done")
    /\ UNCHANGED <<shared, store, sectorLocks, locals, result>>

\* The deferred sm.unlockSector(id), which runs before the deferred Done.
UnlockSector(t) ==
    /\ pc[t] = "unlock"
    /\ sectorLocks' = [sectorLocks EXCEPT ![Id(t)] = None]
    /\ Goto(t, "done")
    /\ UNCHANGED <<shared, store, locals, result>>

-----------------------------------------------------------------------------
(* AddSector *)

\* Mutant: the sector is stored anew whether or not it exists.
AddSectorLookupIgnoresExisting(t) ==
    /\ pc[t] = "lookup"
    /\ Goto(t, "reserve")
    /\ UNCHANGED <<shared, store, sectorLocks, locals, result>>

\* Under wal.lock: read the sector, and branch on whether it exists.
AddSectorLookup(t) ==
    /\ pc[t] = "lookup"
    /\ \/ /\ Id(t) \in DOMAIN sectors
          /\ found' = [found EXCEPT ![t] = sectors[Id(t)]]
          /\ Goto(t, "virtual")
       \/ /\ Id(t) \notin DOMAIN sectors
          /\ Goto(t, "reserve")
          /\ UNCHANGED found
    /\ UNCHANGED <<shared, store, sectorLocks, call, place, calls, result>>

\* addVirtualSector succeeds: one more reference to the sector that was read.
AddVirtualSector(t) ==
    /\ pc[t] = "virtual"
    /\ sectors' = [sectors EXCEPT ![Id(t)] = [found[t] EXCEPT !.count = @ + 1]]
    /\ added' = [added EXCEPT ![Id(t)] = @ + 1]
    /\ Return(t, Ok)
    /\ Goto(t, "unlock")
    /\ UNCHANGED <<shared, folders, sectorData, sectorLocks, locals>>

\* addVirtualSector fails before the update is applied: nothing changes.
AddVirtualSectorFails(t) ==
    /\ pc[t] = "virtual"
    /\ Return(t, Err("virtualFailed"))
    /\ Goto(t, "unlock")
    /\ UNCHANGED <<shared, store, sectorLocks, locals>>

\* A folder a new sector can go to.
Usable(f) ==
    /\ f \in DOMAIN folders
    /\ folders[f].atomicUnavailable = 0
    /\ folders[f].usage # Slots

\* addStorageSector, first step: reserve the first free slot of the first
\* folder that has one.
ReserveSlot(t) ==
    /\ pc[t] = "reserve"
    /\ \E f \in FolderIds :
         /\ Usable(f)
         /\ \A g \in FolderIds : Usable(g) => f <= g
         /\ LET i == Min(Slots \ folders[f].usage) IN
              /\ folders' = [folders EXCEPT ![f].usage = @ \cup {i},
                                            ![f].sectors = @ + 1]
              /\ place' = [place EXCEPT ![t] = [folder |-> f, index |-> i]]
    /\ Goto(t, "write")
    /\ UNCHANGED <<shared, sectors, sectorData, added, sectorLocks, call,
                   found, calls, result>>

\* addStorageSector: no folder has room.
NoSpace(t) ==
    /\ pc[t] = "reserve"
    /\ \A f \in FolderIds : ~Usable(f)
    /\ Return(t, Err("noSpace"))
    /\ Goto(t, "unlock")
    /\ UNCHANGED <<shared, store, sectorLocks, locals>>

\* addStorageSector, second step: the data goes to the reserved slot.
WriteSlot(t) ==
    /\ pc[t] = "write"
    /\ sectorData' = [sectorData EXCEPT
                        ![place[t].folder][place[t].index] = DataOf(call[t].root)]
    /\ Goto(t, "commit")
    /\ UNCHANGED <<shared, folders, sectors, added, sectorLocks, locals, result>>

\* addStorageSector, the write fails: the slot is given back and the folder
\* is marked unavailable.
WriteSlotFails(t) ==
    /\ pc[t] = "write"
    /\ folders' = [folders EXCEPT ![place[t].folder] =
                     [usage |-> @.usage \ {place[t].index},
                      sectors |-> @.sectors - 1,
                      atomicUnavailable |-> 1]]
    /\ Return(t, Err("writeFailed"))
    /\ Goto(t, "unlock")
    /\ UNCHANGED <<shared, sectors, sectorData, added, sectorLocks, locals>>

\* addStorageSector, last step: the sector becomes visible in the map.
CommitSector(t) ==
    /\ pc[t] = "commit"
    /\ sectors' = (Id(t) :> [index |-> place[t].index,
                             storageFolder |-> place[t].folder,
                             count |-> 1]) @@ sectors
    /\ added' = [added EXCEPT ![Id(t)] = @ + 1]
    /\ Return(t, Ok)
    /\ Goto(t, "unlock")
    /\ UNCHANGED <<shared, folders, sectorData, sectorLocks, locals>>

-----------------------------------------------------------------------------
(* ReadSector *)

\* Where the two map reads send ReadSector: an error, or the slot to read.
Plan(exists1, ss) ==
    CASE ~exists1 -> Err("noSectorMeta")
      [] ss.storageFolder \notin DOMAIN folders -> Err("noFolder")
      [] folders[ss.storageFolder].atomicUnavailable = 1 -> Err("folderUnavailable")
      [] OTHER -> [err |-> None, folder |-> ss.storageFolder, index |-> ss.index]

\* Mutant: a missing sector is not turned away.
ReadPlanTrustsLookup(id) ==
    Plan(TRUE, IF id \in DOMAIN sectors THEN sectors[id] ELSE ZeroSector)

\* A missing sector reads as the zero value, whose folder index is 0.
ReadPlan(id) ==
    Plan(id \in DOMAIN sectors,
         IF id \in DOMAIN sectors THEN sectors[id] ELSE ZeroSector)

\* Read the sector and its folder, and return early when either is missing
\* or the folder is unavailable.
ReadSectorLookup(t) ==
    /\ pc[t] = "readLookup"
    /\ LET plan == ReadPlan(Id(t)) IN
         \/ /\ plan.err # None
            /\ Return(t, plan)
            /\ Goto(t, "unlock")
            /\ UNCHANGED place
         \/ /\ plan.err = None
            /\ place' = [place EXCEPT ![t] = [folder |-> plan.folder,
                                              index |-> plan.index]]
            /\ Goto(t, "readData")
            /\ UNCHANGED result
    /\ UNCHANGED <<shared, store, sectorLocks, call, found, calls>>

\* readSector: the bytes of the slot, or a read failure.
ReadData(t) ==
    /\ pc[t] = "readData"
    /\ \/ Return(t, Data(sectorData[place[t].folder][place[t].index]))
       \/ Return(t, Err("readFailed"))
    /\ Goto(t, "unlock")
    /\ UNCHANGED <<shared, store, sectorLocks, locals>>

-----------------------------------------------------------------------------
(* AddStorageFolder *)

\* prepareAddStorageFolder: the request is refused, or a free folder index
\* is taken for a folder that is not yet available.
PrepareAddStorageFolder(t) ==
    /\ pc[t] = "prepare"
    /\ \/ /\ Return(t, Err("folderRefused"))
          /\ Goto(t, "done")
          /\ UNCHANGED <<folders, place>>
       \/ /\ \E f \in FolderIds \ DOMAIN folders :
               /\ folders' = folders @@
                               (f :> [EmptyFolder EXCEPT !.atomicUnavailable = 1])
               /\ place' = [place EXCEPT ![t] = [folder |-> f, index |-> None]]
          /\ Goto(t, "process")
          /\ UNCHANGED result
    /\ UNCHANGED <<shared, sectors, sectorData, added, sectorLocks, call,
                   found, calls>>

\* processAddStorageFolder: the data file is created and the folder opens,
\* or the creation fails and the folder is forgotten.
ProcessAddStorageFolder(t) ==
    /\ pc[t] = "process"
    /\ \/ /\ folders' = [folders EXCEPT ![place[t].folder] = EmptyFolder]
          /\ Return(t, Ok)
       \/ /\ folders' = Without(folders, place[t].folder)
          /\ Return(t, Err("folderFailed"))
    /\ Goto(t, "done")
    /\ UNCHANGED <<shared, sectors, sectorData, added, sectorLocks, locals>>

-----------------------------------------------------------------------------
(* Close and the maintenance goroutine *)

\* Close reads the switch and returns an error when it is already off.
CloseCheck(c) ==
    /\ pc[c] = "idle"
    /\ Return(c, IF atomicSwitch = 1 THEN Err("alreadyClosed") ELSE None)
    /\ Goto(c, IF atomicSwitch = 1 THEN "returned" ELSE "store")
    /\ UNCHANGED <<shared, store, sectorLocks, locals>>

\* atomic.StoreUint64(&sm.atomicSwitch, 1)
CloseStore(c) ==
    /\ pc[c] = "store"
    /\ atomicSwitch' = 1
    /\ Goto(c, "signal")
    /\ UNCHANGED <<wg, maintenance, store, sectorLocks, locals, result>>

\* sm.stopChan <- struct{}{}: the send completes when the maintenance
\* goroutine receives it, which makes that goroutine leave its loop.
CloseSignal(c) ==
    /\ pc[c] = "signal"
    /\ maintenance = "running"
    /\ maintenance' = "stopping"
    /\ Goto(c, "wait")
    /\ UNCHANGED <<atomicSwitch, wg, store, sectorLocks, locals, result>>

\* startMaintenance returns: the wg.Add(1) of New is undone.
MaintenanceExit ==
    /\ maintenance = "stopping"
    /\ maintenance' = "stopped"
    /\ wg' = wg - 1
    /\ UNCHANGED <<atomicSwitch, store, sectorLocks, pc, locals, result>>

\* sm.wg.Wait(), and Close returns nil.
CloseWait(c) ==
    /\ pc[c] = "wait"
    /\ wg = 0
    /\ Return(c, Ok)
    /\ Goto(c, "returned")
    /\ UNCHANGED <<shared, store, sectorLocks, locals>>

-----------------------------------------------------------------------------
(* The specification *)

\* A caller enters a method.
Enter(t) == AddStorageFolderCheck(t) \/ AddSectorCheck(t) \/ ReadSectorCheck(t)

\* A call that was let in runs on.
Proceed(t) ==
    \/ Register(t) \/ LockSector(t)
    \/ AddSectorLookup(t) \/ AddVirtualSector(t) \/ AddVirtualSectorFails(t)
    \/ ReserveSlot(t) \/ NoSpace(t) \/ WriteSlot(t) \/ WriteSlotFails(t)
    \/ CommitSector(t)
    \/ ReadSectorLookup(t) \/ ReadData(t)
    \/ PrepareAddStorageFolder(t) \/ ProcessAddStorageFolder(t)
    \/ UnlockSector(t) \/ Done(t)

\* A Close that found the manager running runs on.
Shutdown(c) == CloseStore(c) \/ CloseSignal(c) \/ CloseWait(c)

\* Every caller has made its calls and every Close has returned.
Finished ==
    /\ \A t \in Workers : pc[t] = "idle" /\ calls[t] = MaxCalls
    /\ \A c \in Closers : pc[c] = "returned"
    /\ UNCHANGED vars

Next ==
    \/ \E t \in Workers : Enter(t) \/ Proceed(t)
    \/ \E c \in Closers : CloseCheck(c) \/ Shutdown(c)
    \/ MaintenanceExit
    \/ Finished

Spec == Init /\ [][Next]_vars

\* The Go scheduler runs every goroutine that can take a step; nothing makes
\* a caller enter a method.
Fairness ==
    /\ \A t \in Workers : WF_vars(Proceed(t))
    /\ \A c \in Closers : WF_vars(Shutdown(c))
    /\ WF_vars(MaintenanceExit)

FairSpec == Spec /\ Fairness

-----------------------------------------------------------------------------
(* Properties *)

Running(t) == pc[t] \in InFlight

\* The slots a folder has given out: to the sectors of the map, and to the
\* physical adds that have reserved a slot and not yet committed it.
Holders(f) ==
    {id \in DOMAIN sectors : sectors[id].storageFolder = f}
        \cup {t \in Workers : pc[t] \in {"write", "commit"} /\ place[t].folder = f}

SlotOf(h) == IF h \in Workers THEN place[h].index ELSE sectors[h].index

\* The variables have the values the Go types and the steps allow; the wait
\* group counter in particular never goes negative, on which wg.Done panics.
TypeOK ==
    /\ atomicSwitch \in {0, 1}
    /\ wg \in Nat
    /\ maintenance \in {"running", "stopping", "stopped"}
    /\ DOMAIN folders \subseteq FolderIds
    /\ \A f \in DOMAIN folders :
         folders[f] \in [usage : SUBSET Slots, sectors : 0 .. NumSlots,
                         atomicUnavailable : {0, 1}]
    /\ DOMAIN sectors \subseteq SectorIDs
    /\ \A id \in DOMAIN sectors :
         sectors[id] \in [index : Slots, storageFolder : FolderIds,
                          count : 1 .. Cardinality(Workers) * MaxCalls]
    /\ sectorLocks \in [SectorIDs -> Workers \cup {None}]
    /\ sectorData \in [FolderIds -> [Slots -> Roots \cup {None}]]
    /\ pc \in [Workers \cup Closers ->
                 InFlight \cup {"idle", "register", "store", "signal", "wait",
                                "returned"}]
    /\ call \in [Workers -> Calls \cup {None}]
    /\ calls \in [Workers -> 0 .. MaxCalls]
    /\ \A t \in Workers \cup Closers :
         result[t] \in {None} \cup [err : Errors \cup {None},
                                    data : Roots \cup {None}]
    /\ added \in [SectorIDs -> Nat]

\* Checked by the host's tests only for one caller (checkSectorExist,
\* checkFoldersHasExpectedSectors): a folder's used slots are exactly the
\* slots of the sectors stored in it and of the physical adds under way, no
\* slot belongs to two of them, and the folder's sector counter is their
\* number -- whatever order concurrent AddSector calls, failed writes and
\* AddStorageFolder calls take their steps in.
SlotsAccountedFor ==
    \A f \in DOMAIN folders :
        /\ folders[f].usage = {SlotOf(h) : h \in Holders(f)}
        /\ \A g, h \in Holders(f) : SlotOf(g) = SlotOf(h) => g = h
        /\ folders[f].sectors = Cardinality(folders[f].usage)

\* The reference count of a sector is the number of AddSector calls that
\* succeeded on it: addVirtualSector writes back the copy of the sector that
\* AddSector read before calling it, so no add may slip in between the read
\* and the write.
RefCountMatchesAdds ==
    \A id \in SectorIDs :
        added[id] = IF id \in DOMAIN sectors THEN sectors[id].count ELSE 0

\* ReadSector returns, when it returns data, the bytes that were added under
\* the root it was asked for: never an unwritten slot and never the bytes of
\* another sector, also when the read runs beside adds and failing writes.
ReadReturnsOwnData ==
    \A t \in Workers :
        (/\ call[t] # None
         /\ call[t].op = "ReadSector"
         /\ result[t] # None
         /\ result[t].err = None)
            => result[t].data = DataOf(call[t].root)

\* "wait until all running operation finish their job": at the step at which
\* wg.Wait() lets Close return, no call that has registered with the wait
\* group is still running.
DrainedWhenCloseReturns ==
    [][\A c \in Closers :
         (pc[c] = "wait" /\ pc'[c] = "returned")
            => \A t \in Workers : ~Running(t)]_vars

\* A Close that has switched the manager off returns: the maintenance
\* goroutine takes the stop signal and every call under way finishes.
CloseReturns ==
    \A c \in Closers : (pc[c] = "store") ~> (pc[c] = "returned")

\* Every call that was let in returns: no call waits for a sector lock for
\* ever.
EveryCallReturns ==
    \A t \in Workers : Running(t) ~> (pc[t] = "idle")

\* Stated by the comments of AddStorageFolder and Close, and by the design
\* document ("Close ... blocks until all in-flight operation counters reach
\* zero"): once Close has returned nil, no operation is running.
NoOperationAfterClose ==
    (\E c \in Closers : pc[c] = "returned" /\ result[c] = Ok)
        => \A t \in Workers : ~Running(t)

=============================================================================

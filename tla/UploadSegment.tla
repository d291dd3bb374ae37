---------------------------- MODULE UploadSegment ----------------------------
(***************************************************************************)
(* One unfinished upload segment of the storage client (package            *)
(* storageclient): the goroutine that fetches and encodes its data and     *)
(* hands it to the workers, the workers that upload its sectors, and the   *)
(* clean-up every one of them runs, which gives memory back and releases   *)
(* the segment.                                                            *)
(*                                                                         *)
(* A step is a critical section of uc.mu, or what a goroutine does where   *)
(* no other can reach the segment.  Memory is counted in bytes, sectors by *)
(* their index in sectorSlotsStatus.                                       *)
(*                                                                         *)
(* The functions of the segment are translated from the source.  The       *)
(* worker's loop, the segment's builder and the stuck loop are not in the  *)
(* source tree; what is assumed of them is said where they appear, and in  *)
(* README.md.                                                              *)
(***************************************************************************)
EXTENDS Integers, FiniteSets

CONSTANTS
    Workers,          \* client.workerPool
    Repairer,         \* the goroutine of retrieveDataAndDispatchSegment
    MinSectors,       \* sectorsMinNeedNum
    AllSectors,       \* sectorsAllNeedNum, the length of sectorSlotsStatus
    SectorSize,       \* storage.SectorSize
    FileSectorSize,   \* fileEntry.SectorSize()
    ThresholdNum,     \* RemoteRepairDownloadThreshold is
    ThresholdDen      \*   ThresholdNum / ThresholdDen

ASSUME Assumptions ==
    /\ Repairer \notin Workers
    /\ MinSectors \in 1..AllSectors
    /\ SectorSize \in Nat \ {0} /\ FileSectorSize \in 1..SectorSize
    /\ ThresholdDen \in Nat \ {0} /\ ThresholdNum \in 0..ThresholdDen

VARIABLES
    built,             \* what the builder set and nobody changes: stuck,
                       \*   stuckRepair, the file is on disk, sectors done
    sectorSlotsStatus, \* slot -> uploaded, being uploaded, or given up
    sectorsCompletedNum,
    sectorsUploadingNum,
    workersRemain,
    released,
    memoryReleased,
    unusedHosts,       \* workers whose host holds no sector of the segment
    workerBackups,
    physicalLen,       \* len(physicalSegmentData)
    pendingSegments,   \* uc.id is in uploadHeap.pendingSegments
    fileStuck,         \* the stuck flag of the segment in the dx file
    pc,                \* the step each goroutine is at
    queued,            \* worker -> times uc is in its pendingSegments
    unvisited,         \* workers assignSectorTaskToWorker has to visit yet
    slot,              \* worker -> the slot it uploads, or 0
    path,              \* the way retrieveDataAndDispatchSegment left, or "none"
    crashed            \* a goroutine panicked

counters == <<sectorsCompletedNum, sectorsUploadingNum, workersRemain>>
memory   == <<sectorSlotsStatus, memoryReleased>>
release  == <<released, pendingSegments, fileStuck>>
retrieve == <<physicalLen, unvisited, path>>
worker   == <<unusedHosts, workerBackups, queued, slot>>
vars     == <<built, counters, memory, release, retrieve, worker, pc, crashed>>

Slots   == 1..AllSectors
Threads == Workers \cup {Repairer}

\* Where a goroutine is when it has nothing of the segment in hand.
Home(t) == IF t = Repairer THEN "done" ELSE "loop"

\* The builder asks the memory manager for the erasure coding buffer and one
\* sector per slot; every path below gives back parts of exactly this.
memoryNeeded == FileSectorSize * MinSectors + SectorSize * AllSectors

-----------------------------------------------------------------------------
(* unfinishedUploadSegment *)

\* uc.mu is held across steps only by the goroutine that waits for the
\* stuck loop inside updateUploadSegmentStuckStatus.
Locked == \E t \in Threads : pc[t] = "signal"

Free == {i \in Slots : ~sectorSlotsStatus[i]}

\* Mutant: the second case without its test of sectorsUploadingNum.
IsSegmentUploadCompleteWhileUploading ==
    \/ sectorsCompletedNum = AllSectors /\ sectorsUploadingNum = 0
    \/ workersRemain = 0

\* Every sector is uploaded, or nobody is left to upload one.
IsSegmentUploadComplete ==
    \/ sectorsCompletedNum = AllSectors /\ sectorsUploadingNum = 0
    \/ workersRemain = 0 /\ sectorsUploadingNum = 0

\* Mutant: the list of stand-bys is not emptied (line 198).
notifyBackupWorkersWithoutReset ==
    /\ UNCHANGED workerBackups
    /\ queued' = [w \in Workers |->
                     queued[w] + IF w \in workerBackups THEN 1 ELSE 0]

\* signalUploadChan puts the segment back in the queue of each stand-by.
notifyBackupWorkers ==
    /\ workerBackups' = {}
    /\ queued' = [w \in Workers |->
                     queued[w] + IF w \in workerBackups THEN 1 ELSE 0]

-----------------------------------------------------------------------------
(* retrieveDataAndDispatchSegment *)

Paths == {"retrieveFailed", "encodeFailed", "tooFewSectors", "noCipherKey",
          "dispatched"}

NeedDownload ==
    LET numRedundantSectors == AllSectors - MinSectors
        minMissingSectorsToDownload ==
            (numRedundantSectors * ThresholdNum) \div ThresholdDen
    IN  sectorsCompletedNum + minMissingSectorsToDownload < AllSectors

\* The data can be had: read from the file on disk, or downloaded when
\* enough sectors are missing to make a download worth it.
retrieveLogicalSegmentData(read, downloaded) ==
    \/ built.local /\ read
    \/ (~built.local \/ ~read) /\ NeedDownload /\ downloaded

ErasureCodingMemory == FileSectorSize * MinSectors

SectorCompletedMemory(done) == SectorSize * Cardinality(done)

\* What each way out gives back before the clean-up runs.
Returned(way, done) ==
    [retrieveFailed |-> ErasureCodingMemory + SectorCompletedMemory(done),
     encodeFailed   |-> SectorCompletedMemory(done),
     tooFewSectors  |-> ErasureCodingMemory,
     noCipherKey    |-> ErasureCodingMemory,
     dispatched     |-> ErasureCodingMemory + SectorCompletedMemory(done)][way]

\* Mutant: the sanity check of line 381 is off by one, and a slice one sector
\* short of the slots goes on to the cipher key and to the workers.
EncodedOneShort(way) ==
    [retrieveFailed |-> {physicalLen},
     encodeFailed   |-> {0, AllSectors},
     tooFewSectors  |-> 0..(AllSectors - 2),
     noCipherKey    |-> {AllSectors - 1, AllSectors},
     dispatched     |-> {AllSectors - 1, AllSectors}][way]

\* len(physicalSegmentData) a way out can leave: what the builder made, what
\* Encode returned with its error, fewer sectors than slots, or all of them.
Encoded(way) ==
    [retrieveFailed |-> {physicalLen},
     encodeFailed   |-> {0, AllSectors},
     tooFewSectors  |-> 0..(AllSectors - 1),
     noCipherKey    |-> {AllSectors},
     dispatched     |-> {AllSectors}][way]

\* The segment is pending, and every worker of the pool has a share in it.
dispatchSegment ==
    /\ pendingSegments' = TRUE
    /\ workersRemain' = workersRemain + Cardinality(Workers)
    /\ unvisited' = Workers

\* Stopped, or without an erasure code: it returns before the clean-up is
\* deferred.
Abandon ==
    /\ pc[Repairer] = "start"
    /\ pc' = [pc EXCEPT ![Repairer] = "abandoned"]
    /\ UNCHANGED <<built, counters, memory, release, retrieve, worker, crashed>>

\* From the deferral of the clean-up to the return or to the loop of
\* assignSectorTaskToWorker: no other goroutine has the segment yet.
retrieveDataAndDispatchSegment ==
    /\ pc[Repairer] = "start"
    /\ \E read, downloaded \in BOOLEAN, way \in Paths :
        /\ (way = "retrieveFailed")
              = ~retrieveLogicalSegmentData(read, downloaded)
        /\ path' = way
        /\ memoryReleased' = memoryReleased + Returned(way, Slots \ Free)
        /\ physicalLen' \in Encoded(way)
        /\ \/ /\ way \in {"retrieveFailed", "encodeFailed"}
              /\ workersRemain' = 0
              /\ UNCHANGED <<pendingSegments, unvisited>>
           \/ /\ way \in {"tooFewSectors", "noCipherKey"}
              /\ UNCHANGED <<workersRemain, pendingSegments, unvisited>>
           \/ /\ way = "dispatched"
              /\ dispatchSegment
        /\ pc' = [pc EXCEPT ![Repairer] =
                     IF way = "dispatched" THEN "assign" ELSE "cleanup"]
    /\ UNCHANGED <<built, sectorsCompletedNum, sectorsUploadingNum,
                   sectorSlotsStatus, released, fileStuck, worker, crashed>>

\* One round of the loop: a worker that is ready gets the segment; one that
\* is not gives up its share of it (isReady, outside the source tree).
assignSectorTaskToWorker(w) ==
    /\ pc[Repairer] = "assign"
    /\ w \in unvisited
    /\ unvisited' = unvisited \ {w}
    /\ \/ /\ queued' = [queued EXCEPT ![w] = @ + 1]
          /\ UNCHANGED workersRemain
       \/ /\ ~Locked
          /\ workersRemain' = workersRemain - 1
          /\ UNCHANGED queued
    /\ pc' = [pc EXCEPT ![Repairer] = IF unvisited' = {} THEN "cleanup" ELSE @]
    /\ UNCHANGED <<built, sectorsCompletedNum, sectorsUploadingNum, memory,
                   release, physicalLen, path, unusedHosts, workerBackups,
                   slot, crashed>>

-----------------------------------------------------------------------------
(* cleanupUploadSegment *)

\* Mutant: > for >= at line 462.
KeptOneMore ==
    {i \in Free : Cardinality({j \in Free : j < i}) <= workersRemain}

\* The free slots the loop leaves for the workers that remain (the first
\* workersRemain of them) and the ones it gives up.
Kept ==
    {i \in Free : Cardinality({j \in Free : j < i}) < workersRemain}

Unneeded == Free \ Kept

SuccessfulRepair ==
    (ThresholdDen - ThresholdNum) * AllSectors
        <= ThresholdDen * sectorsCompletedNum

\* The stuck loop is told of a stuck segment it asked for and that is
\* repaired.
TellsStuckLoop == built.stuck /\ SuccessfulRepair /\ built.stuckRepair

\* The flag is written unless the repair failed with the client offline or
\* SetStuckByIndex fails, which is logged and no more.  The caller takes the
\* segment out of pendingSegments when this returns: at once, or when the
\* stuck loop has been told.
updateUploadSegmentStuckStatus(t, clientOffline) ==
    /\ \E setFails \in BOOLEAN :
          fileStuck' = IF (~SuccessfulRepair /\ clientOffline) \/ setFails
                       THEN fileStuck ELSE ~SuccessfulRepair
    /\ pendingSegments' = TellsStuckLoop
    /\ pc' = [pc EXCEPT ![t] =
                 IF TellsStuckLoop THEN "signal"
                 ELSE IF Kept # {} THEN "notify" ELSE Home(t)]

\* Mutant: the slot given up is not marked (line 467).
GiveUpKeepingStatus(unneeded) ==
    /\ memoryReleased' = memoryReleased + SectorSize * Cardinality(unneeded)
    /\ UNCHANGED sectorSlotsStatus

\* The memory of the slots given up goes back, and they are marked.
GiveUp(unneeded) ==
    /\ memoryReleased' = memoryReleased + SectorSize * Cardinality(unneeded)
    /\ sectorSlotsStatus' =
           [i \in Slots |-> sectorSlotsStatus[i] \/ i \in unneeded]

\* The critical section of lines 453-488.
cleanupUploadSegment(t) ==
    /\ pc[t] = "cleanup"
    /\ ~Locked
    /\ Unneeded \subseteq 1..physicalLen
    /\ GiveUp(Unneeded)
    /\ \/ /\ IsSegmentUploadComplete /\ ~released
          /\ released' = TRUE
          /\ \E clientOffline \in BOOLEAN :
                updateUploadSegmentStuckStatus(t, clientOffline)
       \/ /\ ~(IsSegmentUploadComplete /\ ~released)
          /\ pc' = [pc EXCEPT ![t] = IF Kept # {} THEN "notify" ELSE Home(t)]
          /\ UNCHANGED release
    /\ UNCHANGED <<built, counters, retrieve, worker, crashed>>

\* physicalSegmentData[i] = nil (line 464) for a slot the slice does not
\* have: the goroutine panics, and the process with it.
CleanupPanics(t) ==
    /\ pc[t] = "cleanup"
    /\ ~Locked
    /\ ~(Unneeded \subseteq 1..physicalLen)
    /\ crashed' = TRUE
    /\ UNCHANGED <<built, counters, memory, release, retrieve, worker, pc>>

\* The send on stuckSegmentSuccess is taken, or the client stops: until
\* then the goroutine keeps uc.mu and the segment stays in pendingSegments
\* (line 482 follows the return).
Signalled(t) ==
    /\ pc[t] = "signal"
    /\ pendingSegments' = FALSE
    /\ pc' = [pc EXCEPT ![t] = IF Kept # {} THEN "notify" ELSE Home(t)]
    /\ UNCHANGED <<built, counters, memory, released, fileStuck, retrieve,
                   worker, crashed>>

\* The two callers of notifyBackupWorkers: the clean-up that left slots
\* for workers, and the worker whose upload failed.
Notify(t) ==
    /\ pc[t] \in {"notify", "failed"}
    /\ ~Locked
    /\ notifyBackupWorkers
    /\ pc' = [pc EXCEPT ![t] = IF @ = "failed" THEN "cleanup" ELSE Home(t)]
    /\ UNCHANGED <<built, counters, memory, release, retrieve, unusedHosts,
                   slot, crashed>>

-----------------------------------------------------------------------------
(* The worker's loop, outside the source tree *)

\* A sector is neither uploaded nor being uploaded.
NeedsHelp == AllSectors > sectorsCompletedNum + sectorsUploadingNum

\* The worker takes the segment from its queue, under uc.mu.
Takes(w) ==
    /\ pc[w] = "loop" /\ queued[w] > 0
    /\ ~Locked
    /\ queued' = [queued EXCEPT ![w] = @ - 1]

\* The segment is complete, or the worker's host is used.
Drop(w) ==
    /\ Takes(w)
    /\ sectorsCompletedNum >= AllSectors \/ w \notin unusedHosts
    /\ workersRemain' = workersRemain - 1
    /\ pc' = [pc EXCEPT ![w] = "cleanup"]
    /\ UNCHANGED <<built, sectorsCompletedNum, sectorsUploadingNum, memory,
                   release, retrieve, unusedHosts, workerBackups, slot,
                   crashed>>

\* Every sector has its worker: this one waits for one of them to fail.
StandBy(w) ==
    /\ Takes(w)
    /\ sectorsCompletedNum < AllSectors /\ w \in unusedHosts /\ ~NeedsHelp
    /\ workerBackups' = workerBackups \cup {w}
    /\ pc' = [pc EXCEPT ![w] = "cleanup"]
    /\ UNCHANGED <<built, counters, memory, release, retrieve, unusedHosts,
                   slot, crashed>>

\* It takes the first free slot.
Upload(w) ==
    /\ Takes(w)
    /\ sectorsCompletedNum < AllSectors /\ w \in unusedHosts /\ NeedsHelp
    /\ \E i \in Free :
        /\ \A j \in Free : i <= j
        /\ sectorSlotsStatus' = [sectorSlotsStatus EXCEPT ![i] = TRUE]
        /\ slot' = [slot EXCEPT ![w] = i]
    /\ unusedHosts' = unusedHosts \ {w}
    /\ sectorsUploadingNum' = sectorsUploadingNum + 1
    /\ workersRemain' = workersRemain - 1
    /\ pc' = [pc EXCEPT ![w] = "uploading"]
    /\ UNCHANGED <<built, sectorsCompletedNum, memoryReleased, release,
                   retrieve, workerBackups, crashed>>

\* The sector is on the host: its memory goes back.
UploadSucceeds(w) ==
    /\ pc[w] = "uploading"
    /\ ~Locked
    /\ sectorsUploadingNum' = sectorsUploadingNum - 1
    /\ sectorsCompletedNum' = sectorsCompletedNum + 1
    /\ memoryReleased' = memoryReleased + SectorSize
    /\ slot' = [slot EXCEPT ![w] = 0]
    /\ pc' = [pc EXCEPT ![w] = "cleanup"]
    /\ UNCHANGED <<built, workersRemain, sectorSlotsStatus, release, retrieve,
                   unusedHosts, workerBackups, queued, crashed>>

\* The slot is free again, and the stand-bys are told next.
UploadFails(w) ==
    /\ pc[w] = "uploading"
    /\ ~Locked
    /\ sectorsUploadingNum' = sectorsUploadingNum - 1
    /\ sectorSlotsStatus' = [sectorSlotsStatus EXCEPT ![slot[w]] = FALSE]
    /\ slot' = [slot EXCEPT ![w] = 0]
    /\ pc' = [pc EXCEPT ![w] = "failed"]
    /\ UNCHANGED <<built, sectorsCompletedNum, workersRemain, memoryReleased,
                   release, retrieve, unusedHosts, workerBackups, queued,
                   crashed>>

-----------------------------------------------------------------------------
(* The specification *)

\* A segment as the builder leaves it: some of its sectors are on hosts
\* already, and those hosts are not offered another.
Builds ==
    {b \in [stuck : BOOLEAN, stuckRepair : BOOLEAN, local : BOOLEAN,
            done : SUBSET Slots, used : SUBSET Workers] :
        /\ b.stuckRepair => b.stuck
        /\ b.done # Slots
        /\ Cardinality(b.used) <= Cardinality(b.done)}

Init ==
    /\ built \in Builds
    /\ sectorSlotsStatus = [i \in Slots |-> i \in built.done]
    /\ sectorsCompletedNum = Cardinality(built.done)
    /\ sectorsUploadingNum = 0
    /\ workersRemain = 0
    /\ released = FALSE
    /\ memoryReleased = 0
    /\ unusedHosts = Workers \ built.used
    /\ workerBackups = {}
    /\ physicalLen = AllSectors
    /\ pendingSegments = FALSE
    /\ fileStuck = built.stuck
    /\ pc = [t \in Threads |-> IF t = Repairer THEN "start" ELSE "loop"]
    /\ queued = [w \in Workers |-> 0]
    /\ unvisited = {}
    /\ slot = [w \in Workers |-> 0]
    /\ path = "none"
    /\ crashed = FALSE

Cleanup(t) ==
    cleanupUploadSegment(t) \/ CleanupPanics(t) \/ Signalled(t) \/ Notify(t)

RepairerStep ==
    \/ Abandon
    \/ retrieveDataAndDispatchSegment
    \/ \E w \in Workers : assignSectorTaskToWorker(w)
    \/ Cleanup(Repairer)

WorkerStep(w) ==
    \/ Drop(w) \/ StandBy(w) \/ Upload(w)
    \/ UploadSucceeds(w) \/ UploadFails(w)
    \/ Cleanup(w)

\* Every goroutine is through with the segment, or the process is gone.
Settled ==
    \/ crashed
    \/ /\ pc[Repairer] \in {"done", "abandoned"}
       /\ \A w \in Workers : pc[w] = "loop" /\ queued[w] = 0

Finished == Settled /\ UNCHANGED vars

Next ==
    \/ ~crashed /\ RepairerStep
    \/ ~crashed /\ \E w \in Workers : WorkerStep(w)
    \/ Finished

Spec == Init /\ [][Next]_vars

\* The scheduler runs every goroutine that can take a step, and the stuck
\* loop comes back to its receive.
FairSpec ==
    /\ Spec
    /\ WF_vars(~crashed /\ RepairerStep)
    /\ \A w \in Workers : WF_vars(~crashed /\ WorkerStep(w))

-----------------------------------------------------------------------------
(* Properties *)

TypeOK ==
    /\ built \in Builds
    /\ sectorSlotsStatus \in [Slots -> BOOLEAN]
    /\ sectorsCompletedNum \in 0..AllSectors
    /\ sectorsUploadingNum \in 0..AllSectors
    /\ workersRemain \in 0..Cardinality(Workers)
    /\ released \in BOOLEAN
    /\ memoryReleased \in 0..memoryNeeded
    /\ unusedHosts \subseteq Workers
    /\ workerBackups \subseteq Workers
    /\ physicalLen \in 0..AllSectors
    /\ pendingSegments \in BOOLEAN
    /\ fileStuck \in BOOLEAN
    /\ pc \in [Threads -> {"start", "abandoned", "assign", "cleanup", "signal",
                           "notify", "done", "loop", "uploading", "failed"}]
    /\ queued \in [Workers -> 0..1]
    /\ unvisited \subseteq Workers
    /\ slot \in [Workers -> 0..AllSectors]
    /\ path \in Paths \cup {"none"}
    /\ crashed \in BOOLEAN

\* Every slot's memory is given back once, when the slot is settled.  After
\* retrieveDataAndDispatchSegment has left by some way, memoryReleased is
\* what that way returned (lines 349-408) and one sector for every slot that
\* is marked and neither was done before nor is being uploaded: marked by
\* cleanupUploadSegment (lines 462-468) when it gave the slot up, or by a
\* worker whose upload succeeded.  A slot given up twice, or a sector
\* returned while its upload runs, breaks it.
MemoryAccounted ==
    path # "none" =>
        memoryReleased =
            Returned(path, built.done)
            + SectorSize * Cardinality({i \in Slots \ built.done :
                  sectorSlotsStatus[i] /\ \A w \in Workers : slot[w] # i})

\* Once cleanupUploadSegment has released the segment (lines 474-484) and
\* updateUploadSegmentStuckStatus has judged the repair by
\* sectorsCompletedNum, no upload ends or begins: the stuck flag written to
\* the file is about the final count, not about one that an upload still in
\* flight changes afterwards.
NothingUploadsAfterRelease ==
    [][released => /\ sectorsCompletedNum' = sectorsCompletedNum
                   /\ sectorsUploadingNum' = sectorsUploadingNum]_vars

\* A segment whose clean-up was deferred (line 345) is released in the end,
\* taken out of pendingSegments so that the heap can queue it again, and
\* every goroutine is through with it and no slot is left holding its
\* sector, whatever fails on the way: workers that are not ready, uploads
\* that fail with stand-bys waiting to be told (notifyBackupWorkers), slots
\* kept for workers that then drop the segment (line 462), the wait for the
\* stuck loop under uc.mu (line 581).  The one other end is the panic of
\* the clean-up.
UploadSettles ==
    pc[Repairer] \notin {"start", "abandoned"}
        ~> crashed \/ (released /\ ~pendingSegments /\ Settled /\ Free = {})

\* The clean-up writes physicalSegmentData[i] = nil for every slot it gives
\* up (line 464), with i bounded by the slots and not by the slice.  Only
\* the two returns that leave the slice short can make that index run out
\* of range: the failed Encode, which hands back what it has (line 364), and
\* the sanity check of line 381, which returns before anybody has a share
\* in the segment.  A segment that went on to the cipher key or to the
\* workers, or whose data could not be retrieved, never panics a goroutine,
\* whichever goroutine runs the clean-up and however many slots are free.
PanicOnlyAfterShortEncode ==
    crashed => path \in {"tooFewSectors", "encodeFailed"}

\* "Sanity check - all memory should be released if the segment is
\* complete" (cleanupUploadSegment, lines 499-502): a released segment has
\* given back all of memoryNeeded.
AllMemoryReleased ==
    released => memoryReleased = memoryNeeded

=============================================================================

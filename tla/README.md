# TLA+ models of godx storage

This directory holds TLA+ models of the storage code of godx, the TLC
configurations that check them, and `PROJECT.json`, which lists every
component, run, mutant, source mapping, finding and hazard in machine-readable
form.  Source paths below are relative to the repository root; `part_003`
stands for `src/unnamed/part_003`, and so on.

## 1. The system

| Part | Source | What it is |
|---|---|---|
| Storage manager façade | `part_003` | `New`, `AddStorageFolder`, `AddSector`, `ReadSector`, `Close` of package `storagemanager`: the host's content-addressed sector store |
| Sector lock table | called from `part_003`, body not in the tree | one exclusive lock per sector id |
| Storage folder, folder index, sector index | called from `part_003`, bodies not in the tree | slots of a folder, map folder index → folder, map sector id → {folder, slot, count} |
| Write-ahead log, startup replay | not in the tree; exercised by `part_002:539-712` | crash atomicity of adds: prepare, process, commit, release, and the replay at start |
| Maintenance goroutine | started at `part_003:53`, body not in the tree | background commit loop, stopped through `stopChan` |
| Storage manager tests | `part_002:476-880` | single-caller scripts with fault injection and a stop before the update has finished; `checkSectorExist` and its siblings say what a consistent store is |
| Storage contract validation | `src/core/vm/storage_contract_validation.go:54-341` | `CheckFormContract`, `CheckReversionContract`, `CheckMultiSignatures`, `CheckStorageProof` |
| Merkle proof verification | same file, `344-472` | `VerifySegment`, `CalculateLeaves`, `VerifyProof`, `HashSum` |
| Peer negotiation | same file, `478-837` (package `eth`) | `TriggerError`, the `Send*`/`Request*` functions, the waits that race a timer, one-slot channels used as try-locks |
| Upload segment scheduling | `part_001:121-584` | `unfinishedUploadSegment`, dispatch, retrieval and cleanup |
| DxFile metadata and persistence arithmetic | `part_000:94-298`, `part_001:1-120` | page and segment arithmetic, `dxfile.New` |
| Host evaluation | `part_000:1-93` | floating-point scores |
| Storage types, API filter | `part_002:1-475` | type declarations, `FilterAPIs` |
| Miner and client-setting tests | `src/miner`, `src/storage/storageclient` | tests of code that is not in the tree |

### The storage manager

State (`part_003:15-38`): the salt, the maps `folders`, `sectors` and
`sectorLocks`, the write-ahead log with its mutex `wal.lock`, the unbuffered
channel `stopChan`, the word `atomicSwitch`, the mutex `folderLock` and the
wait group `wg`.

Operations and the steps at which they touch shared state:

* `New` (42-56) builds the manager, adds 1 to the wait group for the
  maintenance goroutine and starts it.
* `AddStorageFolder` (60-88), `AddSector` (90-123) and `ReadSector` (125-160)
  open the same way: load `atomicSwitch` and return an error when it is 1;
  then, as a separate step, `wg.Add(1)` with `wg.Done()` deferred.
* `AddSector` then takes the sector's lock (unlock deferred, so it runs before
  `Done`), reads the sector map under `wal.lock`, and calls
  `addVirtualSector` with the copy it read when the sector exists,
  `addStorageSector` otherwise.
* `ReadSector` takes the sector's lock, reads both maps (the folder with the
  index found in the sector, which is the zero value when the sector is
  missing), returns early on a missing sector, a missing folder or an
  unavailable folder, and reads the slot.
* `Close` (173-192) loads the switch and returns an error when it is 1, stores
  1, sends on `stopChan`, and waits for the wait group.

What makes it hard: every guard above is a check followed by an act, with
other goroutines free to run between the two; the sector lock is the only
thing that orders two calls on one root; calls on different roots share the
folders; and `Close` completes only if somebody receives from `stopChan` and
everybody calls `Done`.

What must hold: a folder's occupancy, its counter and the sector index agree
(the tests' `checkSectorExist`, `checkFoldersHasExpectedSectors`); a sector's
reference count is the number of successful adds; a read returns the data
added under its root; `Close` returns, and returns only when nothing is
running.

## 2. Module `StorageManager`

`StorageManager.tla` models the façade; its runs check the module itself.

| Variable | Code |
|---|---|
| `atomicSwitch`, `wg` | the fields of that name |
| `maintenance` | the maintenance goroutine and the rendezvous on `stopChan`: `running`, `stopping` (signal received), `stopped` |
| `folders`, `sectors`, `sectorLocks` | the maps of that name; a folder is `[usage, sectors, atomicUnavailable]`, a sector `[index, storageFolder, count]`, a lock its owner |
| `sectorData` | the contents of the folders' data files |
| `pc`, `call`, `found`, `place`, `result`, `calls` | per goroutine: program counter, arguments, the locals `sector` (AddSector) and `ss`/`sf` (ReadSector), the return value, the number of calls made |
| `added` | history variable: successful adds per sector id |

A sector's bytes are represented by its merkle root (`DataOf`), and the sector
id by the pair of salt and root (`getSectorID`): one id per root, as the salted
hash gives in the absence of collisions.

Actions of a calling goroutine, in the order of the code:

| Action | Code | Step |
|---|---|---|
| `AddStorageFolderCheck`, `AddSectorCheck`, `ReadSectorCheck` (all `Check`) | 64-66, 93-95, 128-130 | load the switch, return `shutDown` or go on |
| `Register` | 71, 97, 132 | `wg.Add(1)` |
| `LockSector` | 105, 138 | wait for the sector's lock and take it |
| `AddSectorLookup` | 108-116 | read the sector under `wal.lock`, branch |
| `AddVirtualSector`, `AddVirtualSectorFails` | 113 | write back the copy with `count + 1`, or fail |
| `ReserveSlot`, `NoSpace`, `WriteSlot`, `WriteSlotFails`, `CommitSector` | 115 | first-fit reservation, write, commit; or no space; or a failed write that gives the slot back and marks the folder unavailable |
| `ReadSectorLookup` (`ReadPlan`, `Plan`) | 141-155 | both map reads and the three early returns |
| `ReadData` | 157-170 | the bytes of the slot, or a read failure |
| `PrepareAddStorageFolder`, `ProcessAddStorageFolder` | 78-85 | refuse, or take a free folder index for a folder that is not yet available; then open it or forget it |
| `UnlockSector`, `Done` | deferred, 106/139 and 72/98/133 | release the lock, then leave the wait group |

Actions of `Close` and of the maintenance goroutine: `CloseCheck` (175-177),
`CloseStore` (180), `CloseSignal` (186, enabled only while the maintenance
goroutine is there to receive), `MaintenanceExit`, `CloseWait` (189-191,
enabled when `wg = 0`).

`Finished` is the stuttering step of a system in which every caller has made
its calls and every `Close` has returned, so that TLC's deadlock check reports
exactly the states in which a goroutine is blocked for ever.

### Translated from the code, and taken from the design document

The exported methods are translated line by line from `part_003`.  The helpers
they call are not in the source tree, and their effect is taken from the
design document (`spec.md` §2, §4.3, §4.5, §7); `PROJECT.json` marks these
definitions `spec_modelled`:

* `addStorageSector`: "choose a folder with a free slot (first folder with
  used < capacity, or fail ...); reserve slot; ... write data to the slot; ...
  update ... Sector Index"; on a write failure "the engine marks the folder
  unavailable" and "a failed AddSector leaves no partial sector visible".
* `addVirtualSector`: "increment the reference count", applied to the sector
  value passed in by `AddSector`.
* `prepareAddStorageFolder` / `processAddStorageFolder`: "a failed AddFolder
  leaves no partial folder visible"; the folder index is chosen in the first
  half so that two concurrent calls cannot pick the same one.
* `startMaintenance`: stopped by "a dedicated stop signal", and counted in the
  wait group by `New`.
* `lockSector` / `unlockSector`: "blocks until exclusive access granted".  The
  reference counting and removal of idle locks is left out: it does not change
  who may hold a lock.

Nothing is persisted in this module, so no crash or restart is modelled here:
that is module `SectorRecovery` (section 8).

## 3. Runs of `StorageManager`

| Run | Spec | Constants | Result | Distinct states |
|---|---|---|---|---|
| `sm` | `FairSpec` | 2 workers × 2 calls, 1 closer, 2 roots, 2 folders × 2 slots | passes | 292,518 |
| `sm_close_race` | `Spec` | 1 worker × 1 call, 1 closer | `NoOperationAfterClose` violated | — |
| `sm_double_close` | `FairSpec` | 1 worker × 1 call, 2 closers | `CloseReturns` violated | — |

### `sm`: safety

* `TypeOK`: the variables keep their types; in particular `wg` never goes
  below zero, on which `wg.Done` panics.
* `SlotsAccountedFor`: in every folder the occupancy set is exactly the set of
  slots of the sectors stored there and of the physical adds under way, no
  slot has two holders, and the sector counter is the size of the occupancy
  set.  It relates three pieces of state that three different steps update.
* `RefCountMatchesAdds`: `sectors[id].count` equals the number of successful
  adds of `id`.  `AddSector` hands `addVirtualSector` a copy read earlier; the
  property fails as soon as two adds of one root overlap.
* `ReadReturnsOwnData`: a read that returns data returns the data of its
  root.  It depends on the order of the early returns of `ReadSector` (the
  folder lookup with the zero value's index precedes the test of `exists1`)
  and on the sector becoming visible only after its data is written.
* `DrainedWhenCloseReturns` (action property): at the step at which `wg.Wait`
  lets `Close` return, no registered call is running.

Bounds.  Two workers give every pair of overlapping calls; the four calls
they make between them are enough for a folder to be added, a sector to be
added to it, and the same sector to be added again (virtual) beside a read,
and for two folders to be added, a write to fail in the first and the next
add to go to the second.  Two roots give both same-lock and different-lock
overlap.  Two folders of two slots let two adds reserve slots of one folder
at the same time, a write failure disable a folder that already holds a
sector, and `NoSpace` occur.  The invariants and the temporal properties are
checked on the same state space, so no symmetry set is used.

### `sm`: liveness

* `CloseReturns`: a `Close` that got past its check returns.
* `EveryCallReturns`: a registered call returns.

Fairness: weak fairness of `Proceed(t)` for each worker, of `Shutdown(c)` for
each closer and of `MaintenanceExit`.  The Go scheduler runs every runnable
goroutine, so a goroutine whose next step stays enabled takes it.  Nothing
obliges a caller to *enter* a method, so `Enter` and `CloseCheck` are not
fair.  A goroutine waiting for a sector lock is served here because its
competitors make a bounded number of calls (`MaxCalls`); with callers that
never stop, weak fairness would not exclude starvation, and the model makes no
claim about that.  Two roots and two folders put a call that waits for a
sector lock beside calls that hold another lock, and beside a `Close` that
waits for all of them.

### `sm_close_race` (finding)

`NoOperationAfterClose` states what the comments at `part_003:68-70` and `:188`
and the design document say: once `Close` has returned nil, no operation is
running.  TLC finds the violation in eight steps: a worker passes its check,
`Close` checks, stores, signals, the maintenance goroutine exits, `Close`
finds the wait group at zero and returns, and the worker then runs
`wg.Add(1)` and goes on to work on a manager that is closed.  The three
calls share the prologue (the check at lines 64, 93 and 128, the
registration at 71, 97 and 132), so the violation is reached with any of
them; the trace TLC reports first is one of `AddStorageFolder`.  The check
and the registration are two steps; making them one requires registering
first and testing the switch afterwards.

### `sm_double_close` (finding)

`CloseReturns` with two goroutines that call `Close`.  The design document
has `Close` set the flag atomically and the second call fail with
`AlreadyShutDown`; the code answers "already closed" to a `Close` that finds
the switch on (line 176).  TLC finds the property violated: both calls read
the switch as 0 (line 175), both store 1 (line 180), the maintenance
goroutine receives one signal and exits, and the second `Close` waits for
ever at the send of line 186.  The TODO at lines 183-185 names the infinite
wait for a `Close` "when the maintenance not running"; a compare-and-swap on
the switch would turn the second call away before it reaches the channel.
The run has no deadlock check: the state in which the second `Close` hangs
and everything else has finished is where the program stops.

### Mutants

Each property of a passing run is shown to depend on the code: `PROJECT.json`
names, for each, a definition and a mutated form of it under which TLC finds
the property violated (for example `LockSectorNoWait`, a lock that does not
wait, breaks `RefCountMatchesAdds`; `DoneKeepsCount`, a return without
`wg.Done`, breaks `CloseReturns`).

## 4. Module `MerkleProof`

`MerkleProof.tla` models how a storage proof is verified
(`storage_contract_validation.go:315-472`): `CalculateLeaves`, the length of
the segment taken from the proof (lines 315-327), `VerifySegment`,
`VerifyProof` and `HashSum`, and the decision of `CheckStorageProof` on the
result (lines 329-341).

### Data

* A byte is a one-element tuple `<<k>>`; the file of size `n` is the bytes
  `<<1>> .. <<n>>`, all different.
* A hash sum is the tuple `<<"sum", bytes>>` of what was hashed
  (`Digest`): two inputs have one sum exactly when they are the same bytes,
  which is what the code relies on in Keccak-256.  A sum is itself one
  element of a byte string, so that a string of sums can be hashed again.
* `SegmentSize` is 2 in the runs (64 in the code).  What matters is kept: a
  segment is exactly as long as two sums (64 = 2 × 32 in the code, 2 = 2 × 1 in
  the model), and the last segment may be shorter.

### Actions

`VerifyProof` is run one step per pass of its loops, with the locals `height`,
`sum` and `stableEnd` as variables and a program counter.

| Action | Lines | Step |
|---|---|---|
| `Init` | 310, 354-376 | a contract (file size, root), a segment index below the number of leaves, a proof |
| `VerifyProofStart` | 315-327, 344-352, 386-412 | leaves, segment length, proof set; the three early `return false`; the hash of the segment |
| `SubtreeHash`, `SubtreeMissing`, `SubtreeIncomplete` | 413-439 | one pass of the loop over complete subtrees: combine with the sibling on the left or right, fail when the proof has run out, or leave the loop |
| `OrphanNone`, `OrphanMissing`, `OrphanHash` | 441-450 | the sibling that closes the incomplete part of the tree |
| `LeftSibling`, `Compare` | 452-463 | every remaining sum is taken as a left sibling; then the comparison with the root |
| `Return` | 329-341 | `errInvalidStorageProof` unless verified or the file is empty |

### The reference

`TreeRoot` and `AuditPath` define, by recursion on a range of leaves split at
the largest power of two below its length, the root of the file's tree and the
path of a leaf.  They are written from the definition of the tree, not from
`VerifyProof`, and the properties compare the two.

### Runs

| Run | Constants | Result | Distinct states |
|---|---|---|---|
| `merkle` | files of 0..16 bytes (1..8 leaves) | passes | 680,494 |
| `merkle_forged` | files of 0..10 bytes (1..5 leaves) | `AcceptedProofHoldsSegment` violated | — |

`MCMerkleProof.tla` gives the proofs that are tried.  For trees of up to
`ExhaustiveLeaves = 4` leaves: every hash set of up to `MaxProofLen = 3`
elements over every sum of the tree and one that is not in it, with every
segment that is a leaf of the file or the two child sums of an inner node.
For 5 to 8 leaves, where that set is too large: the genuine path of every
leaf, and each path with its last element dropped, one element added or one
element replaced.  Trees of 5, 6 and 7 leaves are where the orphan case and
the incomplete subtree happen; 8 is the next complete one.

`merkle` checks:

* `GenuineProofAccepted` — for every file, every index and the genuine segment
  and path, `CheckStorageProof` returns nil (completeness; the last segment
  of any length included).
* `OnlyGenuineAmongFileSegments` — a proof whose segment is made of bytes of
  the file is accepted only if it is that segment with that path.
* `SumIsSubtreeRoot` — the loop invariant: while a genuine proof is walked,
  `sum` at each height is the root of the subtree the reference gives.
* `TypeOK`.

### `merkle_forged` (finding)

`AcceptedProofHoldsSegment` says that an accepted proof of a non-empty file
holds the segment asked for.  It is violated: for a file of 5 leaves and index
4, the "segment" made of the sum of leaves 0-3 and the sum of leaf 4, with an
empty hash set, hashes to the root.  `HashSum` hashes leaves and inner nodes
alike, a segment is as long as two sums, and the last loop of `VerifyProof`
takes however many siblings the proof has; when the segment asked for is in
the tree's last, incomplete part, a proof can start one or more levels up.
A host can answer such a challenge from sums alone.

## 5. Module `ContractValidation`

`ContractValidation.tla` models the checks of storage transactions
(`storage_contract_validation.go:54-376`).

### The checks are operators

`CheckFormContract`, `CheckReversionContract`, `CheckMultiSignatures`,
`storageProofSegment` and `CheckStorageProof` read the state and return an
error; they change nothing (but see line 95 below).  Each is an operator whose
value is the error returned, written as the list of the function's tests in
their order, `FirstError` picking the first that fails:

| Operator | Lines |
|---|---|
| `CheckFormContract` (`ZeroOutput`, `WindowViolation`, `Payout`) | 54-126 |
| `CheckReversionContract` (`LateRevision`, `LowRevisionNumber`, `RevisionPayouts`) | 128-212 |
| `CheckMultiSignatures` (`RecoveredConditions`, `Signer`) | 214-292 |
| `CheckStorageProof` (`TooEarly`), `storageProofSegment` (`TriggerHeight`) | 294-341, 354-366 |

`Payout` is line 95: `big.Int.Add` stores its result in the receiver, which is
the contract's `RenterCollateral.Value`, so the operator yields the contract
with the renter's collateral replaced by the sum, and the tests after it read
that contract.

`CheckMultiSignatures` is modelled for the two cases of its type switch that
these checks reach.  With other than two signatures its locals keep their zero
values (`ZeroSignature`, `ZeroUnlockConditions`, the key `None`) and the
function goes on, as in the code.

### What is outside the file

| Model | Code (not in the tree) | Assumed |
|---|---|---|
| `UnlockHash(uc)` | `UnlockConditions.UnlockHash` | injective: the tuple of the fields hashed |
| `ID(fc)` | `StorageContract.ID` | injective on the contract without its signatures |
| a signature `[by, ok]` | `types.Signature` | `by`: the key it recovers to (`None`: recovery fails); `ok`: it verifies over the data presented |
| `VerifySignature` | `VerifyStorageContractSignatures` | true for a key's own valid signature only; never for the zero key |
| `GetStorageContract` | `rawdb` | the stored contract, or an error |
| `FormContract`, `Revision`, `Stored`, `Revised` | the callers of the checks | a contract is stored when its check returns nil; a revision replaces the window, file size, outputs, unlock hash, revision number and signatures |
| `NewBlock` | the chain | `currentHeight` grows by one |

Balances are read, never changed: how collateral is taken is outside the
tree.  Whether a proof's segment verifies is an input (`verified`) of
`CheckStorageProof` here, and the subject of `MerkleProof`.  `at`, in a stored
contract, is a history field: the height it was last accepted at.

### Runs

| Run | Constants | Result | Distinct states |
|---|---|---|---|
| `cv` | 2 keys, heights 0..3, 1 contract, revision numbers ≤ 2 | passes | 12,364 |
| `cv_form_balance` | same | `RenterRejectedOnlyWhenShort` violated | — |
| `cv_revision_signers` | same, 3 keys | `RevisedByContractParties` violated | — |

`MCContractValidation.tla` gives the transactions submitted: at each height a
contract that is accepted (collaterals 1 and 1, window in the next two
blocks, signed by both parties) and every contract that differs from it in
one respect: one field, the two output lists together, or the unlock hash
together with the signatures (two signatures of any keys in any order, one
of them spoilt or unrecoverable, none, one, three).  Revisions likewise,
around a revision of the stored contract that is accepted.  Balances are 1 or
2 for each party.  Four blocks are enough for a contract formed at height 0
to reach its window, pass it and be revised twice on the way.
`BlockHeightBits = 8` stands for the 64 bits of a block height: the only
arithmetic that can wrap is `WindowStart - 1`.

`cv` checks:

* `PayoutConserved` — through any sequence of revisions the valid and the
  missed outputs of a stored contract each sum to the two collaterals it was
  formed with.
* `CoSigned` — every stored contract, formed or revised, carries exactly two
  signatures that verify, of the keys its unlock hash names.
* `RevisionsSupersede` — an accepted revision raises the revision number, so a
  revision delivered twice or out of order changes nothing.
* `ProofChallengeFresh` — whenever a proof would be accepted, the block whose
  hash draws the segment exists and is not older than the block that fixed the
  file.
* `TypeOK`, which includes that `WindowStart - 1` never wraps for a stored
  contract.

The two properties on the checks themselves (`ProofChallengeFresh`,
`RenterRejectedOnlyWhenShort`) quantify over every transaction submitted in
every reachable state.

### Findings

* `cv_form_balance` — line 95 changes the renter's collateral to the sum of
  both collaterals before the balance check of line 110: a renter with balance
  1 and collateral 1 is rejected ("renter has not enough balance") next to a
  host of collateral 1.
* `cv_revision_signers` — the signers of a revision are checked against the
  revision's own `NewUnlockHash`, and the revision's own `UnlockConditions`
  against the stored hash; the signers are never compared with the keys that
  hold the contract.  TLC shows a contract revised by keys other than the ones
  in its unlock conditions.

### The boundary of the revision window

The comment at lines 172-174 wants the height of a revision below
`WindowStart`; the test at line 175 rejects one only above it, so a revision
is accepted at `WindowStart`, the first block in which a proof is accepted
too.  `CheckReversionContract` has the test as the code has it, and run `cv`
reaches a revision at that height.  The boundary is listed among the hazards
without a property of its own: what a revision in the same block as a proof
does to the payout is decided outside this file.

## 6. Module `PeerNegotiation` (and `TryLock`)

The second half of `storage_contract_validation.go` is the storage side of
the eth `peer`: what a storage client and a storage host call to negotiate
over one connection.  The module models one connection, with the peer object
at its client end and the one at its host end.

### State

| Variable | Code |
|---|---|
| `lock` | the four `chan struct{}`: `hostConfigProcessing`, `hostContractProcessing`, `contractRevisingOrRenewing`, `hostConfigRequesting` |
| `inbox` | the three `chan p2p.Msg`: `clientConfigMsg`, `clientContractMsg`, `hostContractMsg` |
| `wire` | what `p2p.Send` has written to an end and that end's read loop has not read |
| `errMsg` | `p.errMsg` of each end |
| `stopped` | `StopChan()` of each end is closed; `checkPeerStopHook` returns an error |
| `client`, `handler` | where each client goroutine and each host handler is (`send`, `wait`, `done`), the code it sent last, its negotiation |
| `started` | negotiations begun (bound `MaxSessions`) |
| `quiet`, `strays` | history variables: no wait has timed out yet; the pairs (negotiation, negotiation of the message it took) that differ |

### Translated from the code

| Definition | Code | |
|---|---|---|
| `TriggerError` | 492-497 | send to `errMsg` if there is room, `default` drops the error |
| `Send` | 501-694 | the one body of the twenty `Send*`/`Request*` functions: `checkPeerStopHook`, then `p2p.Send` |
| `ConfigExchange`, `CreateExchange`, `UploadExchange`, `DownloadExchange`, `CommitExchange`, `HostSends`, `NegotiateError` | 499-694 | which code each function sends and, from its comment, what it answers.  `Answer(code)` is the set of codes that may answer `code`; a party that does not accept what it received answers with its `NegotiateError` instead |
| `Select`, `WaitConfigResp`, `ClientWaitContractResp`, `HostWaitContractResp` | 696-742 | the outcomes of the `select`: the head of the channel, the timer, `StopChan`.  The timer may win at any moment, also against a message that is there |
| `Offer`, `Drain` and the eight guard functions | 744-828 | `select` with `default`: a token is put in if there is room, taken out if there is one |

`IsStaticConn` and `PeerNode` (830-838) return a field and are left out.

### Outside the file

The callers are not in the tree; the comments of the functions say who
calls what, and the actions follow them:

* a client goroutine takes the guard of its kind of negotiation (`Begin`:
  `TryRequestHostConfig` for a configuration request, `TryToRenewOrRevise`
  for a contract negotiation), sends, waits, answers what it got until the
  exchange ends or fails, and gives the guard back (`ClientDone`);
* the host's read loop meets a request (`Admit`): `HostConfigProcessing` or
  `HostContractProcessing` lets it in and a handler is started, or refuses
  it; a refused contract request is answered `HostBusyHandleReqMsg`;
* a handler answers, waits for the client's next message with
  `HostWaitContractResp`, and gives the guard back (`HandlerDone`);
* a read loop puts every other message in the channel of its code
  (`Deliver`), when the channel has room;
* a party whose negotiation has ended may report an error (`Report`, the
  caller of `TriggerError`), and the read loop that finds an error in
  `errMsg` leaves, which stops that end (`Disconnect`).

Assumptions made here, since the code that would settle them is not in the
tree: the channels have capacity one (`ChanCap`); a read loop that finds a
channel full waits; a refused configuration request is dropped; a stopped
end begins no new negotiation.

### `TryLock`, and the refinement

`TryLock` is what the comments promise of a guard: a lock that is tried and
never waited for, held by one caller at a time, free again when its holder is
done.  `PeerNegotiation` instantiates it four times, once for each guard:
`held` is "the channel holds a token", `holders` the goroutines or handlers
between their successful try and their `Done`.  `GuardsAreTryLocks` is the
conjunction of the four `TryLock!Spec`: every step of the peer is a step of
each lock or leaves it unchanged.

### Run `peer`

`peer.cfg`: two client goroutines, two negotiations begun between them
(`MaxSessions = 2`), each a configuration request, a contract creation (the
longest exchange) or a download (the shortest); 316,724 distinct states,
depth 34.  Two negotiations are what the cases need: two goroutines that
contend for one guard, a request that meets a handler still at work, a late
answer met by the next negotiation, an end that stops half way.  The upload
exchange has the shape of the creation exchange and is left out of the
instance.

| Property | Says |
|---|---|
| `TypeOK` | types; no channel holds more than `ChanCap` |
| `GuardsAreTryLocks` | the four guards implement `TryLock` |
| `AnswersOwnRequest` | while no wait has timed out, the message a wait returns to a party that waits for that code was sent in the party's own negotiation |
| `ReadLoopNeverBlocked` | while no wait has timed out, a read loop never has a message for a channel that is full |
| `GuardsGivenBack` | a guard that is taken is given back (liveness) |

Fairness (`FairSpec`): weak fairness of the steps of each client goroutine
and of each handler.  A goroutine that can run is scheduled, and a wait can
always return, through its timer if nothing else.  Nothing is assumed of the
read loops or of the network: `GuardsGivenBack` holds when no message is ever
delivered.

`AnswersOwnRequest` and `ReadLoopNeverBlocked` carry the premise `quiet`
because they fail without it.  After `WaitConfigResp` has timed out and the
client has called `RequestHostConfigDone`, the next `TryRequestHostConfig`
succeeds; the host's answer to the first request arrives, and the second
request's `WaitConfigResp` returns it.  The answer to the second request then
stays in `clientConfigMsg` for the third.  Nothing in this file empties a
channel.  Whether the callers drop the connection after a timeout is not in
the tree, so this is recorded as a hazard and not as a finding.

Mutants: `TriggerError` without its `default` (`TypeOK`),
`HostContractProcessing` that lets a request in while the guard is held
(`GuardsAreTryLocks`), `TryToRenewOrRevise` that always succeeds
(`AnswersOwnRequest`), `TryRequestHostConfig` that always succeeds
(`ReadLoopNeverBlocked`), `HostWaitContractResp` without its timer
(`GuardsGivenBack`).

## 7. Module `UploadSegment`

`src/unnamed/part_001:121-584`, package `storageclient`: one
`unfinishedUploadSegment` from the moment the upload loop hands it to
`retrieveDataAndDispatchSegment` until every goroutine is through with it.
The segment holds memory the builder asked the memory manager for; every
sector that is uploaded or given up returns its share, and the segment is
released (taken out of `uploadHeap.pendingSegments`, its stuck flag written)
by whichever clean-up first finds it complete.

### State

| Variable | Code |
|---|---|
| `sectorSlotsStatus`, `sectorsCompletedNum`, `sectorsUploadingNum`, `workersRemain`, `released`, `memoryReleased`, `unusedHosts`, `workerBackups` | the fields of that name |
| `built` | what the builder sets and nothing changes: `stuck`, `stuckRepair`, whether `fileEntry.LocalPath()` names a file (`local`), the sectors uploaded before (`done`) and the workers whose hosts hold them (`used`) |
| `physicalLen` | `len(physicalSegmentData)` |
| `pendingSegments` | `uc.id` is in `uploadHeap.pendingSegments` |
| `fileStuck` | the segment's stuck flag in the dx file (`SetStuckByIndex`) |
| `pc` | per goroutine: `start`, `abandoned`, `assign`, `cleanup`, `signal`, `notify`, `done` (repair goroutine); `loop`, `uploading`, `failed`, `cleanup`, `signal`, `notify` (worker) |
| `queued`, `unvisited`, `slot` | the worker's `pendingSegments`, the rest of the loop of `assignSectorTaskToWorker`, the slot a worker uploads |
| `path`, `crashed` | the way `retrieveDataAndDispatchSegment` left; a goroutine has panicked |

A step is a critical section of `uc.mu`.  The mutex is no variable: one
action is one critical section, and the only goroutine that keeps the mutex
from one step to the next is the one at `signal`, inside
`updateUploadSegmentStuckStatus` (`Locked`).  Memory is counted in bytes
(`SectorSize`, `FileSectorSize`).

### Translated from the code

| Definition | Lines | |
|---|---|---|
| `Abandon` | 318-335 | the returns before `defer client.cleanupUploadSegment`: the client stopped, `tm.Add` failed, no erasure code |
| `retrieveDataAndDispatchSegment` (`Paths`, `Returned`, `Encoded`, `ErasureCodingMemory`, `SectorCompletedMemory`) | 318-410 | one step, since no other goroutine has the segment yet: one of five ways out (`retrieveFailed`, `encodeFailed`, `tooFewSectors`, `noCipherKey`, `dispatched`), what it returns to the memory manager, what it leaves in `physicalSegmentData` and `workersRemain` |
| `retrieveLogicalSegmentData` (`NeedDownload`) | 413-447, 262-314 | the data is read from disk, or downloaded when `needDownload`; `int(numRedundantSectors * RemoteRepairDownloadThreshold)` truncates |
| `dispatchSegment` | 226-245 | the segment is pending; `workersRemain += len(workerPool)` |
| `assignSectorTaskToWorker` | 248-258 | one worker per step, in any order (the pool is a map) |
| `cleanupUploadSegment` (`Free`, `Kept`, `Unneeded`, `GiveUp`) | 452-488 | the free slots beyond the first `workersRemain` are given up and marked, their memory returned; a complete segment that is not released is released |
| `CleanupPanics` | 464 | `physicalSegmentData[i] = nil` with `i` out of range |
| `IsSegmentUploadComplete` | 211-221 | |
| `updateUploadSegmentStuckStatus` (`SuccessfulRepair`, `TellsStuckLoop`), `Signalled` | 524-584 | the flag is written unless the repair failed with the client offline or `SetStuckByIndex` fails (logged, line 563); the send to the stuck loop, which waits with `uc.mu` held; the segment leaves `pendingSegments` (line 482) only when the function has returned, so after the send |
| `Notify`, `notifyBackupWorkers` | 490-492, 192-206 | the stand-bys are taken off the list and get the segment again |

### Outside the file

| Model | Code (not in the tree) | Assumed |
|---|---|---|
| `Builds`, `Init`, `memoryNeeded` | the builder of the segment | any proper subset of the sectors is uploaded already and counted in `sectorsCompletedNum`; `physicalSegmentData` has one entry per slot (line 464 indexes it on every path); `memoryNeeded` is the erasure coding buffer and one sector per slot, which is what the way out `dispatched` and the uploads return between them |
| `Takes`, `Drop`, `StandBy`, `Upload` (`NeedsHelp`) | the worker's loop | from the comments of the fields (lines 181-187): a worker whose host is used, or that finds the segment complete, gives up its share (`workersRemain--`); one that finds every sector taken joins `workerBackups`; otherwise it marks the first free slot and uploads |
| `UploadSucceeds`, `UploadFails` | the worker's loop | success counts the sector and returns its memory; failure frees the slot and calls `notifyBackupWorkers` (comment at lines 190-191); both end in `cleanupUploadSegment` |
| the second branch of `assignSectorTaskToWorker` | `worker.isReady` | a worker that is not ready gives up its share |
| `clientOffline` | `tm.StopChan()`, `client.Online()` | either value |
| `RemoteRepairDownloadThreshold` | a constant of the package | `ThresholdNum / ThresholdDen`; the runs take 1/2, so that with three sectors both outcomes of `needDownload` and of `successfulRepair` occur |

`setStuckAndClose` has no caller in the tree and is left out.  A sector whose
encryption fails (lines 396-398) is dispatched with no data; what the worker
makes of it is outside the tree.

### Runs

| Run | Constants | Result | Distinct states |
|---|---|---|---|
| `upload` | 3 workers, 3 sectors (1 of them recovers the data), sector 4 bytes, file sector 3, threshold 1/2 | passes | 512,015 |
| `upload_memory_leak` | same | `AllMemoryReleased` violated | — |

Three workers on three sectors give every case its chance: two uploads in
flight with a stand-by waiting, more free slots than workers (slots given
up while other slots are kept), workers whose hosts are used, and a segment
built with none, one or two sectors done.  TLC counts 204 initial states.

| Property | Says |
|---|---|
| `TypeOK` | types; `workersRemain` never goes below zero, `memoryReleased` never above `memoryNeeded`, a worker never has the segment twice in its queue |
| `MemoryAccounted` | `memoryReleased` is what the way out returned and one sector for each slot that is marked, was not done before and is not being uploaded: every slot's memory goes back exactly once |
| `PanicOnlyAfterShortEncode` | the clean-up indexes past the slice only after the two returns that leave it short (failed `Encode`, sanity check of line 381); a segment that reached the cipher key or the workers never panics a goroutine |
| `NothingUploadsAfterRelease` | once the segment is released no upload begins or ends, so the stuck flag was written from the final count |
| `UploadSettles` | a segment whose clean-up was deferred is released, out of `pendingSegments`, with no free slot left and every goroutine back in its loop, or the process has panicked (liveness) |

Fairness (`FairSpec`): weak fairness of the steps of the repair goroutine
and of each worker.  A goroutine that can run is scheduled; an upload ends,
one way or the other; and the send on `stuckSegmentSuccess` returns, because
the stuck loop comes back to its receive or the client stops.  The last is
an assumption about the stuck loop: until it receives, the sender keeps
`uc.mu` and no other goroutine can clean up.

Mutants: `notifyBackupWorkers` that does not empty the list (`TypeOK`: a
stand-by is queued twice), `GiveUp` that does not mark the slot
(`MemoryAccounted`: the next clean-up returns it again), a sanity check
that is off by one (`PanicOnlyAfterShortEncode`: a dispatched segment one
sector short panics the clean-up),
`IsSegmentUploadComplete` without `sectorsUploadingNum == 0` in its second
case (`NothingUploadsAfterRelease`), `>` for `>=` in the loop of the
clean-up (`UploadSettles`: the last free slot is never given up).

### `upload_memory_leak` (finding)

`AllMemoryReleased` is the sanity check of lines 499-502: "all memory should
be released if the segment is complete".  TLC finds it violated in two
steps.  `ec.Encode` fails; the branch returns `sectorCompletedMemory` (lines
367-368) and leaves, while the return of `erasureCodingMemory` stands after
the branch (lines 377-378); the deferred clean-up finds `workersRemain = 0`,
gives up every slot and releases the segment, `MinSectors * FileSectorSize`
bytes short.  The branch for a failed retrieval (lines 353-354) returns both.
The returns at lines 383 and 387 leave `sectorCompletedMemory` behind in the
same way.  The memory manager never gets these bytes back, and later
uploads wait for them.

### The panic of the clean-up

`CleanupPanics` fires in run `upload`: after the sanity check of line 381 has
found fewer physical sectors than slots, and after an `Encode` that returned
no slice with its error, the deferred clean-up gives up every free slot and
writes `physicalSegmentData[i]` past the end of the slice.  The first is in
this file alone: the branch that reports the mismatch leads to the panic.
`PanicOnlyAfterShortEncode` says that these are the only two ways to it, and
`UploadSettles` names the panic as the one other end of a segment.

## 8. Module `SectorRecovery` (and `AtomicStore`)

`AddSector` as a transaction of the write-ahead log, in a process that can be
killed between any two steps and started again.  `StorageManager` (section
2) is about goroutines inside one process and treats an add as one step on the
store; this module opens that step up and adds the fault the log exists for.

### State

| Variable | Survives a kill | Is |
|---|---|---|
| `wal` | yes | the transactions not yet released: sector, kind (`physical`, `virtual`), slot, the count found, the commit mark |
| `db` | yes | the database: sector id → {slot, count}, and the folder's usage and `storedSectors` |
| `disk` | yes | the slots of the folder's data file; `Torn` while a write is under way |
| `folder` | no | the storage folder in memory |
| `adding`, `pc` | no | the sector a goroutine has locked, and the step it is at |
| `recovering` | no | the manager has started and transactions wait to be replayed |
| `committed` | history | commit marks per sector, read by the properties alone |

### From the tests, and from the design document

The update code and the log are not in the source tree.  What is in it is the
test file of the package (`part_002:476-880`), and the module takes from it
what a test can say about a store:

| Operator | Lines | Test helper |
|---|---|---|
| `checkSectorExist` | 720-783 | the sector is in the database with the expected count, its folder counts at least one sector, its slot is used in the database and in memory, its data is on disk |
| `Settled` | 784-800 | the last check of `checkSectorExist`: the sector's lock is free |
| `checkSectorNotExist` | 829-845 | the sector is not in the database |
| `checkFoldersHasExpectedSectors` | 805-825 | `storedSectors` in memory and in the database, and the number of sectors |
| `checkWalTxnNum` | 848-861 | the number of transactions in the log |

Three tests of the helpers are not in the operators.  The module has no
separate index from folder to sector, so the key looked up at lines 748-755
and the scan of `prefixFolderSector` at 837-843 have nothing to read: a sector
is in a folder when its entry of `db.sectors` says so.  `mmFolder.storedSectors
!= 1` (line 767) is true of the tests that add one sector only; with several
sectors the count is compared through `checkFoldersHasExpectedSectors`, whose
iterator count (816-823) is the number of entries of `db.sectors`.  `Settled`
is the premise of the other checks and not a check of its own: it adds to the
free lock of lines 784-800 that no transaction of the sector is in the log.

The steps follow the design document (`spec.md` §4.1, §4.3, §4.5, §7) and the
scripts of the tests, and `PROJECT.json` marks them `spec_modelled`:

| Action | Step |
|---|---|
| `lockSector` | the call is let in and takes the lock of its sector |
| `PreparePhysical`, `PrepareVirtual`, `NoSpace` | prepare: reserve the first free slot, or read the count; log the intent; or fail on a full folder |
| `WriteBegins`, `WriteEnds` | process: the write of the slot, which a kill can cut in two |
| `MarkCommitted`, `Apply`, `Released` | the commit mark, the batch to the database, the release from the log |
| `Revert` | a step of prepare or process fails (the disruptor keywords of `TestDisruptedPhysicalAddSector`, line 539, and `TestDisruptedVirtualAddSector`, line 575): the slot is given back and the transaction released |
| `StopAndStart` | the kill (`... normal stop`, lines 614-712: `addSector` returns nil, the transaction stays in the log) and `New`/`Start` of a new manager, its folder loaded from the database |
| `Replay`, `Discard` | the start: a committed transaction is applied, the others are released; calls are let in when the log is empty |

### Run `recovery`

| Run | Constants | Result | Distinct states |
|---|---|---|---|
| `recovery` | 2 goroutines, 3 sectors, a folder of 2 slots, 5 calls, 3 kills | passes | 99,799 |

Three sectors on two slots fill the folder, so `NoSpace` and the reuse of a
slot that was given back happen.  Five calls let one sector be added
physically and then twice virtually while another is in flight.  Three kills
allow a kill during the replay that follows a kill, and one more after it.

| Property | Says |
|---|---|
| `TypeOK` | types; `storedSectors` of either folder never exceeds the slots |
| `TestsHoldWhenSettled` | whenever a sector has no transaction and no lock, the helper the tests would call holds: `checkSectorExist` with the number of commit marks for a sector that was committed, `checkSectorNotExist` for one that was not; and an empty log means `checkFoldersHasExpectedSectors` |
| `FullyPresentOrAbsent` | in every state, the kill included, each sector of the database has its data whole in its own slot, and the database's usage is exactly the slots of its sectors: a sector is never half there |
| `ReservationsAccounted` | while calls run, the slots used in memory are those of the database and those reserved by the physical transactions of the log: a slot is neither leaked by a failed add nor handed out twice |
| `AddsAreAtomic` | refinement: `SectorRecovery` implements `AtomicStore` (below) |
| `WalDrains` | a transaction in the log leaves it (liveness): by its release, by its revert, or by the replay after a kill |

Fairness (`FairSpec`): weak fairness of each goroutine's steps and of the
replay.  A goroutine that holds no lock another waits for runs to its return;
the start of a manager does nothing but replay.  Neither `Revert` nor
`StopAndStart` is fair: nothing obliges a step to fail or the process to die.

Mutants: `setUsedSectorSlot` that counts an occupied slot again (`TypeOK`: the
replay of an applied transaction pushes `storedSectors` past the slots); a
replay that releases a committed transaction without applying it
(`TestsHoldWhenSettled`); a commit mark set before the data is written
(`FullyPresentOrAbsent`: a kill leaves a sector in the database and a torn
slot on disk); a revert that keeps the slot (`ReservationsAccounted`); a
virtual add that counts on top of what the database has instead of what the
transaction found (`AddsAreAtomic`: the replay of an add that had reached the
database before the kill shows a reference nobody committed); a start
that takes calls at once (`WalDrains`: the transactions of the dead process
are nobody's to finish).

### `AtomicStore`, and the refinement

`AtomicStore` is what an add promises to a reader of the store, in the design
document's words "sector fully absent, or sector fully present with correct
data" after a kill, and a reference count that a second add of the same
content increments.  Its state is, per sector, the adds that are past recall
(`promised`) and what the store shows (`sectors`: absent, or a count and the
data).  It has two steps: `Promise`, one more add is past recall, and `Show`,
one promised add becomes visible, as a new sector with its whole data or as
one more reference.  Nothing else ever happens to the store.

`SectorRecovery` instantiates it with `promised <- committed` (the commit
marks set so far) and `sectors <- Visible`, what a reader finds by looking the
sector up in the database and reading its slot of the data file.  The property
`AddsAreAtomic` is `Store!Spec`: every step of the detailed module (a
reservation, either half of the write, the mark, the update of the database,
a release, a revert, a kill, a start, a replay, a discard) is a `Promise`, a
`Show`, or invisible.  Unlike `TestsHoldWhenSettled`, which looks at a sector
when nothing is in flight for it, this looks at every step, the ones in the
middle of a transaction and of a replay included: a count that moves by two,
moves back, or runs ahead of the commit marks is a violation at the step
where it happens.

### The replay beside new calls

`TestAddSectorStopRecoverPhysical` waits after `Start` "for the update to
complete" (line 648) before it looks at the store.  In the module the manager
takes no call until the log is empty.  A variant in which calls run beside the
replay violates `TestsHoldWhenSettled`: a call reserves the slot a committed
transaction is about to be replayed into.  Whether the code excludes this by
the sector locks, by the order of `Start`, or not at all cannot be read from
the tree; it is listed among the hazards.

## 9. Plan

Done: `StorageManager`, `MerkleProof`, `ContractValidation`,
`PeerNegotiation` with `TryLock`, `UploadSegment`, `SectorRecovery` with
`AtomicStore`.  Next, in order of importance:

1. `AddStorageFolder` as a transaction of the log, beside the adds of
   `SectorRecovery`, and the commit loop of the maintenance goroutine.
2. `ContractValidation` with addresses derived from keys, to ask whether the
   parties charged are the parties that signed.

## 10. Not modelled

* The on-disk layout of the log and of the database, and the encoding of
  their records: `SectorRecovery` has them as sets and functions.
* `AddStorageFolder` and `DeleteSector` as transactions, and the commit loop
  of the maintenance goroutine: only their names are in the tree (item 1 of
  the plan).
* The arithmetic of the DxFile metadata (`segmentPersistNumPages`,
  `validate`, `segmentSize`, `numSegments` in `part_000` and `part_001`): pure
  functions of a few integers with no state and no second actor.  The `uint32`
  product of the page count and the division by `MinSectors` are boundary
  values a table-driven unit test reaches directly; a state space adds
  nothing to it.
* The reference counting of sector locks.
* The `HostAnnouncement` and `StorageProof` cases of `CheckMultiSignatures`:
  their callers are not in the tree.
* How collateral is charged and payouts are made after a check has passed.
* Host evaluation: floating-point arithmetic.
* RLP encoding and decoding, cipher keys and erasure-code construction:
  serialisation and calls into libraries.
* What the messages of a negotiation carry, and the validation of it: a
  party's choice between going on and `NegotiateError`.
* `IsStaticConn` and `PeerNode` of the eth peer.
* Type declarations, `FilterAPIs`, and the tests of the miner and of the
  client settings.
* The worker's upload itself, the memory manager's queue and the upload
  heap: not in the source tree.  `setStuckAndClose`.

------------------------- MODULE ContractValidation -------------------------
(***************************************************************************)
(* The checks a block's storage transactions pass before they take effect  *)
(* (core/vm/storage_contract_validation.go): CheckFormContract,            *)
(* CheckReversionContract, CheckMultiSignatures and the head of            *)
(* CheckStorageProof, against a chain that grows and a database of the     *)
(* contracts accepted so far.                                              *)
(*                                                                         *)
(* The checks read the state and change nothing.  Each is an operator that *)
(* yields the error the function returns ("nil" for none): the function's  *)
(* tests in their order, the first that fails deciding.  The steps of the  *)
(* chain are a new block and the transactions that a check lets through.   *)
(*                                                                         *)
(* Amounts are naturals, a proof output is its value, an unlock hash is    *)
(* the tuple of what is hashed, a signature is the key it recovers to and  *)
(* whether it verifies over the data presented.  Whether a proof's segment *)
(* and hash set verify is an input here; module MerkleProof models that    *)
(* check.                                                                  *)
(***************************************************************************)
EXTENDS Naturals, Sequences, FiniteSets, SequencesExt

CONSTANTS
    Balances,           \* the balances the state may hold: functions on Addresses
    Contracts(_),       \* the contracts submitted at a height
    Revisions(_, _),    \* the revisions submitted of a stored contract, given its id
    MaxHeight,          \* bound: the chain grows to this height
    MaxContracts,       \* bound: contracts stored
    MaxRevision,        \* bound: the revision numbers of revisions
    BlockHeightBits,    \* width of types.BlockHeight (64 in the code)
    None                \* no key: the zero ecdsa.PublicKey, a failed recovery

VARIABLES
    height,             \* currentHeight, the block being processed
    balance,            \* evm.StateDB.GetBalance
    db                  \* the stored contracts, by StorageContractID

vars == <<height, balance, db>>

Addresses == {"renter", "host"}

-----------------------------------------------------------------------------
(* What the code takes from outside this file.                             *)

\* UnlockConditions.UnlockHash: one hash for each value of the three fields.
UnlockHash(uc) == <<uc.Timelock, uc.PublicKeys, uc.SignaturesRequired>>

\* The zero values of the locals of CheckMultiSignatures.
ZeroSignature == [by |-> None, ok |-> FALSE]
ZeroUnlockConditions == [Timelock |-> 0, PublicKeys |-> <<>>, SignaturesRequired |-> 0]

\* RecoverPubkeyFromSignature fails on a signature that recovers to no key.
RecoverFails(sig) == sig.by = None

\* VerifyStorageContractSignatures: the signature is this key's, over this data.
VerifySignature(pubkey, sig) == pubkey # None /\ sig.by = pubkey /\ sig.ok

\* StorageContract.ID: one id for each contract, whoever signed it.
ID(fc) == [fc EXCEPT !.Signatures = <<>>]

ZeroContract ==
    [WindowStart |-> 0, WindowEnd |-> 0, FileSize |-> 0, ValidProofOutputs |-> <<>>,
     MissedProofOutputs |-> <<>>, UnlockHash |-> UnlockHash(ZeroUnlockConditions),
     RevisionNumber |-> 0, Signatures |-> <<>>, at |-> 0]

\* GetStorageContract: the stored contract, or the zero contract and an error.
GetStorageContract(id) == IF id \in DOMAIN db THEN db[id] ELSE ZeroContract

-----------------------------------------------------------------------------
(* The checks.                                                             *)

\* The error of the first test that fails, of <<fails, error>> in the
\* order the function makes them.
FirstError(tests) ==
    LET failed == SelectSeq(tests, LAMBDA test : test[1])
    IN  IF failed = <<>> THEN "nil" ELSE failed[1][2]

ZeroOutput(outputs) == \E i \in DOMAIN outputs : outputs[i] <= 0

WindowViolationOffByOne(windowStart, windowEnd, currentHeight) ==
    FirstError(<<
        <<windowStart < currentHeight, "errStorageContractWindowStartViolation">>,
        <<windowEnd <= windowStart, "errStorageContractWindowEndViolation">> >>)

\* "Check that start and expiration are reasonable values."
WindowViolation(windowStart, windowEnd, currentHeight) ==
    FirstError(<<
        <<windowStart <= currentHeight, "errStorageContractWindowStartViolation">>,
        <<windowEnd <= windowStart, "errStorageContractWindowEndViolation">> >>)

\* The unlock conditions CheckMultiSignatures builds: of the two recovered
\* keys, or the zero value when there are not exactly two signatures.
RecoveredConditions(currentHeight, signatures) ==
    IF Len(signatures) = 2
    THEN [Timelock |-> currentHeight,
          PublicKeys |-> <<signatures[1].by, signatures[2].by>>,
          SignaturesRequired |-> 2]
    ELSE ZeroUnlockConditions

\* Whose signature is verified: renterSig, hostSig and their keys are set
\* only when there are exactly two signatures.
Signer(signatures, i) == IF Len(signatures) = 2 THEN signatures[i] ELSE ZeroSignature

CheckMultiSignaturesRenterTwice(unlockHash, currentHeight, signatures) ==
    LET renter == Signer(signatures, 1)
    IN  FirstError(<<
        <<Len(signatures) = 0, "no signatures">>,
        <<Len(signatures) \in {1, 2} /\ RecoverFails(signatures[1]), "errRecover">>,
        <<Len(signatures) = 2 /\ RecoverFails(signatures[2]), "errRecover">>,
        <<UnlockHash(RecoveredConditions(currentHeight, signatures)) # unlockHash,
          "errWrongUnlockCondition">>,
        <<~VerifySignature(renter.by, renter), "errInvalidRenterSig">>,
        <<~VerifySignature(renter.by, renter), "errInvalidHostSig">> >>)

\* CheckMultiSignatures of a StorageContract (unlockHash its UnlockHash) or a
\* StorageContractRevision (its NewUnlockHash): the two cases of the type
\* switch the checks of this file reach.
CheckMultiSignatures(unlockHash, currentHeight, signatures) ==
    LET renter == Signer(signatures, 1)
        host   == Signer(signatures, 2)
    IN  FirstError(<<
        <<Len(signatures) = 0, "no signatures">>,
        <<Len(signatures) \in {1, 2} /\ RecoverFails(signatures[1]), "errRecover">>,
        <<Len(signatures) = 2 /\ RecoverFails(signatures[2]), "errRecover">>,
        <<UnlockHash(RecoveredConditions(currentHeight, signatures)) # unlockHash,
          "errWrongUnlockCondition">>,
        <<~VerifySignature(renter.by, renter), "errInvalidRenterSig">>,
        <<~VerifySignature(host.by, host), "errInvalidHostSig">> >>)

\* Line 95: big.Int.Add stores the sum in its receiver, which is the
\* contract's own RenterCollateral.Value, and returns it.
Payout(fc) == [fc EXCEPT !.RenterCollateral = @ + fc.HostCollateral]

CheckFormContract(fc, currentHeight) ==
    LET paid   == Payout(fc)
        payout == paid.RenterCollateral
        sigErr == CheckMultiSignatures(paid.UnlockHash, currentHeight, paid.Signatures)
    IN  FirstError(<<
        <<ID(fc) \in DOMAIN db, "this file contract exist">>,
        <<fc.RenterCollateral <= 0, "errZeroCollateral">>,
        <<fc.HostCollateral <= 0, "errZeroCollateral">>,
        <<WindowViolation(fc.WindowStart, fc.WindowEnd, currentHeight) # "nil",
          WindowViolation(fc.WindowStart, fc.WindowEnd, currentHeight)>>,
        <<ZeroOutput(fc.ValidProofOutputs), "errZeroOutput">>,
        <<ZeroOutput(fc.MissedProofOutputs), "errZeroOutput">>,
        <<SumFunction(fc.ValidProofOutputs) # payout,
          "errStorageContractValidOutputSumViolation">>,
        <<SumFunction(fc.MissedProofOutputs) # payout,
          "errStorageContractMissedOutputSumViolation">>,
        <<balance["renter"] < paid.RenterCollateral, "renter has not enough balance">>,
        <<balance["host"] < paid.HostCollateral, "host has not enough balance">>,
        <<sigErr # "nil", sigErr>> >>)

\* "revisions are not allowed to be submitted once the storage proof window
\* has opened"
LateRevision(fc, currentHeight) == currentHeight > fc.WindowStart

LowRevisionNumberOffByOne(fc, fcr) == fc.RevisionNumber > fcr.NewRevisionNumber

LowRevisionNumber(fc, fcr) == fc.RevisionNumber >= fcr.NewRevisionNumber

RevisionPayoutsAmongThemselves(fc, fcr) ==
    LET validPayout  == SumFunction(fcr.NewValidProofOutputs)
        missedPayout == SumFunction(fcr.NewMissedProofOutputs)
    IN  FirstError(<<
        <<validPayout # missedPayout, "errRevisionValidPayouts">>,
        <<missedPayout # validPayout, "errRevisionMissedPayouts">> >>)

\* "Check that the payout of the revision matches the payout of the
\* original, and that the payouts match each other."
RevisionPayouts(fc, fcr) ==
    LET validPayout  == SumFunction(fcr.NewValidProofOutputs)
        missedPayout == SumFunction(fcr.NewMissedProofOutputs)
        oldPayout    == SumFunction(fc.ValidProofOutputs)
    IN  FirstError(<<
        <<validPayout # oldPayout, "errRevisionValidPayouts">>,
        <<missedPayout # oldPayout, "errRevisionMissedPayouts">> >>)

CheckReversionContract(fcr, currentHeight) ==
    LET fc     == GetStorageContract(fcr.ParentID)
        window == WindowViolation(fcr.NewWindowStart, fcr.NewWindowEnd, currentHeight)
        sigErr == CheckMultiSignatures(fcr.NewUnlockHash, 0, fcr.Signatures)
    IN  FirstError(<<
        <<fcr.UnlockConditions.Timelock > currentHeight, "errTimelockNotSatisfied">>,
        <<window # "nil", window>>,
        <<ZeroOutput(fcr.NewValidProofOutputs), "errZeroOutput">>,
        <<ZeroOutput(fcr.NewMissedProofOutputs), "errZeroOutput">>,
        <<SumFunction(fcr.NewValidProofOutputs) # SumFunction(fcr.NewMissedProofOutputs),
          "errStorageContractOutputSumViolation">>,
        <<sigErr # "nil", sigErr>>,
        <<fcr.ParentID \notin DOMAIN db, "errNotFound">>,
        <<LateRevision(fc, currentHeight), "errLateRevision">>,
        <<LowRevisionNumber(fc, fcr), "errLowRevisionNumber">>,
        <<UnlockHash(fcr.UnlockConditions) # fc.UnlockHash, "errWrongUnlockConditions">>,
        <<RevisionPayouts(fc, fcr) # "nil", RevisionPayouts(fc, fcr)>> >>)

\* triggerHeight := sc.WindowStart - 1, of an unsigned type.
TriggerHeight(sc) == (sc.WindowStart + 2^BlockHeightBits - 1) % 2^BlockHeightBits

\* The error of storageProofSegment; the index it draws is MerkleProof's.
storageProofSegment(id, currentHeight) ==
    FirstError(<<
        <<id \notin DOMAIN db, "errNotFound">>,
        <<TriggerHeight(GetStorageContract(id)) > currentHeight,
          "errUnfinishedStorageContract">> >>)

TooEarlyUnchecked(fc, currentHeight) == FALSE

TooEarly(fc, currentHeight) == fc.WindowStart > currentHeight

\* CheckStorageProof, with VerifySegment's answer for sp.verified.
CheckStorageProof(sp, currentHeight) ==
    LET fc      == GetStorageContract(sp.ParentID)
        segment == storageProofSegment(sp.ParentID, currentHeight)
    IN  FirstError(<<
        <<sp.ParentID \notin DOMAIN db, "errNotFound">>,
        <<TooEarly(fc, currentHeight), "too early to submit storage proof">>,
        <<fc.WindowEnd < currentHeight, "too late to submit storage proof">>,
        <<segment # "nil", segment>>,
        <<~sp.verified /\ fc.FileSize > 0, "errInvalidStorageProof">> >>)

-----------------------------------------------------------------------------------------------------------------------------------------------------
(* The chain: blocks, and the transactions that pass their check.          *)

Init ==
    /\ height = 0
    /\ balance \in Balances
    /\ db = <<>>

NewBlock ==
    /\ height < MaxHeight
    /\ height' = height + 1
    /\ UNCHANGED <<balance, db>>

\* What is kept of a contract; "at" records the height it was last accepted at.
Stored(fc) ==
    [WindowStart |-> fc.WindowStart, WindowEnd |-> fc.WindowEnd, FileSize |-> fc.FileSize,
     ValidProofOutputs |-> fc.ValidProofOutputs,
     MissedProofOutputs |-> fc.MissedProofOutputs,
     UnlockHash |-> fc.UnlockHash, RevisionNumber |-> fc.RevisionNumber,
     Signatures |-> fc.Signatures, at |-> height]

Revised(fcr) ==
    [WindowStart |-> fcr.NewWindowStart, WindowEnd |-> fcr.NewWindowEnd,
     FileSize |-> fcr.NewFileSize,
     ValidProofOutputs |-> fcr.NewValidProofOutputs,
     MissedProofOutputs |-> fcr.NewMissedProofOutputs,
     UnlockHash |-> fcr.NewUnlockHash, RevisionNumber |-> fcr.NewRevisionNumber,
     Signatures |-> fcr.Signatures, at |-> height]

FormContract(fc) ==
    /\ Cardinality(DOMAIN db) < MaxContracts
    /\ CheckFormContract(fc, height) = "nil"
    /\ db' = (ID(fc) :> Stored(fc)) @@ db
    /\ UNCHANGED <<height, balance>>

Revision(fcr) ==
    /\ fcr.NewRevisionNumber <= MaxRevision
    /\ CheckReversionContract(fcr, height) = "nil"
    /\ db' = [db EXCEPT ![fcr.ParentID] = Revised(fcr)]
    /\ UNCHANGED <<height, balance>>

\* The ids a revision or a proof may name: the stored ones and one that is not.
ContractIds == DOMAIN db \cup {None}

RevisionsSubmitted == UNION {Revisions(id, GetStorageContract(id)) : id \in ContractIds}

ProofsSubmitted == [ParentID : ContractIds, verified : BOOLEAN]

\* The last block explored: the chain goes on, the model does not.
LastBlock == height = MaxHeight /\ UNCHANGED vars

Next ==
    \/ NewBlock
    \/ \E fc \in Contracts(height) : FormContract(fc)
    \/ \E fcr \in RevisionsSubmitted : Revision(fcr)
    \/ LastBlock

Spec == Init /\ [][Next]_vars

-----------------------------------------------------------------------------
(* Properties.                                                             *)

\* The keys of two signatures.
Signers(signatures) == <<signatures[1].by, signatures[2].by>>

\* The contract of id is replaced in this step.
Revises(id) == id \in DOMAIN db /\ db'[id] # db[id]

\* The state has its type.  A stored contract's window starts after block 0,
\* so that the unsigned WindowStart - 1 of storageProofSegment (line 363) is
\* the height of a block, never 2^64 - 1.
TypeOK ==
    /\ height \in 0..MaxHeight
    /\ balance \in Balances
    /\ Cardinality(DOMAIN db) <= MaxContracts
    /\ \A id \in DOMAIN db :
          /\ db[id].WindowStart \in Nat \ {0}
          /\ db[id].WindowEnd > db[id].WindowStart
          /\ db[id].RevisionNumber \in 0..MaxRevision
          /\ db[id].at \in 0..height
          /\ TriggerHeight(db[id]) = db[id].WindowStart - 1

\* Whatever revisions a contract has been through, its valid outputs and
\* its missed outputs each pay out the two collaterals it was formed with:
\* CheckFormContract ties the outputs to the collaterals (lines 95-101), and
\* CheckReversionContract ties each revision's outputs to the outputs it
\* replaces (lines 192-209).
PayoutConserved ==
    \A id \in DOMAIN db :
        LET payout == id.RenterCollateral + id.HostCollateral
        IN  /\ SumFunction(db[id].ValidProofOutputs) = payout
            /\ SumFunction(db[id].MissedProofOutputs) = payout

\* A contract, formed or revised, is stored only with two signatures that
\* verify, of the two keys its unlock hash names: with none, one or three
\* signatures CheckMultiSignatures (lines 226-251) recovers nothing and goes
\* on with zero values, which must not pass for keys.
CoSigned ==
    \A id \in DOMAIN db :
        LET sigs == db[id].Signatures
        IN  /\ Len(sigs) = 2
            /\ \A i \in 1..2 : sigs[i].by # None /\ sigs[i].ok
            /\ \E timelock \in 0..height :
                  db[id].UnlockHash =
                      UnlockHash([Timelock |-> timelock, PublicKeys |-> Signers(sigs),
                                  SignaturesRequired |-> 2])

\* A revision that is accepted has a higher number than the contract it
\* replaces, so a revision delivered twice, or an older one delivered after
\* a newer, changes nothing (CheckReversionContract, line 181).
RevisionsSupersede ==
    [][\A id \in DOMAIN db :
          Revises(id) => db'[id].RevisionNumber > db[id].RevisionNumber]_vars

\* The block whose hash draws the segment to prove (storageProofSegment,
\* line 363) is there when a proof is accepted, and was not there before
\* the block that accepted the contract or its last revision: the file was
\* fixed without knowing which segment would be asked for.
ProofChallengeFresh ==
    \A sp \in ProofsSubmitted :
        CheckStorageProof(sp, height) = "nil" =>
            LET fc == db[sp.ParentID]
            IN  fc.at <= TriggerHeight(fc) /\ TriggerHeight(fc) < height

\* "check if balance is enough for collateral" (CheckFormContract, line
\* 103): a renter is turned away for its balance only when the balance is
\* less than the renter's collateral.
RenterRejectedOnlyWhenShort ==
    \A fc \in Contracts(height) :
        CheckFormContract(fc, height) = "renter has not enough balance" =>
            balance["renter"] < fc.RenterCollateral

\* A contract is revised only by the two parties that hold it: the
\* signatures of an accepted revision are of the keys its unlock hash names
\* (CheckReversionContract, lines 162 and 185-188; errInvalidRenterSig,
\* errInvalidHostSig).
RevisedByContractParties ==
    [][\A id \in DOMAIN db :
          Revises(id) => Range(Signers(db'[id].Signatures)) = Range(db[id].UnlockHash[2])]_vars

=============================================================================

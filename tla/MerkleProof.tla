----------------------------- MODULE MerkleProof -----------------------------
(***************************************************************************)
(* The verification of a storage proof (package vm): the part of           *)
(* CheckStorageProof that follows the choice of the segment, with          *)
(* VerifySegment, CalculateLeaves, VerifyProof and HashSum.                *)
(*                                                                         *)
(* VerifyProof is a loop over the levels of a Merkle tree; each pass of    *)
(* its loops is a step here, and the values of its locals are the state.   *)
(* The verdict is compared with a Merkle tree built by definition.         *)
(*                                                                         *)
(* A byte string is a sequence of symbols.  A byte of a file is the symbol *)
(* <<k>>; a hash sum is a string of ONE symbol, <<"sum", the bytes hashed>>,*)
(* so that two sums side by side are as long as a segment of SegmentSize 2, *)
(* as two 32-byte sums are as long as a segment of 64 bytes.               *)
(***************************************************************************)
EXTENDS Naturals, Sequences, SequencesExt

CONSTANTS
    SegmentSize,  \* bytes of a segment (64 in the code)
    Inputs,       \* the calls checked: [fileSize, segmentIndex, segment, hashSet]
    None          \* no value yet

VARIABLES
    fc,            \* the contract: FileSize and FileMerkleRoot
    sp,            \* the storage proof: Segment and HashSet
    segmentIndex,  \* the segment the chain asks for
    proofSet,      \* VerifyProof: the segment and the hashes
    numLeaves,     \* VerifyProof: leaves of the tree
    height,        \* VerifyProof: level reached, next element of proofSet
    sum,           \* VerifyProof: hash sum so far
    stableEnd,     \* VerifyProof: last leaf of the largest complete subtree
    verified,      \* what VerifyProof returned
    err,           \* what CheckStorageProof returned
    pc

inputs == <<fc, sp, segmentIndex>>
vars   == <<fc, sp, segmentIndex, proofSet, numLeaves, height, sum, stableEnd,
            verified, err, pc>>

-----------------------------------------------------------------------------
(* The file and its Merkle tree, by definition *)

\* The bytes of a file differ from each other: byte k is <<k>>.
File(size) == [k \in 1 .. size |-> <<k>>]

\* Number of segments of a file; an empty file has one, empty, segment.
Segments(size) ==
    IF size = 0 THEN 1 ELSE (size + SegmentSize - 1) \div SegmentSize

\* Segment i (from 0) of a file.
Leaf(size, i) ==
    LET last == IF (i + 1) * SegmentSize < size THEN (i + 1) * SegmentSize
                ELSE size
    IN  SubSeq(File(size), i * SegmentSize + 1, last)

Digest(bytes) == << <<"sum", bytes>> >>

\* The largest power of two below n, for n > 1.
Split(n) == CHOOSE k \in {2 ^ e : e \in 0 .. n} : k < n /\ n <= 2 * k

\* Root of the tree over the leaves lo .. hi-1: the left subtree is the
\* largest complete one that leaves the right subtree a leaf.
RECURSIVE TreeRoot(_, _, _)
TreeRoot(size, lo, hi) ==
    IF hi - lo = 1 THEN Digest(Leaf(size, lo))
    ELSE LET mid == lo + Split(hi - lo)
         IN  Digest(TreeRoot(size, lo, mid) \o TreeRoot(size, mid, hi))

\* The sums a proof of leaf i needs, from the leaf's sibling up.
RECURSIVE AuditPath(_, _, _, _)
AuditPath(size, lo, hi, i) ==
    IF hi - lo = 1 THEN <<>>
    ELSE LET mid == lo + Split(hi - lo)
         IN  IF i < mid
             THEN Append(AuditPath(size, lo, mid, i), TreeRoot(size, mid, hi))
             ELSE Append(AuditPath(size, mid, hi, i), TreeRoot(size, lo, mid))

MerkleRoot(size) == TreeRoot(size, 0, Segments(size))

-----------------------------------------------------------------------------
(* The code *)

CalculateLeaves(fileSize) ==
    (fileSize \div SegmentSize)
        + (IF fileSize = 0 \/ fileSize % SegmentSize # 0 THEN 1 ELSE 0)

\* Mutant: the last segment of a file of whole segments keeps length 0.
SegmentLenNoRoundUp(fileSize, index, leaves) ==
    IF index = leaves - 1 THEN fileSize % SegmentSize ELSE SegmentSize

\* Bytes of the segment asked for: the last one is as long as the file
\* needs, and a length of 0 stands for a whole segment.
SegmentLen(fileSize, index, leaves) ==
    LET len == IF index = leaves - 1 THEN fileSize % SegmentSize
               ELSE SegmentSize
    IN  IF len = 0 THEN SegmentSize ELSE len

\* Hash of the byte strings of data, written one after the other.
HashSum(data) == Digest(FlattenSeq(data))

\* proofSet[height] of the code, whose slices start at 0.
At(h) == proofSet[h + 1]

Goto(label) == pc' = label

Init ==
    /\ \E in \in Inputs :
         /\ fc = [FileSize |-> in.fileSize,
                  FileMerkleRoot |-> MerkleRoot(in.fileSize)]
         /\ sp = [Segment |-> in.segment, HashSet |-> in.hashSet]
         /\ segmentIndex = in.segmentIndex
    /\ proofSet = None /\ numLeaves = None /\ height = None
    /\ sum = None /\ stableEnd = None
    /\ verified = None /\ err = None
    /\ pc = "start"

\* VerifySegment: the segment goes before the hashes.
VerifySegment(segment, hashSet) == <<segment>> \o hashSet

\* CheckStorageProof cuts the segment to its length and has it verified;
\* VerifyProof makes its three checks and hashes the segment.
VerifyProofStart ==
    /\ pc = "start"
    /\ LET leaves == CalculateLeaves(fc.FileSize)
           len    == SegmentLen(fc.FileSize, segmentIndex, leaves)
           set    == VerifySegment(SubSeq(sp.Segment, 1, len), sp.HashSet)
       IN  /\ proofSet' = set
           /\ numLeaves' = leaves
           /\ IF fc.FileMerkleRoot = None \/ segmentIndex >= leaves \/ Len(set) <= 0
              THEN verified' = FALSE /\ Goto("return")
                   /\ UNCHANGED <<sum, height, stableEnd>>
              ELSE /\ sum' = HashSum(<<set[1]>>)
                   /\ height' = 1
                   /\ stableEnd' = segmentIndex
                   /\ Goto("subtree")
                   /\ UNCHANGED verified
    /\ UNCHANGED <<inputs, err>>

subTreeStartIndex == (segmentIndex \div (2 ^ height)) * (2 ^ height)
subTreeEndIndex   == subTreeStartIndex + (2 ^ height) - 1

\* Mutant: a subtree that ends one leaf past the tree counts as complete.
SubtreeCompleteOffByOne == subTreeEndIndex <= numLeaves

\* The tree has a leaf at the end of the subtree of this height.
SubtreeComplete == subTreeEndIndex < numLeaves

\* The subtree of this height is not complete: the first loop ends.
SubtreeIncomplete ==
    /\ pc = "subtree"
    /\ ~SubtreeComplete
    /\ Goto("orphan")
    /\ UNCHANGED <<inputs, proofSet, numLeaves, height, sum, stableEnd,
                   verified, err>>

\* The subtree is complete and the proof has no sum for it.
SubtreeMissing ==
    /\ pc = "subtree"
    /\ SubtreeComplete
    /\ Len(proofSet) <= height
    /\ stableEnd' = subTreeEndIndex
    /\ verified' = FALSE
    /\ Goto("return")
    /\ UNCHANGED <<inputs, proofSet, numLeaves, height, sum, err>>

\* Mutant: the sibling is always taken for the right one.
SubtreeHashOneSided ==
    /\ pc = "subtree"
    /\ SubtreeComplete
    /\ Len(proofSet) > height
    /\ stableEnd' = subTreeEndIndex
    /\ sum' = HashSum(<<sum, At(height)>>)
    /\ height' = height + 1
    /\ UNCHANGED <<inputs, proofSet, numLeaves, verified, err, pc>>

\* The subtree is complete: the sum so far is joined with its sibling's, on
\* the side the index of the segment tells.
SubtreeHash ==
    /\ pc = "subtree"
    /\ SubtreeComplete
    /\ Len(proofSet) > height
    /\ stableEnd' = subTreeEndIndex
    /\ sum' = IF segmentIndex - subTreeStartIndex < 2 ^ (height - 1)
              THEN HashSum(<<sum, At(height)>>)
              ELSE HashSum(<<At(height), sum>>)
    /\ height' = height + 1
    /\ UNCHANGED <<inputs, proofSet, numLeaves, verified, err, pc>>

\* After the loop, the complete subtree ends the tree: no orphan to join.
OrphanNone ==
    /\ pc = "orphan"
    /\ stableEnd = numLeaves - 1
    /\ Goto("rest")
    /\ UNCHANGED <<inputs, proofSet, numLeaves, height, sum, stableEnd,
                   verified, err>>

\* What lies to the right of the complete subtree has a sum, and the proof
\* does not hold it.
OrphanMissing ==
    /\ pc = "orphan"
    /\ stableEnd # numLeaves - 1
    /\ Len(proofSet) <= height
    /\ verified' = FALSE
    /\ Goto("return")
    /\ UNCHANGED <<inputs, proofSet, numLeaves, height, sum, stableEnd, err>>

\* The sum of what lies to the right of the complete subtree is joined.
OrphanHash ==
    /\ pc = "orphan"
    /\ stableEnd # numLeaves - 1
    /\ Len(proofSet) > height
    /\ sum' = HashSum(<<sum, At(height)>>)
    /\ height' = height + 1
    /\ Goto("rest")
    /\ UNCHANGED <<inputs, proofSet, numLeaves, stableEnd, verified, err>>

\* Every sum that is left is that of a left sibling.
LeftSibling ==
    /\ pc = "rest"
    /\ height < Len(proofSet)
    /\ sum' = HashSum(<<At(height), sum>>)
    /\ height' = height + 1
    /\ UNCHANGED <<inputs, proofSet, numLeaves, stableEnd, verified, err, pc>>

\* The sum reached is compared with the root.
Compare ==
    /\ pc = "rest"
    /\ height >= Len(proofSet)
    /\ verified' = (sum = fc.FileMerkleRoot)
    /\ Goto("return")
    /\ UNCHANGED <<inputs, proofSet, numLeaves, height, sum, stableEnd, err>>

\* Mutant: a proof that fails is an error for an empty file too.
ReturnStrict ==
    /\ pc = "return"
    /\ err' = IF ~verified THEN "errInvalidStorageProof" ELSE "nil"
    /\ Goto("done")
    /\ UNCHANGED <<inputs, proofSet, numLeaves, height, sum, stableEnd, verified>>

\* CheckStorageProof returns: a proof that fails is an error, unless the file
\* is empty.
Return ==
    /\ pc = "return"
    /\ err' = IF ~verified /\ fc.FileSize > 0 THEN "errInvalidStorageProof"
              ELSE "nil"
    /\ Goto("done")
    /\ UNCHANGED <<inputs, proofSet, numLeaves, height, sum, stableEnd, verified>>

\* The call has returned.
Returned == pc = "done" /\ UNCHANGED vars

Next ==
    \/ VerifyProofStart
    \/ SubtreeIncomplete \/ SubtreeMissing \/ SubtreeHash
    \/ OrphanNone \/ OrphanMissing \/ OrphanHash
    \/ LeftSibling \/ Compare
    \/ Return \/ Returned

Spec == Init /\ [][Next]_vars

-----------------------------------------------------------------------------
(* Properties *)

\* The segment of the proof, cut to the length of the segment asked for.
SegmentSent == SubSeq(sp.Segment, 1, Len(Leaf(fc.FileSize, segmentIndex)))

\* The proof an honest host sends: the segment asked for, and the sums of
\* its audit path.  The bytes of sp.Segment past the segment's end are free.
Genuine ==
    /\ SegmentSent = Leaf(fc.FileSize, segmentIndex)
    /\ sp.HashSet = AuditPath(fc.FileSize, 0, Segments(fc.FileSize), segmentIndex)

TypeOK ==
    /\ fc.FileSize \in Nat
    /\ segmentIndex \in 0 .. Segments(fc.FileSize) - 1
    /\ Len(sp.Segment) = SegmentSize
    /\ pc \in {"start", "subtree", "orphan", "rest", "return", "done"}
    /\ pc \in {"subtree", "orphan", "rest"} =>
         /\ height \in 1 .. Len(proofSet)
         /\ stableEnd \in segmentIndex .. numLeaves - 1
    /\ pc \in {"return", "done"} => verified \in BOOLEAN
    /\ pc = "done" <=> err # None

\* The segment sent is made of bytes of a file, not of hash sums.
OfFileBytes == \A k \in DOMAIN SegmentSent : Len(SegmentSent[k]) = 1

Accepted == pc = "done" /\ err = "nil"

\* CheckStorageProof accepts the genuine proof of every segment of every
\* file, whatever the shape of the tree makes VerifyProof do: complete
\* subtrees, an orphan to their right, left siblings above them, and a last
\* segment shorter than the others or exactly as long.  A proof for an empty
\* file is accepted whatever it holds.
GenuineProofAccepted ==
    (pc = "done" /\ (fc.FileSize = 0 \/ Genuine)) => err = "nil"

\* Of the proofs whose segment is made of file bytes, CheckStorageProof
\* accepts only the genuine one: no other segment of the file, no segment cut
\* to another length and no other path, longer or shorter, reaches the root.
OnlyGenuineAmongFileSegments ==
    (Accepted /\ fc.FileSize > 0 /\ OfFileBytes) => Genuine

\* "check whether host store the file": a proof that CheckStorageProof
\* accepts holds the segment of the file that was asked for.
AcceptedProofHoldsSegment ==
    (Accepted /\ fc.FileSize > 0) =>
        SegmentSent = Leaf(fc.FileSize, segmentIndex)

\* The loop invariant of VerifyProof: while it climbs the complete subtrees
\* with a genuine proof, sum is the root of the complete subtree of
\* 2^(height-1) leaves that holds the segment, and stableEnd its last leaf.
SumIsSubtreeRoot ==
    (pc = "subtree" /\ fc.FileSize > 0 /\ Genuine) =>
        LET width == 2 ^ (height - 1)
            lo    == (segmentIndex \div width) * width
        IN  /\ stableEnd = lo + width - 1
            /\ sum = TreeRoot(fc.FileSize, lo, lo + width)

=============================================================================

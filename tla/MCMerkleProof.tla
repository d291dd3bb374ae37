---------------------------- MODULE MCMerkleProof ----------------------------
(***************************************************************************)
(* MerkleProof for TLC: the proofs the verification is tried on.           *)
(***************************************************************************)
EXTENDS MerkleProof, FiniteSets

CONSTANTS
    MaxFileSize,      \* bound: bytes of the largest file
    ExhaustiveLeaves, \* bound: trees up to this size get every proof
    MaxProofLen       \* bound: sums of the longest proof of those trees

ASSUME SegmentSize = 2

\* The subtrees of the tree over the leaves lo .. hi-1, as pairs <<lo, hi>>.
RECURSIVE Subtrees(_, _)
Subtrees(lo, hi) ==
    {<<lo, hi>>} \cup
        (IF hi - lo = 1 THEN {}
         ELSE Subtrees(lo, lo + Split(hi - lo))
                  \cup Subtrees(lo + Split(hi - lo), hi))

\* A sum that is not in the tree.
Junk == Digest(<< <<0>> >>)

\* Every sum of the tree of a file, and one that is not of it.
Sums(size) ==
    {TreeRoot(size, t[1], t[2]) : t \in Subtrees(0, Segments(size))} \cup {Junk}

\* A segment as it is sent: SegmentSize bytes, zeros after the file's bytes.
Padded(bytes) ==
    bytes \o [k \in 1 .. SegmentSize - Len(bytes) |-> <<0>>]

\* The segments tried: every segment of the file, and for every inner node
\* the sums of its two children side by side, which hash to the node's sum.
SegmentsTried(size) ==
    {Padded(Leaf(size, j)) : j \in 0 .. Segments(size) - 1}
        \cup {TreeRoot(size, t[1], t[1] + Split(t[2] - t[1]))
                  \o TreeRoot(size, t[1] + Split(t[2] - t[1]), t[2]) :
              t \in {u \in Subtrees(0, Segments(size)) : u[2] - u[1] > 1}}

\* The paths tried on a large tree: the genuine path of every leaf, and the
\* genuine path of leaf i cut short, made longer, and with one sum replaced.
PathsNear(size, i) ==
    LET n    == Segments(size)
        path == AuditPath(size, 0, n, i)
    IN  {AuditPath(size, 0, n, j) : j \in 0 .. n - 1}
            \cup (IF path = <<>> THEN {} ELSE {Front(path)})
            \cup {Append(path, s) : s \in Sums(size)}
            \cup {ReplaceAt(path, k, s) : k \in DOMAIN path, s \in Sums(size)}

HashSetsTried(size, i) ==
    IF Segments(size) <= ExhaustiveLeaves
    THEN BoundedSeq(Sums(size), MaxProofLen)
    ELSE PathsNear(size, i)

ProofsTried(size, i) ==
    [fileSize : {size}, segmentIndex : {i},
     segment : SegmentsTried(size), hashSet : HashSetsTried(size, i)]

\* The chain asks for a segment the file has (storageProofSegment).
MCInputs ==
    UNION {UNION {ProofsTried(size, i) : i \in 0 .. Segments(size) - 1} :
           size \in 0 .. MaxFileSize}

=============================================================================

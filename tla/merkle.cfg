\* Files of up to 16 bytes in segments of 2: trees of 1 to 8 leaves.
CONSTANTS
    SegmentSize = 2
    MaxFileSize = 16
    ExhaustiveLeaves = 4
    MaxProofLen = 3
    None = None
    Inputs <- MCInputs

SPECIFICATION Spec

INVARIANT TypeOK
INVARIANT GenuineProofAccepted
INVARIANT OnlyGenuineAmongFileSegments
INVARIANT SumIsSubtreeRoot

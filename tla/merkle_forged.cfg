\* Files of up to 10 bytes in segments of 2: trees of 1 to 5 leaves.
CONSTANTS
    SegmentSize = 2
    MaxFileSize = 10
    ExhaustiveLeaves = 4
    MaxProofLen = 3
    None = None
    Inputs <- MCInputs

SPECIFICATION Spec

INVARIANT AcceptedProofHoldsSegment

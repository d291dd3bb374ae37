\* Three workers for a segment of three sectors, one of which recovers it.
CONSTANTS
    Workers = {w1, w2, w3}
    Repairer = repairer
    MinSectors = 1
    AllSectors = 3
    SectorSize = 4
    FileSectorSize = 3
    ThresholdNum = 1
    ThresholdDen = 2

SPECIFICATION FairSpec

INVARIANT AllMemoryReleased

\* Any file of a few segments, re-encoded once and once more.
SPECIFICATION Spec
CONSTANTS
    Frames <- MCFrames
    ScanIds <- MCScanIds
    Progressions <- MCProgressions
    Coefficients <- MCCoefficients
    Saved <- MCSaved
    q1 = q1
    q2 = q2
    Tables <- MCTables
    TableSegments <- MCTableSegments
    None = None
    NUM_QUANT_TBLS = 2
    MaxMarkers = 2
    MaxScans = 2
    MaxTrips = 1
INVARIANTS
    TypeOK
    ColorsKept
    QuantKept
    CoefficientsKeptByIds
    MarkersKept
    OutputIsSound
    SecondTripIsIdentity
CHECK_DEADLOCK FALSE

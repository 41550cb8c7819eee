\* A CMYK picture whose fourth component has the id of the first.
SPECIFICATION Spec
CONSTANTS
    Frames <- MCTwinFrames
    ScanIds <- MCTwinScanIds
    Progressions <- MCProgressions
    Coefficients <- MCCoefficients
    Saved <- MCNone
    q1 = q1
    q2 = q2
    Tables <- MCTables
    TableSegments <- MCTableSegments
    None = None
    NUM_QUANT_TBLS = 2
    MaxMarkers = 2
    MaxScans = 2
    MaxTrips = 1
INVARIANT CoefficientsKept
CHECK_DEADLOCK FALSE

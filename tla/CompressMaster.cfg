\* The passes over every kind of image, with and without the two options.
SPECIFICATION Spec
CONSTANTS
    Images <- MCImages
    Coefficients <- MCCoefficients
INVARIANTS
    TypeOK
    ScanWithinScript
    WritesDueScan
    TablesFitScan
    TablesReachDecoder
    DecoderAccepts
    EverythingSent
PROPERTIES
    SequenceSpec

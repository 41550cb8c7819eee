\* EXIF segments of every critical length, whole and cut off.
SPECIFICATION Spec
CONSTANTS
    Bytes <- MCBytes
    ExifFiles <- MCExifFiles
    ImageFiles <- MCImageFiles
INVARIANTS
    TypeOK
    ExifBeforePicture
    SegmentLengthTrue
    OnlyExifIsMerged

\* Segments of two bytes, chains of up to four segments.
CONSTANTS
    Byte = {x, y}
    SegSize = 2
    MaxBytes = 5
    MaxChunk = 5
SYMMETRY ByteSymmetry
SPECIFICATION BufSpec
INVARIANTS LastIsValid BufIsPacked EmptyMeansNoBytes
PROPERTIES IsByteQueue

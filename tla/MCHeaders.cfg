\* A heap as large as the text, two places, four spellings of three names.  The
\* text is long enough for the line that finds the map full.
CONSTANTS
    lower = lower
    Upper = Upper
    other = other
    third = third
    short = short
    long = long
    NULL = NULL
    Key <- Spellings
    Value <- Texts
    Name = {"first", "other", "third"}
    name <- NameOf
    length <- LengthOf
    KeysLimit = 2
    HeapSize = 20
    TextSize = 20
    Spaces = 1
SPECIFICATION HeadersSpec
INVARIANTS NoNullString
PROPERTIES IsStringMap

SPECIFICATION MCSpec
CONSTANTS
    t1 = t1
    t2 = t2
    t3 = t3
    Threads <- MCThreads
    MaxFd = 2
    LongBits = 8
    IntBits = 4
    DigitsSize = 8
    MaxWidth = 10
    Buffers <- MCBuffers
    DstSizes = {6, 7, 8, 9, 10, 11, 12}
    FlagTables <- AllTables
    Flags = {1, 2, 3, 4, 5, 6}
    OpenFlags <- open_flags
    TmpFile = {5, 6}
    Strings <- MCStrings
    MaxBuffer = 4
    MaxString = 3
    LICENSE_MAX_LEN = 40
    YEAR_MIN = 19
    YEAR_MAX = 99
    YEAR_LEN = 2
    COMMENT_STR_LEN = 5
    LicenseTexts <- MCLicenseTexts
    SourceFiles <- MCSourceFiles
SYMMETRY Symmetry
INVARIANTS LinesOnlyInLog NoLogLeaked NumbersReadBack EscapeReadsBack FlagsExplained FilterIsLastComponent VerdictExact
CHECK_DEADLOCK FALSE

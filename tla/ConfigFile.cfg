SPECIFICATION Spec
CONSTANTS
    Letters <- Names
    NameMarks <- MoreNames
    HexDigits <- Hex
    Ascii <- Codes
    BufferSize = 4
    Base = 3
    Digit <- Digits
    Plans <- AllPlans
    NumberOf <- Numerals
    Addresses <- Known
    WritesOn <- Promising
INVARIANTS
    TypeOK
    AcceptsWellFormed
    ValuesAsWritten
    SettingsAsWritten
    CrashesForAReason
PROPERTIES
    ReadingEnds
    ReadsWholeFile
CHECK_DEADLOCK FALSE

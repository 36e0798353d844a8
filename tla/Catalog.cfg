SPECIFICATION Spec
CONSTANTS
    Tables = {"t", "u", "a", "or", "date"}
    Faults = {"write", "rename", "kill"}
    MaxRows = 3
    DateFields <- MCDateFields
    HourFields <- MCHourFields
    RealDates <- MCRealDates
    ByteOrder <- MCByteOrder
    Numbers <- MCNumbers
    NumberOf <- MCNumberOf
    Statements <- MCStatements
    Directories <- MCDirectories
    ConsoleDirectory <- MCConsoleDirectory
    Scripts <- MCScripts
INVARIANTS
    SelectRight
    MemoryIsCatalog
    CutsRight
    LexerAgrees
    GrammarAccepted
PROPERTIES
    OnlyRemovalLoses
    ConsoleEnds

SPECIFICATION Spec
CONSTANTS
    PAGE_SIZE = 26
    HEADER_SIZE = 4
    SLOT_SIZE = 4
    Records <- SmallRecords
PROPERTIES
    CompactReclaims
    ImplementsRecordSlots

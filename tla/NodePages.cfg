SPECIFICATION Spec

CONSTANTS
    manual = manual
    subscribed = subscribed
    Collection <- MCCollection
    NoLimit = nolimit
    First <- MCFirst
    MaxId = 5
    MaxChange = 2
    None = nothing

INVARIANTS
    TypeOK
    NoneSkipped

PROPERTIES
    PagingEnds

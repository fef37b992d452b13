SPECIFICATION Spec

CONSTANTS
    request1 = request1
    request2 = request2
    name1 = name1
    name2 = name2
    password1 = password1
    path1 = path1
    path2 = path2
    value1 = value1
    Request <- MCRequest
    Reset = reset
    Username <- MCUsername
    Password <- MCPassword
    Path <- MCPath
    Value <- MCValue
    MaxSecret = 2
    None = nothing

SYMMETRY Interchangeable

INVARIANTS
    TypeOK
    SoleUser
    OthersLoggedOut
    StorageAddsUp

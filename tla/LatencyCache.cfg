SPECIFICATION Spec

CONSTANTS
    n1 = n1
    n2 = n2
    a = a
    b = b
    Caller = {c1, c2}
    Node = {n1, n2}
    Link = {a, b}
    FirstLink <- MCFirstLink
    FirstLoaded = {a}
    Asked = {{n1}, {n1, n2}}
    Interval = 1
    MaxTime = 2
    MaxChange = 1
    New = new
    Gone = gone
    None = nothing

INVARIANTS
    TypeOK
    Attributed
    AnswersMet

PROPERTIES
    RefreshesApart
    CallersReturn

SPECIFICATION Spec

CONSTANTS
    sub1 = sub1
    sub2 = sub2
    worker1 = worker1
    worker2 = worker2
    Sub <- MCSub
    Main = main
    Worker <- MCWorker
    Exp = {every6h}
    DefaultExp = every6h
    NoExp = empty
    Off = off
    New = new
    Gone = gone
    MaxRequest = 3
    None = nothing

INVARIANTS
    TypeOK
    OneScheduler
    NothingRunsUnasked
    NoOrphanNodes

PROPERTIES
    BootSchedules
    OperationsReturn

CHECK_DEADLOCK FALSE

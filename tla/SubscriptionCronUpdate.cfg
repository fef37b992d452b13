SPECIFICATION Spec

CONSTANTS
    sub1 = sub1
    sub2 = sub2
    worker1 = worker1
    worker2 = worker2
    Sub <- MCSub
    Main = main
    Worker <- MCWorker
    Exp = {every6h, hourly}
    DefaultExp = every6h
    NoExp = empty
    Off = off
    New = new
    Gone = gone
    MaxRequest = 1
    None = nothing

PROPERTIES
    SchedulerUpdated

CHECK_DEADLOCK FALSE

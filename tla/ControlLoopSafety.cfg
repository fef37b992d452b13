SPECIFICATION Safety

CONSTANTS
    empty = empty
    conf1 = conf1
    caller1 = caller1
    caller2 = caller2
    signal = signal
    http = http
    nobody = nobody
    Config <- MCConfig
    EmptyConfig = empty
    Caller <- MCCaller
    ExitSender <- MCExitSender
    DryFlags = {TRUE, FALSE}
    PromptStart = FALSE
    MaxPlane = 4
    None = nobody

SYMMETRY MCSymmetry

INVARIANTS
    TypeOK
    NoForgottenCaller
    ToldWhatRuns
    OneOpenPlane
    ServedWhenIdle
    NoSpuriousExit

\* The process may exit.
CHECK_DEADLOCK FALSE

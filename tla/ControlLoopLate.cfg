SPECIFICATION Spec

CONSTANTS
    empty = empty
    conf1 = conf1
    caller1 = caller1
    caller2 = caller2
    signal = signal
    http = http
    nobody = nobody
    Config <- MCConfig
    EmptyConfig = empty
    Caller <- MCCaller
    ExitSender <- MCExitSender
    DryFlags = {FALSE}
    PromptStart = FALSE
    MaxPlane = 3
    None = nobody

PROPERTIES
    NilAfterClose

\* The process may exit.
CHECK_DEADLOCK FALSE

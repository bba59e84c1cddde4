CONSTANTS
    Fds <- TwoFds
    NoFd = NoFd
    Outcomes <- BlockingOutcomes
    MaxConn = 2
    MaxLine = 2
    MaxHear = 2
SPECIFICATION Spec
INVARIANT AlwaysArmed

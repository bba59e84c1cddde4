CONSTANTS
    Fds <- TwoFds
    NoFd = NoFd
    Outcomes <- AllOutcomes
    MaxConn = 3
    MaxLine = 4
    MaxHear = 3
SPECIFICATION Spec
INVARIANTS StreamKept OneTimer WholeLines
PROPERTIES Retried

CONSTANTS
    Tid = {t1, t2}
    Nobody = Nobody
    Remote = {"r1"}
    Protos <- Kinds
    FdLimit = 2
    Timeout = 1
    Jobs = {"threads"}
SPECIFICATION Spec
CHECK_DEADLOCK FALSE
INVARIANT NoStaleEntry

CONSTANTS
    Tid = {t1, t2, t3}
    Nobody = Nobody
    Remote = {"r1", "r2", "r3"}
    Protos <- Kinds
    FdLimit = 2
    Timeout = 1
    Jobs = {"threads", "proxies"}
SPECIFICATION Spec
CHECK_DEADLOCK FALSE
INVARIANTS RegistryRight ScansRight OpenFirst
PROPERTIES HelpersEnd

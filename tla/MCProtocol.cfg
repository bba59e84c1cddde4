CONSTANTS
    Spoken <- All
    Guardian = "g"
    Bots = {"b"}
    Users = {"u"}
    Peers = {"p", "q"}
    Old = {"q"}
    Most = 2
    MaxActs <- Twice
    MaxLinks <- Twice
SPECIFICATION LinkSpec
CHECK_DEADLOCK FALSE
INVARIANTS Agreement LinkRight
PROPERTIES ChannelsKept BurstEnds

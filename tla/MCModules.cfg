CONSTANTS
    Gone = Gone
    Setups <- AllSetups
SPECIFICATION Spec
CHECK_DEADLOCK FALSE
INVARIANTS LoaderRight NextLives OnlyForgotten NoneSkipped
PROPERTIES DependentsLoaded

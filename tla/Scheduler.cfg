SPECIFICATION Spec
CONSTANTS
    NumProc = 4
    Start = {0, 1, 2, 3}
    Burst = {1, 4}
    Priority = {1, 2}
    Quantum = 2
    Levels = 2
    Base = 2
    None = None
INVARIANTS
    WellFormed
    EndsAsPlanned
    StrategyKept
PROPERTIES
    PickRanksFirst
    ImplementsProcessor
CHECK_DEADLOCK FALSE

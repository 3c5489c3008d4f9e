SPECIFICATION Spec
CONSTANTS
    MaxPid = 3
    SleepTimes = {1, 2}
    KeyCapacity = 2
INVARIANTS
    ListsSound
    PullNeverEmpty
    NonReadersNeverLost
    InterruptsRestored
    SleepReturnsLate
    WaitReturnsAfterExit
    IInv
PROPERTIES
    ExitWakesWaiters

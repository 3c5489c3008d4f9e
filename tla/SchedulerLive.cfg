SPECIFICATION Spec
CONSTANTS
    MaxPid = 2
    SleepTimes = {1}
    KeyCapacity = 1
PROPERTIES
    ReadyRuns
    SleeperRuns

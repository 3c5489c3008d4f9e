SPECIFICATION RunningSpec
CONSTANTS
    MaxPid = 2
    SleepTimes = {1}
    KeyCapacity = 1
PROPERTY
    BlockedBySomething

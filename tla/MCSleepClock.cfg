SPECIFICATION ClockSpec
CONSTANTS
    TimerWord = 16
    Sleepers = {p1, p2}
    Times = {1, 3}
    Cap = 5
INVARIANTS
    SleepsNoLonger
PROPERTIES
    SleepsLongEnough
    SleeperWakes

SPECIFICATION Spec
CONSTANTS
    Bits = 8
    NUL = NUL
    minus = minus
    dot = dot
    Unit = 8
    Precision = 2
    FloatRoom = 6
    Calls <- MCCalls
INVARIANTS
    FillsBuffer
    PrintsArgument

SPECIFICATION Spec
CONSTANTS
    Width = 4
    Height = 3
    Chars <- MCChars
    blank = blank
    noise = noise
    MAX_BUFFER_SIZE = 2
    Prompt = 1
    Letters <- MCLetters
    text = text
    NUL = NUL
    Registered <- MCRegistered
    COMMANDS_ARRAY_SIZE = 3
    nobody = nobody
    Tasks = {t1, t2}
    InRow = 1
    FirstColumn = 2
    Distance = 1
    nothing = nothing
    MaxMixed = 1
SYMMETRY MCSymmetry
INVARIANTS
    CursorKept
    OneCursor
    EchoIsInput
    ClockInPlace
PROPERTIES
    ShowsPaper
    EditsLine

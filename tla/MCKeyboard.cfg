SPECIFICATION KeyboardSpec
CONSTANTS
    Size = 3
    Keys <- MCKeys
    value_type <- MCvalue_type
    UserKeys <- MCUserKeys
    NUL = NUL
    nothing = nothing
    MaxWire = 2
INVARIANTS
    WriterStaysAway
    IInv
    NothingStuck
PROPERTIES
    KeepsOrder
    ReadsWhatIsTyped

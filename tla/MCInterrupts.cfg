SPECIFICATION Spec
CONSTANTS
    Nibble = 4
    address <- MCAddress
    Lines = {0, 7, 15}
    Vectors = {0, 14}
    Procs = {idle, terminal, task}
    AtBoot = {idle, terminal}
    nobody = nobody
    Places = {here, there}
INVARIANTS
    NothingHeldBack
    RightCallback
    SegmentsAreFlat
PROPERTIES
    ComesBack

SPECIFICATION Spec
CONSTANTS
    Nibble = 4
    address <- MCAddress
    Lines = {0, 1}
    Vectors = {0, 14}
    Procs = {idle, terminal, task}
    AtBoot = {idle, terminal}
    nobody = nobody
    Places = {here, there}
INVARIANTS
    FaultShowsEip

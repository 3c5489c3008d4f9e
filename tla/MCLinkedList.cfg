SPECIFICATION Spec
CONSTANTS
    Nodes = {n1, n2, n3, n4, n5}
    Values = {p, q, r}
    Lists = {ready, asleep, processes}
    Storing = {ready, asleep}
    null = null
    deleted = deleted
    nowhere = nowhere
SYMMETRY Symmetry
INVARIANTS
    IInv
PROPERTIES
    AreSequences
    SparesUsedFirst

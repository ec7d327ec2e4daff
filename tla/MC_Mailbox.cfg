CONSTANTS
    Ptrs = {1, 2, 3, 4, 5, 6}
    NsMem = {2, 3, 4, 5}
    NumSlots = 2
    Counts = {0, 1, 2, 3}
    InitSize = 2
    StatusSize = 1
    SlotSize = 2
    Debug = TRUE
SPECIFICATION Spec
INVARIANT QueueChecked

\* Tables that move in one batch or entry by entry (from 32 slots on: 27 entries,
\* batches of 16).
CONSTANTS
    k1 = k1
    k2 = k2
    k3 = k3
    k4 = k4
    v1 = v1
    v2 = v2
    Homes = {0, 3, 7}
    Absent = Absent
    Keys <- MCKeys
    Vals <- MCVals
    HashFns <- MCHashFns
    InitCap = 4
    Batches = {1, 4}
    MaxSize = 4
SPECIFICATION Spec
INVARIANT SweepMissesNothing
PROPERTY IsMap
SYMMETRY MCSymmetry

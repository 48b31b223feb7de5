\* Three keys in two buckets, entries reused after free; ratio 0 makes the
\* expansion branch of dictAdd run with the third key.
CONSTANTS
    k1 = k1
    k2 = k2
    k3 = k3
    Keys = {k1, k2, k3}
    Vals = {v1, v2}
    Entries = {a1, a2, a3}
    NULL = NULL
    Hash <- MCHash
    InitialSize = 2
    ForceRatio = 0
SPECIFICATION Spec
INVARIANTS
    DictOK
    IterationOK
PROPERTIES
    ImplementsKeyMap
SYMMETRY Symmetry

\* Tables of 1, 2 and 4 buckets, a request of 0 and one too large for the
\* width; four hashes of three bits, one bucket shared by three data.
CONSTANTS
    i1 = i1
    i2 = i2
    i3 = i3
    i4 = i4
    d1 = d1
    e1 = e1
    d2 = d2
    d3 = d3
    d4 = d4
    Idents = {i1, i2, i3, i4}
    Data = {d1, e1, d2, d3, d4}
    Ident <- MCIdent
    Hash <- MCHash
    Width = 3
    Requests = {0, 1, 2, 3, 5}
    NULL = NULL
SPECIFICATION Spec
INVARIANTS
    TableOK
PROPERTIES
    ImplementsKeyMap
CHECK_DEADLOCK FALSE

CONSTANTS
    a1 = a1
    a2 = a2
    a3 = a3
    NULL = NULL
    Addrs = {a1, a2, a3}
    Sizes = {1, 2}
    MaxSamples = 4
    MaxLog = 5
SPECIFICATION BoundedSpec
SYMMETRY Symmetry
INVARIANT SamplesAsAsked
\* The log ends where the bound says.
CHECK_DEADLOCK FALSE

\* Three nodes, two data values, a three bit unsigned int (the empty list's
\* length 7 is none of the lengths 1..3).
SPECIFICATION Spec
CONSTANTS
    Nodes = {n1, n2, n3}
    Data = {a, b}
    NULL = NULL
    UnsignedBits = 3
SYMMETRY Symmetry
CHECK_DEADLOCK FALSE
INVARIANTS NodesOwned
PROPERTIES IterationSound ImplementsList

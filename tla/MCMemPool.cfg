\* Two users, lists of two types with up to three buffers.
SPECIFICATION Spec
CONSTANTS
    Users = {u1, u2}
    Types = {1, 2}
    MaxLength = 3
    None = None
SYMMETRY Symmetry
INVARIANTS OneOwner Conservation

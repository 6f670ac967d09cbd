\* The whole message is consumed.
SPECIFICATION Spec
CONSTANTS
    SizeBits = 12
    MatchLens = {0, 4, 6}
    DataLens = {0}
    MaxEntries = 1
    Actions <- MCActions
    CutLens = {}
INVARIANTS WholeConsumed

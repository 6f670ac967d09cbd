\* All messages, delivered whole, in part, cut short or with more behind.
SPECIFICATION Spec
CONSTANTS
    SizeBits = 12
    MatchLens = {0, 4, 5, 6, 8, 12, 13}
    DataLens = {0, 1, 3}
    MaxEntries = 3
    Actions <- MCActions
    CutLens <- MCCutLens
INVARIANTS PackFits RoundTrip ProperUnderstood ShortRejected NoLeak

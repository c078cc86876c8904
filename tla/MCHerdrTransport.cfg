CONSTANTS
    None = None
    Lanes = {l1, l2}
    MaxActs = 2
    MaxCommands = 4
SPECIFICATION Spec
INVARIANTS ProofIsExact LanesAreOwn
PROPERTIES StrikesOnlyWhatItSaw
SYMMETRY MCSymmetry
CHECK_DEADLOCK FALSE

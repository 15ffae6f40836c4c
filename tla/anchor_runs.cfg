\* Two overlapping runs over two days, receipts committing meanwhile.
SPECIFICATION Spec
CONSTANTS
    Jobs = {j1, j2}
    None = None
    DayLength = 2
    Grain = 2
    MaxTime = 3
    MaxReceipts = 3
    MaxDrafts = 2
    MaxRuns = 3
SYMMETRY Alike
INVARIANT TypeOK
INVARIANT AnchorProvesItsPast
INVARIANT StragglersAreProved
INVARIANT ProofsAreSound
PROPERTY AnchorStands
PROPERTY ImplementsTables

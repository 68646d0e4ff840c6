SPECIFICATION KeySpec
CONSTANTS
    h1 = h1 h2 = h2 NoKey = NoKey
    Holder = {h1, h2}
    KeypoolSize = 1
    PreSplit = {1, 2}
    MaxIndex = 6
INVARIANTS KeysExclusive PoolOnDisk SeenGone

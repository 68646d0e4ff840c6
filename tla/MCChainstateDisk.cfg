SPECIFICATION DiskSpec
CONSTANTS
    g = g a1 = a1 a2 = a2 b1 = b1 b2 = b2 b3 = b3 c2 = c2
    None = None
    Block = {g, a1, b1, b2, b3}
    Genesis = g
    Prev <- TallPrev
    Anc <- TallAnc
    Height <- TallHeight
    ChainWork <- TallHeight
    Address <- TallAddress
    Acceptable = {g, a1, b1, b2, b3}
    Connectable = {g, a1, b1, b2}
    KeepBlocks = 1
    MinimumChainWork = 1
    MinSequenceId <- MinusTwo
    MaxSequenceId = 3
    Commands = {"prune"}
INVARIANTS CanStart CoinsBehindIndex ActiveChainValid TipHasMostWork

SPECIFICATION Spec
CONSTANTS
    g = g a1 = a1 a2 = a2 b1 = b1 b2 = b2 b3 = b3 c2 = c2
    None = None
    Block = {g, a1, a2, c2}
    Genesis = g
    Prev <- TwinPrev
    Anc <- TwinAnc
    Height <- TwinHeight
    ChainWork <- TwinHeight
    Address <- TwinAddress
    Acceptable = {g, a1, a2, c2}
    Connectable = {g, a1, a2, c2}
    KeepBlocks = 2
    MinimumChainWork = 1
    MinSequenceId <- MinusTwo
    MaxSequenceId = 9
    Commands = {"invalidate"}
PROPERTY ChildDemoted

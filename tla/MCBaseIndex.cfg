SPECIFICATION FairSpec
CONSTANTS
    g = g a1 = a1 a2 = a2 b1 = b1 b2 = b2 b3 = b3 c2 = c2
    None = None Nothing = Nothing
    Validation = Validation Caller = Caller
    Callback <- MCCallback
    Block = {g, a1, a2, b1, b2, b3}
    Genesis = g
    Prev <- LongPrev
    Anc <- LongAnc
    Height <- LongHeight
    StartTip <- MCStartTip
    QueueLimit = 1
    MaxMoves = 2
    MaxEnds = 1
INVARIANTS LosesOnePerCrash PromiseKept
PROPERTIES Settles

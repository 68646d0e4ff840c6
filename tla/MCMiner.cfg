SPECIFICATION FairSpec
CONSTANTS
    g = g a1 = a1 a2 = a2 b1 = b1 b2 = b2 b3 = b3 c2 = c2
    t1 = t1 t2 = t2
    None = None
    Thread = {t1, t2}
    Block = {g, a1, a2, b1}
    Connectable = {g, a1, b1}
    Genesis = g
    Prev <- OddPrev
    Anc <- OddAnc
    Height <- OddHeight
    ChainWork <- OddWork
PROPERTIES  OldThreadsEnd

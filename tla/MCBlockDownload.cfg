SPECIFICATION FairSpec
CONSTANTS
    g = g a1 = a1 a2 = a2 b1 = b1 b2 = b2 b3 = b3 c2 = c2
    p1 = p1 p2 = p2
    None = None
    Peer = {p1, p2}
    Honest = {p2}
    Preferred = {p1, p2}
    NoBan = {p1}
    Block = {g, a1, b1, b2}
    Genesis = g
    Prev <- TinyPrev
    Anc <- TinyAnc
    Height <- TinyHeight
    PeerTips <- Tips
    Own = {b1}
    Bad = {a1}
    Recents <- NewAndOld
    Window = 1
    MaxInTransit = 1
    CompactAhead = 1
    KeepBlocks = 1
    MinimumWork = 1
INVARIANTS InFlightAgrees StallersOwe CommonIsFull
PROPERTY Synced

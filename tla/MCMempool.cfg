SPECIFICATION Spec
CONSTANTS
    g = g a1 = a1 a2 = a2 b1 = b1 b2 = b2 b3 = b3 c2 = c2
    o1 = o1 kb = kb a = a b = b c = c d = d e = e f = f h = h i = i
    Tx <- Txs
    Coinbase = {o1, kb}
    Vin <- TxVin
    Vout <- TxVout
    Fee <- TxFee
    Replaceable = {a, h}
    LockTime <- TxLockTime
    Block = {g, a1, a2, b1, b2, b3}
    Genesis = g
    Prev <- LongPrev
    Anc <- LongAnc
    Height <- LongHeight
    Vtx <- BlockVtx
    Maturity = 2
    AncestorLimit = 4
    DescendantLimit = 4
    MaxReplaced = 3
    MaxPool = 4
    MaxDisconnected = 3
    MaxDelta = 1
INVARIANTS LinksExact TotalsExact CanBeMined

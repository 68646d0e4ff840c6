SPECIFICATION Spec
CONSTANTS
    g = g a1 = a1 a2 = a2 a3 = a3 c2 = c2 c3 = c3
    p = p q = q r = r s = s
    None = None
    Block = {g, a1, a2, a3, c2, c3}
    Genesis = g
    Outpoint = {p, q, r, s}
    Prev <- MCPrev
    Anc <- MCAnc
    Height <- MCHeight
    Txs <- MCTxs
INVARIANTS DbMatchesBest ReplayRecovers ReplaySameHead
PROPERTY FlushIsAtomic

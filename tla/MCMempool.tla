----------------------------- MODULE MCMempool -----------------------------
EXTENDS Mempool, BlockTrees

CONSTANTS o1, kb, a, b, c, d, e, f, h, i

\* o1 and kb are coinbase transactions.  b, c, e and f build on a, one on the other; d
\* conflicts with a; h spends kb and another output of o1, as i does.
Txs == {o1, kb, a, b, c, d, e, f, h, i}
TxVin ==
    (o1 :> <<>>) @@ (kb :> <<>>) @@ (a :> <<<<o1, 1>>>>) @@ (d :> <<<<o1, 1>>>>)
    @@ (b :> <<<<a, 1>>>>) @@ (c :> <<<<b, 1>>>>) @@ (e :> <<<<c, 1>>>>)
    @@ (f :> <<<<e, 1>>, <<b, 2>>>>) @@ (h :> <<<<kb, 1>>, <<o1, 2>>>>)
    @@ (i :> <<<<o1, 2>>>>)
TxVout == [t \in Txs |-> IF t \in {o1, b} THEN 2 ELSE 1]
TxFee == [t \in Txs |-> IF t = d THEN 3 ELSE 1]
TxLockTime == [t \in Txs |-> IF t = d THEN 1 ELSE 0]

\* Blocks with a, b, c and e against three, one of them with d.
BlockVtx ==
    (g :> <<o1>>) @@ (a1 :> <<a, b, c>>) @@ (a2 :> <<e>>) @@ (b1 :> <<kb>>)
    @@ (b2 :> <<d>>) @@ (b3 :> <<>>)
=============================================================================

-------------------------- MODULE MCBlockDownload --------------------------
EXTENDS BlockDownload, BlockTrees

CONSTANTS p1, p2

\* An honest peer has the long branch; the other one has either.
Tips == (p1 :> {a1, b2}) @@ (p2 :> {b2})
\* The node was down for a day or more, or just restarts.
NewAndOld == {{b2}, {g, a1, b1, b2}}
=============================================================================

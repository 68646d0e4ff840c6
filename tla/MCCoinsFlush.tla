---------------------------- MODULE MCCoinsFlush ----------------------------
(***************************************************************************)
(* Two branches above a1.  The transaction that spends p and creates q is in *)
(* a2 on one and in c3 on the other, so that q is a different coin; r is     *)
(* created and spent inside a3; c2 spends p into s, and c3 spends s.         *)
(***************************************************************************)
EXTENDS CoinsFlush, TLC

CONSTANTS g, a1, a2, a3, c2, c3, p, q, r, s

MCPrev == (a1 :> g) @@ (a2 :> a1) @@ (a3 :> a2) @@ (c2 :> a1) @@ (c3 :> c2)
MCAnc == LET anc[b \in Block] == IF b = g THEN {g} ELSE {b} \cup anc[MCPrev[b]] IN anc
MCHeight == [b \in Block |-> Cardinality(MCAnc[b]) - 1]

Tx(in, out) == [in |-> in, out |-> out]
MCTxs ==
    (g :> <<>>) @@ (a1 :> <<Tx({}, {p})>>) @@
    (a2 :> <<Tx({}, {}), Tx({p}, {q})>>) @@
    (a3 :> <<Tx({}, {}), Tx({q}, {r}), Tx({r}, {s})>>) @@
    (c2 :> <<Tx({}, {s})>>) @@
    (c3 :> <<Tx({}, {}), Tx({p}, {q}), Tx({s}, {})>>)
=============================================================================

--------------------------- MODULE MCCoinsCache ---------------------------
(* Two outpoints, so that an operation on one can disturb the other, two    *)
(* coins, so that an overwrite can be told from the original, two blocks.   *)
EXTENDS CoinsCache


=============================================================================

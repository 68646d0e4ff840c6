----------------------------- MODULE BlockTrees -----------------------------
(***************************************************************************)
(* Small trees of blocks, as values for the constants of Chainstate.        *)
(* Unless a tree has works of its own a block carries one unit of work      *)
(* (nChainWork is the height), so the order of arrival decides between      *)
(* branches of the same length.                                             *)
(***************************************************************************)
EXTENDS Integers, FiniteSets, TLC

CONSTANTS g, a1, a2, b1, b2, b3, c2

\* Two branches that split at the genesis block.
ForkPrev == (a1 :> g) @@ (a2 :> a1) @@ (b1 :> g) @@ (b2 :> b1)
\* The second branch is one block longer than the first ...
LongPrev == ForkPrev @@ (b3 :> b2)
\* ... and a third one splits from the first.
BroadPrev == LongPrev @@ (c2 :> a1)
\* A branch of three blocks against one.
TallPrev == (a1 :> g) @@ (b1 :> g) @@ (b2 :> b1) @@ (b3 :> b2)
\* One branch that splits late.
TwinPrev == (a1 :> g) @@ (a2 :> a1) @@ (c2 :> a1)
\* Two blocks against one.
TinyPrev == (a1 :> g) @@ (b1 :> g) @@ (b2 :> b1)
\* Two blocks against one that has more work than the first of them.
OddPrev == (a1 :> g) @@ (a2 :> a1) @@ (b1 :> g)
OddWork == (g :> 0) @@ (a1 :> 1) @@ (b1 :> 2) @@ (a2 :> 3)

AncestorsOf(prev) ==
    LET anc[b \in DOMAIN prev \cup {g}] == IF b = g THEN {g} ELSE {b} \cup anc[prev[b]]
    IN  anc
HeightOf(prev) == [b \in DOMAIN prev \cup {g} |-> Cardinality(AncestorsOf(prev)[b]) - 1]

ForkAnc == AncestorsOf(ForkPrev)
ForkHeight == HeightOf(ForkPrev)
LongAnc == AncestorsOf(LongPrev)
LongHeight == HeightOf(LongPrev)
BroadAnc == AncestorsOf(BroadPrev)
BroadHeight == HeightOf(BroadPrev)
TallAnc == AncestorsOf(TallPrev)
TallHeight == HeightOf(TallPrev)
TwinAnc == AncestorsOf(TwinPrev)
TwinHeight == HeightOf(TwinPrev)
TinyAnc == AncestorsOf(TinyPrev)
TinyHeight == HeightOf(TinyPrev)
OddAnc == AncestorsOf(OddPrev)
OddHeight == HeightOf(OddPrev)

\* The addresses disagree with the order in which the names read.
Addresses ==
    (g :> 1) @@ (a1 :> 2) @@ (b1 :> 3) @@ (b2 :> 4) @@ (a2 :> 5) @@ (c2 :> 6) @@ (b3 :> 7)
AddressIn(blocks) == [b \in blocks |-> Addresses[b]]
ForkAddress == AddressIn(DOMAIN ForkAnc)
LongAddress == AddressIn(DOMAIN LongAnc)
BroadAddress == AddressIn(DOMAIN BroadAnc)
TallAddress == AddressIn(DOMAIN TallAnc)
TwinAddress == AddressIn(DOMAIN TwinAnc)

\* numeric_limits<int32_t>::min(), close enough to be reached.
MinusTwo == -2
=============================================================================

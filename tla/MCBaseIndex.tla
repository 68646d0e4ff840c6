---------------------------- MODULE MCBaseIndex ----------------------------
EXTENDS BaseIndex, BlockTrees

MCCallback ==
    [type : {"connected", "flushed"}, block : Block] \cup [type : {"promise"}, to : {Validation, Caller}]

\* The branch that will be left.
MCStartTip == {None, a1}
=============================================================================

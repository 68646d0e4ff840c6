----------------------------- MODULE MCCommands -----------------------------
EXTENDS OperatorHabits, BlockTrees

\* Block files are pruned, or not.
PruningOrNot == {{}, {"prune"}}
\* One command at a time, and the ones that undo each other.
Commanding ==
    {{"invalidate"}, {"favour"}, {"precious"}, {"invalidate", "reconsider", "prune"}}
=============================================================================

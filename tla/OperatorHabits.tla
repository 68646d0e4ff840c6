-------------------------- MODULE OperatorHabits ---------------------------
(***************************************************************************)
(* Chainstate with an operator who keeps to some of the commands, chosen    *)
(* at the start, so that one specification tells what holds under each      *)
(* habit.                                                                  *)
(***************************************************************************)
EXTENDS Chainstate

CONSTANT Habits

\* An operator who favours a block calls preciousblock for others than the tip only.
ASSUME HabitAssumption ==
    Habits \subseteq SUBSET {"invalidate", "reconsider", "precious", "favour", "prune"}

VARIABLE habit

HabitInit == Init /\ habit \in Habits

\* The commands of the RPC interface, and pruning.  The call of ActivateBestChain a
\* command ends with is owed.
Command ==
    \/ "precious" \in habit /\ \E b \in Block : PreciousBlock(b)
    \/ "favour" \in habit /\ \E b \in Block \ {tip} : PreciousBlock(b)
    \/ "invalidate" \in habit /\ \E b \in Block : InvalidateBlock(b)
    \/ "reconsider" \in habit /\ \E b \in Block : ResetBlockFailureFlags(b)
    \/ "prune" \in habit /\ Pruning

HabitNext ==
    /\ Arrival \/ ActivateBestChain \/ ActivateStep \/ InvalidateStep \/ Command
    /\ UNCHANGED habit

HabitSpec == HabitInit /\ [][HabitNext]_<<vars, habit>>

HabitFairSpec == /\ HabitSpec
                 /\ WF_vars(owed /\ ActivateBestChain)
                 /\ WF_vars(ActivateStep)
                 /\ WF_vars(InvalidateStep)

\* Blocks arrive and nothing else happens, or files are pruned as well and work is height.
ArrivalsOnly == habit = {} \/ (habit = {"prune"} /\ EvenWork)

\* What CheckBlockIndex asserts of the index, apart from the candidates that are missing.
\* Files may be pruned for the first two assertions; the others hold while blocks arrive
\* in any order.
CheckBlockIndex ==
    /\ UnlinkedHasData
    /\ habit \subseteq {"prune"} => FailedHasCause
    /\ habit = {} => CandidatesSound /\ UnlinkedExact /\ LinkedExact

\* Without commands and pruning every branch that is as good as the tip is a candidate,
\* in whatever order its blocks arrive.
ArrivalsKeepCandidates == habit = {} => CandidatesComplete

\* Without pruning ReceivedBlockTransactions changes the sequence id of no candidate, which
\* would leave setBlockIndexCandidates out of order, whatever the operator does.
CandidateKeysStable == []["prune" \notin habit => KeepsKeys]_<<vars, habit>>

\* ActivateBestChain activates the best branch, in whatever order the blocks arrive.
ArrivalsKeepBest == ArrivalsOnly => TipIsBest

\* The same in time: a better branch is activated, unless a block of it turns out to be
\* invalid, is pruned or a better one comes.
BestGetsActivated == ArrivalsOnly /\ Behind ~> ~Behind \/ pc = "down"

\* Without pruning, the goal that ActivateBestChain keeps over a release of cs_main can
\* still be connected, whatever the operator does meanwhile.
GoalStays == "prune" \notin habit => GoalNotStale

\* After invalidateblock the best remaining branch is active, and after preciousblock the
\* one of the favoured block, when that is as good.
CommandsKeepBest == habit \subseteq {"invalidate", "favour"} => TipIsBest

\* invalidateblock, which releases cs_main after each block it disconnects, and
\* preciousblock, which moves a block in their order, leave every branch that is as good
\* as the tip among the candidates, and no other.
CommandsKeepCandidates ==
    habit \subseteq {"invalidate", "favour"} => CandidatesComplete /\ CandidatesSound
=============================================================================

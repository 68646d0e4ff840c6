-------------------------- MODULE CoinsFlushProofs --------------------------
(***************************************************************************)
(* Proofs about CoinsFlush, for every tree of blocks, every transaction in   *)
(* them and every way to cut a flush into batches.                           *)
(***************************************************************************)
EXTENDS CoinsFlush, FiniteSetTheorems, WellFoundedInduction, TLAPS

-----------------------------------------------------------------------------
(* Numbers                                                                  *)

\* A set of natural numbers that is not empty has a smallest member.
LEMMA SmallestInSet ==
    ASSUME NEW S \in SUBSET Nat, S # {}
    PROVE  \E n \in S : \A m \in S : n <= m
  <1> DEFINE I == {0..n : n \in S}
  <1>1. I \subseteq FiniteSubsetsOf(Nat) /\ I # {}
    <2>1. \A n \in S : IsFiniteSet(0..n)
      BY FS_Interval
    <2>2. \A n \in S : 0..n \in SUBSET Nat
      OBVIOUS
    <2>3. \A n \in S : 0..n \in FiniteSubsetsOf(Nat)
      BY <2>1, <2>2, Zenon DEF FiniteSubsetsOf
    <2> QED
      BY <2>3, Zenon
  <1> HIDE DEF I
  <1>2. PICK x \in I : \A y \in I : ~ (<<y, x>> \in StrictSubsetOrdering(Nat))
    BY <1>1, WFMin, FS_StrictSubsetOrderingWellFounded
  <1>3. PICK n \in S : x = 0..n
    BY Zenon DEF I
  <1>4. ASSUME NEW m \in S, m < n
        PROVE  FALSE
    <2>1. 0..m \in I
      BY Zenon DEF I
    <2>2. 0..m \subseteq x /\ x # 0..m
      <3>1. n \in 0..n /\ n \notin 0..m
        BY <1>4
      <3>2. 0..m \subseteq 0..n
        BY <1>4
      <3> QED
        BY <3>1, <3>2, <1>3, Zenon
    <2>3. <<0..m, x>> \in StrictSubsetOrdering(Nat)
      BY <2>2, <1>3 DEF StrictSubsetOrdering
    <2> QED
      BY <1>2, <2>1, <2>3, Zenon
  <1> QED
    BY <1>4

\* One with a bound has a largest member.
LEMMA LargestOf ==
    ASSUME NEW n \in Nat, NEW S \in SUBSET (1..n), S # {}
    PROVE  \E k \in S : \A m \in S : m <= k
<1> DEFINE T == {n - m : m \in S}
<1>1. \A m \in S : m \in Nat /\ n - m \in Nat
    OBVIOUS
<1>2. T \in SUBSET Nat /\ T # {}
    BY <1>1, Zenon
<1>3. PICK t \in T : \A u \in T : t <= u
    BY <1>2, SmallestInSet, Zenon
<1>4. PICK k \in S : t = n - k
    BY Zenon
<1>5. \A m \in S : n - k <= n - m
    BY <1>3, <1>4, Zenon
<1>6. \A m \in S : m <= k
    BY <1>1, <1>5
<1> QED
    BY <1>6, Zenon

-----------------------------------------------------------------------------
(* The tree                                                                 *)

\* The ancestors of a block are one at each height below it.
Branch(b) ==
    /\ b \in Anc[b] /\ Genesis \in Anc[b]
    /\ \A a \in Anc[b] : Height[a] \in 0..Height[b] /\ Anc[a] \subseteq Anc[b]
    /\ \A h \in 0..Height[b] : \E a \in Anc[b] : Height[a] = h
    /\ \A a, c \in Anc[b] : Height[a] = Height[c] => a = c
    /\ \A a, c \in Anc[b] : Height[c] <= Height[a] => c \in Anc[a]

\* What TreeAssumption says of a block and its parent.
LEMMA ParentOf ==
    ASSUME NEW b \in Block, b # Genesis
    PROVE  /\ Prev[b] \in Block /\ Anc[b] = {b} \cup Anc[Prev[b]]
           /\ Height[b] = Height[Prev[b]] + 1 /\ Height[Prev[b]] \in Nat /\ Height[b] \in Nat
           /\ Anc[b] \subseteq Block
BY TreeAssumption, Zenon

\* A block continues the branch of its parent.
LEMMA BranchStep ==
    ASSUME NEW b \in Block, b # Genesis, Branch(Prev[b])
    PROVE  Branch(b)
<1> DEFINE p == Prev[b]
<1>1. /\ p \in Block /\ Anc[b] = {b} \cup Anc[p] /\ Height[b] = Height[p] + 1
      /\ Height[p] \in Nat /\ Height[b] \in Nat
    BY ParentOf, Zenon
<1>2. /\ p \in Anc[p] /\ Genesis \in Anc[p]
      /\ \A a \in Anc[p] : Height[a] \in 0..Height[p] /\ Anc[a] \subseteq Anc[p]
      /\ \A h \in 0..Height[p] : \E a \in Anc[p] : Height[a] = h
      /\ \A a, c \in Anc[p] : Height[a] = Height[c] => a = c
      /\ \A a, c \in Anc[p] : Height[c] <= Height[a] => c \in Anc[a]
    BY Zenon DEF Branch
<1> HIDE DEF p
<1>3. \A a \in Anc[b] : Height[a] \in 0..Height[b] /\ Anc[a] \subseteq Anc[b]
    BY <1>1, <1>2
<1>4. \A h \in 0..Height[b] : \E a \in Anc[b] : Height[a] = h
    <2> SUFFICES ASSUME NEW h \in 0..Height[b] PROVE \E a \in Anc[b] : Height[a] = h
        BY Zenon
    <2>1. h = Height[b] \/ h \in 0..Height[p]
        BY <1>1
    <2> QED
        BY <2>1, <1>1, <1>2, Zenon
<1>5. \A a \in Anc[p] : Height[a] < Height[b]
    BY <1>1, <1>2
<1>6. \A a, c \in Anc[b] : Height[a] = Height[c] => a = c
    BY <1>1, <1>2, <1>5
<1>7. \A a, c \in Anc[b] : Height[c] <= Height[a] => c \in Anc[a]
    BY <1>1, <1>2, <1>5
<1> QED
    BY <1>1, <1>2, <1>3, <1>4, <1>6, <1>7, Zenon DEF Branch

\* Every block ends a branch: there is no lowest block that does not.
LEMMA Branches == \A b \in Block : Branch(b)
<1> DEFINE H == {Height[b] : b \in {c \in Block : ~Branch(c)}}
<1> SUFFICES ASSUME H # {} PROVE FALSE
    BY Zenon
<1>1. H \in SUBSET Nat
    BY TreeAssumption
<1> HIDE DEF H
<1>2. PICK n \in H : \A m \in H : n <= m
    BY <1>1, SmallestInSet, Zenon
<1>3. PICK b \in Block : ~Branch(b) /\ n = Height[b]
    BY Zenon DEF H
<1>4. b # Genesis
    <2>1. Branch(Genesis)
        BY TreeAssumption DEF Branch
    <2> QED
        BY <2>1, <1>3, Zenon
<1>5. ~Branch(Prev[b])
    BY <1>3, <1>4, BranchStep, Zenon
<1>6. Height[Prev[b]] \in H
    BY <1>4, <1>5, ParentOf, Zenon DEF H
<1> QED
    BY <1>2, <1>3, <1>4, <1>6, ParentOf

\* GetAncestor finds the ancestor.
LEMMA AncestorFacts ==
    ASSUME NEW b \in Block, NEW h \in 0..Height[b]
    PROVE  GetAncestor(b, h) \in Anc[b] /\ Height[GetAncestor(b, h)] = h
<1>1. \E a \in Anc[b] : Height[a] = h
    BY Branches, Zenon DEF Branch
<1> QED
    BY <1>1 DEF GetAncestor

\* It is the only one of its height.
LEMMA AncestorIs ==
    ASSUME NEW b \in Block, NEW a \in Anc[b]
    PROVE  /\ a \in Block /\ Height[a] \in 0..Height[b] /\ Height[b] \in Nat
           /\ GetAncestor(b, Height[a]) = a
<1>1. a \in Block /\ Height[b] \in Nat
    BY TreeAssumption
<1>2. Height[a] \in 0..Height[b]
    BY Branches DEF Branch
<1>3. GetAncestor(b, Height[a]) \in Anc[b] /\ Height[GetAncestor(b, Height[a])] = Height[a]
    BY <1>2, AncestorFacts, Zenon
<1>4. GetAncestor(b, Height[a]) = a
    BY <1>3, Branches DEF Branch
<1> QED
    BY <1>1, <1>2, <1>4

\* Of a branch, a block has what is not above it.
LEMMA AboveBlock ==
    ASSUME NEW b \in Block, NEW a \in Anc[b], NEW c \in Anc[b]
    PROVE  c \in Anc[a] <=> Height[c] <= Height[a]
<1>1. a \in Block /\ c \in Block /\ Height[a] \in Nat /\ Height[c] \in Nat
    BY TreeAssumption, Zenon
<1>2. c \in Anc[a] => Height[c] \in 0..Height[a]
    BY <1>1, Branches, Zenon DEF Branch
<1>3. Height[c] <= Height[a] => c \in Anc[a]
    BY Branches, Zenon DEF Branch
<1> QED
    BY <1>1, <1>2, <1>3

-----------------------------------------------------------------------------
(* Sequences of writes                                                      *)

\* What a sequence of writes touches.
LEMMA WritesDomain ==
    ASSUME NEW log, NEW o
    PROVE  o \in DOMAIN Writes(log) <=> \E i \in DOMAIN log : o \in DOMAIN log[i]
BY Zenon DEF Writes

\* The last write counts.
LEMMA WritesLast ==
    ASSUME NEW n \in Nat, NEW log, DOMAIN log = 1..n,
           NEW i \in 1..n, NEW o \in DOMAIN log[i],
           \A j \in 1..n : j > i => o \notin DOMAIN log[j]
    PROVE  Writes(log)[o] = log[i][o]
<1> DEFINE S == {j \in DOMAIN log : o \in DOMAIN log[j]}
<1>1. i \in S /\ (\A j \in S : i >= j) /\ \A j \in S : (\A k \in S : j >= k) => j = i
    OBVIOUS
<1>2. Max(S) = i
    BY <1>1, Zenon DEF Max
<1>3. o \in UNION {DOMAIN log[j] : j \in DOMAIN log}
    BY Zenon
<1> QED
    BY <1>2, <1>3 DEF Writes

\* There is a last write to what is touched.
LEMMA WritesLastExists ==
    ASSUME NEW n \in Nat, NEW log, DOMAIN log = 1..n, NEW o \in DOMAIN Writes(log)
    PROVE  \E i \in 1..n : /\ o \in DOMAIN log[i]
                           /\ \A j \in 1..n : j > i => o \notin DOMAIN log[j]
                           /\ Writes(log)[o] = log[i][o]
<1> DEFINE S == {j \in DOMAIN log : o \in DOMAIN log[j]}
<1>1. S \in SUBSET (1..n) /\ S # {}
    BY WritesDomain, Zenon
<1>2. PICK i \in S : \A m \in S : m <= i
    BY <1>1, LargestOf, Zenon
<1>3. i \in 1..n /\ o \in DOMAIN log[i] /\ \A j \in 1..n : j > i => o \notin DOMAIN log[j]
    BY <1>1, <1>2
<1> QED
    BY <1>3, WritesLast

-----------------------------------------------------------------------------
(* Blocks                                                                   *)

\* The transactions of a block.
LEMMA TxFacts ==
    ASSUME NEW b \in Block
    PROVE  /\ Len(Txs[b]) \in Nat /\ DOMAIN Txs[b] = 1..Len(Txs[b])
           /\ \A i \in DOMAIN Txs[b] : /\ Txs[b][i].in \subseteq Outpoint
                                       /\ Txs[b][i].out \subseteq Outpoint
<1> DEFINE R == [in : SUBSET Outpoint, out : SUBSET Outpoint]
<1>1. Txs[b] \in Seq(R)
    BY TxAssumption, Zenon
<1>2. \A r \in R : r.in \subseteq Outpoint /\ r.out \subseteq Outpoint
    BY Zenon
<1> HIDE DEF R
<1>3. /\ Len(Txs[b]) \in Nat /\ DOMAIN Txs[b] = 1..Len(Txs[b])
      /\ \A i \in 1..Len(Txs[b]) : Txs[b][i] \in R
    BY <1>1
<1> QED
    BY <1>2, <1>3

Touches(b, o) == \E i \in DOMAIN Txs[b] : o \in Touched(Txs[b][i])

\* Connecting and disconnecting a block touch the same coins.
LEMMA BlockTouches ==
    ASSUME NEW b \in Block, NEW o
    PROVE  /\ o \in DOMAIN Rollforward[b] <=> Touches(b, o)
           /\ o \in DOMAIN DisconnectBlock[b] <=> Touches(b, o)
           /\ Touches(b, o) => o \in Outpoint /\ b # Genesis /\ Rollforward[b][o] \in Coin
<1> DEFINE n == Len(Txs[b])
           roll == [i \in DOMAIN Txs[b] |-> RollTx(b, i)]
           undo == [i \in DOMAIN Txs[b] |-> UndoTx(b, n + 1 - i)]
<1>1. n \in Nat /\ DOMAIN Txs[b] = 1..n
    BY TxFacts
<1>2. Rollforward[b] = Writes(roll) /\ DisconnectBlock[b] = Writes(undo)
    BY DEF Rollforward, DisconnectBlock
<1>3. \A i \in 1..n : DOMAIN roll[i] = Touched(Txs[b][i])
    BY <1>1 DEF RollTx
<1>4. \A i \in 1..n : DOMAIN undo[i] = Touched(Txs[b][n + 1 - i])
    BY <1>1 DEF UndoTx
<1>5. DOMAIN roll = 1..n /\ DOMAIN undo = 1..n
    BY <1>1
<1>6. \A i \in 1..n : \A x \in DOMAIN roll[i] : roll[i][x] \in {Height[b], None}
    BY <1>1 DEF RollTx
<1> HIDE DEF roll, undo
<1>7. o \in DOMAIN Rollforward[b] <=> Touches(b, o)
    BY <1>1, <1>2, <1>3, <1>5, WritesDomain DEF Touches
<1>8. o \in DOMAIN DisconnectBlock[b] <=> Touches(b, o)
    <2>1. o \in DOMAIN DisconnectBlock[b] <=> \E i \in 1..n : o \in Touched(Txs[b][n + 1 - i])
        BY <1>2, <1>4, <1>5, WritesDomain
    <2>2. ASSUME NEW i \in 1..n
          PROVE  n + 1 - i \in 1..n /\ n + 1 - (n + 1 - i) = i
        BY <1>1
    <2> HIDE DEF n
    <2>3. (\E i \in 1..n : o \in Touched(Txs[b][n + 1 - i])) => \E i \in 1..n : o \in Touched(Txs[b][i])
        BY <2>2
    <2>4. (\E i \in 1..n : o \in Touched(Txs[b][i])) => \E i \in 1..n : o \in Touched(Txs[b][n + 1 - i])
        <3> SUFFICES ASSUME NEW i \in 1..n, o \in Touched(Txs[b][i])
                     PROVE  \E j \in 1..n : o \in Touched(Txs[b][n + 1 - j])
            OBVIOUS
        <3>1. o \in Touched(Txs[b][n + 1 - (n + 1 - i)])
            BY <2>2
        <3> QED
            BY <2>2, <3>1, Zenon
    <2> QED
        BY <1>1, <2>1, <2>3, <2>4, Zenon DEF Touches
<1>9. ASSUME Touches(b, o)
      PROVE  o \in Outpoint /\ b # Genesis /\ Rollforward[b][o] \in Coin
    <2>1. o \in Outpoint
        BY <1>9, TxFacts, Zenon DEF Touches, Touched
    <2>2. b # Genesis
        BY <1>9, TxAssumption DEF Touches
    <2>3. PICK i \in 1..n : o \in DOMAIN roll[i] /\ Rollforward[b][o] = roll[i][o]
        BY <1>1, <1>2, <1>5, <1>7, <1>9, WritesLastExists, SMTT(30)
    <2>4. Height[b] \in Nat
        BY TreeAssumption, Zenon
    <2> QED
        BY <1>6, <2>1, <2>2, <2>3, <2>4, Zenon DEF Coin
<1> QED
    BY <1>7, <1>8, <1>9

\* Disconnecting a block gives each coin it touched the value it had below,
\* whatever was there: the first transaction to touch it decides.
LEMMA UndoFacts ==
    ASSUME NEW b \in Block, NEW o, Touches(b, o)
    PROVE  DisconnectBlock[b][o] = Utxo[Prev[b]][o]
<1> DEFINE n == Len(Txs[b])
           undo == [i \in DOMAIN Txs[b] |-> UndoTx(b, n + 1 - i)]
<1>1. n \in Nat /\ DOMAIN Txs[b] = 1..n
    BY TxFacts
<1>2. DisconnectBlock[b] = Writes(undo) /\ DOMAIN undo = 1..n
    BY <1>1, Zenon DEF DisconnectBlock
<1>3. \A i \in 1..n : undo[i] = UndoTx(b, n + 1 - i)
    BY <1>1
<1>4. \A i \in 1..n : DOMAIN UndoTx(b, i) = Touched(Txs[b][i])
    BY DEF UndoTx
<1> HIDE DEF undo
<1>5. PICK k \in 1..n : /\ o \in DOMAIN undo[k]
                        /\ \A j \in 1..n : j > k => o \notin DOMAIN undo[j]
                        /\ DisconnectBlock[b][o] = undo[k][o]
    BY <1>1, <1>2, BlockTouches, WritesLastExists, SMTT(30)
<1> DEFINE i == n + 1 - k
<1>6. i \in 1..n /\ \A j \in 1..n : n + 1 - j \in 1..n
    BY <1>1
<1>7. o \in Touched(Txs[b][i]) /\ DisconnectBlock[b][o] = UndoTx(b, i)[o]
    BY <1>3, <1>4, <1>5, <1>6, Zenon
<1>8. ASSUME NEW j \in 1..n, j < i
      PROVE  o \notin Touched(Txs[b][j])
    <2>1. n + 1 - j \in 1..n /\ n + 1 - j > k /\ n + 1 - (n + 1 - j) = j
        BY <1>1, <1>8
    <2>2. undo[n + 1 - j] = UndoTx(b, j)
        BY <1>3, <2>1, Zenon
    <2> QED
        BY <1>4, <1>5, <2>1, <2>2, Zenon
<1>9. UndoTx(b, i)[o] = IF o \in Txs[b][i].in THEN UndoCoin(b, i, o) ELSE None
    BY <1>7, Zenon DEF UndoTx
<1>10. UndoCoin(b, i, o) = Utxo[Prev[b]][o]
    <2>1. \A j \in 1..(i - 1) : o \notin Txs[b][j].out
        BY <1>1, <1>6, <1>8 DEF Touched
    <2> QED
        BY <2>1, Zenon DEF UndoCoin
<1>11. o \notin Txs[b][i].in => Utxo[Prev[b]][o] = None
    BY <1>1, <1>6, <1>7, BlockTouches, OutputsAreNew, Zenon DEF Touched
<1> QED
    BY <1>7, <1>9, <1>10, <1>11

-----------------------------------------------------------------------------
(* Chains of blocks                                                         *)

\* The last block of a branch to touch a coin.
IsLastToucher(a, b, o) ==
    /\ a \in Anc[b] /\ Touches(a, o)
    /\ \A c \in Anc[b] : Touches(c, o) => Height[c] <= Height[a]

\* A coin is what the last block to touch it made it.
LEMMA UtxoLast ==
    ASSUME NEW b \in Block, NEW o \in Outpoint, NEW a, IsLastToucher(a, b, o)
    PROVE  Utxo[b][o] = Rollforward[a][o]
<1> DEFINE log == [h \in 1..Height[b] |-> Rollforward[GetAncestor(b, h)]]
<1>1. a \in Block /\ a # Genesis /\ Height[a] \in 1..Height[b] /\ Height[b] \in Nat
      /\ GetAncestor(b, Height[a]) = a
    <2>1. /\ a \in Block /\ Height[a] \in 0..Height[b] /\ Height[b] \in Nat
          /\ GetAncestor(b, Height[a]) = a
        BY AncestorIs, Zenon DEF IsLastToucher
    <2>2. a # Genesis
        BY <2>1, BlockTouches, Zenon DEF IsLastToucher
    <2>3. Height[a] # 0
        BY <2>1, <2>2, ParentOf
    <2> QED
        BY <2>1, <2>2, <2>3
<1>2. \A h \in 1..Height[b] : /\ GetAncestor(b, h) \in Anc[b] /\ GetAncestor(b, h) \in Block
                              /\ Height[GetAncestor(b, h)] = h
    BY <1>1, AncestorFacts, TreeAssumption
<1>3. \A h \in 1..Height[b] : o \in DOMAIN log[h] <=> Touches(GetAncestor(b, h), o)
    BY <1>2, BlockTouches
<1>4. log[Height[a]] = Rollforward[a] /\ DOMAIN log = 1..Height[b]
    BY <1>1
<1> HIDE DEF log
<1>5. o \in DOMAIN log[Height[a]]
    BY <1>1, <1>3 DEF IsLastToucher
<1>6. \A j \in 1..Height[b] : j > Height[a] => o \notin DOMAIN log[j]
    BY <1>1, <1>2, <1>3 DEF IsLastToucher
<1>7. Writes(log)[o] = log[Height[a]][o]
    BY <1>1, <1>4, <1>5, <1>6, WritesLast
<1>8. o \in DOMAIN Writes(log)
    BY <1>1, <1>4, <1>5, WritesDomain, Zenon
<1>9. Utxo[b] = Written(Empty, log)
    BY Zenon DEF Utxo, log
<1> QED
    BY <1>4, <1>7, <1>8, <1>9 DEF Written

\* A coin that no block touches is not there.
LEMMA UtxoNone ==
    ASSUME NEW b \in Block, NEW o \in Outpoint, \A a \in Anc[b] : ~Touches(a, o)
    PROVE  Utxo[b][o] = None
<1> DEFINE log == [h \in 1..Height[b] |-> Rollforward[GetAncestor(b, h)]]
<1>1. \A h \in 1..Height[b] : GetAncestor(b, h) \in Anc[b] /\ GetAncestor(b, h) \in Block
    BY AncestorFacts, TreeAssumption
<1>2. \A h \in 1..Height[b] : o \notin DOMAIN log[h]
    BY <1>1, BlockTouches, Zenon
<1>3. DOMAIN log = 1..Height[b]
    BY Zenon
<1> HIDE DEF log
<1>4. o \notin DOMAIN Writes(log)
    BY <1>2, <1>3, WritesDomain, Zenon
<1>5. Utxo[b] = Written(Empty, log)
    BY Zenon DEF Utxo, log
<1> QED
    BY <1>4, <1>5, Zenon DEF Written, Empty

\* One or the other is the case.
LEMMA LastToucherExists ==
    ASSUME NEW b \in Block, NEW o, NEW c \in Anc[b], Touches(c, o)
    PROVE  \E a : IsLastToucher(a, b, o)
<1> DEFINE S == {Height[a] : a \in {d \in Anc[b] : Touches(d, o)}}
<1>1. \A a \in Anc[b] : a \in Block /\ Height[a] \in 0..Height[b] /\ Height[b] \in Nat
    BY AncestorIs
<1>2. \A a \in Anc[b] : Touches(a, o) => Height[a] # 0
    BY <1>1, BlockTouches, ParentOf
<1>3. S \in SUBSET (1..Height[b]) /\ S # {}
    BY <1>1, <1>2
<1>4. PICK h \in S : \A m \in S : m <= h
    BY <1>1, <1>3, LargestOf, Zenon
<1>5. PICK a \in Anc[b] : Touches(a, o) /\ h = Height[a]
    BY Zenon
<1>6. \A d \in Anc[b] : Touches(d, o) => Height[d] <= Height[a]
    BY <1>4, <1>5
<1> QED
    BY <1>5, <1>6 DEF IsLastToucher

\* A coin that no block above a touches is what it is at a.
LEMMA UtxoSame ==
    ASSUME NEW b \in Block, NEW a \in Anc[b], NEW o \in Outpoint,
           \A c \in Anc[b] : Height[c] > Height[a] => ~Touches(c, o)
    PROVE  Utxo[b][o] = Utxo[a][o]
<1>1. /\ a \in Block /\ Anc[a] \subseteq Anc[b] /\ Anc[b] \subseteq Block
      /\ \A c \in Anc[b] : Touches(c, o) => c \in Anc[a]
    <2>1. a \in Block /\ Anc[a] \subseteq Anc[b] /\ Anc[b] \subseteq Block
        BY Branches, TreeAssumption DEF Branch
    <2>2. ASSUME NEW c \in Anc[b], Touches(c, o)
          PROVE  c \in Anc[a]
        <3>1. Height[c] \in Nat /\ Height[a] \in Nat
            BY <2>1, TreeAssumption
        <3> QED
            BY <2>2, <3>1, AboveBlock
    <2> QED
        BY <2>1, <2>2
<1>2. CASE \A c \in Anc[b] : ~Touches(c, o)
    BY <1>1, <1>2, UtxoNone
<1>3. CASE \E c \in Anc[b] : Touches(c, o)
    <2>1. PICK t : IsLastToucher(t, b, o)
        BY <1>3, LastToucherExists, Zenon
    <2>2. IsLastToucher(t, a, o)
        BY <1>1, <2>1, Zenon DEF IsLastToucher
    <2> QED
        BY <1>1, <2>1, <2>2, UtxoLast
<1> QED
    BY <1>2, <1>3

\* The coins are coins, and there are none at the genesis block.
LEMMA UtxoType ==
    /\ \A b \in Block : Utxo[b] \in [Outpoint -> Coin]
    /\ Utxo[Genesis] = Empty
<1>1. \A b \in Block : Utxo[b] = [o \in Outpoint |-> Utxo[b][o]]
    BY DEF Utxo, Written
<1>2. ASSUME NEW b \in Block, NEW o \in Outpoint
      PROVE  Utxo[b][o] \in Coin
    <2>1. CASE \A c \in Anc[b] : ~Touches(c, o)
        BY <2>1, UtxoNone DEF Coin
    <2>2. CASE \E c \in Anc[b] : Touches(c, o)
        <3>1. PICK t : IsLastToucher(t, b, o)
            BY <2>2, LastToucherExists, Zenon
        <3>2. t \in Block /\ Touches(t, o)
            BY <3>1, TreeAssumption, Zenon DEF IsLastToucher
        <3> QED
            BY <3>1, <3>2, BlockTouches, UtxoLast
    <2> QED
        BY <2>1, <2>2
<1>3. ASSUME NEW o \in Outpoint
      PROVE  Utxo[Genesis][o] = None
    BY UtxoNone, BlockTouches, TreeAssumption
<1>4. Utxo[Genesis] = [o \in Outpoint |-> None]
    BY <1>1, <1>3, TreeAssumption
<1> QED
    BY <1>1, <1>2, <1>4, Zenon DEF Empty

-----------------------------------------------------------------------------
(* Replays                                                                  *)

\* The coins of the tip that the database leaves.
CoinsOf(old) == IF old = None THEN Empty ELSE Utxo[old]

\* A database in the middle of a transition: every coin is the old or the new one.
Mixed(coins, new, old) ==
    /\ coins \in [Outpoint -> Coin]
    /\ \A o \in Outpoint : coins[o] = CoinsOf(old)[o] \/ coins[o] = Utxo[new][o]

\* The two branches have a last common block.
LEMMA ForkFacts ==
    ASSUME NEW new \in Block, NEW old \in Block \cup {None}
    PROVE  /\ Fork(new, old) \in Anc[new]
           /\ old # None => Fork(new, old) \in Anc[old]
<1>1. \A b \in Block : Genesis \in Anc[b] /\ Anc[b] \subseteq Block
    BY Branches, TreeAssumption DEF Branch
<1>2. CASE old = None
    BY <1>1, <1>2 DEF Fork
<1>3. CASE old # None
    <2> DEFINE C == Anc[old] \cap Anc[new]
               S == {Height[c] + 1 : c \in C}
    <2>1. old \in Block /\ Genesis \in C
        BY <1>1, <1>3
    <2>2. \A c \in C : Height[c] \in 0..Height[old] /\ Height[old] \in Nat
        BY <2>1, AncestorIs
    <2>3. S \in SUBSET (1..(Height[old] + 1)) /\ S # {} /\ Height[old] + 1 \in Nat
        BY <2>1, <2>2
    <2>4. PICK k \in S : \A m \in S : m <= k
        BY <2>3, LargestOf, Zenon
    <2>5. PICK c \in C : k = Height[c] + 1
        OBVIOUS
    <2>6. ASSUME NEW d \in C
          PROVE  Height[d] <= Height[c]
        <3>1. Height[d] + 1 \in S
            BY Zenon
        <3>2. Height[d] + 1 <= Height[c] + 1
            BY <2>4, <2>5, <3>1, Zenon
        <3> QED
            BY <2>2, <3>2
    <2> HIDE DEF S
    <2>7. LastCommonAncestor(old, new) \in C
        BY <2>5, <2>6 DEF LastCommonAncestor
    <2> QED
        BY <1>3, <2>7 DEF Fork
<1> QED
    BY <1>2, <1>3, Zenon

\* ReplayBlocks gives the coins of the new tip, however far the transition got.
LEMMA ReplayGives ==
    ASSUME NEW new \in Block, NEW old \in Block \cup {None}, NEW coins, Mixed(coins, new, old)
    PROVE  Replayed(coins, new, old) = Utxo[new]
<1> DEFINE f == Fork(new, old)
           back == OldBranch(new, old)
           forth == NewBranch(new, old)
           logBack == [i \in DOMAIN back |-> DisconnectBlock[back[i]]]
           logForth == [i \in DOMAIN forth |-> Rollforward[forth[i]]]
           n == Height[new] - Height[f]
<1>1. /\ f \in Anc[new] /\ f \in Block /\ Height[new] \in Nat /\ Height[f] \in 0..Height[new]
      /\ n \in Nat
    <2>1. f \in Anc[new]
        BY ForkFacts, Zenon
    <2> QED
        BY <2>1, AncestorIs
<1>2. Replayed(coins, new, old) = Written(Written(coins, logBack), logForth)
    BY Zenon DEF Replayed
<1>3. DOMAIN forth = 1..n /\ \A i \in 1..n : forth[i] = GetAncestor(new, Height[f] + i)
    BY Zenon DEF NewBranch
<1>4. \A i \in 1..n : /\ forth[i] \in Anc[new] /\ forth[i] \in Block
                      /\ Height[forth[i]] = Height[f] + i
    <2> SUFFICES ASSUME NEW i \in 1..n
                 PROVE  /\ forth[i] \in Anc[new] /\ forth[i] \in Block
                        /\ Height[forth[i]] = Height[f] + i
        BY Zenon
    <2>1. Height[f] + i \in 0..Height[new]
        BY <1>1
    <2> QED
        BY <1>3, <2>1, AncestorFacts, TreeAssumption
<1>5. DOMAIN logForth = 1..n /\ \A i \in 1..n : logForth[i] = Rollforward[forth[i]]
    BY <1>3, Zenon
<1>6. ASSUME NEW o \in Outpoint
      PROVE  Written(Written(coins, logBack), logForth)[o] = Utxo[new][o]
    <2>1. CASE o \in DOMAIN Writes(logForth)
        <3> HIDE DEF f, forth, logForth, logBack, n
        <3>1. PICK i \in 1..n : /\ o \in DOMAIN logForth[i]
                                /\ \A j \in 1..n : j > i => o \notin DOMAIN logForth[j]
                                /\ Writes(logForth)[o] = logForth[i][o]
            BY <1>1, <1>5, <2>1, WritesLastExists
        <3>2. Touches(forth[i], o) /\ Writes(logForth)[o] = Rollforward[forth[i]][o]
            BY <1>4, <1>5, <3>1, BlockTouches, Zenon
        <3>3. ASSUME NEW c \in Anc[new], Touches(c, o), Height[c] > Height[forth[i]]
              PROVE  FALSE
            <4>1. /\ c \in Block /\ Height[c] \in 0..Height[new] /\ Height[f] \in Nat
                  /\ GetAncestor(new, Height[c]) = c
                BY <1>1, AncestorIs
            <4> DEFINE j == Height[c] - Height[f]
            <4>2. j \in 1..n /\ j > i /\ Height[f] + j = Height[c]
                BY <1>1, <1>4, <3>3, <4>1 DEF n
            <4>3. forth[j] = c
                BY <1>3, <4>1, <4>2, Zenon
            <4> QED
                BY <1>5, <3>1, <3>3, <4>1, <4>2, <4>3, BlockTouches
        <3>4. \A c \in Anc[new] : Height[c] \in Nat /\ Height[forth[i]] \in Nat
            BY <1>4, TreeAssumption, Zenon
        <3>5. IsLastToucher(forth[i], new, o)
            BY <1>4, <3>2, <3>3, <3>4 DEF IsLastToucher
        <3>6. Utxo[new][o] = Rollforward[forth[i]][o]
            BY <3>5, UtxoLast
        <3> QED
            BY <2>1, <3>2, <3>6, Zenon DEF Written
    <2>2. CASE o \notin DOMAIN Writes(logForth)
        <3>1. Written(Written(coins, logBack), logForth)[o] = Written(coins, logBack)[o]
            BY <2>2, Zenon DEF Written
        <3>2. Utxo[new][o] = Utxo[f][o]
            <4> HIDE DEF f, forth, logForth, logBack, n
            <4>1. ASSUME NEW c \in Anc[new], Height[c] > Height[f], Touches(c, o)
                  PROVE  FALSE
                <5>1. /\ c \in Block /\ Height[c] \in 0..Height[new] /\ Height[f] \in Nat
                      /\ GetAncestor(new, Height[c]) = c
                    BY <1>1, AncestorIs
                <5> DEFINE j == Height[c] - Height[f]
                <5>2. j \in 1..n /\ Height[f] + j = Height[c]
                    BY <1>1, <4>1, <5>1 DEF n
                <5>3. forth[j] = c
                    BY <1>3, <5>1, <5>2, Zenon
                <5>4. o \in DOMAIN logForth[j]
                    BY <1>5, <4>1, <5>1, <5>2, <5>3, BlockTouches, Zenon
                <5> QED
                    BY <1>5, <2>2, <5>2, <5>4, WritesDomain, Zenon
            <4> QED
                BY <1>1, <4>1, UtxoSame, Zenon
        <3>3. CASE old = None
            <4>1. f = Genesis /\ DOMAIN logBack = {}
                BY <3>3 DEF Fork, OldBranch
            <4>2. Written(coins, logBack)[o] = coins[o]
                <5> HIDE DEF logBack
                <5>1. o \notin DOMAIN Writes(logBack)
                    BY <4>1, WritesDomain, Zenon
                <5> QED
                    BY <5>1, Zenon DEF Written
            <4>3. CoinsOf(old)[o] = Utxo[f][o]
                BY <3>3, <4>1, UtxoType, Zenon DEF CoinsOf
            <4> QED
                BY <3>1, <3>2, <4>2, <4>3, Zenon DEF Mixed
        <3>4. CASE old # None
            <4> DEFINE k == Height[old] - Height[f]
            <4>1. /\ old \in Block /\ f \in Anc[old] /\ Height[old] \in Nat
                  /\ Height[f] \in 0..Height[old] /\ k \in Nat
                <5>1. old \in Block /\ f \in Anc[old]
                    BY <3>4, ForkFacts, Zenon
                <5> QED
                    BY <5>1, AncestorIs
            <4>2. DOMAIN back = 1..k /\ \A i \in 1..k : back[i] = GetAncestor(old, Height[old] + 1 - i)
                BY <3>4, Zenon DEF OldBranch
            <4>3. DOMAIN logBack = 1..k /\ \A i \in 1..k : logBack[i] = DisconnectBlock[back[i]]
                BY <4>2, Zenon
            <4>4. \A i \in 1..k : /\ back[i] \in Anc[old] /\ back[i] \in Block
                                  /\ Height[back[i]] = Height[old] + 1 - i
                <5> SUFFICES ASSUME NEW i \in 1..k
                             PROVE  /\ back[i] \in Anc[old] /\ back[i] \in Block
                                    /\ Height[back[i]] = Height[old] + 1 - i
                    BY Zenon
                <5>1. Height[old] + 1 - i \in 0..Height[old]
                    BY <4>1
                <5> QED
                    BY <4>1, <4>2, <5>1, AncestorFacts, TreeAssumption
            <4> HIDE DEF f, back, forth, logForth, logBack, n, k
            <4>5. ASSUME NEW c \in Anc[old], Height[c] > Height[f]
                  PROVE  /\ Height[old] + 1 - Height[c] \in 1..k
                         /\ back[Height[old] + 1 - Height[c]] = c
                         /\ c \in Block /\ Height[c] \in Nat
                <5>1. c \in Block /\ Height[c] \in 0..Height[old] /\ GetAncestor(old, Height[c]) = c
                    BY <4>1, AncestorIs, Zenon
                <5>2. /\ Height[old] + 1 - Height[c] \in 1..k
                      /\ Height[old] + 1 - (Height[old] + 1 - Height[c]) = Height[c]
                    BY <4>1, <4>5, <5>1 DEF k
                <5> QED
                    BY <4>2, <5>1, <5>2
            <4>6. CASE o \in DOMAIN Writes(logBack)
                <5>1. PICK i \in 1..k : /\ o \in DOMAIN logBack[i]
                                        /\ \A j \in 1..k : j > i => o \notin DOMAIN logBack[j]
                                        /\ Writes(logBack)[o] = logBack[i][o]
                    BY <4>1, <4>3, <4>6, WritesLastExists
                <5> DEFINE c == back[i]
                <5>2. /\ c \in Anc[old] /\ c \in Block /\ Height[c] = Height[old] + 1 - i
                      /\ Height[c] > Height[f]
                    BY <4>1, <4>4 DEF k
                <5>3. Touches(c, o) /\ c # Genesis
                    BY <4>3, <5>1, <5>2, BlockTouches, Zenon
                <5>4. Writes(logBack)[o] = Utxo[Prev[c]][o]
                    BY <4>3, <5>1, <5>2, <5>3, UndoFacts
                <5> HIDE DEF c
                <5>5. /\ Prev[c] \in Block /\ Anc[c] = {c} \cup Anc[Prev[c]]
                      /\ Height[c] = Height[Prev[c]] + 1 /\ Height[Prev[c]] \in Nat
                    BY <5>2, <5>3, ParentOf, Zenon
                <5>6. Anc[Prev[c]] \subseteq Anc[old]
                    BY <4>1, <5>2, <5>5, Branches, Zenon DEF Branch
                <5>7. f \in Anc[Prev[c]]
                    <6>1. Prev[c] \in Anc[Prev[c]]
                        BY <5>5, Branches, Zenon DEF Branch
                    <6>2. Prev[c] \in Anc[old] /\ Height[f] <= Height[Prev[c]]
                        BY <4>1, <5>2, <5>5, <5>6, <6>1
                    <6> QED
                        BY <4>1, <6>2, AboveBlock, Zenon
                <5>8. ASSUME NEW d \in Anc[Prev[c]], Height[d] > Height[f], Touches(d, o)
                      PROVE  FALSE
                    <6>1. d \in Anc[old] /\ Height[d] \in 0..Height[Prev[c]]
                        BY <5>5, <5>6, AncestorIs, Zenon
                    <6> DEFINE j == Height[old] + 1 - Height[d]
                    <6>2. j \in 1..k /\ back[j] = d /\ d \in Block
                        BY <4>5, <5>8, <6>1, Zenon
                    <6>3. j > i
                        BY <4>1, <5>2, <5>5, <6>1
                    <6>4. o \in DOMAIN logBack[j]
                        BY <4>3, <5>8, <6>2, BlockTouches, Zenon
                    <6> QED
                        BY <5>1, <6>2, <6>3, <6>4, Zenon
                <5>9. Utxo[Prev[c]][o] = Utxo[f][o]
                    BY <5>5, <5>7, <5>8, UtxoSame
                <5> QED
                    BY <3>1, <3>2, <4>6, <5>4, <5>9, Zenon DEF Written
            <4>7. CASE o \notin DOMAIN Writes(logBack)
                <5>1. ASSUME NEW c \in Anc[old], Height[c] > Height[f], Touches(c, o)
                      PROVE  FALSE
                    <6> DEFINE j == Height[old] + 1 - Height[c]
                    <6>1. j \in 1..k /\ back[j] = c /\ c \in Block
                        BY <4>5, <5>1, Zenon
                    <6>2. o \in DOMAIN logBack[j]
                        BY <4>3, <5>1, <6>1, BlockTouches, Zenon
                    <6> QED
                        BY <4>3, <4>7, <6>1, <6>2, WritesDomain, Zenon
                <5>2. Utxo[old][o] = Utxo[f][o]
                    BY <4>1, <5>1, UtxoSame, Zenon
                <5>3. Written(coins, logBack)[o] = coins[o]
                    BY <4>7, Zenon DEF Written
                <5>4. coins[o] = Utxo[old][o] \/ coins[o] = Utxo[new][o]
                    BY <3>4, Zenon DEF Mixed, CoinsOf
                <5> QED
                    BY <3>1, <3>2, <5>2, <5>3, <5>4, Zenon
            <4> QED
                BY <4>6, <4>7, Zenon
        <3> QED
            BY <3>3, <3>4, Zenon
    <2> QED
        BY <2>1, <2>2, Zenon
<1>7. Utxo[new] = [o \in Outpoint |-> Utxo[new][o]]
    BY UtxoType, Zenon
<1> HIDE DEF f, back, forth, logForth, logBack, n
<1>8. Written(Written(coins, logBack), logForth)
        = [o \in Outpoint |-> Written(Written(coins, logBack), logForth)[o]]
    BY Zenon DEF Written
<1> QED
    BY <1>2, <1>6, <1>7, <1>8

-----------------------------------------------------------------------------
(* The invariant                                                            *)

\* What is on disk ...
DiskInv ==
    /\ best # None => db = Utxo[best] /\ heads = <<>>
    /\ best = None /\ heads = <<>> => db = Empty
    /\ heads # <<>> => Mixed(db, heads[1], heads[2])

\* ... and what the process is doing: only a flush leaves a transition on disk,
\* and it goes to the tip.
NodeInv ==
    /\ mode = "replay" => heads # <<>> /\ heads[1] = tip /\ view = Utxo[tip]
    /\ mode = "up" /\ heads # <<>> => writing /\ heads[1] = tip
    /\ mode = "down" => ~writing
    /\ writing => todo = {o \in Outpoint : Cache[o] # db[o]}

FInv == TypeOK /\ DiskInv /\ NodeInv

\* The cache holds the coins of the tip, also in a replay.
LEMMA CacheIsUtxo ==
    ASSUME FInv, mode # "down"
    PROVE  Cache = Utxo[tip] /\ Cache \in [Outpoint -> Coin]
BY UtxoType DEF FInv, NodeInv, TypeOK, Cache

\* What ReplayBlocks makes of a transition on disk.
LEMMA ReplayNow ==
    ASSUME FInv, heads # <<>>
    PROVE  /\ heads[1] \in Block /\ heads[2] \in Block \cup {None} /\ best = None
           /\ Replayed(db, heads[1], heads[2]) = Utxo[heads[1]]
<1>1. heads[1] \in Block /\ heads[2] \in Block \cup {None} /\ best = None
    BY Zenon DEF FInv, TypeOK, DiskInv
<1> QED
    BY <1>1, ReplayGives DEF FInv, DiskInv

\* The first batch leaves the database with coins of the old and of the new tip,
\* and so do the others.
LEMMA BatchMixes ==
    ASSUME FInv, NEW entries \in SUBSET Outpoint, WriteBatch(entries)
    PROVE  /\ Mixed(db', tip, OldTip) /\ OldTip \in Block \cup {None}
           /\ heads' = <<tip, OldTip>> /\ tip \in Block
           /\ heads # <<>> => heads[1] = tip /\ heads[2] = OldTip
<1>1. mode # "down" /\ Cache = Utxo[tip] /\ Cache \in [Outpoint -> Coin] /\ db \in [Outpoint -> Coin]
    BY CacheIsUtxo DEF FInv, TypeOK, NodeInv, WriteBatch
<1>2. tip \in Block /\ OldTip \in Block \cup {None}
    BY Zenon DEF FInv, TypeOK, OldTip
<1>3. heads # <<>> => heads[1] = tip /\ heads[2] = OldTip
    BY DEF FInv, TypeOK, DiskInv, NodeInv, OldTip, WriteBatch
<1>4. \A o \in Outpoint : db[o] = CoinsOf(OldTip)[o] \/ db[o] = Utxo[tip][o]
    <2>1. CASE heads = <<>>
        <3>1. db = CoinsOf(OldTip)
            BY <2>1 DEF FInv, DiskInv, OldTip, CoinsOf
        <3> QED
            BY <3>1, Zenon
    <2>2. CASE heads # <<>>
        BY <1>3, <2>2 DEF FInv, DiskInv, Mixed
    <2> QED
        BY <2>1, <2>2, Zenon
<1>5. db' = [o \in Outpoint |-> IF o \in entries THEN Cache[o] ELSE db[o]]
    BY Zenon DEF WriteBatch
<1>6. db' \in [Outpoint -> Coin]
    BY <1>1, <1>5
<1>7. \A o \in Outpoint : db'[o] = CoinsOf(OldTip)[o] \/ db'[o] = Utxo[tip][o]
    BY <1>1, <1>4, <1>5, Zenon
<1> QED
    BY <1>2, <1>3, <1>6, <1>7 DEF Mixed, WriteBatch

\* The last batch completes the coins of the tip.
LEMMA LastBatchCompletes ==
    ASSUME FInv, WriteLastBatch
    PROVE  db' = Utxo[tip] /\ mode # "down" /\ tip \in Block
<1>1. /\ mode # "down" /\ Cache = Utxo[tip] /\ Cache \in [Outpoint -> Coin]
      /\ db \in [Outpoint -> Coin] /\ tip \in Block
    BY CacheIsUtxo DEF FInv, TypeOK, NodeInv, WriteLastBatch
<1>2. todo = {o \in Outpoint : Cache[o] # db[o]}
    BY DEF FInv, NodeInv, WriteLastBatch
<1>3. \A o \in Outpoint : db'[o] = Cache[o]
    BY <1>2, Zenon DEF WriteLastBatch
<1>4. db' = [o \in Outpoint |-> db'[o]]
    BY DEF WriteLastBatch
<1>5. db' = Cache
    BY <1>1, <1>3, <1>4
<1> QED
    BY <1>1, <1>5

\* FInv holds in every reachable state.
LEMMA FlushInvariance == Spec => []FInv
<1>1. Init => FInv
    <2> SUFFICES ASSUME Init PROVE FInv
        OBVIOUS
    <2>1. Empty \in [Outpoint -> Coin]
        BY Zenon DEF Empty, Coin
    <2> QED
        BY <2>1, TreeAssumption, Zenon DEF Init, FInv, TypeOK, DiskInv, NodeInv
<1>2. FInv /\ [Next]_vars => FInv'
    <2> SUFFICES ASSUME FInv, [Next]_vars PROVE FInv'
        BY Zenon
    <2>1. ASSUME NEW b \in Block \ {Genesis}, ConnectTip(b)
          PROVE  FInv'
        BY <2>1, Zenon DEF FInv, TypeOK, DiskInv, NodeInv, ConnectTip
    <2>2. CASE DisconnectTip
        BY <2>2, TreeAssumption, Zenon DEF FInv, TypeOK, DiskInv, NodeInv, DisconnectTip
    <2>3. CASE BeginWrite
        <3>1. Cache' = Cache /\ UNCHANGED <<db, best, heads, mode, tip, view>>
            BY <2>3, Zenon DEF BeginWrite, Cache
        <3> QED
            BY <2>3, <3>1, Zenon DEF FInv, TypeOK, DiskInv, NodeInv, BeginWrite
    <2>4. ASSUME NEW entries \in SUBSET Outpoint, WriteBatch(entries)
          PROVE  FInv'
        <3>1. /\ Mixed(db', tip, OldTip) /\ OldTip \in Block \cup {None}
              /\ heads' = <<tip, OldTip>> /\ tip \in Block
            BY <2>4, BatchMixes
        <3>2. heads' # <<>> /\ heads'[1] = tip /\ heads'[2] = OldTip
            BY <3>1, Zenon
        <3>3. UNCHANGED <<mode, tip, view, writing>> /\ writing /\ best' = None /\ mode # "down"
              /\ todo' = todo \ entries /\ Cache' = Cache
            BY <2>4, Zenon DEF WriteBatch, FInv, NodeInv, Cache
        <3>4. TypeOK'
            BY <3>1, <3>3 DEF FInv, TypeOK, Mixed
        <3>5. DiskInv'
            BY <3>1, <3>2, <3>3, Zenon DEF DiskInv
        <3>6. todo' = {o \in Outpoint : Cache'[o] # db'[o]}
            <4>1. todo = {o \in Outpoint : Cache[o] # db[o]}
                BY <3>3 DEF FInv, NodeInv
            <4>2. \A o \in Outpoint : db'[o] = IF o \in entries THEN Cache[o] ELSE db[o]
                BY <2>4 DEF WriteBatch
            <4> QED
                BY <3>3, <4>1, <4>2
        <3>7. NodeInv'
            BY <3>2, <3>3, <3>6 DEF FInv, NodeInv
        <3> QED
            BY <3>4, <3>5, <3>7, Zenon DEF FInv
    <2>5. CASE WriteLastBatch
        <3>1. db' = Utxo[tip] /\ tip \in Block
            BY <2>5, LastBatchCompletes
        <3>2. /\ best' = tip /\ heads' = <<>> /\ mode' = "up" /\ view' = Empty
              /\ writing' = FALSE /\ todo' = {} /\ tip' = tip
            BY <2>5 DEF WriteLastBatch
        <3>3. Empty \in [Outpoint -> Coin] /\ Utxo[tip] \in [Outpoint -> Coin] /\ tip # None
            BY <3>1, UtxoType, TreeAssumption DEF Empty, Coin
        <3> QED
            BY <3>1, <3>2, <3>3, Zenon DEF FInv, TypeOK, DiskInv, NodeInv
    <2>6. CASE Crash
        <3>1. Empty \in [Outpoint -> Coin]
            BY Zenon DEF Empty, Coin
        <3> QED
            BY <2>6, <3>1, TreeAssumption, Zenon DEF FInv, TypeOK, DiskInv, NodeInv, Crash
    <2>7. CASE LoadChainTip
        BY <2>7, TreeAssumption, Zenon DEF FInv, TypeOK, DiskInv, NodeInv, LoadChainTip
    <2>8. CASE ReplayBlocks
        <3>1. view' = Utxo[heads[1]] /\ heads[1] \in Block
            BY <2>8, ReplayNow DEF ReplayBlocks
        <3>2. view' \in [Outpoint -> Coin]
            BY <3>1, UtxoType, Zenon
        <3> QED
            BY <2>8, <3>1, <3>2 DEF FInv, TypeOK, DiskInv, NodeInv, ReplayBlocks
    <2>9. CASE UNCHANGED vars
        BY <2>9 DEF vars, FInv, TypeOK, DiskInv, NodeInv, Cache
    <2> QED
        BY <2>1, <2>2, <2>3, <2>4, <2>5, <2>6, <2>7, <2>8, <2>9 DEF Next
<1> QED
    BY <1>1, <1>2, PTL DEF Spec

-----------------------------------------------------------------------------
(* The theorems                                                             *)

\* The variables keep their types.
THEOREM FlushTypes == Spec => []TypeOK
<1>1. FInv => TypeOK
    BY DEF FInv
<1> QED
    BY <1>1, FlushInvariance, PTL

\* A coin database that names its best block holds exactly its coins, whatever
\* batches, crashes and replays came before.
THEOREM DatabaseMatchesBest == Spec => []DbMatchesBest
<1>1. FInv => DbMatchesBest
    BY DEF FInv, DiskInv, DbMatchesBest
<1> QED
    BY <1>1, FlushInvariance, PTL

\* ReplayBlocks recovers from a crash between any two batches.
THEOREM ReplayAlwaysRecovers == Spec => []ReplayRecovers
<1>1. FInv => ReplayRecovers
    BY ReplayNow DEF ReplayRecovers
<1> QED
    BY <1>1, FlushInvariance, PTL

\* The assertions of BatchWrite hold: a replay is flushed to the marked head.
THEOREM ReplayKeepsHead == Spec => []ReplaySameHead
<1>1. FInv => ReplaySameHead
    BY DEF FInv, NodeInv, ReplaySameHead
<1> QED
    BY <1>1, FlushInvariance, PTL

\* What a start-up would find on disk.
Saved == IF heads # <<>> THEN heads[1] ELSE IF best = None THEN Genesis ELSE best
Found == IF heads # <<>> THEN Replayed(db, heads[1], heads[2]) ELSE db

FoundInv == Found = Utxo[Saved] /\ Saved \in Block

\* It finds the coins of the block that was flushed last.
LEMMA FoundIsSaved == FInv => FoundInv
<1> SUFFICES ASSUME FInv PROVE FoundInv
    BY Zenon
<1>1. CASE heads # <<>>
    BY <1>1, ReplayNow DEF FoundInv, Found, Saved
<1>2. CASE heads = <<>>
    BY <1>2, UtxoType, TreeAssumption DEF FoundInv, Found, Saved, FInv, DiskInv, TypeOK
<1> QED
    BY <1>1, <1>2

\* Batches, crashes and replays together implement a flush that happens at once.
THEOREM FlushImplementsAtomicFlush == Spec => FlushIsAtomic
<1>1. Init => Atomic!Init
    BY UtxoType DEF Init, Atomic!Init
<1>2. FInv /\ FInv' /\ FoundInv /\ FoundInv' /\ [Next]_vars => [Atomic!Next]_(Atomic!vars)
    <2> SUFFICES ASSUME FInv, FInv', FoundInv, FoundInv', [Next]_vars
                 PROVE  [Atomic!Next]_(Atomic!vars)
        BY Zenon
    <2>0. /\ Found = Utxo[Saved] /\ Saved \in Block
          /\ Found' = Utxo[Saved'] /\ Saved' \in Block
          /\ tip \in Block /\ tip' \in Block
        BY Zenon DEF FoundInv, FInv, TypeOK
    <2>a. ASSUME mode = "up", mode' = "up", Saved' = Saved
          PROVE  [Atomic!Next]_(Atomic!vars)
        BY <2>a, <2>0 DEF Atomic!Next, Atomic!Move, Found, Saved
    <2>b. ASSUME mode # "up", mode' # "up", Saved' = Saved
          PROVE  [Atomic!Next]_(Atomic!vars)
        BY <2>b, <2>0 DEF Atomic!vars, Found, Saved
    <2>1. ASSUME NEW b \in Block \ {Genesis}, ConnectTip(b)
          PROVE  [Atomic!Next]_(Atomic!vars)
        BY <2>1, <2>a DEF ConnectTip, Saved
    <2>2. CASE DisconnectTip
        BY <2>2, <2>a DEF DisconnectTip, Saved
    <2>3. CASE BeginWrite
        BY <2>3, <2>a, <2>b DEF BeginWrite, Saved
    <2>4. ASSUME NEW entries \in SUBSET Outpoint, WriteBatch(entries)
          PROVE  [Atomic!Next]_(Atomic!vars)
        <3>1. /\ heads' = <<tip, OldTip>> /\ UNCHANGED <<mode, tip>>
              /\ heads # <<>> => heads[1] = tip
            BY <2>4, BatchMixes DEF WriteBatch
        <3>2. Saved' = tip /\ (heads # <<>> => Saved' = Saved)
            BY <3>1 DEF Saved
        <3>3. CASE mode = "up"
            BY <2>0, <3>1, <3>2, <3>3 DEF Atomic!Next, Atomic!Flush, Found, Saved
        <3>4. CASE mode # "up"
            <4>1. heads # <<>>
                BY <2>4, <3>4, Zenon DEF FInv, NodeInv, TypeOK, WriteBatch
            <4> QED
                BY <2>b, <3>1, <3>2, <3>4, <4>1, Zenon
        <3> QED
            BY <3>3, <3>4
    <2>5. CASE WriteLastBatch
        <3>1. /\ best' = tip /\ heads' = <<>> /\ mode' = "up" /\ tip' = tip /\ writing
            BY <2>5 DEF WriteLastBatch
        <3>2. Saved' = tip
            BY <2>0, <3>1, TreeAssumption DEF Saved
        <3>3. CASE mode = "up"
            BY <2>0, <3>1, <3>2, <3>3 DEF Atomic!Next, Atomic!Flush, Found, Saved
        <3>4. CASE mode # "up"
            <4>1. heads # <<>> /\ heads[1] = tip
                BY <3>1, <3>4 DEF FInv, NodeInv, TypeOK
            <4>2. Saved = tip
                BY <4>1 DEF Saved
            <4> QED
                BY <2>0, <3>1, <3>2, <3>4, <4>2 DEF Atomic!Next, Atomic!Start, Found, Saved
        <3> QED
            BY <3>3, <3>4
    <2>6. CASE Crash
        <3>1. Saved' = Saved /\ mode' = "down"
            BY <2>6, Zenon DEF Crash, Saved
        <3>2. CASE mode = "up"
            BY <2>0, <3>1, <3>2 DEF Atomic!Next, Atomic!Stop, Found, Saved
        <3> QED
            BY <2>b, <3>1, <3>2
    <2>7. CASE LoadChainTip
        <3>1. Saved' = Saved /\ mode' = "up" /\ mode # "up" /\ tip' = Saved
            BY <2>7 DEF LoadChainTip, Saved
        <3> QED
            BY <2>0, <3>1 DEF Atomic!Next, Atomic!Start, Found, Saved
    <2>8. CASE ReplayBlocks
        BY <2>8, <2>b, Zenon DEF ReplayBlocks, Saved
    <2>9. CASE UNCHANGED vars
        BY <2>9, <2>a, <2>b DEF vars, Saved
    <2> QED
        BY <2>1, <2>2, <2>3, <2>4, <2>5, <2>6, <2>7, <2>8, <2>9 DEF Next
<1> QED
    BY <1>1, <1>2, FlushInvariance, FoundIsSaved, PTL DEF Spec, FlushIsAtomic, Atomic!Spec
=============================================================================

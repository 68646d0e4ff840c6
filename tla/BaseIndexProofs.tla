-------------------------- MODULE BaseIndexProofs ---------------------------
(***************************************************************************)
(* Proofs about BaseIndex, for every tree of blocks, every bound and any     *)
(* number of crashes.                                                        *)
(***************************************************************************)
EXTENDS BaseIndex, WellFoundedInduction, TLAPS

-----------------------------------------------------------------------------
(* The blocks the index lacks.                                              *)

\* A crash costs a block at most: f numbers blocks, and what is missing is among them.
Lacks(b, blocks, n) ==
    \E f \in [1..n -> Block] : \A a \in AncOf(b) \ blocks : \E i \in 1..n : f[i] = a
Holds(lost, blocks, n, b) == lost \/ Lacks(b, blocks, n)
Has(b) == Holds(blind, written, crashes, b)

\* The synchronisation thread is about to write the block.
HasBelow(b) == Holds(blind, written \cup {b}, crashes, b)

MissInv ==
    /\ synced => place \in {"synced", "ended"} /\ Has(best)
    /\ place = "top" => Has(pindex)
    /\ place \in {"timer", "commit", "write"} => HasBelow(pindex) /\ pindex # None
    /\ place = "commit" => best = pindex
    /\ place \in {"stopping", "synced"} => Has(best)
    /\ Has(locator) \/ (place = "write" /\ locator = pindex)

\* The callback that is half done.
HandlerInv ==
    /\ handler # "entry" => /\ active # Nothing /\ active.type = "connected"
                            /\ synced /\ best = ParentOf(active.block)
    /\ handler = "best" => active.block \in written

-----------------------------------------------------------------------------
(* The callbacks to come, in their order.                                   *)

Line(a, q) == (IF a = Nothing THEN <<>> ELSE <<a>>) \o q
Pending == Line(active, queue) \o signals

IsBlock(c) == c.type = "connected"

\* BlockConnected takes the block when the index is at b.
Fits(b, c) == IF b = None THEN c.block = Genesis ELSE ParentOf(c.block) \in AncOf(b)

\* Between two blocks that are connected the chain only gets shorter, so that
\* from the first block that fits on, all blocks fit.
NoBlock(P, i, j) == \A k \in DOMAIN P : i < k /\ k < j => ~IsBlock(P[k])
Ordered(P, t) ==
    /\ \A i, j \in DOMAIN P :
        i < j /\ IsBlock(P[i]) /\ IsBlock(P[j]) /\ NoBlock(P, i, j)
            => ParentOf(P[j].block) \in AncOf(P[i].block)
    /\ \A i \in DOMAIN P :
        IsBlock(P[i]) /\ NoBlock(P, i, Len(P) + 1) => t \in AncOf(P[i].block)

\* The index will get to the tip.
Follows(P, t, b) == t \in AncOf(b) \/ \E i \in DOMAIN P : IsBlock(P[i]) /\ Fits(b, P[i])

NoBlocks(P) == \A i \in DOMAIN P : ~IsBlock(P[i])
FollowInv ==
    /\ Ordered(Pending, tip)
    /\ tip = None => /\ best = None /\ pindex = None /\ place = "ended"
                     /\ NoBlocks(Pending)
    /\ synced /\ tip # None => Follows(Pending, tip, best)

\* The index will get to block t with one of the first n callbacks, before the
\* promise to the caller is kept.
IsPromise(c) == c = Promise(Caller)
Waited(P, n, t, b) ==
    \E i \in DOMAIN P :
        /\ i <= n /\ IsBlock(P[i]) /\ t \in AncOf(P[i].block)
        /\ \E j \in DOMAIN P : j <= i /\ IsBlock(P[j]) /\ Fits(b, P[j])
        /\ \A k \in DOMAIN P : IsPromise(P[k]) => i < k

\* There is one promise at most.
OnePromise(P) == \A i, j \in DOMAIN P : IsPromise(P[i]) /\ IsPromise(P[j]) => i = j
NoPromise(P) == \A i \in DOMAIN P : ~IsPromise(P[i])

\* The callbacks that were added; the others are still with the validation thread.
Added == Len(Line(active, queue))

PromiseInv ==
    /\ goal = None => Caller \notin waits
    /\ Caller \notin waits => NoPromise(Pending)
    /\ OnePromise(Pending)
    /\ goal # None => synced /\ (Has(goal) \/ Waited(Pending, Added, goal, best))
    /\ Has(answer)

XInv == TypeOK /\ MissInv /\ HandlerInv /\ FollowInv /\ PromiseInv

-----------------------------------------------------------------------------
(* Numbers and sets                                                         *)

\* A set of natural numbers that is not empty has a smallest member.
LEMMA SmallestInSet ==
    ASSUME NEW S \in SUBSET Nat, S # {}
    PROVE  \E n \in S : \A m \in S : n <= m
<1> DEFINE R == {p \in Nat \X Nat : p[1] < p[2]}
<1>1. IsWellFoundedOn(R, Nat)
    BY NatLessThanWellFounded, Zenon DEF OpToRel
<1> HIDE DEF R
<1>2. PICK n \in S : \A m \in S : <<m, n>> \notin R
    BY <1>1, WFMin, Zenon
<1>3. ASSUME NEW m \in S
      PROVE  n <= m
    <2>1. m \in Nat /\ n \in Nat /\ <<m, n>> \notin R
        BY <1>2, <1>3, Zenon
    <2> QED
        BY <2>1 DEF R
<1> QED
    BY <1>3, Zenon

\* One with a bound has a largest member.
LEMMA LargestOf ==
    ASSUME NEW n \in Nat, NEW S \in SUBSET (1..n), S # {}
    PROVE  \E k \in S : \A m \in S : m <= k
<1> DEFINE T == {n - m : m \in S}
<1>1. \A m \in S : m \in Nat /\ n - m \in Nat
    OBVIOUS
<1>2. T \in SUBSET Nat /\ T # {}
    BY <1>1, Zenon
<1>3. PICK t \in T : \A u \in T : t <= u
    BY <1>2, SmallestInSet, Zenon
<1>4. PICK k \in S : t = n - k
    OBVIOUS
<1>5. \A m \in S : n - k <= n - m
    BY <1>3, <1>4, Zenon
<1>6. \A m \in S : m <= k
    BY <1>1, <1>5
<1> QED
    BY <1>6

\* Fewer blocks to have, more blocks written, more crashes.
LEMMA LacksLess ==
    ASSUME NEW a \in Block \cup {None}, NEW b \in Block \cup {None}, AncOf(a) \subseteq AncOf(b),
           NEW old, NEW new, old \subseteq new, NEW m \in Nat, NEW n \in Nat, m <= n,
           Lacks(b, old, m)
    PROVE  Lacks(a, new, n)
<1>1. PICK f \in [1..m -> Block] : \A c \in AncOf(b) \ old : \E i \in 1..m : f[i] = c
    BY Zenon DEF Lacks
<1> DEFINE g == [i \in 1..n |-> IF i \in 1..m THEN f[i] ELSE Genesis]
<1>2. g \in [1..n -> Block]
    BY TreeAssumption
<1>3. \A i \in 1..m : i \in 1..n /\ g[i] = f[i]
    OBVIOUS
<1> HIDE DEF g
<1>4. \A c \in AncOf(a) \ new : \E i \in 1..n : g[i] = c
    BY <1>1, <1>3, Zenon
<1> QED
    BY <1>2, <1>4, Zenon DEF Lacks

\* The block that was not written costs one more.
LEMMA LacksOne ==
    ASSUME NEW b \in Block, NEW blocks, NEW n \in Nat, Lacks(b, blocks \cup {b}, n)
    PROVE  Lacks(b, blocks, n + 1)
<1>1. PICK f \in [1..n -> Block] :
          \A c \in AncOf(b) \ (blocks \cup {b}) : \E i \in 1..n : f[i] = c
    BY Zenon DEF Lacks
<1> DEFINE g == [i \in 1..n + 1 |-> IF i \in 1..n THEN f[i] ELSE b]
<1>2. g \in [1..n + 1 -> Block]
    BY Zenon
<1>3. /\ \A i \in 1..n : i \in 1..n + 1 /\ g[i] = f[i]
      /\ n + 1 \in 1..n + 1 /\ g[n + 1] = b
    OBVIOUS
<1> HIDE DEF g
<1>4. \A c \in AncOf(b) \ blocks : \E i \in 1..n + 1 : g[i] = c
    BY <1>1, <1>3, Zenon
<1> QED
    BY <1>2, <1>4, Zenon DEF Lacks

\* Nothing is missing of no block.
LEMMA LacksNone ==
    ASSUME NEW blocks, NEW n \in Nat
    PROVE  Lacks(None, blocks, n)
<1> DEFINE g == [i \in 1..n |-> Genesis]
<1>1. g \in [1..n -> Block] /\ AncOf(None) = {}
    BY TreeAssumption DEF AncOf
<1> QED
    BY <1>1, Zenon DEF Lacks

-----------------------------------------------------------------------------
(* The tree                                                                 *)

\* Ancestors are blocks, and so are theirs.
LEMMA AncOfFacts ==
    ASSUME NEW b \in Block \cup {None}
    PROVE  /\ AncOf(b) \subseteq Block /\ None \notin AncOf(b)
           /\ b # None => b \in AncOf(b)
           /\ \A a \in AncOf(b) : AncOf(a) \subseteq AncOf(b)
BY TreeAssumption, Zenon DEF AncOf

\* A block and its parent.
LEMMA ParentFacts ==
    ASSUME NEW b \in Block
    PROVE  /\ ParentOf(b) \in Block \cup {None}
           /\ AncOf(b) = {b} \cup AncOf(ParentOf(b))
           /\ ParentOf(b) = None <=> b = Genesis
           /\ b # Genesis => ParentOf(b) = Prev[b] /\ Height[b] = Height[Prev[b]] + 1
<1>1. Genesis \in Block /\ None \notin Block /\ Anc[Genesis] = {Genesis}
    BY TreeAssumption, Zenon
<1>2. CASE b = Genesis
    BY <1>1, <1>2, Zenon DEF ParentOf, AncOf
<1>3. CASE b # Genesis
    <2>1. Prev[b] \in Block /\ Anc[b] = {b} \cup Anc[Prev[b]] /\ Height[b] = Height[Prev[b]] + 1
        BY <1>3, TreeAssumption, Zenon
    <2> QED
        BY <1>1, <1>3, <2>1, Zenon DEF ParentOf, AncOf
<1> QED
    BY <1>2, <1>3, Zenon

\* A branch.
LEMMA BranchFacts ==
    ASSUME NEW b \in Block
    PROVE  /\ b # None /\ AncOf(b) = Anc[b] /\ Anc[b] \subseteq Block
           /\ Height[b] \in Nat /\ b \in Anc[b] /\ Genesis \in Anc[b]
           /\ \A a \in Anc[b] : /\ Anc[a] \subseteq Anc[b]
                                /\ Height[a] \in Nat /\ Height[a] <= Height[b]
           /\ \A h \in 0..Height[b] : \E a \in Anc[b] : Height[a] = h
           /\ \A a, c \in Anc[b] : Height[a] <= Height[c] => a \in Anc[c]
<1>1. b # None /\ Anc[b] \subseteq Block /\ Height[b] \in Nat
    BY TreeAssumption, Zenon
<1>2. /\ b \in Anc[b] /\ Genesis \in Anc[b]
      /\ \A a \in Anc[b] : Anc[a] \subseteq Anc[b] /\ Height[a] <= Height[b]
    BY TreeAssumption, Zenon
<1>3. \A h \in 0..Height[b] : \E a \in Anc[b] : Height[a] = h
    BY TreeAssumption, Zenon
<1>4. \A a, c \in Anc[b] : Height[a] <= Height[c] => a \in Anc[c]
    BY TreeAssumption, Zenon
<1>5. \A a \in Anc[b] : Height[a] \in Nat
    BY <1>1, TreeAssumption, Zenon
<1> QED
    BY <1>1, <1>2, <1>3, <1>4, <1>5 DEF AncOf

\* There is one ancestor at each height.
LEMMA SameHeight ==
    ASSUME NEW b \in Block, NEW a \in Anc[b], NEW c \in Anc[b], Height[a] = Height[c]
    PROVE  a = c
<1>1. a \in Block /\ c \in Block
    BY BranchFacts, Zenon
<1>2. a \in Anc[c] /\ Height[c] \in Nat
    BY <1>1, BranchFacts, Zenon
<1>3. CASE c = Genesis
    BY <1>2, <1>3, TreeAssumption
<1>4. CASE c # Genesis /\ a # c
    <2>1. /\ AncOf(c) = {c} \cup AncOf(ParentOf(c)) /\ ParentOf(c) = Prev[c]
          /\ Prev[c] \in Block /\ Height[c] = Height[Prev[c]] + 1
        BY <1>1, <1>4, ParentFacts
    <2>2. AncOf(c) = Anc[c] /\ AncOf(Prev[c]) = Anc[Prev[c]]
        BY <1>1, <2>1, BranchFacts, Zenon
    <2>3. a \in Anc[Prev[c]]
        BY <1>2, <1>4, <2>1, <2>2, Zenon
    <2>4. Height[a] <= Height[Prev[c]] /\ Height[Prev[c]] \in Nat
        BY <2>1, <2>3, BranchFacts, Zenon
    <2> QED
        BY <1>2, <2>1, <2>4
<1> QED
    BY <1>3, <1>4, Zenon

\* The block above an ancestor.
LEMMA ChildFacts ==
    ASSUME NEW b \in Block, NEW a \in Anc[b], a # b
    PROVE  /\ Height[a] < Height[b]
           /\ \A c \in Anc[b] : Height[c] = Height[a] + 1 => c # Genesis /\ Prev[c] = a
           /\ \E c \in Anc[b] : Height[c] = Height[a] + 1
<1>1. Height[a] \in Nat /\ Height[b] \in Nat /\ Height[a] <= Height[b] /\ b \in Anc[b]
    BY BranchFacts, Zenon
<1>2. Height[a] # Height[b]
    BY <1>1, SameHeight, Zenon
<1>3. Height[a] < Height[b] /\ Height[a] + 1 \in 0..Height[b]
    BY <1>1, <1>2
<1>4. \E c \in Anc[b] : Height[c] = Height[a] + 1
    BY <1>3, BranchFacts
<1>5. ASSUME NEW c \in Anc[b], Height[c] = Height[a] + 1
      PROVE  c # Genesis /\ Prev[c] = a
    <2>1. c \in Block /\ Anc[c] \subseteq Anc[b]
        BY BranchFacts, Zenon
    <2>2. c # Genesis
        <3>1. Height[Genesis] = 0
            BY TreeAssumption, Zenon
        <3> QED
            BY <1>1, <1>5, <3>1
    <2>3. Prev[c] \in Block /\ Height[c] = Height[Prev[c]] + 1 /\ AncOf(c) = {c} \cup AncOf(Prev[c])
        BY <2>1, <2>2, ParentFacts, Zenon
    <2>4. Height[Prev[c]] \in Nat /\ Prev[c] \in AncOf(Prev[c]) /\ AncOf(c) = Anc[c]
        BY <2>1, <2>3, BranchFacts
    <2>5. Prev[c] \in Anc[b]
        BY <2>1, <2>3, <2>4, Zenon
    <2>6. Height[Prev[c]] = Height[a]
        BY <1>1, <1>5, <2>3, <2>4
    <2> QED
        BY <2>2, <2>5, <2>6, SameHeight, Zenon
<1> QED
    BY <1>3, <1>4, <1>5, Zenon

\* Two branches have a last block in common, and share what is below it.
LEMMA ForkFacts ==
    ASSUME NEW a \in Block \cup {None}, NEW b \in Block \cup {None}
    PROVE  /\ ForkWith(a, b) \in Block \cup {None}
           /\ ForkWith(a, b) = None <=> a = None \/ b = None
           /\ AncOf(ForkWith(a, b)) = AncOf(a) \cap AncOf(b)
<1>1. CASE a = None \/ b = None
    BY <1>1, Zenon DEF ForkWith, AncOf
<1>2. CASE a # None /\ b # None
    <2> DEFINE C == Anc[a] \cap Anc[b]
    <2>1. a \in Block /\ b \in Block /\ AncOf(a) = Anc[a] /\ AncOf(b) = Anc[b] /\ Genesis \in C
        BY <1>2, TreeAssumption, Zenon DEF AncOf
    <2>2. PICK c \in Block : C = Anc[c]
        <3>1. \A x, y \in Block : \E z \in Block : Anc[x] \cap Anc[y] = Anc[z]
            BY TreeAssumption, Zenon
        <3> QED
            BY <2>1, <3>1, Zenon
    <2>3. c \in C /\ \A d \in C : Height[d] <= Height[c]
        BY <2>2, BranchFacts, Zenon
    <2>4. ForkWith(a, b) = CHOOSE x \in C : \A d \in C : Height[d] <= Height[x]
        BY <2>1, Zenon DEF ForkWith
    <2>5. ForkWith(a, b) \in C /\ \A d \in C : Height[d] <= Height[ForkWith(a, b)]
        BY <2>3, <2>4
    <2>6. ForkWith(a, b) = c
        <3>1. /\ ForkWith(a, b) \in Anc[c] /\ c \in Anc[c]
              /\ Height[c] <= Height[ForkWith(a, b)] /\ Height[ForkWith(a, b)] <= Height[c]
            BY <2>2, <2>3, <2>5, Zenon
        <3>2. Height[c] \in Nat /\ Height[ForkWith(a, b)] \in Nat
            BY <3>1, TreeAssumption, Zenon
        <3>3. Height[c] = Height[ForkWith(a, b)]
            BY <3>1, <3>2
        <3> QED
            BY <3>1, <3>3, SameHeight, Zenon
    <2>7. c # None
        BY <2>2, TreeAssumption, Zenon
    <2> QED
        BY <1>2, <2>1, <2>2, <2>6, <2>7, Zenon DEF AncOf
<1> QED
    BY <1>1, <1>2, Zenon

\* The next block of the chain continues a block of the branch of p; without
\* one p is at the tip or above it.
LEMMA NextFacts ==
    ASSUME tip \in Block, NEW p \in Block \cup {None}
    PROVE  /\ NextSyncBlock(p) \in Block \cup {None}
           /\ NextSyncBlock(p) = None => tip \in AncOf(p)
           /\ NextSyncBlock(p) # None =>
                  AncOf(ParentOf(NextSyncBlock(p))) \subseteq AncOf(p)
<1>0. tip # None
    BY TreeAssumption, Zenon
<1>1. CASE p = None
    <2>1. NextSyncBlock(p) = Genesis /\ Genesis # None /\ Genesis \in Block
        BY <1>0, <1>1, TreeAssumption DEF NextSyncBlock
    <2> QED
        BY <2>1, Zenon DEF ParentOf, AncOf
<1>2. CASE p # None
    <2> DEFINE f == ForkWith(p, tip)
    <2>1. f \in Block /\ AncOf(f) = AncOf(p) \cap AncOf(tip) /\ f # None
        BY <1>0, <1>2, ForkFacts, Zenon
    <2>2. f \in AncOf(p) /\ f \in AncOf(tip)
        BY <2>1, AncOfFacts, Zenon
    <2>3. NextSyncBlock(p) = NextInChain(f)
        BY <1>2, Zenon DEF NextSyncBlock
    <2> HIDE DEF f
    <2>4. CASE f = tip
        BY <2>2, <2>3, <2>4, Zenon DEF NextInChain
    <2>5. CASE f # tip
        <3>1. f \in Anc[tip] /\ AncOf(tip) = Anc[tip]
            BY <1>0, <2>2, Zenon DEF AncOf
        <3>2. \E d \in AncOf(tip) : d # Genesis /\ Prev[d] = f
            BY <2>5, <3>1, ChildFacts
        <3>3. /\ NextInChain(f) \in AncOf(tip) /\ NextInChain(f) # Genesis
               /\ Prev[NextInChain(f)] = f
            BY <2>2, <2>5, <3>2, Zenon DEF NextInChain
        <3>4. NextInChain(f) \in Block /\ NextInChain(f) # None
            BY <3>1, <3>3, TreeAssumption
        <3>5. ParentOf(NextInChain(f)) = f
            BY <3>3, Zenon DEF ParentOf
        <3> QED
            BY <2>1, <2>3, <3>4, <3>5
    <2> QED
        BY <2>4, <2>5, Zenon
<1> QED
    BY <1>1, <1>2, Zenon
\* The signals of a new tip: the block above the fork first, each on the last one.
LEMMA ConnectedFacts ==
    ASSUME tip \in Block \cup {None}, NEW t \in Block,
           IF tip = None THEN t = Genesis ELSE Height[t] = Height[tip] + 1
    PROVE  LET S == ConnectedUpTo(t)
           IN  /\ S \in Seq(Callback) /\ Len(S) >= 1
               /\ \A i \in 1..Len(S) : IsBlock(S[i]) /\ S[i].block \in Block /\ ~IsPromise(S[i])
               /\ S[Len(S)].block = t
               /\ ParentOf(S[1].block) = ForkWith(t, tip)
               /\ \A i \in 1..Len(S) : i > 1 => ParentOf(S[i].block) = S[i - 1].block
<1> DEFINE f == ForkWith(t, tip)
           start == IF f = None THEN -1 ELSE Height[f]
           m == Height[t] - start
           At(i) == CHOOSE b \in AncOf(t) : Height[b] = start + i
           S == ConnectedUpTo(t)
<1>1. S = [i \in 1..m |-> Connected(At(i))]
    BY Zenon DEF ConnectedUpTo
<1>2. /\ f \in Block \cup {None} /\ (f = None <=> tip = None)
      /\ AncOf(t) = Anc[t] /\ Anc[t] \subseteq Block /\ Height[t] \in Nat
    BY ForkFacts, BranchFacts, Zenon
<1>3. start \in Int /\ start >= -1 /\ start < Height[t]
    <2>1. CASE tip = None
        BY <1>2, <2>1
    <2>2. CASE tip # None
        <3>1. f \in Block /\ f # None /\ tip \in Block /\ f \in Anc[tip]
            <4>1. f \in Block /\ f # None /\ tip \in Block
                BY <1>2, <2>2, Zenon
            <4>2. f \in AncOf(f) /\ AncOf(f) = AncOf(t) \cap AncOf(tip) /\ AncOf(tip) = Anc[tip]
                BY <4>1, ForkFacts, AncOfFacts, BranchFacts, Zenon
            <4> QED
                BY <4>1, <4>2, Zenon
        <3>2. Height[f] \in Nat /\ Height[f] <= Height[tip] /\ Height[tip] \in Nat
            BY <3>1, BranchFacts, Zenon
        <3> QED
            BY <1>2, <2>2, <3>1, <3>2, SMTT(30)
    <2> QED
        BY <2>1, <2>2, Zenon
<1> HIDE DEF start, f
<1>4. m \in Nat /\ m >= 1
    BY <1>2, <1>3
<1>5. \A i \in 1..m : At(i) \in Anc[t] /\ Height[At(i)] = start + i
    <2> SUFFICES ASSUME NEW i \in 1..m PROVE At(i) \in Anc[t] /\ Height[At(i)] = start + i
        BY Zenon
    <2>1. start + i \in 0..Height[t]
        BY <1>2, <1>3
    <2>2. \E b \in Anc[t] : Height[b] = start + i
        BY <2>1, BranchFacts
    <2> QED
        BY <1>2, <2>2, Zenon
<1> HIDE DEF At, m
<1>6. At(m) = t
    <2>1. At(m) \in Anc[t] /\ Height[At(m)] = Height[t] /\ t \in Anc[t]
        BY <1>2, <1>3, <1>4, <1>5, BranchFacts DEF m
    <2> QED
        BY <2>1, SameHeight, Zenon
<1>7. ParentOf(At(1)) = f
    <2>0. At(1) \in Anc[t] /\ Height[At(1)] = start + 1 /\ At(1) \in Block
        BY <1>2, <1>4, <1>5
    <2>1. CASE f = None
        <3>1. Height[At(1)] = 0
            BY <2>0, <2>1 DEF start
        <3>2. Height[Genesis] = 0 /\ Genesis \in Anc[t]
            BY TreeAssumption, BranchFacts, Zenon
        <3>3. At(1) = Genesis
            BY <2>0, <3>1, <3>2, SameHeight, Zenon
        <3> QED
            BY <2>1, <3>3, Zenon DEF ParentOf
    <2>2. CASE f # None
        <3>1. f \in Anc[t]
            BY <1>2, <2>2, ForkFacts, AncOfFacts DEF f
        <3>2. f # t
            BY <1>3, <2>2 DEF start
        <3>3. Height[At(1)] = Height[f] + 1
            BY <2>0, <2>2, Zenon DEF start
        <3> QED
            BY <2>0, <3>1, <3>2, <3>3, ChildFacts, Zenon DEF ParentOf
    <2> QED
        BY <2>1, <2>2, Zenon
<1>8. \A i \in 1..m : i > 1 => ParentOf(At(i)) = At(i - 1)
    <2> SUFFICES ASSUME NEW i \in 1..m, i > 1 PROVE ParentOf(At(i)) = At(i - 1)
        BY Zenon
    <2>1. i - 1 \in 1..m
        BY <1>4
    <2>2. /\ At(i) \in Anc[t] /\ Height[At(i)] = start + i
          /\ At(i - 1) \in Anc[t] /\ Height[At(i - 1)] = start + (i - 1)
        BY <1>5, <2>1, Zenon
    <2>3. Height[At(i)] = Height[At(i - 1)] + 1 /\ Height[At(i - 1)] # Height[t]
        BY <1>2, <1>3, <1>4, <2>2 DEF m
    <2> QED
        BY <2>2, <2>3, ChildFacts DEF ParentOf
<1>9. /\ Len(S) = m /\ \A i \in 1..m : S[i] = Connected(At(i)) /\ At(i) \in Block
    BY <1>1, <1>2, <1>4, <1>5
<1>10. \A b \in Block : Connected(b) \in Callback /\ Connected(b) # Promise(Caller)
    BY CallbackAssumption, Zenon DEF Connected, Promise
<1>11. S \in Seq(Callback)
    BY <1>1, <1>4, <1>9, <1>10
<1> HIDE DEF S
<1>12. \A i \in 1..m : IsBlock(S[i]) /\ S[i].block = At(i) /\ ~IsPromise(S[i])
    BY <1>9, <1>10 DEF IsBlock, IsPromise, Connected
<1>13. 1 \in 1..m /\ m \in 1..m /\ \A i \in 1..m : i > 1 => i - 1 \in 1..m
    BY <1>4
<1> QED
    BY <1>4, <1>6, <1>7, <1>8, <1>9, <1>11, <1>12, <1>13, SMTT(30) DEF S, f

-----------------------------------------------------------------------------
(* Lists of callbacks                                                       *)

\* The next block after callback i.
LEMMA NextBlock ==
    ASSUME NEW P \in Seq(Callback), NEW i \in 0..Len(P), NEW l \in DOMAIN P, i < l, IsBlock(P[l])
    PROVE  \E j \in DOMAIN P : i < j /\ j <= l /\ IsBlock(P[j]) /\ NoBlock(P, i, j)
<1> DEFINE S == {j \in DOMAIN P : i < j /\ IsBlock(P[j])}
<1>1. S \in SUBSET Nat /\ l \in S
    OBVIOUS
<1>2. PICK j \in S : \A k \in S : j <= k
    BY <1>1, SmallestInSet, Zenon
<1>3. j \in DOMAIN P /\ i < j /\ j <= l /\ IsBlock(P[j])
    BY <1>1, <1>2, Zenon
<1>4. NoBlock(P, i, j)
    BY <1>2, <1>3 DEF NoBlock
<1> QED
    BY <1>3, <1>4, Zenon

\* The last block.
LEMMA LastBlock ==
    ASSUME NEW P \in Seq(Callback), NEW l \in DOMAIN P, IsBlock(P[l])
    PROVE  \E j \in DOMAIN P : l <= j /\ IsBlock(P[j]) /\ NoBlock(P, j, Len(P) + 1)
<1> DEFINE S == {j \in DOMAIN P : IsBlock(P[j])}
<1>1. S \in SUBSET (1..Len(P)) /\ l \in S /\ Len(P) \in Nat
    OBVIOUS
<1>2. PICK j \in S : \A k \in S : k <= j
    BY <1>1, LargestOf, Zenon
<1>3. j \in DOMAIN P /\ l <= j /\ IsBlock(P[j])
    BY <1>1, <1>2, Zenon
<1>4. NoBlock(P, j, Len(P) + 1)
    BY <1>2, <1>3 DEF NoBlock
<1> QED
    BY <1>3, <1>4, Zenon
\* The first callback is done.
Popped(P, Q) ==
    /\ Len(P) >= 1 /\ Len(Q) = Len(P) - 1
    /\ \A i \in 1..Len(Q) : Q[i] = P[i + 1]

\* A callback is put behind the first n.
Put(P, Q, n, c) ==
    /\ n \in 0..Len(P) /\ Len(Q) = Len(P) + 1
    /\ \A i \in 1..n : Q[i] = P[i]
    /\ Q[n + 1] = c
    /\ \A i \in (n + 1)..Len(P) : Q[i + 1] = P[i]

\* What is left of an ordered list is ordered.
LEMMA PoppedOrder ==
    ASSUME NEW P \in Seq(Callback), NEW Q \in Seq(Callback), Popped(P, Q), NEW t, Ordered(P, t)
    PROVE  Ordered(Q, t)
<1>1. \A i \in DOMAIN Q : i + 1 \in DOMAIN P /\ Q[i] = P[i + 1]
    BY DEF Popped
<1>2. \A i \in DOMAIN Q, j \in Int : NoBlock(Q, i, j) => NoBlock(P, i + 1, j + 1)
    <2> SUFFICES ASSUME NEW i \in DOMAIN Q, NEW j \in Int, NoBlock(Q, i, j),
                        NEW k \in DOMAIN P, i + 1 < k, k < j + 1
                 PROVE  ~IsBlock(P[k])
        BY Zenon DEF NoBlock
    <2>1. k - 1 \in DOMAIN Q /\ i < k - 1 /\ k - 1 < j
        BY DEF Popped
    <2>2. Q[k - 1] = P[k]
        BY <1>1, <2>1
    <2> QED
        BY <2>1, <2>2 DEF NoBlock
<1>3. ASSUME NEW i \in DOMAIN Q, NEW j \in DOMAIN Q, i < j, IsBlock(Q[i]), IsBlock(Q[j]), NoBlock(Q, i, j)
      PROVE  ParentOf(Q[j].block) \in AncOf(Q[i].block)
    <2>1. i + 1 < j + 1 /\ NoBlock(P, i + 1, j + 1) /\ i + 1 \in DOMAIN P /\ j + 1 \in DOMAIN P
        BY <1>1, <1>2, <1>3
    <2>2. Q[i] = P[i + 1] /\ Q[j] = P[j + 1]
        BY <1>1, Zenon
    <2> QED
        BY <1>3, <2>1, <2>2 DEF Ordered
<1>4. ASSUME NEW i \in DOMAIN Q, IsBlock(Q[i]), NoBlock(Q, i, Len(Q) + 1)
      PROVE  t \in AncOf(Q[i].block)
    <2>1. Len(Q) + 1 \in Int /\ (Len(Q) + 1) + 1 = Len(P) + 1
        BY DEF Popped
    <2>2. NoBlock(P, i + 1, Len(P) + 1) /\ i + 1 \in DOMAIN P /\ Q[i] = P[i + 1]
        BY <1>1, <1>2, <1>4, <2>1, Zenon
    <2> QED
        BY <1>4, <2>2, Zenon DEF Ordered
<1> QED
    BY <1>3, <1>4 DEF Ordered

\* A callback that is not a block, or does not fit, makes no difference.
LEMMA PoppedOther ==
    ASSUME NEW P \in Seq(Callback), NEW Q \in Seq(Callback), Popped(P, Q), NEW b, NEW t, NEW n \in Nat,
           ~(IsBlock(P[1]) /\ Fits(b, P[1]))
    PROVE  /\ Follows(P, t, b) => Follows(Q, t, b)
           /\ Waited(P, n, t, b) => Waited(Q, n - 1, t, b)
<1>1. \A i \in DOMAIN P : i > 1 => i - 1 \in DOMAIN Q /\ Q[i - 1] = P[i]
    BY DEF Popped
<1>2. \A i \in DOMAIN Q : i + 1 \in DOMAIN P /\ Q[i] = P[i + 1]
    BY DEF Popped
<1>3. ASSUME Follows(P, t, b) PROVE Follows(Q, t, b)
    <2>1. CASE t \in AncOf(b)
        BY <2>1, Zenon DEF Follows
    <2>2. CASE \E i \in DOMAIN P : IsBlock(P[i]) /\ Fits(b, P[i])
        <3>1. PICK i \in DOMAIN P : IsBlock(P[i]) /\ Fits(b, P[i])
            BY <2>2
        <3>2. i > 1
            BY <3>1
        <3> QED
            BY <1>1, <3>1, <3>2, Zenon DEF Follows
    <2> QED
        BY <1>3, <2>1, <2>2, Zenon DEF Follows
<1>4. ASSUME Waited(P, n, t, b) PROVE Waited(Q, n - 1, t, b)
    <2>1. PICK i \in DOMAIN P :
              /\ i <= n /\ IsBlock(P[i]) /\ t \in AncOf(P[i].block)
              /\ \E j \in DOMAIN P : j <= i /\ IsBlock(P[j]) /\ Fits(b, P[j])
              /\ \A k \in DOMAIN P : IsPromise(P[k]) => i < k
        BY <1>4 DEF Waited
    <2>2. PICK j \in DOMAIN P : j <= i /\ IsBlock(P[j]) /\ Fits(b, P[j])
        BY <2>1
    <2>3. j > 1 /\ i > 1
        BY <2>2
    <2>4. /\ i - 1 \in DOMAIN Q /\ Q[i - 1] = P[i] /\ i - 1 <= n - 1
          /\ j - 1 \in DOMAIN Q /\ Q[j - 1] = P[j] /\ j - 1 <= i - 1
        BY <1>1, <2>1, <2>2, <2>3
    <2>5. \A k \in DOMAIN Q : IsPromise(Q[k]) => i - 1 < k
        <3> SUFFICES ASSUME NEW k \in DOMAIN Q, IsPromise(Q[k]) PROVE i - 1 < k
            BY Zenon
        <3>1. k + 1 \in DOMAIN P /\ IsPromise(P[k + 1])
            BY <1>2, Zenon
        <3>2. i < k + 1
            BY <2>1, <3>1, Zenon
        <3> QED
            BY <3>2
    <2> QED
        BY <2>1, <2>2, <2>4, <2>5, Zenon DEF Waited
<1> QED
    BY <1>3, <1>4, Zenon

\* No block comes from nowhere.
LEMMA PoppedBlocks ==
    ASSUME NEW P \in Seq(Callback), NEW Q \in Seq(Callback), Popped(P, Q), NoBlocks(P)
    PROVE  NoBlocks(Q)
<1>1. \A i \in DOMAIN Q : i + 1 \in DOMAIN P /\ Q[i] = P[i + 1]
    BY DEF Popped
<1> QED
    BY <1>1, Zenon DEF NoBlocks

\* A block is done, and is where the index is now: the next one fits.
LEMMA PoppedBlock ==
    ASSUME NEW P \in Seq(Callback), NEW Q \in Seq(Callback), Popped(P, Q), NEW t, NEW g, NEW b, NEW n \in Nat,
           Ordered(P, t), IsBlock(P[1]), P[1].block \in Block
    PROVE  /\ Follows(Q, t, P[1].block)
           /\ Waited(P, n, g, b) => g \in AncOf(P[1].block) \/ Waited(Q, n - 1, g, P[1].block)
<1>1. \A i \in DOMAIN P : i > 1 => i - 1 \in DOMAIN Q /\ Q[i - 1] = P[i]
    BY DEF Popped
<1>2. \A i \in DOMAIN Q : i + 1 \in DOMAIN P /\ Q[i] = P[i + 1]
    BY DEF Popped
<1>0. None \notin Block
    BY TreeAssumption, Zenon
<1>3. 1 \in DOMAIN P /\ 1 \in 0..Len(P) /\ P[1].block # None
    BY <1>0 DEF Popped
<1>4. ASSUME NEW l \in DOMAIN P, l > 1, IsBlock(P[l])
      PROVE  \E j \in DOMAIN P : /\ j > 1 /\ j <= l /\ IsBlock(P[j])
                                 /\ Fits(P[1].block, P[j])
    <2>1. PICK j \in DOMAIN P : 1 < j /\ j <= l /\ IsBlock(P[j]) /\ NoBlock(P, 1, j)
        BY <1>3, <1>4, NextBlock
    <2>2. ParentOf(P[j].block) \in AncOf(P[1].block)
        BY <1>3, <2>1, Zenon DEF Ordered
    <2> QED
        BY <1>3, <2>1, <2>2, Zenon DEF Fits
<1>5. Follows(Q, t, P[1].block)
    <2>1. CASE \E l \in DOMAIN P : l > 1 /\ IsBlock(P[l])
        <3>1. PICK j \in DOMAIN P : j > 1 /\ IsBlock(P[j]) /\ Fits(P[1].block, P[j])
            BY <1>4, <2>1, Zenon
        <3> QED
            BY <1>1, <3>1, Zenon DEF Follows
    <2>2. CASE ~ \E l \in DOMAIN P : l > 1 /\ IsBlock(P[l])
        <3>1. NoBlock(P, 1, Len(P) + 1)
            BY <2>2, Zenon DEF NoBlock
        <3> QED
            BY <1>3, <3>1, Zenon DEF Ordered, Follows
    <2> QED
        BY <2>1, <2>2, Zenon
<1>6. ASSUME Waited(P, n, g, b), g \notin AncOf(P[1].block)
      PROVE  Waited(Q, n - 1, g, P[1].block)
    <2>1. PICK i \in DOMAIN P :
              /\ i <= n /\ IsBlock(P[i]) /\ g \in AncOf(P[i].block)
              /\ \A k \in DOMAIN P : IsPromise(P[k]) => i < k
        BY <1>6 DEF Waited
    <2>2. i > 1
        BY <1>6, <2>1
    <2>3. PICK j \in DOMAIN P : j > 1 /\ j <= i /\ IsBlock(P[j]) /\ Fits(P[1].block, P[j])
        BY <1>4, <2>1, <2>2
    <2>4. /\ i - 1 \in DOMAIN Q /\ Q[i - 1] = P[i] /\ i - 1 <= n - 1
          /\ j - 1 \in DOMAIN Q /\ Q[j - 1] = P[j] /\ j - 1 <= i - 1
        BY <1>1, <2>1, <2>2, <2>3
    <2>5. \A k \in DOMAIN Q : IsPromise(Q[k]) => i - 1 < k
        <3> SUFFICES ASSUME NEW k \in DOMAIN Q, IsPromise(Q[k]) PROVE i - 1 < k
            BY Zenon
        <3>1. k + 1 \in DOMAIN P /\ IsPromise(P[k + 1])
            BY <1>2
        <3>2. i < k + 1
            BY <2>1, <3>1
        <3> QED
            BY <3>2
    <2> QED
        BY <2>1, <2>3, <2>4, <2>5, Zenon DEF Waited
<1> QED
    BY <1>5, <1>6, Zenon

\* One promise at most is left, and none behind the one to the caller.
LEMMA PoppedPromise ==
    ASSUME NEW P \in Seq(Callback), NEW Q \in Seq(Callback), Popped(P, Q), OnePromise(P)
    PROVE  /\ OnePromise(Q)
           /\ NoPromise(P) \/ IsPromise(P[1]) => NoPromise(Q)
<1>1. \A i \in DOMAIN Q : i + 1 \in DOMAIN P /\ Q[i] = P[i + 1] /\ i + 1 # 1 /\ i \in Nat
    <2> SUFFICES ASSUME NEW i \in DOMAIN Q
                 PROVE  i + 1 \in DOMAIN P /\ Q[i] = P[i + 1] /\ i + 1 # 1 /\ i \in Nat
        BY Zenon
    <2>1. i \in 1..Len(Q)
        OBVIOUS
    <2>2. i + 1 \in 1..Len(P) /\ i + 1 # 1 /\ i \in Nat
        BY <2>1 DEF Popped
    <2>3. i + 1 \in DOMAIN P
        BY <2>2
    <2> QED
        BY <2>1, <2>2, <2>3, Zenon DEF Popped
<1>2. 1 \in DOMAIN P
    BY DEF Popped
<1>3. OnePromise(Q)
    <2> SUFFICES ASSUME NEW i \in DOMAIN Q, NEW j \in DOMAIN Q, IsPromise(Q[i]), IsPromise(Q[j])
                 PROVE  i = j
        BY DEF OnePromise
    <2>1. i + 1 = j + 1
        BY <1>1, Zenon DEF OnePromise
    <2> QED
        BY <1>1, <2>1
<1> QED
    BY <1>1, <1>2, <1>3, Zenon DEF OnePromise, NoPromise
\* Where the callbacks are once one is put between them.
LEMMA PutPlaces ==
    ASSUME NEW P \in Seq(Callback), NEW Q \in Seq(Callback), NEW n \in Nat, NEW c, Put(P, Q, n, c)
    PROVE  /\ \A i \in DOMAIN P : IF i <= n THEN i \in DOMAIN Q /\ Q[i] = P[i]
                                  ELSE i + 1 \in DOMAIN Q /\ Q[i + 1] = P[i]
           /\ \A i \in DOMAIN Q : \/ i <= n /\ i \in DOMAIN P /\ Q[i] = P[i]
                                  \/ i = n + 1 /\ Q[i] = c
                                  \/ i > n + 1 /\ i - 1 \in DOMAIN P /\ Q[i] = P[i - 1]
<1>1. Len(P) \in Nat /\ Len(Q) = Len(P) + 1 /\ n <= Len(P) /\ DOMAIN P = 1..Len(P) /\ DOMAIN Q = 1..Len(Q)
    BY DEF Put
<1>2. ASSUME NEW i \in DOMAIN P
      PROVE  IF i <= n THEN i \in DOMAIN Q /\ Q[i] = P[i]
             ELSE i + 1 \in DOMAIN Q /\ Q[i + 1] = P[i]
    BY <1>1 DEF Put
<1>3. ASSUME NEW i \in DOMAIN Q
      PROVE  \/ i <= n /\ i \in DOMAIN P /\ Q[i] = P[i]
             \/ i = n + 1 /\ Q[i] = c
             \/ i > n + 1 /\ i - 1 \in DOMAIN P /\ Q[i] = P[i - 1]
    <2>1. CASE i <= n
        BY <1>1, <2>1 DEF Put
    <2>2. CASE i = n + 1
        BY <2>2, Zenon DEF Put
    <2>3. CASE i > n + 1
        <3>1. i - 1 \in (n + 1)..Len(P) /\ i - 1 \in DOMAIN P /\ (i - 1) + 1 = i
            BY <1>1, <2>3
        <3> QED
            BY <2>3, <3>1, Zenon DEF Put
    <2> QED
        BY <1>1, <2>1, <2>2, <2>3
<1> QED
    BY <1>2, <1>3

\* A callback that is not a block changes no order.
LEMMA PutOrder ==
    ASSUME NEW P \in Seq(Callback), NEW Q \in Seq(Callback), NEW n \in Nat, NEW c, Put(P, Q, n, c),
           ~IsBlock(c), NEW t, Ordered(P, t)
    PROVE  Ordered(Q, t)
<1> DEFINE To(i) == IF i <= n THEN i ELSE i + 1
           From(i) == IF i <= n THEN i ELSE i - 1
<1>1. \A i \in DOMAIN P : To(i) \in DOMAIN Q /\ Q[To(i)] = P[i]
    BY PutPlaces
<1>2. \A i \in DOMAIN Q : IsBlock(Q[i]) => /\ From(i) \in DOMAIN P /\ Q[i] = P[From(i)]
                                          /\ To(From(i)) = i
    BY PutPlaces
<1>3. /\ DOMAIN Q \subseteq Nat /\ DOMAIN P \subseteq Nat /\ Len(Q) = Len(P) + 1
      /\ DOMAIN P = 1..Len(P) /\ n \in 0..Len(P) /\ Len(P) \in Nat
    BY DEF Put
<1>4. ASSUME NEW i \in DOMAIN Q, NEW j \in DOMAIN Q, i < j, IsBlock(Q[i]), IsBlock(Q[j]), NoBlock(Q, i, j)
      PROVE  ParentOf(Q[j].block) \in AncOf(Q[i].block)
    <2>1. /\ From(i) \in DOMAIN P /\ From(j) \in DOMAIN P /\ Q[i] = P[From(i)] /\ Q[j] = P[From(j)]
          /\ To(From(i)) = i /\ To(From(j)) = j
        BY <1>2, <1>4, Zenon
    <2>2. From(i) < From(j)
        BY <1>3, <1>4, <2>1
    <2>3. NoBlock(P, From(i), From(j))
        <3> SUFFICES ASSUME NEW k \in DOMAIN P, From(i) < k, k < From(j) PROVE ~IsBlock(P[k])
            BY Zenon DEF NoBlock
        <3>1. i < To(k) /\ To(k) < j
            BY <1>3, <2>1, SMTT(30)
        <3> QED
            BY <1>1, <1>4, <3>1, Zenon DEF NoBlock
    <2> QED
        BY <1>4, <2>1, <2>2, <2>3 DEF Ordered
<1>5. ASSUME NEW i \in DOMAIN Q, IsBlock(Q[i]), NoBlock(Q, i, Len(Q) + 1)
      PROVE  t \in AncOf(Q[i].block)
    <2>1. From(i) \in DOMAIN P /\ Q[i] = P[From(i)] /\ To(From(i)) = i
        BY <1>2, <1>5, Zenon
    <2>2. NoBlock(P, From(i), Len(P) + 1)
        <3> SUFFICES ASSUME NEW k \in DOMAIN P, From(i) < k, k < Len(P) + 1 PROVE ~IsBlock(P[k])
            BY Zenon DEF NoBlock
        <3>1. i < To(k) /\ To(k) < Len(Q) + 1
            BY <1>3, <2>1
        <3> QED
            BY <1>1, <1>5, <3>1, Zenon DEF NoBlock
    <2> QED
        BY <1>5, <2>1, <2>2 DEF Ordered
<1> QED
    BY <1>4, <1>5, Zenon DEF Ordered

\* Nor does it change what the index will get to, unless it is a promise that
\* comes too early.
LEMMA PutRest ==
    ASSUME NEW P \in Seq(Callback), NEW Q \in Seq(Callback), NEW n \in Nat, NEW c, Put(P, Q, n, c),
           NEW t, NEW b, NEW m \in Nat, m <= n
    PROVE  /\ Follows(P, t, b) => Follows(Q, t, b)
           /\ Waited(P, m, t, b) => Waited(Q, m, t, b)
           /\ ~IsPromise(c) /\ NoPromise(P) => NoPromise(Q)
           /\ ~IsPromise(c) /\ OnePromise(P) => OnePromise(Q)
           /\ NoPromise(P) => OnePromise(Q)
           /\ ~IsBlock(c) /\ NoBlocks(P) => NoBlocks(Q)
<1> DEFINE To(i) == IF i <= n THEN i ELSE i + 1
           From(i) == IF i <= n THEN i ELSE i - 1
<1>1. \A i \in DOMAIN P : To(i) \in DOMAIN Q /\ Q[To(i)] = P[i]
    BY PutPlaces, ZenonT(30)
<1>2. \A i \in DOMAIN Q : \/ i = n + 1 /\ Q[i] = c
                          \/ From(i) \in DOMAIN P /\ Q[i] = P[From(i)] /\ To(From(i)) = i
    BY PutPlaces
<1>3. DOMAIN Q \subseteq Nat /\ DOMAIN P \subseteq Nat
    OBVIOUS
<1>4. Follows(P, t, b) => Follows(Q, t, b)
    BY <1>1, Zenon DEF Follows
<1>5. ASSUME Waited(P, m, t, b) PROVE Waited(Q, m, t, b)
    <2>1. PICK i \in DOMAIN P :
              /\ i <= m /\ IsBlock(P[i]) /\ t \in AncOf(P[i].block)
              /\ \E j \in DOMAIN P : j <= i /\ IsBlock(P[j]) /\ Fits(b, P[j])
              /\ \A k \in DOMAIN P : IsPromise(P[k]) => i < k
        BY <1>5, Zenon DEF Waited
    <2>2. PICK j \in DOMAIN P : j <= i /\ IsBlock(P[j]) /\ Fits(b, P[j])
        BY <2>1
    <2>3. i <= n /\ j <= n
        BY <1>3, <2>1, <2>2
    <2>4. i \in DOMAIN Q /\ Q[i] = P[i] /\ j \in DOMAIN Q /\ Q[j] = P[j]
        BY <1>1, <2>3
    <2>5. ASSUME NEW k \in DOMAIN Q, IsPromise(Q[k]) PROVE i < k
        <3>1. CASE k = n + 1
            BY <1>3, <2>3, <3>1
        <3>2. CASE From(k) \in DOMAIN P /\ Q[k] = P[From(k)]
            <4>1. i < From(k)
                BY <2>1, <2>5, <3>2, Zenon
            <4> QED
                BY <1>3, <4>1
        <3> QED
            BY <1>2, <3>1, <3>2, Zenon
    <2> QED
        BY <2>1, <2>2, <2>4, <2>5, Zenon DEF Waited
<1>6. ~IsPromise(c) /\ NoPromise(P) => NoPromise(Q)
    BY <1>2, Zenon DEF NoPromise
<1>7. ASSUME ~IsPromise(c), OnePromise(P) PROVE OnePromise(Q)
    <2> SUFFICES ASSUME NEW i \in DOMAIN Q, NEW j \in DOMAIN Q, IsPromise(Q[i]), IsPromise(Q[j])
                 PROVE  i = j
        BY Zenon DEF OnePromise
    <2>1. From(i) = From(j) /\ To(From(i)) = i /\ To(From(j)) = j
        BY <1>2, <1>7, Zenon DEF OnePromise
    <2> QED
        BY <2>1, Zenon
<1>8. NoPromise(P) => OnePromise(Q)
    BY <1>2, Zenon DEF NoPromise, OnePromise
<1>9. ~IsBlock(c) /\ NoBlocks(P) => NoBlocks(Q)
    BY <1>2 DEF NoBlocks
<1> QED
    BY <1>4, <1>5, <1>6, <1>7, <1>8, <1>9, Zenon
\* The blocks that are connected are blocks.
LEMMA BlockOf ==
    ASSUME NEW P \in Seq(Callback), NEW i \in DOMAIN P, IsBlock(P[i])
    PROVE  P[i].block \in Block /\ P[i].block # None
<1>1. P[i] \in Callback
    OBVIOUS
<1>2. P[i] \in [type : {"connected", "flushed"}, block : Block] \/ P[i] \in [type : {"promise"}, to : {Validation, Caller}]
    BY <1>1, CallbackAssumption, Zenon
<1> QED
    BY <1>2, TreeAssumption, Zenon DEF IsBlock

\* The tip goes one block down.
LEMMA Lowered ==
    ASSUME NEW P \in Seq(Callback), NEW t \in Block, t # Genesis, NEW b \in Block \cup {None}
    PROVE  /\ Prev[t] \in Block
           /\ Ordered(P, t) => Ordered(P, Prev[t])
           /\ Follows(P, t, b) => Follows(P, Prev[t], b)
<1>1. Prev[t] \in Block /\ Prev[t] \in AncOf(t)
    BY ParentFacts, AncOfFacts
<1>2. \A x \in Block \cup {None} : t \in AncOf(x) => Prev[t] \in AncOf(x)
    BY <1>1, AncOfFacts, Zenon
<1>3. \A i \in DOMAIN P : IsBlock(P[i]) => P[i].block \in Block
    BY BlockOf, Zenon
<1>4. Ordered(P, t) => Ordered(P, Prev[t])
    BY <1>2, <1>3, Zenon DEF Ordered
<1>5. Follows(P, t, b) => Follows(P, Prev[t], b)
    BY <1>2, Zenon DEF Follows
<1> QED
    BY <1>1, <1>4, <1>5

\* The blocks up to a new tip t come behind the other callbacks.
Longer(P, Q, S) ==
    /\ Len(Q) = Len(P) + Len(S)
    /\ \A i \in 1..Len(P) : Q[i] = P[i]
    /\ \A i \in 1..Len(S) : Q[Len(P) + i] = S[i]

\* Their order is right.
LEMMA LongerOrder ==
    ASSUME tip \in Block \cup {None}, NEW t \in Block,
           IF tip = None THEN t = Genesis ELSE Height[t] = Height[tip] + 1,
           NEW P \in Seq(Callback), NEW Q \in Seq(Callback), Longer(P, Q, ConnectedUpTo(t)),
           Ordered(P, tip), tip = None => NoBlocks(P)
    PROVE  Ordered(Q, t)
<1> DEFINE S == ConnectedUpTo(t)
           n == Len(P)
<1>0. None \notin Block
    BY TreeAssumption, Zenon
<1>1. /\ S \in Seq(Callback) /\ Len(S) >= 1
      /\ \A i \in 1..Len(S) : IsBlock(S[i]) /\ S[i].block \in Block
      /\ S[Len(S)].block = t
      /\ ParentOf(S[1].block) = ForkWith(t, tip)
      /\ \A i \in 1..Len(S) : i > 1 => ParentOf(S[i].block) = S[i - 1].block
    BY ConnectedFacts, Zenon
<1>2. /\ n \in Nat /\ Len(S) \in Nat /\ Len(Q) = n + Len(S)
      /\ DOMAIN P = 1..n /\ DOMAIN Q = 1..(n + Len(S))
    BY <1>1 DEF Longer
<1> HIDE DEF S
<1>3. /\ \A i \in 1..n : Q[i] = P[i]
      /\ \A i \in DOMAIN Q : i > n => i - n \in 1..Len(S) /\ Q[i] = S[i - n] /\ IsBlock(Q[i])
    <2>1. \A i \in 1..Len(S) : Q[n + i] = S[i]
        BY Zenon DEF Longer, S
    <2>2. ASSUME NEW i \in DOMAIN Q, i > n PROVE i - n \in 1..Len(S) /\ Q[i] = S[i - n] /\ IsBlock(Q[i])
        <3>1. i - n \in 1..Len(S) /\ n + (i - n) = i
            BY <1>2, <2>2
        <3> QED
            BY <1>1, <2>1, <3>1, Zenon
    <2> QED
        BY <2>2, Zenon DEF Longer, S
<1>4. n + 1 \in DOMAIN Q /\ IsBlock(Q[n + 1]) /\ Q[n + 1] = S[1]
    <2>1. n + 1 \in DOMAIN Q /\ n + 1 > n /\ (n + 1) - n = 1
        BY <1>1, <1>2
    <2> QED
        BY <1>3, <2>1, Zenon
<1>5. ASSUME NEW i \in DOMAIN Q, NEW j \in DOMAIN Q, i < j, IsBlock(Q[i]), IsBlock(Q[j]), NoBlock(Q, i, j)
      PROVE  ParentOf(Q[j].block) \in AncOf(Q[i].block)
    <2>1. CASE j <= n
        <3>1. i \in DOMAIN P /\ j \in DOMAIN P /\ Q[i] = P[i] /\ Q[j] = P[j]
            BY <1>2, <1>3, <1>5, <2>1
        <3>2. NoBlock(P, i, j)
            <4> SUFFICES ASSUME NEW k \in DOMAIN P, i < k, k < j PROVE ~IsBlock(P[k])
                BY Zenon DEF NoBlock
            <4>1. k \in DOMAIN Q /\ Q[k] = P[k]
                BY <1>2, <1>3
            <4> QED
                BY <1>5, <4>1, Zenon DEF NoBlock
        <3> QED
            BY <1>5, <3>1, <3>2, Zenon DEF Ordered
    <2>2. CASE i <= n /\ j > n
        <3>1. j = n + 1
            <4>1. ~(i < n + 1 /\ n + 1 < j)
                BY <1>4, <1>5 DEF NoBlock
            <4> QED
                BY <1>2, <2>2, <4>1, SMTT(30)
        <3>2. i \in DOMAIN P /\ Q[i] = P[i]
            BY <1>2, <1>3, <2>2
        <3>3. NoBlock(P, i, n + 1)
            <4> SUFFICES ASSUME NEW k \in DOMAIN P, i < k, k < n + 1 PROVE ~IsBlock(P[k])
                BY Zenon DEF NoBlock
            <4>1. k \in DOMAIN Q /\ Q[k] = P[k]
                BY <1>2, <1>3
            <4> QED
                BY <1>5, <3>1, <4>1, Zenon DEF NoBlock
        <3>4. tip \in AncOf(P[i].block) /\ tip # None /\ P[i].block \in Block
            BY <1>5, <3>2, <3>3, BlockOf, Zenon DEF Ordered, NoBlocks
        <3>5. ForkWith(t, tip) \in AncOf(tip)
            <4>1. ForkWith(t, tip) \in Block \cup {None} /\ ForkWith(t, tip) # None
                BY <1>0, <3>4, ForkFacts
            <4>2. AncOf(ForkWith(t, tip)) = AncOf(t) \cap AncOf(tip)
                BY ForkFacts, Zenon
            <4> QED
                BY <4>1, <4>2, AncOfFacts, Zenon
        <3>6. ForkWith(t, tip) \in AncOf(P[i].block)
            BY <3>4, <3>5, AncOfFacts, Zenon
        <3> QED
            BY <1>1, <1>4, <3>1, <3>2, <3>6, Zenon
    <2>3. CASE i > n
        <3>1. j = i + 1
            <4>1. i + 1 \in DOMAIN Q /\ i + 1 > n
                BY <1>2, <1>5, <2>3, SMTT(30)
            <4>2. ~(i < i + 1 /\ i + 1 < j)
                BY <1>3, <1>5, <4>1, Zenon DEF NoBlock
            <4> QED
                BY <1>2, <1>5, <4>2
        <3>2. /\ j - n \in 1..Len(S) /\ Q[j] = S[j - n] /\ Q[i] = S[i - n] /\ j - n > 1
              /\ (j - n) - 1 = i - n /\ i - n \in 1..Len(S)
            <4>1. i \in Nat /\ j \in Nat /\ n \in Nat /\ i \in DOMAIN Q /\ j \in DOMAIN Q /\ j > n
                BY <1>2, <1>3, <2>3, <3>1
            <4>2. i - n \in 1..Len(S) /\ Q[i] = S[i - n]
                BY <1>3, <2>3, <4>1, Zenon
            <4>3. j - n \in 1..Len(S) /\ Q[j] = S[j - n]
                BY <1>3, <4>1, Zenon
            <4>4. j - n > 1 /\ (j - n) - 1 = i - n
                BY <2>3, <3>1, <4>1
            <4> QED
                BY <4>2, <4>3, <4>4, Zenon
        <3>3. ParentOf(Q[j].block) = Q[i].block
            BY <1>1, <3>2, Zenon
        <3>4. Q[i].block \in Block
            BY <1>1, <3>2, Zenon
        <3> QED
            BY <1>0, <3>3, <3>4, AncOfFacts, Zenon
    <2> QED
        BY <1>2, <2>1, <2>2, <2>3, SMTT(30)
<1>6. ASSUME NEW i \in DOMAIN Q, NoBlock(Q, i, Len(Q) + 1)
      PROVE  t \in AncOf(Q[i].block)
    <2>1. Len(Q) \in DOMAIN Q /\ Len(Q) > n /\ Len(Q) - n = Len(S)
        BY <1>1, <1>2, SMTT(30)
    <2>2. Q[Len(Q)] = S[Len(S)] /\ IsBlock(Q[Len(Q)])
        BY <1>3, <2>1, Zenon
    <2>3. ~(i < Len(Q) /\ Len(Q) < Len(Q) + 1)
        BY <1>6, <2>1, <2>2, Zenon DEF NoBlock
    <2>4. i = Len(Q)
        BY <1>2, <2>3
    <2> QED
        BY <1>0, <1>1, <2>2, <2>4, AncOfFacts, SMTT(30)
<1> QED
    BY <1>5, <1>6, Zenon DEF Ordered

\* The index will get to the new tip, and to what it would get to before.
LEMMA LongerRest ==
    ASSUME tip \in Block \cup {None}, NEW t \in Block,
           IF tip = None THEN t = Genesis ELSE Height[t] = Height[tip] + 1,
           NEW P \in Seq(Callback), NEW Q \in Seq(Callback), Longer(P, Q, ConnectedUpTo(t)),
           NEW b \in Block \cup {None}, NEW g, NEW m \in Nat, m <= Len(P)
    PROVE  /\ tip = None /\ b = None => Follows(Q, t, b)
           /\ tip # None /\ Follows(P, tip, b) => Follows(Q, t, b)
           /\ Waited(P, m, g, b) => Waited(Q, m, g, b)
           /\ NoPromise(P) => NoPromise(Q)
           /\ OnePromise(P) => OnePromise(Q)
<1> DEFINE S == ConnectedUpTo(t)
           n == Len(P)
<1>0. None \notin Block
    BY TreeAssumption, Zenon
<1>1. /\ S \in Seq(Callback) /\ Len(S) >= 1
      /\ \A i \in 1..Len(S) : IsBlock(S[i]) /\ S[i].block \in Block /\ ~IsPromise(S[i])
      /\ ParentOf(S[1].block) = ForkWith(t, tip)
    BY ConnectedFacts, Zenon
<1>2. /\ n \in Nat /\ Len(S) \in Nat /\ Len(Q) = n + Len(S)
      /\ DOMAIN P = 1..n /\ DOMAIN Q = 1..(n + Len(S))
    BY <1>1 DEF Longer
<1> HIDE DEF S
<1>3. \A i \in DOMAIN P : i \in DOMAIN Q /\ Q[i] = P[i]
    BY <1>2 DEF Longer
<1>4. /\ n + 1 \in DOMAIN Q /\ Q[n + 1] = S[1] /\ IsBlock(Q[n + 1])
      /\ ParentOf(Q[n + 1].block) = ForkWith(t, tip) /\ Q[n + 1].block \in Block
    <2>1. 1 \in 1..Len(S) /\ n + 1 \in DOMAIN Q
        BY <1>1, <1>2
    <2>2. Q[n + 1] = S[1]
        BY <2>1, Zenon DEF Longer, S
    <2> QED
        BY <1>1, <2>1, <2>2, Zenon
<1>5. \A k \in DOMAIN Q : IsPromise(Q[k]) => k \in DOMAIN P /\ Q[k] = P[k]
    <2> SUFFICES ASSUME NEW k \in DOMAIN Q, IsPromise(Q[k]), k \notin DOMAIN P PROVE FALSE
        BY <1>3, Zenon
    <2>1. k - n \in 1..Len(S) /\ n + (k - n) = k
        BY <1>2
    <2>2. Q[k] = S[k - n]
        BY <2>1, Zenon DEF Longer, S
    <2> QED
        BY <1>1, <2>1, <2>2, Zenon
<1>6. ASSUME tip = None, b = None PROVE Follows(Q, t, b)
    <2>1. ForkWith(t, tip) = None
        BY <1>6, ForkFacts, Zenon
    <2>2. Q[n + 1].block = Genesis
        BY <1>4, <2>1, ParentFacts, Zenon
    <2> QED
        BY <1>4, <1>6, <2>2, Zenon DEF Follows, Fits
<1>7. ASSUME tip # None, Follows(P, tip, b) PROVE Follows(Q, t, b)
    <2>1. CASE tip \in AncOf(b)
        <3>1. b # None
            BY <2>1, Zenon DEF AncOf
        <3>2. ForkWith(t, tip) \in Block \cup {None} /\ ForkWith(t, tip) # None
            BY <1>0, <1>7, ForkFacts
        <3>3. AncOf(ForkWith(t, tip)) = AncOf(t) \cap AncOf(tip)
            BY ForkFacts, Zenon
        <3>4. ForkWith(t, tip) \in AncOf(tip)
            BY <3>2, <3>3, AncOfFacts, Zenon
        <3>5. ForkWith(t, tip) \in AncOf(b)
            BY <2>1, <3>4, AncOfFacts, Zenon
        <3> QED
            BY <1>4, <3>1, <3>5, Zenon DEF Follows, Fits
    <2>2. CASE \E i \in DOMAIN P : IsBlock(P[i]) /\ Fits(b, P[i])
        BY <1>3, <2>2, Zenon DEF Follows
    <2> QED
        BY <1>7, <2>1, <2>2 DEF Follows
<1>8. ASSUME Waited(P, m, g, b) PROVE Waited(Q, m, g, b)
    <2>1. PICK i \in DOMAIN P :
              /\ i <= m /\ IsBlock(P[i]) /\ g \in AncOf(P[i].block)
              /\ \E j \in DOMAIN P : j <= i /\ IsBlock(P[j]) /\ Fits(b, P[j])
              /\ \A k \in DOMAIN P : IsPromise(P[k]) => i < k
        BY <1>8, Zenon DEF Waited
    <2> QED
        BY <1>3, <1>5, <2>1 DEF Waited
<1>9. NoPromise(P) => NoPromise(Q)
    BY <1>5, Zenon DEF NoPromise
<1>10. OnePromise(P) => OnePromise(Q)
    BY <1>5 DEF OnePromise
<1> QED
    BY <1>6, <1>7, <1>8, <1>9, <1>10, Zenon
-----------------------------------------------------------------------------
(* What the steps make of the callbacks to come                             *)

\* Lists with the same members are the same.
LEMMA SameList ==
    ASSUME NEW x \in Seq(Callback), NEW y \in Seq(Callback), Len(x) = Len(y),
           \A i \in 1..Len(x) : x[i] = y[i]
    PROVE  x = y
OBVIOUS

\* Three lists in a row.
LEMMA JoinAssociative ==
    ASSUME NEW x \in Seq(Callback), NEW y \in Seq(Callback), NEW z \in Seq(Callback)
    PROVE  (x \o y) \o z = x \o (y \o z)
OBVIOUS

\* A list and no other.
LEMMA WithNothing ==
    ASSUME NEW x \in Seq(Callback)
    PROVE  x \o <<>> = x /\ <<>> \o x = x
OBVIOUS

\* Two parts of a list.
LEMMA Parts ==
    ASSUME NEW x \in Seq(Callback), NEW y \in Seq(Callback)
    PROVE  /\ x \o y \in Seq(Callback) /\ Len(x \o y) = Len(x) + Len(y)
           /\ Len(x) \in Nat /\ Len(y) \in Nat
           /\ DOMAIN (x \o y) = 1..(Len(x) + Len(y))
           /\ \A i \in 1..Len(x) : (x \o y)[i] = x[i]
           /\ \A i \in 1..Len(y) : (x \o y)[Len(x) + i] = y[i]
<1>1. /\ x \o y \in Seq(Callback) /\ Len(x \o y) = Len(x) + Len(y)
      /\ \A i \in 1 .. Len(x) + Len(y) : (x \o y)[i] = IF i <= Len(x) THEN x[i] ELSE y[i - Len(x)]
    OBVIOUS
<1>2. Len(x) \in Nat /\ Len(y) \in Nat /\ DOMAIN (x \o y) = 1..(Len(x) + Len(y))
    BY <1>1
<1>3. ASSUME NEW i \in 1..Len(x) PROVE (x \o y)[i] = x[i]
    BY <1>1, <1>2
<1>4. ASSUME NEW i \in 1..Len(y) PROVE (x \o y)[Len(x) + i] = y[i]
    <2>1. Len(x) + i \in 1 .. Len(x) + Len(y) /\ ~(Len(x) + i <= Len(x)) /\ (Len(x) + i) - Len(x) = i
        BY <1>2
    <2> QED
        BY <1>1, <2>1
<1> QED
    BY <1>1, <1>2, <1>3, <1>4

\* The first callback and the others.
LEMMA HeadAndTail ==
    ASSUME NEW x \in Seq(Callback), x # <<>>
    PROVE  /\ Head(x) \in Callback /\ Tail(x) \in Seq(Callback) /\ <<Head(x)>> \in Seq(Callback)
           /\ x = <<Head(x)>> \o Tail(x)
<1>1. Head(x) \in Callback /\ Tail(x) \in Seq(Callback) /\ <<Head(x)>> \in Seq(Callback)
    OBVIOUS
<1>2. /\ Len(x) \in Nat /\ Len(x) >= 1 /\ Head(x) = x[1]
      /\ Len(Tail(x)) = Len(x) - 1 /\ \A i \in 1..Len(Tail(x)) : Tail(x)[i] = x[i + 1]
    OBVIOUS
<1>3. Len(<<Head(x)>>) = 1 /\ <<Head(x)>>[1] = Head(x)
    OBVIOUS
<1> DEFINE h == <<Head(x)>>
           r == Tail(x)
<1> HIDE DEF h, r
<1>4. /\ h \o r \in Seq(Callback) /\ Len(h \o r) = Len(x)
    BY <1>1, <1>2, <1>3, Parts DEF h, r
<1>5. ASSUME NEW i \in 1..Len(x) PROVE x[i] = (h \o r)[i]
    <2>1. CASE i = 1
        <3>1. 1 \in 1..Len(h)
            BY <1>3 DEF h
        <3>2. (h \o r)[1] = h[1]
            BY <1>1, <3>1, Parts DEF h, r
        <3> QED
            BY <1>2, <1>3, <2>1, <3>2, Zenon DEF h
    <2>2. CASE i > 1
        <3>1. i - 1 \in 1..Len(r) /\ 1 + (i - 1) = i /\ (i - 1) + 1 = i
            BY <1>2, <2>2 DEF r
        <3>2. (h \o r)[Len(h) + (i - 1)] = r[i - 1]
            BY <1>1, <3>1, Parts, Zenon DEF h, r
        <3>3. r[i - 1] = x[(i - 1) + 1]
            BY <1>2, <3>1, Zenon DEF r
        <3>4. Len(h) = 1
            BY <1>3, Zenon DEF h
        <3> QED
            BY <3>1, <3>2, <3>3, <3>4, Zenon
    <2>3. i = 1 \/ i > 1
        OBVIOUS
    <2> QED
        BY <2>1, <2>2, <2>3, Zenon
<1>6. x = h \o r
    BY <1>4, <1>5, SameList, Zenon
<1> QED
    BY <1>1, <1>6 DEF h, r

\* The callbacks that were added.
LEMMA LineFacts ==
    ASSUME NEW a \in Callback \cup {Nothing}, NEW q \in Seq(Callback)
    PROVE  /\ Line(a, q) \in Seq(Callback)
           /\ Line(Nothing, q) = q
           /\ a # Nothing => Line(a, q) = <<a>> \o q /\ <<a>> \in Seq(Callback)
           /\ \A c \in Callback : Line(a, Append(q, c)) = Line(a, q) \o <<c>>
           /\ q # <<>> => Line(Head(q), Tail(q)) = q
<1> DEFINE x == IF a = Nothing THEN <<>> ELSE <<a>>
<1>1. x \in Seq(Callback) /\ (a # Nothing => x = <<a>> /\ <<a>> \in Seq(Callback))
    OBVIOUS
<1>2. Line(a, q) = x \o q
    BY DEF Line
<1> HIDE DEF x
<1>3. Line(a, q) \in Seq(Callback)
    BY <1>1, <1>2, Parts
<1>4. Line(Nothing, q) = q
    BY WithNothing, Zenon DEF Line
<1>5. ASSUME NEW c \in Callback PROVE Line(a, Append(q, c)) = Line(a, q) \o <<c>>
    <2>1. <<c>> \in Seq(Callback)
        OBVIOUS
    <2>2. Append(q, c) = q \o <<c>>
        OBVIOUS
    <2>3. (x \o q) \o <<c>> = x \o (q \o <<c>>)
        BY <1>1, <2>1, JoinAssociative, SMTT(30)
    <2>4. Line(a, Append(q, c)) = x \o Append(q, c)
        BY Zenon DEF Line, x
    <2> QED
        BY <1>2, <2>2, <2>3, <2>4, Zenon
<1>6. ASSUME q # <<>> PROVE Line(Head(q), Tail(q)) = q
    <2>1. Head(q) \in Callback /\ q = <<Head(q)>> \o Tail(q)
        BY <1>6, HeadAndTail, Zenon
    <2>2. Head(q) # Nothing
        BY <2>1, CallbackAssumption, Zenon
    <2> QED
        BY <2>1, <2>2, Zenon DEF Line
<1> QED
    BY <1>1, <1>2, <1>3, <1>4, <1>5, <1>6, Zenon

\* A callback starts: nothing changes.  A signal is added: nothing changes.
LEMMA PendingSame ==
    ASSUME NEW a \in Callback \cup {Nothing}, NEW q \in Seq(Callback), NEW s \in Seq(Callback)
    PROVE  /\ s # <<>> => /\ Line(a, Append(q, Head(s))) \o Tail(s) = Line(a, q) \o s
                          /\ Len(Line(a, Append(q, Head(s)))) = Len(Line(a, q)) + 1
           /\ q # <<>> => Line(Head(q), Tail(q)) = Line(Nothing, q)
<1>1. ASSUME s # <<>>
      PROVE  /\ Line(a, Append(q, Head(s))) \o Tail(s) = Line(a, q) \o s
             /\ Len(Line(a, Append(q, Head(s)))) = Len(Line(a, q)) + 1
    <2>1. /\ Head(s) \in Callback /\ Tail(s) \in Seq(Callback) /\ <<Head(s)>> \in Seq(Callback)
          /\ s = <<Head(s)>> \o Tail(s)
        BY <1>1, HeadAndTail, Zenon
    <2>2. Line(a, Append(q, Head(s))) = Line(a, q) \o <<Head(s)>> /\ Line(a, q) \in Seq(Callback)
        BY <2>1, LineFacts
    <2>3. (Line(a, q) \o <<Head(s)>>) \o Tail(s) = Line(a, q) \o (<<Head(s)>> \o Tail(s))
        BY <2>1, <2>2, JoinAssociative, Zenon
    <2>4. Len(Line(a, q) \o <<Head(s)>>) = Len(Line(a, q)) + Len(<<Head(s)>>)
        BY <2>1, <2>2, Parts
    <2>5. Len(<<Head(s)>>) = 1
        OBVIOUS
    <2> QED
        BY <2>1, <2>2, <2>3, <2>4, <2>5, Zenon
<1>2. q # <<>> => Line(Head(q), Tail(q)) = Line(Nothing, q)
    BY LineFacts
<1> QED
    BY <1>1, <1>2, Zenon

\* A callback ends.
LEMMA PendingPopped ==
    ASSUME NEW a \in Callback, NEW q \in Seq(Callback), NEW s \in Seq(Callback)
    PROVE  /\ Popped(Line(a, q) \o s, Line(Nothing, q) \o s)
           /\ (Line(a, q) \o s)[1] = a
           /\ Len(Line(Nothing, q)) = Len(Line(a, q)) - 1
<1>0. a # Nothing
    BY CallbackAssumption
<1> DEFINE h == <<a>>
<1>1. h \in Seq(Callback) /\ Len(h) = 1 /\ h[1] = a
    OBVIOUS
<1> HIDE DEF h
<1>2. q \o s \in Seq(Callback)
    BY Parts
<1>3. Line(a, q) = h \o q /\ Line(Nothing, q) = q
    BY <1>0, LineFacts DEF h
<1>4. Line(a, q) \o s = h \o (q \o s) /\ Line(Nothing, q) \o s = q \o s
    <2>1. h \in Seq(Callback)
        BY <1>1
    <2>2. (h \o q) \o s = h \o (q \o s)
        BY <2>1, JoinAssociative, Zenon
    <2> QED
        BY <1>3, <2>2
<1> DEFINE r == q \o s
<1> HIDE DEF r
<1>5. Len(h \o q) = Len(h) + Len(q) /\ Len(q) \in Nat
    BY <1>1, Parts, Zenon
<1>6. /\ Len(h \o r) = Len(h) + Len(r) /\ Len(r) \in Nat
      /\ \A i \in 1..Len(h) : (h \o r)[i] = h[i]
      /\ \A i \in 1..Len(r) : (h \o r)[Len(h) + i] = r[i]
    BY <1>1, <1>2, Parts, ZenonT(30) DEF r
<1>7. (h \o r)[1] = a
    BY <1>1, <1>6
<1>8. \A i \in 1..Len(r) : 1 + i = i + 1
    BY <1>6
<1>9. Popped(h \o r, r)
    BY <1>1, <1>6, <1>8 DEF Popped
<1> QED
    BY <1>1, <1>3, <1>4, <1>5, <1>7, <1>9 DEF r

\* A callback is added.
LEMMA PendingPut ==
    ASSUME NEW a \in Callback \cup {Nothing}, NEW q \in Seq(Callback), NEW s \in Seq(Callback),
           NEW c \in Callback
    PROVE  /\ Put(Line(a, q) \o s, Line(a, Append(q, c)) \o s, Len(Line(a, q)), c)
           /\ Len(Line(a, Append(q, c))) = Len(Line(a, q)) + 1
<1> DEFINE x == Line(a, q)
           y == x \o <<c>>
<1>1. x \in Seq(Callback) /\ <<c>> \in Seq(Callback) /\ Len(<<c>>) = 1 /\ <<c>>[1] = c
    BY LineFacts
<1>2. Line(a, Append(q, c)) = y
    BY LineFacts, ZenonT(30)
<1>3. /\ y \in Seq(Callback) /\ Len(y) = Len(x) + 1 /\ Len(x) \in Nat
      /\ \A i \in 1..Len(x) : y[i] = x[i]
      /\ y[Len(x) + 1] = c
    <2>1. /\ y \in Seq(Callback) /\ Len(y) = Len(x) + Len(<<c>>) /\ Len(x) \in Nat
          /\ \A i \in 1..Len(x) : y[i] = x[i]
          /\ \A i \in 1..Len(<<c>>) : y[Len(x) + i] = <<c>>[i]
        BY <1>1, Parts
    <2> QED
        BY <1>1, <2>1
<1> HIDE DEF x, y
<1>4. /\ Len(x \o s) = Len(x) + Len(s) /\ Len(s) \in Nat
      /\ \A i \in 1..Len(x) : (x \o s)[i] = x[i]
      /\ \A i \in 1..Len(s) : (x \o s)[Len(x) + i] = s[i]
    BY <1>1, Parts
<1>5. /\ Len(y \o s) = Len(y) + Len(s)
      /\ \A i \in 1..Len(y) : (y \o s)[i] = y[i]
      /\ \A i \in 1..Len(s) : (y \o s)[Len(y) + i] = s[i]
    BY <1>3, Parts, ZenonT(30)
<1>6. \A i \in 1..Len(x) : (y \o s)[i] = (x \o s)[i]
    BY <1>3, <1>4, <1>5
<1>7. (y \o s)[Len(x) + 1] = c
    BY <1>3, <1>5
<1>8. ASSUME NEW i \in (Len(x) + 1)..(Len(x) + Len(s)) PROVE (y \o s)[i + 1] = (x \o s)[i]
    <2>1. i - Len(x) \in 1..Len(s) /\ Len(x) + (i - Len(x)) = i /\ Len(y) + (i - Len(x)) = i + 1
        BY <1>3, <1>4
    <2>2. (x \o s)[Len(x) + (i - Len(x))] = s[i - Len(x)] /\ (y \o s)[Len(y) + (i - Len(x))] = s[i - Len(x)]
        BY <1>4, <1>5, <2>1, Zenon
    <2> QED
        BY <2>1, <2>2, Zenon
<1>9. Put(x \o s, y \o s, Len(x), c)
    <2>1. Len(x) \in 0..Len(x \o s) /\ Len(y \o s) = Len(x \o s) + 1
        BY <1>3, <1>4, <1>5
    <2> QED
        BY <1>4, <1>6, <1>7, <1>8, <2>1, Zenon DEF Put
<1> QED
    BY <1>2, <1>3, <1>9 DEF x

\* The validation thread has callbacks to add.
LEMMA PendingLonger ==
    ASSUME NEW x \in Seq(Callback), NEW s \in Seq(Callback)
    PROVE  Longer(x \o <<>>, x \o s, s) /\ x \o <<>> = x
<1>1. x \o <<>> = x
    BY WithNothing, Zenon
<1> QED
    BY <1>1, Parts DEF Longer

\* It has one.
LEMMA PendingPutLast ==
    ASSUME NEW x \in Seq(Callback), NEW c \in Callback
    PROVE  Put(x, x \o <<c>>, Len(x), c)
<1>1. <<c>> \in Seq(Callback) /\ Len(<<c>>) = 1 /\ <<c>>[1] = c
    OBVIOUS
<1>2. /\ Len(x \o <<c>>) = Len(x) + 1 /\ Len(x) \in Nat
      /\ \A i \in 1..Len(x) : (x \o <<c>>)[i] = x[i]
      /\ (x \o <<c>>)[Len(x) + 1] = c
    BY <1>1, Parts
<1> QED
    BY <1>2 DEF Put

-----------------------------------------------------------------------------
(* Types                                                                    *)

\* The synchronisation thread looks for blocks only while there is a chain.
LEMMA NextTyped ==
    ASSUME TypeOK, FollowInv, place = "top"
    PROVE  /\ tip \in Block /\ NextSyncBlock(pindex) \in Block \cup {None}
           /\ NextSyncBlock(pindex) # None => /\ NextSyncBlock(pindex) \in Block
                                              /\ ParentOf(NextSyncBlock(pindex)) \in Block \cup {None}
           /\ NextSyncBlock(pindex) = None => tip \in AncOf(pindex)
<1>1. tip # None
    BY Zenon DEF FollowInv
<1>2. tip \in Block /\ pindex \in Block \cup {None}
    BY <1>1, Zenon DEF TypeOK
<1> QED
    BY <1>2, NextFacts, ParentFacts, Zenon

\* A restart finds blocks.
LEMMA RestartTyped ==
    ASSUME TypeOK, Restart, crashes' \in Nat, stops' \in 0..MaxEnds
    PROVE  TypeOK'
<1>1. ForkWith(locator, flushed) \in Block \cup {None}
    BY ForkFacts, Zenon DEF TypeOK
<1>2. /\ queue' \in Seq(Callback) /\ signals' \in Seq(Callback) /\ active' \in Callback \cup {Nothing}
      /\ {tip', flushed', best', pindex', locator', goal', answer'} \subseteq Block \cup {None}
    BY <1>1 DEF TypeOK, Restart, StartIndex, Reset, diskVars
<1>3. {synced', interrupted', blind'} \subseteq BOOLEAN /\ waits' \subseteq {Validation, Caller}
    BY Zenon DEF TypeOK, Restart, StartIndex
<1>4. /\ place' \in {"top", "timer", "commit", "write", "synced", "stopping", "ended"}
      /\ handler' \in {"entry", "commit", "write", "best"}
      /\ written' \subseteq Block /\ moves' \in 0..MaxMoves
    BY Zenon DEF TypeOK, Restart, StartIndex, diskVars
<1> QED
    BY <1>2, <1>3, <1>4, Zenon DEF TypeOK

\* The active callback.
LEMMA ActiveTyped ==
    ASSUME TypeOK, active # Nothing
    PROVE  /\ active \in Callback
           /\ active.type \in {"connected", "flushed"} => active.block \in Block /\ active.block # None
           /\ active.type = "promise" => active.to \in {Validation, Caller} /\ active = Promise(active.to)
           /\ active.type \in {"connected", "flushed", "promise"}
<1>1. active \in Callback
    BY DEF TypeOK
<1>2. \/ active \in [type : {"connected", "flushed"}, block : Block]
      \/ active \in [type : {"promise"}, to : {Validation, Caller}]
    BY <1>1, CallbackAssumption, Zenon
<1> QED
    BY <1>1, <1>2, TreeAssumption, Zenon DEF Promise

\* Every step keeps the types.
LEMMA TypeStep ==
    ASSUME TypeOK, MissInv, FollowInv, Next
    PROVE  TypeOK'
<1> USE DEF queueVars, chainVars, indexVars, diskVars, callerVars, chainUnchanged, syncUnchanged
<1>1. CASE Run
    BY <1>1 DEF TypeOK, Run, Start
<1>2. ASSUME NEW t \in Block, MoveTip(t) PROVE TypeOK'
    <2>1. IF tip = None THEN t = Genesis ELSE Height[t] = Height[tip] + 1
        BY <1>2, Zenon DEF MoveTip
    <2>2. ConnectedUpTo(t) \in Seq(Callback)
        BY <2>1, ConnectedFacts DEF TypeOK
    <2> QED
        BY <1>2, <2>2, CallbackAssumption, SMTT(30) DEF TypeOK, MoveTip
<1>3. CASE DisconnectTip
    <2>1. tip \in Block /\ tip # Genesis
        BY <1>3, Zenon DEF TypeOK, DisconnectTip
    <2>2. Prev[tip] \in Block
        BY <2>1, ParentFacts, Zenon
    <2> QED
        BY <1>3, <2>2, CallbackAssumption DEF TypeOK, DisconnectTip
<1>4. CASE DrainQueue
    <2>1. Promise(Validation) \in Callback
        BY CallbackAssumption, Zenon DEF Promise
    <2> QED
        BY <1>4, <2>1 DEF TypeOK, DrainQueue, Add
<1>5. CASE FlushStateToDisk
    <2>1. tip \in Block => Flushed(tip) \in Callback
        BY CallbackAssumption, Zenon DEF Flushed
    <2> QED
        BY <1>5, <2>1, SMTT(30) DEF TypeOK, FlushStateToDisk
<1>6. CASE Signal
    BY <1>6 DEF TypeOK, Signal, Add
<1>7. CASE CaughtUp
    BY <1>7, SMTT(30) DEF TypeOK, CaughtUp
<1>8. CASE CommitSynced \/ SyncCommit \/ CommitStopped
    BY <1>8, Zenon DEF TypeOK, CommitSynced, SyncCommit, CommitStopped, Commit, LocatorOf
<1>9. CASE SyncNext
    <2>1. NextSyncBlock(pindex) \in Block
        BY <1>9, NextTyped, Zenon DEF SyncNext
    <2> QED
        BY <1>9, <2>1 DEF TypeOK, SyncNext
<1>10. CASE SyncRewind
    <2>1. NextSyncBlock(pindex) \in Block /\ ParentOf(NextSyncBlock(pindex)) \in Block \cup {None}
        BY <1>10, NextTyped, Zenon DEF SyncRewind
    <2> QED
        BY <1>10, <2>1 DEF TypeOK, SyncRewind, Commit, LocatorOf
<1>11. CASE RewindAsserts
    BY <1>11, RestartTyped DEF TypeOK, RewindAsserts
<1>12. CASE SyncTimer
    BY <1>12 DEF TypeOK, SyncTimer
<1>13. CASE SyncWrite
    <2>1. pindex # None
        BY <1>13, Zenon DEF SyncWrite, MissInv
    <2> QED
        BY <1>13, <2>1, Zenon DEF TypeOK, SyncWrite
<1>14. CASE SyncStops
    BY <1>14 DEF TypeOK, SyncStops
<1>15. CASE BlockConnectedIgnored
    BY <1>15, Zenon DEF TypeOK, BlockConnectedIgnored, Finish
<1>16. CASE BlockConnected
    <2>1. ParentOf(active.block) \in Block \cup {None}
        BY <1>16, ActiveTyped, ParentFacts, Zenon DEF BlockConnected, Handling
    <2> QED
        BY <1>16, <2>1, SMTT(30) DEF TypeOK, BlockConnected
<1>17. CASE RewindCommit
    BY <1>17 DEF TypeOK, RewindCommit, Commit, LocatorOf
<1>18. CASE WriteBlock
    <2>1. active.block \in Block
        BY <1>18, ActiveTyped, Zenon DEF WriteBlock, Handling
    <2> QED
        BY <1>18, <2>1, Zenon DEF TypeOK, WriteBlock
<1>19. CASE SetBest
    <2>1. active.block \in Block
        BY <1>19, ActiveTyped, Zenon DEF SetBest, Handling
    <2> QED
        BY <1>19, <2>1 DEF TypeOK, SetBest, Finish
<1>20. CASE ChainStateFlushed
    BY <1>20, Zenon DEF TypeOK, ChainStateFlushed, Finish, Commit, LocatorOf
<1>21. CASE PromiseSet
    BY <1>21 DEF TypeOK, PromiseSet, Finish
<1>22. CASE AnswerAtOnce \/ AskWaits
    BY <1>22, Zenon DEF TypeOK, AnswerAtOnce, AskWaits
<1>23. CASE SyncWithQueue
    <2>1. Promise(Caller) \in Callback
        BY CallbackAssumption, Zenon DEF Promise
    <2> QED
        BY <1>23, <2>1 DEF TypeOK, SyncWithQueue, Add
<1>24. CASE Crash
    BY <1>24, RestartTyped, SMTT(30) DEF TypeOK, Crash
<1>25. CASE Interrupt
    BY <1>25, CallbackAssumption, SMTT(30) DEF TypeOK, Interrupt
<1>26. CASE Shutdown
    BY <1>26, RestartTyped, Zenon DEF TypeOK, Shutdown
<1> QED
    BY <1>1, <1>2, <1>3, <1>4, <1>5, <1>6, <1>7, <1>8, <1>9, <1>10, <1>11, <1>12, <1>13, <1>14,
       <1>15, <1>16, <1>17, <1>18, <1>19, <1>20, <1>21, <1>22, <1>23, <1>24, <1>25, <1>26, ZenonT(30)
       DEF Next, SyncThread, Handle

-----------------------------------------------------------------------------
(* The blocks the index lacks                                               *)

\* What the index has it keeps, and it has what is below.
LEMMA HoldsLess ==
    ASSUME NEW a \in Block \cup {None}, NEW b \in Block \cup {None}, AncOf(a) \subseteq AncOf(b),
           NEW old, NEW new, old \subseteq new, NEW m \in Nat, NEW n \in Nat, m <= n,
           NEW was \in BOOLEAN, NEW is \in BOOLEAN, was => is,
           Holds(was, old, m, b)
    PROVE  Holds(is, new, n, a)
BY LacksLess, Zenon DEF Holds

\* In particular of the branch below.
LEMMA HoldsBelow ==
    ASSUME NEW a \in Block \cup {None}, NEW b \in Block \cup {None}, AncOf(a) \subseteq AncOf(b),
           NEW old, NEW n \in Nat, NEW was \in BOOLEAN, Holds(was, old, n, b)
    PROVE  Holds(was, old, n, a)
BY HoldsLess, SMT

\* A step that removes nothing from the index.
Keeps == \A a, b \in Block \cup {None} :
            AncOf(a) \subseteq AncOf(b) /\ Holds(blind, written, crashes, b)
                => Holds(blind', written', crashes', a)

\* Writing, a crash or a new blind state are such steps.
LEMMA KeepsFacts ==
    ASSUME TypeOK, TypeOK', written \subseteq written', crashes' \in {crashes, crashes + 1},
           blind => blind'
    PROVE  Keeps
<1>1. /\ crashes \in Nat /\ crashes' \in Nat /\ crashes <= crashes'
      /\ blind \in BOOLEAN /\ blind' \in BOOLEAN
    BY DEF TypeOK
<1> QED
    BY <1>1, HoldsLess DEF Keeps

\* Nothing is claimed of an index that is blind, or of no block.
LEMMA BlindHolds ==
    ASSUME NEW blocks, NEW n \in Nat, NEW b
    PROVE  Holds(TRUE, blocks, n, b) /\ \A lost \in BOOLEAN : Holds(lost, blocks, n, None)
BY LacksNone, Zenon DEF Holds

\* The locator is that of a block the index has.
LEMMA CommitHas ==
    ASSUME TypeOK, TypeOK', NEW b \in Block \cup {None}, Commit(b), Holds(blind, written, crashes, b),
           crashes' = crashes
    PROVE  Holds(blind', written', crashes', locator') /\ Keeps
<1>1. written' = written /\ (blind => blind')
    BY Zenon DEF Commit
<1>2. Keeps
    BY <1>1, KeepsFacts, Zenon
<1>3. CASE b = None
    <2>1. blind' = TRUE /\ crashes' \in Nat
        BY <1>3, Zenon DEF Commit, TypeOK
    <2> QED
        BY <1>2, <2>1, BlindHolds, Zenon
<1>4. CASE b # None
    <2>1. locator' = b
        BY <1>4 DEF Commit, LocatorOf
    <2> QED
        BY <1>2, <2>1 DEF Keeps
<1> QED
    BY <1>3, <1>4, Zenon

\* The index starts below the block of its locator.
LEMMA RestartMiss ==
    ASSUME TypeOK, Restart, Holds(blind', written', crashes', locator), crashes' \in Nat
    PROVE  MissInv'
<1>1. /\ ForkWith(locator, flushed) \in Block \cup {None}
      /\ AncOf(ForkWith(locator, flushed)) \subseteq AncOf(locator)
      /\ locator \in Block \cup {None} /\ blind \in BOOLEAN
    BY ForkFacts DEF TypeOK
<1>2. written' = written /\ locator' = locator /\ blind' = blind
    BY Zenon DEF Restart, diskVars
<1>3. Holds(blind', written', crashes', ForkWith(locator, flushed))
    BY <1>1, <1>2, HoldsLess
<1>4. /\ best' = ForkWith(locator, flushed) /\ pindex' = ForkWith(locator, flushed)
      /\ (synced' /\ place' = "ended") \/ (~synced' /\ place' = "top")
    BY Zenon DEF Restart, StartIndex
<1> QED
    BY <1>2, <1>3, <1>4, ZenonT(30) DEF MissInv, Has, HasBelow

\* A crash costs the block whose locator was committed before it was written.
LEMMA CrashMiss ==
    ASSUME TypeOK, MissInv, Restart, crashes' = crashes + 1
    PROVE  MissInv'
<1>1. written' = written /\ blind' = blind /\ crashes \in Nat /\ crashes' \in Nat
    BY DEF Restart, diskVars, TypeOK
<1>2. locator \in Block \cup {None} /\ blind \in BOOLEAN /\ crashes <= crashes'
    BY <1>1 DEF TypeOK
<1>3. CASE Has(locator)
    <2>1. Holds(blind', written', crashes', locator)
        BY <1>1, <1>2, <1>3, HoldsLess DEF Has
    <2> QED
        BY <1>1, <2>1, RestartMiss, Zenon
<1>4. CASE place = "write" /\ locator = pindex
    <2>1. HasBelow(pindex) /\ pindex \in Block
        BY <1>4, Zenon DEF MissInv, TypeOK
    <2>2. Holds(blind', written', crashes', pindex)
        BY <1>1, <2>1, LacksOne, Zenon DEF HasBelow, Holds
    <2> QED
        BY <1>1, <1>4, <2>2, RestartMiss, Zenon
<1> QED
    BY <1>3, <1>4 DEF MissInv

\* Every step keeps track of the blocks the index lacks.
LEMMA MissStep ==
    ASSUME TypeOK, TypeOK', MissInv, HandlerInv, FollowInv, Next
    PROVE  MissInv'
<1> USE DEF queueVars, chainVars, indexVars, diskVars, callerVars, chainUnchanged, syncUnchanged
<1>0. /\ best \in Block \cup {None} /\ pindex \in Block \cup {None} /\ locator \in Block \cup {None}
      /\ synced \in BOOLEAN /\ synced' \in BOOLEAN /\ blind \in BOOLEAN /\ crashes \in Nat
    BY Zenon DEF TypeOK
<1>1. CASE UNCHANGED <<best, synced, place, pindex, written, locator, blind, crashes>>
    BY <1>1, Zenon DEF MissInv, Has, HasBelow
<1>2. ASSUME Keeps PROVE \A b \in Block \cup {None} : Has(b) => Holds(blind', written', crashes', b)
    BY <1>2, Zenon DEF Keeps, Has
<1>3. CASE CaughtUp
    BY <1>3, Zenon DEF CaughtUp, MissInv, Has, HasBelow
<1>4. CASE CommitSynced \/ CommitStopped
    <2>1. Has(best) /\ Commit(best) /\ crashes' = crashes
        BY <1>4 DEF CommitSynced, CommitStopped, MissInv
    <2>2. Holds(blind', written', crashes', locator') /\ Keeps
        BY <1>0, <2>1, CommitHas, Zenon DEF Has
    <2>3. Holds(blind', written', crashes', best)
        BY <1>0, <1>2, <2>1, <2>2, Zenon
    <2> QED
        BY <1>4, <2>2, <2>3, Zenon DEF CommitSynced, CommitStopped, MissInv, Has, HasBelow
<1>5. CASE SyncNext
    <2> DEFINE n == NextSyncBlock(pindex)
    <2>1. /\ Has(pindex) /\ n \in Block /\ ParentOf(n) = pindex /\ n # None
        BY <1>5, NextTyped, Zenon DEF SyncNext, MissInv
    <2>2. AncOf(n) = {n} \cup AncOf(pindex)
        BY <2>1, ParentFacts, Zenon
    <2>3. Holds(blind, written \cup {n}, crashes, n)
        <3>1. AncOf(n) \ (written \cup {n}) = AncOf(pindex) \ (written \cup {n})
            BY <2>2, Zenon
        <3>2. Holds(blind, written \cup {n}, crashes, pindex)
            BY <1>0, <2>1, HoldsLess DEF Has
        <3> QED
            BY <3>1, <3>2, Zenon DEF Holds, Lacks
    <2>4. Has(locator)
        BY <1>5, Zenon DEF SyncNext, MissInv
    <2> HIDE DEF n
    <2>5. ~synced
        BY <1>5, Zenon DEF SyncNext, MissInv
    <2>6. /\ pindex' = n /\ place' = "timer" /\ synced' = synced
          /\ UNCHANGED <<best, written, locator, blind, crashes>>
        BY <1>5, Zenon DEF SyncNext, n
    <2> QED
        BY <2>1, <2>3, <2>4, <2>5, <2>6, Zenon DEF MissInv, Has, HasBelow
<1>6. CASE SyncRewind
    <2> DEFINE n == NextSyncBlock(pindex)
    <2>1. /\ Has(pindex) /\ n \in Block /\ n # None /\ ParentOf(n) \in Block \cup {None}
        BY <1>6, NextTyped, Zenon DEF SyncRewind, MissInv
    <2>2. AncOf(ParentOf(n)) \subseteq AncOf(pindex) /\ AncOf(n) = {n} \cup AncOf(ParentOf(n))
        BY <1>0, <1>6, <2>1, NextFacts, NextTyped, ParentFacts, Zenon DEF SyncRewind
    <2>3. Commit(ParentOf(n)) /\ crashes' = crashes
        BY <1>6, Zenon DEF SyncRewind
    <2> HIDE DEF n
    <2>4. Holds(blind, written, crashes, ParentOf(n))
        BY <1>0, <2>1, <2>2, HoldsLess, SMTT(30) DEF Has
    <2>5. Holds(blind', written', crashes', locator') /\ Keeps
        BY <2>1, <2>3, <2>4, CommitHas, Zenon
    <2>6. Holds(blind', written' \cup {n}, crashes', n)
        <3>1. AncOf(n) \ (written' \cup {n}) = AncOf(ParentOf(n)) \ (written' \cup {n})
            BY <2>2, Zenon
        <3>2. Holds(blind', written', crashes', ParentOf(n))
            BY <1>2, <2>1, <2>4, <2>5, Zenon DEF Has
        <3>3. Holds(blind', written' \cup {n}, crashes', ParentOf(n))
            <4>1. blind' \in BOOLEAN /\ crashes' \in Nat /\ written' \subseteq written' \cup {n}
                BY Zenon DEF TypeOK
            <4> QED
                BY <2>1, <3>2, <4>1, HoldsLess, SMTT(30)
        <3> QED
            BY <3>1, <3>3, Zenon DEF Holds, Lacks
    <2>7. ~synced
        BY <1>6, Zenon DEF SyncRewind, MissInv
    <2>8. pindex' = n /\ place' = "timer" /\ synced' = synced
        BY <1>6, Zenon DEF SyncRewind, n
    <2> QED
        BY <2>1, <2>5, <2>6, <2>7, <2>8, Zenon DEF MissInv, Has, HasBelow
<1>7. CASE RewindAsserts
    BY <1>7, CrashMiss, Zenon DEF RewindAsserts
<1>8. CASE SyncTimer
    BY <1>8, Zenon DEF SyncTimer, MissInv, Has, HasBelow
<1>9. CASE SyncCommit
    <2>1. best = pindex /\ pindex # None /\ HasBelow(pindex) /\ ~synced
        BY <1>9, Zenon DEF SyncCommit, MissInv
    <2>2. /\ locator' = pindex /\ blind' = (blind \/ pindex = None) /\ written' = written
          /\ place' = "write" /\ UNCHANGED <<best, synced, pindex, crashes>>
        BY <1>9, <2>1, Zenon DEF SyncCommit, Commit, LocatorOf
    <2>3. blind' = blind
        BY <1>0, <2>1, <2>2, Zenon
    <2> QED
        BY <2>1, <2>2, <2>3, Zenon DEF MissInv, HasBelow, Has
<1>10. CASE SyncWrite
    <2>1. HasBelow(pindex) /\ ~synced
        BY <1>10, Zenon DEF SyncWrite, MissInv
    <2>2. written' = written \cup {pindex} /\ UNCHANGED <<blind, crashes>>
        BY <1>10, Zenon DEF SyncWrite
    <2>3. Holds(blind', written', crashes', pindex)
        BY <2>1, <2>2, Zenon DEF HasBelow
    <2>4. Keeps
        BY <2>2, KeepsFacts, Zenon
    <2>5. Holds(blind', written', crashes', locator)
        BY <1>0, <1>2, <2>3, <2>4, Zenon DEF MissInv
    <2> QED
        BY <1>10, <2>1, <2>3, <2>5, Zenon DEF SyncWrite, MissInv, Has, HasBelow
<1>11. CASE SyncStops
    BY <1>11, Zenon DEF SyncStops, MissInv, Has, HasBelow
<1>12. CASE BlockConnected
    <2> DEFINE p == ParentOf(active.block)
    <2>1. active.block \in Block /\ p \in Block \cup {None}
        BY <1>12, ActiveTyped, ParentFacts, Zenon DEF BlockConnected, Handling
    <2>2. synced /\ Applies(active.block) /\ Has(best) /\ place \in {"synced", "ended"}
        BY <1>12, Zenon DEF BlockConnected, MissInv
    <2>3. AncOf(p) \subseteq AncOf(best)
        <3>1. CASE best = None
            BY <2>2, <3>1, Zenon DEF Applies, ParentOf, AncOf
        <3>2. CASE best # None
            BY <1>0, <2>2, <3>2, AncOfFacts, Zenon DEF Applies
        <3> QED
            BY <3>1, <3>2, Zenon
    <2> HIDE DEF p
    <2>4. Has(p)
        BY <1>0, <2>1, <2>2, <2>3, HoldsLess, SMTT(30) DEF Has
    <2>5. best' = p /\ UNCHANGED <<synced, place, pindex, written, locator, blind, crashes>>
        BY <1>12, Zenon DEF BlockConnected, p
    <2> QED
        BY <2>2, <2>4, <2>5, Zenon DEF MissInv, Has, HasBelow
<1>13. CASE RewindCommit
    <2>1. synced /\ Commit(best) /\ crashes' = crashes
        BY <1>13, Zenon DEF RewindCommit, HandlerInv
    <2>2. Has(best) /\ place \in {"synced", "ended"}
        BY <2>1, Zenon DEF MissInv
    <2>3. Holds(blind', written', crashes', locator') /\ Keeps
        BY <1>0, <2>1, <2>2, CommitHas, Zenon DEF Has
    <2>4. Holds(blind', written', crashes', best)
        BY <1>0, <1>2, <2>2, <2>3, Zenon
    <2> QED
        BY <1>13, <2>2, <2>3, <2>4, Zenon DEF RewindCommit, MissInv, Has, HasBelow
<1>14. CASE WriteBlock
    <2>1. synced
        BY <1>14, Zenon DEF WriteBlock, HandlerInv
    <2>2. Has(best) /\ place \in {"synced", "ended"} /\ Has(locator)
        BY <2>1, Zenon DEF MissInv
    <2>3. written' = written \cup {active.block} /\ UNCHANGED <<blind, crashes>>
        BY <1>14, Zenon DEF WriteBlock
    <2>4. Keeps
        BY <2>3, KeepsFacts, Zenon
    <2>5. Holds(blind', written', crashes', best) /\ Holds(blind', written', crashes', locator)
        BY <1>0, <1>2, <2>2, <2>4, Zenon
    <2> QED
        BY <1>14, <2>2, <2>5, Zenon DEF WriteBlock, MissInv, Has, HasBelow
<1>15. CASE SetBest
    <2>1. synced /\ best = ParentOf(active.block) /\ active.block \in written
        BY <1>15, Zenon DEF SetBest, HandlerInv
    <2>2. Has(best) /\ place \in {"synced", "ended"}
        BY <2>1, Zenon DEF MissInv
    <2>3. active.block \in Block
        BY <1>15, ActiveTyped, Zenon DEF SetBest, Handling
    <2>4. AncOf(active.block) = {active.block} \cup AncOf(best)
        BY <2>1, <2>3, ParentFacts, Zenon
    <2>5. AncOf(active.block) \ written = AncOf(best) \ written
        BY <2>1, <2>4, Zenon
    <2>6. Has(active.block)
        BY <2>2, <2>5, Zenon DEF Has, Holds, Lacks
    <2>7. best' = active.block /\ UNCHANGED <<synced, place, pindex, written, locator, blind, crashes>>
        BY <1>15, Zenon DEF SetBest
    <2> QED
        BY <2>2, <2>6, <2>7, Zenon DEF MissInv, Has, HasBelow
<1>16. CASE ChainStateFlushed
    <2>1. CASE synced /\ active.block \in AncOf(best)
        <3>1. Has(best) /\ place \in {"synced", "ended"} /\ Commit(best) /\ crashes' = crashes
            BY <1>16, <2>1, Zenon DEF MissInv, ChainStateFlushed
        <3>2. Holds(blind', written', crashes', locator') /\ Keeps
            BY <1>0, <3>1, CommitHas, Zenon DEF Has
        <3>3. Holds(blind', written', crashes', best)
            BY <1>0, <1>2, <3>1, <3>2, Zenon
        <3> QED
            BY <1>16, <3>1, <3>2, <3>3, Zenon DEF ChainStateFlushed, MissInv, Has, HasBelow
    <2>2. CASE ~(synced /\ active.block \in AncOf(best))
        BY <1>1, <1>16, <2>2, Zenon DEF ChainStateFlushed
    <2> QED
        BY <2>1, <2>2, Zenon
<1>17. CASE Crash
    BY <1>17, CrashMiss, Zenon DEF Crash
<1>18. CASE Shutdown
    <2>1. Has(locator) /\ Restart /\ crashes' = crashes /\ UNCHANGED <<written, blind>>
        BY <1>18, Zenon DEF Shutdown, MissInv, Restart
    <2> QED
        BY <1>0, <2>1, RestartMiss, Zenon DEF Has
<1>19. CASE \/ Run \/ (\E t \in Block : MoveTip(t)) \/ DisconnectTip \/ DrainQueue
            \/ FlushStateToDisk \/ Signal \/ AnswerAtOnce \/ AskWaits \/ SyncWithQueue \/ Interrupt
            \/ BlockConnectedIgnored \/ PromiseSet
    BY <1>1, <1>19, Zenon DEF Run, MoveTip, DisconnectTip, DrainQueue, FlushStateToDisk, Signal,
       AnswerAtOnce, AskWaits, SyncWithQueue, Interrupt, BlockConnectedIgnored, PromiseSet
<1> QED
    BY <1>3, <1>4, <1>5, <1>6, <1>7, <1>8, <1>9, <1>10, <1>11, <1>12, <1>13, <1>14, <1>15, <1>16,
       <1>17, <1>18, <1>19, ZenonT(30) DEF Next, SyncThread, Handle

-----------------------------------------------------------------------------
(* The callback that is half done                                           *)

\* Every step keeps it where it is.
LEMMA HandlerStep ==
    ASSUME TypeOK, MissInv, HandlerInv, Next
    PROVE  HandlerInv'
<1> USE DEF queueVars, chainVars, indexVars, diskVars, callerVars, chainUnchanged, syncUnchanged
<1>1. CASE UNCHANGED <<handler, active, synced, best>> /\ written \subseteq written'
    BY <1>1 DEF HandlerInv
<1>2. CASE handler' = "entry"
    BY <1>2, Zenon DEF HandlerInv
<1>3. CASE \/ (\E t \in Block : MoveTip(t)) \/ DisconnectTip \/ DrainQueue
           \/ FlushStateToDisk \/ Signal \/ AnswerAtOnce \/ AskWaits \/ SyncWithQueue \/ Interrupt
    BY <1>1, <1>3, Zenon DEF MoveTip, DisconnectTip, DrainQueue, FlushStateToDisk, Signal,
       AnswerAtOnce, AskWaits, SyncWithQueue, Interrupt, Add
<1>4. CASE CommitSynced \/ SyncNext \/ SyncCommit \/ SyncWrite \/ CommitStopped
    BY <1>1, <1>4, Zenon DEF CommitSynced, SyncNext, SyncCommit, SyncWrite, CommitStopped, Commit
<1>5. CASE CaughtUp \/ SyncRewind \/ SyncTimer \/ SyncStops
    <2>1. ~synced
        BY <1>5, Zenon DEF CaughtUp, SyncRewind, SyncTimer, SyncStops, MissInv
    <2>2. handler' = "entry"
        BY <1>5, <2>1 DEF CaughtUp, SyncRewind, SyncTimer, SyncStops, HandlerInv
    <2> QED
        BY <1>2, <2>2, Zenon
<1>6. CASE RewindAsserts \/ Crash \/ Shutdown
    BY <1>2, <1>6 DEF RewindAsserts, Crash, Shutdown, Restart
<1>7. CASE Run
    BY <1>2, <1>7 DEF Run, Start, HandlerInv
<1>8. CASE BlockConnectedIgnored \/ SetBest
    BY <1>2, <1>8 DEF BlockConnectedIgnored, SetBest
<1>9. CASE BlockConnected
    <2>1. /\ handler' \in {"write", "commit"} /\ best' = ParentOf(active.block) /\ active' = active
          /\ active # Nothing /\ active.type = "connected" /\ synced /\ synced' = synced
        BY <1>9, Zenon DEF BlockConnected, Handling
    <2> QED
        BY <2>1, Zenon DEF HandlerInv
<1>10. CASE RewindCommit
    BY <1>10 DEF RewindCommit, Commit, HandlerInv
<1>11. CASE WriteBlock
    BY <1>11, Zenon DEF WriteBlock, HandlerInv
<1>12. CASE ChainStateFlushed \/ PromiseSet
    <2>1. active.type # "connected" /\ handler' = handler
        BY <1>12, Zenon DEF ChainStateFlushed, PromiseSet, Handling
    <2>2. handler = "entry"
        BY <2>1, Zenon DEF HandlerInv
    <2> QED
        BY <1>2, <2>1, <2>2, Zenon
<1> QED
    BY <1>3, <1>4, <1>5, <1>6, <1>7, <1>8, <1>9, <1>10, <1>11, <1>12, ZenonT(30) DEF Next, SyncThread,
       Handle

-----------------------------------------------------------------------------
(* The callbacks to come                                                    *)

\* Their list.
LEMMA PendingFacts ==
    ASSUME TypeOK
    PROVE  /\ Pending \in Seq(Callback) /\ Added \in Nat /\ Added <= Len(Pending)
           /\ signals = <<>> => Pending = Line(active, queue) /\ Added = Len(Pending)
<1>1. Line(active, queue) \in Seq(Callback) /\ signals \in Seq(Callback)
    BY LineFacts DEF TypeOK
<1>2. /\ Pending \in Seq(Callback) /\ Len(Pending) = Added + Len(signals)
      /\ Added \in Nat /\ Len(signals) \in Nat
    BY <1>1, Parts DEF Pending, Added
<1>3. signals = <<>> => Pending = Line(active, queue)
    BY <1>1, WithNothing, Zenon DEF Pending
<1> QED
    BY <1>2, <1>3 DEF Added

\* A step that runs or adds what was to come, or does nothing to it.
LEMMA SamePending ==
    ASSUME TypeOK
    PROVE  /\ UNCHANGED <<queue, active, signals>> => Pending' = Pending /\ Added' = Added
           /\ Start /\ UNCHANGED signals => Pending' = Pending /\ Added' = Added
           /\ signals # <<>> /\ Add(Head(signals)) /\ signals' = Tail(signals)
                  => Pending' = Pending /\ Added' = Added + 1
<1>1. queue \in Seq(Callback) /\ signals \in Seq(Callback) /\ active \in Callback \cup {Nothing}
    BY DEF TypeOK
<1>2. UNCHANGED <<queue, active, signals>> => Pending' = Pending /\ Added' = Added
    BY Zenon DEF Pending, Added
<1>3. ASSUME Start, UNCHANGED signals PROVE Pending' = Pending /\ Added' = Added
    <2>1. Line(Head(queue), Tail(queue)) = Line(Nothing, queue)
        BY <1>1, <1>3, PendingSame, Zenon DEF Start
    <2> QED
        BY <1>3, <2>1, Zenon DEF Start, Pending, Added
<1>4. ASSUME signals # <<>>, Add(Head(signals)), signals' = Tail(signals)
      PROVE  Pending' = Pending /\ Added' = Added + 1
    <2>1. /\ Line(active, Append(queue, Head(signals))) \o Tail(signals) = Line(active, queue) \o signals
          /\ Len(Line(active, Append(queue, Head(signals)))) = Len(Line(active, queue)) + 1
        BY <1>1, <1>4, PendingSame, Zenon
    <2> QED
        BY <1>4, <2>1, Zenon DEF Add, Pending, Added
<1> QED
    BY <1>2, <1>3, <1>4, Zenon

\* A callback ends.
LEMMA FinishPending ==
    ASSUME TypeOK, Finish, UNCHANGED signals
    PROVE  Popped(Pending, Pending') /\ Pending[1] = active /\ Added' = Added - 1
<1>1. queue \in Seq(Callback) /\ signals \in Seq(Callback) /\ active \in Callback
    BY Zenon DEF TypeOK, Finish
<1>2. /\ Popped(Line(active, queue) \o signals, Line(Nothing, queue) \o signals)
      /\ (Line(active, queue) \o signals)[1] = active
      /\ Len(Line(Nothing, queue)) = Len(Line(active, queue)) - 1
    BY <1>1, PendingPopped, Zenon
<1>3. Pending' = Line(Nothing, queue) \o signals /\ Added' = Len(Line(Nothing, queue))
    BY DEF Finish, Pending, Added
<1> QED
    BY <1>2, <1>3 DEF Pending, Added

\* The one that runs is the first.
LEMMA ActiveFirst ==
    ASSUME TypeOK, active # Nothing
    PROVE  1 \in DOMAIN Pending /\ Pending[1] = active
<1>1. active \in Callback /\ queue \in Seq(Callback) /\ signals \in Seq(Callback)
    BY DEF TypeOK
<1>2. Popped(Pending, Line(Nothing, queue) \o signals) /\ Pending[1] = active
    BY <1>1, PendingPopped DEF Pending
<1>3. Pending \in Seq(Callback)
    BY PendingFacts
<1> QED
    BY <1>2, <1>3 DEF Popped

\* A promise is added.
LEMMA AddPending ==
    ASSUME TypeOK, NEW c \in Callback, Add(c), UNCHANGED signals
    PROVE  Put(Pending, Pending', Added, c) /\ Added' = Added + 1
<1>1. queue \in Seq(Callback) /\ signals \in Seq(Callback) /\ active \in Callback \cup {Nothing}
    BY DEF TypeOK
<1>2. /\ Put(Line(active, queue) \o signals, Line(active, Append(queue, c)) \o signals,
             Len(Line(active, queue)), c)
      /\ Len(Line(active, Append(queue, c))) = Len(Line(active, queue)) + 1
    BY <1>1, PendingPut, Zenon
<1>3. Pending' = Line(active, Append(queue, c)) \o signals /\ Added' = Len(Line(active, Append(queue, c)))
    BY DEF Add, Pending, Added
<1> QED
    BY <1>2, <1>3, Zenon DEF Pending, Added

\* The flushed tip is signalled.
LEMMA FlushPending ==
    ASSUME TypeOK, FlushStateToDisk
    PROVE  /\ Put(Pending, Pending', Len(Pending), Flushed(tip)) /\ Added' = Added
           /\ ~IsBlock(Flushed(tip)) /\ ~IsPromise(Flushed(tip))
<1>1. signals = <<>> /\ UNCHANGED <<queue, active>> /\ signals' = <<Flushed(tip)>> /\ tip # None
    BY DEF FlushStateToDisk, CsMainFree, ValidationBusy, queueVars
<1>2. Flushed(tip) \in Callback
    BY <1>1, CallbackAssumption DEF TypeOK, Flushed
<1>3. Pending = Line(active, queue) /\ Pending \in Seq(Callback)
    BY <1>1, PendingFacts
<1>4. Put(Pending, Pending \o <<Flushed(tip)>>, Len(Pending), Flushed(tip))
    BY <1>2, <1>3, PendingPutLast, Zenon
<1>5. Pending' = Pending \o <<Flushed(tip)>> /\ Added' = Added
    <2>1. Pending' = Line(active, queue) \o <<Flushed(tip)>> /\ Added' = Added
        BY <1>1 DEF Pending, Added
    <2> QED
        BY <1>3, <2>1
<1>6. ~IsBlock(Flushed(tip)) /\ ~IsPromise(Flushed(tip))
    BY DEF IsBlock, IsPromise, Flushed, Promise
<1> QED
    BY <1>4, <1>5, <1>6

\* The blocks up to a new tip are signalled.
LEMMA MovePending ==
    ASSUME TypeOK, NEW t \in Block, MoveTip(t)
    PROVE  /\ Longer(Pending, Pending', ConnectedUpTo(t)) /\ Added' = Added
           /\ IF tip = None THEN t = Genesis ELSE Height[t] = Height[tip] + 1
<1>1. /\ signals = <<>> /\ UNCHANGED <<queue, active>> /\ signals' = ConnectedUpTo(t)
      /\ IF tip = None THEN t = Genesis ELSE Height[t] = Height[tip] + 1
    BY ZenonT(30) DEF MoveTip, MayMove, CsMainFree, ValidationBusy, queueVars
<1>2. ConnectedUpTo(t) \in Seq(Callback)
    BY <1>1, ConnectedFacts, ZenonT(30) DEF TypeOK
<1>3. Line(active, queue) \in Seq(Callback)
    BY LineFacts DEF TypeOK
<1>4. Longer(Line(active, queue) \o <<>>, Line(active, queue) \o ConnectedUpTo(t), ConnectedUpTo(t))
    BY <1>2, <1>3, PendingLonger, Zenon
<1>5. /\ Pending = Line(active, queue) \o <<>> /\ Pending' = Line(active, queue) \o ConnectedUpTo(t)
      /\ Added' = Added
    BY <1>1, Zenon DEF Pending, Added
<1> QED
    BY <1>1, <1>4, <1>5

\* A restart forgets them.
LEMMA RestartPending ==
    ASSUME Restart
    PROVE  Pending' = <<>>
<1>1. active' = Nothing /\ queue' = <<>> /\ signals' = <<>>
    BY DEF Restart, Reset
<1>2. <<>> \in Seq(Callback) /\ Line(Nothing, <<>>) = <<>> \o <<>>
    BY DEF Line
<1>3. <<>> \o <<>> = <<>>
    BY <1>2, WithNothing
<1> QED
    BY <1>1, <1>2, <1>3, Zenon DEF Pending

\* After a restart the index is at the tip, or not synchronised.
LEMMA RestartFollow ==
    ASSUME TypeOK, Restart
    PROVE  FollowInv'
<1> DEFINE f == ForkWith(locator, flushed)
<1>1. /\ f \in Block \cup {None} /\ (flushed = None => f = None) /\ flushed \in Block \cup {None}
    BY ForkFacts DEF TypeOK
<1> HIDE DEF f
<1>2. /\ tip' = flushed /\ best' = f /\ pindex' = f /\ synced' = (f = flushed)
      /\ place' = IF f = flushed THEN "ended" ELSE "top"
    BY DEF Restart, StartIndex, f
<1>3. Pending' = <<>>
    BY RestartPending, Zenon
<1>4. Ordered(<<>>, flushed) /\ NoBlocks(<<>>)
    BY DEF Ordered, NoBlocks
<1>5. f = flushed /\ flushed # None => Follows(<<>>, flushed, f)
    BY <1>1, AncOfFacts DEF Follows
<1> QED
    BY <1>1, <1>2, <1>3, <1>4, <1>5, Zenon DEF FollowInv

\* Every step leaves the index on its way to the tip.
LEMMA FollowStep ==
    ASSUME TypeOK, TypeOK', MissInv, HandlerInv, FollowInv, Next
    PROVE  FollowInv'
<1> USE DEF queueVars, chainVars, indexVars, diskVars, callerVars, chainUnchanged, syncUnchanged
<1> DEFINE P == Pending
           Q == Pending'
<1>0. /\ P \in Seq(Callback) /\ Q \in Seq(Callback) /\ Added \in Nat /\ Added <= Len(P)
      /\ best \in Block \cup {None} /\ tip \in Block \cup {None} /\ None \notin Block
      /\ Ordered(P, tip) /\ synced \in BOOLEAN
    <2>1. Q \in Seq(Callback)
        <3>1. Line(active', queue') \in Seq(Callback) /\ signals' \in Seq(Callback)
            BY LineFacts DEF TypeOK
        <3> QED
            BY <3>1, Parts, Zenon DEF Pending
    <2> QED
        BY <2>1, PendingFacts, TreeAssumption, Zenon DEF TypeOK, FollowInv
<1> HIDE DEF P, Q
<1>1. CASE P = Q /\ UNCHANGED <<tip, best, pindex, place, synced>>
    BY <1>1, Zenon DEF FollowInv, P, Q
<1>2. CASE Run \/ Signal
    BY <1>1, <1>2, SamePending, ZenonT(30) DEF Run, Signal, P, Q
<1>3. CASE AnswerAtOnce \/ AskWaits \/ Interrupt \/ RewindCommit \/ WriteBlock
    BY <1>1, <1>3, SamePending DEF AnswerAtOnce, AskWaits, Interrupt, RewindCommit, WriteBlock, P, Q
<1>4. CASE CommitSynced \/ CommitStopped
    <2>1. tip # None /\ P = Q /\ UNCHANGED <<tip, best, synced>>
        BY <1>4, SamePending DEF CommitSynced, CommitStopped, FollowInv, P, Q
    <2> QED
        BY <2>1, Zenon DEF FollowInv, P, Q
<1>5. CASE SyncNext \/ SyncRewind \/ SyncTimer \/ SyncCommit \/ SyncWrite \/ SyncStops
    <2>1. ~synced /\ tip # None
        BY <1>5, Zenon DEF SyncNext, SyncRewind, SyncTimer, SyncCommit, SyncWrite, SyncStops,
           FollowInv, MissInv
    <2>2. P = Q /\ tip' = tip /\ synced' = synced
        BY <1>5, SamePending, Zenon DEF SyncNext, SyncRewind, SyncTimer, SyncCommit, SyncWrite,
           SyncStops, P, Q
    <2> QED
        BY <1>0, <2>1, <2>2, Zenon DEF FollowInv, P, Q
<1>6. CASE CaughtUp
    <2>1. tip \in Block /\ tip \in AncOf(pindex)
        BY <1>6, NextTyped, Zenon DEF CaughtUp
    <2>2. P = Q /\ tip' = tip /\ best' = pindex
        BY <1>6, SamePending, Zenon DEF CaughtUp, P, Q
    <2>3. Follows(P, tip, pindex)
        BY <2>1, Zenon DEF Follows
    <2> QED
        BY <1>0, <2>1, <2>2, <2>3, Zenon DEF FollowInv, P, Q
<1>7. CASE RewindAsserts \/ Crash \/ Shutdown
    BY <1>7, RestartFollow, Zenon DEF RewindAsserts, Crash, Shutdown
<1>8. ASSUME NEW c, NEW n \in Nat, Put(P, Q, n, c), Added <= n, ~IsBlock(c),
             UNCHANGED <<tip, best, pindex, place, synced>>
      PROVE  FollowInv'
    <2>1. Ordered(Q, tip)
        BY <1>0, <1>8, PutOrder, Zenon
    <2>2. /\ Follows(P, tip, best) => Follows(Q, tip, best)
          /\ NoBlocks(P) => NoBlocks(Q)
        BY <1>0, <1>8, PutRest, Zenon
    <2> QED
        BY <1>8, <2>1, <2>2, Zenon DEF FollowInv, P, Q
<1>9. CASE DrainQueue \/ SyncWithQueue
    <2>1. PICK c \in {Promise(Validation), Promise(Caller)} : Add(c)
        BY <1>9, Zenon DEF DrainQueue, SyncWithQueue
    <2>2. c \in Callback /\ ~IsBlock(c)
        BY CallbackAssumption DEF Promise, IsBlock
    <2>3. UNCHANGED <<signals, tip, best, pindex, place, synced>>
        BY <1>9, Zenon DEF DrainQueue, SyncWithQueue
    <2>4. Put(P, Q, Added, c)
        BY <2>1, <2>2, <2>3, AddPending, Zenon DEF P, Q
    <2> QED
        BY <1>0, <1>8, <2>2, <2>3, <2>4, SMTT(30)
<1>10. CASE FlushStateToDisk
    <2>1. Put(P, Q, Len(P), Flushed(tip)) /\ ~IsBlock(Flushed(tip))
        BY <1>10, FlushPending DEF P, Q
    <2>2. UNCHANGED <<tip, best, pindex, place, synced>> /\ Len(P) \in Nat
        BY <1>0, <1>10 DEF FlushStateToDisk
    <2> QED
        BY <1>0, <1>8, <2>1, <2>2
<1>11. ASSUME NEW t \in Block, MoveTip(t) PROVE FollowInv'
    <2>1. /\ Longer(P, Q, ConnectedUpTo(t))
          /\ IF tip = None THEN t = Genesis ELSE Height[t] = Height[tip] + 1
        BY <1>11, MovePending, Zenon DEF P, Q
    <2>2. tip = None => NoBlocks(P) /\ best = None
        BY Zenon DEF FollowInv, P
    <2>3. Ordered(Q, t)
        BY <1>0, <2>1, <2>2, LongerOrder, Zenon
    <2>4. /\ tip = None /\ best = None => Follows(Q, t, best)
          /\ tip # None /\ Follows(P, tip, best) => Follows(Q, t, best)
        BY <1>0, <2>1, LongerRest, ZenonT(30)
    <2>5. synced => Follows(Q, t, best)
        BY <2>2, <2>4, Zenon DEF FollowInv, P
    <2>6. tip' = t /\ UNCHANGED <<best, synced>> /\ t # None
        BY <1>0, <1>11, Zenon DEF MoveTip
    <2> QED
        BY <2>3, <2>5, <2>6 DEF FollowInv, Q
<1>12. CASE DisconnectTip
    <2>1. tip \in Block /\ tip # Genesis /\ tip # None /\ tip' = Prev[tip] /\ UNCHANGED <<best, synced>>
        BY <1>0, <1>12, Zenon DEF DisconnectTip
    <2>2. P = Q
        BY <1>12, SamePending, Zenon DEF DisconnectTip, P, Q
    <2>3. /\ Prev[tip] \in Block /\ Ordered(P, Prev[tip])
          /\ Follows(P, tip, best) => Follows(P, Prev[tip], best)
        BY <1>0, <2>1, Lowered, Zenon
    <2> QED
        BY <1>0, <2>1, <2>2, <2>3, Zenon DEF FollowInv, P, Q
<1>13. ASSUME Finish, ~(synced /\ IsBlock(active) /\ Fits(best, active)),
              UNCHANGED <<signals, tip, best, pindex, place, synced>>
       PROVE  FollowInv'
    <2>1. Popped(P, Q) /\ P[1] = active
        BY <1>13, FinishPending, Zenon DEF P, Q
    <2>2. Ordered(Q, tip)
        BY <1>0, <2>1, PoppedOrder, Zenon
    <2>3. NoBlocks(P) => NoBlocks(Q)
        BY <1>0, <2>1, PoppedBlocks, Zenon
    <2>4. synced => (Follows(P, tip, best) => Follows(Q, tip, best))
        BY <1>0, <1>13, <2>1, PoppedOther, Zenon
    <2> QED
        BY <1>13, <2>2, <2>3, <2>4, Zenon DEF FollowInv, P, Q
<1>14. CASE BlockConnectedIgnored
    <2>1. /\ Finish /\ ~(synced /\ Fits(best, active))
          /\ UNCHANGED <<signals, tip, best, pindex, place, synced>>
        BY <1>14, Zenon DEF BlockConnectedIgnored, Applies, Fits
    <2> QED
        BY <1>13, <2>1, Zenon
<1>15. CASE ChainStateFlushed \/ PromiseSet
    <2>1. /\ Finish /\ ~IsBlock(active)
          /\ UNCHANGED <<signals, tip, best, pindex, place, synced>>
        BY <1>15, Zenon DEF ChainStateFlushed, PromiseSet, Handling, IsBlock
    <2> QED
        BY <1>13, <2>1, Zenon
<1>16. CASE SetBest
    <2>1. /\ Finish /\ IsBlock(active) /\ best' = active.block
          /\ UNCHANGED <<signals, tip, synced>>
        BY <1>16, Zenon DEF SetBest, Handling, IsBlock
    <2>2. Popped(P, Q) /\ P[1] = active
        BY <2>1, FinishPending, ZenonT(30) DEF P, Q
    <2>3. 1 \in DOMAIN P /\ tip # None
        BY <1>0, <2>1, <2>2 DEF Popped, FollowInv, NoBlocks, P
    <2>4. active.block \in Block
        BY <1>0, <2>1, <2>2, <2>3, BlockOf, Zenon
    <2>5. Follows(Q, tip, active.block)
        BY <1>0, <2>1, <2>2, <2>4, PoppedBlock, Zenon
    <2>6. Ordered(Q, tip)
        BY <1>0, <2>2, PoppedOrder, Zenon
    <2> QED
        BY <2>1, <2>3, <2>5, <2>6, Zenon DEF FollowInv, Q
<1>17. CASE BlockConnected
    <2>1. /\ active # Nothing /\ IsBlock(active) /\ best' = ParentOf(active.block)
          /\ UNCHANGED <<signals, queue, active, tip, synced>>
        BY <1>17, Zenon DEF BlockConnected, Handling, IsBlock
    <2>2. P = Q
        BY <2>1, SamePending, Zenon DEF P, Q
    <2>3. 1 \in DOMAIN P /\ P[1] = active
        BY <2>1, ActiveFirst, Zenon DEF P
    <2>4. tip # None
        BY <2>1, <2>3, Zenon DEF FollowInv, NoBlocks, P
    <2>5. active.block \in Block
        BY <1>0, <2>1, <2>3, BlockOf, Zenon
    <2>6. Fits(ParentOf(active.block), active)
        BY <1>0, <2>5, ParentFacts, AncOfFacts, Zenon DEF Fits
    <2>7. Follows(P, tip, ParentOf(active.block))
        BY <2>1, <2>3, <2>6, Zenon DEF Follows
    <2> QED
        BY <1>0, <2>1, <2>2, <2>4, <2>7, Zenon DEF FollowInv, P, Q
<1> QED
    BY <1>2, <1>3, <1>4, <1>5, <1>6, <1>7, <1>9, <1>10, <1>11, <1>12, <1>14, <1>15, <1>16, <1>17,
       ZenonT(30)
       
    DEF Next, SyncThread, Handle

-----------------------------------------------------------------------------
(* The promise to the caller                                                *)

\* More callbacks to look at.
LEMMA WaitedMore ==
    ASSUME NEW P \in Seq(Callback), NEW m \in Nat, NEW n \in Nat, m <= n, NEW t, NEW b, Waited(P, m, t, b)
    PROVE  Waited(P, n, t, b)
<1>1. \A i \in DOMAIN P : i \in Nat
    OBVIOUS
<1> QED
    BY <1>1 DEF Waited

\* Every step leaves the caller with a block to wait for, or the index has what the
\* caller waits for.
LEMMA PromiseStep ==
    ASSUME TypeOK, TypeOK', MissInv, MissInv', HandlerInv, FollowInv, PromiseInv, Next
    PROVE  PromiseInv'
<1> USE DEF queueVars, chainVars, indexVars, diskVars, callerVars, chainUnchanged, syncUnchanged
<1> DEFINE P == Pending
           Q == Pending'
<1>0. /\ P \in Seq(Callback) /\ Q \in Seq(Callback) /\ Added \in Nat /\ Added <= Len(P) /\ Added' \in Nat
      /\ {best, tip, goal, answer, best', goal', answer'} \subseteq Block \cup {None} /\ None \notin Block
      /\ Ordered(P, tip) /\ crashes' \in Nat /\ blind' \in BOOLEAN
    <2>1. Q \in Seq(Callback) /\ Added' \in Nat
        <3>1. Line(active', queue') \in Seq(Callback) /\ signals' \in Seq(Callback)
            BY LineFacts, Zenon DEF TypeOK
        <3> QED
            BY <3>1, Parts, Zenon DEF Pending, Added
    <2>2. {best, tip, goal, answer, best', goal', answer'} \subseteq Block \cup {None}
        BY Zenon DEF TypeOK
    <2>3. crashes' \in Nat /\ blind' \in BOOLEAN
        BY Zenon DEF TypeOK
    <2>4. P \in Seq(Callback) /\ Added \in Nat /\ Added <= Len(P)
        BY PendingFacts, Zenon
    <2>5. Ordered(P, tip) /\ None \notin Block
        BY TreeAssumption, Zenon DEF FollowInv
    <2> QED
        BY <2>1, <2>2, <2>3, <2>4, <2>5, Zenon
<1> HIDE DEF P, Q
\* What the step must give: the blocks are kept, and what was waited for is
\* there or still waited for.
<1>1. ASSUME Keeps, UNCHANGED <<goal, waits, answer, synced>>,
             NoPromise(P) => NoPromise(Q), OnePromise(P) => OnePromise(Q),
             synced /\ goal # None /\ Waited(P, Added, goal, best) =>
                Holds(blind', written', crashes', goal) \/ Waited(Q, Added', goal, best')
      PROVE  PromiseInv'
    <2>1. Holds(blind', written', crashes', answer)
        BY <1>0, <1>1, Zenon DEF Keeps, PromiseInv, Has
    <2>2. Has(goal) => Holds(blind', written', crashes', goal)
        BY <1>0, <1>1, Zenon DEF Keeps, Has
    <2>3. goal # None => synced /\ (Has(goal) \/ Waited(P, Added, goal, best))
        BY Zenon DEF PromiseInv, P
    <2>4. goal' # None => synced' /\ (Has(goal)' \/ Waited(Q, Added', goal', best'))
        BY <1>1, <2>2, <2>3, Zenon DEF Has
    <2>5. (goal' = None => Caller \notin waits') /\ (Caller \notin waits' => NoPromise(Q)) /\ OnePromise(Q)
        BY <1>1, Zenon DEF PromiseInv, P
    <2> QED
        BY <1>1, <2>1, <2>4, <2>5, Zenon DEF PromiseInv, Has, Q
<1>2. ASSUME Keeps, UNCHANGED <<goal, waits, answer, synced>>, P = Q, Added' \in {Added, Added + 1},
             best' = best \/ ~synced
      PROVE  PromiseInv'
    <2>1. Waited(P, Added, goal, best) => Waited(P, Added', goal, best)
        BY <1>0, <1>2, WaitedMore
    <2> QED
        BY <1>1, <1>2, <2>1, Zenon
<1>3. CASE Run \/ Signal \/ Interrupt \/ DisconnectTip
    <2>1. P = Q /\ Added' \in {Added, Added + 1}
        BY <1>3, SamePending, Zenon DEF Run, Signal, Interrupt, DisconnectTip, P, Q
    <2>2. UNCHANGED <<goal, waits, answer, synced, best, written, crashes, blind>>
        BY <1>3, Zenon DEF Run, Signal, Interrupt, DisconnectTip
    <2>3. Keeps
        BY <2>2, KeepsFacts, Zenon
    <2> QED
        BY <1>2, <2>1, <2>2, <2>3, Zenon
<1>4. CASE CaughtUp \/ SyncRewind \/ SyncTimer \/ SyncStops
    <2>1. ~synced
        BY <1>4 DEF CaughtUp, SyncRewind, SyncTimer, SyncStops, MissInv
    <2>2. /\ UNCHANGED <<queue, active, signals, goal, waits, answer, crashes, written>>
          /\ blind => blind'
        <3>1. CASE SyncRewind
            BY <3>1, Zenon DEF SyncRewind, Commit
        <3>2. CASE CaughtUp \/ SyncTimer \/ SyncStops
            BY <3>2 DEF CaughtUp, SyncTimer, SyncStops
        <3> QED
            BY <1>4, <3>1, <3>2
    <2>3. Keeps /\ P = Q
        BY <2>2, KeepsFacts, SamePending, Zenon DEF P, Q
    <2>4. goal = None
        BY <2>1, Zenon DEF PromiseInv
    <2>5. Holds(blind', written', crashes', answer)
        BY <1>0, <2>3, Zenon DEF Keeps, PromiseInv, Has
    <2> QED
        BY <2>2, <2>3, <2>4, <2>5, ZenonT(30) DEF PromiseInv, Has, P, Q
<1>5. CASE CommitSynced \/ SyncNext \/ SyncCommit \/ SyncWrite \/ CommitStopped \/ RewindCommit \/ WriteBlock
    <2>1. P = Q /\ Added' = Added
        BY <1>5, SamePending, Zenon DEF CommitSynced, SyncNext, SyncCommit, SyncWrite,
           CommitStopped, RewindCommit, WriteBlock, P, Q
    <2>2. UNCHANGED <<goal, waits, answer, synced, best, crashes>>
        BY <1>5, Zenon DEF CommitSynced, SyncNext, SyncCommit, SyncWrite, CommitStopped,
           RewindCommit, WriteBlock
    <2>3. written \subseteq written' /\ (blind => blind')
        <3>1. CASE SyncNext \/ SyncWrite \/ WriteBlock
            BY <3>1 DEF SyncNext, SyncWrite, WriteBlock
        <3>2. CASE Commit(best)
            BY <3>2, ZenonT(30) DEF Commit
        <3> QED
            BY <1>5, <3>1, <3>2, ZenonT(30) DEF CommitSynced, SyncCommit, CommitStopped, RewindCommit
    <2>4. Keeps
        BY <2>2, <2>3, KeepsFacts, Zenon
    <2> QED
        BY <1>2, <2>1, <2>2, <2>4, Zenon
<1>6. CASE RewindAsserts \/ Crash \/ Shutdown
    <2>1. Restart
        BY <1>6, Zenon DEF RewindAsserts, Crash, Shutdown
    <2>2. Q = <<>> /\ waits' = {} /\ goal' = None /\ answer' = None
        BY <2>1, RestartPending, Zenon DEF Restart, Q
    <2>3. Holds(blind', written', crashes', None)
        BY <1>0, BlindHolds, ZenonT(30)
    <2> QED
        BY <2>2, <2>3 DEF PromiseInv, Has, NoPromise, OnePromise, Q
<1>7. ASSUME NEW t \in Block, MoveTip(t) PROVE PromiseInv'
    <2>1. /\ Longer(P, Q, ConnectedUpTo(t)) /\ Added' = Added
          /\ IF tip = None THEN t = Genesis ELSE Height[t] = Height[tip] + 1
        BY <1>7, MovePending, Zenon DEF P, Q
    <2>2. UNCHANGED <<goal, waits, answer, synced, best, written, crashes, blind>>
        BY <1>7, Zenon DEF MoveTip
    <2>3. Keeps
        BY <2>2, KeepsFacts, Zenon
    <2>4. /\ Waited(P, Added, goal, best) => Waited(Q, Added, goal, best)
          /\ NoPromise(P) => NoPromise(Q)
          /\ OnePromise(P) => OnePromise(Q)
        BY <1>0, <2>1, LongerRest, Zenon
    <2> QED
        BY <1>1, <2>1, <2>2, <2>3, <2>4, Zenon
<1>8. CASE FlushStateToDisk
    <2>1. Put(P, Q, Len(P), Flushed(tip)) /\ ~IsPromise(Flushed(tip)) /\ Added' = Added /\ Len(P) \in Nat
        BY <1>0, <1>8, FlushPending DEF P, Q
    <2>2. UNCHANGED <<goal, waits, answer, synced, best, written, crashes, blind>>
        BY <1>8, Zenon DEF FlushStateToDisk
    <2>3. Keeps
        BY <2>2, KeepsFacts, Zenon
    <2>4. /\ Waited(P, Added, goal, best) => Waited(Q, Added, goal, best)
          /\ NoPromise(P) => NoPromise(Q)
          /\ OnePromise(P) => OnePromise(Q)
        BY <1>0, <2>1, PutRest, Zenon
    <2> QED
        BY <1>1, <2>1, <2>2, <2>3, <2>4, ZenonT(30)
<1>9. CASE DrainQueue
    <2>1. Promise(Validation) \in Callback /\ ~IsPromise(Promise(Validation))
        BY CallbackAssumption, Zenon DEF Promise, IsPromise
    <2>2. Put(P, Q, Added, Promise(Validation)) /\ Added' = Added + 1
        BY <1>9, <2>1, AddPending, Zenon DEF DrainQueue, P, Q
    <2>3. UNCHANGED <<goal, answer, synced, best, written, crashes, blind>> /\ waits' = waits \cup {Validation}
        BY <1>9, Zenon DEF DrainQueue
    <2>4. Keeps
        BY <2>3, KeepsFacts, Zenon
    <2>5. /\ Waited(P, Added, goal, best) => Waited(Q, Added, goal, best)
          /\ NoPromise(P) => NoPromise(Q)
          /\ OnePromise(P) => OnePromise(Q)
        <3>1. Added <= Added
            BY <1>0
        <3> QED
            BY <1>0, <2>1, <2>2, <3>1, PutRest, Zenon
    <2>6. Waited(P, Added, goal, best) => Waited(Q, Added', goal, best)
        BY <1>0, <2>2, <2>5, WaitedMore, SMTT(30)
    <2>7. Holds(blind', written', crashes', answer)
        BY <1>0, <2>4, Zenon DEF Keeps, PromiseInv, Has
    <2>8. goal # None => synced /\ (Holds(blind', written', crashes', goal) \/ Waited(Q, Added', goal, best))
        BY <1>0, <2>4, <2>6, Zenon DEF Keeps, PromiseInv, Has, P
    <2>9. (goal = None => Caller \notin waits') /\ (Caller \notin waits' => NoPromise(Q)) /\ OnePromise(Q)
        BY <2>3, <2>5, CallbackAssumption, Zenon DEF PromiseInv, P
    <2> QED
        BY <2>3, <2>7, <2>8, <2>9, Zenon DEF PromiseInv, Has, Q
<1>10. CASE SyncWithQueue
    <2>1. Promise(Caller) \in Callback
        BY CallbackAssumption, Zenon DEF Promise
    <2>2. Put(P, Q, Added, Promise(Caller)) /\ Added' = Added + 1
        BY <1>10, <2>1, AddPending, Zenon DEF SyncWithQueue, P, Q
    <2>3. /\ UNCHANGED <<goal, answer, synced, best, written, crashes, blind>> /\ waits' = waits \cup {Caller}
          /\ goal # None /\ Caller \notin waits
        BY <1>10, Zenon DEF SyncWithQueue
    <2>4. NoPromise(P)
        BY <2>3, Zenon DEF PromiseInv, P
    <2>5. /\ Waited(P, Added, goal, best) => Waited(Q, Added, goal, best)
          /\ OnePromise(Q)
        <3>1. Added <= Added
            BY <1>0
        <3> QED
            BY <1>0, <2>2, <2>4, <3>1, PutRest, Zenon
    <2>6. Waited(P, Added, goal, best) => Waited(Q, Added', goal, best)
        BY <1>0, <2>2, <2>5, WaitedMore, SMTT(30)
    <2>7. synced /\ (Has(goal) \/ Waited(P, Added, goal, best)) /\ Has(answer)
        BY <2>3, Zenon DEF PromiseInv, P
    <2> QED
        BY <2>3, <2>5, <2>6, <2>7, Zenon DEF PromiseInv, Has, Q
<1>11. ASSUME Finish, UNCHANGED <<signals, best, synced>>, ~(synced /\ IsBlock(active) /\ Fits(best, active))
       PROVE  /\ synced /\ Waited(P, Added, goal, best) => Waited(Q, Added', goal, best)
              /\ (NoPromise(P) => NoPromise(Q)) /\ OnePromise(Q)
              /\ Popped(P, Q) /\ P[1] = active /\ (IsPromise(active) => NoPromise(Q))
    <2>1. Popped(P, Q) /\ P[1] = active /\ Added' = Added - 1
        BY <1>11, FinishPending, Zenon DEF P, Q
    <2>2. OnePromise(P)
        BY Zenon DEF PromiseInv, P
    <2>3. OnePromise(Q) /\ (NoPromise(P) \/ IsPromise(P[1]) => NoPromise(Q))
        BY <1>0, <2>1, <2>2, PoppedPromise, Zenon
    <2>4. synced /\ Waited(P, Added, goal, best) => Waited(Q, Added', goal, best)
        BY <1>0, <1>11, <2>1, PoppedOther, Zenon
    <2> QED
        BY <2>1, <2>3, <2>4, Zenon
<1>12. CASE BlockConnectedIgnored
    <2>1. /\ Finish /\ ~(synced /\ IsBlock(active) /\ Fits(best, active))
          /\ UNCHANGED <<signals, goal, waits, answer, synced, best, written, crashes, blind>>
        BY <1>12, Zenon DEF BlockConnectedIgnored, Applies, Fits
    <2>2. Keeps
        BY <2>1, KeepsFacts, Zenon
    <2> QED
        BY <1>1, <1>11, <2>1, <2>2, Zenon
<1>13. CASE ChainStateFlushed
    <2>1. /\ Finish /\ ~IsBlock(active)
          /\ UNCHANGED <<signals, goal, waits, answer, synced, best, crashes, written>> /\ (blind => blind')
        BY <1>13, Zenon DEF ChainStateFlushed, Handling, IsBlock, Commit
    <2>2. Keeps
        BY <2>1, KeepsFacts, Zenon
    <2> QED
        BY <1>1, <1>11, <2>1, <2>2, Zenon
<1>14. CASE PromiseSet
    <2>1. /\ Finish /\ ~IsBlock(active) /\ active.type = "promise" /\ active # Nothing
          /\ UNCHANGED <<signals, synced, best, crashes, written, blind>>
          /\ waits' = waits \ {active.to}
        BY <1>14, Zenon DEF PromiseSet, Handling, IsBlock
    <2>2. Keeps
        BY <2>1, KeepsFacts, Zenon
    <2>3. active.to \in {Validation, Caller} /\ active = Promise(active.to)
        BY <2>1, ActiveTyped, Zenon
    <2>4. CASE active.to = Caller
        <3>1. IsPromise(active) /\ answer' = goal /\ goal' = None
            BY <1>14, <2>3, <2>4, Zenon DEF PromiseSet, IsPromise
        <3>2. NoPromise(Q) /\ OnePromise(Q) /\ 1 \in DOMAIN P /\ P[1] = active
            BY <1>11, <2>1, <3>1, ActiveFirst, Zenon DEF P
        <3>3. ~Waited(P, Added, goal, best)
            <4>1. \A i \in DOMAIN P : ~(i < 1)
                BY <1>0
            <4> QED
                BY <3>1, <3>2, <4>1, Zenon DEF Waited
        <3>4. Holds(blind', written', crashes', goal)
            <4>1. CASE goal = None
                BY <1>0, <4>1, BlindHolds, Zenon
            <4>2. CASE goal # None
                BY <1>0, <2>2, <3>3, <4>2, Zenon DEF PromiseInv, Keeps, Has, P
            <4> QED
                BY <4>1, <4>2, Zenon
        <3> QED
            BY <2>1, <2>4, <3>1, <3>2, <3>4, Zenon DEF PromiseInv, Has, Q
    <2>5. CASE active.to = Validation
        <3>1. UNCHANGED <<answer, goal>> /\ waits' = waits \ {Validation} /\ Validation # Caller
            BY <1>14, <2>1, <2>5, CallbackAssumption, ZenonT(30) DEF PromiseSet
        <3>2. /\ synced /\ Waited(P, Added, goal, best) => Waited(Q, Added', goal, best)
              /\ (NoPromise(P) => NoPromise(Q)) /\ OnePromise(Q)
            BY <1>11, <2>1, Zenon
        <3>3. Holds(blind', written', crashes', answer)
            BY <1>0, <2>2, Zenon DEF Keeps, PromiseInv, Has
        <3>4. goal # None => synced /\ (Holds(blind', written', crashes', goal) \/ Waited(Q, Added', goal, best))
            BY <1>0, <2>2, <3>2, Zenon DEF Keeps, PromiseInv, Has, P
        <3>5. (goal = None => Caller \notin waits') /\ (Caller \notin waits' => NoPromise(Q))
            BY <3>1, <3>2, Zenon DEF PromiseInv, P
        <3> QED
            BY <2>1, <3>1, <3>2, <3>3, <3>4, <3>5, Zenon DEF PromiseInv, Has, Q
    <2> QED
        BY <2>3, <2>4, <2>5, Zenon
<1>15. CASE SetBest
    <2>1. /\ Finish /\ IsBlock(active) /\ best' = active.block
          /\ UNCHANGED <<signals, goal, waits, answer, synced, crashes, written, blind>>
        BY <1>15, Zenon DEF SetBest, Handling, IsBlock
    <2>2. Keeps
        BY <2>1, KeepsFacts, Zenon
    <2>3. Popped(P, Q) /\ P[1] = active /\ Added' = Added - 1
        BY <2>1, FinishPending, Zenon DEF P, Q
    <2>4. active.block \in Block
        BY <1>15, ActiveTyped, Zenon DEF SetBest, Handling
    <2>5. Waited(P, Added, goal, best) => goal \in AncOf(active.block) \/ Waited(Q, Added', goal, active.block)
        BY <1>0, <2>1, <2>3, <2>4, PoppedBlock, Zenon
    <2>6. OnePromise(P)
        BY Zenon DEF PromiseInv, P
    <2>7. OnePromise(Q) /\ (NoPromise(P) => NoPromise(Q))
        BY <1>0, <2>3, <2>6, PoppedPromise, ZenonT(30)
    <2>8. synced /\ goal \in AncOf(active.block) => Holds(blind', written', crashes', goal)
        <3>1. synced => Holds(blind', written', crashes', active.block)
            BY <2>1, Zenon DEF MissInv, Has
        <3>2. goal \in AncOf(active.block) => AncOf(goal) \subseteq AncOf(active.block)
            BY <2>4, AncOfFacts, Zenon
        <3> QED
            BY <1>0, <2>4, <3>1, <3>2, HoldsBelow, ZenonT(30)
    <2> QED
        BY <1>1, <2>1, <2>2, <2>5, <2>7, <2>8, Zenon
<1>16. CASE BlockConnected
    <2>1. /\ active # Nothing /\ IsBlock(active) /\ best' = ParentOf(active.block)
          /\ UNCHANGED <<signals, queue, active, goal, waits, answer, synced, crashes, written, blind>>
        BY <1>16, Zenon DEF BlockConnected, Handling, IsBlock
    <2>2. Keeps
        BY <2>1, KeepsFacts, Zenon
    <2>3. P = Q /\ Added' = Added /\ 1 \in DOMAIN P /\ P[1] = active
        BY <2>1, SamePending, ActiveFirst, Zenon DEF P, Q
    <2>4. active.block \in Block
        BY <1>0, <2>1, <2>3, BlockOf, Zenon
    <2>5. Fits(ParentOf(active.block), active)
        BY <1>0, <2>4, ParentFacts, AncOfFacts, Zenon DEF Fits
    <2>6. Waited(P, Added, goal, best) => Waited(P, Added, goal, ParentOf(active.block))
        <3>1. \A i \in DOMAIN P : 1 <= i
            BY <1>0
        <3> QED
            BY <2>1, <2>3, <2>5, <3>1, Zenon DEF Waited
    <2> QED
        BY <1>1, <2>1, <2>2, <2>3, <2>6, Zenon
<1>17. CASE AnswerAtOnce
    <2>1. /\ synced /\ tip \in AncOf(best) /\ answer' = tip
          /\ UNCHANGED <<goal, waits, synced, best, written, crashes, blind, signals, queue, active>>
        BY <1>17, Zenon DEF AnswerAtOnce, Asks, HasPassedTip
    <2>2. Has(best) /\ AncOf(tip) \subseteq AncOf(best)
        BY <1>0, <2>1, AncOfFacts, Zenon DEF MissInv
    <2>3. Keeps
        BY <2>1, KeepsFacts, Zenon
    <2>4. Holds(blind', written', crashes', tip)
        BY <1>0, <2>2, <2>3, Zenon DEF Keeps, Has
    <2>5. P = Q /\ Added' = Added
        BY <2>1, SamePending, Zenon DEF P, Q
    <2> QED
        BY <2>1, <2>4, <2>5, Zenon DEF PromiseInv, Has, P, Q
<1>18. CASE AskWaits
    <2>1. /\ synced /\ tip \notin AncOf(best) /\ goal' = tip /\ goal = None /\ best # None /\ signals = <<>>
          /\ UNCHANGED <<answer, waits, synced, best, written, crashes, blind, signals, queue, active>>
        BY <1>18, Zenon DEF AskWaits, Asks, HasPassedTip, CsMainFree, ValidationBusy
    <2>2. NoPromise(P) /\ Caller \notin waits
        BY <2>1, Zenon DEF PromiseInv, P
    <2>3. tip # None /\ Follows(P, tip, best)
        BY <2>1, Zenon DEF FollowInv, P
    <2>4. PICK j \in DOMAIN P : IsBlock(P[j]) /\ Fits(best, P[j])
        BY <2>1, <2>3, Zenon DEF Follows
    <2>5. PICK l \in DOMAIN P : j <= l /\ IsBlock(P[l]) /\ NoBlock(P, l, Len(P) + 1)
        BY <1>0, <2>4, LastBlock, Zenon
    <2>6. tip \in AncOf(P[l].block)
        BY <1>0, <2>5, ZenonT(30) DEF Ordered
    <2>7. Added = Len(P) /\ l <= Len(P)
        BY <1>0, <2>1, PendingFacts DEF P
    <2>8. Waited(P, Added, tip, best)
        BY <2>2, <2>4, <2>5, <2>6, <2>7, Zenon DEF Waited, NoPromise
    <2>9. P = Q /\ Added' = Added
        BY <2>1, SamePending, Zenon DEF P, Q
    <2> QED
        BY <2>1, <2>2, <2>3, <2>8, <2>9, Zenon DEF PromiseInv, Has, P, Q
<1> QED
    BY <1>3, <1>4, <1>5, <1>6, <1>7, <1>8, <1>9, <1>10, <1>12, <1>13, <1>14, <1>15, <1>16, <1>17,
       <1>18, ZenonT(30) DEF Next, SyncThread, Handle

-----------------------------------------------------------------------------
(* Results                                                                  *)

\* A new index has nothing to write, or nothing written.
LEMMA IndexInit == Init => XInv
<1> SUFFICES ASSUME Init PROVE XInv
    BY Zenon
<1>1. TypeOK
    <2>1. queue \in Seq(Callback) /\ signals \in Seq(Callback) /\ active \in Callback \cup {Nothing}
        BY DEF Init, QueueInit
    <2>2. {tip, flushed, best, pindex, locator, goal, answer} \subseteq Block \cup {None}
        BY CallbackAssumption, Zenon DEF Init
    <2>3. {synced, interrupted, blind} \subseteq BOOLEAN
        BY Zenon DEF Init
    <2>4. /\ waits \subseteq {Validation, Caller} /\ written \subseteq Block
          /\ place \in {"top", "timer", "commit", "write", "synced", "stopping", "ended"}
          /\ handler \in {"entry", "commit", "write", "best"}
        BY Zenon DEF Init
    <2>5. moves \in 0..MaxMoves /\ crashes \in Nat /\ stops \in 0..MaxEnds
        BY CallbackAssumption DEF Init
    <2> QED
        BY <2>1, <2>2, <2>3, <2>4, <2>5, ZenonT(30) DEF TypeOK
<1>2. Holds(blind, written, crashes, None)
    BY BlindHolds, Zenon DEF Init
<1>3. MissInv /\ HandlerInv
    BY <1>2, Zenon DEF MissInv, HandlerInv, Init, Has, HasBelow
<1>4. Pending = <<>>
    <2>1. <<>> \in Seq(Callback) /\ Line(Nothing, <<>>) = <<>> \o <<>>
        BY DEF Line
    <2>2. <<>> \o <<>> = <<>>
        BY <2>1, WithNothing
    <2> QED
        BY <2>1, <2>2, Zenon DEF Pending, Init, QueueInit
<1>5. FollowInv
    <2>1. Ordered(<<>>, tip) /\ NoBlocks(<<>>)
        BY DEF Ordered, NoBlocks
    <2>2. synced => tip = None
        BY Zenon DEF Init
    <2>3. tip = None => best = None /\ pindex = None /\ place = "ended"
        BY DEF Init
    <2> QED
        BY <1>4, <2>1, <2>2, <2>3, ZenonT(30) DEF FollowInv
<1>6. PromiseInv
    BY <1>2, <1>4 DEF PromiseInv, Init, NoPromise, OnePromise, Has
<1> QED
    BY <1>1, <1>3, <1>5, <1>6, Zenon DEF XInv

\* The inductive invariant.
LEMMA IndexInvariance == Spec => []XInv
<1>1. XInv /\ Next => XInv'
    <2> SUFFICES ASSUME XInv, Next PROVE XInv'
        BY Zenon
    <2>1. TypeOK'
        BY TypeStep, Zenon DEF XInv
    <2>2. MissInv'
        BY <2>1, MissStep, Zenon DEF XInv
    <2> QED
        BY <2>1, <2>2, HandlerStep, FollowStep, PromiseStep, Zenon DEF XInv
<1>2. XInv /\ UNCHANGED vars => XInv'
    <2> SUFFICES ASSUME XInv, UNCHANGED vars PROVE XInv'
        BY Zenon
    <2>1. UNCHANGED <<queueVars, chainVars, indexVars, diskVars, callerVars, blind, crashes, stops>>
        BY Zenon DEF vars
    <2>2. UNCHANGED <<tip, flushed, signals, moves, best, synced, place, pindex, interrupted, handler,
                      written, locator, waits, goal, answer, blind, crashes, stops>>
        BY <2>1, Zenon DEF chainVars, indexVars, diskVars, callerVars
    <2>3. UNCHANGED <<queue, active>>
        BY <2>1, Zenon DEF queueVars
    <2>4. UNCHANGED <<Pending, Added>>
        BY <2>2, <2>3, Zenon DEF Pending, Added
    <2>5. TypeOK'
        BY <2>2, <2>3, Zenon DEF XInv, TypeOK
    <2>6. MissInv' /\ HandlerInv'
        BY <2>2, <2>3, Zenon DEF XInv, MissInv, HandlerInv, Has, HasBelow
    <2>7. FollowInv' /\ PromiseInv'
        BY <2>2, <2>3, <2>4, Zenon DEF XInv, FollowInv, PromiseInv, Has
    <2> QED
        BY <2>5, <2>6, <2>7, Zenon DEF XInv
<1> QED
    BY <1>1, <1>2, IndexInit, PTL DEF Spec

\* The state of an index is what index/base.h declares.
THEOREM IndexTypes == Spec => []TypeOK
<1>1. XInv => TypeOK
    BY Zenon DEF XInv
<1> QED
    BY <1>1, IndexInvariance, PTL

INSTANCE FiniteSetTheorems

\* What n blocks cover has n members at most.
LEMMA LacksCount ==
    ASSUME NEW b \in Block \cup {None}, NEW blocks, NEW n \in Nat, Lacks(b, blocks, n)
    PROVE  Cardinality(AncOf(b) \ blocks) <= n
<1>1. PICK f \in [1..n -> Block] : \A a \in AncOf(b) \ blocks : \E i \in 1..n : f[i] = a
    BY Zenon DEF Lacks
<1> DEFINE T == {f[i] : i \in 1..n}
<1>2. f \in Surjection(1..n, T)
    BY DEF Surjection
<1>3. IsFiniteSet(1..n) /\ Cardinality(1..n) = n
    BY FS_Interval
<1>4. AncOf(b) \ blocks \in SUBSET T
    BY <1>1, Zenon
<1> HIDE DEF T
<1>5. IsFiniteSet(T) /\ Cardinality(T) <= n
    BY <1>2, <1>3, FS_Surjection
<1>6. Cardinality(AncOf(b) \ blocks) <= Cardinality(T) /\ IsFiniteSet(AncOf(b) \ blocks)
    BY <1>4, <1>5, FS_Subset, ZenonT(30)
<1>7. Cardinality(T) \in Nat /\ Cardinality(AncOf(b) \ blocks) \in Nat
    BY <1>5, <1>6, FS_CardinalityType, ZenonT(30)
<1> QED
    BY <1>5, <1>6, <1>7

\* However blocks are connected, disconnected, rewound to and committed to, a
\* synchronised index lacks at most one block of its chain for each crash, and none
\* without one: BaseIndex::ThreadSync and BlockConnected lose nothing else.
THEOREM LosesAtMostOnePerCrash == Spec => []LosesOnePerCrash
<1>1. ASSUME XInv, synced, ~blind PROVE Cardinality(Missing(best)) <= crashes
    <2>1. Lacks(best, written, crashes) /\ best \in Block \cup {None} /\ crashes \in Nat
        BY <1>1, Zenon DEF XInv, TypeOK, MissInv, Has, Holds
    <2> QED
        BY <2>1, LacksCount, Zenon DEF Missing
<1>2. XInv => LosesOnePerCrash
    BY <1>1, Zenon DEF LosesOnePerCrash
<1> QED
    BY <1>2, IndexInvariance, PTL

\* BlockUntilSyncedToCurrentChain returns true only once the index has the chain
\* the caller saw, with whatever was queued when it asked and however the chain
\* moved meanwhile.
THEOREM PromiseIsKept == Spec => []PromiseKept
<1>1. ASSUME XInv, ~blind PROVE Cardinality(Missing(answer)) <= crashes
    <2>1. Lacks(answer, written, crashes) /\ answer \in Block \cup {None} /\ crashes \in Nat
        BY <1>1 DEF XInv, TypeOK, PromiseInv, Has, Holds
    <2> QED
        BY <2>1, LacksCount, ZenonT(30) DEF Missing
<1>2. XInv => PromiseKept
    BY <1>1, Zenon DEF PromiseKept
<1> QED
    BY <1>2, IndexInvariance, PTL
=============================================================================

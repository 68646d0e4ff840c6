------------------------ MODULE BlockDownloadProofs ------------------------
(***************************************************************************)
(* What is in flight, who stalls and what is common with a peer, for every  *)
(* tree, any number of peers and every window and limit.                    *)
(***************************************************************************)
EXTENDS BlockDownload, FiniteSetTheorems, TLAPS

-----------------------------------------------------------------------------
(* The inductive invariant.                                                 *)

\* What is in flight from the nodes c: the map, the queues and the counters
\* agree, and who stalls owes a block.
Busy(s) == {p \in Peer : s.queue[p] # {}}
Sound(s, c) ==
    /\ s \in Flights
    /\ \A p \in Peer : /\ s.queue[p] = {b \in Block : s.from[b] = p}
                       /\ IsFiniteSet(s.queue[p]) /\ s.count[p] = Cardinality(s.queue[p])
                       /\ s.count[p] <= MaxInTransit
                       /\ s.queue[p] # {} => p \in c
    /\ s.partial \subseteq {b \in Block : s.from[b] # None}
    /\ IsFiniteSet(Busy(s)) /\ s.peers = Cardinality(Busy(s))
    /\ \A p \in s.stalling : s.queue[p] # {}

\* The active chain has all its data, and the data has a highest block.
IndexInv ==
    /\ headers \subseteq Block /\ have \subseteq headers /\ failed \subseteq headers
    /\ tip \in headers /\ bestHeader \in headers /\ ibd \in BOOLEAN
    /\ HaveTxsDownloaded(tip)
    /\ \E n \in Nat : \A b \in have : Height[b] <= n

NodesInv ==
    /\ connected \subseteq Peer /\ fDisconnect \subseteq connected
    /\ gone \subseteq Peer \ connected /\ syncStarted \subseteq connected

KnownInv ==
    /\ best \in [Peer -> headers \cup {None}] /\ unknown \in [Peer -> Block \cup {None}]

CommonInv == common \in [Peer -> headers \cup {None}] /\ CommonIsFull

\* The message thread inside a call has a block.
HandlingInv ==
    /\ handling \in [peer : Peer \cup {None}, block : Block \cup {None}, force : BOOLEAN,
                     step : {"idle", "process", "process and clear", "clear"}]
    /\ handling.step # "idle" => handling.block \in Block

OutsideInv == peerTip \in [Peer -> Block]

IInv ==
    /\ IndexInv /\ NodesInv /\ KnownInv /\ CommonInv /\ HandlingInv /\ OutsideInv
    /\ Sound(flight, connected)

-----------------------------------------------------------------------------
(* Numbers and blocks                                                       *)

\* A set of natural numbers that is not empty has a smallest member.
LEMMA SmallestInSet ==
    ASSUME NEW S \in SUBSET Nat, S # {}
    PROVE  \E n \in S : \A m \in S : n <= m
<1> DEFINE R == {p \in Nat \X Nat : p[1] < p[2]}
<1>1. IsWellFoundedOn(R, Nat)
    BY NatLessThanWellFounded, Zenon DEF OpToRel
<1> HIDE DEF R
<1>2. PICK n \in S : \A m \in S : <<m, n>> \notin R
    BY <1>1, WFMin, Zenon
<1>3. ASSUME NEW m \in S
      PROVE  n <= m
    <2>1. m \in Nat /\ n \in Nat /\ <<m, n>> \notin R
        BY <1>2, <1>3, Zenon
    <2> QED
        BY <2>1 DEF R
<1> QED
    BY <1>3, Zenon

\* Blocks up to some height have a highest one.
LEMMA HighestFacts ==
    ASSUME NEW bs \in SUBSET Block, bs # {}, NEW n \in Nat, \A b \in bs : Height[b] <= n
    PROVE  Highest(bs) \in bs /\ \A c \in bs : Height[c] <= Height[Highest(bs)]
<1> DEFINE S == {n - Height[b] : b \in bs}
<1>1. \A b \in bs : Height[b] \in Nat
    BY TreeAssumption, Zenon
<1>2. S \in SUBSET Nat
    BY <1>1
<1>3. S # {}
    BY Zenon
<1>4. PICK m \in S : \A k \in S : m <= k
    BY <1>2, <1>3, SmallestInSet, Zenon
<1>5. PICK b \in bs : m = n - Height[b]
    BY <1>4, Zenon
<1>6. \A c \in bs : n - Height[b] <= n - Height[c]
    BY <1>4, <1>5, Zenon
<1>7. \A c \in bs : Height[c] <= Height[b]
    BY <1>1, <1>6
<1> QED
    BY <1>5, <1>7, Zenon DEF Highest

LEMMA AncFacts ==
    /\ \A b \in Block : /\ b \in Anc[b] /\ Genesis \in Anc[b] /\ Anc[b] \subseteq Block
                        /\ Height[b] \in Nat /\ IsFiniteSet(Anc[b])
    /\ \A b \in Block : \A a \in Anc[b] : Anc[a] \subseteq Anc[b] /\ Height[a] <= Height[b]
    /\ None \notin Block /\ None \notin Peer
BY TreeAssumption, Zenon

LEMMA LastCommonAncestorFacts ==
    ASSUME NEW a \in Block, NEW b \in Block
    PROVE  LastCommonAncestor(a, b) \in Anc[a] \cap Anc[b]
<1>1. Anc[a] \cap Anc[b] \in SUBSET Block /\ Genesis \in Anc[a] \cap Anc[b]
    BY AncFacts, Zenon
<1>2. Height[a] \in Nat /\ \A c \in Anc[a] \cap Anc[b] : Height[c] <= Height[a]
    BY AncFacts, Zenon
<1> HIDE DEF LastCommonAncestor
<1>3. Highest(Anc[a] \cap Anc[b]) \in Anc[a] \cap Anc[b]
    BY <1>1, <1>2, HighestFacts, Zenon
<1> QED
    BY <1>3, Zenon DEF LastCommonAncestor

\* First takes no more blocks than it may: the others are below its highest.
LEMMA FirstFacts ==
    ASSUME NEW to \in Block, NEW bs \in SUBSET Anc[to], NEW n \in Nat
    PROVE  /\ First(n, bs) \subseteq bs /\ IsFiniteSet(First(n, bs))
           /\ Cardinality(First(n, bs)) \in Nat /\ Cardinality(First(n, bs)) <= n
<1> DEFINE F == First(n, bs)
           Below(b) == {a \in bs : Height[a] < Height[b]}
<1>1. F \subseteq bs /\ \A b \in F : Cardinality(Below(b)) < n
    BY Zenon DEF First
<1>2. IsFiniteSet(Anc[to]) /\ Anc[to] \subseteq Block
    BY AncFacts, Zenon
<1>3. \A T \in SUBSET bs : IsFiniteSet(T) /\ Cardinality(T) \in Nat
    BY <1>2, FS_Subset, FS_CardinalityType, Zenon
<1>4. CASE F = {}
    BY <1>4, FS_EmptySet
<1>5. CASE F # {}
    <2>1. F \in SUBSET Block /\ Height[to] \in Nat /\ \A b \in F : Height[b] <= Height[to]
        BY <1>1, <1>2, AncFacts, Zenon
    <2> DEFINE top == Highest(F)
    <2> HIDE DEF F
    <2>2. top \in F /\ \A c \in F : Height[c] <= Height[top]
        BY <1>5, <2>1, HighestFacts, Zenon
    <2> HIDE DEF top
    <2>3. F \ {top} \subseteq Below(top)
        <3> SUFFICES ASSUME NEW c \in F, c # top PROVE c \in bs /\ Height[c] < Height[top]
            BY Zenon
        <3>1. c \in Anc[to] /\ top \in Anc[to] /\ c \in bs
            BY <1>1, <2>2, Zenon
        <3>2. Height[c] # Height[top]
            BY <3>1, TreeAssumption, Zenon
        <3>3. Height[c] \in Nat /\ Height[top] \in Nat
            BY <1>2, <3>1, TreeAssumption, Zenon
        <3>4. Height[c] <= Height[top]
            BY <2>2, Zenon
        <3> QED
            BY <3>1, <3>2, <3>3, <3>4
    <2>4. Below(top) \in SUBSET bs /\ F \ {top} \in SUBSET bs /\ F \in SUBSET bs
        BY <1>1, Zenon
    <2>5. /\ IsFiniteSet(F) /\ IsFiniteSet(Below(top)) /\ Cardinality(F) \in Nat
          /\ Cardinality(Below(top)) \in Nat /\ Cardinality(F \ {top}) \in Nat
        BY <1>3, <2>4, Zenon
    <2>6. Cardinality(F \ {top}) <= Cardinality(Below(top))
        BY <2>3, <2>5, FS_Subset, Zenon
    <2>7. Cardinality(F \ {top}) = Cardinality(F) - 1
        BY <2>2, <2>5, FS_RemoveElement, Zenon
    <2>8. Cardinality(Below(top)) < n
        BY <1>1, <2>2, Zenon
    <2>9. Cardinality(F) <= n
        BY <2>5, <2>6, <2>7, <2>8
    <2> QED
        BY <1>1, <2>5, <2>9, Zenon DEF F
<1> QED
    BY <1>4, <1>5, Zenon
-----------------------------------------------------------------------------
(* What is in flight                                                        *)

LEMMA NothingSound == ASSUME NEW c PROVE Sound(NoneInFlight, c)
<1> DEFINE s == NoneInFlight
<1>1. s \in Flights
    BY DEF NoneInFlight, Flights
<1>2. /\ s.from = [b \in Block |-> None] /\ s.queue = [p \in Peer |-> {}]
      /\ s.count = [p \in Peer |-> 0] /\ s.partial = {} /\ s.peers = 0 /\ s.stalling = {}
    BY DEF NoneInFlight
<1> HIDE DEF s
<1>3. Busy(s) = {} /\ \A p \in Peer : s.queue[p] = {}
    BY <1>2, Zenon DEF Busy
<1>4. \A p \in Peer : {b \in Block : s.from[b] = p} = {}
    BY <1>2, AncFacts
<1>5. IsFiniteSet({}) /\ Cardinality({}) = 0 /\ 0 <= MaxInTransit
    BY FS_EmptySet, PeerAssumption
<1>6. \A p \in Peer : s.count[p] = 0
    BY <1>2, Zenon
<1> QED
    BY <1>1, <1>2, <1>3, <1>4, <1>5, <1>6, Zenon DEF Sound, s

\* A block was received, or is no longer waited for.
LEMMA ReceivedSound ==
    ASSUME NEW s, NEW c, Sound(s, c), NEW b \in Block
    PROVE  Sound(MarkBlockAsReceived(s, b), c)
<1> DEFINE t == MarkBlockAsReceived(s, b)
           p == s.from[b]
<1>1. CASE p = None
    BY <1>1, Zenon DEF MarkBlockAsReceived
<1>2. CASE p # None
    <2>0. s \in Flights /\ p \in Peer
        <3>1. s \in Flights
            BY Zenon DEF Sound
        <3> QED
            BY <1>2, <3>1 DEF Flights
    <2>1. /\ t.from = [s.from EXCEPT ![b] = None] /\ t.queue = [s.queue EXCEPT ![p] = @ \ {b}]
          /\ t.count = [s.count EXCEPT ![p] = @ - 1] /\ t.partial = s.partial \ {b}
          /\ t.peers = (IF s.count[p] = 1 THEN s.peers - 1 ELSE s.peers)
          /\ t.stalling = s.stalling \ {p}
          /\ t = [from |-> t.from, queue |-> t.queue, count |-> t.count, partial |-> t.partial,
                  peers |-> t.peers, stalling |-> t.stalling]
        BY <1>2, <2>0, Zenon DEF MarkBlockAsReceived, Flights
    <2>2. /\ b \in s.queue[p] /\ IsFiniteSet(s.queue[p]) /\ s.count[p] = Cardinality(s.queue[p])
          /\ s.count[p] <= MaxInTransit
        BY <2>0, Zenon DEF Sound
    <2> HIDE DEF t, p
    <2>3. /\ s.from \in [Block -> Peer \cup {None}] /\ s.queue \in [Peer -> SUBSET Block]
          /\ s.count \in [Peer -> Nat] /\ s.peers \in Nat
        BY <2>0 DEF Flights
    <2>4. /\ IsFiniteSet(s.queue[p] \ {b}) /\ Cardinality(s.queue[p] \ {b}) = s.count[p] - 1
          /\ s.count[p] - 1 \in Nat
        <3>1. IsFiniteSet(s.queue[p] \ {b}) /\ Cardinality(s.queue[p] \ {b}) = s.count[p] - 1
            BY <2>2, FS_RemoveElement, ZenonT(30)
        <3>2. Cardinality(s.queue[p] \ {b}) \in Nat
            BY <3>1, FS_CardinalityType, Zenon
        <3> QED
            BY <3>1, <3>2, Zenon
    <2>5. s.queue[p] \ {b} = {} <=> s.count[p] = 1
        <3>1. s.queue[p] \ {b} = {} <=> Cardinality(s.queue[p] \ {b}) = 0
            BY <2>4, FS_EmptySet, Zenon
        <3>2. s.count[p] \in Nat
            BY <2>0, <2>3, Zenon
        <3> QED
            BY <2>4, <3>1, <3>2
    <2>6. /\ t.queue[p] = s.queue[p] \ {b} /\ t.count[p] = s.count[p] - 1
          /\ \A q \in Peer \ {p} : t.queue[q] = s.queue[q] /\ t.count[q] = s.count[q]
          /\ t.from[b] = None /\ \A a \in Block \ {b} : t.from[a] = s.from[a]
        BY <2>0, <2>1, <2>3, Zenon
    <2>7. Busy(t) = IF s.count[p] = 1 THEN Busy(s) \ {p} ELSE Busy(s)
        BY <2>0, <2>2, <2>5, <2>6, Zenon DEF Busy
    <2>8. IsFiniteSet(Busy(s)) /\ s.peers = Cardinality(Busy(s)) /\ p \in Busy(s)
        BY <2>0, <2>2, Zenon DEF Sound, Busy
    <2>9. IsFiniteSet(Busy(t)) /\ t.peers = Cardinality(Busy(t))
        BY <2>1, <2>7, <2>8, FS_RemoveElement, ZenonT(30)
    <2>10. t.peers \in Nat
        BY <2>9, FS_CardinalityType, Zenon
    <2>11. t \in Flights
        <3>1. /\ t.from \in [Block -> Peer \cup {None}] /\ t.queue \in [Peer -> SUBSET Block]
              /\ t.count \in [Peer -> Nat]
            BY <2>0, <2>1, <2>3, <2>4
        <3>2. t.partial \subseteq Block /\ t.stalling \subseteq Peer
            BY <2>0, <2>1 DEF Flights
        <3> QED
            BY <2>1, <2>10, <3>1, <3>2 DEF Flights
    <2>12. ASSUME NEW q \in Peer
           PROVE  /\ t.queue[q] = {a \in Block : t.from[a] = q}
                  /\ IsFiniteSet(t.queue[q]) /\ t.count[q] = Cardinality(t.queue[q])
                  /\ t.count[q] <= MaxInTransit
                  /\ t.queue[q] # {} => q \in c
        <3>1. s.queue[q] = {a \in Block : s.from[a] = q} /\ (s.queue[q] # {} => q \in c)
            BY Zenon DEF Sound
        <3>2. t.queue[q] = {a \in Block : t.from[a] = q}
            BY <2>0, <2>6, <3>1, AncFacts DEF p
        <3>3. s.count[q] \in Nat /\ s.count[q] <= MaxInTransit /\ MaxInTransit \in Nat
            BY <2>3, PeerAssumption, Zenon DEF Sound
        <3>4. IsFiniteSet(t.queue[q]) /\ t.count[q] = Cardinality(t.queue[q])
            BY <2>4, <2>6, Zenon DEF Sound
        <3>5. t.count[q] <= s.count[q]
            BY <2>6, <3>3
        <3>6. t.count[q] <= MaxInTransit
            BY <2>4, <2>6, <3>3, <3>5
        <3> QED
            BY <2>6, <3>1, <3>2, <3>4, <3>6, Zenon
    <2>13. t.partial \subseteq {a \in Block : t.from[a] # None}
        BY <2>0, <2>1, <2>6 DEF Sound
    <2>14. \A q \in t.stalling : t.queue[q] # {}
        <3>1. \A q \in s.stalling : q \in Peer /\ s.queue[q] # {}
            BY <2>0 DEF Sound, Flights
        <3> QED
            BY <2>1, <2>6, <3>1, Zenon
    <2> QED
        BY <2>9, <2>11, <2>12, <2>13, <2>14, Zenon DEF Sound, t
<1> QED
    BY <1>1, <1>2, Zenon
\* Blocks that are not in flight are asked from a node that has room for them.
LEMMA MarkedSound ==
    ASSUME NEW s, NEW c, Sound(s, c), NEW p \in Peer, p \in c, NEW bs \in SUBSET Block,
           \A b \in bs : s.from[b] = None,
           IsFiniteSet(bs), s.count[p] + Cardinality(bs) <= MaxInTransit
    PROVE  /\ Sound(MarkBlocksAsInFlight(s, p, bs), c)
           /\ \A b \in bs : MarkBlocksAsInFlight(s, p, bs).from[b] = p
           /\ \A q \in Peer : s.queue[q] \subseteq MarkBlocksAsInFlight(s, p, bs).queue[q]
<1> DEFINE t == MarkBlocksAsInFlight(s, p, bs)
<1>0. s \in Flights
    BY Zenon DEF Sound
<1>1. /\ t.from = [b \in Block |-> IF b \in bs THEN p ELSE s.from[b]]
      /\ t.queue = [s.queue EXCEPT ![p] = @ \cup bs]
      /\ t.count = [s.count EXCEPT ![p] = @ + Cardinality(bs)] /\ t.partial = s.partial
      /\ t.peers = (IF s.count[p] = 0 /\ bs # {} THEN s.peers + 1 ELSE s.peers)
      /\ t.stalling = s.stalling
      /\ t = [from |-> t.from, queue |-> t.queue, count |-> t.count, partial |-> t.partial,
              peers |-> t.peers, stalling |-> t.stalling]
    <2> DEFINE map == [b \in Block |-> IF b \in bs THEN p ELSE s.from[b]]
               number == IF s.count[p] = 0 /\ bs # {} THEN s.peers + 1 ELSE s.peers
    <2>1. t = [s EXCEPT !.from = map, !.queue[p] = @ \cup bs, !.count[p] = @ + Cardinality(bs),
                        !.peers = number]
        BY Zenon DEF MarkBlocksAsInFlight
    <2> HIDE DEF t, map, number
    <2>2. /\ t.from = map /\ t.queue = [s.queue EXCEPT ![p] = @ \cup bs]
          /\ t.count = [s.count EXCEPT ![p] = @ + Cardinality(bs)] /\ t.partial = s.partial
          /\ t.peers = number /\ t.stalling = s.stalling
          /\ t = [from |-> t.from, queue |-> t.queue, count |-> t.count, partial |-> t.partial,
                  peers |-> t.peers, stalling |-> t.stalling]
        BY <1>0, <2>1, Zenon DEF Flights
    <2> QED
        BY <2>2, Zenon DEF map, number
<1> HIDE DEF t
<1>2. /\ s.from \in [Block -> Peer \cup {None}] /\ s.queue \in [Peer -> SUBSET Block]
      /\ s.count \in [Peer -> Nat] /\ s.peers \in Nat /\ s.partial \subseteq Block
      /\ s.stalling \subseteq Peer
    BY <1>0 DEF Flights
<1>3. /\ IsFiniteSet(s.queue[p]) /\ s.count[p] = Cardinality(s.queue[p]) /\ s.count[p] \in Nat
      /\ s.queue[p] = {b \in Block : s.from[b] = p}
    BY <1>2, Zenon DEF Sound
<1>4. s.queue[p] \cap bs = {}
    BY <1>3, AncFacts
<1>5. Cardinality(bs) \in Nat
    BY FS_CardinalityType, Zenon
<1>6. /\ IsFiniteSet(s.queue[p] \cup bs)
      /\ Cardinality(s.queue[p] \cup bs) = s.count[p] + Cardinality(bs)
    <2>1. Cardinality(s.queue[p] \cap bs) = 0
        BY <1>4, FS_EmptySet, Zenon
    <2>2. /\ IsFiniteSet(s.queue[p] \cup bs)
          /\ Cardinality(s.queue[p] \cup bs) =
                Cardinality(s.queue[p]) + Cardinality(bs) - Cardinality(s.queue[p] \cap bs)
        BY <1>3, FS_Union, Zenon
    <2>3. Cardinality(s.queue[p] \cup bs) = s.count[p] + Cardinality(bs)
        BY <1>3, <1>5, <2>1, <2>2
    <2> QED
        BY <2>2, <2>3, Zenon
<1>7. /\ t.queue[p] = s.queue[p] \cup bs /\ t.count[p] = s.count[p] + Cardinality(bs)
      /\ \A q \in Peer \ {p} : t.queue[q] = s.queue[q] /\ t.count[q] = s.count[q]
      /\ \A b \in bs : t.from[b] = p
      /\ \A b \in Block \ bs : t.from[b] = s.from[b]
    BY <1>1, <1>2, Zenon
<1>8. s.queue[p] = {} <=> s.count[p] = 0
    BY <1>3, FS_EmptySet, Zenon
<1>9. Busy(t) = IF s.count[p] = 0 /\ bs # {} THEN Busy(s) \cup {p} ELSE Busy(s)
    BY <1>7, <1>8, Zenon DEF Busy
<1>10. /\ IsFiniteSet(Busy(s)) /\ s.peers = Cardinality(Busy(s))
       /\ s.count[p] = 0 => p \notin Busy(s)
    BY <1>8, Zenon DEF Sound, Busy
<1>11. IsFiniteSet(Busy(t)) /\ t.peers = Cardinality(Busy(t))
    <2>1. CASE s.count[p] = 0 /\ bs # {}
        <3>1. Busy(t) = Busy(s) \cup {p} /\ p \notin Busy(s) /\ t.peers = s.peers + 1
            BY <1>1, <1>9, <1>10, <2>1, Zenon
        <3> QED
            BY <1>10, <3>1, FS_AddElement
    <2>2. CASE ~(s.count[p] = 0 /\ bs # {})
        BY <1>1, <1>9, <1>10, <2>2, Zenon
    <2> QED
        BY <2>1, <2>2, Zenon
<1>12. t.peers \in Nat
    BY <1>11, FS_CardinalityType, Zenon
<1>13. t \in Flights
    <2>1. /\ t.from \in [Block -> Peer \cup {None}] /\ t.queue \in [Peer -> SUBSET Block]
          /\ t.count \in [Peer -> Nat]
        BY <1>1, <1>2, <1>3, <1>5
    <2> QED
        BY <1>1, <1>2, <1>12, <2>1 DEF Flights
<1>14. ASSUME NEW q \in Peer
       PROVE  /\ t.queue[q] = {b \in Block : t.from[b] = q}
              /\ IsFiniteSet(t.queue[q]) /\ t.count[q] = Cardinality(t.queue[q])
              /\ t.count[q] <= MaxInTransit
              /\ t.queue[q] # {} => q \in c
    <2>1. s.queue[q] = {b \in Block : s.from[b] = q} /\ (s.queue[q] # {} => q \in c)
        BY Zenon DEF Sound
    <2>2. t.queue[q] = {b \in Block : t.from[b] = q}
        BY <1>7, <2>1, AncFacts
    <2>3. IsFiniteSet(t.queue[q]) /\ t.count[q] = Cardinality(t.queue[q])
        BY <1>6, <1>7, ZenonT(30) DEF Sound
    <2>4. t.count[q] <= MaxInTransit
        BY <1>7, Zenon DEF Sound
    <2> QED
        BY <1>7, <2>1, <2>2, <2>3, <2>4, Zenon
<1>15. t.partial \subseteq {b \in Block : t.from[b] # None}
    BY <1>1, <1>2, <1>7, AncFacts DEF Sound
<1>16. \A q \in Peer : s.queue[q] \subseteq t.queue[q]
    BY <1>7, Zenon
<1>17. \A q \in t.stalling : t.queue[q] # {}
    BY <1>1, <1>2, <1>16, Zenon DEF Sound
<1> QED
    BY <1>7, <1>11, <1>13, <1>14, <1>15, <1>16, <1>17, Zenon DEF Sound, t

\* The same for one block, which may be in flight from the node already.
LEMMA InFlightSound ==
    ASSUME NEW s, NEW c, Sound(s, c), NEW p \in Peer, p \in c, NEW b \in Block,
           s.from[b] = p \/ (s.from[b] = None /\ s.count[p] < MaxInTransit)
    PROVE  Sound(MarkBlockAsInFlight(s, p, b), c) /\ MarkBlockAsInFlight(s, p, b).from[b] = p
<1>1. CASE s.from[b] = p
    BY <1>1, Zenon DEF MarkBlockAsInFlight
<1>2. CASE s.from[b] = None /\ s.count[p] < MaxInTransit
    <2>1. p # None
        BY AncFacts, Zenon
    <2>2. MarkBlockAsReceived(s, b) = s
        BY <1>2, Zenon DEF MarkBlockAsReceived
    <2>3. s \in Flights /\ s.count[p] \in Nat
        <3>1. s \in Flights
            BY Zenon DEF Sound
        <3> QED
            BY <3>1 DEF Flights
    <2>4. IsFiniteSet({b}) /\ Cardinality({b}) = 1
        BY FS_Singleton, Zenon
    <2>5. MarkBlockAsInFlight(s, p, b) =
            [s EXCEPT !.from[b] = p, !.queue[p] = @ \cup {b}, !.count[p] = @ + 1,
                      !.peers = IF s.count[p] = 0 THEN @ + 1 ELSE @]
        BY <1>2, <2>1, <2>2, Zenon DEF MarkBlockAsInFlight
    <2>6. [s.from EXCEPT ![b] = p] = [a \in Block |-> IF a \in {b} THEN p ELSE s.from[a]]
        BY <2>3 DEF Flights
    <2>7. MarkBlockAsInFlight(s, p, b) = MarkBlocksAsInFlight(s, p, {b})
        BY <2>3, <2>4, <2>5, <2>6, Zenon DEF MarkBlocksAsInFlight, Flights
    <2>8. s.count[p] + Cardinality({b}) <= MaxInTransit
        BY <1>2, <2>3, <2>4, PeerAssumption
    <2> QED
        <3> DEFINE bs == {b}
        <3>1. /\ bs \in SUBSET Block /\ \A a \in bs : s.from[a] = None
              /\ IsFiniteSet(bs) /\ s.count[p] + Cardinality(bs) <= MaxInTransit
            BY <1>2, <2>4, <2>8, Zenon
        <3> HIDE DEF bs
        <3>2. /\ Sound(MarkBlocksAsInFlight(s, p, bs), c)
              /\ \A a \in bs : MarkBlocksAsInFlight(s, p, bs).from[a] = p
            BY <3>1, MarkedSound
        <3> QED
            BY <2>7, <3>2, Zenon DEF bs
<1> QED
    BY <1>1, <1>2, Zenon

\* A node goes, with what it holds in flight.
LEMMA ErasedSound ==
    ASSUME NEW s, NEW c, Sound(s, c), NEW p \in Peer
    PROVE  Sound(EraseNode(s, p), c \ {p})
<1> DEFINE t == EraseNode(s, p)
<1>0. s \in Flights
    BY Zenon DEF Sound
<1>1. /\ t.from = [b \in Block |-> IF b \in s.queue[p] THEN None ELSE s.from[b]]
      /\ t.queue = [s.queue EXCEPT ![p] = {}] /\ t.count = [s.count EXCEPT ![p] = 0]
      /\ t.partial = s.partial \ s.queue[p]
      /\ t.peers = (IF s.count[p] # 0 THEN s.peers - 1 ELSE s.peers)
      /\ t.stalling = s.stalling \ {p}
      /\ t = [from |-> t.from, queue |-> t.queue, count |-> t.count, partial |-> t.partial,
              peers |-> t.peers, stalling |-> t.stalling]
    <2> DEFINE map == [b \in Block |-> IF b \in s.queue[p] THEN None ELSE s.from[b]]
               number == IF s.count[p] # 0 THEN s.peers - 1 ELSE s.peers
    <2>1. t = [s EXCEPT !.from = map, !.queue[p] = {}, !.count[p] = 0, !.partial = @ \ s.queue[p],
                        !.peers = number, !.stalling = @ \ {p}]
        BY Zenon DEF EraseNode
    <2> HIDE DEF t, map, number
    <2>2. /\ t.from = map /\ t.queue = [s.queue EXCEPT ![p] = {}]
          /\ t.count = [s.count EXCEPT ![p] = 0] /\ t.partial = s.partial \ s.queue[p]
          /\ t.peers = number /\ t.stalling = s.stalling \ {p}
          /\ t = [from |-> t.from, queue |-> t.queue, count |-> t.count, partial |-> t.partial,
                  peers |-> t.peers, stalling |-> t.stalling]
        BY <1>0, <2>1, Zenon DEF Flights
    <2> QED
        BY <2>2, Zenon DEF map, number
<1> HIDE DEF t
<1>2. /\ s.from \in [Block -> Peer \cup {None}] /\ s.queue \in [Peer -> SUBSET Block]
      /\ s.count \in [Peer -> Nat] /\ s.peers \in Nat /\ s.partial \subseteq Block
      /\ s.stalling \subseteq Peer
    BY <1>0 DEF Flights
<1>3. /\ IsFiniteSet(s.queue[p]) /\ s.count[p] = Cardinality(s.queue[p])
      /\ s.queue[p] = {b \in Block : s.from[b] = p}
    BY Zenon DEF Sound
<1>4. /\ t.queue[p] = {} /\ t.count[p] = 0
      /\ \A q \in Peer \ {p} : t.queue[q] = s.queue[q] /\ t.count[q] = s.count[q]
      /\ \A b \in Block : t.from[b] = IF s.from[b] = p THEN None ELSE s.from[b]
    BY <1>1, <1>2, <1>3, ZenonT(30)
<1>5. s.queue[p] = {} <=> s.count[p] = 0
    BY <1>3, FS_EmptySet, Zenon
<1>6. Busy(t) = IF s.count[p] # 0 THEN Busy(s) \ {p} ELSE Busy(s)
    BY <1>4, <1>5, Zenon DEF Busy
<1>7. /\ IsFiniteSet(Busy(s)) /\ s.peers = Cardinality(Busy(s))
      /\ s.count[p] # 0 => p \in Busy(s)
    BY <1>5, Zenon DEF Sound, Busy
<1>8. IsFiniteSet(Busy(t)) /\ t.peers = Cardinality(Busy(t))
    <2>1. CASE s.count[p] # 0
        <3>1. Busy(t) = Busy(s) \ {p} /\ p \in Busy(s) /\ t.peers = s.peers - 1
            BY <1>1, <1>6, <1>7, <2>1, Zenon
        <3> QED
            BY <1>7, <3>1, FS_RemoveElement, Zenon
    <2>2. CASE s.count[p] = 0
        BY <1>1, <1>6, <1>7, <2>2, Zenon
    <2> QED
        BY <2>1, <2>2, Zenon
<1>9. t.peers \in Nat
    BY <1>8, FS_CardinalityType, Zenon
<1>10. t \in Flights
    <2>1. /\ t.from \in [Block -> Peer \cup {None}] /\ t.queue \in [Peer -> SUBSET Block]
          /\ t.count \in [Peer -> Nat]
        BY <1>1, <1>2
    <2>2. t.partial \subseteq Block /\ t.stalling \subseteq Peer
        BY <1>1, <1>2, Zenon
    <2> QED
        BY <1>1, <1>9, <2>1, <2>2 DEF Flights
<1>11. ASSUME NEW q \in Peer
       PROVE  /\ t.queue[q] = {b \in Block : t.from[b] = q}
              /\ IsFiniteSet(t.queue[q]) /\ t.count[q] = Cardinality(t.queue[q])
              /\ t.count[q] <= MaxInTransit
              /\ t.queue[q] # {} => q \in c \ {p}
    <2>1. s.queue[q] = {b \in Block : s.from[b] = q} /\ (s.queue[q] # {} => q \in c)
        BY Zenon DEF Sound
    <2>2. t.queue[q] = {b \in Block : t.from[b] = q}
        BY <1>4, <2>1, AncFacts
    <2>3. IsFiniteSet({}) /\ Cardinality({}) = 0 /\ 0 <= MaxInTransit
        BY FS_EmptySet, PeerAssumption
    <2>4. IsFiniteSet(t.queue[q]) /\ t.count[q] = Cardinality(t.queue[q])
        BY <1>4, <2>3, Zenon DEF Sound
    <2>5. t.count[q] <= MaxInTransit
        BY <1>4, <2>3, Zenon DEF Sound
    <2> QED
        BY <1>4, <2>1, <2>2, <2>4, <2>5, Zenon
<1>12. t.partial \subseteq {b \in Block : t.from[b] # None}
    BY <1>1, <1>2, <1>3, <1>4 DEF Sound
<1>13. \A q \in t.stalling : t.queue[q] # {}
    BY <1>1, <1>2, <1>4, Zenon DEF Sound
<1> QED
    BY <1>8, <1>10, <1>11, <1>12, <1>13, Zenon DEF Sound, t
-----------------------------------------------------------------------------
(* The index and what is known of a peer                                    *)

\* Headers enter the index, and nothing leaves it.
LEMMA AcceptHeadersFacts ==
    ASSUME IndexInv, NEW b \in Block, AcceptHeaders(b)
    PROVE  /\ headers' \subseteq Block /\ headers \subseteq headers' /\ Anc[b] \subseteq headers'
           /\ b \in headers' /\ bestHeader' \in headers'
<1>1. Anc[b] \subseteq Block /\ b \in Anc[b]
    BY AncFacts, Zenon
<1> QED
    BY <1>1, Zenon DEF IndexInv, AcceptHeaders

\* A header alone changes nothing else.
LEMMA HeadersKeepIndex ==
    ASSUME IndexInv, NEW b \in Block, AcceptHeaders(b), UNCHANGED <<have, failed, tip, ibd>>
    PROVE  IndexInv'
BY AcceptHeadersFacts, Zenon DEF IndexInv, HaveTxsDownloaded

LEMMA SameIndex ==
    ASSUME IndexInv, UNCHANGED index
    PROVE  IndexInv' /\ headers \subseteq headers' /\ have \subseteq have'
BY Zenon DEF IndexInv, HaveTxsDownloaded, index

\* A block is stored or fails, and the best chain is activated.
LEMMA ProcessBlockKeepsIndex ==
    ASSUME IndexInv, NEW b \in Block, NEW force, ProcessBlock(b, force)
    PROVE  IndexInv' /\ headers \subseteq headers' /\ have \subseteq have'
<1>1. CASE ~(Anc[b] \ {b} \subseteq headers /\ HeadersValid(b))
    <2>1. UNCHANGED index
        BY <1>1, Zenon DEF ProcessBlock
    <2> QED
        BY <2>1, SameIndex, Zenon
<1>2. CASE Anc[b] \ {b} \subseteq headers /\ HeadersValid(b)
    <2>1. /\ AcceptHeaders(b) /\ Activate(have')
          /\ have' = have \/ have' = have \cup {b}
          /\ failed' = failed \/ failed' = failed \cup {b}
          /\ ibd' = (ibd /\ ~UpToDate(tip'))
        BY <1>2, Zenon DEF ProcessBlock
    <2>2. /\ headers' \subseteq Block /\ headers \subseteq headers' /\ b \in headers'
          /\ bestHeader' \in headers'
        BY <2>1, AcceptHeadersFacts, Zenon
    <2>3. have \subseteq have' /\ have' \subseteq headers' /\ failed' \subseteq headers'
        BY <2>1, <2>2, Zenon DEF IndexInv
    <2>4. PICK n \in Nat : \A c \in have : Height[c] <= n
        BY Zenon DEF IndexInv
    <2>5. PICK m \in Nat : \A c \in have' : Height[c] <= m
        <3>1. Height[b] \in Nat /\ have \subseteq Block
            BY AncFacts, Zenon DEF IndexInv
        <3>2. \A c \in have : Height[c] \in Nat
            BY <3>1, AncFacts, Zenon
        <3>3. CASE Height[b] <= n
            BY <2>1, <2>4, <3>3, Zenon
        <3>4. CASE ~(Height[b] <= n)
            <4>1. \A c \in have : Height[c] <= Height[b]
                BY <2>4, <3>1, <3>2, <3>4
            <4>2. Height[b] <= Height[b]
                BY <3>1
            <4> QED
                BY <2>1, <3>1, <4>1, <4>2, Zenon
        <3> QED
            BY <3>3, <3>4, Zenon
    <2> DEFINE higher == {c \in {d \in have' : Anc[d] \subseteq have'} : Height[c] > Height[tip]}
    <2>6. tip' = IF higher = {} THEN tip ELSE Highest(higher)
        BY <2>1, Zenon DEF Activate
    <2>7. higher \in SUBSET Block /\ \A c \in higher : Height[c] <= m
        BY <2>2, <2>3, <2>5, Zenon
    <2>8. higher # {} => Highest(higher) \in higher
        <3> HIDE DEF higher
        <3> QED
            BY <2>7, HighestFacts, Zenon
    <2>9. tip' \in headers' /\ Anc[tip'] \subseteq have'
        <3>1. CASE higher = {}
            BY <2>2, <2>3, <2>6, <3>1, Zenon DEF IndexInv, HaveTxsDownloaded
        <3>2. CASE higher # {}
            BY <2>3, <2>6, <2>8, <3>2, Zenon
        <3> QED
            BY <3>1, <3>2, Zenon
    <2>10. ibd' \in BOOLEAN
        BY <2>1, Zenon
    <2> QED
        BY <2>2, <2>3, <2>5, <2>9, <2>10, Zenon DEF IndexInv, HaveTxsDownloaded
<1> QED
    BY <1>1, <1>2, Zenon

\* What is known of a peer stays in an index that grows.
LEMMA SameKnown ==
    ASSUME KnownInv, UNCHANGED known, headers \subseteq headers'
    PROVE  KnownInv'
BY DEF KnownInv, known

LEMMA SameCommon ==
    ASSUME CommonInv, UNCHANGED common, headers \subseteq headers', have \subseteq have'
    PROVE  CommonInv'
<1>1. common' \in [Peer -> headers' \cup {None}]
    BY DEF CommonInv
<1> QED
    BY <1>1, Zenon DEF CommonInv, CommonIsFull, HaveTxsDownloaded

LEMMA BetterFacts ==
    ASSUME NEW S, NEW b \in S, NEW old \in S \cup {None}
    PROVE  Better(b, old) \in S \cup {None}
BY Zenon DEF Better

LEMMA BestNowFacts ==
    ASSUME KnownInv, NEW p \in Peer, NEW hs, headers \subseteq hs
    PROVE  BestNow(p, hs) \in hs \cup {None} /\ UnknownNow(p, hs) \in Block \cup {None}
<1>1. best[p] \in hs \cup {None} /\ unknown[p] \in Block \cup {None}
    BY Zenon DEF KnownInv
<1>2. unknown[p] \in hs => Better(unknown[p], best[p]) \in hs \cup {None}
    BY <1>1, BetterFacts, Zenon
<1> QED
    BY <1>1, <1>2, Zenon DEF BestNow, UnknownNow

LEMMA AvailabilityKeepsKnown ==
    ASSUME KnownInv, NEW p \in Peer, NEW b \in Block, headers \subseteq headers',
           UpdateBlockAvailability(p, b)
    PROVE  KnownInv'
<1> DEFINE now == IF b \in headers' THEN Better(b, BestNow(p, headers')) ELSE BestNow(p, headers')
           un == IF b \in headers' THEN UnknownNow(p, headers') ELSE b
<1>1. BestNow(p, headers') \in headers' \cup {None} /\ UnknownNow(p, headers') \in Block \cup {None}
    BY BestNowFacts, Zenon
<1>2. now \in headers' \cup {None} /\ un \in Block \cup {None}
    BY <1>1, BetterFacts, Zenon
<1>3. best' = [best EXCEPT ![p] = now] /\ unknown' = [unknown EXCEPT ![p] = un]
    BY Zenon DEF UpdateBlockAvailability
<1> HIDE DEF now, un
<1> QED
    BY <1>2, <1>3 DEF KnownInv
-----------------------------------------------------------------------------
(* Asking for blocks                                                        *)

\* The lowest free blocks of a branch, as many as the node has room for.
LEMMA AskedSound ==
    ASSUME Sound(flight, connected), NEW p \in Peer, p \in connected, NEW to \in Block,
           NEW bs \in SUBSET Anc[to], \A b \in bs : Free(b)
    PROVE  LET t == MarkBlocksAsInFlight(flight, p, First(Room(p), bs))
           IN  Sound(t, connected) /\ \A q \in Peer : flight.queue[q] \subseteq t.queue[q]
<1> DEFINE F == First(Room(p), bs)
<1>1. flight \in Flights /\ flight.count[p] <= MaxInTransit
    BY Zenon DEF Sound
<1>2. flight.count[p] \in Nat /\ MaxInTransit \in Nat
    BY <1>1, PeerAssumption DEF Flights
<1>3. Room(p) \in Nat /\ Room(p) = MaxInTransit - flight.count[p]
    BY <1>1, <1>2 DEF Room
<1>4. F \subseteq bs /\ IsFiniteSet(F) /\ Cardinality(F) \in Nat /\ Cardinality(F) <= Room(p)
    BY <1>3, FirstFacts, Zenon
<1> HIDE DEF F
<1>5. flight.count[p] + Cardinality(F) <= MaxInTransit
    BY <1>2, <1>3, <1>4
<1>6. F \in SUBSET Block /\ \A b \in F : flight.from[b] = None
    BY <1>4, AncFacts, Zenon DEF Free
<1>7. /\ Sound(MarkBlocksAsInFlight(flight, p, F), connected)
      /\ \A q \in Peer : flight.queue[q] \subseteq MarkBlocksAsInFlight(flight, p, F).queue[q]
    BY <1>4, <1>5, <1>6, MarkedSound
<1> QED
    BY <1>7, Zenon DEF F

LEMMA DirectFetchSound ==
    ASSUME Sound(flight, connected), NEW p \in Peer, p \in connected, NEW b \in Block,
           DirectFetch(p, b)
    PROVE  Sound(flight', connected)
<1> DEFINE want == {a \in Anc[b] \ Anc[tip] : Free(a)}
<1>1. \/ flight' = MarkBlocksAsInFlight(flight, p, First(Room(p), want))
      \/ flight' = flight
    BY Zenon DEF DirectFetch
<1>2. want \in SUBSET Anc[b] /\ \A a \in want : Free(a)
    BY Zenon
<1> HIDE DEF want
<1>3. Sound(MarkBlocksAsInFlight(flight, p, First(Room(p), want)), connected)
    BY <1>2, AskedSound, Zenon
<1> QED
    BY <1>1, <1>3, Zenon

\* pindexLastCommonBlock starts at a block that both have in full.
LEMMA CommonStartFacts ==
    ASSUME IndexInv, CommonInv, NEW p \in Peer, NEW to \in Block
    PROVE  CommonStart(p, to) \in Block /\ Anc[CommonStart(p, to)] \subseteq have
<1> DEFINE h == IF Height[to] < Height[tip] THEN Height[to] ELSE Height[tip]
           guess == AncestorAt(tip, h)
           start == IF common[p] = None THEN guess ELSE common[p]
<1>1. tip \in Block /\ Anc[tip] \subseteq have /\ have \subseteq Block /\ headers \subseteq Block
    BY Zenon DEF IndexInv, HaveTxsDownloaded
<1>2. Height[to] \in Nat /\ Height[tip] \in Nat
    BY <1>1, AncFacts, Zenon
<1>3. h \in 0..Height[tip]
    BY <1>2
<1> HIDE DEF h
<1>4. guess \in Anc[tip]
    BY <1>1, <1>3, TreeAssumption, Zenon DEF AncestorAt
<1> HIDE DEF guess
<1>5. start \in Block /\ Anc[start] \subseteq have
    <2>1. CASE common[p] = None
        BY <1>1, <1>4, <2>1, AncFacts, Zenon
    <2>2. CASE common[p] # None
        BY <1>1, <2>2, Zenon DEF CommonInv, CommonIsFull, HaveTxsDownloaded
    <2> QED
        BY <2>1, <2>2, Zenon
<1> HIDE DEF start
<1>6. LastCommonAncestor(start, to) \in Anc[start]
    BY <1>5, LastCommonAncestorFacts, Zenon
<1>7. LastCommonAncestor(start, to) \in Block /\ Anc[LastCommonAncestor(start, to)] \subseteq have
    BY <1>5, <1>6, AncFacts, Zenon
<1> QED
    BY <1>7, Zenon DEF CommonStart, start, guess, h

\* The walk moves it only over blocks that are here in full.
LEMMA AdvancedFacts ==
    ASSUME IndexInv, NEW from \in Block, Anc[from] \subseteq have, NEW to \in Block
    PROVE  /\ Advanced(from, Walk(from, to)) \in have
           /\ Anc[Advanced(from, Walk(from, to))] \subseteq have
<1> DEFINE done == {b \in Walk(from, to) : ~Missing(b) /\ HaveTxsDownloaded(b)}
<1>1. /\ done \in SUBSET Block /\ \A b \in done : Anc[b] \subseteq have /\ b \in have
      /\ Height[to] \in Nat /\ \A b \in done : Height[b] <= Height[to]
    BY AncFacts, Zenon DEF Walk, HaveTxsDownloaded
<1>2. Advanced(from, Walk(from, to)) = IF done = {} THEN from ELSE Highest(done)
    BY Zenon DEF Advanced
<1> HIDE DEF done
<1>3. done # {} => Highest(done) \in done
    BY <1>1, HighestFacts, Zenon
<1>4. from \in have
    BY AncFacts, Zenon
<1> QED
    BY <1>1, <1>2, <1>3, <1>4, Zenon

\* A peer that is taken to stall has a block in flight.
LEMMA StallerFacts ==
    ASSUME Sound(flight, connected), NEW p \in Peer, NEW from \in Block, NEW to \in Block
    PROVE  \A q \in Staller(p, from, Walk(from, to)) : q \in Peer /\ flight.queue[q] # {}
<1> DEFINE waiting == {b \in Walk(from, to) : Missing(b) /\ flight.from[b] # None}
<1> SUFFICES ASSUME NEW q \in Staller(p, from, Walk(from, to))
             PROVE  q \in Peer /\ flight.queue[q] # {}
    BY Zenon
<1>1. PICK b \in First(1, waiting) : q = flight.from[b]
    BY Zenon DEF Staller
<1>2. b \in waiting
    BY <1>1, Zenon DEF First
<1>3. b \in Block /\ flight.from[b] # None
    BY <1>2, AncFacts, Zenon DEF Walk
<1>4. flight \in Flights
    BY Zenon DEF Sound
<1>5. q \in Peer
    BY <1>1, <1>3, <1>4 DEF Flights
<1>6. flight.queue[q] = {a \in Block : flight.from[a] = q}
    BY <1>5, Zenon DEF Sound
<1> QED
    BY <1>1, <1>3, <1>5, <1>6, Zenon

\* More peers that stall.
LEMMA StallingSound ==
    ASSUME NEW s, NEW c, Sound(s, c), NEW new \in SUBSET Peer, \A q \in new : s.queue[q] # {}
    PROVE  Sound([s EXCEPT !.stalling = @ \cup new], c)
<1> DEFINE t == [s EXCEPT !.stalling = @ \cup new]
<1>1. s \in Flights
    BY Zenon DEF Sound
<1>2. t \in Flights
    BY <1>1 DEF Flights
<1>3. /\ t.from = s.from /\ t.queue = s.queue /\ t.count = s.count /\ t.partial = s.partial
      /\ t.peers = s.peers /\ t.stalling = s.stalling \cup new
    BY <1>1 DEF Flights
<1> HIDE DEF t
<1>4. Busy(t) = Busy(s)
    BY <1>3, Zenon DEF Busy
<1>5. \A q \in t.stalling : t.queue[q] # {}
    BY <1>3, Zenon DEF Sound
<1>6. \A p \in Peer : /\ t.queue[p] = {b \in Block : t.from[b] = p}
                      /\ IsFiniteSet(t.queue[p]) /\ t.count[p] = Cardinality(t.queue[p])
                      /\ t.count[p] <= MaxInTransit
                      /\ t.queue[p] # {} => p \in c
    BY <1>3 DEF Sound
<1>7. t.partial \subseteq {b \in Block : t.from[b] # None}
    BY <1>3, Zenon DEF Sound
<1>8. IsFiniteSet(Busy(t)) /\ t.peers = Cardinality(Busy(t))
    BY <1>3, <1>4, Zenon DEF Sound
<1> QED
    BY <1>2, <1>5, <1>6, <1>7, <1>8, Zenon DEF Sound, t

\* FindNextBlocksToDownload and what SendMessages does with its result.
LEMMA FindKeeps ==
    ASSUME IndexInv, NodesInv, KnownInv, CommonInv, Sound(flight, connected),
           NEW p \in Peer, p \in connected, FindNextBlocksToDownload(p), UNCHANGED index
    PROVE  KnownInv' /\ CommonInv' /\ Sound(flight', connected)
<1> DEFINE to == BestNow(p, headers)
<1>0. IndexInv' /\ headers' = headers /\ have' = have
    BY SameIndex, Zenon DEF index
<1>1. to \in headers \cup {None} /\ UnknownNow(p, headers) \in Block \cup {None}
    BY BestNowFacts, Zenon
<1>2. /\ best' = [best EXCEPT ![p] = to] /\ unknown' = [unknown EXCEPT ![p] = UnknownNow(p, headers)]
      /\ \/ UNCHANGED <<common, flight>>
         \/ /\ to # None
            /\ Walked(p, CommonStart(p, to), Walk(CommonStart(p, to), to))
    BY Zenon DEF FindNextBlocksToDownload
<1> HIDE DEF to
<1>3. KnownInv'
    BY <1>0, <1>1, <1>2 DEF KnownInv
<1>4. CASE UNCHANGED <<common, flight>>
    BY <1>0, <1>3, <1>4, SameCommon, Zenon
<1>5. CASE to # None /\ Walked(p, CommonStart(p, to), Walk(CommonStart(p, to), to))
    <2> DEFINE from == CommonStart(p, to)
               walk == Walk(from, to)
               free == {b \in walk : Free(b) /\ Height[b] <= Height[from] + Window}
               marked == MarkBlocksAsInFlight(flight, p, First(Room(p), free))
    <2>1. to \in Block
        BY <1>1, <1>5, Zenon DEF IndexInv
    <2>2. from \in Block /\ Anc[from] \subseteq have
        BY <2>1, CommonStartFacts, Zenon
    <2>3. /\ common' = [common EXCEPT ![p] = Advanced(from, walk)]
          /\ \/ flight' = [marked EXCEPT !.stalling = @ \cup Staller(p, from, walk)]
             \/ flight' = [marked EXCEPT !.stalling = @ \cup {}]
        BY <1>5, Zenon DEF Walked, ToDownload
    <2>4. Advanced(from, walk) \in have /\ Anc[Advanced(from, walk)] \subseteq have
        BY <2>1, <2>2, AdvancedFacts, Zenon
    <2>5. free \in SUBSET Anc[to] /\ \A b \in free : Free(b)
        BY Zenon DEF Walk
    <2>6. \A q \in Staller(p, from, walk) : q \in Peer /\ flight.queue[q] # {}
        BY <2>1, <2>2, StallerFacts, Zenon
    <2> HIDE DEF free, walk, from
    <2>7. Sound(marked, connected) /\ \A q \in Peer : flight.queue[q] \subseteq marked.queue[q]
        BY <2>1, <2>5, AskedSound, Zenon
    <2> HIDE DEF marked
    <2>8. Sound(flight', connected)
        <3>1. Staller(p, from, walk) \in SUBSET Peer /\ \A q \in Staller(p, from, walk) : marked.queue[q] # {}
            BY <2>6, <2>7, Zenon
        <3>2. Sound([marked EXCEPT !.stalling = @ \cup Staller(p, from, walk)], connected)
            BY <2>7, <3>1, StallingSound, Zenon
        <3>3. Sound([marked EXCEPT !.stalling = @ \cup {}], connected)
            BY <2>7, StallingSound, Zenon
        <3> QED
            BY <2>3, <3>2, <3>3, Zenon
    <2>9. CommonInv'
        <3>1. have \subseteq headers
            BY Zenon DEF IndexInv
        <3>2. common' \in [Peer -> headers \cup {None}]
            BY <2>3, <2>4, <3>1 DEF CommonInv
        <3>3. \A q \in Peer : common'[q] = IF q = p THEN Advanced(from, walk) ELSE common[q]
            BY <2>3 DEF CommonInv
        <3>4. \A q \in Peer : common'[q] # None => Anc[common'[q]] \subseteq have
            BY <2>4, <3>3, Zenon DEF CommonInv, CommonIsFull, HaveTxsDownloaded
        <3> QED
            BY <1>0, <3>2, <3>4, Zenon DEF CommonInv, CommonIsFull, HaveTxsDownloaded
    <2> QED
        BY <1>3, <2>8, <2>9, Zenon
<1> QED
    BY <1>2, <1>4, <1>5, Zenon
-----------------------------------------------------------------------------
(* The steps                                                                *)

LEMMA InitIInv == Init => IInv
<1> SUFFICES ASSUME Init PROVE IInv
    BY Zenon
<1>1. IndexInv
    <2>1. headers = {Genesis} /\ have = {Genesis} /\ failed = {} /\ tip = Genesis /\ bestHeader = Genesis
        BY Zenon DEF Init
    <2>2. Genesis \in Block /\ Anc[Genesis] = {Genesis} /\ Height[Genesis] \in Nat
        BY TreeAssumption, Zenon
    <2>3. ibd \in BOOLEAN
        BY Zenon DEF Init
    <2>4. Height[Genesis] <= Height[Genesis]
        BY <2>2
    <2> QED
        BY <2>1, <2>2, <2>3, <2>4, Zenon DEF IndexInv, HaveTxsDownloaded
<1>2. NodesInv
    BY Zenon DEF Init, NodesInv
<1>3. KnownInv /\ CommonInv
    <2>1. /\ best = [p \in Peer |-> None] /\ unknown = [p \in Peer |-> None]
          /\ common = [p \in Peer |-> None]
        BY Zenon DEF Init
    <2> QED
        BY <2>1 DEF KnownInv, CommonInv, CommonIsFull
<1>4. HandlingInv
    BY DEF Init, HandlingInv, Idle
<1>5. OutsideInv
    BY Zenon DEF Init, OutsideInv
<1>6. Sound(flight, connected)
    BY NothingSound, Zenon DEF Init
<1> QED
    BY <1>1, <1>2, <1>3, <1>4, <1>5, <1>6, Zenon DEF IInv

LEMMA AnnouncedFacts ==
    ASSUME OutsideInv, NEW p \in Peer
    PROVE  peerTip[p] \in Block /\ Announced(p) \subseteq Block
BY AncFacts, Zenon DEF OutsideInv, Announced

LEMMA SameHandling == ASSUME HandlingInv, UNCHANGED handling PROVE HandlingInv'
BY Zenon DEF HandlingInv

LEMMA HandleFacts ==
    ASSUME NEW p \in Peer \cup {None}, NEW b \in Block, NEW force \in BOOLEAN,
           NEW step \in {"idle", "process", "process and clear", "clear"},
           Handle(p, b, force, step)
    PROVE  HandlingInv'
<1>1. handling' = [peer |-> p, block |-> b, force |-> force, step |-> step]
    BY Zenon DEF Handle
<1> QED
    BY <1>1 DEF HandlingInv

LEMMA IdleFacts == ASSUME handling' = Idle PROVE HandlingInv'
BY DEF HandlingInv, Idle

LEMMA SameNodes == ASSUME NodesInv, UNCHANGED nodes, UNCHANGED syncStarted PROVE NodesInv'
BY Zenon DEF NodesInv, nodes

LEMMA ServedFacts ==
    ASSUME NodesInv, NEW p, Served(p)
    PROVE  p \in Peer /\ p \in connected
BY Zenon DEF NodesInv, Served

\* Punishment marks a node that is served.
LEMMA PunishFacts ==
    ASSUME NodesInv, NEW p \in connected, NEW invalid, Punish(p, invalid), UNCHANGED syncStarted
    PROVE  NodesInv' /\ connected' = connected
BY Zenon DEF NodesInv, Punish

\* The rounds of SendMessages.
LEMMA SendKeeps ==
    ASSUME IInv, NEW p \in Peer, Served(p), Download(p), UNCHANGED <<index, nodes, handling, outside>>,
           syncStarted' \subseteq connected
    PROVE  IInv'
<1>1. /\ IndexInv /\ NodesInv /\ KnownInv /\ CommonInv /\ HandlingInv /\ OutsideInv
      /\ Sound(flight, connected) /\ p \in connected
    BY ServedFacts, Zenon DEF IInv
<1>2. IndexInv' /\ headers \subseteq headers' /\ have \subseteq have'
    BY <1>1, SameIndex, Zenon
<1>3. UNCHANGED <<connected, fDisconnect, gone>>
    BY Zenon DEF nodes
<1>4. NodesInv'
    BY <1>1, <1>3, Zenon DEF NodesInv
<1>5. KnownInv' /\ CommonInv' /\ Sound(flight', connected)
    <2>1. CASE FindNextBlocksToDownload(p)
        BY <1>1, <2>1, FindKeeps, Zenon
    <2>2. CASE UNCHANGED <<known, common, flight>>
        BY <1>1, <1>2, <2>2, SameKnown, SameCommon, Zenon
    <2> QED
        BY <2>1, <2>2, Zenon DEF Download
<1>6. HandlingInv' /\ OutsideInv'
    BY <1>1, SameHandling, Zenon DEF OutsideInv, outside
<1> QED
    BY <1>2, <1>3, <1>4, <1>5, <1>6, Zenon DEF IInv

LEMMA SendMessagesKeeps ==
    ASSUME IInv, NEW p \in Peer, SendMessages(p) \/ SendMessagesResync(p) \/ SendMessagesTimeout(p)
    PROVE  IInv'
<1>0. /\ IndexInv /\ NodesInv /\ KnownInv /\ CommonInv /\ HandlingInv /\ OutsideInv
      /\ Sound(flight, connected)
    BY Zenon DEF IInv
<1>1. Served(p) => p \in connected /\ Syncing(p) \subseteq connected
    BY <1>0, ServedFacts, Zenon DEF NodesInv, Syncing
<1>2. CASE SendMessages(p)
    BY <1>1, <1>2, SendKeeps, Zenon DEF SendMessages
<1>3. CASE SendMessagesResync(p)
    BY <1>1, <1>3, SendKeeps, Zenon DEF SendMessagesResync
<1>4. CASE SendMessagesTimeout(p)
    <2>1. /\ Served(p) /\ syncStarted' = Syncing(p) /\ fDisconnect' = fDisconnect \cup {p}
          /\ UNCHANGED <<index, connected, gone, known, common, flight, handling, outside>>
        BY <1>4, Zenon DEF SendMessagesTimeout
    <2>2. NodesInv'
        BY <1>0, <1>1, <2>1, Zenon DEF NodesInv
    <2>3. IndexInv' /\ headers \subseteq headers' /\ have \subseteq have'
        BY <1>0, <2>1, SameIndex, Zenon
    <2>4. KnownInv' /\ CommonInv'
        BY <1>0, <2>1, <2>3, SameKnown, SameCommon, Zenon
    <2>5. HandlingInv' /\ OutsideInv'
        BY <1>0, <2>1, SameHandling, Zenon DEF OutsideInv, outside
    <2> QED
        BY <1>0, <2>1, <2>2, <2>3, <2>4, <2>5, Zenon DEF IInv
<1> QED
    BY <1>2, <1>3, <1>4, Zenon

\* Headers and announcements.
LEMMA ProcessHeadersKeeps ==
    ASSUME IInv, NEW p \in Peer, p \in connected, NEW b \in Block, ProcessHeaders(p, b),
           UNCHANGED <<have, failed, tip, ibd>>
    PROVE  IndexInv' /\ headers \subseteq headers' /\ KnownInv' /\ Sound(flight', connected)
<1>0. IndexInv /\ KnownInv /\ Sound(flight, connected)
    BY Zenon DEF IInv
<1>1. CASE AcceptHeaders(b) /\ UpdateBlockAvailability(p, b) /\ DirectFetch(p, b)
    BY <1>0, <1>1, AcceptHeadersFacts, HeadersKeepIndex, AvailabilityKeepsKnown, DirectFetchSound, Zenon
<1>2. CASE UNCHANGED <<headers, bestHeader, known, flight>>
    <2>1. UNCHANGED index
        BY <1>2, Zenon DEF index
    <2>2. IndexInv' /\ headers \subseteq headers'
        BY <1>0, <2>1, SameIndex, Zenon
    <2> QED
        BY <1>0, <1>2, <2>2, SameKnown, Zenon
<1> QED
    BY <1>1, <1>2, Zenon DEF ProcessHeaders

LEMMA HeadersKeep ==
    ASSUME IInv, NEW p \in Peer, Served(p), NEW b \in Block,
           \/ ProcessHeaders(p, b)
           \/ UNCHANGED <<headers, bestHeader, flight>> /\ UpdateBlockAvailability(p, b),
           UNCHANGED <<have, failed, tip, ibd, nodes, common, syncStarted, handling, outside>>
    PROVE  IInv'
<1>0. /\ IndexInv /\ NodesInv /\ KnownInv /\ CommonInv /\ HandlingInv /\ OutsideInv
      /\ Sound(flight, connected) /\ p \in connected
    BY ServedFacts, Zenon DEF IInv
<1>1. IndexInv' /\ headers \subseteq headers' /\ KnownInv' /\ Sound(flight', connected)
    <2>1. CASE ProcessHeaders(p, b)
        BY <1>0, <2>1, ProcessHeadersKeeps, Zenon
    <2>2. CASE UNCHANGED <<headers, bestHeader, flight>> /\ UpdateBlockAvailability(p, b)
        <3>1. UNCHANGED index
            BY <2>2, Zenon DEF index
        <3>2. IndexInv' /\ headers \subseteq headers'
            BY <1>0, <3>1, SameIndex, Zenon
        <3> QED
            BY <1>0, <2>2, <3>2, AvailabilityKeepsKnown, Zenon
    <2> QED
        BY <2>1, <2>2, Zenon
<1>2. CommonInv'
    BY <1>0, <1>1, SameCommon, Zenon
<1>3. NodesInv' /\ connected' = connected
    BY <1>0, SameNodes, Zenon DEF nodes
<1>4. HandlingInv' /\ OutsideInv'
    BY <1>0, SameHandling, Zenon DEF OutsideInv, outside
<1> QED
    BY <1>1, <1>2, <1>3, <1>4, Zenon DEF IInv
LEMMA MessageHeadersKeep ==
    ASSUME IInv, NEW p \in Peer,
           \/ Headers(p)
           \/ \E b \in Announced(p) : HeaderAnnounced(p, b) \/ Inv(p, b)
    PROVE  IInv'
<1>0. OutsideInv
    BY Zenon DEF IInv
<1>1. peerTip[p] \in Block /\ Announced(p) \subseteq Block
    BY <1>0, AnnouncedFacts, Zenon
<1>2. CASE Headers(p)
    BY <1>1, <1>2, HeadersKeep, Zenon DEF Headers
<1>3. ASSUME NEW b \in Announced(p), HeaderAnnounced(p, b)
      PROVE  IInv'
    BY <1>1, <1>3, HeadersKeep, Zenon DEF HeaderAnnounced
<1>4. ASSUME NEW b \in Announced(p), Inv(p, b)
      PROVE  IInv'
    BY <1>1, <1>4, HeadersKeep, Zenon DEF Inv
<1> QED
    BY <1>2, <1>3, <1>4, Zenon

\* A step of the message thread that leaves the index and the nodes as they are.
LEMMA FlightKeeps ==
    ASSUME IInv, UNCHANGED <<index, known, common, outside>>,
           NodesInv', connected' = connected, HandlingInv', Sound(flight', connected)
    PROVE  IInv'
<1>1. IndexInv' /\ headers \subseteq headers' /\ have \subseteq have'
    BY SameIndex, Zenon DEF IInv
<1>2. KnownInv' /\ CommonInv'
    BY <1>1, SameKnown, SameCommon, Zenon DEF IInv
<1>3. OutsideInv'
    BY Zenon DEF IInv, OutsideInv, outside
<1> QED
    BY <1>1, <1>2, <1>3, Zenon DEF IInv

LEMMA BlockMessageKeeps ==
    ASSUME IInv, NEW p \in Peer, NEW b \in Block, BlockMessage(p, b)
    PROVE  IInv'
<1>1. Sound(flight', connected)
    BY ReceivedSound, Zenon DEF IInv, BlockMessage
<1>2. NodesInv' /\ connected' = connected
    BY SameNodes, Zenon DEF IInv, BlockMessage, nodes
<1>3. (flight.from[b] # None) \in BOOLEAN
    OBVIOUS
<1>4. HandlingInv'
    <2>1. Handle(p, b, flight.from[b] # None, "process")
        BY Zenon DEF BlockMessage
    <2> HIDE DEF Handle
    <2> QED
        BY <1>3, <2>1, HandleFacts
<1> QED
    BY <1>1, <1>2, <1>4, FlightKeeps, Zenon DEF BlockMessage

\* ProcessNewBlock, from the message thread or the miner.
LEMMA ProcessKeeps ==
    ASSUME IInv, NEW b \in Block, NEW force, ProcessBlock(b, force), HandlingInv',
           UNCHANGED <<nodes, known, common, syncStarted, flight, outside>>
    PROVE  IInv'
<1>1. IndexInv' /\ headers \subseteq headers' /\ have \subseteq have'
    BY ProcessBlockKeepsIndex, Zenon DEF IInv
<1>2. KnownInv' /\ CommonInv'
    BY <1>1, SameKnown, SameCommon, Zenon DEF IInv
<1>3. OutsideInv'
    BY Zenon DEF IInv, OutsideInv, outside
<1>4. NodesInv' /\ connected' = connected
    BY SameNodes, Zenon DEF IInv, nodes
<1> QED
    BY <1>1, <1>2, <1>3, <1>4, Zenon DEF IInv

LEMMA HandleBlockKeeps ==
    ASSUME IInv, HandleBlock
    PROVE  IInv'
<1>1. HandlingInv /\ handling.step \in {"process", "process and clear"}
    BY Zenon DEF IInv, HandleBlock
<1>2. handling.step # "idle"
    BY <1>1
<1>3. handling.block \in Block /\ handling.peer \in Peer \cup {None}
    BY <1>1, <1>2 DEF HandlingInv
<1>4. HandlingInv'
    <2>1. CASE handling' = Idle
        BY <2>1, IdleFacts, Zenon
    <2>2. CASE Handle(handling.peer, handling.block, FALSE, "clear")
        BY <1>3, <2>2, HandleFacts
    <2> QED
        BY <2>1, <2>2, Zenon DEF HandleBlock
<1> QED
    BY <1>3, <1>4, ProcessKeeps, Zenon DEF HandleBlock

LEMMA HandleClearKeeps ==
    ASSUME IInv, HandleClear
    PROVE  IInv'
<1>1. HandlingInv /\ handling.step = "clear" /\ Sound(flight, connected)
    BY Zenon DEF IInv, HandleClear
<1>2. handling.block \in Block
    <2>1. handling.step # "idle"
        BY <1>1
    <2> QED
        BY <1>1, <2>1, Zenon DEF HandlingInv
<1>3. Sound(flight', connected)
    BY <1>1, <1>2, ReceivedSound, Zenon DEF HandleClear
<1>4. HandlingInv'
    BY IdleFacts, Zenon DEF HandleClear
<1>5. NodesInv' /\ connected' = connected
    BY SameNodes, Zenon DEF IInv, HandleClear, nodes
<1> QED
    BY <1>3, <1>4, <1>5, FlightKeeps, Zenon DEF HandleClear

\* Compact blocks: the header is taken as from any announcement.
LEMMA CompactKeeps ==
    ASSUME IInv, NEW p \in Peer, NEW b \in Block, Compact(p, b),
           NodesInv', connected' = connected, HandlingInv', Sound(flight', connected)
    PROVE  IInv'
<1>1. /\ AcceptHeaders(b) /\ UpdateBlockAvailability(p, b)
      /\ UNCHANGED <<have, failed, tip, ibd, common, syncStarted, outside>>
    BY Zenon DEF Compact
<1>2. IndexInv' /\ headers \subseteq headers' /\ have \subseteq have'
    BY <1>1, AcceptHeadersFacts, HeadersKeepIndex, Zenon DEF IInv
<1>3. KnownInv' /\ CommonInv'
    BY <1>1, <1>2, AvailabilityKeepsKnown, SameCommon, Zenon DEF IInv
<1>4. OutsideInv'
    BY <1>1, Zenon DEF IInv, OutsideInv, outside
<1> QED
    BY <1>2, <1>3, <1>4, Zenon DEF IInv

LEMMA PartialSound ==
    ASSUME NEW s, NEW c, Sound(s, c), NEW b \in Block, s.from[b] # None
    PROVE  Sound([s EXCEPT !.partial = @ \cup {b}], c)
<1> DEFINE t == [s EXCEPT !.partial = @ \cup {b}]
<1>0. s \in Flights
    BY Zenon DEF Sound
<1>1. /\ t.from = s.from /\ t.queue = s.queue /\ t.count = s.count /\ t.peers = s.peers
      /\ t.stalling = s.stalling /\ t.partial = s.partial \cup {b}
      /\ t \in Flights
    BY <1>0 DEF Flights
<1> HIDE DEF t
<1>2. Busy(t) = Busy(s)
    BY <1>1, Zenon DEF Busy
<1>3. t.partial \subseteq {a \in Block : t.from[a] # None}
    BY <1>1, Zenon DEF Sound
<1>4. Sound(t, c)
    BY <1>1, <1>2, <1>3 DEF Sound
<1> QED
    BY <1>4, Zenon DEF t

LEMMA CompactPartialKeeps ==
    ASSUME IInv, NEW p \in Peer, NEW b \in Block, NEW status, CompactPartial(p, b, status)
    PROVE  IInv'
<1> DEFINE asked == MarkBlockAsInFlight(flight, p, b)
           s == [asked EXCEPT !.partial = @ \cup {b}]
<1>1. /\ MayAsk(p, b) /\ Compact(p, b) /\ Punish(p, status = "invalid")
      /\ flight' = MarkBlockAsReceived(s, b) \/ flight' = s
      /\ Handle(p, b, TRUE, "process") \/ UNCHANGED handling
    BY Zenon DEF CompactPartial
<1>2. Served(p) /\ UNCHANGED syncStarted
    BY <1>1, Zenon DEF Compact
<1>3. NodesInv /\ Sound(flight, connected) /\ HandlingInv
    BY Zenon DEF IInv
<1>4. p \in connected
    BY <1>2, <1>3, ServedFacts, Zenon
<1>5. flight.from[b] = p \/ (flight.from[b] = None /\ flight.count[p] < MaxInTransit)
    BY <1>1, Zenon DEF MayAsk, InFlight
<1>6. Sound(asked, connected) /\ asked.from[b] = p
    BY <1>3, <1>4, <1>5, InFlightSound
<1> HIDE DEF asked
<1>7. p # None
    BY AncFacts, Zenon
<1>8. Sound(s, connected)
    BY <1>6, <1>7, PartialSound, Zenon
<1> HIDE DEF s
<1>9. Sound(flight', connected)
    BY <1>1, <1>8, ReceivedSound, Zenon
<1>10. NodesInv' /\ connected' = connected
    BY <1>1, <1>2, <1>3, <1>4, PunishFacts, Zenon
<1>11. HandlingInv'
    <2>1. CASE Handle(p, b, TRUE, "process")
        BY <2>1, HandleFacts
    <2>2. CASE UNCHANGED handling
        BY <1>3, <2>2, SameHandling, Zenon
    <2> QED
        BY <1>1, <2>1, <2>2, Zenon
<1> QED
    BY <1>1, <1>9, <1>10, <1>11, CompactKeeps, Zenon
LEMMA CompactOtherKeeps ==
    ASSUME IInv, NEW p \in Peer, NEW b \in Block,
           \/ CompactInstead(p, b) \/ CompactIgnored(p, b)
           \/ CompactReconstructed(p, b) \/ CompactFar(p, b)
    PROVE  IInv'
<1>0. NodesInv /\ Sound(flight, connected) /\ HandlingInv
    BY Zenon DEF IInv
<1>1. Compact(p, b) /\ UNCHANGED nodes
    BY Zenon DEF CompactInstead, CompactIgnored, CompactReconstructed, CompactFar
<1>2. Served(p) /\ UNCHANGED syncStarted
    BY <1>1, Zenon DEF Compact
<1>3. NodesInv' /\ connected' = connected /\ p \in connected
    BY <1>0, <1>1, <1>2, SameNodes, ServedFacts, Zenon DEF nodes
<1>4. HandlingInv'
    <2>1. CASE CompactReconstructed(p, b)
        <3>1. Handle(p, b, TRUE, "process and clear")
            BY <2>1, Zenon DEF CompactReconstructed
        <3> QED
            BY <3>1, HandleFacts
    <2>2. CASE UNCHANGED handling
        BY <1>0, <2>2, SameHandling, Zenon
    <2> QED
        BY <2>1, <2>2, Zenon DEF CompactInstead, CompactIgnored, CompactFar
<1>5. Sound(flight', connected)
    <2>1. CASE DirectFetch(p, b)
        BY <1>0, <1>3, <2>1, DirectFetchSound, Zenon
    <2>2. CASE UNCHANGED flight
        BY <1>0, <2>2, Zenon
    <2> QED
        BY <2>1, <2>2, Zenon DEF CompactInstead, CompactIgnored, CompactReconstructed, CompactFar
<1> QED
    BY <1>1, <1>3, <1>4, <1>5, CompactKeeps, Zenon

LEMMA BlockTxnKeeps ==
    ASSUME IInv, NEW p \in Peer, NEW b \in Block, NEW status, BlockTxn(p, b, status)
    PROVE  IInv'
<1>1. /\ Served(p) /\ Punish(p, status = "invalid")
      /\ flight' = MarkBlockAsReceived(flight, b) \/ flight' = flight
      /\ Handle(p, b, TRUE, "process") \/ UNCHANGED handling
      /\ UNCHANGED <<index, known, common, syncStarted, outside>>
    BY Zenon DEF BlockTxn
<1>2. NodesInv /\ Sound(flight, connected) /\ HandlingInv
    BY Zenon DEF IInv
<1>3. p \in connected
    BY <1>1, <1>2, ServedFacts, Zenon
<1>4. Sound(flight', connected)
    BY <1>1, <1>2, ReceivedSound, Zenon
<1>5. NodesInv' /\ connected' = connected
    BY <1>1, <1>2, <1>3, PunishFacts, Zenon
<1>6. HandlingInv'
    <2>1. CASE Handle(p, b, TRUE, "process")
        BY <2>1, HandleFacts
    <2>2. CASE UNCHANGED handling
        BY <1>2, <2>2, SameHandling, Zenon
    <2> QED
        BY <1>1, <2>1, <2>2, Zenon
<1> QED
    BY <1>1, <1>4, <1>5, <1>6, FlightKeeps, Zenon

\* Nodes come and go: with a node goes all that was in flight from it.
LEMMA NodesKeep ==
    ASSUME IInv, NEW p \in Peer, InitializeNode(p) \/ Disconnect(p) \/ FinalizeNode(p)
    PROVE  IInv'
<1>0. /\ IndexInv /\ NodesInv /\ KnownInv /\ CommonInv /\ HandlingInv /\ OutsideInv
      /\ Sound(flight, connected)
    BY Zenon DEF IInv
<1>1. UNCHANGED <<index, handling, outside>>
    BY Zenon DEF InitializeNode, Disconnect, FinalizeNode
<1>2. IndexInv' /\ headers \subseteq headers' /\ have \subseteq have'
    BY <1>0, <1>1, SameIndex, Zenon
<1>3. HandlingInv' /\ OutsideInv'
    BY <1>0, <1>1, SameHandling, Zenon DEF OutsideInv, outside
<1>4. CASE InitializeNode(p)
    <2>1. NodesInv'
        BY <1>0, <1>4, Zenon DEF InitializeNode, NodesInv
    <2>2. KnownInv' /\ CommonInv'
        BY <1>0, <1>2, <1>4, SameKnown, SameCommon, Zenon DEF InitializeNode
    <2>3. Sound(flight', connected')
        <3>1. flight' = flight /\ connected \subseteq connected'
            BY <1>4, Zenon DEF InitializeNode
        <3>2. Sound(flight, connected')
            BY <1>0, <3>1, Zenon DEF Sound
        <3> QED
            BY <3>1, <3>2, Zenon
    <2> QED
        BY <1>2, <1>3, <2>1, <2>2, <2>3, Zenon DEF IInv
<1>5. CASE Disconnect(p)
    <2>1. NodesInv'
        BY <1>0, <1>5, Zenon DEF Disconnect, NodesInv
    <2>2. KnownInv' /\ CommonInv'
        BY <1>0, <1>2, <1>5, SameKnown, SameCommon, Zenon DEF Disconnect
    <2>3. Sound(flight', connected')
        BY <1>0, <1>5, Zenon DEF Disconnect
    <2> QED
        BY <1>2, <1>3, <2>1, <2>2, <2>3, Zenon DEF IInv
<1>6. CASE FinalizeNode(p)
    <2>1. /\ connected' = connected \ {p} /\ fDisconnect' = fDisconnect \ {p}
          /\ gone' = gone \cup {p} /\ syncStarted' = syncStarted \ {p}
          /\ best' = [best EXCEPT ![p] = None] /\ unknown' = [unknown EXCEPT ![p] = None]
          /\ common' = [common EXCEPT ![p] = None]
          /\ flight' = EraseNode(flight, p)
        BY <1>6, Zenon DEF FinalizeNode
    <2>2. NodesInv'
        BY <1>0, <2>1, Zenon DEF NodesInv
    <2>3. KnownInv'
        BY <1>0, <1>2, <2>1 DEF KnownInv
    <2>4. common' \in [Peer -> headers' \cup {None}]
        BY <1>0, <1>2, <2>1 DEF CommonInv
    <2>5. \A q \in Peer : common'[q] = common[q] \/ common'[q] = None
        BY <1>0, <2>1 DEF CommonInv
    <2>6. CommonInv'
        BY <1>0, <1>2, <2>4, <2>5, Zenon DEF CommonInv, CommonIsFull, HaveTxsDownloaded
    <2>7. Sound(flight', connected')
        BY <1>0, <2>1, ErasedSound, Zenon
    <2> QED
        BY <1>2, <1>3, <2>2, <2>3, <2>6, <2>7, Zenon DEF IInv
<1> QED
    BY <1>4, <1>5, <1>6, Zenon

LEMMA SubmitBlockKeeps ==
    ASSUME IInv, NEW b \in Own, SubmitBlock(b)
    PROVE  IInv'
<1>1. b \in Block
    BY PeerAssumption, Zenon
<1>2. HandlingInv'
    BY SameHandling, Zenon DEF IInv, SubmitBlock
<1> QED
    BY <1>1, <1>2, ProcessKeeps, Zenon DEF SubmitBlock

LEMMA StutterKeeps == ASSUME IInv, UNCHANGED vars PROVE IInv'
<1>1. /\ UNCHANGED <<index, known, common, outside>>
      /\ UNCHANGED nodes /\ UNCHANGED syncStarted /\ UNCHANGED handling /\ flight' = flight
    BY Zenon DEF vars
<1>2. NodesInv' /\ connected' = connected /\ HandlingInv'
    BY <1>1, SameNodes, SameHandling, Zenon DEF IInv, nodes
<1>3. Sound(flight', connected)
    BY <1>1, Zenon DEF IInv
<1> QED
    BY <1>1, <1>2, <1>3, FlightKeeps, Zenon

LEMMA StepKeepsIInv == IInv /\ [Next]_vars => IInv'
<1> SUFFICES ASSUME IInv, [Next]_vars PROVE IInv'
    BY Zenon
<1>1. ASSUME NEW p \in Peer, NEW b \in Announced(p), Message(p, b)
      PROVE  IInv'
    <2>1. b \in Block
        BY AnnouncedFacts, Zenon DEF IInv
    <2>2. CASE HeaderAnnounced(p, b) \/ Inv(p, b)
        BY <2>2, MessageHeadersKeep, Zenon
    <2>3. CASE BlockMessage(p, b)
        BY <2>1, <2>3, BlockMessageKeeps, Zenon
    <2>4. CASE \/ CompactInstead(p, b) \/ CompactIgnored(p, b)
               \/ CompactReconstructed(p, b) \/ CompactFar(p, b)
        BY <2>1, <2>4, CompactOtherKeeps, Zenon
    <2>5. ASSUME NEW status, CompactPartial(p, b, status)
          PROVE  IInv'
        BY <2>1, <2>5, CompactPartialKeeps, Zenon
    <2>6. ASSUME NEW status, BlockTxn(p, b, status)
          PROVE  IInv'
        BY <2>1, <2>6, BlockTxnKeeps, Zenon
    <2> QED
        BY <1>1, <2>2, <2>3, <2>4, <2>5, <2>6, Zenon DEF Message
<1>2. ASSUME NEW p \in Peer, SendMessages(p) \/ SendMessagesResync(p) \/ SendMessagesTimeout(p)
      PROVE  IInv'
    BY <1>2, SendMessagesKeeps, Zenon
<1>3. ASSUME NEW p \in Peer, Headers(p)
      PROVE  IInv'
    BY <1>3, MessageHeadersKeep, Zenon
<1>4. ASSUME NEW p \in Peer, InitializeNode(p) \/ Disconnect(p) \/ FinalizeNode(p)
      PROVE  IInv'
    BY <1>4, NodesKeep, Zenon
<1>5. CASE HandleBlock
    BY <1>5, HandleBlockKeeps, Zenon
<1>6. CASE HandleClear
    BY <1>6, HandleClearKeeps, Zenon
<1>7. ASSUME NEW b \in Own, SubmitBlock(b)
      PROVE  IInv'
    BY <1>7, SubmitBlockKeeps, Zenon
<1>8. CASE UNCHANGED vars
    BY <1>8, StutterKeeps, Zenon
<1> QED
    BY <1>1, <1>2, <1>3, <1>4, <1>5, <1>6, <1>7, <1>8, Zenon DEF Next

LEMMA Invariance == Spec => []IInv
BY InitIInv, StepKeepsIInv, PTL DEF Spec

-----------------------------------------------------------------------------
(* The theorems                                                             *)

\* The state of the block download keeps its type: what is active, best known or
\* common has a header, a node that is to be disconnected or that headers are
\* synced from is a node of mapNodeState, and one that was finalized is not.
THEOREM DownloadTypes == Spec => []TypeOK
<1>1. IInv => TypeOK
    <2> SUFFICES ASSUME IInv PROVE TypeOK
        BY Zenon
    <2>1. flight \in Flights
        BY Zenon DEF IInv, Sound
    <2>2. {tip, bestHeader} \subseteq headers
        BY DEF IInv, IndexInv
    <2>3. peerTip \in [Peer -> Block]
        BY Zenon DEF IInv, OutsideInv
    <2> QED
        BY <2>1, <2>2, <2>3, Zenon
        DEF IInv, IndexInv, NodesInv, KnownInv, CommonInv, HandlingInv, TypeOK
<1> QED
    BY <1>1, Invariance, PTL

\* Whatever peers announce, send, withhold or reorder, and whenever they leave:
\* mapBlocksInFlight, the queues, nBlocksInFlight and nPeersWithValidatedDownloads
\* agree after every step, a block is in flight from at most one connected peer, and
\* no peer has more than MAX_BLOCKS_IN_TRANSIT_PER_PEER of them; so the asserts of
\* FinalizeNode hold when the last node goes.
THEOREM DownloadInFlightAgrees == Spec => []InFlightAgrees
<1>1. IInv => InFlightAgrees
    <2> SUFFICES ASSUME IInv PROVE InFlightAgrees
        BY Zenon
    <2>1. Sound(flight, connected)
        BY Zenon DEF IInv
    <2> QED
        BY <2>1 DEF Sound, Busy, InFlightAgrees, InFlight
<1> QED
    BY <1>1, Invariance, PTL

\* nStallingSince is set only while a block is in flight from the peer: a peer that
\* has sent all it owes is not disconnected for stalling the download.
THEOREM DownloadStallersOwe == Spec => []StallersOwe
<1>1. IInv => StallersOwe
    BY Zenon DEF IInv, Sound, StallersOwe
<1> QED
    BY <1>1, Invariance, PTL

\* pindexLastCommonBlock never passes a gap in the data: FindNextBlocksToDownload,
\* which starts above it, leaves out no block that is still to be downloaded.
THEOREM DownloadCommonIsFull == Spec => []CommonIsFull
<1>1. IInv => CommonIsFull
    BY Zenon DEF IInv, CommonInv
<1> QED
    BY <1>1, Invariance, PTL
=============================================================================

------------------------ MODULE GlobalHandles_proofs ------------------------
(***************************************************************************)
(* Proofs about GlobalHandles: types, the lists of free nodes, of blocks    *)
(* and of young nodes, and that no handle leads nowhere, for any number of  *)
(* blocks, nodes, objects and collections inside one another; then that a   *)
(* round forgets no node that it has to call back.                          *)
(***************************************************************************)
EXTENDS GlobalHandles, FiniteSetTheorems, WellFoundedInduction, TLAPS

----------------------------------------------------------------------------
(* Least and greatest elements of sets of naturals.                         *)

Below == {p \in Nat \X Nat : p[1] < p[2]}

\* The order of the naturals is well-founded.
LEMMA BelowWellFounded == IsWellFoundedOn(Below, Nat)
BY NatLessThanWellFounded DEF OpToRel, Below

\* A set of naturals that has an element has a least one.
LEMMA Least ==
  ASSUME NEW T \in SUBSET Nat, T # {}
  PROVE  \E x \in T : \A y \in T : x <= y
<1>1. PICK x \in T : \A y \in T : ~ (<<y, x>> \in Below)
  BY BelowWellFounded, WFMin, Zenon
<1>2. ASSUME NEW y \in T, y < x PROVE FALSE
  <2>1. <<y, x>> \in Below
    BY <1>2 DEF Below
  <2> QED BY <2>1, <1>1
<1> QED BY <1>2

\* One that is bounded has a greatest.
LEMMA Greatest ==
  ASSUME NEW T \in SUBSET Nat, T # {}, NEW bound \in Nat, \A x \in T : x <= bound
  PROVE  \E x \in T : \A y \in T : y <= x
<1> DEFINE U == {u \in Nat : u <= bound /\ bound - u \in T}
<1>1. U # {}
  <2>1. PICK x \in T : TRUE
    OBVIOUS
  <2>2. bound - x \in U
    BY <2>1
  <2> QED BY <2>2
<1>2. PICK u \in U : \A v \in U : u <= v
  BY <1>1, Least
<1>3. \A y \in T : bound - y \in U
  OBVIOUS
<1>4. \A y \in T : y <= bound - u
  BY <1>2, <1>3
<1> QED BY <1>2, <1>4

----------------------------------------------------------------------------
(* Linked lists.  Age is the number of elements behind one.                 *)

Chain(first, next, F, age) ==
  /\ \A x \in F : age[x] \in Nat
  /\ first = Null <=> F = {}
  /\ first # Null => first \in F /\ \A x \in F : age[x] <= age[first]
  /\ \A x \in F : next[x] = Null <=> age[x] = 0
  /\ \A x \in F : next[x] # Null => next[x] \in F /\ age[next[x]] = age[x] - 1
  /\ \A x, y \in F : age[x] = age[y] => x = y

\* A walk along a list meets its elements and no others.
LEMMA ChainWalk ==
  ASSUME NEW D, NEW next \in [D -> D \cup {Null}], Null \notin D,
         NEW first, NEW F \in SUBSET D, NEW age, Chain(first, next, F, age)
  PROVE  Walk(first, next) = F
<1> DEFINE Closed == {S \in SUBSET D : /\ first = Null \/ first \in S
                                       /\ \A y \in S : next[y] = Null \/ next[y] \in S}
<1>1. Walk(first, next) = {x \in D : \A S \in Closed : x \in S}
  BY Zenon DEF Walk
<1>2. F \in Closed
  BY DEF Chain
<1>3. ASSUME NEW S \in Closed, NEW x \in F, x \notin S PROVE FALSE
  <2> DEFINE T == {k \in Nat : \E y \in F : age[y] = k /\ y \notin S}
  <2>1. age[x] \in T
    BY <1>3 DEF Chain
  <2>2. first \in F /\ first \in S /\ \A k \in T : k <= age[first]
    BY <1>3 DEF Chain
  <2>3. age[first] \in Nat
    BY <2>2 DEF Chain
  <2>4. PICK k \in T : \A j \in T : j <= k
    BY <2>1, <2>2, <2>3, Greatest
  <2>5. PICK y \in F : age[y] = k /\ y \notin S
    OBVIOUS
  <2>6. k < age[first]
    BY <2>2, <2>3, <2>5 DEF Chain
  <2> QED
    <3> DEFINE U == {u \in Nat : u > k /\ \E z \in F : age[z] = u /\ z \in S}
    <3>1. age[first] \in U
      BY <2>2, <2>3, <2>6
    <3>2. PICK u \in U : \A v \in U : u <= v
      BY <3>1, Least
    <3>3. PICK z \in F : age[z] = u /\ z \in S
      OBVIOUS
    <3>4. next[z] # Null /\ next[z] \in F /\ age[next[z]] = u - 1
      BY <3>3 DEF Chain
    <3>5. next[z] \in S
      BY <3>3, <3>4
    <3>6. CASE u - 1 > k
      <4>1. u - 1 \in U
        BY <3>4, <3>5, <3>6
      <4> QED BY <4>1, <3>2
    <3>7. CASE u - 1 = k
      <4>1. next[z] = y
        BY <3>4, <3>7, <2>5 DEF Chain
      <4> QED BY <4>1, <3>5, <2>5
    <3> QED BY <3>2, <3>6, <3>7
<1> QED BY <1>1, <1>2, <1>3

\* No link leads to the first element, and no two to the same.
LEMMA ChainLinks ==
  ASSUME NEW first, NEW next, NEW F, NEW age, Chain(first, next, F, age)
  PROVE  /\ \A x \in F : next[x] # first
         /\ \A x, y \in F : next[x] = next[y] => x = y \/ next[x] = Null
BY DEF Chain

\* An element put before the others.
LEMMA ChainPush ==
  ASSUME NEW first, NEW next, NEW F, NEW age, Chain(first, next, F, age), Null \notin F,
         NEW b, b \notin F, b # Null,
         NEW next2, next2[b] = first, \A x \in F : next2[x] = next[x]
  PROVE  \E age2 : Chain(b, next2, F \cup {b}, age2)
<1> DEFINE a2 == [x \in F \cup {b} |-> IF x # b THEN age[x] ELSE IF first = Null THEN 0 ELSE age[first] + 1]
<1>1. Chain(b, next2, F \cup {b}, a2)
  BY DEF Chain
<1> QED BY <1>1

\* An element taken out, wherever it is.
LEMMA ChainRemove ==
  ASSUME NEW first, NEW next, NEW F, NEW age, Chain(first, next, F, age), Null \notin F,
         NEW b \in F, NEW next2,
         \A x \in F \ {b} : next2[x] = IF next[x] = b THEN next[b] ELSE next[x]
  PROVE  \E age2 : Chain(IF first = b THEN next[b] ELSE first, next2, F \ {b}, age2)
<1> DEFINE a2 == [x \in F \ {b} |-> IF age[x] > age[b] THEN age[x] - 1 ELSE age[x]]
           first2 == IF first = b THEN next[b] ELSE first
<1>1. \A x \in F \ {b} : a2[x] \in Nat /\ age[x] # age[b]
  BY DEF Chain
<1>2. first2 = Null <=> F \ {b} = {}
  BY DEF Chain
<1>3. first2 # Null => first2 \in F \ {b} /\ \A x \in F \ {b} : a2[x] <= a2[first2]
  BY DEF Chain
<1>4. \A x \in F \ {b} : next2[x] = Null <=> a2[x] = 0
  BY DEF Chain
<1>5. \A x \in F \ {b} : next2[x] # Null => next2[x] \in F \ {b} /\ a2[next2[x]] = a2[x] - 1
  BY DEF Chain
<1>6. ASSUME NEW x \in F \ {b}, NEW y \in F \ {b}, a2[x] = a2[y] PROVE x = y
  <2>1. /\ age[x] \in Nat /\ age[y] \in Nat /\ age[b] \in Nat
        /\ age[x] # age[b] /\ age[y] # age[b]
    BY <1>1 DEF Chain
  <2>2. age[x] = age[y]
    BY <1>6, <2>1
  <2> QED BY <2>2 DEF Chain
<1>7. Chain(first2, next2, F \ {b}, a2)
  BY <1>1, <1>2, <1>3, <1>4, <1>5, <1>6 DEF Chain
<1> QED BY <1>7

\* A list whose links are copied.
LEMMA ChainSame ==
  ASSUME NEW first, NEW next, NEW F, NEW age, Chain(first, next, F, age),
         NEW next2, \A x \in F : next2[x] = next[x]
  PROVE  Chain(first, next2, F, age)
BY DEF Chain

----------------------------------------------------------------------------
(* Compaction of a sequence.                                                *)

Distinct(s) == \A i, j \in DOMAIN s : s[i] = s[j] => i = j

\* What is compacted has the elements that stay, each once.
LEMMA CompactedKeeps ==
  ASSUME NEW S, NEW s \in Seq(S), Distinct(s), NEW Stays
  PROVE  LET t == Compacted(s, Stays)
         IN  /\ t \in Seq(S)
             /\ Distinct(t)
             /\ {t[j] : j \in DOMAIN t} = {s[i] : i \in DOMAIN s} \cap Stays
<1> DEFINE Kept == {i \in DOMAIN s : s[i] \in Stays}
           Upto(i) == {k \in Kept : k <= i}
           Place(i) == Cardinality(Upto(i))
           c == Cardinality(Kept)
           f == [i \in Kept |-> Place(i)]
           At(j) == CHOOSE i \in Kept : Place(i) = j
           t == Compacted(s, Stays)
<1>1. DOMAIN s = 1 .. Len(s) /\ Len(s) \in Nat
  OBVIOUS
<1>2. IsFiniteSet(Kept) /\ c \in Nat
  <2>1. IsFiniteSet(1 .. Len(s))
    BY <1>1, FS_Interval
  <2>2. Kept \in SUBSET (1 .. Len(s))
    BY <1>1
  <2>3. IsFiniteSet(Kept)
    BY <2>1, <2>2, FS_Subset
  <2> QED BY <2>3, FS_CardinalityType
<1>3. \A i \in Kept : IsFiniteSet(Upto(i)) /\ Place(i) \in 1 .. c
  <2> SUFFICES ASSUME NEW i \in Kept PROVE IsFiniteSet(Upto(i)) /\ Place(i) \in 1 .. c
    OBVIOUS
  <2>1. Upto(i) \in SUBSET Kept
    OBVIOUS
  <2>2. IsFiniteSet(Upto(i)) /\ Place(i) <= c
    BY <2>1, <1>2, FS_Subset
  <2>3. Place(i) \in Nat
    BY <2>2, FS_CardinalityType
  <2>4. i \in Upto(i)
    BY <1>1
  <2>5. Place(i) # 0
    BY <2>2, <2>4, FS_EmptySet
  <2> HIDE DEF Place, c
  <2> QED BY <2>2, <2>3, <2>5, <1>2
<1>4. \A i, j \in Kept : Place(i) = Place(j) => i = j
  <2>1. ASSUME NEW i \in Kept, NEW j \in Kept, i < j, Place(i) = Place(j) PROVE FALSE
    <3>1. Upto(i) \in SUBSET Upto(j)
      BY <1>1, <2>1
    <3>2. Upto(i) = Upto(j)
      BY <3>1, <1>3, <2>1, FS_Subset
    <3>3. j \in Upto(j) /\ j \notin Upto(i)
      BY <1>1, <2>1
    <3> QED BY <3>2, <3>3
  <2> HIDE DEF Place
  <2>2. \A i, j \in Kept : i \in Int /\ j \in Int
    BY <1>1
  <2> QED BY <2>1, <2>2
<1>5. f \in Injection(Kept, 1 .. c)
  <2> HIDE DEF Place, c, Kept
  <2>1. f \in [Kept -> 1 .. c]
    BY <1>3
  <2> QED BY <2>1, <1>4 DEF Injection, IsInjective
<1>6. f \in Surjection(Kept, 1 .. c)
  <2>1. IsFiniteSet(1 .. c) /\ Cardinality(1 .. c) = c
    BY <1>2, FS_Interval
  <2> QED BY <1>5, <2>1, FS_Injection
<1>7. \A j \in 1 .. c : At(j) \in Kept /\ Place(At(j)) = j
  <2> HIDE DEF Place, c, Kept
  <2> SUFFICES ASSUME NEW j \in 1 .. c PROVE \E i \in Kept : Place(i) = j
    OBVIOUS
  <2>1. \E i \in Kept : f[i] = j
    BY <1>6 DEF Surjection
  <2> QED BY <2>1
<1>8. t = [j \in 1 .. c |-> s[At(j)]]
  BY DEF Compacted
<1> HIDE DEF Place, c, t, At, f
<1>9. \A j \in 1 .. c : s[At(j)] \in S
  BY <1>7, <1>1
<1>10. t \in Seq(S) /\ DOMAIN t = 1 .. c
  BY <1>8, <1>9, <1>2
<1>11. Distinct(t)
  <2> SUFFICES ASSUME NEW i \in 1 .. c, NEW j \in 1 .. c, s[At(i)] = s[At(j)] PROVE i = j
    BY <1>8, <1>10 DEF Distinct
  <2>1. At(i) = At(j)
    BY <1>7 DEF Distinct
  <2> QED BY <2>1, <1>7
<1>12. \A i \in Kept : At(Place(i)) = i
  BY <1>3, <1>4, <1>7
<1> DEFINE Old == {s[i] : i \in DOMAIN s}
           New == {t[j] : j \in DOMAIN t}
<1>13. New = Old \cap Stays
  <2>1. ASSUME NEW j \in 1 .. c PROVE t[j] \in {s[i] : i \in DOMAIN s} \cap Stays
    BY <1>7, <1>8
  <2>2. ASSUME NEW i \in DOMAIN s, s[i] \in Stays PROVE s[i] \in {t[j] : j \in DOMAIN t}
    <3> i \in Kept
      BY <2>2
    <3> HIDE DEF Kept
    <3>1. Place(i) \in 1 .. c
      BY <1>3
    <3>2. t[Place(i)] = s[i]
      <4>1. t[Place(i)] = s[At(Place(i))]
        BY <3>1, <1>8
      <4> QED BY <4>1, <1>12
    <3> QED BY <3>1, <3>2, <1>10
  <2>3. New \subseteq Old \cap Stays
    BY <2>1, <1>10
  <2>4. ASSUME NEW x \in Old \cap Stays PROVE x \in New
    <3> PICK i \in DOMAIN s : s[i] = x
      OBVIOUS
    <3> QED BY <2>2
  <2> HIDE DEF Old, New
  <2> QED BY <2>3, <2>4
<1> QED BY <1>10, <1>11, <1>13 DEF t

\* A sequence without repetitions is as long as it has elements.
LEMMA DistinctLength ==
  ASSUME NEW S, NEW s \in Seq(S), Distinct(s)
  PROVE  Len(s) = Cardinality({s[i] : i \in DOMAIN s})
<1> DEFINE R == {s[i] : i \in DOMAIN s}
<1>1. DOMAIN s = 1 .. Len(s) /\ Len(s) \in Nat /\ s \in [1 .. Len(s) -> R]
  OBVIOUS
<1>2. s \in Bijection(1 .. Len(s), R)
  BY <1>1 DEF Distinct, Bijection, Injection, Surjection, IsInjective
<1>3. ExistsBijection(1 .. Len(s), R)
  BY <1>2 DEF ExistsBijection
<1>4. IsFiniteSet(1 .. Len(s)) /\ Cardinality(1 .. Len(s)) = Len(s)
  BY <1>1, FS_Interval
<1> QED BY <1>3, <1>4, FS_Bijection

----------------------------------------------------------------------------
(* The invariant.                                                           *)

FreeNodesOf(ns) == {n \in Node : ns[n].state = "free"}
WordOf(ns) == [n \in Node |-> ns[n].word]
RetainersOf(ns, b) == {n \in Node : n[1] = b /\ ns[n].state \notin {"absent", "free"}}
UsedBlocks == {b \in Block : used.uses[b] > 0}

\* The nodes of a block are made at once, and are on no list before.
AbsentOf(ns) ==
  /\ \A n, m \in Node : n[1] = m[1] => (ns[n].state = "absent" <=> ns[m].state = "absent")
  /\ \A n \in Node : ns[n].state = "absent" => ~ns[n].listed

FreeOf(ns, first) == \E age : Chain(first, WordOf(ns), FreeNodesOf(ns), age)

CountsOK == \A b \in Block : used.uses[b] = Cardinality(RetainersOf(nodes, b))

LinksOK ==
  /\ \E age : Chain(used.first, used.next, UsedBlocks, age)
  /\ \A b \in UsedBlocks : used.prev[b] = Null <=> b = used.first
  /\ \A b \in UsedBlocks :
       used.prev[b] # Null => used.prev[b] \in UsedBlocks /\ used.next[used.prev[b]] = b
  /\ \A b \in UsedBlocks : used.next[b] # Null => used.prev[used.next[b]] = b

ListOK ==
  /\ Distinct(newSpace)
  /\ Listed = {n \in Node : nodes[n].listed}
  /\ Young \subseteq Listed

\* An iterator over the young nodes starts with the first; one whose node is
\* called back is at a block.
RoundsOK ==
  \A k \in DOMAIN rounds :
    /\ rounds[k].collector = "scavenge" => rounds[k].index > 0
    /\ rounds[k].collector = "full" /\ rounds[k].node # Null => rounds[k].block # Null

HeldOK == \A o \in heap.held : heap.place[o] # "none"

StorageOK == AbsentOf(nodes) /\ FreeOf(nodes, free) /\ CountsOK /\ LinksOK

IInv == TypeOK /\ StorageOK /\ ListOK /\ RoundsOK /\ HeldOK /\ HandlesValid

----------------------------------------------------------------------------
(* Facts about nodes and blocks.                                            *)

\* A NULL pointer is no node, block or object.
LEMMA NullIsNone == Null \notin Node /\ Null \notin Block /\ Null \notin Object
BY NullAssumption, SizeAssumption DEF Node

\* A block has kSize nodes.
LEMMA RetainersFinite ==
  ASSUME NEW ns, NEW b \in Block
  PROVE  /\ IsFiniteSet(RetainersOf(ns, b))
         /\ Cardinality(RetainersOf(ns, b)) \in 0 .. kSize
<1> DEFINE I == 0 .. kSize - 1
           J == {i \in I : <<b, i>> \in RetainersOf(ns, b)}
           f == [n \in RetainersOf(ns, b) |-> n[2]]
<1>1. IsFiniteSet(I) /\ Cardinality(I) = kSize
  BY SizeAssumption, FS_Interval
<1>2. f \in Injection(RetainersOf(ns, b), I)
  BY DEF RetainersOf, Node, Injection, IsInjective
<1>3. IsFiniteSet(RetainersOf(ns, b)) /\ Cardinality(RetainersOf(ns, b)) <= kSize
  BY <1>1, <1>2, FS_Injection
<1>4. Cardinality(RetainersOf(ns, b)) \in Nat
  BY <1>3, FS_CardinalityType
<1> QED BY <1>3, <1>4, SizeAssumption

\* A block with a handle is in use, and an iteration meets it.
LEMMA RetainersIterated ==
  ASSUME TypeOK, StorageOK
  PROVE  /\ InUse = UsedBlocks
         /\ \A n \in Node : IsRetainer(n) => n \in Iterated
<1>1. InUse = UsedBlocks
  <2>1. PICK age : Chain(used.first, used.next, UsedBlocks, age)
    BY DEF StorageOK, LinksOK
  <2>2. used.next \in [Block -> Block \cup {Null}] /\ UsedBlocks \in SUBSET Block
    BY DEF TypeOK, UsedBlocks
  <2> QED BY <2>1, <2>2, ChainWalk, NullIsNone DEF InUse
<1>2. ASSUME NEW n \in Node, IsRetainer(n) PROVE n[1] \in UsedBlocks
  <2>1. n[1] \in Block /\ n \in RetainersOf(nodes, n[1])
    BY <1>2 DEF Node, RetainersOf, IsRetainer
  <2>2. Cardinality(RetainersOf(nodes, n[1])) # 0
    BY <2>1, RetainersFinite, FS_EmptySet
  <2>3. used.uses[n[1]] # 0 /\ used.uses[n[1]] \in Nat
    BY <2>1, <2>2, SizeAssumption DEF StorageOK, CountsOK, TypeOK
  <2> QED BY <2>1, <2>3 DEF UsedBlocks
<1> QED BY <1>1, <1>2 DEF Iterated

\* The invariant implies the properties.
LEMMA Consequences ==
  ASSUME IInv
  PROVE  ListsExact /\ HandlesValid
<1> USE DEF IInv
<1>1. FreeListExact
  <2> DEFINE Word == WordOf(nodes)
             F == FreeNodesOf(nodes)
  <2>1. PICK age : Chain(free, Word, F, age)
    BY DEF StorageOK, FreeOf
  <2>2. Word \in [Node -> Node \cup {Null}] /\ F \in SUBSET Node
    BY DEF TypeOK, NodeRecord, WordOf, FreeNodesOf
  <2>3. Walk(free, Word) = F
    <3> HIDE DEF Word, F
    <3> QED BY <2>1, <2>2, ChainWalk, NullIsNone
  <2>4. /\ \A n \in F : Word[n] # free
        /\ \A n, m \in F : Word[n] = Word[m] => n = m \/ Word[n] = Null
    BY <2>1, ChainLinks
  <2> QED BY <2>3, <2>4, Zenon DEF FreeListExact, WordOf, FreeNodesOf
<1>2. BlocksExact
  <2>1. InUse = UsedBlocks
    BY RetainersIterated
  <2>2. \A b \in Block : used.uses[b] = Cardinality({n \in Node : n[1] = b /\ IsRetainer(n)})
    BY DEF StorageOK, CountsOK, RetainersOf, IsRetainer
  <2>3. \A b, c \in UsedBlocks : used.next[b] = c <=> used.prev[c] = b
    BY NullIsNone DEF StorageOK, LinksOK, UsedBlocks
  <2> QED BY <2>1, <2>2, <2>3, Zenon DEF BlocksExact, UsedBlocks
<1>3. YoungListExact
  <2>1. Len(newSpace) = Cardinality(Listed)
    <3>1. newSpace \in Seq(Node) /\ Distinct(newSpace)
      BY DEF TypeOK, ListOK
    <3> QED BY <3>1, DistinctLength, Zenon DEF Listed
  <2> QED BY <2>1 DEF ListOK, YoungListExact
<1> QED BY <1>1, <1>2, <1>3 DEF ListsExact

----------------------------------------------------------------------------
(* The active rounds.                                                       *)

RoundRecord ==
  [collector : {"scavenge", "full"}, block : Block \cup {Null}, index : Nat,
   node : Node \cup {Null}, again : BOOLEAN]

Inside(r) ==
  /\ r.collector = "full" => r.index < kSize
  /\ r.collector = "scavenge" => r.index > 0
  /\ r.collector = "full" /\ r.node # Null => r.block # Null

RoundsFine(rs) == rs \in Seq(RoundRecord) /\ \A k \in DOMAIN rs : Inside(rs[k])

RestTyped ==
  /\ nodes \in [Node -> NodeRecord]
  /\ free \in Node \cup {Null}
  /\ used \in [first : Block \cup {Null}, next : [Block -> Block \cup {Null}],
               prev : [Block -> Block \cup {Null}], uses : [Block -> 0 .. kSize]]
  /\ newSpace \in Seq(Node)
  /\ heap \in [place : [Object -> {"none", "young", "old"}], held : SUBSET Object]
  /\ due \subseteq Node

\* Types, apart from the rounds, and the rounds.
LEMMA TypeParts == TypeOK /\ RoundsOK <=> RestTyped /\ RoundsFine(rounds)
BY DEF TypeOK, RoundsOK, RestTyped, RoundsFine, RoundRecord, Inside

\* The innermost round, and the others.
LEMMA TopOfRounds ==
  ASSUME RoundsFine(rounds), rounds # <<>>
  PROVE  /\ Top \in RoundRecord /\ Inside(Top)
         /\ RoundsFine(Popped)
<1>1. Len(rounds) \in 1 .. Len(rounds) /\ DOMAIN rounds = 1 .. Len(rounds)
  BY DEF RoundsFine
<1>2. Top \in RoundRecord /\ Inside(Top)
  BY <1>1 DEF RoundsFine, Top
<1>3. Popped \in Seq(RoundRecord) /\ \A k \in DOMAIN Popped : k \in DOMAIN rounds /\ Popped[k] = rounds[k]
  BY <1>1 DEF RoundsFine, Popped
<1> QED BY <1>2, <1>3 DEF RoundsFine

\* The innermost round goes on.
LEMMA GoesFine ==
  ASSUME RoundsFine(rounds), rounds # <<>>, NEW r \in RoundRecord, Inside(r), Goes(r)
  PROVE  RoundsFine(rounds')
<1>1. Len(rounds) \in 1 .. Len(rounds) /\ DOMAIN rounds = 1 .. Len(rounds) /\ rounds \in Seq(RoundRecord)
  BY DEF RoundsFine
<1>2. rounds' = [rounds EXCEPT ![Len(rounds)] = r]
  BY DEF Goes
<1>3. rounds' \in Seq(RoundRecord) /\ DOMAIN rounds' = DOMAIN rounds
  BY <1>1, <1>2
<1>4. \A k \in DOMAIN rounds : rounds'[k] = IF k = Len(rounds) THEN r ELSE rounds[k]
  BY <1>1, <1>2
<1> QED BY <1>3, <1>4 DEF RoundsFine

\* A round begins.
LEMMA BeginFine ==
  ASSUME RestTyped, RoundsFine(rounds), NEW c \in {"scavenge", "full"}, Begin(c)
  PROVE  RoundsFine(rounds')
<1> DEFINE q == [k \in DOMAIN rounds |-> [rounds[k] EXCEPT !.again = TRUE]]
           r == NewRound(c)
<1>1. r \in RoundRecord /\ Inside(r)
  BY SizeAssumption DEF RestTyped, NewRound, RoundRecord, Inside
<1>2. DOMAIN rounds = 1 .. Len(rounds) /\ Len(rounds) \in Nat
  BY DEF RoundsFine
<1>3. \A k \in DOMAIN rounds : rounds[k] \in RoundRecord /\ Inside(rounds[k])
  BY <1>2 DEF RoundsFine
<1>4. \A k \in DOMAIN rounds : q[k] \in RoundRecord /\ Inside(q[k])
  BY <1>3 DEF RoundRecord, Inside
<1>5. q \in Seq(RoundRecord) /\ DOMAIN q = DOMAIN rounds
  BY <1>2, <1>4
<1>6. rounds' = Append(q, r)
  BY DEF Begin
<1> HIDE DEF q, r
<1>7. Append(q, r) \in Seq(RoundRecord)
  BY <1>1, <1>5
<1>8. \A k \in DOMAIN Append(q, r) : Append(q, r)[k] = r \/ (k \in DOMAIN q /\ Append(q, r)[k] = q[k])
  BY <1>1, <1>5
<1> QED BY <1>1, <1>4, <1>5, <1>6, <1>7, <1>8 DEF RoundsFine

\* An iterator that advances stays inside.
LEMMA AdvancedFine ==
  ASSUME RestTyped, NEW r \in RoundRecord, Inside(r), ~AtEnd(r) \/ r.node # Null
  PROVE  /\ Advanced(r) \in RoundRecord /\ Inside(Advanced(r))
         /\ ~AtEnd(r) => NodeAt(r) \in Node
<1>1. ~AtEnd(r) /\ r.collector = "scavenge" => NodeAt(r) \in Node
  BY DEF RestTyped, RoundRecord, Inside, AtEnd, NodeAt
<1>2. ~AtEnd(r) /\ r.collector = "full" => NodeAt(r) \in Node
  BY SizeAssumption DEF RoundRecord, Inside, AtEnd, NodeAt, Node
<1>3. used.next[r.block] \in Block \cup {Null} \/ r.collector = "scavenge"
  BY DEF RestTyped, RoundRecord, Inside, AtEnd
<1>4. Advanced(r) \in RoundRecord /\ Inside(Advanced(r))
  <2>1. r.index + 1 \in Nat /\ kSize \in Nat /\ kSize > 0
    BY SizeAssumption DEF RoundRecord
  <2>2. CASE r.collector = "scavenge" \/ r.index + 1 < kSize
    <3>1. Advanced(r) = [collector |-> r.collector, block |-> r.block, index |-> r.index + 1,
                         node |-> Null, again |-> r.again]
      BY <2>2 DEF Advanced, RoundRecord
    <3> QED BY <2>1, <2>2, <3>1 DEF RoundRecord, Inside
  <2>3. CASE ~(r.collector = "scavenge" \/ r.index + 1 < kSize)
    <3>1. Advanced(r) = [collector |-> r.collector, block |-> used.next[r.block], index |-> 0,
                         node |-> Null, again |-> r.again]
      BY <2>3 DEF Advanced, RoundRecord
    <3>2. r.collector = "full" /\ used.next[r.block] \in Block \cup {Null}
      BY <1>3, <2>3 DEF RoundRecord
    <3> QED BY <2>1, <3>1, <3>2 DEF RoundRecord, Inside
  <2> QED BY <2>2, <2>3
<1> QED BY <1>1, <1>2, <1>4 DEF RoundRecord

----------------------------------------------------------------------------
(* The storage of the handles.                                              *)

\* Steps that neither make nor dispose of handles.
LEMMA StorageSame ==
  ASSUME StorageOK, UNCHANGED <<free, used>>,
         \A n \in Node : /\ nodes'[n].state = "free" <=> nodes[n].state = "free"
                         /\ nodes'[n].state = "absent" <=> nodes[n].state = "absent"
                         /\ nodes[n].state = "free" => nodes'[n].word = nodes[n].word
                         /\ nodes[n].state = "absent" => ~nodes'[n].listed
  PROVE  StorageOK'
<1>1. AbsentOf(nodes)'
  BY DEF StorageOK, AbsentOf
<1>2. FreeOf(nodes, free)'
  <2>1. PICK age : Chain(free, WordOf(nodes), FreeNodesOf(nodes), age)
    BY DEF StorageOK, FreeOf
  <2>2. FreeNodesOf(nodes') = FreeNodesOf(nodes)
    BY DEF FreeNodesOf
  <2>3. \A n \in FreeNodesOf(nodes) : WordOf(nodes')[n] = WordOf(nodes)[n]
    BY DEF FreeNodesOf, WordOf
  <2>4. Chain(free', WordOf(nodes'), FreeNodesOf(nodes'), age)
    BY <2>1, <2>2, <2>3, ChainSame
  <2> QED BY <2>4 DEF FreeOf
<1>3. CountsOK'
  <2>1. \A b \in Block : RetainersOf(nodes', b) = RetainersOf(nodes, b)
    BY DEF RetainersOf
  <2> QED BY <2>1 DEF StorageOK, CountsOK
<1>4. LinksOK'
  <2>1. UsedBlocks' = UsedBlocks
    BY DEF UsedBlocks
  <2> QED BY <2>1 DEF StorageOK, LinksOK
<1> QED BY <1>1, <1>2, <1>3, <1>4 DEF StorageOK

\* There is a free node to take, of a new block if need be.
LEMMA FreeNodeGiven ==
  ASSUME RestTyped, StorageOK, NEW s \in WithFreeNode
  PROVE  /\ s.nodes \in [Node -> NodeRecord]
         /\ s.free \in Node /\ s.nodes[s.free].state = "free"
         /\ FreeOf(s.nodes, s.free)
         /\ AbsentOf(s.nodes)
         /\ \A n \in Node : /\ s.nodes[n].state \in {"absent", "free"} <=> nodes[n].state \in {"absent", "free"}
                            /\ IsRetainer(n) => s.nodes[n] = nodes[n]
                            /\ s.nodes[n].listed = nodes[n].listed
<1>1. PICK age : Chain(free, WordOf(nodes), FreeNodesOf(nodes), age)
  BY DEF StorageOK, FreeOf
<1>2. CASE free # Null
  <2>1. s = [nodes |-> nodes, free |-> free]
    BY <1>2 DEF WithFreeNode
  <2>2. free \in FreeNodesOf(nodes)
    BY <1>1, <1>2 DEF Chain
  <2> QED BY <2>1, <2>2 DEF RestTyped, StorageOK, FreeNodesOf
<1>3. CASE free = Null
  <2>1. PICK b \in Block : /\ nodes[<<b, 0>>].state = "absent"
                           /\ s = [nodes |-> PutNodesOnFreeList(b), free |-> <<b, 0>>]
    BY <1>3 DEF WithFreeNode
  <2> DEFINE ns == PutNodesOnFreeList(b)
             Of == {n \in Node : n[1] = b}
             Link(n) == IF n[2] < kSize - 1 THEN <<b, n[2] + 1>> ELSE Null
  <2>2. \A n \in Node : nodes[n].state # "free"
    BY <1>1, <1>3 DEF Chain, FreeNodesOf
  <2>3. <<b, 0>> \in Of /\ Of \subseteq Node
    BY SizeAssumption DEF Node
  <2>4. \A n \in Of : nodes[n].state = "absent" /\ nodes[n].listed = FALSE
    BY <2>1, <2>3 DEF StorageOK, AbsentOf, RestTyped, NodeRecord
  <2>5. /\ kSize \in Nat /\ \A n \in Of : n[2] \in Nat /\ n[2] <= kSize - 1
        /\ \A n \in Of : n = <<b, n[2]>>
        /\ \A n \in Of : n[2] < kSize - 1 => <<b, n[2] + 1>> \in Of /\ <<b, n[2] + 1>> # Null
    <3>1. kSize \in Nat /\ \A n \in Of : n[2] \in Nat /\ n[2] <= kSize - 1
      BY SizeAssumption DEF Node
    <3>2. \A n \in Of : n = <<b, n[2]>>
      BY DEF Node
    <3>3. \A n \in Of : n[2] < kSize - 1 => <<b, n[2] + 1>> \in Of /\ <<b, n[2] + 1>> # Null
      BY <3>1, NullAssumption DEF Node
    <3> QED BY <3>1, <3>2, <3>3
  <2>6. \A n \in Of :
          ns[n] = [state |-> "free", object |-> Null, independent |-> FALSE, partially |-> FALSE,
                   listed |-> FALSE, word |-> Link(n)]
    BY <1>3 DEF PutNodesOnFreeList
  <2>7. \A n \in Node \ Of : ns[n] = nodes[n]
    BY DEF PutNodesOnFreeList
  <2>8. ns = [n \in Node |-> ns[n]]
    BY DEF PutNodesOnFreeList
  <2> HIDE DEF ns, Of
  <2>9. \A n \in Of : Link(n) \in Node \cup {Null}
    BY <2>3, <2>5
  <2>10. \A n \in Of : /\ ns[n].state = "free" /\ ns[n].listed = FALSE /\ ns[n].word = Link(n)
                       /\ ns[n] \in NodeRecord
    <3> HIDE DEF Link
    <3> SUFFICES ASSUME NEW n \in Of
                 PROVE  /\ ns[n].state = "free" /\ ns[n].listed = FALSE /\ ns[n].word = Link(n)
                        /\ ns[n] \in NodeRecord
      OBVIOUS
    <3>1. ns[n] = [state |-> "free", object |-> Null, independent |-> FALSE, partially |-> FALSE,
                   listed |-> FALSE, word |-> Link(n)]
      BY <2>6
    <3>2. ns[n] \in NodeRecord
      BY <2>9, <3>1 DEF NodeRecord
    <3> QED BY <3>1, <3>2
  <2>11. ns \in [Node -> NodeRecord]
    <3>1. \A n \in Node : ns[n] \in NodeRecord
      BY <2>7, <2>10 DEF RestTyped
    <3> QED BY <2>8, <3>1
  <2>12. FreeOf(ns, <<b, 0>>)
    <3>1. FreeNodesOf(ns) = Of
      BY <2>2, <2>3, <2>7, <2>10 DEF FreeNodesOf
    <3> DEFINE a == [n \in Of |-> kSize - 1 - n[2]]
    <3>2. Chain(<<b, 0>>, WordOf(ns), Of, a)
      <4>0. kSize \in Nat /\ \A n \in Of : n[2] \in Nat /\ n[2] <= kSize - 1
        BY <2>5
      <4>1. \A n \in Of : a[n] = kSize - 1 - n[2] /\ a[n] \in Nat
        BY <4>0
      <4>2. a[<<b, 0>>] = kSize - 1 /\ <<b, 0>> # Null
        BY <2>3, SizeAssumption, NullAssumption
      <4>3. \A n \in Of : WordOf(ns)[n] = Link(n)
        BY <2>3, <2>10 DEF WordOf
      <4>4. ASSUME NEW n \in Of, n[2] < kSize - 1
            PROVE  Link(n) \in Of /\ Link(n) # Null /\ a[Link(n)] = a[n] - 1
        <5>1. Link(n) = <<b, n[2] + 1>> /\ Link(n) \in Of /\ Link(n) # Null
          BY <2>5, <4>4
        <5>2. a[Link(n)] = kSize - 1 - (n[2] + 1)
          BY <4>1, <5>1
        <5> QED BY <4>1, <5>1, <5>2, <2>5, SizeAssumption
      <4>5. ASSUME NEW n \in Of, ~(n[2] < kSize - 1) PROVE Link(n) = Null
        BY <4>5
      <4> HIDE DEF a, Link
      <4>6. \A n \in Of : n[2] < kSize - 1 <=> a[n] # 0
        BY <4>0, <4>1
      <4>7. \A x, y \in Of : a[x] = a[y] => x = y
        <5> SUFFICES ASSUME NEW x \in Of, NEW y \in Of, a[x] = a[y] PROVE x = y
          OBVIOUS
        <5>1. x[2] = y[2]
          BY <4>0, <4>1
        <5> QED BY <2>5, <5>1
      <4>8. \A x \in Of : a[x] <= a[<<b, 0>>]
        BY <4>0, <4>1, <4>2
      <4>9. \A x \in Of : WordOf(ns)[x] = Null <=> a[x] = 0
        BY <4>3, <4>4, <4>5, <4>6
      <4>10. \A x \in Of : WordOf(ns)[x] # Null => WordOf(ns)[x] \in Of /\ a[WordOf(ns)[x]] = a[x] - 1
        BY <4>3, <4>4, <4>5
      <4> QED BY <2>3, <4>1, <4>2, <4>7, <4>8, <4>9, <4>10 DEF Chain
    <3> QED BY <3>1, <3>2 DEF FreeOf
  <2>13. AbsentOf(ns)
    <3>1. \A n \in Node : ns[n].state = "absent" => n \notin Of
      BY <2>10
    <3>2. \A n, m \in Node : n[1] = m[1] => (n \in Of <=> m \in Of)
      BY DEF Of
    <3> QED BY <2>7, <2>10, <3>1, <3>2 DEF StorageOK, AbsentOf
  <2>14. ASSUME NEW n \in Node
         PROVE  /\ ns[n].state \in {"absent", "free"} <=> nodes[n].state \in {"absent", "free"}
                /\ IsRetainer(n) => ns[n] = nodes[n]
                /\ ns[n].listed = nodes[n].listed
    BY <2>4, <2>7, <2>10 DEF IsRetainer
  <2>15. s.nodes = ns /\ s.free = <<b, 0>>
    BY <2>1 DEF ns
  <2> QED BY <2>3, <2>10, <2>11, <2>12, <2>13, <2>14, <2>15
<1> QED BY <1>2, <1>3

\* One more node of a block is in use.
LEMMA IncreaseLinks ==
  ASSUME RestTyped, LinksOK, NEW b \in Block, used' = IncreaseUses(b)
  PROVE  /\ LinksOK'
         /\ used' \in [first : Block \cup {Null}, next : [Block -> Block \cup {Null}],
                       prev : [Block -> Block \cup {Null}], uses : [Block -> Nat]]
         /\ \A c \in Block : used'.uses[c] = IF c = b THEN used.uses[b] + 1 ELSE used.uses[c]
<1>1. used.uses \in [Block -> Nat] /\ b # Null /\ Null \notin UsedBlocks
  BY SizeAssumption, NullIsNone DEF RestTyped, UsedBlocks
<1>2. CASE used.uses[b] > 0
  <2>1. used' = [used EXCEPT !.uses[b] = @ + 1]
    BY <1>2 DEF IncreaseUses
  <2>2. \A c \in Block : used'.uses[c] = IF c = b THEN used.uses[b] + 1 ELSE used.uses[c]
    BY <1>1, <2>1 DEF RestTyped
  <2>3. UsedBlocks' = UsedBlocks
    BY <1>1, <1>2, <2>2 DEF UsedBlocks
  <2>4. used'.first = used.first /\ used'.next = used.next /\ used'.prev = used.prev
    BY <2>1 DEF RestTyped
  <2>5. used' \in [first : Block \cup {Null}, next : [Block -> Block \cup {Null}],
                   prev : [Block -> Block \cup {Null}], uses : [Block -> Nat]]
    <3>1. used' = [first |-> used.first, next |-> used.next, prev |-> used.prev,
                   uses |-> [used.uses EXCEPT ![b] = @ + 1]]
      BY <2>1 DEF RestTyped
    <3>2. [used.uses EXCEPT ![b] = @ + 1] \in [Block -> Nat]
      BY <1>1
    <3> QED BY <3>1, <3>2 DEF RestTyped
  <2> QED BY <2>2, <2>3, <2>4, <2>5 DEF LinksOK
<1>3. CASE ~(used.uses[b] > 0)
  <2>1. used' = [first |-> b,
                 next |-> [used.next EXCEPT ![b] = used.first],
                 prev |-> [c \in Block |-> IF c = b THEN Null ELSE IF c = used.first THEN b ELSE used.prev[c]],
                 uses |-> [used.uses EXCEPT ![b] = 1]]
    BY <1>3 DEF IncreaseUses
  <2>2. \A c \in Block : used'.uses[c] = IF c = b THEN used.uses[b] + 1 ELSE used.uses[c]
    BY <1>1, <1>3, <2>1
  <2>3. UsedBlocks' = UsedBlocks \cup {b} /\ b \notin UsedBlocks
    BY <1>1, <1>3, <2>2 DEF UsedBlocks
  <2>4. /\ used'.first = b
        /\ used'.next[b] = used.first
        /\ \A c \in UsedBlocks : used'.next[c] = used.next[c]
        /\ used'.prev[b] = Null
        /\ \A c \in UsedBlocks : used'.prev[c] = IF c = used.first THEN b ELSE used.prev[c]
    BY <2>1, <2>3 DEF RestTyped, UsedBlocks
  <2>5. used' \in [first : Block \cup {Null}, next : [Block -> Block \cup {Null}],
                   prev : [Block -> Block \cup {Null}], uses : [Block -> Nat]]
    BY <1>1, <2>1 DEF RestTyped
  <2>6. PICK age : Chain(used.first, used.next, UsedBlocks, age)
    BY DEF LinksOK
  <2>7. \E age2 : Chain(used'.first, used'.next, UsedBlocks', age2)
    BY <1>1, <2>3, <2>4, <2>6, ChainPush
  <2>8. used.first # Null => used.first \in UsedBlocks
    BY <2>6 DEF Chain
  <2>9. \A c \in UsedBlocks : used.next[c] # used.first /\ (used.next[c] # Null => used.next[c] \in UsedBlocks)
    BY <2>6, ChainLinks DEF Chain
  <2>10. LinksOK'
    BY <1>1, <2>3, <2>4, <2>7, <2>8, <2>9 DEF LinksOK
  <2> QED BY <2>2, <2>5, <2>10
<1> QED BY <1>2, <1>3

\* One node less of a block is in use.
LEMMA DecreaseLinks ==
  ASSUME RestTyped, LinksOK, NEW b \in UsedBlocks, used' = DecreaseUses(b)
  PROVE  /\ LinksOK'
         /\ used' \in [first : Block \cup {Null}, next : [Block -> Block \cup {Null}],
                       prev : [Block -> Block \cup {Null}], uses : [Block -> Nat]]
         /\ \A c \in Block : used'.uses[c] = IF c = b THEN used.uses[b] - 1 ELSE used.uses[c]
<1>1. used.uses \in [Block -> Nat] /\ b \in Block /\ b # Null /\ Null \notin UsedBlocks /\ used.uses[b] > 0
  BY SizeAssumption, NullIsNone DEF RestTyped, UsedBlocks
<1>2. CASE used.uses[b] > 1
  <2>1. used' = [used EXCEPT !.uses[b] = @ - 1]
    BY <1>2 DEF DecreaseUses
  <2>2. \A c \in Block : used'.uses[c] = IF c = b THEN used.uses[b] - 1 ELSE used.uses[c]
    BY <1>1, <2>1 DEF RestTyped
  <2>3. UsedBlocks' = UsedBlocks
    BY <1>1, <1>2, <2>2 DEF UsedBlocks
  <2>4. used'.first = used.first /\ used'.next = used.next /\ used'.prev = used.prev
    BY <2>1 DEF RestTyped
  <2>5. used' \in [first : Block \cup {Null}, next : [Block -> Block \cup {Null}],
                   prev : [Block -> Block \cup {Null}], uses : [Block -> Nat]]
    <3>1. used' = [first |-> used.first, next |-> used.next, prev |-> used.prev,
                   uses |-> [used.uses EXCEPT ![b] = @ - 1]]
      BY <2>1 DEF RestTyped
    <3>2. [used.uses EXCEPT ![b] = @ - 1] \in [Block -> Nat]
      BY <1>1, <1>2
    <3> QED BY <3>1, <3>2 DEF RestTyped
  <2> QED BY <2>2, <2>3, <2>4, <2>5 DEF LinksOK
<1>3. CASE ~(used.uses[b] > 1)
  <2>1. used' = [first |-> IF used.first = b THEN used.next[b] ELSE used.first,
                 next |-> [c \in Block |-> IF c = used.prev[b] THEN used.next[b] ELSE used.next[c]],
                 prev |-> [c \in Block |-> IF c = b THEN Null
                                           ELSE IF c = used.next[b] THEN used.prev[b] ELSE used.prev[c]],
                 uses |-> [used.uses EXCEPT ![b] = 0]]
    BY <1>3 DEF DecreaseUses
  <2>2. \A c \in Block : used'.uses[c] = IF c = b THEN used.uses[b] - 1 ELSE used.uses[c]
    BY <1>1, <1>3, <2>1
  <2>3. UsedBlocks' = UsedBlocks \ {b}
    BY <1>1, <1>3, <2>2 DEF UsedBlocks
  <2>4. PICK age : Chain(used.first, used.next, UsedBlocks, age)
    BY DEF LinksOK
  <2>5. \A c \in UsedBlocks : c = used.prev[b] <=> used.next[c] = b
    BY <1>1 DEF LinksOK
  <2>6. /\ used'.first = IF used.first = b THEN used.next[b] ELSE used.first
        /\ \A c \in UsedBlocks : used'.next[c] = IF used.next[c] = b THEN used.next[b] ELSE used.next[c]
        /\ \A c \in UsedBlocks \ {b} : used'.prev[c] = IF c = used.next[b] THEN used.prev[b] ELSE used.prev[c]
    BY <2>1, <2>5 DEF UsedBlocks
  <2>7. used' \in [first : Block \cup {Null}, next : [Block -> Block \cup {Null}],
                   prev : [Block -> Block \cup {Null}], uses : [Block -> Nat]]
    BY <1>1, <2>1 DEF RestTyped
  <2>8. \E age2 : Chain(used'.first, used'.next, UsedBlocks', age2)
    BY <1>1, <2>3, <2>4, <2>6, ChainRemove
  <2>9. /\ \A c \in UsedBlocks : used.next[c] # used.first /\ (used.next[c] # Null => used.next[c] \in UsedBlocks)
        /\ \A c, d \in UsedBlocks : used.next[c] = used.next[d] => c = d \/ used.next[c] = Null
    BY <2>4, ChainLinks DEF Chain
  <2>10. \A c \in UsedBlocks : used.next[c] # c
    BY <1>1, <2>4 DEF Chain
  <2>11. \A c \in UsedBlocks' : used'.prev[c] = Null <=> c = used'.first
    BY <1>1, <2>3, <2>6, <2>9, <2>10 DEF LinksOK
  <2>12. \A c \in UsedBlocks' :
           used'.prev[c] # Null => used'.prev[c] \in UsedBlocks' /\ used'.next[used'.prev[c]] = c
    BY <1>1, <2>3, <2>6, <2>9, <2>10 DEF LinksOK
  <2>13. \A c \in UsedBlocks' : used'.next[c] # Null => used'.prev[used'.next[c]] = c
    BY <1>1, <2>3, <2>6, <2>9, <2>10 DEF LinksOK
  <2> QED BY <2>2, <2>7, <2>8, <2>11, <2>12, <2>13 DEF LinksOK
<1> QED BY <1>2, <1>3

----------------------------------------------------------------------------
(* The steps.                                                               *)

HeapType == [place : [Object -> {"none", "young", "old"}], held : SUBSET Object]

\* A step that makes and disposes of no handle, moves no object into the new
\* space and takes none from a handle.
LEMMA HandlesKept ==
  ASSUME IInv, UNCHANGED <<free, used, newSpace>>,
         nodes' \in [Node -> NodeRecord],
         \A n \in Node : /\ nodes'[n].state = "free" <=> nodes[n].state = "free"
                         /\ nodes'[n].state = "absent" <=> nodes[n].state = "absent"
                         /\ nodes[n].state = "free" => nodes'[n].word = nodes[n].word
                         /\ IsRetainer(n) => nodes'[n].object = nodes[n].object
                         /\ nodes'[n].listed = nodes[n].listed,
         heap' \in HeapType,
         \A n \in Node : IsRetainer(n) =>
           /\ heap'.place[nodes[n].object] = "young" => heap.place[nodes[n].object] = "young"
           /\ heap'.place[nodes[n].object] # "none",
         \A o \in heap'.held : heap'.place[o] # "none",
         due' \in SUBSET Node,
         RoundsFine(rounds')
  PROVE  IInv'
<1> USE DEF IInv
<1>1. TypeOK' /\ RoundsOK'
  <2>1. RestTyped'
    BY TypeParts DEF RestTyped, HeapType
  <2> QED BY <2>1 DEF TypeOK, RoundsOK, RestTyped, RoundsFine, RoundRecord, Inside
<1>2. StorageOK'
  BY StorageSame DEF StorageOK, AbsentOf
<1>3. \A n \in Node : IsRetainer(n)' <=> IsRetainer(n)
  BY DEF IsRetainer
<1>4. HandlesValid'
  BY <1>3 DEF HandlesValid
<1>5. ListOK'
  <2>1. Young' \subseteq Young
    BY <1>3 DEF Young, InNewSpace
  <2>2. Listed' = Listed
    BY DEF Listed
  <2>3. \A n \in Node : nodes'[n].listed <=> nodes[n].listed
    OBVIOUS
  <2> QED BY <2>1, <2>2, <2>3 DEF ListOK
<1>6. HeldOK'
  BY DEF HeldOK
<1> QED BY <1>1, <1>2, <1>4, <1>5, <1>6

\* The program allocates, drops and reaches objects.
LEMMA HeapInv ==
  ASSUME IInv, \/ \E o \in Object : Allocate(o) \/ Drop(o)
               \/ \E n \in Node : Get(n)
  PROVE  IInv'
<1>1. UNCHANGED <<nodes, free, used, newSpace, rounds, due>>
  BY DEF Allocate, Drop, Get
<1>2. TypeOK /\ HandlesValid /\ HeldOK /\ RoundsFine(rounds)
  BY TypeParts DEF IInv
<1>3. heap \in HeapType
  BY <1>2 DEF TypeOK, HeapType
<1>4. ASSUME NEW o \in Object, Allocate(o) PROVE IInv'
  <2>1. /\ heap.place[o] = "none"
        /\ heap' = [place |-> [heap.place EXCEPT ![o] = "young"], held |-> heap.held \cup {o}]
    BY <1>4 DEF Allocate
  <2>2. \A m \in Node : IsRetainer(m) => nodes[m].object # o
    BY <1>2, <2>1 DEF HandlesValid
  <2>3. heap' \in HeapType /\ \A q \in Object : heap'.place[q] = IF q = o THEN "young" ELSE heap.place[q]
    BY <1>3, <2>1 DEF HeapType
  <2>4. \A m \in Node : IsRetainer(m) => heap'.place[nodes[m].object] = heap.place[nodes[m].object]
    BY <1>2, <2>2, <2>3 DEF HandlesValid
  <2>5. \A q \in heap'.held : heap'.place[q] # "none"
    BY <1>2, <1>3, <2>1, <2>3 DEF HeldOK, HeapType
  <2> QED BY <1>1, <1>2, <2>3, <2>4, <2>5, HandlesKept DEF TypeOK, HandlesValid
<1>5. CASE \/ \E o \in Object : Drop(o)
         \/ \E n \in Node : Get(n)
  <2>1. /\ heap' \in HeapType
        /\ heap'.place = heap.place
        /\ \A q \in heap'.held : q \in heap.held \/ \E m \in Node : IsRetainer(m) /\ q = nodes[m].object
    <3>1. ASSUME NEW o \in Object, Drop(o)
          PROVE  /\ heap' \in HeapType
                 /\ heap'.place = heap.place
                 /\ \A q \in heap'.held : q \in heap.held \/ \E m \in Node : IsRetainer(m) /\ q = nodes[m].object
      BY <1>3, <3>1 DEF Drop, HeapType
    <3>2. ASSUME NEW n \in Node, Get(n)
          PROVE  /\ heap' \in HeapType
                 /\ heap'.place = heap.place
                 /\ \A q \in heap'.held : q \in heap.held \/ \E m \in Node : IsRetainer(m) /\ q = nodes[m].object
      BY <1>2, <1>3, <3>2 DEF Get, HeapType, HandlesValid
    <3> QED BY <1>5, <3>1, <3>2
  <2>2. \A q \in heap'.held : heap'.place[q] # "none"
    BY <1>2, <2>1 DEF HeldOK, HandlesValid
  <2> QED BY <1>1, <1>2, <2>1, <2>2, HandlesKept DEF TypeOK, HandlesValid
<1> QED BY <1>4, <1>5

\* A handle is made weak, strong, independent or partially dependent.
LEMMA ChangesInv ==
  ASSUME IInv, NEW n \in Node,
         MakeWeak(n) \/ ClearWeakness(n) \/ MarkIndependent(n) \/ MarkPartiallyDependent(n)
  PROVE  IInv'
<1>1. TypeOK /\ HandlesValid /\ HeldOK /\ RoundsFine(rounds) /\ nodes \in [Node -> NodeRecord]
  BY TypeParts DEF IInv, TypeOK
<1>2. PICK node : /\ nodes' = [nodes EXCEPT ![n] = node]
                  /\ node \in NodeRecord
                  /\ node.state \notin {"absent", "free"}
                  /\ node.object = nodes[n].object
                  /\ node.listed = nodes[n].listed
  <2>1. IsRetainer(n) /\ nodes[n] \in NodeRecord
    BY <1>1 DEF MakeWeak, ClearWeakness, MarkIndependent, MarkPartiallyDependent, Changes
  <2>2. CASE MakeWeak(n)
    <3> DEFINE node == [nodes[n] EXCEPT !.state = "weak", !.word = Null]
    <3>1. nodes' = [nodes EXCEPT ![n] = node]
      BY <2>2 DEF MakeWeak, Changes
    <3>2. /\ node \in NodeRecord /\ node.state \notin {"absent", "free"}
          /\ node.object = nodes[n].object /\ node.listed = nodes[n].listed
      BY <2>1 DEF NodeRecord, IsRetainer
    <3> QED BY <3>1, <3>2
  <2>3. CASE ClearWeakness(n)
    <3> DEFINE node == [nodes[n] EXCEPT !.state = "normal", !.word = Null]
    <3>1. nodes' = [nodes EXCEPT ![n] = node]
      BY <2>3 DEF ClearWeakness, Changes
    <3>2. /\ node \in NodeRecord /\ node.state \notin {"absent", "free"}
          /\ node.object = nodes[n].object /\ node.listed = nodes[n].listed
      BY <2>1 DEF NodeRecord, IsRetainer
    <3> QED BY <3>1, <3>2
  <2>4. CASE MarkIndependent(n)
    <3> DEFINE node == [nodes[n] EXCEPT !.independent = TRUE]
    <3>1. nodes' = [nodes EXCEPT ![n] = node]
      BY <2>4 DEF MarkIndependent, Changes
    <3>2. /\ node \in NodeRecord /\ node.state \notin {"absent", "free"}
          /\ node.object = nodes[n].object /\ node.listed = nodes[n].listed
      BY <2>1 DEF NodeRecord, IsRetainer
    <3> QED BY <3>1, <3>2
  <2>5. CASE MarkPartiallyDependent(n)
    <3> DEFINE node == [nodes[n] EXCEPT !.partially = TRUE]
    <3>1. nodes' = [nodes EXCEPT ![n] = node]
      BY <2>5 DEF MarkPartiallyDependent, Changes
    <3>2. /\ node \in NodeRecord /\ node.state \notin {"absent", "free"}
          /\ node.object = nodes[n].object /\ node.listed = nodes[n].listed
      BY <2>1 DEF NodeRecord, IsRetainer
    <3> QED BY <3>1, <3>2
  <2> QED BY <2>2, <2>3, <2>4, <2>5
<1>3. /\ IsRetainer(n)
      /\ UNCHANGED <<free, used, newSpace, heap, rounds>>
      /\ due' \in SUBSET Node
  BY <1>1 DEF TypeOK, MakeWeak, ClearWeakness, MarkIndependent, MarkPartiallyDependent, Changes, StillDue
<1>4. nodes' \in [Node -> NodeRecord]
  BY <1>1, <1>2
<1>5. \A m \in Node : nodes'[m] = IF m = n THEN node ELSE nodes[m]
  BY <1>1, <1>2
<1>6. \A m \in Node : /\ nodes'[m].state = "free" <=> nodes[m].state = "free"
                      /\ nodes'[m].state = "absent" <=> nodes[m].state = "absent"
                      /\ nodes[m].state = "free" => nodes'[m].word = nodes[m].word
                      /\ IsRetainer(m) => nodes'[m].object = nodes[m].object
                      /\ nodes'[m].listed = nodes[m].listed
  BY <1>2, <1>3, <1>5 DEF IsRetainer
<1>7. heap' \in HeapType
  BY <1>1, <1>3 DEF TypeOK, HeapType
<1> QED BY <1>1, <1>3, <1>4, <1>6, <1>7, HandlesKept DEF HeldOK, HandlesValid

\* A set with one element more, and with one less.
LEMMA OneMore ==
  ASSUME NEW S, NEW T, NEW x, IsFiniteSet(S), x \notin S, T = S \cup {x}
  PROVE  Cardinality(T) = Cardinality(S) + 1
BY FS_AddElement

LEMMA OneLess ==
  ASSUME NEW S, NEW T, NEW x, IsFiniteSet(S), x \in S, T = S \ {x}
  PROVE  Cardinality(T) = Cardinality(S) - 1
BY FS_RemoveElement

\* The uses of the blocks count their handles after one node n has become a
\* handle or ceased to be one.
LEMMA CountsStep ==
  ASSUME RestTyped, CountsOK, NEW n \in Node, nodes' \in [Node -> NodeRecord],
         \A m \in Node \ {n} : (nodes'[m].state \in {"absent", "free"}) <=> (nodes[m].state \in {"absent", "free"}),
         (nodes'[n].state \in {"absent", "free"}) <=> ~(nodes[n].state \in {"absent", "free"}),
         \A b \in Block : used'.uses[b] =
           IF b # n[1] THEN used.uses[b]
           ELSE IF nodes[n].state \in {"absent", "free"} THEN used.uses[b] + 1 ELSE used.uses[b] - 1
  PROVE  CountsOK' /\ \A b \in Block : used'.uses[b] \in 0 .. kSize
<1>1. ASSUME NEW b \in Block PROVE used'.uses[b] = Cardinality(RetainersOf(nodes', b))
  <2>1. IsFiniteSet(RetainersOf(nodes, b)) /\ used.uses[b] = Cardinality(RetainersOf(nodes, b))
    BY RetainersFinite DEF CountsOK
  <2>2. CASE b # n[1]
    <3>1. RetainersOf(nodes', b) = RetainersOf(nodes, b)
      BY <2>2 DEF RetainersOf
    <3> QED BY <2>1, <2>2, <3>1
  <2>3. CASE b = n[1] /\ nodes[n].state \in {"absent", "free"}
    <3>1. RetainersOf(nodes', b) = RetainersOf(nodes, b) \cup {n} /\ n \notin RetainersOf(nodes, b)
      BY <2>3 DEF RetainersOf
    <3>2. Cardinality(RetainersOf(nodes', b)) = Cardinality(RetainersOf(nodes, b)) + 1
      BY <2>1, <3>1, OneMore
    <3>3. used'.uses[b] = used.uses[b] + 1
      BY <2>3
    <3> QED BY <2>1, <3>2, <3>3
  <2>4. CASE b = n[1] /\ ~(nodes[n].state \in {"absent", "free"})
    <3>1. RetainersOf(nodes', b) = RetainersOf(nodes, b) \ {n} /\ n \in RetainersOf(nodes, b)
      BY <2>4 DEF RetainersOf
    <3>2. Cardinality(RetainersOf(nodes', b)) = Cardinality(RetainersOf(nodes, b)) - 1
      BY <2>1, <3>1, OneLess
    <3>3. used'.uses[b] = used.uses[b] - 1
      BY <2>4
    <3> QED BY <2>1, <3>2, <3>3
  <2> QED BY <2>2, <2>3, <2>4
<1> QED BY <1>1, RetainersFinite DEF CountsOK

\* A handle is made.
LEMMA CreateInv ==
  ASSUME IInv, NEW o \in Object, Create(o)
  PROVE  IInv'
<1>1. /\ TypeOK /\ RestTyped /\ RoundsFine(rounds) /\ StorageOK /\ ListOK /\ HeldOK /\ HandlesValid
  BY TypeParts DEF IInv
<1>2. PICK s \in WithFreeNode :
        LET n == s.free
            adds == InNewSpace(o) /\ ~s.nodes[n].listed
        IN  /\ free' = s.nodes[n].word
            /\ nodes' = [s.nodes EXCEPT ![n] =
                 [state |-> "normal", object |-> o, word |-> Null, independent |-> FALSE,
                  partially |-> FALSE, listed |-> @.listed \/ adds]]
            /\ newSpace' = IF adds THEN Append(newSpace, n) ELSE newSpace
            /\ used' = IncreaseUses(n[1])
  BY DEF Create
<1>3. o \in heap.held /\ UNCHANGED <<heap, rounds, due>>
  BY DEF Create
<1> DEFINE n == s.free
           ns == s.nodes
           adds == InNewSpace(o) /\ ~ns[n].listed
           new == [state |-> "normal", object |-> o, word |-> Null, independent |-> FALSE,
                   partially |-> FALSE, listed |-> ns[n].listed \/ adds]
<1>4. /\ free' = ns[n].word
      /\ nodes' = [ns EXCEPT ![n] = new]
      /\ newSpace' = IF adds THEN Append(newSpace, n) ELSE newSpace
      /\ used' = IncreaseUses(n[1])
  BY <1>2
<1>5. /\ ns \in [Node -> NodeRecord]
      /\ n \in Node /\ n[1] \in Block /\ ns[n].state = "free"
      /\ FreeOf(ns, n)
      /\ AbsentOf(ns)
      /\ \A m \in Node : /\ ns[m].state \in {"absent", "free"} <=> nodes[m].state \in {"absent", "free"}
                         /\ IsRetainer(m) => ns[m] = nodes[m]
                         /\ ns[m].listed = nodes[m].listed
  BY <1>1, FreeNodeGiven DEF Node
<1> HIDE DEF n, ns
<1>6. new \in NodeRecord /\ adds \in BOOLEAN /\ ns[n].listed \in BOOLEAN
  BY <1>5 DEF NodeRecord, InNewSpace
<1>7. /\ nodes' \in [Node -> NodeRecord]
      /\ nodes'[n] = new
      /\ \A m \in Node \ {n} : nodes'[m] = ns[m]
  <2> HIDE DEF new
  <2> QED BY <1>4, <1>5, <1>6
<1>8. new.state = "normal" /\ new.object = o /\ (new.listed <=> ns[n].listed \/ adds)
  OBVIOUS
<1> HIDE DEF new, adds
<1>9. FreeOf(nodes, free)' /\ free' \in Node \cup {Null}
  <2>1. PICK age : Chain(n, WordOf(ns), FreeNodesOf(ns), age)
    BY <1>5 DEF FreeOf
  <2> DEFINE F == FreeNodesOf(ns)
  <2>2. n \in F /\ Null \notin F /\ \A m \in F : WordOf(ns)[m] = ns[m].word
    BY <1>5, NullIsNone DEF FreeNodesOf, WordOf
  <2>3. FreeNodesOf(nodes') = F \ {n}
    BY <1>7, <1>8 DEF FreeNodesOf
  <2>4. \A m \in F \ {n} : WordOf(ns)[m] # n /\ WordOf(nodes')[m] = WordOf(ns)[m]
    <3>1. \A m \in F : WordOf(ns)[m] # n
      BY <2>1, ChainLinks
    <3> QED BY <3>1, <1>7 DEF FreeNodesOf, WordOf
  <2> HIDE DEF F
  <2>5. \E age2 : Chain(IF n = n THEN WordOf(ns)[n] ELSE n, WordOf(nodes'), F \ {n}, age2)
    <3>1. \A m \in F \ {n} : WordOf(nodes')[m] = IF WordOf(ns)[m] = n THEN WordOf(ns)[n] ELSE WordOf(ns)[m]
      BY <2>4
    <3>2. Chain(n, WordOf(ns), F, age)
      BY <2>1 DEF F
    <3> QED BY <2>2, <3>1, <3>2, ChainRemove
  <2>6. WordOf(ns)[n] = free'
    BY <1>4, <2>2
  <2>7. \E age2 : Chain(free', WordOf(nodes'), FreeNodesOf(nodes'), age2)
    BY <2>3, <2>5, <2>6
  <2>8. ns[n].word \in Node \cup {Null}
    BY <1>5 DEF NodeRecord
  <2> QED BY <1>4, <2>7, <2>8 DEF FreeOf
<1>10. AbsentOf(nodes)'
  <2>1. \A m \in Node : nodes'[m].state = "absent" <=> ns[m].state = "absent"
    BY <1>5, <1>7, <1>8
  <2>2. \A m \in Node : nodes'[m].state = "absent" => nodes'[m].listed = ns[m].listed
    BY <1>7, <1>8
  <2> QED BY <1>5, <2>1, <2>2 DEF AbsentOf
<1>11. /\ LinksOK'
       /\ used' \in [first : Block \cup {Null}, next : [Block -> Block \cup {Null}],
                     prev : [Block -> Block \cup {Null}], uses : [Block -> Nat]]
       /\ \A c \in Block : used'.uses[c] = IF c = n[1] THEN used.uses[n[1]] + 1 ELSE used.uses[c]
  BY <1>1, <1>4, <1>5, IncreaseLinks DEF StorageOK
<1>12. CountsOK' /\ \A b \in Block : used'.uses[b] \in 0 .. kSize
  <2>1. \A m \in Node \ {n} : (nodes'[m].state \in {"absent", "free"}) <=> (nodes[m].state \in {"absent", "free"})
    BY <1>5, <1>7
  <2>2. nodes[n].state \in {"absent", "free"} /\ ~(nodes'[n].state \in {"absent", "free"})
    BY <1>5, <1>7, <1>8
  <2> QED BY <1>1, <1>5, <1>7, <1>11, <2>1, <2>2, CountsStep DEF StorageOK
<1>13. ListOK' /\ newSpace' \in Seq(Node)
  <2>1. newSpace \in Seq(Node) /\ DOMAIN newSpace = 1 .. Len(newSpace) /\ Len(newSpace) \in Nat
    BY <1>1 DEF RestTyped
  <2>2. Distinct(newSpace) /\ Listed = {m \in Node : nodes[m].listed} /\ Young \subseteq Listed
    BY <1>1 DEF ListOK
  <2>3. \A m \in Node \ {n} : nodes'[m].listed <=> nodes[m].listed
    BY <1>5, <1>7
  <2>4. nodes'[n].listed <=> nodes[n].listed \/ adds
    BY <1>5, <1>7, <1>8
  <2>5. \A m \in Node \ {n} : IsRetainer(m)' => IsRetainer(m) /\ nodes'[m].object = nodes[m].object
    BY <1>5, <1>7 DEF IsRetainer
  <2>6. Young' \subseteq Young \cup {n} /\ (n \in Young' => InNewSpace(o))
    BY <1>3, <1>7, <1>8, <2>5 DEF Young, InNewSpace
  <2>7. n \in Young' => adds \/ nodes[n].listed
    BY <1>5, <2>6 DEF adds
  <2>8. CASE adds
    <3>1. n \notin Listed
      BY <1>5, <2>2, <2>8 DEF adds
    <3>2. newSpace' = Append(newSpace, n)
      BY <1>4, <2>8
    <3>3. newSpace' \in Seq(Node) /\ DOMAIN newSpace' = 1 .. Len(newSpace) + 1
      BY <1>5, <2>1, <3>2
    <3>4. \A i \in DOMAIN newSpace' : newSpace'[i] = IF i = Len(newSpace) + 1 THEN n ELSE newSpace[i]
      BY <1>5, <2>1, <3>2
    <3>5. Distinct(newSpace')
      BY <2>1, <2>2, <3>1, <3>3, <3>4 DEF Distinct, Listed
    <3>6. Listed' = Listed \cup {n}
      BY <2>1, <3>3, <3>4 DEF Listed
    <3> QED BY <1>5, <2>2, <2>3, <2>4, <2>6, <2>8, <3>3, <3>5, <3>6 DEF ListOK
  <2>9. CASE ~adds
    <3>1. newSpace' = newSpace /\ Listed' = Listed
      BY <1>4, <2>9 DEF Listed
    <3> QED BY <1>5, <2>1, <2>2, <2>3, <2>4, <2>6, <2>7, <2>9, <3>1 DEF ListOK
  <2> QED BY <2>8, <2>9
<1>14. HandlesValid'
  <2>1. \A m \in Node \ {n} : IsRetainer(m)' => IsRetainer(m) /\ nodes'[m].object = nodes[m].object
    BY <1>5, <1>7 DEF IsRetainer
  <2>2. heap.place[o] # "none"
    BY <1>1, <1>3 DEF HeldOK
  <2> QED BY <1>1, <1>3, <1>7, <1>8, <2>1, <2>2 DEF HandlesValid
<1>15. TypeOK' /\ RoundsOK'
  <2>1. RestTyped'
    <3>1. used' \in [first : Block \cup {Null}, next : [Block -> Block \cup {Null}],
                     prev : [Block -> Block \cup {Null}], uses : [Block -> 0 .. kSize]]
      BY <1>11, <1>12
    <3> QED BY <1>1, <1>3, <1>7, <1>9, <1>13, <3>1 DEF RestTyped
  <2> QED BY <1>1, <1>3, <2>1 DEF TypeOK, RoundsOK, RestTyped, RoundsFine, RoundRecord, Inside
<1>16. HeldOK'
  BY <1>1, <1>3 DEF HeldOK
<1> QED BY <1>9, <1>10, <1>11, <1>12, <1>13, <1>14, <1>15, <1>16 DEF IInv, StorageOK

\* A handle is disposed of.
LEMMA DestroyInv ==
  ASSUME IInv, NEW n \in Node, Destroy(n)
  PROVE  IInv'
<1> DEFINE new == [state |-> "free", object |-> Null, word |-> free, listed |-> nodes[n].listed,
                   independent |-> FALSE, partially |-> FALSE]
<1>1. /\ TypeOK /\ RestTyped /\ RoundsFine(rounds) /\ StorageOK /\ ListOK /\ HeldOK /\ HandlesValid
      /\ nodes \in [Node -> NodeRecord] /\ free \in Node \cup {Null} /\ n[1] \in Block
  BY TypeParts DEF IInv, RestTyped, Node
<1>2. /\ IsRetainer(n)
      /\ nodes' = [nodes EXCEPT ![n] = new]
      /\ free' = n
      /\ used' = DecreaseUses(n[1])
      /\ due' \subseteq Node
      /\ UNCHANGED <<newSpace, heap, rounds>>
  BY <1>1 DEF Destroy, StillDue, TypeOK
<1>3. new \in NodeRecord /\ new.state = "free" /\ new.word = free /\ new.listed = nodes[n].listed
  BY <1>1 DEF NodeRecord
<1> HIDE DEF new
<1>4. /\ nodes' \in [Node -> NodeRecord]
      /\ nodes'[n] = new
      /\ \A m \in Node \ {n} : nodes'[m] = nodes[m]
  BY <1>1, <1>2, <1>3
<1>5. FreeOf(nodes, free)'
  <2>1. PICK age : Chain(free, WordOf(nodes), FreeNodesOf(nodes), age)
    BY <1>1 DEF StorageOK, FreeOf
  <2> DEFINE F == FreeNodesOf(nodes)
  <2>2. n \notin F /\ n # Null /\ Null \notin F
    BY <1>2, NullIsNone DEF FreeNodesOf, IsRetainer
  <2>3. FreeNodesOf(nodes') = F \cup {n}
    BY <1>3, <1>4 DEF FreeNodesOf
  <2>4. WordOf(nodes')[n] = free /\ \A m \in F : WordOf(nodes')[m] = WordOf(nodes)[m]
    BY <1>3, <1>4, <2>2 DEF FreeNodesOf, WordOf
  <2>5. Chain(free, WordOf(nodes), F, age)
    BY <2>1
  <2> HIDE DEF F
  <2>6. \E age2 : Chain(n, WordOf(nodes'), F \cup {n}, age2)
    BY <2>2, <2>4, <2>5, ChainPush
  <2> QED BY <1>2, <2>3, <2>6 DEF FreeOf
<1>6. AbsentOf(nodes)'
  <2>1. \A m \in Node : nodes'[m].state = "absent" <=> nodes[m].state = "absent"
    BY <1>2, <1>3, <1>4 DEF IsRetainer
  <2>2. \A m \in Node : nodes'[m].listed = nodes[m].listed
    BY <1>3, <1>4
  <2> QED BY <1>1, <2>1, <2>2 DEF StorageOK, AbsentOf
<1>7. /\ LinksOK'
      /\ used' \in [first : Block \cup {Null}, next : [Block -> Block \cup {Null}],
                    prev : [Block -> Block \cup {Null}], uses : [Block -> Nat]]
      /\ \A c \in Block : used'.uses[c] = IF c = n[1] THEN used.uses[n[1]] - 1 ELSE used.uses[c]
  <2>1. n[1] \in UsedBlocks
    BY <1>1, <1>2, RetainersIterated DEF Iterated
  <2> QED BY <1>1, <1>2, <2>1, DecreaseLinks DEF StorageOK
<1>8. CountsOK' /\ \A b \in Block : used'.uses[b] \in 0 .. kSize
  <2>1. ~(nodes[n].state \in {"absent", "free"}) /\ nodes'[n].state \in {"absent", "free"}
    BY <1>2, <1>3, <1>4 DEF IsRetainer
  <2> QED BY <1>1, <1>4, <1>7, <2>1, CountsStep DEF StorageOK
<1>9. \A m \in Node : IsRetainer(m)' => IsRetainer(m) /\ nodes'[m].object = nodes[m].object
  BY <1>3, <1>4 DEF IsRetainer
<1>10. ListOK'
  <2>1. Young' \subseteq Young
    BY <1>2, <1>9 DEF Young, InNewSpace
  <2>2. Listed' = Listed
    BY <1>2 DEF Listed
  <2>3. \A m \in Node : nodes'[m].listed = nodes[m].listed
    BY <1>3, <1>4
  <2> QED BY <1>1, <1>2, <2>1, <2>2, <2>3 DEF ListOK
<1>11. HandlesValid'
  BY <1>1, <1>2, <1>9 DEF HandlesValid
<1>12. TypeOK' /\ RoundsOK'
  <2>1. RestTyped'
    <3>1. used' \in [first : Block \cup {Null}, next : [Block -> Block \cup {Null}],
                     prev : [Block -> Block \cup {Null}], uses : [Block -> 0 .. kSize]]
      BY <1>7, <1>8
    <3> QED BY <1>1, <1>2, <1>4, <3>1 DEF RestTyped
  <2> QED BY <1>1, <1>2, <2>1 DEF TypeOK, RoundsOK, RestTyped, RoundsFine, RoundRecord, Inside
<1>13. HeldOK'
  BY <1>1, <1>2 DEF HeldOK
<1> QED BY <1>5, <1>6, <1>7, <1>8, <1>10, <1>11, <1>12, <1>13 DEF IInv, StorageOK

\* What a collection does to the nodes when it loses no slot.
LEMMA CollectedNodes ==
  ASSUME nodes \in [Node -> NodeRecord], NEW found, NEW lost, lost = {},
         \A n \in found : nodes[n].state = "weak",
         nodes' = Collected(found, lost)
  PROVE  /\ nodes' \in [Node -> NodeRecord]
         /\ \A n \in Node : /\ nodes'[n].state = "free" <=> nodes[n].state = "free"
                            /\ nodes'[n].state = "absent" <=> nodes[n].state = "absent"
                            /\ nodes'[n].word = nodes[n].word
                            /\ nodes'[n].object = nodes[n].object
                            /\ nodes'[n].listed = nodes[n].listed
<1> DEFINE new(n) == [nodes[n] EXCEPT !.state = IF n \in found THEN "pending" ELSE @,
                                      !.object = IF n \in lost THEN Null ELSE @]
<1>1. nodes' = [n \in Node |-> new(n)]
  BY DEF Collected
<1>2. ASSUME NEW n \in Node
      PROVE  /\ new(n) \in NodeRecord
             /\ new(n).state = "free" <=> nodes[n].state = "free"
             /\ new(n).state = "absent" <=> nodes[n].state = "absent"
             /\ new(n).word = nodes[n].word
             /\ new(n).object = nodes[n].object
             /\ new(n).listed = nodes[n].listed
  BY DEF NodeRecord
<1> HIDE DEF new
<1> QED BY <1>1, <1>2

\* The scavenger treats the object of every handle as reached, or keeps it for the handle.
LEMMA ScavengeInv ==
  ASSUME IInv, Scavenge
  PROVE  IInv'
<1> DEFINE live == heap.held \cup Referents(StrongAndDependent)
           found == {n \in WeakIndependent :
                       nodes[n].state = "weak" /\ InNewSpace(nodes[n].object) /\ nodes[n].object \notin live}
           kept == live \cup Referents(WeakIndependent)
           lost == {n \in Node \ (StrongAndDependent \cup WeakIndependent) :
                      IsRetainer(n) /\ InNewSpace(nodes[n].object)}
<1>1. /\ TypeOK /\ RestTyped /\ RoundsFine(rounds) /\ ListOK /\ HeldOK /\ HandlesValid
      /\ nodes \in [Node -> NodeRecord] /\ heap \in HeapType
  BY TypeParts DEF IInv, RestTyped, HeapType
<1>2. /\ nodes' = Collected(found, lost)
      /\ due' = due \cup found
      /\ Begin("scavenge")
  BY DEF Scavenge
<1>3. PICK promoted \in SUBSET {o \in kept : InNewSpace(o)} :
        heap' = [heap EXCEPT !.place =
                   [o \in Object |-> IF ~InNewSpace(o) THEN heap.place[o]
                                     ELSE IF o \in promoted THEN "old"
                                     ELSE IF o \in kept THEN "young" ELSE "none"]]
  BY DEF Scavenge
<1>4. Listed \subseteq Node
  BY <1>1 DEF ListOK
<1>5. \A n \in Young : n \in StrongAndDependent \cup WeakIndependent
  <2>1. \A n \in Node : IsRetainer(n) => IsStrongRetainer(n) \/ IsWeakRetainer(n)
    BY <1>1 DEF IsRetainer, IsStrongRetainer, IsWeakRetainer, NodeRecord
  <2> QED BY <1>1, <2>1 DEF ListOK, Young, StrongAndDependent, WeakIndependent
<1>6. lost = {} /\ found \subseteq Node /\ \A n \in found : nodes[n].state = "weak"
  BY <1>4, <1>5 DEF Young, WeakIndependent
<1>7. \A n \in Young : nodes[n].object \in kept
  BY <1>5 DEF Referents
<1> HIDE DEF found, lost, kept, live
<1>8. /\ nodes' \in [Node -> NodeRecord]
      /\ \A n \in Node : /\ nodes'[n].state = "free" <=> nodes[n].state = "free"
                         /\ nodes'[n].state = "absent" <=> nodes[n].state = "absent"
                         /\ nodes'[n].word = nodes[n].word
                         /\ nodes'[n].object = nodes[n].object
                         /\ nodes'[n].listed = nodes[n].listed
  BY <1>1, <1>2, <1>6, CollectedNodes
<1>9. heap' \in HeapType /\ heap'.held = heap.held
  BY <1>1, <1>3 DEF HeapType
<1>10. \A o \in Object : heap'.place[o] = IF ~InNewSpace(o) THEN heap.place[o]
                                          ELSE IF o \in promoted THEN "old"
                                          ELSE IF o \in kept THEN "young" ELSE "none"
  BY <1>1, <1>3 DEF HeapType
<1>11. ASSUME NEW n \in Node, IsRetainer(n)
       PROVE  /\ heap'.place[nodes[n].object] = "young" => heap.place[nodes[n].object] = "young"
              /\ heap'.place[nodes[n].object] # "none"
  <2>1. nodes[n].object \in Object /\ heap.place[nodes[n].object] # "none"
    BY <1>1, <1>11 DEF HandlesValid
  <2>2. InNewSpace(nodes[n].object) => nodes[n].object \in kept
    BY <1>7, <1>11 DEF Young
  <2> QED BY <1>10, <2>1, <2>2 DEF InNewSpace
<1>12. \A o \in heap'.held : heap'.place[o] # "none"
  <2>1. \A o \in heap.held : o \in Object /\ heap.place[o] # "none" /\ o \in kept
    BY <1>1 DEF HeldOK, HeapType, kept, live
  <2> QED BY <1>9, <1>10, <2>1
<1>13. RoundsFine(rounds') /\ UNCHANGED <<free, used, newSpace>>
  BY <1>1, <1>2, BeginFine DEF Begin
<1>14. due' \in SUBSET Node
  BY <1>1, <1>2, <1>6 DEF TypeOK
<1> QED BY <1>8, <1>9, <1>11, <1>12, <1>13, <1>14, HandlesKept

\* The full collector comes to every handle.
LEMMA MarkCompactInv ==
  ASSUME IInv, MarkCompact
  PROVE  IInv'
<1> DEFINE live == heap.held \cup Referents({n \in Iterated : IsStrongRetainer(n)})
           found == {n \in Iterated : nodes[n].state = "weak" /\ nodes[n].object \notin live}
           kept == live \cup Referents({n \in Iterated : IsWeakRetainer(n)})
           lost == {n \in Node \ Iterated : IsRetainer(n)}
<1>1. /\ TypeOK /\ RestTyped /\ RoundsFine(rounds) /\ StorageOK /\ HeldOK /\ HandlesValid
      /\ nodes \in [Node -> NodeRecord] /\ heap \in HeapType
  BY TypeParts DEF IInv, RestTyped, HeapType
<1>2. /\ nodes' = Collected(found, lost)
      /\ UNCHANGED due
      /\ Begin("full")
  BY DEF MarkCompact
<1>3. PICK promoted \in SUBSET {o \in kept : InNewSpace(o)} :
        heap' = [heap EXCEPT !.place =
                   [o \in Object |-> IF o \in promoted THEN "old"
                                     ELSE IF o \in kept THEN heap.place[o] ELSE "none"]]
  BY DEF MarkCompact
<1>4. \A n \in Node : IsRetainer(n) => n \in Iterated
  BY <1>1, RetainersIterated
<1>5. lost = {} /\ \A n \in found : nodes[n].state = "weak"
  BY <1>4
<1>6. \A n \in Node : IsRetainer(n) => nodes[n].object \in kept
  <2>1. \A n \in Node : IsRetainer(n) => IsStrongRetainer(n) \/ IsWeakRetainer(n)
    BY <1>1 DEF IsRetainer, IsStrongRetainer, IsWeakRetainer, NodeRecord
  <2> QED BY <1>4, <2>1 DEF Referents
<1> HIDE DEF found, lost, kept, live
<1>7. /\ nodes' \in [Node -> NodeRecord]
      /\ \A n \in Node : /\ nodes'[n].state = "free" <=> nodes[n].state = "free"
                         /\ nodes'[n].state = "absent" <=> nodes[n].state = "absent"
                         /\ nodes'[n].word = nodes[n].word
                         /\ nodes'[n].object = nodes[n].object
                         /\ nodes'[n].listed = nodes[n].listed
  BY <1>1, <1>2, <1>5, CollectedNodes
<1>8. heap' \in HeapType /\ heap'.held = heap.held
  BY <1>1, <1>3 DEF HeapType
<1>9. \A o \in Object : heap'.place[o] = IF o \in promoted THEN "old"
                                         ELSE IF o \in kept THEN heap.place[o] ELSE "none"
  BY <1>1, <1>3 DEF HeapType
<1>10. ASSUME NEW n \in Node, IsRetainer(n)
       PROVE  /\ heap'.place[nodes[n].object] = "young" => heap.place[nodes[n].object] = "young"
              /\ heap'.place[nodes[n].object] # "none"
  BY <1>1, <1>6, <1>9, <1>10 DEF HandlesValid
<1>11. \A o \in heap'.held : heap'.place[o] # "none"
  <2>1. \A o \in heap.held : o \in Object /\ heap.place[o] # "none" /\ o \in kept
    BY <1>1 DEF HeldOK, HeapType, kept, live
  <2> QED BY <1>8, <1>9, <2>1
<1>12. RoundsFine(rounds') /\ UNCHANGED <<free, used, newSpace>>
  BY <1>1, <1>2, BeginFine DEF Begin
<1>13. due' \in SUBSET Node
  BY <1>1, <1>2 DEF TypeOK
<1> QED BY <1>7, <1>8, <1>10, <1>11, <1>12, <1>13, HandlesKept

\* A turn of the processing after a collection: a node is passed over, its
\* callback is called or returns.
LEMMA TurnInv ==
  ASSUME IInv, PassNode \/ CallBack \/ CallbackReturns
  PROVE  IInv'
<1>1. /\ TypeOK /\ RestTyped /\ RoundsFine(rounds) /\ HeldOK /\ HandlesValid
      /\ nodes \in [Node -> NodeRecord] /\ heap \in HeapType /\ due \in SUBSET Node
  BY TypeParts DEF IInv, RestTyped, HeapType
<1>2. rounds # <<>> /\ UNCHANGED <<free, used, newSpace, heap>> /\ due' \in SUBSET Node
  BY <1>1 DEF PassNode, CallBack, CallbackReturns, Looking, StillDue
<1>3. Top \in RoundRecord /\ Inside(Top) /\ RoundsFine(Popped)
  BY <1>1, <1>2, TopOfRounds
<1> DEFINE at == NodeAt(Top)
           Similar == /\ nodes' \in [Node -> NodeRecord]
                      /\ \A n \in Node : /\ nodes'[n].state = "free" <=> nodes[n].state = "free"
                                         /\ nodes'[n].state = "absent" <=> nodes[n].state = "absent"
                                         /\ nodes[n].state = "free" => nodes'[n].word = nodes[n].word
                                         /\ nodes'[n].object = nodes[n].object
                                         /\ nodes'[n].listed = nodes[n].listed
<1>4. CASE PassNode
  <2>1. at \in Node /\ Advanced(Top) \in RoundRecord /\ Inside(Advanced(Top))
    BY <1>1, <1>3, <1>4, AdvancedFine DEF PassNode, Looking
  <2>2. RoundsFine(rounds')
    BY <1>1, <1>2, <1>4, <2>1, GoesFine DEF PassNode
  <2>3. Similar
    <3>1. nodes' = nodes \/ nodes' = [nodes EXCEPT ![at].partially = FALSE]
      BY <1>4 DEF PassNode
    <3> HIDE DEF at
    <3>2. nodes[at] \in NodeRecord
      BY <1>1, <2>1
    <3> DEFINE new == [nodes[at] EXCEPT !.partially = FALSE]
    <3>3. new \in NodeRecord /\ new.state = nodes[at].state /\ new.word = nodes[at].word
          /\ new.object = nodes[at].object /\ new.listed = nodes[at].listed
      BY <3>2 DEF NodeRecord
    <3>4. nodes' = nodes \/ nodes' = [nodes EXCEPT ![at] = new]
      BY <3>1
    <3> HIDE DEF new
    <3> QED BY <1>1, <2>1, <3>3, <3>4
  <2> QED BY <1>1, <1>2, <2>2, <2>3, HandlesKept DEF HeldOK, HandlesValid
<1>5. CASE CallBack
  <2>1. at \in Node
    BY <1>1, <1>3, <1>5, AdvancedFine DEF CallBack, Looking
  <2>2. RoundsFine(rounds')
    <3>1. Goes([Top EXCEPT !.node = at])
      BY <1>5 DEF CallBack
    <3>2. [Top EXCEPT !.node = at] \in RoundRecord /\ Inside([Top EXCEPT !.node = at])
      BY <1>3, <1>5, <2>1 DEF RoundRecord, Inside, CallBack, Looking, AtEnd
    <3> QED BY <1>1, <1>2, <3>1, <3>2, GoesFine
  <2>3. Similar
    <3>1. /\ nodes' = [nodes EXCEPT ![at].partially = FALSE, ![at].state = "nearDeath", ![at].word = Null]
          /\ nodes[at].state = "pending"
      BY <1>5 DEF CallBack
    <3> HIDE DEF at
    <3>2. nodes[at] \in NodeRecord
      BY <1>1, <2>1
    <3> DEFINE new == [nodes[at] EXCEPT !.partially = FALSE, !.state = "nearDeath", !.word = Null]
    <3>3. new \in NodeRecord /\ new.state = "nearDeath"
          /\ new.object = nodes[at].object /\ new.listed = nodes[at].listed
      BY <3>2 DEF NodeRecord
    <3>4. nodes' = [nodes EXCEPT ![at] = new]
      BY <1>1, <2>1, <3>1
    <3> HIDE DEF new
    <3> QED BY <1>1, <2>1, <3>1, <3>3, <3>4
  <2> QED BY <1>1, <1>2, <2>2, <2>3, HandlesKept DEF HeldOK, HandlesValid
<1>6. CASE CallbackReturns
  <2>1. nodes' = nodes
    BY <1>6 DEF CallbackReturns
  <2>2. RoundsFine(rounds')
    <3>1. rounds' = Popped \/ Goes(Advanced(Top))
      BY <1>6 DEF CallbackReturns
    <3>2. CASE Goes(Advanced(Top))
      <4>1. Top.node # Null
        BY <1>6 DEF CallbackReturns
      <4> QED BY <1>1, <1>2, <1>3, <3>2, <4>1, AdvancedFine, GoesFine
    <3> QED BY <1>3, <3>1, <3>2
  <2> QED BY <1>1, <1>2, <2>1, <2>2, HandlesKept DEF HeldOK, HandlesValid
<1> QED BY <1>4, <1>5, <1>6

\* The list of young nodes is renewed.
LEMMA EndRoundInv ==
  ASSUME IInv, EndRound
  PROVE  IInv'
<1>1. /\ TypeOK /\ RestTyped /\ RoundsFine(rounds) /\ StorageOK /\ ListOK /\ HeldOK /\ HandlesValid
      /\ nodes \in [Node -> NodeRecord]
  BY TypeParts DEF IInv, RestTyped
<1>2. /\ newSpace' = Compacted(newSpace, Young)
      /\ nodes' = [n \in Node |-> [nodes[n] EXCEPT !.listed = @ /\ n \in Young]]
      /\ rounds' = Popped
      /\ UNCHANGED <<free, used, heap, due>>
  BY DEF EndRound
<1> DEFINE new(n) == [nodes[n] EXCEPT !.listed = @ /\ n \in Young]
<1>3. ASSUME NEW n \in Node
      PROVE  /\ new(n) \in NodeRecord /\ new(n).state = nodes[n].state
             /\ new(n).word = nodes[n].word /\ new(n).object = nodes[n].object
             /\ new(n).listed <=> nodes[n].listed /\ n \in Young
  <2>1. nodes[n] \in NodeRecord /\ (n \in Young) \in BOOLEAN
    BY <1>1
  <2>2. (nodes[n].listed /\ n \in Young) \in BOOLEAN
    OBVIOUS
  <2> QED BY <2>1, <2>2 DEF NodeRecord
<1>4. nodes' = [n \in Node |-> new(n)]
  BY <1>2
<1> HIDE DEF new
<1>5. /\ nodes' \in [Node -> NodeRecord]
      /\ \A n \in Node : /\ nodes'[n].state = nodes[n].state
                         /\ nodes'[n].word = nodes[n].word
                         /\ nodes'[n].object = nodes[n].object
                         /\ nodes'[n].listed <=> nodes[n].listed /\ n \in Young
  BY <1>3, <1>4
<1>6. StorageOK'
  <2>1. \A n \in Node : nodes[n].state = "absent" => ~nodes'[n].listed
    BY <1>5 DEF Young, IsRetainer
  <2> QED BY <1>1, <1>2, <1>5, <2>1, StorageSame
<1>7. Young' = Young
  BY <1>2, <1>5 DEF Young, IsRetainer, InNewSpace
<1>8. newSpace' \in Seq(Node) /\ Distinct(newSpace') /\ Listed' = Listed \cap Young
  <2>1. newSpace \in Seq(Node) /\ Distinct(newSpace)
    BY <1>1 DEF TypeOK, ListOK
  <2> DEFINE y == Young
  <2>2. /\ Compacted(newSpace, y) \in Seq(Node) /\ Distinct(Compacted(newSpace, y))
        /\ {Compacted(newSpace, y)[j] : j \in DOMAIN Compacted(newSpace, y)}
             = {newSpace[i] : i \in DOMAIN newSpace} \cap y
    <3> HIDE DEF y
    <3>1. Compacted(newSpace, y) \in Seq(Node)
      BY <2>1, CompactedKeeps
    <3>2. Distinct(Compacted(newSpace, y))
      BY <2>1, CompactedKeeps
    <3>3. {Compacted(newSpace, y)[j] : j \in DOMAIN Compacted(newSpace, y)}
            = {newSpace[i] : i \in DOMAIN newSpace} \cap y
      BY <2>1, CompactedKeeps
    <3> QED BY <3>1, <3>2, <3>3
  <2> QED BY <1>2, <2>2, Zenon DEF Listed
<1>9. ListOK'
  BY <1>1, <1>5, <1>7, <1>8 DEF ListOK
<1>10. RoundsFine(rounds')
  <2>1. rounds # <<>>
    BY DEF EndRound
  <2> QED BY <1>1, <1>2, <2>1, TopOfRounds
<1>11. TypeOK' /\ RoundsOK'
  BY <1>1, <1>2, <1>5, <1>8, <1>10 DEF TypeOK, RoundsOK, RestTyped, RoundsFine, RoundRecord, Inside
<1>12. HeldOK' /\ HandlesValid'
  <2>1. HeldOK'
    BY <1>1, <1>2 DEF HeldOK
  <2>2. ASSUME NEW n \in Node, IsRetainer(n)'
        PROVE  nodes'[n].object \in Object /\ heap'.place[nodes'[n].object] # "none"
    <3>1. IsRetainer(n) /\ nodes'[n].object = nodes[n].object
      BY <1>5, <2>2 DEF IsRetainer
    <3> QED BY <1>1, <1>2, <3>1 DEF HandlesValid
  <2> QED BY <2>1, <2>2 DEF HandlesValid
<1> QED BY <1>6, <1>9, <1>11, <1>12 DEF IInv

\* At the beginning there are no blocks.
LEMMA InitInv == Init => IInv
<1> SUFFICES ASSUME Init PROVE IInv
  OBVIOUS
<1> USE DEF Init
<1>1. TypeOK
  BY SizeAssumption DEF TypeOK, NodeRecord
<1>2. \A n \in Node : nodes[n].state = "absent" /\ nodes[n].listed = FALSE
  OBVIOUS
<1>3. FreeOf(nodes, free)
  <2>1. FreeNodesOf(nodes) = {}
    BY <1>2 DEF FreeNodesOf
  <2>2. Chain(free, WordOf(nodes), {}, free)
    BY DEF Chain
  <2> QED BY <2>1, <2>2 DEF FreeOf
<1>4. CountsOK
  <2>1. \A b \in Block : RetainersOf(nodes, b) = {}
    BY <1>2 DEF RetainersOf
  <2> QED BY <2>1, FS_EmptySet DEF CountsOK
<1>5. LinksOK
  <2>1. UsedBlocks = {}
    BY DEF UsedBlocks
  <2>2. Chain(used.first, used.next, {}, free)
    BY DEF Chain
  <2> QED BY <2>1, <2>2 DEF LinksOK
<1>6. ListOK
  BY <1>2 DEF ListOK, Distinct, Listed, Young, IsRetainer
<1>7. RoundsOK /\ HeldOK
  BY DEF RoundsOK, HeldOK
<1>8. HandlesValid
  BY <1>2 DEF HandlesValid, IsRetainer
<1>9. AbsentOf(nodes)
  BY <1>2 DEF AbsentOf
<1> QED BY <1>1, <1>3, <1>4, <1>5, <1>6, <1>7, <1>8, <1>9 DEF IInv, StorageOK

\* Nothing changes.
LEMMA StutterInv ==
  ASSUME IInv, UNCHANGED vars
  PROVE  IInv'
<1>1. TypeOK /\ HandlesValid /\ HeldOK /\ RoundsFine(rounds)
  BY TypeParts DEF IInv
<1>2. /\ UNCHANGED <<nodes, free, used, newSpace, heap, rounds, due>>
      /\ nodes' \in [Node -> NodeRecord] /\ heap' \in HeapType /\ due' \in SUBSET Node
  BY <1>1 DEF vars, TypeOK, HeapType
<1> QED BY <1>1, <1>2, HandlesKept DEF HeldOK, HandlesValid

\* Every step keeps IInv.
LEMMA NextInv == IInv /\ [Next]_vars => IInv'
<1> SUFFICES ASSUME IInv, [Next]_vars PROVE IInv'
  OBVIOUS
<1>1. ASSUME NEW o \in Object, Allocate(o) \/ Drop(o) PROVE IInv'
  BY <1>1, HeapInv
<1>2. ASSUME NEW n \in Node, Get(n) PROVE IInv'
  BY <1>2, HeapInv
<1>3. ASSUME NEW o \in Object, Create(o) PROVE IInv'
  BY <1>3, CreateInv
<1>4. ASSUME NEW n \in Node, Destroy(n) PROVE IInv'
  BY <1>4, DestroyInv
<1>5. ASSUME NEW n \in Node,
             MakeWeak(n) \/ ClearWeakness(n) \/ MarkIndependent(n) \/ MarkPartiallyDependent(n)
      PROVE  IInv'
  BY <1>5, ChangesInv
<1>6. CASE Scavenge
  BY <1>6, ScavengeInv
<1>7. CASE MarkCompact
  BY <1>7, MarkCompactInv
<1>8. CASE PassNode \/ CallBack \/ CallbackReturns
  BY <1>8, TurnInv
<1>9. CASE EndRound
  BY <1>9, EndRoundInv
<1>10. CASE UNCHANGED vars
  BY <1>10, StutterInv
<1> QED
  BY <1>1, <1>2, <1>3, <1>4, <1>5, <1>6, <1>7, <1>8, <1>9, <1>10 DEF Next

\* IInv holds in every state, whatever the callbacks do.
THEOREM Invariance == Spec => []IInv
BY InitInv, NextInv, PTL DEF Spec

----------------------------------------------------------------------------
\* The fields of the nodes and blocks, the lists and the iterators of the
\* active calls of PostGarbageCollectionProcessing keep their types, for any
\* number of collections inside one another.
THEOREM TypeCorrect == Spec => []TypeOK
<1>1. IInv => TypeOK
  BY DEF IInv
<1> QED BY <1>1, Invariance, PTL

\* No scavenge or full collection takes or moves the object of a handle
\* without the handle: each handle that exists, strong, weak, pending or near
\* death, leads to an object (IterateNewSpaceStrongAndDependentRoots,
\* IterateNewSpaceWeakIndependentRoots, IterateWeakRoots).
THEOREM HandlesAreValid == Spec => []HandlesValid
<1>1. IInv => HandlesValid
  BY DEF IInv
<1> QED BY <1>1, Invariance, PTL

\* The free nodes are linked once each, the blocks in use are linked both ways
\* and count their nodes, and the young handles are listed for the scavenger,
\* through creations and disposals in callbacks (Acquire, Release, the blocks'
\* IncreaseUses and DecreaseUses, new_space_nodes_).
THEOREM ListsAreExact == Spec => []ListsExact
<1>1. IInv => ListsExact
  BY Consequences
<1> QED BY <1>1, Invariance, PTL

----------------------------------------------------------------------------
(* What an iterator is still to come to.                                    *)

ClosedFrom(first, next) ==
  {S \in SUBSET DOMAIN next : /\ first = Null \/ first \in S
                              /\ \A y \in S : next[y] = Null \/ next[y] \in S}

\* A walk meets what every closed set has.
LEMMA WalkMeets ==
  ASSUME NEW first, NEW next
  PROVE  Walk(first, next) = {x \in DOMAIN next : \A S \in ClosedFrom(first, next) : x \in S}
BY Zenon DEF Walk, ClosedFrom

\* A walk from nowhere meets nothing.
LEMMA WalkNone ==
  ASSUME NEW next
  PROVE  Walk(Null, next) = {}
<1>1. {} \in ClosedFrom(Null, next)
  BY DEF ClosedFrom
<1> QED BY <1>1, WalkMeets

\* After its first element a walk goes on from the next.
LEMMA WalkStep ==
  ASSUME NEW next, NEW first \in DOMAIN next, NEW x \in Walk(first, next), x # first
  PROVE  x \in Walk(next[first], next)
<1>1. x \in DOMAIN next /\ \A S \in ClosedFrom(first, next) : x \in S
  BY WalkMeets
<1>2. ASSUME NEW S \in ClosedFrom(next[first], next) PROVE x \in S
  <2>1. S \cup {first} \in ClosedFrom(first, next)
    BY DEF ClosedFrom
  <2> QED BY <1>1, <2>1
<1> QED BY <1>1, <1>2, WalkMeets

\* A block put before the others leaves every walk what it met in use.
LEMMA IncreaseWalks ==
  ASSUME RestTyped, LinksOK, NEW b \in Block, used' = IncreaseUses(b), NEW c \in Block,
         NEW x \in UsedBlocks, x \in Walk(used.next[c], used.next)
  PROVE  x \in Walk(used'.next[c], used'.next)
<1>1. /\ used.next \in [Block -> Block \cup {Null}] /\ used.uses \in [Block -> Nat]
      /\ b # Null /\ Null \notin UsedBlocks /\ UsedBlocks \in SUBSET Block
  BY SizeAssumption, NullIsNone DEF RestTyped, UsedBlocks
<1>2. CASE used.uses[b] > 0
  <2>1. used'.next = used.next
    BY <1>2 DEF IncreaseUses, RestTyped
  <2> QED BY <2>1
<1>3. CASE ~(used.uses[b] > 0)
  <2>1. used'.next = [used.next EXCEPT ![b] = used.first]
    BY <1>3 DEF IncreaseUses
  <2>2. DOMAIN used'.next = Block /\ DOMAIN used.next = Block
    BY <1>1, <2>1
  <2>3. PICK age : Chain(used.first, used.next, UsedBlocks, age)
    BY DEF LinksOK
  <2>4. b \notin UsedBlocks /\ \A y \in UsedBlocks : used.next[y] # Null => used.next[y] \in UsedBlocks
    BY <1>3, <2>3 DEF Chain, UsedBlocks
  <2>5. Walk(used.first, used.next) = UsedBlocks
    BY <1>1, <2>3, ChainWalk, NullIsNone
  <2>6. ASSUME NEW S \in ClosedFrom(used'.next[c], used'.next) PROVE x \in S
    <3>1. S \in SUBSET Block /\ \A y \in S : used'.next[y] = Null \/ used'.next[y] \in S
      BY <2>2 DEF ClosedFrom
    <3>2. \A y \in S : y # b => used'.next[y] = used.next[y]
      BY <1>1, <2>1, <3>1
    <3>3. used'.next[c] = Null \/ used'.next[c] \in S
      BY DEF ClosedFrom
    <3>4. CASE used.first = Null \/ used.first \in S
      <4>1. used.first = Null \/ used.first \in UsedBlocks
        BY <2>3 DEF Chain
      <4>2. S \cap UsedBlocks \in ClosedFrom(used.first, used.next)
        BY <1>1, <2>2, <2>4, <3>1, <3>2, <3>4, <4>1 DEF ClosedFrom
      <4>3. x \in Walk(used.first, used.next)
        BY <2>5
      <4> QED BY <4>2, <4>3, WalkMeets
    <3>5. CASE ~(used.first = Null \/ used.first \in S)
      <4>1. used'.next[b] = used.first
        BY <1>1, <2>1
      <4>2. b \notin S /\ c # b
        BY <3>1, <3>3, <3>5, <4>1
      <4>3. used'.next[c] = used.next[c]
        BY <1>1, <2>1, <4>2
      <4>4. S \in ClosedFrom(used.next[c], used.next)
        BY <2>2, <3>1, <3>2, <3>3, <4>2, <4>3 DEF ClosedFrom
      <4> QED BY <4>4, WalkMeets
    <3> QED BY <3>4, <3>5
  <2> QED BY <1>1, <2>2, <2>6, WalkMeets
<1> QED BY <1>2, <1>3

\* A block taken out is met no more, and every walk meets the others as before,
\* the walk that was about to follow its link included.
LEMMA DecreaseWalks ==
  ASSUME RestTyped, LinksOK, NEW b \in UsedBlocks, used' = DecreaseUses(b), NEW c \in Block,
         NEW x \in UsedBlocks', x \in Walk(used.next[c], used.next)
  PROVE  x \in Walk(used'.next[c], used'.next)
<1>1. /\ used.next \in [Block -> Block \cup {Null}] /\ used.uses \in [Block -> Nat]
      /\ b \in Block /\ b # Null /\ Null \notin UsedBlocks /\ UsedBlocks \in SUBSET Block /\ x \in Block
  BY SizeAssumption, NullIsNone DEF RestTyped, UsedBlocks
<1>2. CASE used.uses[b] > 1
  <2>1. used'.next = used.next
    BY <1>2 DEF DecreaseUses, RestTyped
  <2> QED BY <2>1
<1>3. CASE ~(used.uses[b] > 1)
  <2>1. used'.next = [y \in Block |-> IF y = used.prev[b] THEN used.next[b] ELSE used.next[y]]
        /\ used'.uses = [used.uses EXCEPT ![b] = 0]
    BY <1>3 DEF DecreaseUses
  <2>2. DOMAIN used'.next = Block /\ DOMAIN used.next = Block
    BY <1>1, <2>1
  <2>3. x # b
    BY <1>1, <2>1 DEF UsedBlocks
  <2>4. \A y \in Block : used'.next[y] = used.next[y] \/ (used'.next[y] = used.next[b] /\ used.next[y] = b)
    <3>1. used.prev[b] \in Block => used.next[used.prev[b]] = b
      BY NullIsNone DEF LinksOK
    <3> QED BY <2>1, <3>1
  <2>5. used'.next[b] = used.next[b]
    BY <1>1, <2>1
  <2>6. ASSUME NEW S \in ClosedFrom(used'.next[c], used'.next) PROVE x \in S
    <3>1. /\ S \in SUBSET Block /\ \A y \in S : used'.next[y] = Null \/ used'.next[y] \in S
          /\ used'.next[c] = Null \/ used'.next[c] \in S
      BY <2>2 DEF ClosedFrom
    <3>2. CASE used.next[b] = Null \/ used.next[b] \in S
      <4>1. S \cup {b} \in ClosedFrom(used.next[c], used.next)
        <5>1. used.next[c] = Null \/ used.next[c] \in S \cup {b}
          BY <2>4, <3>1
        <5>2. \A y \in S \cup {b} : used.next[y] = Null \/ used.next[y] \in S \cup {b}
          BY <1>1, <2>4, <3>1, <3>2
        <5> QED BY <1>1, <2>2, <3>1, <5>1, <5>2 DEF ClosedFrom
      <4> QED BY <2>3, <4>1, WalkMeets
    <3>3. CASE ~(used.next[b] = Null \/ used.next[b] \in S)
      <4>1. S \in ClosedFrom(used.next[c], used.next)
        <5>1. used.next[c] = Null \/ used.next[c] \in S
          BY <2>4, <3>1, <3>3
        <5>2. \A y \in S : used.next[y] = Null \/ used.next[y] \in S
          BY <2>4, <3>1, <3>3
        <5> QED BY <2>2, <3>1, <5>1, <5>2 DEF ClosedFrom
      <4> QED BY <4>1, WalkMeets
    <3> QED BY <3>2, <3>3
  <2> QED BY <1>1, <2>2, <2>6, WalkMeets
<1> QED BY <1>2, <1>3

Pending == {n \in Node : nodes[n].state = "pending"}

\* The first index at the iterator's list or block that it is still to come to.
From(r) == IF r.node = Null THEN r.index ELSE r.index + 1

Ahead(r) ==
  IF r.collector = "scavenge" THEN {newSpace[j] : j \in {i \in DOMAIN newSpace : From(r) <= i}}
  ELSE {n \in Node : /\ r.block # Null
                     /\ \/ n[1] = r.block /\ From(r) <= n[2]
                        \/ n[1] \in Walk(used.next[r.block], used.next)}

\* A round that another came into is in a callback.
WaitOf(rs) ==
  /\ \A k \in DOMAIN rs : k # Len(rs) => rs[k].again
  /\ \A k \in DOMAIN rs : rs[k].again => rs[k].node # Null

\* What a scavenge has identified is still to be called back and listed.
DueOK == \A n \in due : nodes[n].state = "pending" /\ MayDieYoung(n) /\ nodes[n].listed

\* When a round ends there is none left of them.
WaitOK == WaitOf(rounds) /\ (rounds = <<>> \/ Top.again => due = {})

\* The innermost round is still to come to those it has to process.
AheadOK ==
  rounds # <<>> /\ ~Top.again =>
    (IF Top.collector = "full" THEN Pending ELSE due) \subseteq Ahead(Top)

PInv == DueOK /\ WaitOK /\ AheadOK

\* The innermost round is over.
LEMMA WaitPopped ==
  ASSUME RoundsFine(rounds), rounds # <<>>, WaitOf(rounds)
  PROVE  /\ WaitOf(Popped)
         /\ Popped = <<>> \/ Popped[Len(Popped)].again
<1>1. Len(rounds) \in 1 .. Len(rounds) /\ DOMAIN rounds = 1 .. Len(rounds) /\ rounds \in Seq(RoundRecord)
  BY DEF RoundsFine
<1>2. /\ Popped \in Seq(RoundRecord) /\ Len(Popped) = Len(rounds) - 1
      /\ DOMAIN Popped = 1 .. Len(rounds) - 1
      /\ \A k \in DOMAIN Popped : Popped[k] = rounds[k]
  BY <1>1 DEF Popped
<1>3. \A k \in DOMAIN Popped : k \in DOMAIN rounds /\ k # Len(rounds)
  BY <1>1, <1>2
<1>4. WaitOf(Popped)
  BY <1>2, <1>3 DEF WaitOf
<1>5. Popped = <<>> \/ Len(Popped) \in DOMAIN Popped
  BY <1>2
<1> QED BY <1>2, <1>3, <1>4, <1>5 DEF WaitOf

\* The innermost round goes on.
LEMMA WaitGoes ==
  ASSUME RoundsFine(rounds), rounds # <<>>, WaitOf(rounds), NEW r, Goes(r), r.again => r.node # Null
  PROVE  WaitOf(rounds') /\ rounds' # <<>> /\ Top' = r
<1>1. Len(rounds) \in 1 .. Len(rounds) /\ DOMAIN rounds = 1 .. Len(rounds) /\ rounds \in Seq(RoundRecord)
  BY DEF RoundsFine
<1>2. rounds' = [rounds EXCEPT ![Len(rounds)] = r]
  BY DEF Goes
<1>3. DOMAIN rounds' = DOMAIN rounds /\ Len(rounds') = Len(rounds)
  BY <1>1, <1>2
<1>4. \A k \in DOMAIN rounds : rounds'[k] = IF k = Len(rounds) THEN r ELSE rounds[k]
  BY <1>1, <1>2
<1> QED BY <1>1, <1>3, <1>4 DEF WaitOf, Top

\* A round begins, in a callback or not.
LEMMA WaitBegin ==
  ASSUME RoundsFine(rounds), WaitOf(rounds), rounds # <<>> => Top.node # Null,
         NEW c \in {"scavenge", "full"}, Begin(c)
  PROVE  WaitOf(rounds') /\ rounds' # <<>> /\ Top' = NewRound(c)
<1> DEFINE q == [k \in DOMAIN rounds |-> [rounds[k] EXCEPT !.again = TRUE]]
           r == NewRound(c)
<1>1. DOMAIN rounds = 1 .. Len(rounds) /\ Len(rounds) \in Nat
  BY DEF RoundsFine
<1>2. \A k \in DOMAIN rounds : rounds[k] \in RoundRecord
  BY <1>1 DEF RoundsFine
<1>3. \A k \in DOMAIN rounds : q[k].again /\ q[k].node = rounds[k].node /\ q[k] \in RoundRecord
  BY <1>2 DEF RoundRecord
<1>4. q \in Seq(RoundRecord) /\ DOMAIN q = DOMAIN rounds /\ Len(q) = Len(rounds)
  BY <1>1, <1>3
<1>5. rounds' = Append(q, r)
  BY DEF Begin
<1>6. \A k \in DOMAIN rounds : rounds[k].node # Null
  <2>1. ASSUME NEW k \in DOMAIN rounds, k = Len(rounds) PROVE rounds[k].node # Null
    BY <1>1, <2>1 DEF Top
  <2> QED BY <2>1 DEF WaitOf
<1>7. r.again = FALSE
  BY DEF NewRound
<1> HIDE DEF q, r
<1>8. Len(rounds') = Len(rounds) + 1 /\ DOMAIN rounds' = 1 .. Len(rounds) + 1 /\ rounds'[Len(rounds) + 1] = r
  BY <1>1, <1>4, <1>5
<1>9. \A k \in DOMAIN rounds : rounds'[k] = q[k]
  BY <1>1, <1>4, <1>5
<1>10. \A k \in DOMAIN rounds' : k = Len(rounds) + 1 \/ k \in DOMAIN rounds
  BY <1>1, <1>8
<1>11. rounds' # <<>> /\ Top' = r
  BY <1>1, <1>8 DEF Top
<1>12. WaitOf(rounds')
  BY <1>1, <1>3, <1>6, <1>7, <1>8, <1>9, <1>10 DEF WaitOf
<1> QED BY <1>11, <1>12 DEF r

\* An iterator that goes past a node is still to come to the others.
LEMMA AheadPasses ==
  ASSUME RestTyped, NEW r \in RoundRecord, Inside(r), r.node # Null \/ ~AtEnd(r),
         NEW n \in Ahead(r), r.node = Null => n # NodeAt(r)
  PROVE  n \in Ahead(Advanced(r))
<1>1. r.index + 1 \in Nat /\ kSize \in Nat /\ kSize > 0 /\ r.index \in Nat
  BY SizeAssumption DEF RoundRecord
<1>2. CASE r.collector = "scavenge"
  <2>1. Advanced(r) = [collector |-> "scavenge", block |-> r.block, index |-> r.index + 1,
                       node |-> Null, again |-> r.again]
    BY <1>2 DEF Advanced, RoundRecord
  <2>2. PICK j \in DOMAIN newSpace : From(r) <= j /\ n = newSpace[j]
    BY <1>2 DEF Ahead
  <2>3. j \in Nat
    BY DEF RestTyped
  <2>4. r.index + 1 <= j
    BY <1>1, <1>2, <2>2, <2>3 DEF From, NodeAt
  <2> QED BY <2>1, <2>2, <2>4 DEF Ahead, From
<1>3. CASE r.collector # "scavenge"
  <2>1. r.block \in Block /\ r.block # Null /\ r.collector = "full" /\ r.index < kSize
    BY <1>3 DEF RoundRecord, AtEnd, Inside
  <2>2. n \in Node /\ ((n[1] = r.block /\ From(r) <= n[2]) \/ n[1] \in Walk(used.next[r.block], used.next))
    BY <1>3 DEF Ahead
  <2>3. n[2] \in Nat /\ n[2] <= kSize - 1 /\ n = <<n[1], n[2]>>
    BY <1>1, <2>2 DEF Node
  <2>4. n[1] = r.block => r.index + 1 <= n[2] \/ n[1] \in Walk(used.next[r.block], used.next)
    BY <1>1, <1>3, <2>2, <2>3 DEF From, NodeAt
  <2>5. CASE r.index + 1 < kSize
    <3>1. Advanced(r) = [collector |-> "full", block |-> r.block, index |-> r.index + 1,
                         node |-> Null, again |-> r.again]
      BY <2>1, <2>5 DEF Advanced, RoundRecord
    <3>2. From(Advanced(r)) = r.index + 1 /\ Advanced(r).block = r.block /\ Advanced(r).collector = "full"
      BY <3>1 DEF From
    <3> QED BY <2>1, <2>2, <2>4, <3>2 DEF Ahead
  <2>6. CASE ~(r.index + 1 < kSize)
    <3> DEFINE next == used.next[r.block]
    <3>1. Advanced(r) = [collector |-> "full", block |-> next, index |-> 0,
                         node |-> Null, again |-> r.again]
      BY <2>1, <2>6 DEF Advanced, RoundRecord
    <3>2. From(Advanced(r)) = 0 /\ Advanced(r).block = next /\ Advanced(r).collector = "full"
      BY <3>1 DEF From
    <3>3. n[1] \in Walk(next, used.next)
      BY <1>1, <2>1, <2>2, <2>3, <2>4, <2>6
    <3>4. next \in Block \cup {Null} /\ DOMAIN used.next = Block
      BY <2>1 DEF RestTyped
    <3>5. next # Null
      BY <3>3, WalkNone
    <3>6. n[1] = next \/ n[1] \in Walk(used.next[next], used.next)
      BY <3>3, <3>4, <3>5, WalkStep
    <3> QED BY <2>2, <2>3, <3>2, <3>5, <3>6 DEF Ahead
  <2> QED BY <2>5, <2>6
<1> QED BY <1>2, <1>3

\* An iterator that stops at a node is still to come to the others.
LEMMA AheadStops ==
  ASSUME RestTyped, NEW r \in RoundRecord, r.node = Null, ~AtEnd(r), NEW at, at = NodeAt(r), at # Null,
         NEW n \in Ahead(r), n # at
  PROVE  n \in Ahead([r EXCEPT !.node = at])
<1> DEFINE q == [r EXCEPT !.node = at]
<1>1. /\ r.index \in Nat /\ q.collector = r.collector /\ q.block = r.block
      /\ From(r) = r.index /\ From(q) = r.index + 1
  BY DEF RoundRecord, From
<1> HIDE DEF q
<1>2. CASE r.collector = "scavenge"
  <2>1. PICK j \in DOMAIN newSpace : r.index <= j /\ n = newSpace[j]
    BY <1>1, <1>2 DEF Ahead
  <2>2. j \in Nat
    BY DEF RestTyped
  <2>3. r.index + 1 <= j
    BY <1>1, <1>2, <2>1, <2>2 DEF NodeAt
  <2> QED BY <1>1, <1>2, <2>1, <2>3 DEF Ahead, q
<1>3. CASE r.collector # "scavenge"
  <2>1. n \in Node /\ ((n[1] = r.block /\ r.index <= n[2]) \/ n[1] \in Walk(used.next[r.block], used.next))
        /\ r.block # Null
    BY <1>1, <1>3 DEF Ahead
  <2>2. n[2] \in Nat /\ n = <<n[1], n[2]>>
    BY <2>1, SizeAssumption DEF Node
  <2>3. n[1] = r.block => r.index + 1 <= n[2] \/ n[1] \in Walk(used.next[r.block], used.next)
    BY <1>1, <1>3, <2>1, <2>2 DEF NodeAt
  <2> QED BY <1>1, <1>3, <2>1, <2>3 DEF Ahead, q
<1> QED BY <1>2, <1>3

----------------------------------------------------------------------------
(* The steps, and what is pending.                                          *)

\* What a step that leaves the rounds alone has to keep.
LEMMA PendingKept ==
  ASSUME PInv, UNCHANGED rounds, due' \subseteq due, Pending' \subseteq Pending,
         \A n \in due' : n \in Pending' /\ MayDieYoung(n)' /\ nodes'[n].listed,
         rounds # <<>> => \A n \in Ahead(Top) : n \in Pending' => n \in Ahead(Top)'
  PROVE  PInv'
<1>1. DueOK'
  BY DEF Pending, DueOK
<1>2. Top' = Top
  BY DEF Top
<1>3. WaitOK'
  BY <1>2 DEF PInv, WaitOK
<1>4. AheadOK'
  <2> SUFFICES ASSUME rounds # <<>>, ~Top.again
               PROVE  (IF Top.collector = "full" THEN Pending' ELSE due') \subseteq Ahead(Top)'
    BY <1>2 DEF AheadOK
  <2>1. (IF Top.collector = "full" THEN Pending ELSE due) \subseteq Ahead(Top)
    BY DEF PInv, AheadOK
  <2> QED BY <2>1
<1> QED BY <1>1, <1>3, <1>4 DEF PInv

\* An iterator is where it was if the lists are as they were.
LEMMA AheadSame ==
  ASSUME UNCHANGED <<used, newSpace, rounds>>
  PROVE  Ahead(Top)' = Ahead(Top)
BY DEF Ahead, From, Top

\* A block with a handle is in use.
RetainersUsed == \A n \in Node : IsRetainer(n) => n[1] \in UsedBlocks

LEMMA UsedByRetainers == IInv => RetainersUsed
BY RetainersIterated DEF IInv, Iterated, RetainersUsed

\* The program allocates, drops and reaches objects.
LEMMA HeapPending ==
  ASSUME PInv, \/ \E o \in Object : Allocate(o) \/ Drop(o)
               \/ \E n \in Node : Get(n)
  PROVE  PInv'
<1>1. UNCHANGED <<nodes, free, used, newSpace, rounds, due>>
  BY DEF Allocate, Drop, Get
<1> QED BY <1>1 DEF PInv, DueOK, Pending, MayDieYoung, WaitOK, AheadOK, Top, Ahead, From

\* The program changes a handle.
LEMMA ChangesPending ==
  ASSUME IInv, PInv, NEW n \in Node,
         MakeWeak(n) \/ ClearWeakness(n) \/ MarkIndependent(n) \/ MarkPartiallyDependent(n)
  PROVE  PInv'
<1>1. nodes \in [Node -> NodeRecord] /\ due \subseteq Node
  BY DEF IInv, TypeOK
<1>2. UNCHANGED <<free, used, newSpace, heap, rounds>> /\ StillDue
  BY DEF MakeWeak, ClearWeakness, MarkIndependent, MarkPartiallyDependent, Changes
<1>3. PICK node : /\ nodes' = [nodes EXCEPT ![n] = node]
                  /\ \/ node.state # "pending"
                     \/ /\ node.state = nodes[n].state /\ node.listed = nodes[n].listed
                        /\ nodes[n].independent => node.independent
                        /\ nodes[n].partially => node.partially
  <2>1. nodes[n] \in NodeRecord
    BY <1>1
  <2>2. CASE MakeWeak(n)
    <3> DEFINE new == [nodes[n] EXCEPT !.state = "weak", !.word = Null]
    <3>1. nodes' = [nodes EXCEPT ![n] = new]
      BY <2>2 DEF MakeWeak, Changes
    <3>2. new.state = "weak"
      BY <2>1 DEF NodeRecord
    <3> HIDE DEF new
    <3> QED BY <3>1, <3>2
  <2>3. CASE ClearWeakness(n)
    <3> DEFINE new == [nodes[n] EXCEPT !.state = "normal", !.word = Null]
    <3>1. nodes' = [nodes EXCEPT ![n] = new]
      BY <2>3 DEF ClearWeakness, Changes
    <3>2. new.state = "normal"
      BY <2>1 DEF NodeRecord
    <3> HIDE DEF new
    <3> QED BY <3>1, <3>2
  <2>4. CASE MarkIndependent(n)
    <3> DEFINE new == [nodes[n] EXCEPT !.independent = TRUE]
    <3>1. nodes' = [nodes EXCEPT ![n] = new]
      BY <2>4 DEF MarkIndependent, Changes
    <3>2. new.state = nodes[n].state /\ new.listed = nodes[n].listed /\ new.independent
          /\ new.partially = nodes[n].partially
      BY <2>1 DEF NodeRecord
    <3> HIDE DEF new
    <3> QED BY <3>1, <3>2
  <2>5. CASE MarkPartiallyDependent(n)
    <3> DEFINE new == [nodes[n] EXCEPT !.partially = TRUE]
    <3>1. nodes' = [nodes EXCEPT ![n] = new]
      BY <2>5 DEF MarkPartiallyDependent, Changes
    <3>2. new.state = nodes[n].state /\ new.listed = nodes[n].listed /\ new.partially
          /\ new.independent = nodes[n].independent
      BY <2>1 DEF NodeRecord
    <3> HIDE DEF new
    <3> QED BY <3>1, <3>2
  <2> QED BY <2>2, <2>3, <2>4, <2>5
<1>4. \A m \in Node : nodes'[m] = IF m = n THEN node ELSE nodes[m]
  BY <1>1, <1>3
<1>5. Pending' \subseteq Pending
  BY <1>3, <1>4 DEF Pending
<1>6. due' \subseteq due /\ \A m \in due' : m \in Node /\ nodes'[m].state = "pending"
  BY <1>1, <1>2 DEF StillDue
<1>7. \A m \in due' : m \in Pending' /\ MayDieYoung(m)' /\ nodes'[m].listed
  BY <1>3, <1>4, <1>6 DEF PInv, DueOK, MayDieYoung, Pending
<1> QED BY <1>2, <1>5, <1>6, <1>7, AheadSame, PendingKept

\* A handle is made.
LEMMA CreatePending ==
  ASSUME IInv, IInv', PInv, NEW o \in Object, Create(o)
  PROVE  PInv'
<1>1. /\ nodes \in [Node -> NodeRecord] /\ due \subseteq Node /\ RestTyped /\ RoundsFine(rounds)
      /\ newSpace \in Seq(Node) /\ TypeOK /\ StorageOK
  BY TypeParts DEF IInv, RestTyped
<1>2. PICK s \in WithFreeNode :
        LET n == s.free
            adds == InNewSpace(o) /\ ~s.nodes[n].listed
        IN  /\ free' = s.nodes[n].word
            /\ nodes' = [s.nodes EXCEPT ![n] =
                 [state |-> "normal", object |-> o, word |-> Null, independent |-> FALSE,
                  partially |-> FALSE, listed |-> @.listed \/ adds]]
            /\ newSpace' = IF adds THEN Append(newSpace, n) ELSE newSpace
            /\ used' = IncreaseUses(n[1])
  BY DEF Create
<1> DEFINE n == s.free
<1>3. /\ s.nodes \in [Node -> NodeRecord] /\ n \in Node /\ s.nodes[n].state = "free"
      /\ \A m \in Node : /\ s.nodes[m].state \in {"absent", "free"} <=> nodes[m].state \in {"absent", "free"}
                         /\ IsRetainer(m) => s.nodes[m] = nodes[m]
  BY <1>1, FreeNodeGiven
<1>4. UNCHANGED <<rounds, due>>
  BY DEF Create
<1>5. nodes'[n].state = "normal" /\ \A m \in Node : m # n => nodes'[m] = s.nodes[m]
  BY <1>2, <1>3
<1>6. \A m \in Node : IsRetainer(m) => m # n /\ nodes'[m] = nodes[m]
  BY <1>3, <1>5 DEF IsRetainer
<1>7. Pending' \subseteq Pending
  BY <1>3, <1>5, <1>6 DEF Pending, IsRetainer
<1>8. \A m \in due : m \in Pending' /\ MayDieYoung(m)' /\ nodes'[m].listed
  <2>1. \A m \in due : m \in Node /\ nodes'[m] = nodes[m]
    BY <1>1, <1>6 DEF PInv, DueOK, IsRetainer
  <2> QED BY <2>1 DEF PInv, DueOK, MayDieYoung, Pending
<1>9. ASSUME rounds # <<>>, NEW m \in Ahead(Top), m \in Pending'
      PROVE  m \in Ahead(Top)'
  <2>1. Top' = Top /\ Top \in RoundRecord
    BY <1>1, <1>4, <1>9, TopOfRounds DEF Top
  <2>2. CASE Top.collector = "scavenge"
    <3>1. PICK j \in DOMAIN newSpace : From(Top) <= j /\ m = newSpace[j]
      BY <2>2 DEF Ahead
    <3>2. newSpace' = newSpace \/ newSpace' = Append(newSpace, n)
      BY <1>2
    <3>3. j \in DOMAIN newSpace' /\ newSpace'[j] = m
      BY <1>1, <1>3, <3>1, <3>2
    <3>4. From(Top)' = From(Top)
      BY <2>1 DEF From
    <3> QED BY <2>1, <2>2, <3>1, <3>3, <3>4 DEF Ahead
  <2>3. CASE Top.collector # "scavenge"
    <3>1. /\ Top.block # Null /\ m \in Node
          /\ (m[1] = Top.block /\ From(Top) <= m[2]) \/ m[1] \in Walk(used.next[Top.block], used.next)
      BY <2>3 DEF Ahead
    <3>2. m[1] \in UsedBlocks
      <4>1. m \in Pending
        BY <1>7, <1>9
      <4> QED BY <3>1, <4>1, UsedByRetainers DEF RetainersUsed, Pending, IsRetainer
    <3>3. m[1] \in Walk(used.next[Top.block], used.next) => m[1] \in Walk(used'.next[Top.block], used'.next)
      <4>1. n[1] \in Block /\ used' = IncreaseUses(n[1]) /\ Top.block \in Block
        BY <1>2, <1>3, <2>1, <3>1 DEF Node, RoundRecord
      <4> QED BY <1>1, <3>2, <4>1, IncreaseWalks DEF StorageOK
    <3>4. From(Top)' = From(Top)
      BY <2>1 DEF From
    <3> QED BY <2>1, <2>3, <3>1, <3>3, <3>4 DEF Ahead
  <2> QED BY <2>2, <2>3
<1> QED BY <1>4, <1>7, <1>8, <1>9, PendingKept

\* A handle is disposed of.
LEMMA DestroyPending ==
  ASSUME IInv, IInv', PInv, NEW n \in Node, Destroy(n)
  PROVE  PInv'
<1>1. /\ nodes \in [Node -> NodeRecord] /\ due \subseteq Node /\ RestTyped /\ RoundsFine(rounds)
      /\ TypeOK /\ StorageOK /\ TypeOK' /\ StorageOK'
  <2>1. TypeOK /\ RoundsOK /\ StorageOK /\ TypeOK' /\ StorageOK'
    BY DEF IInv
  <2>2. RestTyped /\ RoundsFine(rounds)
    BY <2>1, TypeParts
  <2> QED BY <2>1, <2>2 DEF RestTyped
<1>2. /\ nodes' = [nodes EXCEPT ![n] = [state |-> "free", object |-> Null, word |-> free, listed |-> @.listed,
                                        independent |-> FALSE, partially |-> FALSE]]
      /\ used' = DecreaseUses(n[1])
      /\ StillDue /\ UNCHANGED <<newSpace, rounds>> /\ IsRetainer(n)
  BY DEF Destroy
<1>3. nodes'[n].state = "free" /\ \A m \in Node : m # n => nodes'[m] = nodes[m]
  BY <1>1, <1>2
<1>4. Pending' \subseteq Pending
  BY <1>3 DEF Pending
<1>5. due' \subseteq due /\ \A m \in due' : m \in Node /\ nodes'[m].state = "pending" /\ nodes'[m] = nodes[m]
  BY <1>1, <1>2, <1>3 DEF StillDue
<1>6. \A m \in due' : m \in Pending' /\ MayDieYoung(m)' /\ nodes'[m].listed
  BY <1>5 DEF PInv, DueOK, MayDieYoung, Pending
<1>7. ASSUME rounds # <<>>, NEW m \in Ahead(Top), m \in Pending'
      PROVE  m \in Ahead(Top)'
  <2>1. Top' = Top /\ Top \in RoundRecord
    BY <1>1, <1>2, <1>7, TopOfRounds DEF Top
  <2>2. From(Top)' = From(Top)
    BY <2>1 DEF From
  <2>3. CASE Top.collector = "scavenge"
    BY <1>2, <2>1, <2>2, <2>3 DEF Ahead
  <2>4. CASE Top.collector # "scavenge"
    <3>1. /\ Top.block # Null /\ m \in Node
          /\ (m[1] = Top.block /\ From(Top) <= m[2]) \/ m[1] \in Walk(used.next[Top.block], used.next)
      BY <2>4 DEF Ahead
    <3>2. m[1] \in UsedBlocks'
      <4>1. IsRetainer(m)'
        BY <1>7 DEF Pending, IsRetainer
      <4>2. RetainersUsed'
        BY IInv', UsedByRetainers, PTL
      <4> QED BY <3>1, <4>1, <4>2 DEF RetainersUsed
    <3>3. m[1] \in Walk(used.next[Top.block], used.next) => m[1] \in Walk(used'.next[Top.block], used'.next)
      <4>1. n[1] \in UsedBlocks /\ used' = DecreaseUses(n[1]) /\ Top.block \in Block
        BY <1>1, <1>2, <2>1, <3>1, RetainersIterated DEF Iterated, RoundRecord
      <4> QED BY <1>1, <3>2, <4>1, DecreaseWalks DEF StorageOK
    <3> QED BY <2>1, <2>2, <2>4, <3>1, <3>3 DEF Ahead
  <2> QED BY <2>3, <2>4
<1> QED BY <1>2, <1>4, <1>5, <1>6, <1>7, PendingKept

\* A collection makes those it finds pending, and nothing else of a node that
\* the processing looks at.
LEMMA CollectedPending ==
  ASSUME nodes \in [Node -> NodeRecord], NEW found, NEW lost, nodes' = Collected(found, lost)
  PROVE  \A n \in Node : /\ nodes'[n].state = IF n \in found THEN "pending" ELSE nodes[n].state
                         /\ nodes'[n].listed = nodes[n].listed
                         /\ nodes'[n].independent = nodes[n].independent
                         /\ nodes'[n].partially = nodes[n].partially
BY DEF Collected, NodeRecord

\* A scavenge begins its round at the first of the listed nodes.
LEMMA ScavengePending ==
  ASSUME IInv, IInv', PInv, Scavenge
  PROVE  PInv'
<1> DEFINE live == heap.held \cup Referents(StrongAndDependent)
           found == {n \in WeakIndependent :
                       nodes[n].state = "weak" /\ InNewSpace(nodes[n].object) /\ nodes[n].object \notin live}
           lost == {n \in Node \ (StrongAndDependent \cup WeakIndependent) :
                      IsRetainer(n) /\ InNewSpace(nodes[n].object)}
<1>1. /\ nodes \in [Node -> NodeRecord] /\ due \subseteq Node /\ RoundsFine(rounds) /\ ListOK
      /\ newSpace \in Seq(Node)
  BY TypeParts DEF IInv, TypeOK
<1>2. /\ nodes' = Collected(found, lost) /\ due' = due \cup found /\ Begin("scavenge")
      /\ rounds # <<>> => Top.node # Null
  BY DEF Scavenge, MayCall
<1>3. \A n \in found : n \in Listed /\ n \in Node /\ MayDieYoung(n)
  BY <1>1 DEF WeakIndependent, Listed
<1> HIDE DEF found, lost
<1>4. WaitOf(rounds') /\ rounds' # <<>> /\ Top' = NewRound("scavenge")
  BY <1>1, <1>2, WaitBegin DEF PInv, WaitOK
<1>5. \A n \in Node : /\ nodes'[n].state = IF n \in found THEN "pending" ELSE nodes[n].state
                      /\ nodes'[n].listed = nodes[n].listed
                      /\ nodes'[n].independent = nodes[n].independent
                      /\ nodes'[n].partially = nodes[n].partially
  BY <1>1, <1>2, CollectedPending
<1>6. DueOK'
  <2> SUFFICES ASSUME NEW n \in due' 
               PROVE  nodes'[n].state = "pending" /\ MayDieYoung(n)' /\ nodes'[n].listed
    BY DEF DueOK
  <2>1. CASE n \in found
    BY <1>1, <1>3, <1>5, <2>1 DEF MayDieYoung, ListOK
  <2>2. CASE n \in due
    BY <1>1, <1>5, <2>2 DEF MayDieYoung, PInv, DueOK
  <2> QED BY <1>2, <2>1, <2>2
<1>7. Top'.again = FALSE /\ Top'.node = Null /\ Top'.index = 1 /\ Top'.collector = "scavenge"
  BY <1>4 DEF NewRound
<1>8. WaitOK'
  BY <1>4, <1>7 DEF WaitOK
<1>9. AheadOK'
  <2>1. \A n \in due' : n \in Listed
    <3>1. \A n \in due : n \in Listed
      BY <1>1 DEF PInv, DueOK, ListOK
    <3> QED BY <1>2, <1>3, <3>1
  <2>2. newSpace' = newSpace
    BY <1>2 DEF Begin
  <2>3. Ahead(Top)' = {newSpace[j] : j \in {i \in DOMAIN newSpace : 1 <= i}}
    BY <1>7, <2>2 DEF Ahead, From
  <2>4. \A i \in DOMAIN newSpace : 1 <= i
    BY <1>1
  <2>5. Listed = {newSpace[j] : j \in {i \in DOMAIN newSpace : 1 <= i}}
    BY <2>4 DEF Listed
  <2> QED BY <1>7, <2>1, <2>3, <2>5 DEF AheadOK
<1> QED BY <1>6, <1>8, <1>9 DEF PInv

\* A full collection begins its round at the first block in use.
LEMMA MarkCompactPending ==
  ASSUME IInv, IInv', PInv, MarkCompact
  PROVE  PInv'
<1> DEFINE live == heap.held \cup Referents({n \in Iterated : IsStrongRetainer(n)})
           found == {n \in Iterated : nodes[n].state = "weak" /\ nodes[n].object \notin live}
           lost == {n \in Node \ Iterated : IsRetainer(n)}
<1>1. /\ nodes \in [Node -> NodeRecord] /\ due \subseteq Node /\ RoundsFine(rounds)
      /\ TypeOK /\ StorageOK /\ used.first \in Block \cup {Null} /\ DOMAIN used.next = Block
  <2>1. TypeOK /\ RoundsOK /\ StorageOK
    BY DEF IInv
  <2> QED BY <2>1, TypeParts DEF TypeOK
<1>2. /\ nodes' = Collected(found, lost) /\ due' = due /\ Begin("full") /\ used' = used
      /\ rounds # <<>> => Top.node # Null
  BY DEF MarkCompact, MayCall, Begin
<1> HIDE DEF found, lost
<1>3. WaitOf(rounds') /\ rounds' # <<>> /\ Top' = NewRound("full")
  BY <1>1, <1>2, WaitBegin DEF PInv, WaitOK
<1>4. \A n \in Node : /\ nodes'[n].state = IF n \in found THEN "pending" ELSE nodes[n].state
                      /\ nodes'[n].listed = nodes[n].listed
                      /\ nodes'[n].independent = nodes[n].independent
                      /\ nodes'[n].partially = nodes[n].partially
  BY <1>1, <1>2, CollectedPending
<1>5. DueOK'
  <2> SUFFICES ASSUME NEW n \in due
               PROVE  nodes'[n].state = "pending" /\ MayDieYoung(n)' /\ nodes'[n].listed
    BY <1>2 DEF DueOK
  <2> QED BY <1>1, <1>4 DEF MayDieYoung, PInv, DueOK
<1>6. Top'.again = FALSE /\ Top'.node = Null /\ Top'.index = 0 /\ Top'.block = used.first /\ Top'.collector = "full"
  BY <1>3 DEF NewRound
<1>7. WaitOK'
  BY <1>3, <1>6 DEF WaitOK
<1>8. AheadOK'
  <2> SUFFICES ASSUME NEW n \in Pending' PROVE n \in Ahead(Top)'
    BY <1>6 DEF AheadOK
  <2>1. n \in Node /\ IsRetainer(n)'
    BY DEF Pending, IsRetainer
  <2>2. n[1] \in UsedBlocks
    <3>1. RetainersUsed'
      BY IInv', UsedByRetainers, PTL
    <3> QED BY <1>2, <2>1, <3>1 DEF RetainersUsed, UsedBlocks
  <2>3. n[1] \in Walk(used.first, used.next)
    BY <1>1, <2>2, RetainersIterated DEF InUse
  <2>4. used.first # Null
    BY <2>3, WalkNone
  <2>5. n[1] = used.first \/ n[1] \in Walk(used.next[used.first], used.next)
    BY <1>1, <2>3, <2>4, WalkStep
  <2>6. 0 <= n[2]
    BY <2>1, SizeAssumption DEF Node
  <2> QED BY <1>2, <1>6, <2>1, <2>4, <2>5, <2>6 DEF Ahead, From
<1> QED BY <1>5, <1>7, <1>8 DEF PInv

\* A turn of the processing.
LEMMA TurnPending ==
  ASSUME IInv, PInv, PassNode \/ CallBack \/ CallbackReturns
  PROVE  PInv'
<1>1. /\ RestTyped /\ RoundsFine(rounds) /\ nodes \in [Node -> NodeRecord] /\ due \subseteq Node
      /\ WaitOf(rounds)
  BY TypeParts DEF IInv, RestTyped, PInv, WaitOK
<1>2. rounds # <<>> /\ UNCHANGED <<free, used, newSpace, heap>>
  BY DEF PassNode, CallBack, CallbackReturns, Looking
<1>3. Top \in RoundRecord /\ Inside(Top)
  BY <1>1, <1>2, TopOfRounds
<1>4. Top.again => Top.node # Null
  <2>1. Len(rounds) \in DOMAIN rounds
    BY <1>1, <1>2 DEF RoundsFine
  <2> QED BY <1>1, <2>1 DEF WaitOf, Top
<1>5. \A r : Ahead(r)' = Ahead(r)
  BY <1>2 DEF Ahead, From
<1> DEFINE at == NodeAt(Top)
<1>6. CASE PassNode
  <2>1. /\ Top.node = Null /\ ~AtEnd(Top) /\ Top.again = FALSE /\ Goes(Advanced(Top)) /\ due' = due
        /\ Processed => nodes[at].state # "pending"
        /\ nodes' = IF Processed THEN [nodes EXCEPT ![at].partially = FALSE] ELSE nodes
    BY <1>3, <1>4, <1>6 DEF PassNode, Looking, RoundRecord
  <2>2. at \in Node
    BY <1>1, <1>3, <2>1, AdvancedFine
  <2>3. Advanced(Top).again = FALSE /\ Advanced(Top).collector = Top.collector
    BY <1>3, <2>1 DEF Advanced, RoundRecord
  <2>4. WaitOf(rounds') /\ rounds' # <<>> /\ Top' = Advanced(Top)
    BY <1>1, <1>2, <2>1, <2>3, WaitGoes
  <2> HIDE DEF at
  <2>5. \A n \in Node : /\ nodes'[n].state = nodes[n].state /\ nodes'[n].listed = nodes[n].listed
                        /\ nodes'[n].independent = nodes[n].independent
                        /\ n # at \/ ~Processed => nodes'[n] = nodes[n]
    <3> DEFINE new == [nodes[at] EXCEPT !.partially = FALSE]
    <3>1. nodes[at] \in NodeRecord
      BY <1>1, <2>2
    <3>2. new.state = nodes[at].state /\ new.listed = nodes[at].listed /\ new.independent = nodes[at].independent
      BY <3>1 DEF NodeRecord
    <3>3. nodes' = nodes \/ (Processed /\ nodes' = [nodes EXCEPT ![at] = new])
      BY <2>1
    <3> HIDE DEF new
    <3> QED BY <1>1, <2>2, <3>2, <3>3
  <2>6. \A n \in due : nodes'[n] = nodes[n]
    BY <1>1, <2>1, <2>5 DEF PInv, DueOK
  <2>7. DueOK'
    BY <2>1, <2>6 DEF PInv, DueOK, MayDieYoung
  <2>8. WaitOK'
    BY <2>3, <2>4 DEF WaitOK
  <2>9. AheadOK'
    <3>1. Pending' = Pending
      BY <2>5 DEF Pending
    <3>2. Ahead(Top)' = Ahead(Advanced(Top))
      BY <1>2, <2>4 DEF Ahead, From
    <3> DEFINE Those == IF Top.collector = "full" THEN Pending ELSE due
    <3>3. Those \subseteq Ahead(Top)
      BY <1>2, <2>1 DEF PInv, AheadOK
    <3>4. \A n \in Those : n # at
      <4>1. CASE Top.collector = "full"
        BY <2>1, <4>1 DEF Processed, Pending
      <4>2. CASE Top.collector # "full"
        BY <2>1, <4>2 DEF Processed, at, PInv, DueOK
      <4> QED BY <4>1, <4>2
    <3>5. \A n \in Those : n \in Ahead(Advanced(Top))
      BY <1>1, <1>3, <2>1, <3>3, <3>4, AheadPasses DEF at
    <3> QED BY <2>1, <2>3, <2>4, <3>1, <3>2, <3>5 DEF AheadOK
  <2> QED BY <2>7, <2>8, <2>9 DEF PInv
<1>7. CASE CallBack
  <2>1. /\ Top.node = Null /\ ~AtEnd(Top) /\ Top.again = FALSE /\ Goes([Top EXCEPT !.node = at]) /\ StillDue
        /\ nodes[at].state = "pending"
        /\ nodes' = [nodes EXCEPT ![at].partially = FALSE, ![at].state = "nearDeath", ![at].word = Null]
    BY <1>3, <1>4, <1>7 DEF CallBack, Looking, RoundRecord
  <2>2. at \in Node /\ at # Null
    BY <1>1, <1>3, <2>1, AdvancedFine, NullIsNone
  <2> DEFINE q == [Top EXCEPT !.node = at]
  <2>3. q.again = FALSE /\ q.collector = Top.collector
    BY <1>3, <2>1 DEF RoundRecord
  <2>4. \A n \in Ahead(Top) : n # at => n \in Ahead(q)
    BY <1>1, <1>3, <2>1, <2>2, AheadStops
  <2>5. WaitOf(rounds') /\ rounds' # <<>> /\ Top' = q
    BY <1>1, <1>2, <2>1, <2>3, WaitGoes
  <2> HIDE DEF at, q
  <2>6. /\ \A n \in Node : n # at => nodes'[n] = nodes[n]
        /\ nodes'[at].state = "nearDeath"
    <3> DEFINE new == [nodes[at] EXCEPT !.partially = FALSE, !.state = "nearDeath", !.word = Null]
    <3>1. nodes[at] \in NodeRecord
      BY <1>1, <2>2
    <3>2. new.state = "nearDeath"
      BY <3>1 DEF NodeRecord
    <3>3. nodes' = [nodes EXCEPT ![at] = new]
      BY <1>1, <2>1, <2>2
    <3> HIDE DEF new
    <3> QED BY <1>1, <2>2, <3>2, <3>3
  <2>7. due' \subseteq due /\ \A n \in due' : n # at
    BY <2>1, <2>6 DEF StillDue
  <2>8. DueOK'
    BY <1>1, <2>6, <2>7 DEF PInv, DueOK, MayDieYoung
  <2>9. WaitOK'
    BY <2>3, <2>5 DEF WaitOK
  <2>10. AheadOK'
    <3>1. Pending' \subseteq Pending /\ at \notin Pending'
      BY <2>6 DEF Pending
    <3>2. Ahead(Top)' = Ahead(q)
      BY <1>2, <2>5 DEF Ahead, From
    <3>3. (IF Top.collector = "full" THEN Pending ELSE due) \subseteq Ahead(Top)
      BY <1>2, <2>1 DEF PInv, AheadOK
    <3>4. (IF Top.collector = "full" THEN Pending' ELSE due') \subseteq Ahead(q)
      BY <2>4, <2>7, <3>1, <3>3
    <3> QED BY <2>3, <2>5, <3>2, <3>4 DEF AheadOK
  <2> QED BY <2>8, <2>9, <2>10 DEF PInv
<1>8. CASE CallbackReturns
  <2>1. /\ Top.node # Null /\ UNCHANGED <<nodes, due>>
        /\ IF Top.again THEN rounds' = Popped ELSE Goes(Advanced(Top))
    BY <1>8 DEF CallbackReturns
  <2>2. DueOK'
    BY <2>1 DEF PInv, DueOK, MayDieYoung
  <2>3. CASE Top.again
    <3>1. due = {}
      BY <2>3 DEF PInv, WaitOK
    <3>2. WaitOf(rounds') /\ (rounds' = <<>> \/ Top'.again)
      BY <1>1, <1>2, <2>1, <2>3, WaitPopped DEF Top
    <3> QED BY <2>1, <2>2, <3>1, <3>2 DEF PInv, WaitOK, AheadOK
  <2>4. CASE ~Top.again
    <3>1. Advanced(Top).again = Top.again /\ Advanced(Top).collector = Top.collector
      BY <1>3 DEF Advanced, RoundRecord
    <3>2. WaitOf(rounds') /\ rounds' # <<>> /\ Top' = Advanced(Top)
      BY <1>1, <1>2, <2>1, <2>4, <3>1, WaitGoes
    <3>3. WaitOK'
      BY <2>4, <3>1, <3>2 DEF WaitOK
    <3>4. AheadOK'
      <4>1. Pending' = Pending
        BY <2>1 DEF Pending
      <4>2. Ahead(Top)' = Ahead(Advanced(Top))
        BY <1>2, <3>2 DEF Ahead, From
      <4>3. (IF Top.collector = "full" THEN Pending ELSE due) \subseteq Ahead(Top)
        BY <1>2, <2>4 DEF PInv, AheadOK
      <4>4. \A n \in Ahead(Top) : n \in Ahead(Advanced(Top))
        BY <1>1, <1>3, <2>1, AheadPasses
      <4> QED BY <2>1, <3>1, <3>2, <4>1, <4>2, <4>3, <4>4 DEF AheadOK
    <3> QED BY <2>2, <3>3, <3>4 DEF PInv
  <2> QED BY <2>3, <2>4
<1> QED BY <1>6, <1>7, <1>8

\* An iterator at its end is to come to nothing more.
LEMMA EndsClean ==
  ASSUME IInv, PInv, rounds # <<>>, Top.node = Null, AtEnd(Top)
  PROVE  due = {} /\ (Top.collector = "full" => Pending = {})
<1>1. /\ RestTyped /\ RoundsFine(rounds) /\ due \subseteq Node
      /\ WaitOf(rounds) /\ newSpace \in Seq(Node)
  BY TypeParts DEF IInv, RestTyped, PInv, WaitOK
<1>2. Top \in RoundRecord
  BY <1>1, TopOfRounds
<1>3. Top.again = FALSE
  <2>1. Len(rounds) \in DOMAIN rounds
    BY <1>1 DEF RoundsFine
  <2> QED BY <1>1, <1>2, <2>1 DEF WaitOf, Top, RoundRecord
<1>4. Ahead(Top) = {}
  <2>1. From(Top) = Top.index /\ Top.index \in Nat
    BY <1>2 DEF From, RoundRecord
  <2>2. CASE Top.collector = "scavenge"
    <3>1. \A i \in DOMAIN newSpace : i < Top.index
      BY <1>1, <2>1, <2>2 DEF AtEnd
    <3>2. {i \in DOMAIN newSpace : From(Top) <= i} = {}
      BY <1>1, <2>1, <3>1
    <3> QED BY <2>2, <3>2 DEF Ahead
  <2>3. CASE Top.collector # "scavenge"
    BY <2>3 DEF AtEnd, Ahead
  <2> QED BY <2>2, <2>3
<1>5. (IF Top.collector = "full" THEN Pending ELSE due) = {}
  BY <1>3, <1>4 DEF PInv, AheadOK
<1>6. due \subseteq Pending
  BY <1>1 DEF PInv, DueOK, Pending
<1> QED BY <1>5, <1>6

\* The innermost round is over.
LEMMA EndPending ==
  ASSUME IInv, PInv, EndRound
  PROVE  PInv'
<1>1. rounds # <<>> /\ Top.node = Null /\ AtEnd(Top) /\ rounds' = Popped /\ due' = due
  BY DEF EndRound
<1>2. due = {}
  BY <1>1, EndsClean
<1>3. RoundsFine(rounds) /\ WaitOf(rounds)
  BY TypeParts DEF IInv, PInv, WaitOK
<1>4. WaitOf(rounds') /\ (rounds' = <<>> \/ Top'.again)
  BY <1>1, <1>3, WaitPopped DEF Top
<1> QED BY <1>1, <1>2, <1>4 DEF PInv, DueOK, WaitOK, AheadOK

\* Every step keeps PInv.
LEMMA PendingStep == IInv /\ IInv' /\ PInv /\ [Next]_vars => PInv'
<1> SUFFICES ASSUME IInv, IInv', PInv, [Next]_vars PROVE PInv'
  OBVIOUS
<1>1. ASSUME NEW o \in Object, Allocate(o) \/ Drop(o) PROVE PInv'
  BY <1>1, HeapPending
<1>2. ASSUME NEW n \in Node, Get(n) PROVE PInv'
  BY <1>2, HeapPending
<1>3. ASSUME NEW o \in Object, Create(o) PROVE PInv'
  BY <1>3, CreatePending
<1>4. ASSUME NEW n \in Node, Destroy(n) PROVE PInv'
  BY <1>4, DestroyPending
<1>5. ASSUME NEW n \in Node,
             MakeWeak(n) \/ ClearWeakness(n) \/ MarkIndependent(n) \/ MarkPartiallyDependent(n)
      PROVE  PInv'
  BY <1>5, ChangesPending
<1>6. CASE Scavenge
  BY <1>6, ScavengePending
<1>7. CASE MarkCompact
  BY <1>7, MarkCompactPending
<1>8. CASE PassNode \/ CallBack \/ CallbackReturns
  BY <1>8, TurnPending
<1>9. CASE EndRound
  BY <1>9, EndPending
<1>10. CASE UNCHANGED vars
  BY <1>10 DEF vars, PInv, DueOK, Pending, MayDieYoung, WaitOK, AheadOK, Top, Ahead, From
<1> QED
  BY <1>1, <1>2, <1>3, <1>4, <1>5, <1>6, <1>7, <1>8, <1>9, <1>10 DEF Next

\* A round that comes to its end has called back for every node it had to,
\* whatever the callbacks do to the lists it goes along, and however many
\* rounds are begun in them; the last of those rounds processes what the ones
\* it interrupts leave (PostGarbageCollectionProcessing).
THEOREM NothingForgotten == Spec => []NoneForgotten
<1>1. Init => PInv
  BY DEF Init, PInv, DueOK, WaitOK, WaitOf, AheadOK
<1>2. IInv /\ PInv => NoneForgotten
  <2> SUFFICES ASSUME IInv, PInv PROVE NoneForgotten
    OBVIOUS
  <2>1. rounds = <<>> => due = {}
    BY DEF PInv, WaitOK
  <2> QED BY <2>1, EndsClean DEF NoneForgotten, Pending
<1> QED BY <1>1, <1>2, PendingStep, Invariance, PTL DEF Spec
=============================================================================

--------------------------- MODULE GlobalHandles ---------------------------
(***************************************************************************)
(* The persistent handles of an isolate and the weak callbacks.  A node     *)
(* holds one handle; nodes live in blocks, which are linked while they have *)
(* nodes in use, the free nodes are linked through the word that holds the  *)
(* callback's parameter in the others, and the nodes of young objects are   *)
(* listed for the scavenger.  A collection marks nodes as pending; then it  *)
(* calls back, and a callback may use the handles in any way and collect    *)
(* again.                                                                   *)
(***************************************************************************)
EXTENDS Integers, Sequences, FiniteSets

CONSTANTS
  Block,     \* addresses for blocks of nodes
  kSize,     \* nodes in a block
  Object,
  Null,      \* a NULL pointer; as the object of a handle, one that leads nowhere
  MaxHandles, \* bound: handles at once
  MaxRounds, \* bound: collections processed at once, each in a callback of the one before
  InCallback \* bound: the operations that callbacks use

ASSUME NullAssumption == Null \notin Object \cup Block \cup (Block \X Nat)
ASSUME SizeAssumption == kSize \in Nat \ {0}

VARIABLES
  nodes,     \* the nodes of all blocks
  free,      \* first_free_
  used,      \* first_used_block_, and next_used_, prev_used_ and used_nodes_ of each block
  newSpace,  \* new_space_nodes_
  heap,      \* where each object is, and which are reached otherwise than by global handles
  rounds,    \* the active calls of PostGarbageCollectionProcessing, the innermost last
  due        \* the pending nodes that a scavenge has identified

vars == <<nodes, free, used, newSpace, heap, rounds, due>>

Node == Block \X (0 .. kSize - 1)
Listed == {newSpace[i] : i \in DOMAIN newSpace}

IsRetainer(n) == nodes[n].state \notin {"absent", "free"}
IsStrongRetainer(n) == nodes[n].state = "normal"
IsWeakRetainer(n) == nodes[n].state \in {"weak", "pending", "nearDeath"}
InNewSpace(o) == o \in Object /\ heap.place[o] = "young"

\* The handles of young objects.
Young == {n \in Node : IsRetainer(n) /\ InNewSpace(nodes[n].object)}

----------------------------------------------------------------------------
(* The blocks in use.  A block that is taken out keeps its next_used_, which *)
(* an iterator may still be about to follow; its prev_used_ is not read.    *)

IncreaseUses(b) ==
  IF used.uses[b] > 0 THEN [used EXCEPT !.uses[b] = @ + 1]
  ELSE [first |-> b,
        next |-> [used.next EXCEPT ![b] = used.first],
        prev |-> [c \in Block |-> IF c = b THEN Null ELSE IF c = used.first THEN b ELSE used.prev[c]],
        uses |-> [used.uses EXCEPT ![b] = 1]]

DecreaseUses_ClearsLinks(b) ==
  IF used.uses[b] > 1 THEN [used EXCEPT !.uses[b] = @ - 1]
  ELSE [first |-> IF used.first = b THEN used.next[b] ELSE used.first,
        next |-> [c \in Block |-> IF c = b THEN Null
                                  ELSE IF c = used.prev[b] THEN used.next[b] ELSE used.next[c]],
        prev |-> [c \in Block |-> IF c = b THEN Null
                                  ELSE IF c = used.next[b] THEN used.prev[b] ELSE used.prev[c]],
        uses |-> [used.uses EXCEPT ![b] = 0]]

DecreaseUses(b) ==
  IF used.uses[b] > 1 THEN [used EXCEPT !.uses[b] = @ - 1]
  ELSE [first |-> IF used.first = b THEN used.next[b] ELSE used.first,
        next |-> [c \in Block |-> IF c = used.prev[b] THEN used.next[b] ELSE used.next[c]],
        prev |-> [c \in Block |-> IF c = b THEN Null
                                  ELSE IF c = used.next[b] THEN used.prev[b] ELSE used.prev[c]],
        uses |-> [used.uses EXCEPT ![b] = 0]]

\* What a walk along the links meets: the least set with the first element
\* and the successor of each.
Walk(first, next) ==
  LET Closed == {S \in SUBSET DOMAIN next :
                   /\ first = Null \/ first \in S
                   /\ \A y \in S : next[y] = Null \/ next[y] \in S}
  IN  {x \in DOMAIN next : \A S \in Closed : x \in S}

InUse == Walk(used.first, used.next)

\* The nodes a NodeIterator meets.
Iterated == {n \in Node : n[1] \in InUse}

\* What stays of the list s when those in Stays move up.
Compacted(s, Stays) ==
  LET Kept == {i \in DOMAIN s : s[i] \in Stays}
      Place(i) == Cardinality({k \in Kept : k <= i})
  IN  [j \in 1 .. Cardinality(Kept) |-> s[CHOOSE i \in Kept : Place(i) = j]]

----------------------------------------------------------------------------
NewRound(collector) ==
  [collector |-> collector, block |-> used.first,
   index |-> IF collector = "scavenge" THEN 1 ELSE 0, node |-> Null, again |-> FALSE]

Top == rounds[Len(rounds)]
Popped == SubSeq(rounds, 1, Len(rounds) - 1)

\* The program runs: outside of any collection, or in a callback.
MayCall(operation) == rounds # <<>> => Top.node # Null /\ operation \in InCallback

StillDue == due' = {n \in due : nodes'[n].state = "pending"}

Init ==
  /\ nodes = [n \in Node |-> [state |-> "absent", object |-> Null, word |-> Null,
                              independent |-> FALSE, partially |-> FALSE, listed |-> FALSE]]
  /\ free = Null
  /\ used = [first |-> Null, next |-> [b \in Block |-> Null], prev |-> [b \in Block |-> Null],
             uses |-> [b \in Block |-> 0]]
  /\ newSpace = <<>>
  /\ heap = [place |-> [o \in Object |-> "none"], held |-> {}]
  /\ rounds = <<>>
  /\ due = {}

----------------------------------------------------------------------------
(* The program: objects it makes, drops, and reaches through handles.       *)

Allocate(o) ==
  /\ MayCall("Allocate")
  /\ heap.place[o] = "none"
  /\ heap' = [place |-> [heap.place EXCEPT ![o] = "young"], held |-> heap.held \cup {o}]
  /\ UNCHANGED <<nodes, free, used, newSpace, rounds, due>>

Drop(o) ==
  /\ MayCall("Drop")
  /\ o \in heap.held
  /\ heap' = [heap EXCEPT !.held = @ \ {o}]
  /\ UNCHANGED <<nodes, free, used, newSpace, rounds, due>>

Get(n) ==
  /\ MayCall("Get")
  /\ IsRetainer(n)
  /\ heap' = [heap EXCEPT !.held = @ \cup {nodes[n].object}]
  /\ UNCHANGED <<nodes, free, used, newSpace, rounds, due>>

----------------------------------------------------------------------------
(* The handles.                                                             *)

\* The nodes with those of a new block b, linked before the free ones.
PutNodesOnFreeList(b) ==
  [n \in Node |->
     IF n[1] # b THEN nodes[n]
     ELSE [state |-> "free", object |-> Null, independent |-> FALSE, partially |-> FALSE,
           listed |-> FALSE, word |-> IF n[2] < kSize - 1 THEN <<b, n[2] + 1>> ELSE free]]

\* The nodes and the first free one, of a new block if there was none.
WithFreeNode ==
  IF free # Null THEN {[nodes |-> nodes, free |-> free]}
  ELSE {[nodes |-> PutNodesOnFreeList(b), free |-> <<b, 0>>]
          : b \in {c \in Block : nodes[<<c, 0>>].state = "absent"}}

Create(o) ==
  /\ MayCall("Create")
  /\ o \in heap.held
  /\ Cardinality({n \in Node : IsRetainer(n)}) < MaxHandles
  /\ \E s \in WithFreeNode :
       LET n == s.free
           adds == InNewSpace(o) /\ ~s.nodes[n].listed
       IN  /\ free' = s.nodes[n].word
           /\ nodes' = [s.nodes EXCEPT ![n] =
                [state |-> "normal", object |-> o, word |-> Null, independent |-> FALSE,
                 partially |-> FALSE, listed |-> @.listed \/ adds]]
           /\ newSpace' = IF adds THEN Append(newSpace, n) ELSE newSpace
           /\ used' = IncreaseUses(n[1])
  /\ UNCHANGED <<heap, rounds, due>>

\* The flags of a free node are not read but for listed.
Destroy(n) ==
  /\ MayCall("Destroy")
  /\ IsRetainer(n)
  /\ nodes' = [nodes EXCEPT ![n] = [state |-> "free", object |-> Null, word |-> free, listed |-> @.listed,
                                    independent |-> FALSE, partially |-> FALSE]]
  /\ free' = n
  /\ used' = DecreaseUses(n[1])
  /\ StillDue
  /\ UNCHANGED <<newSpace, heap, rounds>>

\* The program changes the node n of a handle that exists.
Changes(operation, n, node) ==
  /\ MayCall(operation)
  /\ IsRetainer(n)
  /\ nodes' = [nodes EXCEPT ![n] = node]
  /\ StillDue
  /\ UNCHANGED <<free, used, newSpace, heap, rounds>>

MakeWeak(n) == Changes("MakeWeak", n, [nodes[n] EXCEPT !.state = "weak", !.word = Null])

ClearWeakness(n) == Changes("ClearWeakness", n, [nodes[n] EXCEPT !.state = "normal", !.word = Null])

MarkIndependent(n) == Changes("MarkIndependent", n, [nodes[n] EXCEPT !.independent = TRUE])

MarkPartiallyDependent(n) ==
  InNewSpace(nodes[n].object) /\ Changes("MarkPartiallyDependent", n, [nodes[n] EXCEPT !.partially = TRUE])

----------------------------------------------------------------------------
(* The collections.                                                         *)

MayDieYoung(n) == nodes[n].independent \/ nodes[n].partially

\* IterateNewSpaceStrongAndDependentRoots
StrongAndDependent_OnlyWeak ==
  {n \in Listed : IsStrongRetainer(n) \/ (nodes[n].state = "weak" /\ ~MayDieYoung(n))}

StrongAndDependent ==
  {n \in Listed : IsStrongRetainer(n) \/ (IsWeakRetainer(n) /\ ~MayDieYoung(n))}

\* IterateNewSpaceWeakIndependentRoots
WeakIndependent == {n \in Listed : IsWeakRetainer(n) /\ MayDieYoung(n)}

Referents(S) == {nodes[n].object : n \in S}

\* The nodes after a collection: those found are pending, and the slots of
\* those lost still hold an address at which there is no object any more.
Collected(found, lost) ==
  [n \in Node |->
     [nodes[n] EXCEPT !.state = IF n \in found THEN "pending" ELSE @,
                      !.object = IF n \in lost THEN Null ELSE @]]

\* A round begins; each active one will see that there was another.
Begin(collector) ==
  /\ rounds' = Append([k \in DOMAIN rounds |-> [rounds[k] EXCEPT !.again = TRUE]],
                      NewRound(collector))
  /\ UNCHANGED <<free, used, newSpace>>

Scavenge ==
  LET live == heap.held \cup Referents(StrongAndDependent)
      found == {n \in WeakIndependent :
                  nodes[n].state = "weak" /\ InNewSpace(nodes[n].object) /\ nodes[n].object \notin live}
      kept == live \cup Referents(WeakIndependent)
      lost == {n \in Node \ (StrongAndDependent \cup WeakIndependent) :
                 IsRetainer(n) /\ InNewSpace(nodes[n].object)}
  IN  /\ MayCall("Scavenge") /\ Len(rounds) < MaxRounds
      /\ \E promoted \in SUBSET {o \in kept : InNewSpace(o)} :
           heap' = [heap EXCEPT !.place =
                      [o \in Object |-> IF ~InNewSpace(o) THEN heap.place[o]
                                        ELSE IF o \in promoted THEN "old"
                                        ELSE IF o \in kept THEN "young" ELSE "none"]]
      /\ nodes' = Collected(found, lost)
      /\ due' = due \cup found
      /\ Begin("scavenge")

\* IdentifyWeakHandles, IterateWeakRoots, and the update of the slots after
\* the evacuation.
MarkCompact ==
  LET live == heap.held \cup Referents({n \in Iterated : IsStrongRetainer(n)})
      found == {n \in Iterated : nodes[n].state = "weak" /\ nodes[n].object \notin live}
      kept == live \cup Referents({n \in Iterated : IsWeakRetainer(n)})
  IN  /\ MayCall("MarkCompact") /\ Len(rounds) < MaxRounds
      /\ \E promoted \in SUBSET {o \in kept : InNewSpace(o)} :
           heap' = [heap EXCEPT !.place =
                      [o \in Object |-> IF o \in promoted THEN "old"
                                        ELSE IF o \in kept THEN heap.place[o] ELSE "none"]]
      /\ nodes' = Collected(found, {n \in Node \ Iterated : IsRetainer(n)})
      /\ UNCHANGED due
      /\ Begin("full")

----------------------------------------------------------------------------
(* PostGarbageCollectionProcessing.                                         *)

AtEnd(r) == IF r.collector = "scavenge" THEN r.index > Len(newSpace) ELSE r.block = Null

NodeAt(r) == IF r.collector = "scavenge" THEN newSpace[r.index] ELSE <<r.block, r.index>>

Advanced_TwiceAtEnd(r) ==
  IF r.collector = "scavenge" \/ r.index < kSize
    THEN [r EXCEPT !.index = @ + 1, !.node = Null]
    ELSE [r EXCEPT !.index = 0, !.block = used.next[r.block], !.node = Null]

Advanced(r) ==
  IF r.collector = "scavenge" \/ r.index + 1 < kSize
    THEN [r EXCEPT !.index = @ + 1, !.node = Null]
    ELSE [r EXCEPT !.index = 0, !.block = used.next[r.block], !.node = Null]

Goes(r) == rounds' = [rounds EXCEPT ![Len(rounds)] = r]

Looking == rounds # <<>> /\ Top.node = Null /\ ~AtEnd(Top)

Processed == Top.collector = "scavenge" => MayDieYoung(NodeAt(Top))

\* A node that is not pending, or is left to the full collections.
PassNode ==
  /\ Looking
  /\ Processed => nodes[NodeAt(Top)].state # "pending"
  /\ nodes' = IF Processed THEN [nodes EXCEPT ![NodeAt(Top)].partially = FALSE] ELSE nodes
  /\ Goes(Advanced(Top))
  /\ UNCHANGED <<free, used, newSpace, heap, due>>

CallBack ==
  /\ Looking
  /\ Processed
  /\ nodes[NodeAt(Top)].state = "pending"
  /\ nodes' = [nodes EXCEPT ![NodeAt(Top)].partially = FALSE, ![NodeAt(Top)].state = "nearDeath",
                            ![NodeAt(Top)].word = Null]
  /\ Goes([Top EXCEPT !.node = NodeAt(Top)])
  /\ StillDue
  /\ UNCHANGED <<free, used, newSpace, heap>>

CallbackReturns_ClearsParameter ==
  /\ rounds # <<>> /\ Top.node # Null
  /\ nodes[Top.node].state # "nearDeath"
  /\ nodes' = [nodes EXCEPT ![Top.node].word = Null]
  /\ IF Top.again THEN rounds' = Popped ELSE Goes(Advanced(Top))
  /\ UNCHANGED <<free, used, newSpace, heap, due>>

\* The callback has disposed of its handle or revived it.  If there was
\* another round meanwhile this one goes no further.
CallbackReturns ==
  /\ rounds # <<>> /\ Top.node # Null
  /\ nodes[Top.node].state # "nearDeath"
  /\ IF Top.again THEN rounds' = Popped ELSE Goes(Advanced(Top))
  /\ UNCHANGED <<nodes, free, used, newSpace, heap, due>>

\* The list of the nodes of young objects, without those that are no longer.
EndRound ==
  /\ rounds # <<>> /\ Top.node = Null /\ AtEnd(Top)
  /\ newSpace' = Compacted(newSpace, Young)
  /\ nodes' = [n \in Node |-> [nodes[n] EXCEPT !.listed = @ /\ n \in Young]]
  /\ rounds' = Popped
  /\ UNCHANGED <<free, used, heap, due>>

Next ==
  \/ \E o \in Object : Allocate(o) \/ Drop(o) \/ Create(o)
  \/ \E n \in Node : \/ Get(n) \/ Destroy(n) \/ MakeWeak(n) \/ ClearWeakness(n)
                     \/ MarkIndependent(n) \/ MarkPartiallyDependent(n)
  \/ Scavenge \/ MarkCompact
  \/ PassNode \/ CallBack \/ CallbackReturns \/ EndRound

Spec == Init /\ [][Next]_vars

----------------------------------------------------------------------------
NodeRecord ==
  [state : {"absent", "free", "normal", "weak", "pending", "nearDeath"},
   object : Object \cup {Null}, word : Node \cup {Null},
   independent : BOOLEAN, partially : BOOLEAN, listed : BOOLEAN]

\* Type invariant: the nodes, the lists and the iterators.
TypeOK ==
  /\ nodes \in [Node -> NodeRecord]
  /\ free \in Node \cup {Null}
  /\ used \in [first : Block \cup {Null}, next : [Block -> Block \cup {Null}],
               prev : [Block -> Block \cup {Null}], uses : [Block -> 0 .. kSize]]
  /\ newSpace \in Seq(Node)
  /\ heap \in [place : [Object -> {"none", "young", "old"}], held : SUBSET Object]
  /\ rounds \in Seq([collector : {"scavenge", "full"}, block : Block \cup {Null}, index : Nat,
                     node : Node \cup {Null}, again : BOOLEAN])
  /\ \A k \in DOMAIN rounds : rounds[k].collector = "full" => rounds[k].index < kSize
  /\ due \subseteq Node

\* A handle that exists holds an object that exists, whatever was collected
\* and moved since, weak, pending or near death though it may be.
HandlesValid ==
  \A n \in Node : IsRetainer(n) =>
    nodes[n].object \in Object /\ heap.place[nodes[n].object] # "none"

\* Each free node is on the free list once (Release, Create).
FreeListExact ==
  LET FreeNodes == {n \in Node : nodes[n].state = "free"}
      Word == [n \in Node |-> nodes[n].word]
  IN  /\ Walk(free, Word) = FreeNodes
      /\ \A n, m \in FreeNodes : Word[n] # free /\ (Word[n] = Word[m] => n = m \/ Word[n] = Null)

\* The blocks in use are linked in both directions and count their nodes
\* (IncreaseUses, DecreaseUses).
BlocksExact ==
  /\ InUse = {b \in Block : used.uses[b] > 0}
  /\ \A b \in Block : used.uses[b] = Cardinality({n \in Node : n[1] = b /\ IsRetainer(n)})
  /\ \A b, c \in InUse : used.next[b] = c <=> used.prev[c] = b

\* The list for the scavenger has each node once, and those of young objects
\* are on it (new_space_nodes_).
YoungListExact ==
  /\ Listed = {n \in Node : nodes[n].listed}
  /\ Len(newSpace) = Cardinality(Listed)
  /\ Young \subseteq Listed

\* The three lists of nodes and blocks are what they stand for, through
\* whatever callbacks do between two steps of an iterator.
ListsExact == FreeListExact /\ BlocksExact /\ YoungListExact

\* A round that comes to its end has called back for every node it had to,
\* although the callbacks may change the lists it goes along; and what a
\* scavenge has identified is not left for later even by a round that goes no
\* further (PostGarbageCollectionProcessing).
NoneForgotten ==
  /\ rounds # <<>> /\ Top.node = Null /\ AtEnd(Top) =>
       /\ due = {}
       /\ Top.collector = "full" => \A n \in Node : nodes[n].state # "pending"
  /\ rounds = <<>> => due = {}
=============================================================================

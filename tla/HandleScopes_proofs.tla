------------------------ MODULE HandleScopes_proofs ------------------------
(***************************************************************************)
(* Proofs about HandleScopes for every block size, every set of blocks and *)
(* every depth of scopes.  The inductive invariant says where the saved    *)
(* pointers of each open scope point, base[k] being the number of blocks   *)
(* that were in use when scope k was opened, and which slots each owns.    *)
(* From it follow, in this order: the types, the return of the blocks, the *)
(* list of groups, what the collector visits, and the refinement of        *)
(* HandleStack.                                                            *)
(***************************************************************************)
EXTENDS HandleScopes, FiniteSetTheorems, SequenceTheorems, WellFoundedInduction, TLAPS

\* p points into block n of blocks (or is NULL when there is no block).
PtrAt(p, blocks, n) ==
  IF n = 0 THEN p = NoPtr ELSE \E o \in 0 .. kHandleBlockSize : p = <<blocks[n], o>>

LimitAt(p, blocks, n) == IF n = 0 THEN p = NoPtr ELSE p = EndOf(blocks[n])

\* next and limit stay in the last block; no array is in two places.
AreaOK(h) ==
  /\ PtrAt(h.next, h.blocks, Len(h.blocks))
  /\ LimitAt(h.limit, h.blocks, Len(h.blocks))
  /\ \A i, j \in 1 .. Len(h.blocks) : h.blocks[i] = h.blocks[j] => i = j
  /\ \A i \in 1 .. Len(h.blocks) : h.blocks[i] # h.spare
  /\ \A d \in deferred : \A i \in 1 .. Len(d.blocks) :
       /\ d.blocks[i] # h.spare
       /\ \A j \in 1 .. Len(h.blocks) : d.blocks[i] # h.blocks[j]

GroupsOK ==
  /\ \A d \in deferred : Len(d.blocks) > 0
  /\ \A d, e \in deferred :
       d # e => \A i \in 1 .. Len(d.blocks), j \in 1 .. Len(e.blocks) : d.blocks[i] # e.blocks[j]

\* The saved pointers of the open scopes.
ScopesOK(ss, blocks, base) ==
  /\ base \in [1 .. Len(ss) -> 0 .. Len(blocks)]
  /\ Len(ss) = 0 => Len(blocks) = 0
  /\ Len(ss) > 0 => base[1] = 0
  /\ \A j, k \in 1 .. Len(ss) : j <= k => base[j] <= base[k]
  /\ \A k \in 1 .. Len(ss) : /\ PtrAt(ss[k].prevNext, blocks, base[k])
                             /\ LimitAt(ss[k].prevLimit, blocks, base[k])
  /\ \A k \in 1 .. Len(ss) : ss[k].kind = "deferred" =>
       /\ base[k] < Len(blocks)
       /\ \A j \in 1 .. Len(ss) : k < j => base[k] < base[j]

Offset == 0 .. kHandleBlockSize - 1

\* Slot x of block i is not below the pointer p, which is in block n.
Reached(p, n, i, x) == n < i \/ (n = i /\ p[2] <= x)

\* The handles of a scope s that saved a pointer into block n begin there, or
\* in the next block if it is deferred,
Begins(s, n, i, x) == IF s.kind = "deferred" THEN n < i ELSE Reached(s.prevNext, n, i, x)

\* and end where those of the next scope begin, or at next.
Ends(ss, h, base, k, i, x) ==
  IF k < Len(ss) THEN Reached(ss[k + 1].prevNext, base[k + 1], i, x)
  ELSE Reached(h.next, Len(h.blocks), i, x)

\* The pointers saved in one block are in the order of the scopes.
OrderOK(ss, h, base) ==
  /\ \A j, k \in 1 .. Len(ss) :
       j <= k /\ base[j] = base[k] /\ base[j] > 0 => ss[j].prevNext[2] <= ss[k].prevNext[2]
  /\ \A k \in 1 .. Len(ss) :
       base[k] = Len(h.blocks) /\ base[k] > 0 => ss[k].prevNext[2] <= h.next[2]

\* The rest of the block below a deferred scope, of which there is one at
\* most, is not used; lastBefore is where it starts.
GapOK(ss, h, base) ==
  /\ \A k \in 1 .. Len(ss) :
       ss[k].kind = "deferred" => base[k] > 0 /\ h.lastBefore = ss[k].prevNext
  /\ \A j, k \in 1 .. Len(ss) : ss[j].kind = "deferred" /\ ss[k].kind = "deferred" => j = k
  /\ h.lastBefore # NoPtr => \E k \in 1 .. Len(ss) : ss[k].kind = "deferred"

\* Each scope has the slots from where it begins to where it ends.
OwnOK(ss, h, base) ==
  /\ \A k \in 1 .. Len(ss) : \A p \in ss[k].handles :
       \E i \in 1 .. Len(h.blocks), x \in Offset : p = <<h.blocks[i], x>>
  /\ \A k \in 1 .. Len(ss), i \in 1 .. Len(h.blocks), x \in Offset :
       <<h.blocks[i], x>> \in ss[k].handles <=>
         Begins(ss[k], base[k], i, x) /\ ~Ends(ss, h, base, k, i, x)

SlotsOK(ss, h, base) == OrderOK(ss, h, base) /\ GapOK(ss, h, base) /\ OwnOK(ss, h, base)

Shape(base) ==
  /\ AreaOK(hs)
  /\ GroupsOK
  /\ ScopesOK(scopes, hs.blocks, base)
  /\ SlotsOK(scopes, hs, base)
  /\ hs.level = Len(scopes)

IInv == TypeOK /\ \E base \in [1 .. Len(scopes) -> 0 .. Len(hs.blocks)] : Shape(base)

----------------------------------------------------------------------------
(* The pointers the invariant speaks of are pointers. *)
LEMMA PtrAtIsPtr ==
  ASSUME NEW blocks \in Seq(Block), NEW n \in 0 .. Len(blocks), NEW p, PtrAt(p, blocks, n)
  PROVE  /\ p \in Ptr
         /\ n > 0 => /\ p \in Block \X (0 .. kHandleBlockSize)
                     /\ p # NoPtr
                     /\ p[1] = blocks[n]
                     /\ p[2] \in 0 .. kHandleBlockSize
                     /\ p = <<p[1], p[2]>>
<1>1. CASE n = 0
  BY <1>1 DEF PtrAt, Ptr
<1>2. CASE n > 0
  <2>1. PICK o \in 0 .. kHandleBlockSize : p = <<blocks[n], o>>
    BY <1>2 DEF PtrAt
  <2>2. blocks[n] \in Block
    BY <1>2
  <2>3. p \in Block \X (0 .. kHandleBlockSize) /\ p \in Block \X Nat
    BY <2>1, <2>2
  <2> QED
    BY <2>1, <2>2, <2>3, PtrAssumption DEF Ptr
<1> QED
  BY <1>1, <1>2

LEMMA LimitAtIsPtr ==
  ASSUME NEW blocks \in Seq(Block), NEW n \in 0 .. Len(blocks), NEW p, LimitAt(p, blocks, n)
  PROVE  p \in Ptr
BY SizeAssumption DEF LimitAt, Ptr, EndOf

(* A block list without repetition is cut at exactly one place by a limit.  *)
LEMMA KeptIsUnique ==
  ASSUME NEW blocks \in Seq(Block), NEW n \in 0 .. Len(blocks), NEW lim,
         LimitAt(lim, blocks, n),
         \A i, j \in 1 .. Len(blocks) : blocks[i] = blocks[j] => i = j
  PROVE  Kept(blocks, lim) = {n}
<1>1. ASSUME NEW i \in 1 .. Len(blocks)
      PROVE  EndOf(blocks[i]) = lim <=> i = n
  <2>1. CASE n = 0
    <3>1. EndOf(blocks[i]) \in Block \X Nat
      BY SizeAssumption DEF EndOf
    <3> QED
      BY <2>1, <3>1, PtrAssumption DEF LimitAt
  <2>2. CASE n > 0
    BY <2>2 DEF LimitAt, EndOf
  <2> QED
    BY <2>1, <2>2
<1>2. n \in Kept(blocks, lim)
  BY <1>1 DEF Kept
<1>3. ASSUME NEW m \in Kept(blocks, lim)
      PROVE  m = n
  BY <1>1, <1>3 DEF Kept
<1> QED
  BY <1>2, <1>3

(* What is left of the area when a scope that saved the pointers s is closed. *)
Cut(h, s, n, g) ==
  /\ g.next = s.prevNext
  /\ g.limit = s.prevLimit
  /\ g.level = h.level - 1
  /\ g.blocks = SubSeq(h.blocks, 1, n)
  /\ g.spare = IF n < Len(h.blocks) THEN h.blocks[n + 1] ELSE h.spare
  /\ g.lastBefore = h.lastBefore
  /\ g = [next |-> g.next, limit |-> g.limit, level |-> g.level, blocks |-> g.blocks,
          spare |-> g.spare, lastBefore |-> g.lastBefore]

LEMMA LeaveIsCut ==
  ASSUME NEW h \in HandleState, AreaOK(h), NEW s, NEW n \in 0 .. Len(h.blocks),
         LimitAt(s.prevLimit, h.blocks, n), NEW g \in Leave(h, s)
  PROVE  Cut(h, s, n, g)
<1>0. h = [next |-> h.next, limit |-> h.limit, level |-> h.level, blocks |-> h.blocks,
           spare |-> h.spare, lastBefore |-> h.lastBefore]
  BY DEF HandleState
<1>1. Kept(h.blocks, s.prevLimit) = {n}
  BY KeptIsUnique DEF HandleState, AreaOK
<1>2. PICK back : back = [h EXCEPT !.next = s.prevNext, !.level = @ - 1]
  OBVIOUS
<1>2a. /\ back.next = s.prevNext
       /\ back.limit = h.limit
       /\ back.level = h.level - 1
       /\ back.blocks = h.blocks
       /\ back.spare = h.spare
       /\ back.lastBefore = h.lastBefore
       /\ back = [next |-> back.next, limit |-> back.limit, level |-> back.level,
                  blocks |-> back.blocks, spare |-> back.spare, lastBefore |-> back.lastBefore]
  BY <1>0, <1>2
<1>3. CASE h.limit = s.prevLimit
  <2>1. n = Len(h.blocks)
    <3>1. LimitAt(h.limit, h.blocks, Len(h.blocks)) /\ h.blocks \in Seq(Block)
      BY DEF AreaOK, HandleState
    <3>2. Kept(h.blocks, h.limit) = {Len(h.blocks)}
      BY <3>1, KeptIsUnique DEF AreaOK, HandleState
    <3> QED
      BY <3>2, <1>1, <1>3
  <2>2. SubSeq(h.blocks, 1, n) = h.blocks
    BY <2>1 DEF HandleState
  <2>3. g = back
    BY <1>2, <1>3 DEF Leave
  <2> QED
    BY <1>2a, <1>3, <2>1, <2>2, <2>3 DEF Cut
<1>4. CASE h.limit # s.prevLimit
  <2>1. PICK cut : cut = [back EXCEPT !.limit = s.prevLimit]
    OBVIOUS
  <2>2. g \in DeleteExtensions(cut, s.prevLimit)
    BY <1>2, <1>4, <2>1 DEF Leave
  <2>2a. /\ cut.next = s.prevNext
         /\ cut.limit = s.prevLimit
         /\ cut.level = h.level - 1
         /\ cut.blocks = h.blocks
         /\ cut.spare = h.spare
         /\ cut.lastBefore = h.lastBefore
         /\ cut = [next |-> cut.next, limit |-> cut.limit, level |-> cut.level,
                   blocks |-> cut.blocks, spare |-> cut.spare, lastBefore |-> cut.lastBefore]
    BY <1>2a, <2>1
  <2>3. g = [cut EXCEPT !.blocks = SubSeq(@, 1, n),
                        !.spare = IF n < Len(cut.blocks) THEN cut.blocks[n + 1] ELSE @]
    BY <1>1, <2>2, <2>2a DEF DeleteExtensions
  <2>4. /\ g.next = cut.next /\ g.limit = cut.limit /\ g.level = cut.level
        /\ g.blocks = SubSeq(cut.blocks, 1, n)
        /\ g.spare = IF n < Len(cut.blocks) THEN cut.blocks[n + 1] ELSE cut.spare
        /\ g.lastBefore = cut.lastBefore
        /\ g = [next |-> g.next, limit |-> g.limit, level |-> g.level, blocks |-> g.blocks,
                spare |-> g.spare, lastBefore |-> g.lastBefore]
    BY <2>2a, <2>3
  <2> QED
    BY <2>2a, <2>4 DEF Cut
<1> QED
  BY <1>3, <1>4

(* Closing a scope keeps the area in order. *)
LEMMA LeaveArea ==
  ASSUME TypeOK, NEW h \in HandleState, AreaOK(h), h.level > 0,
         NEW s \in ScopeRecord, NEW n \in 0 .. Len(h.blocks),
         LimitAt(s.prevLimit, h.blocks, n), PtrAt(s.prevNext, h.blocks, n),
         NEW g \in Leave(h, s)
  PROVE  /\ g \in HandleState
         /\ AreaOK(g)
<1>0. Cut(h, s, n, g)
  BY LeaveIsCut
<1>1. g \in HandleState
  <2>1. SubSeq(h.blocks, 1, n) \in Seq(Block)
    BY DEF HandleState
  <2>2. n < Len(h.blocks) => h.blocks[n + 1] \in Block
    BY DEF HandleState
  <2>3. g.spare \in Block \cup {NoBlock}
    BY <1>0, <2>2 DEF Cut, HandleState
  <2>4. g.next \in Ptr /\ g.limit \in Ptr /\ g.level \in Nat /\ g.lastBefore \in Ptr
    BY <1>0 DEF Cut, HandleState, ScopeRecord
  <2> QED
    BY <1>0, <2>1, <2>3, <2>4 DEF Cut, HandleState
<1>2. /\ Len(g.blocks) = n
      /\ \A i \in 1 .. n : g.blocks[i] = h.blocks[i]
  BY <1>0 DEF Cut, HandleState
<1>3. PtrAt(g.next, g.blocks, n) /\ LimitAt(g.limit, g.blocks, n)
  BY <1>0, <1>2 DEF Cut, PtrAt, LimitAt
<1>4. \A i, j \in 1 .. n : g.blocks[i] = g.blocks[j] => i = j
  BY <1>2 DEF AreaOK
<1>5. \/ g.spare = h.spare
      \/ n + 1 \in 1 .. Len(h.blocks) /\ g.spare = h.blocks[n + 1]
  BY <1>0 DEF Cut, HandleState
<1>7. \A i \in 1 .. n : g.blocks[i] # g.spare
  BY <1>2, <1>5 DEF AreaOK, HandleState
<1>6. \A d \in deferred : \A i \in 1 .. Len(d.blocks) :
        /\ d.blocks[i] # g.spare
        /\ \A j \in 1 .. n : d.blocks[i] # g.blocks[j]
  BY <1>2, <1>5 DEF AreaOK, HandleState
<1> QED
  BY <1>2, <1>1, <1>3, <1>4, <1>6, <1>7 DEF AreaOK

(* The area is a matter of blocks, next and limit. *)
LEMMA SameArea ==
  ASSUME NEW h, AreaOK(h), NEW g, g.next = h.next, g.limit = h.limit, g.blocks = h.blocks,
         g.spare = h.spare
  PROVE  AreaOK(g)
BY DEF AreaOK

(* A block that is free or spare joins the list. *)
LEMMA PushArea ==
  ASSUME TypeOK, NEW h \in HandleState, AreaOK(h), NEW b \in SpareOrNewBlock(h),
         NEW g, g = PushBlock(h, b)
  PROVE  /\ g \in HandleState
         /\ AreaOK(g)
         /\ b \in Block
         /\ g.next = <<b, 0>>
         /\ g.limit = <<b, kHandleBlockSize>>
         /\ g.level = h.level
         /\ g.lastBefore = h.lastBefore
         /\ g.blocks = Append(h.blocks, b)
<1>0. h = [next |-> h.next, limit |-> h.limit, level |-> h.level, blocks |-> h.blocks,
           spare |-> h.spare, lastBefore |-> h.lastBefore]
  BY DEF HandleState
<1>1. /\ g.next = <<b, 0>>
      /\ g.limit = <<b, kHandleBlockSize>>
      /\ g.level = h.level
      /\ g.blocks = Append(h.blocks, b)
      /\ g.spare = NoBlock
      /\ g.lastBefore = h.lastBefore
      /\ g = [next |-> g.next, limit |-> g.limit, level |-> g.level, blocks |-> g.blocks,
              spare |-> g.spare, lastBefore |-> g.lastBefore]
  BY <1>0 DEF PushBlock, Start, EndOf
<1>2. /\ b \in Block
      /\ \A i \in 1 .. Len(h.blocks) : h.blocks[i] # b
      /\ \A d \in deferred : \A i \in 1 .. Len(d.blocks) : d.blocks[i] # b
  <2>1. CASE h.spare # NoBlock
    BY <2>1 DEF SpareOrNewBlock, HandleState, AreaOK
  <2>2. CASE h.spare = NoBlock
    <3>1. b \in Block \ Allocated(h)
      BY <2>2 DEF SpareOrNewBlock
    <3>2. \A i \in 1 .. Len(h.blocks) : h.blocks[i] \in Allocated(h)
      BY DEF Allocated, BlocksIn, HandleState
    <3>3. \A d \in deferred : \A i \in 1 .. Len(d.blocks) : d.blocks[i] \in Allocated(h)
      BY DEF Allocated, BlocksIn, TypeOK, Group
    <3> QED
      BY <3>1, <3>2, <3>3
  <2> QED
    BY <2>1, <2>2
<1>3. g \in HandleState
  <2>1. g.next \in Ptr /\ g.limit \in Ptr
    BY <1>1, <1>2, SizeAssumption DEF Ptr
  <2>2. g.blocks \in Seq(Block)
    BY <1>1, <1>2 DEF HandleState
  <2> QED
    BY <1>1, <2>1, <2>2 DEF HandleState
<1>4. /\ h.blocks \in Seq(Block)
      /\ Len(g.blocks) = Len(h.blocks) + 1
      /\ \A i \in 1 .. Len(h.blocks) : g.blocks[i] = h.blocks[i]
      /\ g.blocks[Len(h.blocks) + 1] = b
  BY <1>1, <1>2 DEF HandleState
<1>5. PtrAt(g.next, g.blocks, Len(g.blocks)) /\ LimitAt(g.limit, g.blocks, Len(g.blocks))
  <2>1. Len(g.blocks) # 0 /\ g.blocks[Len(g.blocks)] = b /\ 0 \in 0 .. kHandleBlockSize
    BY <1>4, SizeAssumption
  <2> QED
    BY <2>1, <1>1 DEF PtrAt, LimitAt, EndOf
<1>6. \A i, j \in 1 .. Len(g.blocks) : g.blocks[i] = g.blocks[j] => i = j
  <2>1. /\ Len(h.blocks) \in Nat
        /\ \A i \in 1 .. Len(g.blocks) : i = Len(h.blocks) + 1 \/ i \in 1 .. Len(h.blocks)
    BY <1>4
  <2>2. \A i, j \in 1 .. Len(h.blocks) : h.blocks[i] = h.blocks[j] => i = j
    BY DEF AreaOK
  <2> SUFFICES ASSUME NEW i \in 1 .. Len(g.blocks), NEW j \in 1 .. Len(g.blocks),
                      g.blocks[i] = g.blocks[j]
               PROVE  i = j
    OBVIOUS
  <2>3. CASE i \in 1 .. Len(h.blocks) /\ j \in 1 .. Len(h.blocks)
    BY <1>4, <2>2, <2>3
  <2>4. CASE i = Len(h.blocks) + 1
    BY <1>2, <1>4, <2>1, <2>4
  <2>5. CASE j = Len(h.blocks) + 1
    BY <1>2, <1>4, <2>1, <2>5
  <2> QED
    BY <2>1, <2>3, <2>4, <2>5
<1>7. /\ \A i \in 1 .. Len(g.blocks) : g.blocks[i] # g.spare
      /\ \A d \in deferred : \A i \in 1 .. Len(d.blocks) : d.blocks[i] # g.spare
  <2>1. \A i \in 1 .. Len(g.blocks) : g.blocks[i] \in Block
    BY <1>3 DEF HandleState
  <2>2. \A d \in deferred : \A i \in 1 .. Len(d.blocks) : d.blocks[i] \in Block
    BY DEF TypeOK, Group
  <2> QED
    BY <2>1, <2>2, <1>1, BlockAssumption
<1>8. \A d \in deferred : \A i \in 1 .. Len(d.blocks) :
        \A j \in 1 .. Len(g.blocks) : d.blocks[i] # g.blocks[j]
  <2>1. \A i \in 1 .. Len(g.blocks) : i = Len(h.blocks) + 1 \/ i \in 1 .. Len(h.blocks)
    BY <1>4
  <2>2. \A d \in deferred : \A i \in 1 .. Len(d.blocks) :
          \A j \in 1 .. Len(h.blocks) : d.blocks[i] # h.blocks[j]
    BY DEF AreaOK
  <2> QED
    BY <1>2, <1>4, <2>1, <2>2
<1> QED
  BY <1>1, <1>2, <1>3, <1>5, <1>6, <1>7, <1>8 DEF AreaOK

(* With next at the limit the area grows by a block. *)
LEMMA FullExtends ==
  ASSUME TypeOK, NEW h \in HandleState, AreaOK(h), h.next = h.limit, NEW r \in WithRoom(h)
  PROVE  \E b \in SpareOrNewBlock(h) : r = PushBlock(h, b)
<1>1. PICK rest : rest = [h EXCEPT !.limit = IF h.blocks = <<>> THEN @ ELSE EndOf(LastOf(h.blocks))]
  OBVIOUS
<1>2. h.limit = IF h.blocks = <<>> THEN h.limit ELSE EndOf(LastOf(h.blocks))
  BY DEF AreaOK, LimitAt, LastOf, HandleState
<1>3. rest = h
  BY <1>1, <1>2 DEF HandleState
<1>4. r \in Extend(h)
  BY DEF WithRoom
<1> QED BY <1>1, <1>3, <1>4 DEF Extend

(* Making a handle keeps the area in order and never moves a block. *)
LEMMA RoomArea ==
  ASSUME TypeOK, NEW h \in HandleState, AreaOK(h), NEW r \in WithRoom(h)
  PROVE  /\ r \in HandleState /\ r.next \in Slot
         /\ Bump(r) \in HandleState
         /\ AreaOK(Bump(r))
         /\ Bump(r).level = h.level
         /\ Bump(r).lastBefore = h.lastBefore
         /\ Len(h.blocks) <= Len(Bump(r).blocks)
         /\ \A i \in 1 .. Len(h.blocks) : Bump(r).blocks[i] = h.blocks[i]
<1>1. /\ r \in HandleState
      /\ AreaOK(r)
      /\ r.next # r.limit
      /\ r.level = h.level
      /\ r.lastBefore = h.lastBefore
      /\ Len(h.blocks) <= Len(r.blocks)
      /\ \A i \in 1 .. Len(h.blocks) : r.blocks[i] = h.blocks[i]
  <2>1. CASE h.next # h.limit
    BY <2>1 DEF WithRoom, HandleState
  <2>2. CASE h.next = h.limit
    <3>5. PICK b \in SpareOrNewBlock(h) : r = PushBlock(h, b)
      BY <2>2, FullExtends
    <3>6. /\ r \in HandleState /\ AreaOK(r) /\ b \in Block
          /\ r.next = <<b, 0>> /\ r.limit = <<b, kHandleBlockSize>>
          /\ r.level = h.level /\ r.lastBefore = h.lastBefore
          /\ r.blocks = Append(h.blocks, b)
      BY <3>5, PushArea
    <3>7. r.next # r.limit
      BY <3>6, SizeAssumption
    <3> QED
      BY <3>6, <3>7 DEF HandleState
  <2> QED
    BY <2>1, <2>2
<1>2. PICK g : g = Bump(r)
  OBVIOUS
<1>3. /\ g.next = <<r.next[1], r.next[2] + 1>>
      /\ g.limit = r.limit
      /\ g.level = r.level
      /\ g.blocks = r.blocks
      /\ g.spare = r.spare
      /\ g.lastBefore = r.lastBefore
      /\ g = [next |-> g.next, limit |-> g.limit, level |-> g.level, blocks |-> g.blocks,
              spare |-> g.spare, lastBefore |-> g.lastBefore]
  BY <1>1, <1>2 DEF Bump, HandleState
<1>4. r.blocks \in Seq(Block) /\ Len(r.blocks) > 0
  BY <1>1 DEF AreaOK, PtrAt, LimitAt, HandleState
<1>5. PICK o \in 0 .. kHandleBlockSize : r.next = <<r.blocks[Len(r.blocks)], o>>
  BY <1>1, <1>4 DEF AreaOK, PtrAt
<1>6. r.limit = <<r.blocks[Len(r.blocks)], kHandleBlockSize>>
  BY <1>1, <1>4 DEF AreaOK, LimitAt, EndOf
<1>7. o \in 0 .. kHandleBlockSize - 1 /\ o + 1 \in 0 .. kHandleBlockSize
  BY <1>1, <1>5, <1>6, SizeAssumption
<1>8. r.blocks[Len(r.blocks)] \in Block
  BY <1>4
<1>9. r.next \in Slot
  BY <1>5, <1>7, <1>8 DEF Slot
<1>10. g.next = <<r.blocks[Len(r.blocks)], o + 1>>
  BY <1>3, <1>5
<1>11. g \in HandleState
  <2>1. g.next \in Ptr
    BY <1>7, <1>8, <1>10 DEF Ptr
  <2> QED
    BY <1>1, <1>3, <2>1 DEF HandleState
<1>12. AreaOK(g)
  BY <1>1, <1>3, <1>4, <1>7, <1>10 DEF AreaOK, PtrAt
<1> QED
  BY <1>1, <1>2, <1>3, <1>9, <1>11, <1>12

----------------------------------------------------------------------------
LEMMA Prefix ==
  ASSUME NEW S, NEW s \in Seq(S), NEW m \in 0 .. Len(s)
  PROVE  /\ SubSeq(s, 1, m) \in Seq(S)
         /\ Len(SubSeq(s, 1, m)) = m
         /\ \A k \in 1 .. m : SubSeq(s, 1, m)[k] = s[k]
OBVIOUS

(* The saved pointers stay good while blocks are only added, ... *)
LEMMA ScopesKeep ==
  ASSUME NEW ss \in Seq(ScopeRecord), NEW blocks \in Seq(Block), NEW base,
         ScopesOK(ss, blocks, base), Len(ss) > 0,
         NEW more \in Seq(Block), Len(blocks) <= Len(more),
         \A i \in 1 .. Len(blocks) : more[i] = blocks[i],
         NEW tt \in Seq(ScopeRecord), Len(tt) = Len(ss),
         \A k \in 1 .. Len(ss) : /\ tt[k].kind = ss[k].kind
                                 /\ tt[k].prevNext = ss[k].prevNext
                                 /\ tt[k].prevLimit = ss[k].prevLimit
  PROVE  ScopesOK(tt, more, base)
<1>0. /\ Len(blocks) \in Nat /\ Len(more) \in Nat /\ Len(ss) \in Nat
      /\ base \in [1 .. Len(ss) -> 0 .. Len(blocks)]
  BY DEF ScopesOK
<1>1. base \in [1 .. Len(tt) -> 0 .. Len(more)]
  BY <1>0
<1>2. \A k \in 1 .. Len(tt) : /\ PtrAt(tt[k].prevNext, more, base[k])
                              /\ LimitAt(tt[k].prevLimit, more, base[k])
  <2> SUFFICES ASSUME NEW k \in 1 .. Len(tt)
               PROVE  /\ PtrAt(tt[k].prevNext, more, base[k])
                      /\ LimitAt(tt[k].prevLimit, more, base[k])
    OBVIOUS
  <2>1. base[k] \in 0 .. Len(blocks) /\ (base[k] # 0 => more[base[k]] = blocks[base[k]])
    <3>1. base[k] \in 0 .. Len(blocks)
      BY <1>0
    <3>2. base[k] # 0 => base[k] \in 1 .. Len(blocks)
      BY <1>0, <3>1
    <3> QED
      BY <3>1, <3>2
  <2>2. PtrAt(ss[k].prevNext, blocks, base[k]) /\ LimitAt(ss[k].prevLimit, blocks, base[k])
    BY DEF ScopesOK
  <2> QED
    BY <2>1, <2>2 DEF PtrAt, LimitAt
<1>3. \A k \in 1 .. Len(tt) : tt[k].kind = "deferred" =>
        /\ base[k] < Len(more)
        /\ \A j \in 1 .. Len(tt) : k < j => base[k] < base[j]
  <2> SUFFICES ASSUME NEW k \in 1 .. Len(tt), tt[k].kind = "deferred"
               PROVE  /\ base[k] < Len(more)
                      /\ \A j \in 1 .. Len(tt) : k < j => base[k] < base[j]
    OBVIOUS
  <2>1. ss[k].kind = "deferred" /\ k \in 1 .. Len(ss) /\ base[k] \in 0 .. Len(blocks)
    BY <1>0
  <2>2. /\ base[k] < Len(blocks)
        /\ \A j \in 1 .. Len(ss) : k < j => base[k] < base[j]
    BY <2>1 DEF ScopesOK
  <2> QED
    BY <1>0, <2>1, <2>2
<1> QED
  BY <1>1, <1>2, <1>3 DEF ScopesOK

(* ... when a scope is pushed that starts at the current next, ... *)
Pushed(base, ss, n) == [k \in 1 .. Len(ss) + 1 |-> IF k <= Len(ss) THEN base[k] ELSE n]

LEMMA ScopesPush ==
  ASSUME NEW ss \in Seq(ScopeRecord), NEW blocks \in Seq(Block), NEW base,
         ScopesOK(ss, blocks, base),
         NEW more \in Seq(Block), Len(blocks) <= Len(more),
         \A i \in 1 .. Len(blocks) : more[i] = blocks[i],
         NEW s \in ScopeRecord,
         PtrAt(s.prevNext, blocks, Len(blocks)), LimitAt(s.prevLimit, blocks, Len(blocks)),
         s.kind = "deferred" => Len(blocks) < Len(more)
  PROVE  ScopesOK(Append(ss, s), more, Pushed(base, ss, Len(blocks)))
<1> DEFINE tt == Append(ss, s)
           n == Len(ss) + 1
           new == Pushed(base, ss, Len(blocks))
<1>0. /\ Len(blocks) \in Nat /\ Len(more) \in Nat /\ Len(ss) \in Nat
      /\ base \in [1 .. Len(ss) -> 0 .. Len(blocks)]
      /\ \A j, k \in 1 .. Len(ss) : j <= k => base[j] <= base[k]
  BY DEF ScopesOK
<1>1. /\ Len(tt) = n
      /\ n \in Nat \ {0}
      /\ tt[n] = s
      /\ \A k \in 1 .. Len(ss) : tt[k] = ss[k]
  OBVIOUS
<1>2. /\ new \in [1 .. n -> 0 .. Len(more)]
      /\ new[n] = Len(blocks)
      /\ \A k \in 1 .. Len(ss) : new[k] = base[k] /\ base[k] \in 0 .. Len(blocks)
  BY DEF ScopesOK, Pushed
<1>3. new[1] = 0
  BY <1>2 DEF ScopesOK
<1>4. ASSUME NEW j \in 1 .. n, NEW k \in 1 .. n, j <= k
      PROVE  new[j] <= new[k]
  <2>1. CASE k = n
    <3>1. j = n \/ j \in 1 .. Len(ss)
      BY <1>0
    <3>2. new[j] \in 0 .. Len(blocks)
      BY <3>1, <1>0, <1>2
    <3> QED
      BY <2>1, <3>2, <1>0, <1>2
  <2>2. CASE k \in 1 .. Len(ss)
    <3>1. j \in 1 .. Len(ss)
      BY <2>2, <1>0, <1>4
    <3> QED
      BY <3>1, <2>2, <1>0, <1>2, <1>4
  <2> QED
    BY <2>1, <2>2, <1>0
<1>5. \A k \in 1 .. n : PtrAt(tt[k].prevNext, more, new[k]) /\ LimitAt(tt[k].prevLimit, more, new[k])
  <2> SUFFICES ASSUME NEW k \in 1 .. n
               PROVE  PtrAt(tt[k].prevNext, more, new[k]) /\ LimitAt(tt[k].prevLimit, more, new[k])
    OBVIOUS
  <2>1. new[k] \in 0 .. Len(blocks) /\ (new[k] # 0 => more[new[k]] = blocks[new[k]])
    BY <1>1, <1>2
  <2>2. PtrAt(tt[k].prevNext, blocks, new[k]) /\ LimitAt(tt[k].prevLimit, blocks, new[k])
    <3>1. CASE k = n
      BY <3>1, <1>1, <1>2
    <3>2. CASE k \in 1 .. Len(ss)
      BY <3>2, <1>1, <1>2 DEF ScopesOK
    <3> QED
      BY <3>1, <3>2
  <2> QED
    BY <2>1, <2>2 DEF PtrAt, LimitAt
<1>6. ASSUME NEW k \in 1 .. n, tt[k].kind = "deferred"
      PROVE  /\ new[k] < Len(more)
             /\ \A j \in 1 .. n : k < j => new[k] < new[j]
  <2>1. CASE k = n
    BY <2>1, <1>6, <1>0, <1>1, <1>2
  <2>2. CASE k \in 1 .. Len(ss)
    <3>1. ss[k].kind = "deferred" /\ base[k] \in Nat
      BY <2>2, <1>6, <1>0, <1>1
    <3>2. /\ base[k] < Len(blocks)
          /\ \A j \in 1 .. Len(ss) : k < j => base[k] < base[j]
      BY <2>2, <3>1 DEF ScopesOK
    <3>3. \A j \in 1 .. n : j = n \/ j \in 1 .. Len(ss)
      BY <1>0
    <3>4. \A j \in 1 .. n : k < j => new[k] < new[j]
      BY <2>2, <3>2, <3>3, <1>2
    <3> QED
      BY <3>1, <3>2, <3>4, <2>2, <1>0, <1>2
  <2> QED
    BY <2>1, <2>2, <1>0
<1> HIDE DEF new, tt
<1>7. ScopesOK(tt, more, new)
  BY <1>0, <1>1, <1>2, <1>3, <1>4, <1>5, <1>6 DEF ScopesOK
<1> QED
  BY <1>7 DEF new, tt

LEMMA ScopesPushHere ==
  ASSUME NEW ss \in Seq(ScopeRecord), NEW blocks \in Seq(Block), NEW base,
         ScopesOK(ss, blocks, base), NEW s \in ScopeRecord, s.kind = "scope",
         PtrAt(s.prevNext, blocks, Len(blocks)), LimitAt(s.prevLimit, blocks, Len(blocks))
  PROVE  ScopesOK(Append(ss, s), blocks, Pushed(base, ss, Len(blocks)))
<1>1. Len(blocks) <= Len(blocks)
  OBVIOUS
<1>2. s.kind = "deferred" => Len(blocks) < Len(blocks)
  OBVIOUS
<1> QED
  BY <1>1, <1>2, ScopesPush

(* ... and when the innermost scope goes with the blocks above its base. *)
LEMMA ScopesPop ==
  ASSUME NEW ss \in Seq(ScopeRecord), NEW blocks \in Seq(Block), NEW base,
         ScopesOK(ss, blocks, base), Len(ss) > 0
  PROVE  ScopesOK(SubSeq(ss, 1, Len(ss) - 1), SubSeq(blocks, 1, base[Len(ss)]),
                  [k \in 1 .. Len(ss) - 1 |-> base[k]])
<1> DEFINE m == Len(ss) - 1
           tt == SubSeq(ss, 1, m)
           n == base[Len(ss)]
           less == SubSeq(blocks, 1, n)
           new == [k \in 1 .. m |-> base[k]]
<1>0. /\ Len(blocks) \in Nat /\ Len(ss) \in Nat \ {0} /\ m \in 0 .. Len(ss)
      /\ base \in [1 .. Len(ss) -> 0 .. Len(blocks)]
      /\ n \in 0 .. Len(blocks)
  BY DEF ScopesOK
<1>1. /\ m \in Nat /\ Len(tt) = m
      /\ \A k \in 1 .. m : tt[k] = ss[k]
  <2> HIDE DEF m
  <2> QED
    BY <1>0, Prefix
<1>2. /\ n \in 0 .. Len(blocks)
      /\ Len(less) = n
      /\ \A i \in 1 .. n : less[i] = blocks[i]
  BY <1>0
<1>3. /\ new \in [1 .. m -> 0 .. n]
      /\ \A k \in 1 .. m : new[k] = base[k]
  BY <1>1, <1>2 DEF ScopesOK
<1>4. /\ m = 0 => n = 0
      /\ m > 0 => new[1] = 0
      /\ \A j, k \in 1 .. m : j <= k => new[j] <= new[k]
  BY <1>1, <1>3 DEF ScopesOK
<1>5. \A k \in 1 .. m : PtrAt(tt[k].prevNext, less, new[k]) /\ LimitAt(tt[k].prevLimit, less, new[k])
  <2> SUFFICES ASSUME NEW k \in 1 .. m
               PROVE  PtrAt(tt[k].prevNext, less, new[k]) /\ LimitAt(tt[k].prevLimit, less, new[k])
    OBVIOUS
  <2>1. PtrAt(ss[k].prevNext, blocks, base[k]) /\ LimitAt(ss[k].prevLimit, blocks, base[k])
    BY DEF ScopesOK
  <2>2. new[k] \in 0 .. n /\ (new[k] # 0 => less[new[k]] = blocks[new[k]])
    <3>1. new[k] \in 0 .. n
      BY <1>3
    <3>2. new[k] # 0 => new[k] \in 1 .. n
      BY <3>1, <1>0
    <3> HIDE DEF new, less
    <3> QED
      BY <3>1, <3>2, <1>2
  <2> QED
    BY <1>1, <1>3, <2>1, <2>2 DEF PtrAt, LimitAt
<1>6. ASSUME NEW k \in 1 .. m, tt[k].kind = "deferred"
      PROVE  /\ new[k] < n
             /\ \A j \in 1 .. m : k < j => new[k] < new[j]
  BY <1>6, <1>1, <1>3 DEF ScopesOK
<1> HIDE DEF new, less, tt
<1> QED
  BY <1>1, <1>2, <1>3, <1>4, <1>5, <1>6 DEF ScopesOK, new, less, tt

----------------------------------------------------------------------------
(* A handle joins a scope; the saved pointers stay. *)
LEMMA MoreHandles ==
  ASSUME NEW ss \in Seq(ScopeRecord), Len(ss) > 0, NEW p \in Slot
  PROVE  /\ AddHandle(ss, p) \in Seq(ScopeRecord)
         /\ Len(AddHandle(ss, p)) = Len(ss)
         /\ \A k \in 1 .. Len(ss) : /\ AddHandle(ss, p)[k].kind = ss[k].kind
                                    /\ AddHandle(ss, p)[k].prevNext = ss[k].prevNext
                                    /\ AddHandle(ss, p)[k].prevLimit = ss[k].prevLimit
                                    /\ AddHandle(ss, p)[k].handles =
                                         IF k = Len(ss) THEN ss[k].handles \cup {p}
                                         ELSE ss[k].handles
<1> DEFINE n == Len(ss)
<1>0. n \in 1 .. Len(ss)
  OBVIOUS
<1>1. ss[n] \in ScopeRecord
  OBVIOUS
<1>2. PICK s : s = [ss[n] EXCEPT !.handles = @ \cup {p}]
  OBVIOUS
<1>3. /\ s.kind = ss[n].kind
      /\ s.prevNext = ss[n].prevNext
      /\ s.prevLimit = ss[n].prevLimit
      /\ s.handles = ss[n].handles \cup {p}
      /\ s = [kind |-> s.kind, prevNext |-> s.prevNext, prevLimit |-> s.prevLimit,
              handles |-> s.handles]
  BY <1>1, <1>2 DEF ScopeRecord
<1>4. s \in ScopeRecord
  BY <1>1, <1>3 DEF ScopeRecord
<1>5. AddHandle(ss, p) = [ss EXCEPT ![n] = s]
  BY <1>2 DEF AddHandle
<1> HIDE DEF n
<1>6. /\ [ss EXCEPT ![n] = s] \in Seq(ScopeRecord)
      /\ Len([ss EXCEPT ![n] = s]) = Len(ss)
      /\ \A k \in 1 .. Len(ss) : [ss EXCEPT ![n] = s][k] = IF k = n THEN s ELSE ss[k]
  BY <1>0, <1>4, ExceptSeq
<1>7. \A k \in 1 .. Len(ss) : AddHandle(ss, p)[k] = IF k = n THEN s ELSE ss[k]
  BY <1>5, <1>6
<1>8. \A k \in 1 .. Len(ss) :
        /\ AddHandle(ss, p)[k].kind = ss[k].kind
        /\ AddHandle(ss, p)[k].prevNext = ss[k].prevNext
        /\ AddHandle(ss, p)[k].prevLimit = ss[k].prevLimit
        /\ AddHandle(ss, p)[k].handles = IF k = n THEN ss[k].handles \cup {p} ELSE ss[k].handles
  BY <1>3, <1>7
<1> QED
  BY <1>5, <1>6, <1>8 DEF n

----------------------------------------------------------------------------
(* The slots of the scopes. *)

\* A new scope begins at next and has none.
LEMMA SlotsPush ==
  ASSUME NEW h \in HandleState, NEW ss \in Seq(ScopeRecord), NEW base,
         ScopesOK(ss, h.blocks, base), SlotsOK(ss, h, base), AreaOK(h),
         NEW s \in ScopeRecord, s.kind = "scope", s.prevNext = h.next, s.handles = {},
         NEW g, g.next = h.next, g.blocks = h.blocks, g.lastBefore = h.lastBefore
  PROVE  SlotsOK(Append(ss, s), g, Pushed(base, ss, Len(h.blocks)))
<1> DEFINE tt == Append(ss, s)
           m == Len(ss)
           new == Pushed(base, ss, Len(h.blocks))
<1>1. /\ m \in Nat /\ Len(tt) = m + 1 /\ tt[m + 1] = s /\ Len(h.blocks) \in Nat
      /\ \A k \in 1 .. m : tt[k] = ss[k]
  BY DEF HandleState
<1>2. /\ new[m + 1] = Len(h.blocks)
      /\ \A k \in 1 .. m : new[k] = base[k] /\ base[k] \in 0 .. Len(h.blocks)
  BY <1>1 DEF Pushed, ScopesOK
<1> HIDE DEF tt, new, m
<1>3. \A k \in 1 .. m + 1 : k = m + 1 \/ k \in 1 .. m
  BY <1>1
<1>4. \A i, x : \A k \in 1 .. m : Ends(tt, g, new, k, i, x) <=> Ends(ss, h, base, k, i, x)
  <2> SUFFICES ASSUME NEW k \in 1 .. m, NEW i, NEW x
               PROVE  Ends(tt, g, new, k, i, x) <=> Ends(ss, h, base, k, i, x)
    OBVIOUS
  <2>1. CASE k = m
    BY <1>1, <1>2, <2>1 DEF Ends, m
  <2>2. CASE k < m
    <3>1. k + 1 \in 1 .. m /\ k < Len(tt)
      BY <1>1, <2>2
    <3> QED BY <1>1, <1>2, <2>2, <3>1 DEF Ends, m
  <2> QED BY <1>1, <2>1, <2>2
<1>5. OrderOK(tt, g, new)
  <2>1. \A k \in 1 .. m : base[k] = Len(h.blocks) /\ base[k] > 0 => ss[k].prevNext[2] <= h.next[2]
    BY DEF SlotsOK, OrderOK, m
  <2>2. \A j, k \in 1 .. m :
          j <= k /\ base[j] = base[k] /\ base[j] > 0 => ss[j].prevNext[2] <= ss[k].prevNext[2]
    BY DEF SlotsOK, OrderOK, m
  <2>3. Len(h.blocks) > 0 => h.next[2] <= h.next[2]
    BY <1>1, PtrAtIsPtr DEF AreaOK, HandleState
  <2>4. ASSUME NEW j \in 1 .. m + 1, NEW k \in 1 .. m + 1, j <= k, new[j] = new[k], new[j] > 0
        PROVE  tt[j].prevNext[2] <= tt[k].prevNext[2]
    <3>1. CASE k \in 1 .. m
      <4>1. j \in 1 .. m
        BY <1>1, <2>4, <3>1
      <4> QED BY <1>1, <1>2, <2>2, <2>4, <3>1, <4>1
    <3>2. CASE k = m + 1 /\ j = m + 1
      BY <1>1, <1>2, <2>3, <2>4, <3>2
    <3>3. CASE k = m + 1 /\ j \in 1 .. m
      BY <1>1, <1>2, <2>1, <2>4, <3>3
    <3> QED BY <1>3, <3>1, <3>2, <3>3
  <2>5. ASSUME NEW k \in 1 .. m + 1, new[k] = Len(g.blocks), new[k] > 0
        PROVE  tt[k].prevNext[2] <= g.next[2]
    <3>1. CASE k \in 1 .. m
      BY <1>1, <1>2, <2>1, <2>5, <3>1
    <3>2. CASE k = m + 1
      BY <1>1, <1>2, <2>3, <2>5, <3>2
    <3> QED BY <1>3, <3>1, <3>2
  <2> QED BY <1>1, <2>4, <2>5 DEF OrderOK
<1>6. GapOK(tt, g, new)
  BY <1>1, <1>2, <1>3 DEF SlotsOK, GapOK, m
<1>7. OwnOK(tt, g, new)
  <2>1. \A k \in 1 .. m + 1 : \A p \in tt[k].handles :
          \E i \in 1 .. Len(g.blocks), x \in Offset : p = <<g.blocks[i], x>>
    BY <1>1, <1>3 DEF SlotsOK, OwnOK, m
  <2>2. ASSUME NEW k \in 1 .. m, NEW i \in 1 .. Len(g.blocks), NEW x \in Offset
        PROVE  <<g.blocks[i], x>> \in tt[k].handles <=>
                 Begins(tt[k], new[k], i, x) /\ ~Ends(tt, g, new, k, i, x)
    BY <1>1, <1>2, <1>4 DEF SlotsOK, OwnOK, m
  <2>3. ASSUME NEW i \in 1 .. Len(g.blocks), NEW x \in Offset
        PROVE  ~(Begins(s, new[m + 1], i, x) /\ ~Ends(tt, g, new, m + 1, i, x))
    BY <1>1, <1>2 DEF Begins, Ends
  <2> QED BY <1>1, <1>3, <2>1, <2>2, <2>3 DEF OwnOK
<1> QED BY <1>5, <1>6, <1>7 DEF SlotsOK, tt, new

\* A deferred scope begins in a new block.
LEMMA SlotsPushDeferred ==
  ASSUME NEW h \in HandleState, NEW ss \in Seq(ScopeRecord), NEW base,
         ScopesOK(ss, h.blocks, base), SlotsOK(ss, h, base), AreaOK(h),
         h.blocks # <<>>, h.lastBefore = NoPtr,
         NEW s \in ScopeRecord, s.kind = "deferred", s.prevNext = h.next, s.handles = {},
         NEW b \in Block, \A i \in 1 .. Len(h.blocks) : h.blocks[i] # b,
         NEW g, g.next = <<b, 0>>, g.blocks = Append(h.blocks, b), g.lastBefore = h.next
  PROVE  SlotsOK(Append(ss, s), g, Pushed(base, ss, Len(h.blocks)))
<1> DEFINE tt == Append(ss, s)
           m == Len(ss)
           n == Len(h.blocks)
           new == Pushed(base, ss, n)
<1>1. /\ m \in Nat /\ Len(tt) = m + 1 /\ tt[m + 1] = s /\ n \in Nat /\ n > 0
      /\ \A k \in 1 .. m : tt[k] = ss[k]
      /\ Len(g.blocks) = n + 1 /\ g.blocks[n + 1] = b
      /\ \A i \in 1 .. n : g.blocks[i] = h.blocks[i]
  BY DEF HandleState
<1>2. /\ new[m + 1] = n
      /\ \A k \in 1 .. m : new[k] = base[k] /\ base[k] \in 0 .. n
  BY <1>1 DEF Pushed, ScopesOK
<1> HIDE DEF tt, new, m, n
<1>3. /\ \A k \in 1 .. m + 1 : k = m + 1 \/ k \in 1 .. m
      /\ \A i \in 1 .. n + 1 : i = n + 1 \/ i \in 1 .. n
  BY <1>1
<1>4. \A k \in 1 .. m : ss[k].kind # "deferred"
  BY <1>1, PtrAtIsPtr DEF SlotsOK, GapOK, m, ScopesOK, HandleState, n
<1>5. OrderOK(tt, g, new)
  <2>1. \A k \in 1 .. m : base[k] = n /\ base[k] > 0 => ss[k].prevNext[2] <= h.next[2]
    BY DEF SlotsOK, OrderOK, m, n
  <2>2. \A j, k \in 1 .. m :
          j <= k /\ base[j] = base[k] /\ base[j] > 0 => ss[j].prevNext[2] <= ss[k].prevNext[2]
    BY DEF SlotsOK, OrderOK, m
  <2>3. h.next[2] <= h.next[2]
    BY <1>1, PtrAtIsPtr DEF AreaOK, HandleState, n
  <2>4. ASSUME NEW j \in 1 .. m + 1, NEW k \in 1 .. m + 1, j <= k, new[j] = new[k], new[j] > 0
        PROVE  tt[j].prevNext[2] <= tt[k].prevNext[2]
    <3>1. CASE k \in 1 .. m
      <4>1. j \in 1 .. m
        BY <1>1, <2>4, <3>1
      <4> QED BY <1>1, <1>2, <2>2, <2>4, <3>1, <4>1
    <3>2. CASE k = m + 1 /\ j = m + 1
      BY <1>1, <1>2, <2>3, <2>4, <3>2
    <3>3. CASE k = m + 1 /\ j \in 1 .. m
      BY <1>1, <1>2, <2>1, <2>4, <3>3
    <3> QED BY <1>3, <3>1, <3>2, <3>3
  <2>5. ASSUME NEW k \in 1 .. m + 1 PROVE new[k] # n + 1
    <3>1. CASE k \in 1 .. m
      BY <1>1, <1>2, <3>1
    <3>2. CASE k = m + 1
      BY <1>1, <1>2, <3>2
    <3> QED BY <1>3, <3>1, <3>2
  <2> QED BY <1>1, <2>4, <2>5 DEF OrderOK
<1>6. GapOK(tt, g, new)
  <2>1. \A k \in 1 .. m + 1 : tt[k].kind = "deferred" <=> k = m + 1
    BY <1>1, <1>3, <1>4
  <2>2. m + 1 \in 1 .. m + 1 /\ g.lastBefore = s.prevNext /\ new[m + 1] > 0
    BY <1>1, <1>2
  <2> QED BY <1>1, <2>1, <2>2 DEF GapOK
<1>7. ASSUME NEW k \in 1 .. m, NEW i \in 1 .. n, NEW x
      PROVE  Ends(tt, g, new, k, i, x) <=> Ends(ss, h, base, k, i, x)
  <2>1. CASE k = m
    BY <1>1, <1>2, <2>1 DEF Ends, m, n
  <2>2. CASE k < m
    <3>1. k + 1 \in 1 .. m /\ k < Len(tt)
      BY <1>1, <2>2
    <3> QED BY <1>1, <1>2, <2>2, <3>1 DEF Ends, m
  <2> QED BY <1>1, <2>1, <2>2
<1>8. ASSUME NEW k \in 1 .. m, NEW x PROVE Ends(tt, g, new, k, n + 1, x)
  <2>1. k + 1 \in 1 .. m + 1 /\ k < Len(tt) /\ new[k + 1] < n + 1
    BY <1>1, <1>2, <1>3
  <2> QED BY <2>1 DEF Ends, Reached
<1>9. ASSUME NEW k \in 1 .. m, NEW x PROVE <<b, x>> \notin ss[k].handles
  BY DEF SlotsOK, OwnOK, m
<1>10. ASSUME NEW i \in 1 .. n + 1, NEW x \in Offset
       PROVE  ~(Begins(s, n, i, x) /\ ~Ends(tt, g, new, m + 1, i, x))
  <2>1. Ends(tt, g, new, m + 1, i, x) <=> n + 1 < i \/ (n + 1 = i /\ 0 <= x)
    BY <1>1 DEF Ends, Reached
  <2>2. Begins(s, n, i, x) <=> n < i
    BY DEF Begins
  <2> QED BY <1>1, <2>1, <2>2 DEF Offset
<1>11. OwnOK(tt, g, new)
  <2>1. \A k \in 1 .. m + 1 : \A p \in tt[k].handles :
          \E i \in 1 .. Len(g.blocks), x \in Offset : p = <<g.blocks[i], x>>
    <3>1. \A k \in 1 .. m : \A p \in ss[k].handles : \E i \in 1 .. n, x \in Offset : p = <<h.blocks[i], x>>
      BY DEF SlotsOK, OwnOK, m, n
    <3>2. \A i \in 1 .. n : i \in 1 .. n + 1
      BY <1>1
    <3> QED BY <1>1, <1>3, <3>1, <3>2
  <2>2. ASSUME NEW k \in 1 .. m, NEW i \in 1 .. n, NEW x \in Offset
        PROVE  <<g.blocks[i], x>> \in tt[k].handles <=>
                 Begins(tt[k], new[k], i, x) /\ ~Ends(tt, g, new, k, i, x)
    BY <1>1, <1>2, <1>7 DEF SlotsOK, OwnOK, m, n
  <2>3. ASSUME NEW k \in 1 .. m, NEW x \in Offset
        PROVE  <<g.blocks[n + 1], x>> \in tt[k].handles <=>
                 Begins(tt[k], new[k], n + 1, x) /\ ~Ends(tt, g, new, k, n + 1, x)
    BY <1>1, <1>8, <1>9
  <2>4. ASSUME NEW k \in 1 .. m + 1, NEW i \in 1 .. n + 1, NEW x \in Offset
        PROVE  <<g.blocks[i], x>> \in tt[k].handles <=>
                 Begins(tt[k], new[k], i, x) /\ ~Ends(tt, g, new, k, i, x)
    <3>1. CASE k \in 1 .. m /\ i \in 1 .. n
      BY <1>1, <2>2, <3>1
    <3>2. CASE k \in 1 .. m /\ i = n + 1
      BY <2>3, <3>2
    <3>3. CASE k = m + 1
      BY <1>1, <1>2, <1>10, <3>3
    <3> QED BY <1>3, <3>1, <3>2, <3>3
  <2> QED BY <1>1, <2>1, <2>4 DEF OwnOK
<1> QED BY <1>5, <1>6, <1>11 DEF SlotsOK, tt, new, n

\* The slots are a matter of blocks, next and the gap.
LEMMA SameSlots ==
  ASSUME NEW ss, NEW h, NEW base, SlotsOK(ss, h, base),
         NEW g, g.next = h.next, g.blocks = h.blocks, g.lastBefore = h.lastBefore
  PROVE  SlotsOK(ss, g, base)
<1>1. OrderOK(ss, g, base)
  BY DEF SlotsOK, OrderOK
<1>2. GapOK(ss, g, base)
  BY DEF SlotsOK, GapOK
<1>3. \A k, i, x : Ends(ss, g, base, k, i, x) <=> Ends(ss, h, base, k, i, x)
  BY DEF Ends
<1>4. OwnOK(ss, g, base)
  BY <1>3 DEF SlotsOK, OwnOK
<1> QED
  BY <1>1, <1>2, <1>4 DEF SlotsOK

\* The innermost scope goes with what is above its base.
LEMMA SlotsPop ==
  ASSUME NEW h \in HandleState, NEW ss \in Seq(ScopeRecord), NEW base,
         ScopesOK(ss, h.blocks, base), SlotsOK(ss, h, base), Len(ss) > 0,
         NEW g, g.next = ss[Len(ss)].prevNext, g.blocks = SubSeq(h.blocks, 1, base[Len(ss)]),
         g.lastBefore = IF ss[Len(ss)].kind = "deferred" THEN NoPtr ELSE h.lastBefore
  PROVE  SlotsOK(SubSeq(ss, 1, Len(ss) - 1), g, [k \in 1 .. Len(ss) - 1 |-> base[k]])
<1> DEFINE top == Len(ss)
           m == top - 1
           tt == SubSeq(ss, 1, m)
           n == base[top]
           new == [k \in 1 .. m |-> base[k]]
<1> HIDE DEF tt, new
<1>1. /\ top \in Nat /\ top > 0 /\ top \in 1 .. top /\ m \in 0 .. top /\ m \in Nat
      /\ n \in 0 .. Len(h.blocks) /\ Len(h.blocks) \in Nat /\ h.blocks \in Seq(Block)
      /\ \A k \in 1 .. top : base[k] \in 0 .. Len(h.blocks)
      /\ \A j, k \in 1 .. top : j <= k => base[j] <= base[k]
  <2>1. top \in Nat /\ top > 0 /\ h.blocks \in Seq(Block)
    BY DEF HandleState
  <2>2. base \in [1 .. top -> 0 .. Len(h.blocks)] /\ \A j, k \in 1 .. top : j <= k => base[j] <= base[k]
    BY DEF ScopesOK
  <2> HIDE DEF top
  <2> QED BY <2>1, <2>2
<1> HIDE DEF m
<1>2. /\ Len(tt) = m /\ \A k \in 1 .. m : tt[k] = ss[k] /\ new[k] = base[k] /\ k \in 1 .. top
  <2>1. Len(tt) = m /\ \A k \in 1 .. m : tt[k] = ss[k]
    BY <1>1, Prefix DEF tt
  <2>2. \A k \in 1 .. m : k \in 1 .. top
    <3> HIDE DEF top
    <3> QED BY <1>1
  <2>3. \A k \in 1 .. m : new[k] = base[k]
    BY DEF new
  <2> QED BY <2>1, <2>2, <2>3
<1> HIDE DEF n, top
<1>3. Len(g.blocks) = n /\ \A i \in 1 .. n : g.blocks[i] = h.blocks[i] /\ i \in 1 .. Len(h.blocks)
  BY <1>1, Prefix DEF n, top
<1>4. ASSUME NEW k \in 1 .. m, NEW i, NEW x
      PROVE  Ends(tt, g, new, k, i, x) <=> Ends(ss, h, base, k, i, x)
  <2>1. k < top /\ k + 1 \in 1 .. top
    BY <1>1 DEF m
  <2>2. CASE k = m
    <3>1. k + 1 = top /\ ~(k < Len(tt))
      BY <1>1, <1>2, <2>2 DEF m
    <3> QED BY <1>3, <2>1, <3>1 DEF Ends, n, top
  <2>3. CASE k < m
    <3>1. k + 1 \in 1 .. m
      BY <1>1, <2>3
    <3> QED BY <1>2, <2>1, <2>3, <3>1 DEF Ends, top
  <2> QED BY <1>1, <2>2, <2>3
<1>5. OrderOK(tt, g, new)
  <2>1. \A j, k \in 1 .. top :
          j <= k /\ base[j] = base[k] /\ base[j] > 0 => ss[j].prevNext[2] <= ss[k].prevNext[2]
    BY DEF SlotsOK, OrderOK, top
  <2>2. g.next[2] = ss[top].prevNext[2] /\ n = base[top] /\ \A k \in 1 .. m : k <= top
    BY <1>1 DEF top, n, m
  <2>3. \A j, k \in 1 .. m :
          j <= k /\ new[j] = new[k] /\ new[j] > 0 => tt[j].prevNext[2] <= tt[k].prevNext[2]
    BY <1>2, <2>1
  <2>4. ASSUME NEW k \in 1 .. m, base[k] = n, base[k] > 0
        PROVE  ss[k].prevNext[2] <= ss[top].prevNext[2]
    BY <1>1, <1>2, <2>1, <2>2, <2>4
  <2> QED BY <1>2, <1>3, <2>2, <2>3, <2>4 DEF OrderOK
<1>6. GapOK(tt, g, new)
  <2>1. /\ \A k \in 1 .. top : ss[k].kind = "deferred" => base[k] > 0 /\ h.lastBefore = ss[k].prevNext
        /\ \A j, k \in 1 .. top : ss[j].kind = "deferred" /\ ss[k].kind = "deferred" => j = k
        /\ h.lastBefore # NoPtr => \E k \in 1 .. top : ss[k].kind = "deferred"
    BY DEF SlotsOK, GapOK, top
  <2>2. g.lastBefore = IF ss[top].kind = "deferred" THEN NoPtr ELSE h.lastBefore
    BY DEF top
  <2>3. \A k \in 1 .. m : k # top
    BY <1>1 DEF m
  <2>4. \A k \in 1 .. top : k = top \/ k \in 1 .. m
    BY <1>1 DEF m
  <2> QED BY <1>1, <1>2, <2>1, <2>2, <2>3, <2>4 DEF GapOK
<1>7. OwnOK(tt, g, new)
  <2>1. /\ \A k \in 1 .. top : \A p \in ss[k].handles :
             \E i \in 1 .. Len(h.blocks), x \in Offset : p = <<h.blocks[i], x>>
        /\ \A k \in 1 .. top, i \in 1 .. Len(h.blocks), x \in Offset :
             <<h.blocks[i], x>> \in ss[k].handles <=>
               Begins(ss[k], base[k], i, x) /\ ~Ends(ss, h, base, k, i, x)
    BY DEF SlotsOK, OwnOK, top
  <2>2. ASSUME NEW k \in 1 .. m, NEW i \in 1 .. Len(h.blocks), NEW x \in Offset,
               <<h.blocks[i], x>> \in ss[k].handles
        PROVE  i \in 1 .. n
    <3>1. ~Ends(ss, h, base, k, i, x)
      BY <1>2, <2>1, <2>2
    <3>2. k < top /\ k + 1 \in 1 .. top /\ k + 1 <= top
      BY <1>1 DEF m
    <3>3. ~(base[k + 1] < i)
      BY <3>1, <3>2 DEF Ends, Reached, top
    <3> QED BY <1>1, <3>2, <3>3 DEF n
  <2>3. \A k \in 1 .. m : \A p \in tt[k].handles : \E i \in 1 .. n, x \in Offset : p = <<g.blocks[i], x>>
    <3> SUFFICES ASSUME NEW k \in 1 .. m, NEW p \in tt[k].handles
                 PROVE  \E i \in 1 .. n, x \in Offset : p = <<g.blocks[i], x>>
      OBVIOUS
    <3>0. p \in ss[k].handles
      BY <1>2
    <3>1. PICK i \in 1 .. Len(h.blocks), x \in Offset : p = <<h.blocks[i], x>>
      BY <1>2, <2>1, <3>0
    <3>2. i \in 1 .. n
      BY <2>2, <3>0, <3>1
    <3> QED BY <1>3, <3>1, <3>2
  <2>4. ASSUME NEW k \in 1 .. m, NEW i \in 1 .. n, NEW x \in Offset
        PROVE  <<g.blocks[i], x>> \in tt[k].handles <=>
                 Begins(tt[k], new[k], i, x) /\ ~Ends(tt, g, new, k, i, x)
    <3>1. tt[k] = ss[k] /\ new[k] = base[k] /\ k \in 1 .. top
      BY <1>2
    <3>2. g.blocks[i] = h.blocks[i] /\ i \in 1 .. Len(h.blocks)
      BY <1>3
    <3> QED BY <1>4, <2>1, <3>1, <3>2
  <2> QED BY <1>2, <1>3, <2>3, <2>4 DEF OwnOK
<1> QED BY <1>5, <1>6, <1>7 DEF SlotsOK, tt, new, m, top

\* Where a new handle goes: to next, or to the start of a new block if the
\* last one is full.
LEMMA RoomNext ==
  ASSUME TypeOK, NEW h \in HandleState, AreaOK(h), NEW r \in WithRoom(h), NEW g, g = Bump(r)
  PROVE  \/ /\ Len(h.blocks) > 0 /\ g.blocks = h.blocks
            /\ h.next[2] \in Offset /\ r.next = <<h.blocks[Len(h.blocks)], h.next[2]>>
            /\ g.next = <<h.blocks[Len(h.blocks)], h.next[2] + 1>>
         \/ /\ Len(h.blocks) > 0 => h.next[2] = kHandleBlockSize
            /\ \E b \in Block : /\ \A i \in 1 .. Len(h.blocks) : h.blocks[i] # b
                                /\ g.blocks = Append(h.blocks, b)
                                /\ r.next = <<b, 0>> /\ g.next = <<b, 1>>
<1> DEFINE n == Len(h.blocks)
<1>1. h.blocks \in Seq(Block) /\ n \in Nat /\ PtrAt(h.next, h.blocks, n) /\ LimitAt(h.limit, h.blocks, n)
  BY DEF AreaOK, HandleState
<1>2. n > 0 => /\ h.next = <<h.blocks[n], h.next[2]>> /\ h.next[2] \in 0 .. kHandleBlockSize
               /\ h.limit = <<h.blocks[n], kHandleBlockSize>>
  <2> HIDE DEF n
  <2>1. ASSUME n > 0
        PROVE  h.next[1] = h.blocks[n] /\ h.next[2] \in 0 .. kHandleBlockSize /\ h.next = <<h.next[1], h.next[2]>>
    <3>1. n \in 0 .. Len(h.blocks)
      BY <1>1 DEF n
    <3> QED BY <1>1, <2>1, <3>1, PtrAtIsPtr
  <2>2. ASSUME n > 0 PROVE h.limit = <<h.blocks[n], kHandleBlockSize>>
    BY <1>1, <2>2 DEF LimitAt, EndOf
  <2> QED BY <2>1, <2>2
<1>3. g.next = <<r.next[1], r.next[2] + 1>> /\ g.blocks = r.blocks
  <2>1. r \in HandleState
    BY RoomArea
  <2> QED BY <2>1 DEF Bump, HandleState
<1>4. CASE h.next # h.limit
  <2>1. r = h
    BY <1>4 DEF WithRoom
  <2>2. n > 0
    BY <1>1, <1>4 DEF PtrAt, LimitAt
  <2>3. h.next[2] \in Offset
    BY <1>2, <1>4, <2>2, SizeAssumption DEF Offset
  <2> HIDE DEF n
  <2>4. h.next[1] = h.blocks[n]
    BY <1>2, <2>2
  <2> QED BY <1>2, <1>3, <2>1, <2>2, <2>3, <2>4 DEF n
<1>5. CASE h.next = h.limit
  <2>1. PICK b \in SpareOrNewBlock(h) : r = PushBlock(h, b)
    BY <1>5, FullExtends
  <2>2. /\ r \in HandleState /\ AreaOK(r) /\ b \in Block /\ r.next = <<b, 0>>
        /\ r.blocks = Append(h.blocks, b)
    BY <2>1, PushArea
  <2> HIDE DEF n
  <2>3. \A i \in 1 .. n : h.blocks[i] # b
    <3>1. /\ Len(r.blocks) = n + 1 /\ r.blocks[n + 1] = b
          /\ \A i \in 1 .. n : r.blocks[i] = h.blocks[i] /\ i \in 1 .. n + 1 /\ i # n + 1
      BY <1>1, <2>2 DEF n
    <3>2. n + 1 \in 1 .. n + 1
      BY <1>1
    <3>3. \A i, j \in 1 .. n + 1 : r.blocks[i] = r.blocks[j] => i = j
      BY <2>2, <3>1 DEF AreaOK
    <3> QED BY <3>1, <3>2, <3>3
  <2>4. n > 0 => h.next[2] = kHandleBlockSize
    BY <1>2, <1>5
  <2>5. g.next = <<b, 1>>
    <3>1. r.next[1] = b /\ r.next[2] + 1 = 1
      BY <2>2
    <3> QED BY <1>3, <3>1
  <2> QED BY <1>3, <2>2, <2>3, <2>4, <2>5 DEF n
<1> QED BY <1>4, <1>5

\* A new handle is the next slot of the innermost scope.
LEMMA SlotsGrow ==
  ASSUME TypeOK, NEW h \in HandleState, AreaOK(h), NEW ss \in Seq(ScopeRecord), NEW base,
         ScopesOK(ss, h.blocks, base), SlotsOK(ss, h, base), Len(ss) > 0,
         NEW r \in WithRoom(h)
  PROVE  SlotsOK(AddHandle(ss, r.next), Bump(r), base)
<1> DEFINE g == Bump(r)
           tt == AddHandle(ss, r.next)
           m == Len(ss)
           n == Len(h.blocks)
           e == Len(g.blocks)
<1>1. /\ r.next \in Slot /\ g.lastBefore = h.lastBefore /\ n <= e
      /\ \A i \in 1 .. n : g.blocks[i] = h.blocks[i]
  BY RoomArea
<1>2. /\ tt \in Seq(ScopeRecord) /\ Len(tt) = m
      /\ \A k \in 1 .. m : /\ tt[k].kind = ss[k].kind /\ tt[k].prevNext = ss[k].prevNext
                           /\ tt[k].handles = IF k = m THEN ss[k].handles \cup {r.next}
                                              ELSE ss[k].handles
  BY <1>1, MoreHandles
<1>3. \/ /\ n > 0 /\ e = n
         /\ h.next[2] \in Offset /\ r.next = <<h.blocks[n], h.next[2]>>
         /\ g.next = <<h.blocks[n], h.next[2] + 1>>
      \/ \E b \in Block :
         /\ n > 0 => h.next[2] = kHandleBlockSize
         /\ \A i \in 1 .. n : h.blocks[i] # b
         /\ e = n + 1 /\ g.blocks[e] = b
         /\ r.next = <<b, 0>> /\ g.next = <<b, 1>>
  <2>1. h.blocks \in Seq(Block)
    BY DEF HandleState
  <2> QED BY <2>1, RoomNext
<1>4. /\ m \in Nat /\ m > 0 /\ m \in 1 .. m /\ n \in Nat /\ e \in Nat
      /\ \A k \in 1 .. m : base[k] \in 0 .. n
  <2>1. n \in Nat
    BY DEF HandleState
  <2>2. base \in [1 .. m -> 0 .. n]
    BY DEF ScopesOK
  <2>3. e \in Nat
    BY <1>3, <2>1
  <2> HIDE DEF m, n, e
  <2>4. m \in Nat /\ m > 0
    BY DEF m
  <2> QED BY <2>1, <2>2, <2>3, <2>4
<1>5. /\ \A j, k \in 1 .. m :
           j <= k /\ base[j] = base[k] /\ base[j] > 0 => ss[j].prevNext[2] <= ss[k].prevNext[2]
      /\ \A k \in 1 .. m : base[k] = n /\ base[k] > 0 => ss[k].prevNext[2] <= h.next[2]
      /\ \A k \in 1 .. m : \A p \in ss[k].handles : \E i \in 1 .. n, x \in Offset : p = <<h.blocks[i], x>>
      /\ \A k \in 1 .. m, i \in 1 .. n, x \in Offset :
           <<h.blocks[i], x>> \in ss[k].handles <=>
             Begins(ss[k], base[k], i, x) /\ ~Ends(ss, h, base, k, i, x)
      /\ GapOK(ss, h, base)
  BY DEF SlotsOK, OrderOK, OwnOK
<1>6. \A k \in 1 .. m : base[k] > 0 => ss[k].prevNext[2] \in 0 .. kHandleBlockSize
  <2> SUFFICES ASSUME NEW k \in 1 .. m, base[k] > 0 PROVE ss[k].prevNext[2] \in 0 .. kHandleBlockSize
    OBVIOUS
  <2>1. PtrAt(ss[k].prevNext, h.blocks, base[k]) /\ h.blocks \in Seq(Block) /\ base[k] \in 0 .. Len(h.blocks)
    BY <1>4 DEF ScopesOK, HandleState
  <2> QED BY <2>1, PtrAtIsPtr
<1>7. \A k \in 1 .. m : ss[k].kind = "deferred" => base[k] < n
  BY DEF ScopesOK
<1> HIDE DEF g, tt, m, n, e
<1>8. OrderOK(tt, g, base)
  <2>1. ASSUME NEW k \in 1 .. m, base[k] = e, base[k] > 0 PROVE ss[k].prevNext[2] <= g.next[2]
    BY <1>3, <1>4, <1>5, <1>6, <2>1 DEF Offset
  <2> QED BY <1>2, <1>5, <2>1 DEF OrderOK, e
<1>9. GapOK(tt, g, base)
  BY <1>1, <1>2, <1>5 DEF GapOK, m
<1>10. ASSUME NEW k \in 1 .. m, k < m, NEW i, NEW x
       PROVE  Ends(tt, g, base, k, i, x) <=> Ends(ss, h, base, k, i, x)
  <2>1. k + 1 \in 1 .. m
    BY <1>4, <1>10
  <2> QED BY <1>2, <1>10, <2>1 DEF Ends, m
<1>11. \A i, x : \A k \in 1 .. m : Begins(tt[k], base[k], i, x) <=> Begins(ss[k], base[k], i, x)
  BY <1>2 DEF Begins
<1>12. \A i, x : /\ Ends(ss, h, base, m, i, x) <=> n < i \/ (n = i /\ h.next[2] <= x)
                 /\ Ends(tt, g, base, m, i, x) <=> e < i \/ (e = i /\ g.next[2] <= x)
  BY <1>2, <1>4 DEF Ends, Reached, m, n, e
<1>13. CASE e = n
  <2>1. /\ n > 0 /\ h.next[2] \in Offset /\ r.next = <<h.blocks[n], h.next[2]>>
        /\ g.next[2] = h.next[2] + 1 /\ n \in 1 .. n
    BY <1>3, <1>4, <1>13
  <2>2. \A k \in 1 .. m : \A p \in tt[k].handles : \E i \in 1 .. e, x \in Offset : p = <<g.blocks[i], x>>
    <3> SUFFICES ASSUME NEW k \in 1 .. m, NEW p \in tt[k].handles
                 PROVE  \E i \in 1 .. e, x \in Offset : p = <<g.blocks[i], x>>
      OBVIOUS
    <3>1. CASE p = r.next
      <4>1. p = <<g.blocks[n], h.next[2]>> /\ n \in 1 .. e /\ h.next[2] \in Offset
        BY <1>1, <1>13, <2>1, <3>1
      <4> QED BY <4>1
    <3>2. CASE p \in ss[k].handles
      BY <1>1, <1>5, <1>13, <3>2
    <3> QED BY <1>2, <3>1, <3>2
  <2>3. ASSUME NEW i \in 1 .. n, NEW x \in Offset
        PROVE  <<h.blocks[i], x>> = r.next <=> i = n /\ x = h.next[2]
    BY <1>4, <2>1 DEF AreaOK, n
  <2>4. Begins(ss[m], base[m], n, h.next[2])
    <3>1. base[m] \in 0 .. n /\ m \in 1 .. m
      BY <1>4
    <3>2. ss[m].kind = "deferred" => base[m] < n
      BY <1>7, <3>1
    <3>3. base[m] < n \/ (base[m] = n /\ ss[m].prevNext[2] <= h.next[2])
      <4>1. base[m] = n => ss[m].prevNext[2] <= h.next[2]
        BY <1>4, <1>5, <2>1
      <4> QED BY <1>4, <3>1, <4>1
    <3> QED BY <3>2, <3>3 DEF Begins, Reached
  <2>5. ASSUME NEW k \in 1 .. m, NEW i \in 1 .. n, NEW x \in Offset
        PROVE  <<h.blocks[i], x>> \in tt[k].handles <=>
                 Begins(tt[k], base[k], i, x) /\ ~Ends(tt, g, base, k, i, x)
    <3>1. CASE k < m
      <4>1. tt[k].handles = ss[k].handles
        <5>1. k # m
          BY <1>4, <3>1
        <5> QED BY <1>2, <5>1
      <4>2. <<h.blocks[i], x>> \in ss[k].handles <=>
              Begins(ss[k], base[k], i, x) /\ ~Ends(ss, h, base, k, i, x)
        BY <1>5
      <4> QED BY <1>10, <1>11, <3>1, <4>1, <4>2
    <3>2. CASE k = m
      <4>1. <<h.blocks[i], x>> \in tt[m].handles <=>
              (Begins(ss[m], base[m], i, x) /\ ~(n = i /\ h.next[2] <= x)) \/ (i = n /\ x = h.next[2])
        <5>1. <<h.blocks[i], x>> \in tt[m].handles <=> <<h.blocks[i], x>> \in ss[m].handles \/ (i = n /\ x = h.next[2])
          BY <1>2, <1>4, <2>3
        <5>2. <<h.blocks[i], x>> \in ss[m].handles <=>
                Begins(ss[m], base[m], i, x) /\ ~Ends(ss, h, base, m, i, x)
          BY <1>4, <1>5
        <5>3. Ends(ss, h, base, m, i, x) <=> n = i /\ h.next[2] <= x
          <6>1. ~(n < i)
            BY <1>4
          <6> QED BY <1>12, <6>1
        <5> QED BY <5>1, <5>2, <5>3
      <4>2. Ends(tt, g, base, m, i, x) <=> n = i /\ h.next[2] + 1 <= x
        <5>1. ~(n < i)
          BY <1>4
        <5> QED BY <1>12, <1>13, <2>1, <5>1
      <4>3. Begins(tt[m], base[m], i, x) <=> Begins(ss[m], base[m], i, x)
        BY <1>4, <1>11
      <4>4. x \in Nat /\ h.next[2] \in Nat
        BY <2>1, SizeAssumption DEF Offset
      <4>5. CASE i = n /\ x = h.next[2]
        <5>1. Begins(ss[m], base[m], i, x)
          BY <2>4, <4>5
        <5> QED BY <3>2, <4>1, <4>2, <4>3, <4>4, <4>5, <5>1
      <4>6. CASE ~(i = n /\ x = h.next[2])
        <5>1. n = i => (h.next[2] <= x <=> h.next[2] + 1 <= x)
          BY <4>4, <4>6
        <5> QED BY <3>2, <4>1, <4>2, <4>3, <4>6, <5>1
      <4> QED BY <4>5, <4>6
    <3> QED BY <1>4, <3>1, <3>2
  <2>6. OwnOK(tt, g, base)
    BY <1>1, <1>2, <1>13, <2>2, <2>5 DEF OwnOK, e
  <2> QED BY <1>8, <1>9, <2>6 DEF SlotsOK, g, tt
<1>14. CASE e # n
  <2>1. PICK b \in Block :
         /\ n > 0 => h.next[2] = kHandleBlockSize
         /\ \A i \in 1 .. n : h.blocks[i] # b
         /\ e = n + 1 /\ g.blocks[e] = b
         /\ r.next = <<b, 0>> /\ g.next = <<b, 1>>
    BY <1>3, <1>14
  <2>2. /\ 0 \in Offset /\ n + 1 \in 1 .. e
        /\ \A i \in 1 .. e : i = n + 1 \/ i \in 1 .. n
        /\ \A i \in 1 .. n : i \in 1 .. e
    BY <1>4, <2>1, SizeAssumption DEF Offset
  <2>3. \A k \in 1 .. m : \A p \in tt[k].handles : \E i \in 1 .. e, x \in Offset : p = <<g.blocks[i], x>>
    <3> SUFFICES ASSUME NEW k \in 1 .. m, NEW p \in tt[k].handles
                 PROVE  \E i \in 1 .. e, x \in Offset : p = <<g.blocks[i], x>>
      OBVIOUS
    <3>1. CASE p = r.next
      BY <2>1, <2>2, <3>1
    <3>2. CASE p \in ss[k].handles
      BY <1>1, <1>5, <2>2, <3>2
    <3> QED BY <1>2, <3>1, <3>2
  <2>4. ASSUME NEW k \in 1 .. m, NEW i \in 1 .. e, NEW x \in Offset
        PROVE  <<g.blocks[i], x>> \in tt[k].handles <=>
                 Begins(tt[k], base[k], i, x) /\ ~Ends(tt, g, base, k, i, x)
    <3>1. CASE i \in 1 .. n
      <4>1. <<g.blocks[i], x>> \in tt[k].handles <=> <<h.blocks[i], x>> \in ss[k].handles
        <5>1. g.blocks[i] = h.blocks[i] /\ h.blocks[i] # b
          BY <1>1, <2>1, <3>1
        <5>2. <<h.blocks[i], x>> # r.next
          BY <2>1, <5>1
        <5> QED BY <1>2, <5>1, <5>2
      <4>2. Ends(tt, g, base, k, i, x) <=> Ends(ss, h, base, k, i, x)
        <5>1. CASE k < m
          BY <1>10, <5>1
        <5>2. CASE k = m
          <6>1. ~Ends(tt, g, base, m, i, x)
            BY <1>4, <1>12, <2>1, <3>1
          <6>2. ~Ends(ss, h, base, m, i, x)
            BY <1>4, <1>12, <2>1, <3>1, SizeAssumption DEF Offset
          <6> QED BY <5>2, <6>1, <6>2
        <5> QED BY <1>4, <5>1, <5>2
      <4> QED BY <1>5, <1>11, <3>1, <4>1, <4>2
    <3>2. CASE i = n + 1
      <4>1. \A y : <<b, y>> \notin ss[k].handles
        BY <1>5, <2>1
      <4>2. <<g.blocks[i], x>> \in tt[k].handles <=> k = m /\ x = 0
        <5>1. <<g.blocks[i], x>> = <<b, x>> /\ (<<b, x>> = r.next <=> x = 0)
          BY <2>1, <3>2
        <5> QED BY <1>2, <4>1, <5>1
      <4>3. CASE k < m
        <5>1. k + 1 \in 1 .. m
          BY <1>4, <4>3
        <5>2. Ends(ss, h, base, k, i, x)
          BY <1>4, <3>2, <4>3, <5>1 DEF Ends, Reached, m
        <5> QED BY <1>4, <1>10, <4>2, <4>3, <5>2
      <4>4. CASE k = m
        <5>1. Begins(ss[m], base[m], i, x)
          BY <1>4, <3>2 DEF Begins, Reached
        <5>2. Ends(tt, g, base, m, i, x) <=> 1 <= x
          BY <1>4, <1>12, <2>1, <3>2
        <5>3. x = 0 <=> ~(1 <= x)
          BY SizeAssumption DEF Offset
        <5>4. Begins(tt[m], base[m], i, x) <=> Begins(ss[m], base[m], i, x)
          BY <1>4, <1>11
        <5> QED BY <4>2, <4>4, <5>1, <5>2, <5>3, <5>4
      <4> QED BY <1>4, <4>3, <4>4
    <3> QED BY <2>2, <3>1, <3>2
  <2>5. OwnOK(tt, g, base)
    BY <1>2, <2>3, <2>4 DEF OwnOK, e
  <2> QED BY <1>8, <1>9, <2>5 DEF SlotsOK, g, tt
<1> QED BY <1>13, <1>14

----------------------------------------------------------------------------
(* Closing the innermost scope, before anything is put in its place. *)
LEMMA CloseTop ==
  ASSUME TypeOK, NEW base, Shape(base), scopes # <<>>, Top.kind = "scope",
         NEW g \in Leave(hs, Top)
  PROVE  /\ g \in HandleState
         /\ AreaOK(g)
         /\ g.level = Len(scopes) - 1
         /\ Popped \in Seq(ScopeRecord)
         /\ Len(Popped) = Len(scopes) - 1
         /\ \A k \in 1 .. Len(scopes) - 1 : Popped[k] = scopes[k]
         /\ ScopesOK(Popped, g.blocks, [k \in 1 .. Len(scopes) - 1 |-> base[k]])
         /\ SlotsOK(Popped, g, [k \in 1 .. Len(scopes) - 1 |-> base[k]])
<1> DEFINE top == Len(scopes)
           n == base[top]
<1>1. /\ scopes \in Seq(ScopeRecord) /\ top \in Nat /\ top > 0
      /\ hs \in HandleState /\ hs.level = top /\ AreaOK(hs)
      /\ ScopesOK(scopes, hs.blocks, base)
      /\ hs.blocks \in Seq(Block)
  BY DEF TypeOK, Shape, HandleState
<1>2. Top = scopes[top] /\ Top \in ScopeRecord
  BY <1>1 DEF Top, LastOf
<1>3. /\ n \in 0 .. Len(hs.blocks)
      /\ LimitAt(Top.prevLimit, hs.blocks, n)
      /\ PtrAt(Top.prevNext, hs.blocks, n)
  BY <1>1, <1>2 DEF ScopesOK
<1> HIDE DEF n
<1>4. g \in HandleState /\ AreaOK(g)
  BY <1>1, <1>2, <1>3, LeaveArea
<1>5. Cut(hs, Top, n, g)
  BY <1>1, <1>2, <1>3, LeaveIsCut
<1>6. ScopesOK(Popped, g.blocks, [k \in 1 .. Len(scopes) - 1 |-> base[k]])
  BY <1>1, <1>5, ScopesPop DEF Cut, Popped, n
<1>7. /\ Popped \in Seq(ScopeRecord)
      /\ Len(Popped) = Len(scopes) - 1
      /\ \A k \in 1 .. Len(scopes) - 1 : Popped[k] = scopes[k]
  <2>1. Len(scopes) - 1 \in 0 .. Len(scopes)
    BY <1>1
  <2> QED
    BY <1>1, <2>1, Prefix DEF Popped
<1>8. SlotsOK(Popped, g, [k \in 1 .. Len(scopes) - 1 |-> base[k]])
  <2>1. g.next = scopes[top].prevNext /\ g.blocks = SubSeq(hs.blocks, 1, base[top])
    BY <1>2, <1>5 DEF Cut, n
  <2>2. g.lastBefore = IF scopes[top].kind = "deferred" THEN NoPtr ELSE hs.lastBefore
    BY <1>2, <1>5 DEF Cut
  <2>3. SlotsOK(scopes, hs, base)
    BY DEF Shape
  <2> QED BY <1>1, <2>1, <2>2, <2>3, SlotsPop DEF Popped
<1> QED
  BY <1>1, <1>4, <1>5, <1>6, <1>7, <1>8 DEF Cut

(* Freed memory is memory. *)
LEMMA ReleasedType ==
  ASSUME TypeOK, NEW h, NEW g
  PROVE  Released(h, g) \in [Slot -> Object \cup {Junk}]
BY DEF TypeOK, Released

LEMMA LevelUp ==
  ASSUME NEW h \in HandleState, NEW g, g = [h EXCEPT !.level = @ + 1]
  PROVE  /\ g \in HandleState
         /\ g.next = h.next /\ g.limit = h.limit /\ g.blocks = h.blocks
         /\ g.spare = h.spare /\ g.level = h.level + 1 /\ g.lastBefore = h.lastBefore
<1>1. h = [next |-> h.next, limit |-> h.limit, level |-> h.level, blocks |-> h.blocks,
           spare |-> h.spare, lastBefore |-> h.lastBefore]
  BY DEF HandleState
<1>2. /\ g.next = h.next /\ g.limit = h.limit /\ g.blocks = h.blocks
      /\ g.spare = h.spare /\ g.level = h.level + 1 /\ g.lastBefore = h.lastBefore
      /\ g = [next |-> g.next, limit |-> g.limit, level |-> g.level, blocks |-> g.blocks,
              spare |-> g.spare, lastBefore |-> g.lastBefore]
  BY <1>1
<1> QED
  BY <1>2 DEF HandleState

----------------------------------------------------------------------------
LEMMA InitIInv == Init => IInv
<1> SUFFICES ASSUME Init PROVE IInv
  OBVIOUS
<1> DEFINE base == [k \in 1 .. 0 |-> 0]
<1>1. TypeOK
  BY DEF Init, TypeOK, HandleState, Links, Ptr
<1>2. Len(scopes) = 0 /\ Len(hs.blocks) = 0 /\ hs.level = 0
  BY DEF Init
<1>3. AreaOK(hs)
  BY <1>2 DEF Init, AreaOK, PtrAt, LimitAt
<1>4. GroupsOK
  BY DEF Init, GroupsOK
<1>5. base \in [1 .. Len(scopes) -> 0 .. Len(hs.blocks)]
  BY <1>2
<1>6. ScopesOK(scopes, hs.blocks, base)
  BY <1>2, <1>5 DEF ScopesOK
<1>7. SlotsOK(scopes, hs, base)
  BY <1>2 DEF Init, SlotsOK, OrderOK, GapOK, OwnOK
<1> QED
  BY <1>1, <1>2, <1>3, <1>4, <1>5, <1>6, <1>7 DEF IInv, Shape

(* Linking and unlinking a group, by the block it goes by. *)
LEMMA LinkType ==
  ASSUME links \in Links, NEW b \in Block, LinkDeferredHandles(b)
  PROVE  links' \in Links
<1>1. Joined(links.previous, b, links.head, b) \in [Block -> Block \cup {NoBlock}]
  BY DEF Joined, Links
<1>2. [links.next EXCEPT ![b] = links.head] \in [Block -> Block \cup {NoBlock}]
  BY DEF Links
<1> QED
  BY <1>1, <1>2 DEF LinkDeferredHandles, Links

LEMMA UnlinkType ==
  ASSUME links \in Links, NEW b \in Block, UnlinkDeferredHandles(b)
  PROVE  links' \in Links
<1> DEFINE before == links.previous[b]
           after == links.next[b]
<1>1. before \in Block \cup {NoBlock} /\ after \in Block \cup {NoBlock}
  BY DEF Links
<1>2. /\ Joined(links.next, b, before, after) \in [Block -> Block \cup {NoBlock}]
      /\ Joined(links.previous, b, after, before) \in [Block -> Block \cup {NoBlock}]
  BY <1>1 DEF Joined, Links
<1> QED
  BY <1>1, <1>2 DEF UnlinkDeferredHandles, Links

(* A new state built from an old one with the same deferred groups. *)
LEMMA Conclude ==
  ASSUME IInv, NEW base, hs' \in HandleState, scopes' \in Seq(ScopeRecord),
         mem' \in [Slot -> Object \cup {Junk}],
         AreaOK(hs'), ScopesOK(scopes', hs'.blocks, base), SlotsOK(scopes', hs', base),
         hs'.level = Len(scopes'), UNCHANGED <<deferred, links>>
  PROVE  IInv'
<1>1. TypeOK'
  BY DEF IInv, TypeOK, HandleState, ScopeRecord, Group, Links, Ptr, Slot
<1>2. AreaOK(hs)'
  BY DEF AreaOK, PtrAt, LimitAt, EndOf
<1>3. GroupsOK'
  BY DEF IInv, Shape, GroupsOK
<1>4. ScopesOK(scopes, hs.blocks, base)'
  BY DEF ScopesOK, PtrAt, LimitAt, EndOf
<1>5. base \in [1 .. Len(scopes') -> 0 .. Len(hs'.blocks)]
  BY DEF ScopesOK
<1>6. SlotsOK(scopes, hs, base)'
  BY DEF SlotsOK, OrderOK, GapOK, OwnOK, Begins, Ends, Reached, Offset
<1> QED
  BY <1>1, <1>2, <1>3, <1>4, <1>5, <1>6 DEF IInv, Shape

LEMMA OpenKeeps == IInv /\ OpenScope => IInv'
<1> SUFFICES ASSUME IInv, OpenScope PROVE IInv'
  OBVIOUS
<1>1. PICK base \in [1 .. Len(scopes) -> 0 .. Len(hs.blocks)] : Shape(base)
  BY DEF IInv
<1>2. /\ TypeOK /\ hs \in HandleState /\ scopes \in Seq(ScopeRecord)
      /\ hs.blocks \in Seq(Block) /\ hs.level = Len(scopes)
      /\ AreaOK(hs) /\ ScopesOK(scopes, hs.blocks, base)
  BY <1>1 DEF IInv, TypeOK, HandleState, Shape
<1>3. /\ hs' \in HandleState
      /\ hs'.next = hs.next /\ hs'.limit = hs.limit /\ hs'.blocks = hs.blocks
      /\ hs'.spare = hs.spare /\ hs'.level = hs.level + 1 /\ hs'.lastBefore = hs.lastBefore
  BY <1>2, LevelUp DEF OpenScope
<1>4. PICK s : s = NewScope("scope", hs)
  OBVIOUS
<1>5. /\ s \in ScopeRecord /\ s.kind = "scope"
      /\ s.prevNext = hs.next /\ s.prevLimit = hs.limit
      /\ scopes' = Append(scopes, s)
  BY <1>2, <1>4 DEF NewScope, OpenScope, ScopeRecord, HandleState
<1>6. AreaOK(hs')
  BY <1>2, <1>3, SameArea
<1>7. ScopesOK(scopes', hs'.blocks, Pushed(base, scopes, Len(hs.blocks)))
  <2>1. PtrAt(s.prevNext, hs.blocks, Len(hs.blocks)) /\ LimitAt(s.prevLimit, hs.blocks, Len(hs.blocks))
    BY <1>2, <1>5 DEF AreaOK
  <2>2. ScopesOK(Append(scopes, s), hs.blocks, Pushed(base, scopes, Len(hs.blocks)))
    BY <1>2, <1>5, <2>1, ScopesPushHere
  <2> QED
    BY <1>3, <1>5, <2>2
<1>8. scopes' \in Seq(ScopeRecord) /\ Len(scopes') = Len(scopes) + 1
  BY <1>2, <1>5
<1>9. mem' \in [Slot -> Object \cup {Junk}] /\ UNCHANGED <<deferred, links>>
  BY <1>2 DEF OpenScope, TypeOK
<1>10. SlotsOK(scopes', hs', Pushed(base, scopes, Len(hs.blocks)))
  <2>1. s.handles = {} /\ SlotsOK(scopes, hs, base)
    BY <1>1, <1>4 DEF NewScope, Shape
  <2> QED
    BY <1>2, <1>3, <1>5, <2>1, SlotsPush
<1> QED
  BY <1>2, <1>3, <1>6, <1>7, <1>8, <1>9, <1>10, Conclude

LEMMA CreateKeeps == ASSUME NEW v \in Object PROVE IInv /\ CreateHandle(v) => IInv'
<1> SUFFICES ASSUME IInv, CreateHandle(v) PROVE IInv'
  OBVIOUS
<1>1. PICK base \in [1 .. Len(scopes) -> 0 .. Len(hs.blocks)] : Shape(base)
  BY DEF IInv
<1>2. /\ TypeOK /\ hs \in HandleState /\ scopes \in Seq(ScopeRecord)
      /\ hs.blocks \in Seq(Block) /\ hs.level = Len(scopes)
      /\ AreaOK(hs) /\ ScopesOK(scopes, hs.blocks, base)
  BY <1>1 DEF IInv, TypeOK, HandleState, Shape
<1>3. PICK r \in WithRoom(hs) :
        /\ hs' = Bump(r)
        /\ scopes' = AddHandle(scopes, r.next)
        /\ mem' = [mem EXCEPT ![r.next] = v]
  BY DEF CreateHandle
<1>4. /\ r.next \in Slot /\ hs' \in HandleState /\ AreaOK(hs') /\ hs'.level = hs.level
      /\ Len(hs.blocks) <= Len(hs'.blocks)
      /\ \A i \in 1 .. Len(hs.blocks) : hs'.blocks[i] = hs.blocks[i]
  BY <1>2, <1>3, RoomArea
<1>5. Len(scopes) > 0
  BY <1>2 DEF CreateHandle
<1>6. /\ scopes' \in Seq(ScopeRecord)
      /\ Len(scopes') = Len(scopes)
      /\ \A k \in 1 .. Len(scopes) : /\ scopes'[k].kind = scopes[k].kind
                                     /\ scopes'[k].prevNext = scopes[k].prevNext
                                     /\ scopes'[k].prevLimit = scopes[k].prevLimit
  BY <1>2, <1>3, <1>4, <1>5, MoreHandles
<1>7. ScopesOK(scopes', hs'.blocks, base)
  <2>1. hs'.blocks \in Seq(Block)
    BY <1>4 DEF HandleState
  <2> QED
    BY <1>2, <1>4, <1>5, <1>6, <2>1, ScopesKeep
<1>8. mem' \in [Slot -> Object \cup {Junk}] /\ UNCHANGED <<deferred, links>>
  BY <1>2, <1>3 DEF CreateHandle, TypeOK
<1>9. SlotsOK(scopes', hs', base)
  <2>1. SlotsOK(scopes, hs, base)
    BY <1>1 DEF Shape
  <2> QED
    BY <1>2, <1>3, <1>5, <2>1, SlotsGrow
<1> QED
  BY <1>2, <1>4, <1>6, <1>7, <1>8, <1>9, Conclude

LEMMA CloseKeeps == IInv /\ CloseScope => IInv'
<1> SUFFICES ASSUME IInv, CloseScope PROVE IInv'
  OBVIOUS
<1>1. PICK base \in [1 .. Len(scopes) -> 0 .. Len(hs.blocks)] : Shape(base)
  BY DEF IInv
<1>2. TypeOK /\ scopes # <<>>
  BY DEF IInv, CloseScope
<1>3. PICK g \in Leave(hs, Top) : hs' = g /\ mem' = Released(hs, g)
  BY DEF CloseScope
<1>4. /\ scopes' = Popped
      /\ UNCHANGED <<deferred, links>>
  BY DEF CloseScope, Popped
<1>5. mem' \in [Slot -> Object \cup {Junk}]
  BY <1>2, <1>3, ReleasedType
<1> QED
  BY <1>1, <1>2, <1>3, <1>4, <1>5, CloseTop, Conclude DEF CloseScope

LEMMA EscapeKeeps == ASSUME NEW stays \in BOOLEAN PROVE IInv /\ CloseAndEscape(stays) => IInv'
<1> SUFFICES ASSUME IInv, CloseAndEscape(stays) PROVE IInv'
  OBVIOUS
<1>1. PICK base \in [1 .. Len(scopes) -> 0 .. Len(hs.blocks)] : Shape(base)
  BY DEF IInv
<1>2. /\ TypeOK /\ scopes \in Seq(ScopeRecord) /\ Len(scopes) > 1 /\ scopes # <<>>
      /\ mem \in [Slot -> Object \cup {Junk}] /\ UNCHANGED <<deferred, links>>
  BY DEF IInv, TypeOK, CloseAndEscape
<1>3a. PICK old \in Top.handles, closed \in Leave(hs, Top) : \E r \in WithRoom(closed) :
        /\ mem' = [Released(hs, r) EXCEPT ![r.next] = mem[old]]
        /\ IF stays
           THEN /\ hs' = [Bump(r) EXCEPT !.level = @ + 1]
                /\ scopes' = Append(AddHandle(Popped, r.next), NewScope("scope", Bump(r)))
           ELSE /\ hs' = Bump(r)
                /\ scopes' = AddHandle(Popped, r.next)
  BY DEF CloseAndEscape
<1>3. PICK r \in WithRoom(closed) :
        /\ mem' = [Released(hs, r) EXCEPT ![r.next] = mem[old]]
        /\ IF stays
           THEN /\ hs' = [Bump(r) EXCEPT !.level = @ + 1]
                /\ scopes' = Append(AddHandle(Popped, r.next), NewScope("scope", Bump(r)))
           ELSE /\ hs' = Bump(r)
                /\ scopes' = AddHandle(Popped, r.next)
  BY <1>3a
<1> DEFINE less == [k \in 1 .. Len(scopes) - 1 |-> base[k]]
           parent == AddHandle(Popped, r.next)
<1>4. /\ closed \in HandleState /\ AreaOK(closed) /\ closed.level = Len(Popped)
      /\ Popped \in Seq(ScopeRecord) /\ Len(Popped) > 0
      /\ ScopesOK(Popped, closed.blocks, less) /\ SlotsOK(Popped, closed, less)
  <2>1. /\ closed \in HandleState
        /\ AreaOK(closed)
        /\ closed.level = Len(scopes) - 1
        /\ Popped \in Seq(ScopeRecord)
        /\ Len(Popped) = Len(scopes) - 1
        /\ ScopesOK(Popped, closed.blocks, less)
        /\ SlotsOK(Popped, closed, less)
    BY <1>1, <1>2, <1>3a, CloseTop DEF CloseAndEscape
  <2>2. Len(scopes) - 1 > 0
    BY <1>2
  <2> QED
    BY <2>1, <2>2
<1>5. PICK g : g = Bump(r)
  OBVIOUS
<1>6. /\ r.next \in Slot /\ g \in HandleState /\ AreaOK(g) /\ g.level = Len(Popped)
      /\ Len(closed.blocks) <= Len(g.blocks)
      /\ \A i \in 1 .. Len(closed.blocks) : g.blocks[i] = closed.blocks[i]
  BY <1>2, <1>3, <1>4, <1>5, RoomArea
<1>7. /\ parent \in Seq(ScopeRecord)
      /\ Len(parent) = Len(Popped)
      /\ \A k \in 1 .. Len(Popped) : /\ parent[k].kind = Popped[k].kind
                                     /\ parent[k].prevNext = Popped[k].prevNext
                                     /\ parent[k].prevLimit = Popped[k].prevLimit
  BY <1>4, <1>6, MoreHandles
<1> HIDE DEF less, parent
<1>8. g.blocks \in Seq(Block) /\ closed.blocks \in Seq(Block)
  BY <1>4, <1>6 DEF HandleState
<1>9. ScopesOK(parent, g.blocks, less)
  BY <1>4, <1>6, <1>7, <1>8, ScopesKeep
<1>9a. SlotsOK(parent, g, less)
  BY <1>2, <1>3, <1>4, <1>5, SlotsGrow DEF parent
<1>10. mem' \in [Slot -> Object \cup {Junk}]
  <2>1. Top \in ScopeRecord
    BY <1>2 DEF Top, LastOf
  <2>2. mem[old] \in Object \cup {Junk}
    BY <1>2, <1>3, <2>1 DEF ScopeRecord
  <2> QED
    BY <1>2, <1>3, <1>6, <2>2, ReleasedType
<1>11. CASE stays
  <2>1. hs' = [g EXCEPT !.level = @ + 1]
    BY <1>3, <1>5, <1>11
  <2>2. /\ hs' \in HandleState
        /\ hs'.next = g.next /\ hs'.limit = g.limit /\ hs'.blocks = g.blocks
        /\ hs'.spare = g.spare /\ hs'.level = g.level + 1 /\ hs'.lastBefore = g.lastBefore
    BY <1>6, <2>1, LevelUp
  <2>3. AreaOK(hs')
    BY <1>6, <2>2 DEF AreaOK
  <2>4. PICK s : s = NewScope("scope", g)
    OBVIOUS
  <2>5. /\ s \in ScopeRecord /\ s.kind = "scope"
        /\ s.prevNext = g.next /\ s.prevLimit = g.limit
        /\ scopes' = Append(parent, s)
    BY <1>3, <1>5, <1>6, <1>11, <2>4 DEF NewScope, ScopeRecord, HandleState, parent
  <2>6. PtrAt(s.prevNext, g.blocks, Len(g.blocks)) /\ LimitAt(s.prevLimit, g.blocks, Len(g.blocks))
    BY <1>6, <2>5 DEF AreaOK
  <2>7. ScopesOK(scopes', hs'.blocks, Pushed(less, parent, Len(g.blocks)))
    <3>1. ScopesOK(Append(parent, s), g.blocks, Pushed(less, parent, Len(g.blocks)))
      BY <1>7, <1>8, <1>9, <2>5, <2>6, ScopesPushHere
    <3> QED
      BY <2>2, <2>5, <3>1
  <2>8. scopes' \in Seq(ScopeRecord) /\ hs'.level = Len(scopes')
    BY <1>6, <1>7, <2>2, <2>5
  <2>9. SlotsOK(scopes', hs', Pushed(less, parent, Len(g.blocks)))
    <3>1. s.handles = {}
      BY <2>4 DEF NewScope
    <3> QED
      BY <1>6, <1>7, <1>9, <1>9a, <2>2, <2>5, <3>1, SlotsPush
  <2> QED
    BY <1>2, <1>10, <2>2, <2>3, <2>7, <2>8, <2>9, Conclude
<1>12. CASE ~stays
  <2>1. hs' = g /\ scopes' = parent
    BY <1>3, <1>5, <1>12 DEF parent
  <2> QED
    BY <1>2, <1>6, <1>7, <1>9, <1>9a, <1>10, <2>1, Conclude
<1> QED
  BY <1>11, <1>12

LEMMA OpenDeferredKeeps == IInv /\ OpenDeferredScope => IInv'
<1> SUFFICES ASSUME IInv, OpenDeferredScope PROVE IInv'
  OBVIOUS
<1>1. PICK base \in [1 .. Len(scopes) -> 0 .. Len(hs.blocks)] : Shape(base)
  BY DEF IInv
<1>2. /\ TypeOK /\ hs \in HandleState /\ scopes \in Seq(ScopeRecord)
      /\ hs.blocks \in Seq(Block) /\ hs.level = Len(scopes)
      /\ AreaOK(hs) /\ ScopesOK(scopes, hs.blocks, base)
  BY <1>1 DEF IInv, TypeOK, HandleState, Shape
<1>3. PICK b \in SpareOrNewBlock(hs) :
        hs' = [PushBlock(hs, b) EXCEPT !.level = @ + 1, !.lastBefore = hs.next]
  BY DEF OpenDeferredScope
<1>4. PICK g : g = PushBlock(hs, b)
  OBVIOUS
<1>5. /\ g \in HandleState /\ AreaOK(g) /\ g.level = hs.level
      /\ g.blocks = Append(hs.blocks, b) /\ b \in Block
  BY <1>2, <1>4, PushArea
<1>6. g = [next |-> g.next, limit |-> g.limit, level |-> g.level, blocks |-> g.blocks,
           spare |-> g.spare, lastBefore |-> g.lastBefore]
  BY <1>5 DEF HandleState
<1>7. /\ hs'.next = g.next /\ hs'.limit = g.limit /\ hs'.blocks = g.blocks
      /\ hs'.spare = g.spare /\ hs'.level = g.level + 1 /\ hs'.lastBefore = hs.next
      /\ hs' = [next |-> hs'.next, limit |-> hs'.limit, level |-> hs'.level,
                blocks |-> hs'.blocks, spare |-> hs'.spare, lastBefore |-> hs'.lastBefore]
  BY <1>3, <1>4, <1>6
<1>8. hs' \in HandleState
  <2>1. hs.next \in Ptr /\ g.level + 1 \in Nat
    BY <1>2, <1>5 DEF HandleState
  <2>2. g.next \in Ptr /\ g.limit \in Ptr /\ g.blocks \in Seq(Block) /\ g.spare \in Block \cup {NoBlock}
    BY <1>5 DEF HandleState
  <2> QED
    BY <1>7, <2>1, <2>2 DEF HandleState
<1>9. AreaOK(hs')
  BY <1>5, <1>7 DEF AreaOK
<1>10. PICK s : s = NewScope("deferred", hs)
  OBVIOUS
<1>11. /\ s \in ScopeRecord /\ s.prevNext = hs.next /\ s.prevLimit = hs.limit
       /\ scopes' = Append(scopes, s)
  BY <1>2, <1>10 DEF NewScope, OpenDeferredScope, ScopeRecord, HandleState
<1>12. ScopesOK(scopes', hs'.blocks, Pushed(base, scopes, Len(hs.blocks)))
  <2>1. PtrAt(s.prevNext, hs.blocks, Len(hs.blocks)) /\ LimitAt(s.prevLimit, hs.blocks, Len(hs.blocks))
    BY <1>2, <1>11 DEF AreaOK
  <2>2. /\ g.blocks \in Seq(Block)
        /\ Len(hs.blocks) <= Len(g.blocks) /\ Len(hs.blocks) < Len(g.blocks)
        /\ \A i \in 1 .. Len(hs.blocks) : g.blocks[i] = hs.blocks[i]
    BY <1>2, <1>5
  <2>3. ScopesOK(Append(scopes, s), g.blocks, Pushed(base, scopes, Len(hs.blocks)))
    BY <1>2, <1>11, <2>1, <2>2, ScopesPush
  <2> QED
    BY <1>7, <1>11, <2>3
<1>13. scopes' \in Seq(ScopeRecord) /\ hs'.level = Len(scopes')
  BY <1>2, <1>5, <1>7, <1>11
<1>14. mem' \in [Slot -> Object \cup {Junk}] /\ UNCHANGED <<deferred, links>>
  BY <1>2 DEF OpenDeferredScope, TypeOK
<1>15. SlotsOK(scopes', hs', Pushed(base, scopes, Len(hs.blocks)))
  <2>1. /\ s.handles = {} /\ s.kind = "deferred" /\ SlotsOK(scopes, hs, base)
        /\ hs.blocks # <<>> /\ hs.lastBefore = NoPtr
    BY <1>1, <1>10 DEF NewScope, Shape, OpenDeferredScope
  <2>2. \A i \in 1 .. Len(hs.blocks) : hs.blocks[i] # b
    <3>1. /\ Len(g.blocks) = Len(hs.blocks) + 1 /\ g.blocks[Len(hs.blocks) + 1] = b
          /\ \A i \in 1 .. Len(hs.blocks) : g.blocks[i] = hs.blocks[i]
          /\ Len(hs.blocks) \in Nat
      BY <1>2, <1>5
    <3>2. \A i, j \in 1 .. Len(g.blocks) : g.blocks[i] = g.blocks[j] => i = j
      BY <1>5 DEF AreaOK
    <3> QED
      BY <3>1, <3>2
  <2>3. g.next = <<b, 0>>
    BY <1>2, <1>4, PushArea
  <2> QED
    BY <1>2, <1>5, <1>7, <1>11, <2>1, <2>2, <2>3, SlotsPushDeferred
<1> QED
  BY <1>8, <1>9, <1>12, <1>13, <1>14, <1>15, Conclude

LEMMA DetachKeeps == IInv /\ DetachDeferredScope => IInv'
<1> SUFFICES ASSUME IInv, DetachDeferredScope PROVE IInv'
  OBVIOUS
<1>1. PICK base \in [1 .. Len(scopes) -> 0 .. Len(hs.blocks)] : Shape(base)
  BY DEF IInv
<1>2. /\ TypeOK /\ hs \in HandleState /\ scopes \in Seq(ScopeRecord) /\ scopes # <<>>
      /\ hs.blocks \in Seq(Block) /\ hs.level = Len(scopes)
      /\ AreaOK(hs) /\ GroupsOK /\ ScopesOK(scopes, hs.blocks, base)
  BY <1>1 DEF IInv, TypeOK, HandleState, Shape, DetachDeferredScope
<1> DEFINE len == Len(hs.blocks)
           n == base[Len(scopes)]
<1>3. /\ Top = scopes[Len(scopes)] /\ Top \in ScopeRecord /\ Top.kind = "deferred"
      /\ Len(scopes) \in 1 .. Len(scopes)
  BY <1>2 DEF Top, LastOf, DetachDeferredScope
<1>4. /\ n \in 0 .. len /\ n < len
      /\ LimitAt(Top.prevLimit, hs.blocks, n)
      /\ PtrAt(Top.prevNext, hs.blocks, n)
  BY <1>2, <1>3 DEF ScopesOK
<1> HIDE DEF n
<1>5. Kept(hs.blocks, Top.prevLimit) = {n}
  BY <1>2, <1>4, KeptIsUnique DEF AreaOK
<1>6. PICK d : d = [blocks |-> [i \in 1 .. len - n |-> hs.blocks[len + 1 - i]],
                    firstLimit |-> hs.next, handles |-> Top.handles]
  OBVIOUS
<1>7. /\ deferred' = deferred \cup {d}
      /\ hs' = [hs EXCEPT !.blocks = SubSeq(@, 1, n), !.lastBefore = NoPtr,
                          !.next = Top.prevNext, !.limit = Top.prevLimit, !.level = @ - 1]
      /\ scopes' = Popped
      /\ mem' = mem
      /\ LinkDeferredHandles(LastOf(hs.blocks))
  BY <1>5, <1>6 DEF DetachDeferredScope
<1>8. /\ Len(d.blocks) = len - n /\ Len(d.blocks) > 0
      /\ \A i \in 1 .. Len(d.blocks) : d.blocks[i] = hs.blocks[len + 1 - i]
      /\ d \in Group
  <2>1. \A i \in 1 .. len - n : len + 1 - i \in 1 .. len
    BY <1>2, <1>4
  <2>2. [i \in 1 .. len - n |-> hs.blocks[len + 1 - i]] \in Seq(Block)
    <3>1. \A i \in 1 .. len - n : hs.blocks[len + 1 - i] \in Block
      BY <1>2, <2>1
    <3>2. len - n \in Nat
      BY <1>2, <1>4
    <3> QED
      BY <3>1, <3>2, IsASeq
  <2>3. d.blocks = [i \in 1 .. len - n |-> hs.blocks[len + 1 - i]]
    BY <1>6
  <2>4. Len(d.blocks) = len - n /\ Len(d.blocks) > 0
    BY <1>2, <1>4, <2>3
  <2>5. d \in Group
    BY <1>2, <1>3, <1>6, <2>2 DEF Group, HandleState, ScopeRecord
  <2> QED
    BY <2>3, <2>4, <2>5
<1>9. /\ hs'.next = Top.prevNext /\ hs'.limit = Top.prevLimit /\ hs'.level = hs.level - 1
      /\ hs'.blocks = SubSeq(hs.blocks, 1, n) /\ hs'.spare = hs.spare /\ hs'.lastBefore = NoPtr
      /\ hs' = [next |-> hs'.next, limit |-> hs'.limit, level |-> hs'.level,
                blocks |-> hs'.blocks, spare |-> hs'.spare, lastBefore |-> hs'.lastBefore]
  <2>1. hs = [next |-> hs.next, limit |-> hs.limit, level |-> hs.level, blocks |-> hs.blocks,
              spare |-> hs.spare, lastBefore |-> hs.lastBefore]
    BY <1>2 DEF HandleState
  <2> QED
    BY <1>7, <2>1
<1>10. /\ hs'.blocks \in Seq(Block) /\ Len(hs'.blocks) = n
       /\ \A i \in 1 .. n : hs'.blocks[i] = hs.blocks[i]
  BY <1>2, <1>4, <1>9, Prefix
<1>11. hs' \in HandleState
  <2>1. hs'.level \in Nat
    BY <1>2, <1>9
  <2> QED
    BY <1>2, <1>3, <1>9, <1>10, <2>1 DEF HandleState, ScopeRecord, Ptr
<1>12. \A i \in 1 .. Len(d.blocks) : /\ d.blocks[i] # hs'.spare
                                     /\ \A j \in 1 .. n : d.blocks[i] # hs'.blocks[j]
                                     /\ \A e \in deferred : \A j \in 1 .. Len(e.blocks) :
                                          d.blocks[i] # e.blocks[j]
  <2> SUFFICES ASSUME NEW i \in 1 .. Len(d.blocks)
               PROVE  /\ d.blocks[i] # hs'.spare
                      /\ \A j \in 1 .. n : d.blocks[i] # hs'.blocks[j]
                      /\ \A e \in deferred : \A j \in 1 .. Len(e.blocks) : d.blocks[i] # e.blocks[j]
    OBVIOUS
  <2> DEFINE k == len + 1 - i
  <2>1. k \in 1 .. len /\ k > n /\ d.blocks[i] = hs.blocks[k]
    <3>1. len \in Nat /\ n \in Nat /\ i \in 1 .. len - n
      BY <1>2, <1>4, <1>8
    <3>2. d.blocks[i] = hs.blocks[k]
      BY <1>8
    <3> HIDE DEF len
    <3> QED
      BY <3>1, <3>2
  <2> HIDE DEF k
  <2>2. \A j \in 1 .. n : j \in 1 .. len /\ j # k
    BY <1>2, <1>4, <2>1
  <2> QED
    BY <1>2, <1>9, <1>10, <2>1, <2>2 DEF AreaOK
<1>13. AreaOK(hs)'
  <2>1. PtrAt(hs.next, hs.blocks, Len(hs.blocks))' /\ LimitAt(hs.limit, hs.blocks, Len(hs.blocks))'
    BY <1>4, <1>9, <1>10 DEF PtrAt, LimitAt, EndOf
  <2>2. \A i, j \in 1 .. n : hs'.blocks[i] = hs'.blocks[j] => i = j
    BY <1>2, <1>4, <1>10 DEF AreaOK
  <2>3. \A i \in 1 .. n : hs'.blocks[i] # hs'.spare
    BY <1>2, <1>4, <1>9, <1>10 DEF AreaOK
  <2>4. \A e \in deferred : \A i \in 1 .. Len(e.blocks) :
          /\ e.blocks[i] # hs'.spare
          /\ \A j \in 1 .. n : e.blocks[i] # hs'.blocks[j]
    BY <1>2, <1>4, <1>9, <1>10 DEF AreaOK
  <2> QED
    BY <1>7, <1>10, <1>12, <2>1, <2>2, <2>3, <2>4 DEF AreaOK
<1>14. GroupsOK'
  BY <1>2, <1>7, <1>8, <1>12 DEF GroupsOK
<1>15. ScopesOK(scopes', hs'.blocks, [k \in 1 .. Len(scopes) - 1 |-> base[k]])
  <2>1. Len(scopes) > 0
    BY <1>2
  <2>2. ScopesOK(SubSeq(scopes, 1, Len(scopes) - 1), SubSeq(hs.blocks, 1, base[Len(scopes)]),
                 [k \in 1 .. Len(scopes) - 1 |-> base[k]])
    BY <1>2, <2>1, ScopesPop
  <2> QED
    BY <1>7, <1>9, <2>2 DEF Popped, n
<1>16. scopes' \in Seq(ScopeRecord) /\ Len(scopes') = Len(scopes) - 1
  <2>1. Len(scopes) - 1 \in 0 .. Len(scopes)
    BY <1>2
  <2> QED
    BY <1>2, <1>7, <2>1, Prefix DEF Popped
<1>17. TypeOK'
  <2>1. LastOf(hs.blocks) \in Block
    BY <1>2, <1>4 DEF LastOf
  <2>2. links' \in Links
    BY <1>2, <1>7, <2>1, LinkType DEF TypeOK
  <2> QED
    BY <1>2, <1>7, <1>8, <1>11, <1>16, <2>2 DEF TypeOK
<1>18. PICK new : new = [k \in 1 .. Len(scopes) - 1 |-> base[k]]
  OBVIOUS
<1>19. ScopesOK(scopes, hs.blocks, new)' /\ new \in [1 .. Len(scopes') -> 0 .. Len(hs'.blocks)]
  BY <1>15, <1>18 DEF ScopesOK
<1>20. hs'.level = Len(scopes')
  BY <1>2, <1>9, <1>16
<1>21. SlotsOK(scopes', hs', [k \in 1 .. Len(scopes) - 1 |-> base[k]])
  <2>1. /\ hs'.next = scopes[Len(scopes)].prevNext
        /\ hs'.blocks = SubSeq(hs.blocks, 1, base[Len(scopes)])
        /\ hs'.lastBefore = IF scopes[Len(scopes)].kind = "deferred" THEN NoPtr ELSE hs.lastBefore
    BY <1>3, <1>9 DEF n
  <2>2. SlotsOK(scopes, hs, base) /\ Len(scopes) > 0
    BY <1>1, <1>2 DEF Shape
  <2> QED
    BY <1>2, <1>7, <2>1, <2>2, SlotsPop DEF Popped
<1>22. SlotsOK(scopes, hs, new)'
  <2>1. SlotsOK(scopes', hs', new)
    BY <1>18, <1>21
  <2> QED
    BY <2>1 DEF SlotsOK, OrderOK, GapOK, OwnOK, Begins, Ends, Reached, Offset
<1> QED
  BY <1>13, <1>14, <1>17, <1>19, <1>20, <1>22 DEF IInv, Shape

LEMMA DestroyKeeps == IInv /\ DestroyDeferred => IInv'
<1> SUFFICES ASSUME IInv, DestroyDeferred PROVE IInv'
  OBVIOUS
<1>1. PICK base \in [1 .. Len(scopes) -> 0 .. Len(hs.blocks)] : Shape(base)
  BY DEF IInv
<1>2. /\ TypeOK /\ hs \in HandleState /\ scopes \in Seq(ScopeRecord)
      /\ hs.blocks \in Seq(Block) /\ hs.level = Len(scopes)
      /\ AreaOK(hs) /\ GroupsOK /\ ScopesOK(scopes, hs.blocks, base)
  BY <1>1 DEF IInv, TypeOK, HandleState, Shape
<1>3. PICK d \in deferred :
        /\ deferred' = deferred \ {d}
        /\ UnlinkDeferredHandles(First(d))
        /\ hs' = [hs EXCEPT !.spare = LastOf(d.blocks)]
        /\ mem' = [p \in Slot |->
                     IF p[1] \in ({hs.spare} \cup BlocksIn(d.blocks)) \ {LastOf(d.blocks)}
                     THEN Junk ELSE mem[p]]
        /\ UNCHANGED scopes
  BY DEF DestroyDeferred
<1>4. d \in Group /\ d.blocks \in Seq(Block) /\ Len(d.blocks) \in 1 .. Len(d.blocks)
  BY <1>2 DEF TypeOK, Group, GroupsOK
<1>5. PICK b : b = LastOf(d.blocks)
  OBVIOUS
<1>6. b \in Block /\ b = d.blocks[Len(d.blocks)]
  BY <1>4, <1>5 DEF LastOf
<1>7. /\ hs'.next = hs.next /\ hs'.limit = hs.limit /\ hs'.level = hs.level
      /\ hs'.blocks = hs.blocks /\ hs'.spare = b /\ hs'.lastBefore = hs.lastBefore
      /\ hs' = [next |-> hs'.next, limit |-> hs'.limit, level |-> hs'.level,
                blocks |-> hs'.blocks, spare |-> hs'.spare, lastBefore |-> hs'.lastBefore]
  BY <1>2, <1>3, <1>5 DEF HandleState
<1>8. hs' \in HandleState
  BY <1>2, <1>6, <1>7 DEF HandleState
<1>9. mem' \in [Slot -> Object \cup {Junk}]
  BY <1>2, <1>3 DEF TypeOK
<1>10. TypeOK'
  <2>1. UnlinkDeferredHandles(First(d)) /\ First(d) \in Block
    BY <1>3, <1>4 DEF First
  <2>2. links' \in Links
    BY <1>2, <2>1, UnlinkType DEF TypeOK
  <2> QED
    BY <1>2, <1>3, <1>8, <1>9, <2>2 DEF TypeOK
<1>11. AreaOK(hs)'
  <2>1. PtrAt(hs.next, hs.blocks, Len(hs.blocks))' /\ LimitAt(hs.limit, hs.blocks, Len(hs.blocks))'
    BY <1>2, <1>7 DEF AreaOK, PtrAt, LimitAt, EndOf
  <2>2. \A i, j \in 1 .. Len(hs.blocks) : hs.blocks[i] = hs.blocks[j] => i = j
    BY <1>2 DEF AreaOK
  <2>3. \A j \in 1 .. Len(hs.blocks) : hs.blocks[j] # b
    BY <1>2, <1>4, <1>6 DEF AreaOK
  <2>4. \A e \in deferred' : \A i \in 1 .. Len(e.blocks) :
          /\ e.blocks[i] # b
          /\ \A j \in 1 .. Len(hs.blocks) : e.blocks[i] # hs.blocks[j]
    <3>1. \A e \in deferred' : e \in deferred /\ e # d
      BY <1>3
    <3>2. \A e \in deferred' : \A i \in 1 .. Len(e.blocks) : e.blocks[i] # b
      BY <1>2, <1>4, <1>6, <3>1 DEF GroupsOK
    <3> QED
      BY <1>2, <3>1, <3>2 DEF AreaOK
  <2> QED
    BY <1>7, <2>1, <2>2, <2>3, <2>4 DEF AreaOK
<1>12. GroupsOK'
  BY <1>2, <1>3 DEF GroupsOK
<1>13. ScopesOK(scopes, hs.blocks, base)'
  BY <1>2, <1>3, <1>7 DEF ScopesOK, PtrAt, LimitAt, EndOf
<1>14. SlotsOK(scopes, hs, base)'
  <2>1. SlotsOK(scopes, hs, base)
    BY <1>1 DEF Shape
  <2>2. SlotsOK(scopes, hs', base)
    BY <1>7, <2>1, SameSlots
  <2> QED
    BY <1>3, <2>2 DEF SlotsOK, OrderOK, GapOK, OwnOK, Begins, Ends, Reached, Offset
<1> QED
  BY <1>2, <1>3, <1>7, <1>10, <1>11, <1>12, <1>13, <1>14 DEF IInv, Shape

LEMMA NextIInv == IInv /\ [Next]_vars => IInv'
<1> SUFFICES ASSUME IInv, [Next]_vars PROVE IInv'
  OBVIOUS
<1>1. CASE OpenScope
  BY <1>1, OpenKeeps
<1>2. ASSUME NEW v \in Object, CreateHandle(v) PROVE IInv'
  BY <1>2, CreateKeeps
<1>3. CASE CloseScope
  BY <1>3, CloseKeeps
<1>4. ASSUME NEW stays \in BOOLEAN, CloseAndEscape(stays) PROVE IInv'
  BY <1>4, EscapeKeeps
<1>5. CASE OpenDeferredScope
  BY <1>5, OpenDeferredKeeps
<1>6. CASE DetachDeferredScope
  BY <1>6, DetachKeeps
<1>7. CASE DestroyDeferred
  BY <1>7, DestroyKeeps
<1>8. CASE UNCHANGED vars
  <2>1. hs' = hs /\ scopes' = scopes /\ deferred' = deferred /\ links' = links /\ mem' = mem
    BY <1>8 DEF vars
  <2>2. PICK base \in [1 .. Len(scopes) -> 0 .. Len(hs.blocks)] : Shape(base)
    BY DEF IInv
  <2>3. TypeOK'
    BY <2>1 DEF IInv, TypeOK
  <2>4. /\ AreaOK(hs) /\ ScopesOK(scopes, hs.blocks, base) /\ hs.level = Len(scopes)
        /\ SlotsOK(scopes, hs, base)
    BY <2>2 DEF Shape
  <2> QED
    BY <2>1, <2>3, <2>4, Conclude DEF TypeOK
<1> QED
  BY <1>1, <1>2, <1>3, <1>4, <1>5, <1>6, <1>7, <1>8 DEF Next

THEOREM Inductive == Spec => []IInv
  BY InitIInv, NextIInv, PTL DEF Spec

(* The handle area stays well typed: in particular next never runs past the *)
(* end of a block (HandleScope::CreateHandle), for every block size.        *)
THEOREM TypeCorrect == Spec => []TypeOK
<1>1. IInv => TypeOK
  BY DEF IInv
<1> QED
  BY <1>1, Inductive, PTL

(* Once the last scope is closed every block but the spare has been given   *)
(* back, as HandleScopeImplementer::Free asserts when a thread ends.        *)
THEOREM BlocksReturned == Spec => []NoScopeNoBlocks
<1>1. IInv => NoScopeNoBlocks
  <2> SUFFICES ASSUME IInv, scopes = <<>> PROVE NoScopeNoBlocks
    BY DEF NoScopeNoBlocks
  <2>1. PICK base \in [1 .. Len(scopes) -> 0 .. Len(hs.blocks)] : Shape(base)
    BY DEF IInv
  <2>2. Len(scopes) = 0 /\ hs.blocks \in Seq(Block)
    BY DEF IInv, TypeOK, HandleState
  <2>3. Len(hs.blocks) = 0 /\ hs.level = 0
    BY <2>1, <2>2 DEF Shape, ScopesOK
  <2> QED
    BY <2>1, <2>2, <2>3 DEF NoScopeNoBlocks, Shape, AreaOK, PtrAt, LimitAt
<1> QED
  BY <1>1, Inductive, PTL

----------------------------------------------------------------------------
(* The list of deferred groups.  Every group is linked in both directions,  *)
(* only the newest has none before it, and the ages, which only decrease    *)
(* along next, show that no group comes after itself.                       *)

Names == {First(d) : d \in deferred}

Aged(age, n) ==
  \A b \in Names : age[b] < n /\ (links.next[b] # NoBlock => age[links.next[b]] < age[b])

LinksOK ==
  /\ links.head \in Names \cup {NoBlock}
  /\ \A b \in Names : /\ links.next[b] \in Names \cup {NoBlock}
                      /\ links.previous[b] \in Names \cup {NoBlock}
                      /\ links.previous[b] = NoBlock <=> links.head = b
  /\ \A b, c \in Names : links.next[b] = c <=> links.previous[c] = b
  /\ \E age \in [Block -> Nat], n \in Nat : Aged(age, n)

LEMMA NamesAreBlocks == IInv => Names \subseteq Block
<1> SUFFICES ASSUME IInv, NEW d \in deferred PROVE First(d) \in Block
  BY DEF Names
<1>1. d.blocks \in Seq(Block) /\ Len(d.blocks) > 0
  BY DEF IInv, TypeOK, Shape, GroupsOK, Group
<1> QED
  BY <1>1 DEF First

(* A group is linked before all others. *)
LEMMA LinkKeeps ==
  ASSUME links \in Links, Names \subseteq Block, LinksOK,
         NEW b \in Block \ Names, Names' = Names \cup {b}, LinkDeferredHandles(b)
  PROVE  LinksOK'
<1> DEFINE old == links.head
<1>1. /\ links'.head = b
      /\ \A x \in Block : links'.next[x] = IF x = b THEN old ELSE links.next[x]
      /\ \A x \in Block : links'.previous[x] =
           IF x = b THEN NoBlock ELSE IF x = old THEN b ELSE links.previous[x]
  BY DEF LinkDeferredHandles, Joined, Links
<1>2. old \in Names \cup {NoBlock} /\ b # NoBlock /\ b # old /\ NoBlock \notin Names
  BY BlockAssumption DEF LinksOK
<1>3. /\ \A x \in Names : /\ links.next[x] \in Names \cup {NoBlock}
                          /\ links.previous[x] \in Names \cup {NoBlock}
                          /\ links.previous[x] = NoBlock <=> old = x
      /\ \A x, y \in Names : links.next[x] = y <=> links.previous[y] = x
  BY DEF LinksOK
<1> HIDE DEF old
<1>4. \A x \in Names' : /\ links'.next[x] \in Names' \cup {NoBlock}
                        /\ links'.previous[x] \in Names' \cup {NoBlock}
                        /\ links'.previous[x] = NoBlock <=> links'.head = x
  BY <1>1, <1>2, <1>3
<1>5. ASSUME NEW x \in Names', NEW y \in Names'
      PROVE  links'.next[x] = y <=> links'.previous[y] = x
  <2>1. CASE x = b
    BY <1>1, <1>2, <1>3, <2>1
  <2>2. CASE x # b /\ y = b
    BY <1>1, <1>2, <1>3, <2>2
  <2>3. CASE x # b /\ y # b
    BY <1>1, <1>2, <1>3, <2>3
  <2> QED
    BY <2>1, <2>2, <2>3
<1>6. \E age \in [Block -> Nat], n \in Nat : Aged(age, n)'
  <2>1. PICK age \in [Block -> Nat], n \in Nat : Aged(age, n)
    BY DEF LinksOK
  <2>2. PICK aged : aged = [age EXCEPT ![b] = n]
    OBVIOUS
  <2>3. /\ aged \in [Block -> Nat] /\ aged[b] = n
        /\ \A x \in Names : aged[x] = age[x] /\ age[x] \in Nat
    BY <2>1, <2>2
  <2>4. ASSUME NEW x \in Names'
        PROVE  aged[x] < n + 1 /\ (links'.next[x] # NoBlock => aged[links'.next[x]] < aged[x])
    <3>1. CASE x = b
      BY <1>1, <1>2, <2>1, <2>3, <3>1 DEF Aged
    <3>2. CASE x # b
      BY <1>1, <1>3, <2>1, <2>3, <3>2 DEF Aged
    <3> QED
      BY <3>1, <3>2
  <2>5. Aged(aged, n + 1)'
    BY <2>4 DEF Aged
  <2> QED
    BY <2>3, <2>5
<1> QED
  BY <1>1, <1>4, <1>5, <1>6 DEF LinksOK

(* A group is taken from anywhere in the list. *)
LEMMA UnlinkKeeps ==
  ASSUME links \in Links, Names \subseteq Block, LinksOK,
         NEW b \in Names, Names' = Names \ {b}, UnlinkDeferredHandles(b)
  PROVE  LinksOK'
<1> DEFINE before == links.previous[b]
           after == links.next[b]
<1>1. /\ links'.head = IF links.head = b THEN after ELSE links.head
      /\ \A x \in Block : links'.next[x] =
           IF x = b THEN NoBlock ELSE IF x = before THEN after ELSE links.next[x]
      /\ \A x \in Block : links'.previous[x] =
           IF x = b THEN NoBlock ELSE IF x = after THEN before ELSE links.previous[x]
  BY DEF UnlinkDeferredHandles, Joined, Links
<1>2. /\ before \in Names \cup {NoBlock} /\ after \in Names \cup {NoBlock}
      /\ b # NoBlock /\ NoBlock \notin Names
      /\ links.head \in Names \cup {NoBlock}
  BY BlockAssumption DEF LinksOK
<1>3. /\ \A x \in Names : /\ links.next[x] \in Names \cup {NoBlock}
                          /\ links.previous[x] \in Names \cup {NoBlock}
                          /\ links.previous[x] = NoBlock <=> links.head = x
      /\ \A x, y \in Names : links.next[x] = y <=> links.previous[y] = x
  BY DEF LinksOK
<1>4. PICK age \in [Block -> Nat], n \in Nat : Aged(age, n)
  BY DEF LinksOK
<1>5. /\ \A x \in Names : age[x] \in Nat /\ age[x] < n
      /\ \A x \in Names : links.next[x] # NoBlock => age[links.next[x]] < age[x]
  BY <1>4 DEF Aged
<1>6. after # b
  BY <1>2, <1>5
<1>7. before # b
  BY <1>2, <1>3, <1>6
<1>8. /\ before # NoBlock => links.next[before] = b
      /\ after # NoBlock => links.previous[after] = b
      /\ before = NoBlock <=> links.head = b
  BY <1>2, <1>3
<1> HIDE DEF before, after
<1>9. links'.head \in Names' \cup {NoBlock}
  BY <1>1, <1>2, <1>6
<1>10. ASSUME NEW x \in Names'
       PROVE  /\ links'.next[x] \in Names' \cup {NoBlock}
              /\ links'.previous[x] \in Names' \cup {NoBlock}
              /\ links'.previous[x] = NoBlock <=> links'.head = x
  <2>1. x \in Names /\ x # b /\ x \in Block
    OBVIOUS
  <2>2. links.next[x] = b => x = before
    BY <1>3, <2>1 DEF before
  <2>3. links.previous[x] = b => x = after
    BY <1>3, <2>1 DEF after
  <2>4. links'.next[x] \in Names' \cup {NoBlock}
    BY <1>1, <1>2, <1>3, <1>6, <2>1, <2>2
  <2>5. links'.previous[x] \in Names' \cup {NoBlock}
    BY <1>1, <1>2, <1>3, <1>7, <2>1, <2>3
  <2>6. links'.previous[x] = NoBlock <=> links'.head = x
    BY <1>1, <1>2, <1>3, <1>8, <2>1
  <2> QED
    BY <2>4, <2>5, <2>6
<1>11. ASSUME NEW x \in Names', NEW y \in Names'
       PROVE  links'.next[x] = y <=> links'.previous[y] = x
  <2>1. x \in Names /\ x # b /\ x \in Block /\ y \in Names /\ y # b /\ y \in Block
    OBVIOUS
  <2>2. /\ links'.next[x] = IF x = before THEN after ELSE links.next[x]
        /\ links'.previous[y] = IF y = after THEN before ELSE links.previous[y]
    BY <1>1, <2>1
  <2>3. links.next[x] = y <=> links.previous[y] = x
    BY <1>3, <2>1
  <2>4. /\ x = before => links.next[x] = b
        /\ y = after => links.previous[y] = b
    BY <1>2, <1>8, <2>1
  <2> QED
    BY <2>1, <2>2, <2>3, <2>4
<1>12. Aged(age, n)'
  <2> SUFFICES ASSUME NEW x \in Names'
               PROVE  /\ age[x] < n
                      /\ links'.next[x] # NoBlock => age[links'.next[x]] < age[x]
    BY DEF Aged
  <2>1. x \in Names /\ x # b /\ x \in Block
    OBVIOUS
  <2>2. CASE x = before /\ after # NoBlock
    <3>1. age[b] < age[x] /\ age[after] < age[b]
      BY <1>2, <1>5, <1>8, <2>1, <2>2 DEF after
    <3>2. age[x] \in Nat /\ age[b] \in Nat /\ age[after] \in Nat
      BY <1>2, <1>5, <2>1, <2>2
    <3> QED
      BY <1>1, <1>5, <2>1, <2>2, <3>1, <3>2
  <2>3. CASE x = before /\ after = NoBlock
    BY <1>1, <1>5, <2>1, <2>3
  <2>4. CASE x # before
    BY <1>1, <1>5, <2>1, <2>4
  <2> QED
    BY <2>2, <2>3, <2>4
<1> QED
  BY <1>4, <1>9, <1>10, <1>11, <1>12 DEF LinksOK

----------------------------------------------------------------------------
(* What the collector visits in the open scopes is what they own. *)

Below == {p \in Nat \X Nat : p[1] < p[2]}

\* A set of naturals that has an element has a least one.
LEMMA Least ==
  ASSUME NEW T \in SUBSET Nat, T # {}
  PROVE  \E x \in T : \A y \in T : x <= y
<1>1. IsWellFoundedOn(Below, Nat)
  BY NatLessThanWellFounded DEF OpToRel, Below
<1>2. PICK x \in T : \A y \in T : ~ (<<y, x>> \in Below)
  BY <1>1, WFMin, Zenon
<1>3. ASSUME NEW y \in T, y < x PROVE FALSE
  <2>1. <<y, x>> \in Below
    BY <1>3 DEF Below
  <2> QED BY <2>1, <1>2
<1> QED BY <1>3

\* The last index of a sequence of numbers 1 .. m with a mark.
LEMMA LastMarked ==
  ASSUME NEW m \in Nat, NEW S \in SUBSET (1 .. m), S # {}
  PROVE  \E k \in S : \A j \in 1 .. m : k < j => j \notin S
<1> DEFINE T == {t \in 0 .. m : m - t \in S}
<1>1. PICK s \in S : TRUE
  OBVIOUS
<1>2. m - s \in T /\ T \in SUBSET Nat
  <2>1. s \in 1 .. m /\ m - (m - s) = s
    BY <1>1
  <2> QED BY <1>1, <2>1
<1>3. PICK t \in T : \A u \in T : t <= u
  <2> HIDE DEF T
  <2> QED BY <1>2, Least
<1>4. ASSUME NEW j \in 1 .. m, m - t < j, j \in S PROVE FALSE
  <2>1. m - (m - j) = j /\ m - j \in 0 .. m /\ t \in 0 .. m
    OBVIOUS
  <2>2. m - j \in T
    BY <1>4, <2>1
  <2>3. t <= m - j
    BY <1>3, <2>2
  <2> QED BY <1>4, <2>1, <2>3
<1> QED BY <1>3, <1>4

\* Slot x of block i is visited.
InUse(h, i, x) ==
  /\ i = Len(h.blocks) => x < h.next[2]
  /\ i < Len(h.blocks) /\ h.lastBefore # NoPtr /\ h.lastBefore[1] = h.blocks[i] =>
       x < h.lastBefore[2]

\* next points into the last block.
LEMMA NextOffset ==
  ASSUME NEW h \in HandleState, AreaOK(h), Len(h.blocks) > 0
  PROVE  h.next[2] \in Nat /\ h.next[1] = h.blocks[Len(h.blocks)]
<1> DEFINE n == Len(h.blocks)
<1>1. h.blocks \in Seq(Block) /\ n \in 0 .. Len(h.blocks) /\ n > 0 /\ PtrAt(h.next, h.blocks, n)
  BY DEF HandleState, AreaOK
<1> HIDE DEF n
<1>2. h.next[1] = h.blocks[n] /\ h.next[2] \in 0 .. kHandleBlockSize
  BY <1>1, PtrAtIsPtr
<1> QED BY <1>2, SizeAssumption DEF n

\* Iterate(v) visits the slots in use and no others.
LEMMA VisitsInUse ==
  ASSUME hs \in HandleState, AreaOK(hs)
  PROVE  /\ \A p \in VisitedInBlocks : \E i \in 1 .. Len(hs.blocks), x \in Offset : p = <<hs.blocks[i], x>>
         /\ \A i \in 1 .. Len(hs.blocks), x \in Offset :
              <<hs.blocks[i], x>> \in VisitedInBlocks <=> InUse(hs, i, x)
<1> DEFINE n == Len(hs.blocks)
           V(i) == LET b == hs.blocks[i] IN
                   IF i = n THEN SlotsBelow(b, hs.next)
                   ELSE IF hs.lastBefore # NoPtr /\ hs.lastBefore[1] = b THEN SlotsBelow(b, hs.lastBefore)
                   ELSE AllSlots(b)
<1>1. hs.blocks \in Seq(Block) /\ n \in Nat /\ DOMAIN hs.blocks = 1 .. n
  BY DEF HandleState
<1>2. \A p : p \in VisitedInBlocks <=> \E i \in 1 .. n : p \in V(i)
  BY <1>1 DEF VisitedInBlocks
<1>3. n > 0 => hs.next[1] = hs.blocks[n]
  <2>1. n \in 0 .. n /\ PtrAt(hs.next, hs.blocks, n)
    BY <1>1 DEF AreaOK
  <2> QED BY <1>1, <2>1, PtrAtIsPtr
<1>4. \A i, j \in 1 .. n : hs.blocks[i] = hs.blocks[j] => i = j
  BY DEF AreaOK
<1>5. ASSUME NEW i \in 1 .. n
      PROVE  /\ \A p \in V(i) : \E x \in Offset : p = <<hs.blocks[i], x>>
             /\ \A x \in Offset : <<hs.blocks[i], x>> \in V(i) <=> InUse(hs, i, x)
  <2>1. CASE i = n
    <3>1. /\ V(i) = {<<hs.blocks[n], o>> : o \in {y \in Offset : y < hs.next[2]}}
          /\ \A x : InUse(hs, i, x) <=> x < hs.next[2]
      BY <1>1, <1>3, <2>1 DEF SlotsBelow, Offset, InUse
    <3> QED BY <2>1, <3>1
  <2>2. CASE i # n
    <3>0. i < n
      BY <1>1, <2>2
    <3>1. CASE hs.lastBefore # NoPtr /\ hs.lastBefore[1] = hs.blocks[i]
      <4>1. /\ V(i) = {<<hs.blocks[i], o>> : o \in {y \in Offset : y < hs.lastBefore[2]}}
            /\ \A x : InUse(hs, i, x) <=> x < hs.lastBefore[2]
        BY <2>2, <3>0, <3>1 DEF SlotsBelow, Offset, InUse
      <4> QED BY <4>1
    <3>2. CASE ~ (hs.lastBefore # NoPtr /\ hs.lastBefore[1] = hs.blocks[i])
      <4>1. /\ V(i) = {<<hs.blocks[i], o>> : o \in Offset}
            /\ \A x : InUse(hs, i, x)
        BY <2>2, <3>0, <3>2 DEF AllSlots, Offset, InUse
      <4> QED BY <4>1
    <3> QED BY <3>1, <3>2
  <2> QED BY <2>1, <2>2
<1> HIDE DEF V
<1>6. ASSUME NEW i \in 1 .. n, NEW x \in Offset
      PROVE  <<hs.blocks[i], x>> \in VisitedInBlocks <=> InUse(hs, i, x)
  <2>1. ASSUME NEW j \in 1 .. n, <<hs.blocks[i], x>> \in V(j) PROVE j = i
    <3>1. PICK y \in Offset : <<hs.blocks[i], x>> = <<hs.blocks[j], y>>
      BY <1>5, <2>1
    <3> QED BY <1>4, <3>1
  <2> QED BY <1>2, <1>5, <2>1
<1> QED BY <1>2, <1>5, <1>6

\* What a scope owns is in use, and what is in use some scope owns.
LEMMA OwnedInUse ==
  ASSUME NEW h \in HandleState, AreaOK(h), NEW ss \in Seq(ScopeRecord), NEW base,
         ScopesOK(ss, h.blocks, base), SlotsOK(ss, h, base),
         NEW k \in 1 .. Len(ss), NEW i \in 1 .. Len(h.blocks), NEW x \in Offset,
         <<h.blocks[i], x>> \in ss[k].handles
  PROVE  InUse(h, i, x)
<1> DEFINE m == Len(ss)
           n == Len(h.blocks)
<1>1. /\ m \in Nat /\ n \in Nat /\ h.blocks \in Seq(Block) /\ x \in Nat
      /\ base \in [1 .. m -> 0 .. n]
      /\ \A j, l \in 1 .. m : j <= l => base[j] <= base[l]
      /\ \A j \in 1 .. m : PtrAt(ss[j].prevNext, h.blocks, base[j])
      /\ \A j \in 1 .. m : ss[j].kind = "deferred" => \A l \in 1 .. m : j < l => base[j] < base[l]
  BY SizeAssumption DEF HandleState, ScopesOK, Offset
<1>2. Begins(ss[k], base[k], i, x) /\ ~Ends(ss, h, base, k, i, x)
  BY DEF SlotsOK, OwnOK
<1>3. /\ \A j, l \in 1 .. m : j <= l /\ base[j] = base[l] /\ base[j] > 0 => ss[j].prevNext[2] <= ss[l].prevNext[2]
      /\ \A j \in 1 .. m : base[j] = n /\ base[j] > 0 => ss[j].prevNext[2] <= h.next[2]
  BY DEF SlotsOK, OrderOK
<1>4. \A j \in 1 .. m : base[j] > 0 => ss[j].prevNext[2] \in Nat /\ ss[j].prevNext[1] = h.blocks[base[j]]
  <2> SUFFICES ASSUME NEW j \in 1 .. m, base[j] > 0
               PROVE  ss[j].prevNext[2] \in Nat /\ ss[j].prevNext[1] = h.blocks[base[j]]
    OBVIOUS
  <2>1. base[j] \in 0 .. Len(h.blocks) /\ PtrAt(ss[j].prevNext, h.blocks, base[j])
    BY <1>1
  <2> QED BY <1>1, <2>1, PtrAtIsPtr, SizeAssumption
<1>5. n > 0 => h.next[2] \in Nat
  BY NextOffset
<1> HIDE DEF n, m
<1>6. k \in 1 .. m /\ i \in 1 .. n
  BY DEF m, n
<1>7. ASSUME k < m
      PROVE  k + 1 \in 1 .. m /\ ~Reached(ss[k + 1].prevNext, base[k + 1], i, x)
  BY <1>1, <1>2, <1>6, <1>7 DEF Ends, m
<1>8. ASSUME i = n PROVE x < h.next[2]
  <2>1. CASE k < m
    <3>1. base[k + 1] = n /\ base[k + 1] > 0 /\ ~(ss[k + 1].prevNext[2] <= x)
      BY <1>1, <1>6, <1>7, <1>8, <2>1 DEF Reached
    <3>2. ss[k + 1].prevNext[2] <= h.next[2] /\ ss[k + 1].prevNext[2] \in Nat
      BY <1>3, <1>4, <1>7, <2>1, <3>1
    <3>3. h.next[2] \in Nat
      BY <1>5, <3>1
    <3>4. \A a, c \in Nat : ~(a <= x) /\ a <= c => x < c
      BY <1>1
    <3> QED BY <3>1, <3>2, <3>3, <3>4, Zenon
  <2>2. CASE k = m
    <3>1. ~(n = i /\ h.next[2] <= x)
      BY <1>1, <1>2, <2>2 DEF Ends, Reached, n, m
    <3> QED BY <1>1, <1>5, <1>6, <1>8, <3>1
  <2> QED BY <1>1, <1>6, <2>1, <2>2
<1>9. ASSUME i < n, h.lastBefore # NoPtr, h.lastBefore[1] = h.blocks[i] PROVE x < h.lastBefore[2]
  <2>1. PICK j \in 1 .. m : ss[j].kind = "deferred" /\ base[j] > 0 /\ h.lastBefore = ss[j].prevNext
    BY <1>9 DEF SlotsOK, GapOK, m
  <2>2. base[j] = i
    <3>1. h.blocks[base[j]] = h.blocks[i]
      BY <1>4, <1>9, <2>1
    <3>2. base[j] \in 1 .. n
      BY <1>1, <2>1
    <3> QED BY <1>6, <3>1, <3>2 DEF AreaOK, n
  <2>3. CASE k < j
    <3>1. k + 1 <= j /\ k < m /\ k \in Nat
      BY <1>1, <1>6, <2>3
    <3>2. base[k + 1] <= i
      BY <1>1, <1>7, <2>2, <3>1
    <3>3. base[k + 1] = i /\ ~(ss[k + 1].prevNext[2] <= x) /\ base[k + 1] > 0
      BY <1>1, <1>6, <1>7, <3>1, <3>2 DEF Reached
    <3>4. ss[k + 1].prevNext[2] <= ss[j].prevNext[2]
      BY <1>3, <1>7, <2>1, <2>2, <3>1, <3>3
    <3>5. ss[k + 1].prevNext[2] \in Nat /\ ss[j].prevNext[2] \in Nat
      BY <1>4, <1>7, <2>1, <3>1, <3>3
    <3>6. \A a, c \in Nat : ~(a <= x) /\ a <= c => x < c
      BY <1>1
    <3>7. x < ss[j].prevNext[2]
      BY <3>3, <3>4, <3>5, <3>6, Zenon
    <3> QED BY <2>1, <3>7
  <2>4. CASE k = j
    <3>1. i < i
      BY <1>2, <2>1, <2>2, <2>4 DEF Begins
    <3> QED BY <1>6, <3>1
  <2>5. CASE j < k
    <3>1. i < base[k]
      BY <1>1, <1>6, <2>1, <2>2, <2>5
    <3>2. base[k] \in Nat
      BY <1>1, <1>6
    <3> QED BY <1>2, <1>6, <3>1, <3>2 DEF Begins, Reached
  <2> QED BY <1>1, <1>6, <2>3, <2>4, <2>5
<1> QED BY <1>8, <1>9 DEF InUse, n

\* Every slot in use is a handle of the last scope that begins at or below it.
LEMMA InUseOwned ==
  ASSUME NEW h \in HandleState, AreaOK(h), NEW ss \in Seq(ScopeRecord), NEW base,
         ScopesOK(ss, h.blocks, base), SlotsOK(ss, h, base),
         NEW i \in 1 .. Len(h.blocks), NEW x \in Offset, InUse(h, i, x)
  PROVE  \E k \in 1 .. Len(ss) : <<h.blocks[i], x>> \in ss[k].handles
<1> DEFINE m == Len(ss)
           n == Len(h.blocks)
           S == {k \in 1 .. m : Reached(ss[k].prevNext, base[k], i, x)}
<1>1. /\ m \in Nat /\ n \in Nat /\ h.blocks \in Seq(Block) /\ x \in Nat
      /\ base \in [1 .. m -> 0 .. n]
      /\ m = 0 => n = 0
      /\ m > 0 => base[1] = 0
      /\ \A j \in 1 .. m : PtrAt(ss[j].prevNext, h.blocks, base[j])
      /\ \A j \in 1 .. m : ss[j].kind = "deferred" => base[j] < n
  BY SizeAssumption DEF HandleState, ScopesOK, Offset
<1>2. n > 0 => h.next[2] \in Nat
  BY NextOffset
<1> HIDE DEF n, m
<1>3. i \in 1 .. n /\ m > 0 /\ 1 \in 1 .. m
  BY <1>1 DEF n
<1>4. 1 \in S
  BY <1>1, <1>3 DEF Reached
<1>5. PICK k \in S : \A j \in 1 .. m : k < j => j \notin S
  <2>1. S \in SUBSET (1 .. m) /\ S # {}
    BY <1>4
  <2> HIDE DEF S
  <2> QED BY <1>1, <2>1, LastMarked
<1>6. k \in 1 .. m /\ Reached(ss[k].prevNext, base[k], i, x)
  BY <1>5
<1>7. ~Ends(ss, h, base, k, i, x)
  <2>1. CASE k < m
    <3>1. k + 1 \in 1 .. m /\ k < k + 1
      BY <1>1, <1>6, <2>1
    <3>2. ~Reached(ss[k + 1].prevNext, base[k + 1], i, x)
      BY <1>5, <3>1
    <3> QED BY <2>1, <3>2 DEF Ends, m
  <2>2. CASE ~(k < m)
    <3>1. ~(n < i)
      BY <1>1, <1>3
    <3>2. n = i => x < h.next[2]
      BY DEF InUse, n
    <3>3. ~Reached(h.next, n, i, x)
      BY <1>1, <1>2, <1>3, <3>1, <3>2 DEF Reached
    <3> QED BY <2>2, <3>3 DEF Ends, n, m
  <2> QED BY <2>1, <2>2
<1>8. Begins(ss[k], base[k], i, x)
  <2>1. CASE ss[k].kind # "deferred"
    BY <1>6, <2>1 DEF Begins
  <2>2. CASE ss[k].kind = "deferred"
    <3>1. base[k] < i \/ (base[k] = i /\ ss[k].prevNext[2] <= x)
      BY <1>6 DEF Reached
    <3>2. ASSUME base[k] = i, ss[k].prevNext[2] <= x PROVE FALSE
      <4>1. h.lastBefore = ss[k].prevNext /\ base[k] > 0 /\ base[k] < n
        BY <1>1, <1>6, <2>2 DEF SlotsOK, GapOK, m
      <4>2. base[k] \in 0 .. Len(h.blocks) /\ PtrAt(ss[k].prevNext, h.blocks, base[k])
        BY <1>1, <1>6 DEF n
      <4>3. /\ h.lastBefore # NoPtr /\ h.lastBefore[1] = h.blocks[i]
            /\ ss[k].prevNext[2] \in Nat
        BY <1>1, <3>2, <4>1, <4>2, PtrAtIsPtr, SizeAssumption
      <4>4. x < ss[k].prevNext[2]
        BY <3>2, <4>1, <4>3 DEF InUse, n
      <4> QED BY <1>1, <3>2, <4>3, <4>4
    <3> QED BY <2>2, <3>1, <3>2 DEF Begins
  <2> QED BY <2>1, <2>2
<1> QED BY <1>6, <1>7, <1>8 DEF SlotsOK, OwnOK, m

\* The collector visits the handles of the open scopes.
LEMMA ScopesVisited == IInv => VisitedInBlocks = ScopeHandles
<1> SUFFICES ASSUME IInv PROVE VisitedInBlocks = ScopeHandles
  OBVIOUS
<1>1. PICK base \in [1 .. Len(scopes) -> 0 .. Len(hs.blocks)] : Shape(base)
  BY DEF IInv
<1>2. /\ hs \in HandleState /\ scopes \in Seq(ScopeRecord) /\ AreaOK(hs)
      /\ ScopesOK(scopes, hs.blocks, base) /\ SlotsOK(scopes, hs, base)
      /\ DOMAIN scopes = 1 .. Len(scopes)
  BY <1>1 DEF IInv, TypeOK, Shape
<1>3. ASSUME NEW p \in VisitedInBlocks PROVE p \in ScopeHandles
  <2>1. PICK i \in 1 .. Len(hs.blocks), x \in Offset : p = <<hs.blocks[i], x>>
    BY <1>2, VisitsInUse
  <2>2. InUse(hs, i, x)
    BY <1>2, <2>1, VisitsInUse
  <2>3. \E k \in 1 .. Len(scopes) : <<hs.blocks[i], x>> \in scopes[k].handles
    BY <1>2, <2>2, InUseOwned
  <2> QED BY <1>2, <2>1, <2>3 DEF ScopeHandles
<1>4. ASSUME NEW p \in ScopeHandles PROVE p \in VisitedInBlocks
  <2>1. PICK k \in 1 .. Len(scopes) : p \in scopes[k].handles
    BY <1>2 DEF ScopeHandles
  <2>2. PICK i \in 1 .. Len(hs.blocks), x \in Offset : p = <<hs.blocks[i], x>>
    BY <1>2, <2>1 DEF SlotsOK, OwnOK
  <2>3. InUse(hs, i, x)
    BY <1>2, <2>1, <2>2, OwnedInUse
  <2> QED BY <1>2, <2>2, <2>3, VisitsInUse
<1> QED BY <1>3, <1>4

----------------------------------------------------------------------------
(* The detached groups: each keeps its handles in its own blocks. *)

\* Detaching makes one new group, of the blocks and the handles of the scope.
LEMMA DetachGroup ==
  ASSUME IInv, DetachDeferredScope
  PROVE  \E d : /\ deferred' = deferred \cup {d}
                /\ d.handles = Top.handles
                /\ VisitedInGroup(d) = Top.handles
                /\ First(d) \in Block \ Names
                /\ LinkDeferredHandles(First(d))
<1>1. PICK base \in [1 .. Len(scopes) -> 0 .. Len(hs.blocks)] : Shape(base)
  BY DEF IInv
<1>2. /\ hs \in HandleState /\ scopes \in Seq(ScopeRecord) /\ scopes # <<>>
      /\ hs.blocks \in Seq(Block) /\ AreaOK(hs) /\ GroupsOK
      /\ ScopesOK(scopes, hs.blocks, base) /\ SlotsOK(scopes, hs, base)
  BY <1>1 DEF IInv, TypeOK, HandleState, Shape, DetachDeferredScope
<1> DEFINE len == Len(hs.blocks)
           m == Len(scopes)
           n == base[m]
<1>3. /\ Top = scopes[m] /\ Top.kind = "deferred" /\ m \in 1 .. m /\ len \in Nat
  BY <1>2 DEF Top, LastOf, DetachDeferredScope
<1>4. n \in 0 .. len /\ n < len /\ LimitAt(Top.prevLimit, hs.blocks, n)
  BY <1>2, <1>3 DEF ScopesOK
<1>5. Kept(hs.blocks, Top.prevLimit) = {n}
  <2> HIDE DEF n
  <2> QED BY <1>2, <1>4, KeptIsUnique DEF AreaOK
<1> DEFINE d == [blocks |-> [i \in 1 .. len - n |-> hs.blocks[len + 1 - i]],
                 firstLimit |-> hs.next, handles |-> Top.handles]
           b == LastOf(hs.blocks)
<1>6. deferred' = deferred \cup {d} /\ LinkDeferredHandles(b)
  BY <1>5 DEF DetachDeferredScope
<1>7. hs.next[2] \in Nat /\ hs.next[1] = hs.blocks[len]
  BY <1>2, <1>4, NextOffset
<1>8. /\ \A p \in Top.handles : \E i \in 1 .. len, x \in Offset : p = <<hs.blocks[i], x>>
      /\ \A i \in 1 .. len, x \in Offset :
           <<hs.blocks[i], x>> \in Top.handles <=> n < i /\ ~(len = i /\ hs.next[2] <= x)
  <2>1. /\ \A p \in scopes[m].handles : \E i \in 1 .. len, x \in Offset : p = <<hs.blocks[i], x>>
        /\ \A i \in 1 .. len, x \in Offset :
             <<hs.blocks[i], x>> \in scopes[m].handles <=>
               Begins(scopes[m], base[m], i, x) /\ ~Ends(scopes, hs, base, m, i, x)
    BY <1>2, <1>3 DEF SlotsOK, OwnOK
  <2>2. ASSUME NEW i \in 1 .. len, NEW x \in Offset
        PROVE  Begins(scopes[m], base[m], i, x) /\ ~Ends(scopes, hs, base, m, i, x)
                 <=> n < i /\ ~(len = i /\ hs.next[2] <= x)
    <3>1. ~(len < i) /\ ~(m < m)
      BY <1>3
    <3> QED BY <1>3, <3>1 DEF Begins, Ends, Reached
  <2> QED BY <1>3, <2>1, <2>2
<1>9. /\ d.handles = Top.handles /\ d.firstLimit = hs.next
      /\ DOMAIN d.blocks = 1 .. len - n
      /\ \A j \in 1 .. len - n : d.blocks[j] = hs.blocks[len + 1 - j]
  OBVIOUS
<1> HIDE DEF d, n, len, m
<1>10. VisitedInGroup(d) = Top.handles
  <2> DEFINE V(j) == IF j = 1 THEN SlotsBelow(d.blocks[j], d.firstLimit) ELSE AllSlots(d.blocks[j])
  <2>1. ASSUME NEW j \in 1 .. len - n
        PROVE  V(j) = {<<hs.blocks[len + 1 - j], o>> : o \in {y \in Offset : j = 1 => y < hs.next[2]}}
    <3>1. CASE j = 1
      <4>1. d.blocks[j] = hs.blocks[len] /\ len + 1 - j = len
        BY <1>3, <1>9, <3>1
      <4> QED BY <1>7, <1>9, <3>1, <4>1 DEF SlotsBelow, Offset
    <3>2. CASE j # 1
      BY <1>9, <3>2 DEF AllSlots, Offset
    <3> QED BY <3>1, <3>2
  <2>2. \A p : p \in VisitedInGroup(d) <=> \E j \in 1 .. len - n : p \in V(j)
    BY <1>9 DEF VisitedInGroup
  <2> HIDE DEF V
  <2>3. ASSUME NEW p \in VisitedInGroup(d) PROVE p \in Top.handles
    <3>1. PICK j \in 1 .. len - n : p \in V(j)
      BY <2>2, <2>3
    <3>2. PICK o \in Offset : p = <<hs.blocks[len + 1 - j], o>> /\ (j = 1 => o < hs.next[2])
      BY <2>1, <3>1
    <3>3. PICK i : i = len + 1 - j
      OBVIOUS
    <3>4. i \in 1 .. len /\ n < i /\ (len = i => j = 1)
      BY <1>3, <1>4, <3>3
    <3>5. o < hs.next[2] => ~(hs.next[2] <= o)
      BY <1>7, SizeAssumption DEF Offset
    <3> QED BY <1>8, <3>2, <3>3, <3>4, <3>5
  <2>4. ASSUME NEW p \in Top.handles PROVE p \in VisitedInGroup(d)
    <3>1. PICK i \in 1 .. len, x \in Offset : p = <<hs.blocks[i], x>>
      BY <1>8
    <3>2. n < i /\ ~(len = i /\ hs.next[2] <= x)
      BY <1>8, <3>1
    <3>3. PICK j : j = len + 1 - i
      OBVIOUS
    <3>4. j \in 1 .. len - n /\ len + 1 - j = i /\ (j = 1 => len = i)
      BY <1>3, <1>4, <3>2, <3>3
    <3>5. ~(hs.next[2] <= x) => x < hs.next[2]
      BY <1>7, SizeAssumption DEF Offset
    <3>6. p \in V(j)
      BY <2>1, <3>1, <3>2, <3>4, <3>5
    <3> QED BY <2>2, <3>4, <3>6
  <2> QED BY <2>3, <2>4
<1>11. First(d) = b /\ b \in Block /\ b = hs.blocks[len] /\ len \in 1 .. len
  <2>1. 1 \in 1 .. len - n /\ len + 1 - 1 = len /\ len \in 1 .. len
    BY <1>3, <1>4
  <2>2. hs.blocks[len] \in Block
    BY <1>2, <2>1 DEF len
  <2> QED BY <1>9, <2>1, <2>2 DEF First, LastOf, len
<1>12. b \notin Names
  <2> SUFFICES ASSUME NEW d2 \in deferred PROVE d2.blocks[1] # b
    BY DEF Names, First
  <2>1. Len(d2.blocks) > 0 /\ Len(d2.blocks) \in Nat
    BY <1>2 DEF GroupsOK, IInv, TypeOK, Group
  <2>2. 1 \in 1 .. Len(d2.blocks)
    BY <2>1
  <2> QED BY <1>2, <1>11, <2>2 DEF AreaOK, len
<1> QED BY <1>6, <1>9, <1>10, <1>11, <1>12

GroupsLive == \A d \in deferred : d.handles = VisitedInGroup(d)

\* The collector visits the handles of a group (DeferredHandles::Iterate), and no more.
LEMMA NextGroups == IInv /\ GroupsLive /\ [Next]_vars => GroupsLive'
<1> SUFFICES ASSUME IInv, GroupsLive, [Next]_vars PROVE GroupsLive'
  OBVIOUS
<1>1. CASE UNCHANGED deferred
  BY <1>1 DEF GroupsLive, VisitedInGroup, SlotsBelow, AllSlots
<1>2. CASE DetachDeferredScope
  <2>1. PICK d : /\ deferred' = deferred \cup {d}
                 /\ d.handles = Top.handles /\ VisitedInGroup(d) = Top.handles
    BY <1>2, DetachGroup
  <2> QED BY <2>1 DEF GroupsLive, VisitedInGroup, SlotsBelow, AllSlots
<1>3. CASE DestroyDeferred
  BY <1>3 DEF DestroyDeferred, GroupsLive, VisitedInGroup, SlotsBelow, AllSlots
<1> QED
  BY <1>1, <1>2, <1>3
     DEF Next, vars, OpenScope, CreateHandle, CloseScope, CloseAndEscape, OpenDeferredScope

\* The list stays well linked whichever group comes or goes.
LEMMA NextLinks == IInv /\ LinksOK /\ [Next]_vars => LinksOK'
<1> SUFFICES ASSUME IInv, LinksOK, [Next]_vars PROVE LinksOK'
  OBVIOUS
<1>1. links \in Links /\ Names \subseteq Block
  BY NamesAreBlocks DEF IInv, TypeOK
<1>2. CASE UNCHANGED <<deferred, links>>
  BY <1>2 DEF LinksOK, Names, Aged
<1>3. CASE DetachDeferredScope
  <2>1. PICK d : /\ deferred' = deferred \cup {d}
                 /\ First(d) \in Block \ Names
                 /\ LinkDeferredHandles(First(d))
    BY <1>3, DetachGroup
  <2>2. Names' = Names \cup {First(d)}
    BY <2>1 DEF Names, First
  <2> QED
    BY <1>1, <2>1, <2>2, LinkKeeps
<1>4. CASE DestroyDeferred
  <2>1. PICK d \in deferred : deferred' = deferred \ {d} /\ UnlinkDeferredHandles(First(d))
    BY <1>4 DEF DestroyDeferred
  <2>2. GroupsOK /\ \A e \in deferred : Len(e.blocks) \in Nat
    BY DEF IInv, Shape, TypeOK, Group
  <2>3. \A e \in deferred : e # d => First(e) # First(d)
    BY <2>2 DEF GroupsOK, First
  <2>4. Names' = Names \ {First(d)} /\ First(d) \in Names
    BY <2>1, <2>3 DEF Names, First
  <2> QED
    BY <1>1, <2>1, <2>4, UnlinkKeeps
<1> QED
  BY <1>2, <1>3, <1>4
     DEF Next, vars, OpenScope, CreateHandle, CloseScope, CloseAndEscape, OpenDeferredScope

(* Whatever the order in which compilations end and their groups go, the    *)
(* list of the isolate is well linked in both directions, with the head     *)
(* first and an end (LinkDeferredHandles, UnlinkDeferredHandles): what the  *)
(* loop of asserts in UnlinkDeferredHandles relies on.                      *)
THEOREM DeferredLinked == Spec => []LinksOK
<1>1. Init => LinksOK
  <2> SUFFICES ASSUME Init PROVE LinksOK
    OBVIOUS
  <2>1. Names = {} /\ links.head = NoBlock
    BY DEF Init, Names
  <2>2. [b \in Block |-> 0] \in [Block -> Nat] /\ 0 \in Nat /\ Aged([b \in Block |-> 0], 0)
    BY <2>1 DEF Aged
  <2> QED
    BY <2>1, <2>2 DEF LinksOK
<1>2. LinksOK /\ IInv /\ [Next]_vars => LinksOK'
  BY NextLinks
<1> QED
  BY <1>1, <1>2, Inductive, PTL DEF Spec

----------------------------------------------------------------------------
(* What is live, and what each action does to it. *)

\* The handles of the scopes ss, and of the groups ds.
HandlesOf(ss) == UNION {ss[k].handles : k \in DOMAIN ss}
GroupHandles(ds) == UNION {d.handles : d \in ds}

\* A group has its handles in its own blocks.
LEMMA GroupSlots ==
  ASSUME TypeOK, GroupsLive, NEW d \in deferred, NEW p \in d.handles
  PROVE  p \in Slot /\ \E i \in 1 .. Len(d.blocks) : p[1] = d.blocks[i]
<1>1. d \in Group /\ DOMAIN d.blocks = 1 .. Len(d.blocks)
  BY DEF TypeOK, Group
<1>2. p \in Slot
  BY <1>1 DEF Group
<1>3. p \in VisitedInGroup(d)
  BY DEF GroupsLive
<1>4. PICK i \in DOMAIN d.blocks :
        p \in IF i = 1 THEN SlotsBelow(d.blocks[i], d.firstLimit) ELSE AllSlots(d.blocks[i])
  BY <1>3 DEF VisitedInGroup
<1>5. p[1] = d.blocks[i]
  BY <1>4 DEF SlotsBelow, AllSlots
<1> QED BY <1>1, <1>2, <1>4, <1>5

\* The slot of a new handle is no handle of a scope or of a group.
LEMMA FreshSlot ==
  ASSUME TypeOK, GroupsLive, NEW h \in HandleState, AreaOK(h), NEW ss \in Seq(ScopeRecord), NEW base,
         ScopesOK(ss, h.blocks, base), SlotsOK(ss, h, base), NEW r \in WithRoom(h)
  PROVE  r.next \notin HandlesOf(ss) \cup GroupHandles(deferred)
<1> DEFINE n == Len(h.blocks)
<1>1. PICK g : g = Bump(r)
  OBVIOUS
<1>2. h.blocks \in Seq(Block) /\ n \in Nat
  BY DEF HandleState
<1>3. ASSUME NEW k \in 1 .. Len(ss), r.next \in ss[k].handles PROVE FALSE
  <2>1. PICK i \in 1 .. n, x \in Offset : r.next = <<h.blocks[i], x>>
    BY <1>3 DEF SlotsOK, OwnOK
  <2>2. InUse(h, i, x)
    BY <1>3, <2>1, OwnedInUse
  <2>3. CASE /\ n > 0 /\ r.next = <<h.blocks[n], h.next[2]>>
    <3>1. n \in 1 .. n /\ h.blocks[n] = h.blocks[i] /\ x = h.next[2]
      BY <1>2, <2>1, <2>3
    <3>2. i = n
      BY <3>1 DEF AreaOK
    <3>3. x < x /\ x \in Nat
      BY <2>2, <3>1, <3>2, SizeAssumption DEF InUse, Offset
    <3> QED BY <3>3
  <2>4. CASE \E b \in Block : (\A j \in 1 .. n : h.blocks[j] # b) /\ r.next = <<b, 0>>
    BY <2>1, <2>4
  <2> QED BY <1>1, <2>3, <2>4, RoomNext
<1>4. ASSUME NEW d \in deferred, r.next \in d.handles PROVE FALSE
  <2>1. PICK i \in 1 .. Len(d.blocks) : r.next[1] = d.blocks[i]
    BY <1>4, GroupSlots
  <2>2. \A j \in 1 .. Len(g.blocks) : d.blocks[i] # g.blocks[j]
    <3>1. AreaOK(g)
      BY <1>1, RoomArea
    <3> QED BY <3>1 DEF AreaOK
  <2>3. \E j \in 1 .. Len(g.blocks) : r.next[1] = g.blocks[j]
    <3>1. CASE n > 0 /\ g.blocks = h.blocks /\ r.next = <<h.blocks[n], h.next[2]>>
      BY <1>2, <3>1
    <3>2. CASE \E b \in Block : g.blocks = Append(h.blocks, b) /\ r.next = <<b, 0>>
      <4>1. PICK b \in Block : g.blocks = Append(h.blocks, b) /\ r.next = <<b, 0>>
        BY <3>2
      <4>2. Len(g.blocks) = n + 1 /\ g.blocks[n + 1] = b /\ n + 1 \in 1 .. n + 1
        BY <1>2, <4>1
      <4> QED BY <4>1, <4>2
    <3> QED BY <1>1, <3>1, <3>2, RoomNext
  <2> QED BY <2>1, <2>2, <2>3
<1>5. DOMAIN ss = 1 .. Len(ss)
  OBVIOUS
<1> QED BY <1>3, <1>4, <1>5 DEF HandlesOf, GroupHandles

\* Closing a scope frees the memory of none of the handles that remain.
LEMMA ReleasedKeeps ==
  ASSUME TypeOK, GroupsLive, NEW h \in HandleState, NEW ss \in Seq(ScopeRecord), NEW base,
         SlotsOK(ss, h, base), NEW g \in HandleState,
         Len(h.blocks) <= Len(g.blocks), \A i \in 1 .. Len(h.blocks) : g.blocks[i] = h.blocks[i],
         NEW p \in HandlesOf(ss) \cup GroupHandles(deferred)
  PROVE  p \in Slot /\ Released(hs, g)[p] = mem[p]
<1>1. p \in Slot /\ p[1] \in Allocated(g)
  <2>1. CASE p \in HandlesOf(ss)
    <3>1. PICK k \in 1 .. Len(ss) : p \in ss[k].handles
      BY <2>1 DEF HandlesOf
    <3>2. PICK i \in 1 .. Len(h.blocks), x \in Offset : p = <<h.blocks[i], x>>
      BY <3>1 DEF SlotsOK, OwnOK
    <3>3. i \in DOMAIN g.blocks /\ g.blocks[i] = h.blocks[i]
      BY DEF HandleState
    <3>4. p[1] \in BlocksIn(g.blocks) /\ p \in Slot
      BY <3>2, <3>3 DEF BlocksIn, HandleState, Slot, Offset
    <3> QED BY <3>4 DEF Allocated
  <2>2. CASE p \in GroupHandles(deferred)
    <3>1. PICK d \in deferred : p \in d.handles
      BY <2>2 DEF GroupHandles
    <3>2. p \in Slot /\ \E i \in 1 .. Len(d.blocks) : p[1] = d.blocks[i]
      BY <3>1, GroupSlots
    <3>3. DOMAIN d.blocks = 1 .. Len(d.blocks)
      BY DEF TypeOK, Group
    <3> QED BY <3>2, <3>3 DEF Allocated, BlocksIn
  <2> QED BY <2>1, <2>2
<1> QED BY <1>1 DEF Released

----------------------------------------------------------------------------
(* What each action does to the handles that remain. *)

\* CreateHandle gives the last scope a fresh slot.
LEMMA CreateEffect ==
  ASSUME IInv, GroupsLive, NEW v \in Object, CreateHandle(v)
  PROVE  \E p \in Slot : /\ p \notin LiveHandles
                         /\ scopes' = AddHandle(scopes, p)
                         /\ mem' = [mem EXCEPT ![p] = v]
                         /\ deferred' = deferred
                         /\ Len(scopes) > 0
<1>1. PICK base \in [1 .. Len(scopes) -> 0 .. Len(hs.blocks)] : Shape(base)
  BY DEF IInv
<1>2. /\ TypeOK /\ hs \in HandleState /\ scopes \in Seq(ScopeRecord) /\ hs.level = Len(scopes)
      /\ AreaOK(hs) /\ ScopesOK(scopes, hs.blocks, base) /\ SlotsOK(scopes, hs, base)
  BY <1>1 DEF IInv, TypeOK, Shape
<1>3. PICK r \in WithRoom(hs) : /\ scopes' = AddHandle(scopes, r.next)
                                /\ mem' = [mem EXCEPT ![r.next] = v]
  BY DEF CreateHandle
<1>4. r.next \in Slot
  BY <1>2, <1>3, RoomArea
<1>5. r.next \notin LiveHandles
  BY <1>2, <1>3, FreshSlot DEF LiveHandles, ScopeHandles, HandlesOf, GroupHandles
<1>6. deferred' = deferred /\ Len(scopes) > 0
  BY <1>2 DEF CreateHandle
<1> QED BY <1>3, <1>4, <1>5, <1>6

\* CloseScope drops the handles of the last scope.
LEMMA CloseEffect ==
  ASSUME IInv, GroupsLive, CloseScope
  PROVE  /\ scopes' = Popped /\ deferred' = deferred
         /\ \A p \in HandlesOf(Popped) \cup GroupHandles(deferred) : p \in Slot /\ mem'[p] = mem[p]
<1>1. PICK base \in [1 .. Len(scopes) -> 0 .. Len(hs.blocks)] : Shape(base)
  BY DEF IInv
<1>2. TypeOK /\ scopes # <<>> /\ Top.kind = "scope" /\ scopes' = Popped /\ deferred' = deferred
  BY DEF IInv, CloseScope
<1>3. PICK g \in Leave(hs, Top) : mem' = Released(hs, g)
  BY DEF CloseScope
<1> DEFINE less == [k \in 1 .. Len(scopes) - 1 |-> base[k]]
<1>4. g \in HandleState /\ Popped \in Seq(ScopeRecord) /\ SlotsOK(Popped, g, less)
  BY <1>1, <1>2, CloseTop
<1>5. Len(g.blocks) <= Len(g.blocks)
  BY <1>4 DEF HandleState
<1> HIDE DEF less
<1>6. \A p \in HandlesOf(Popped) \cup GroupHandles(deferred) : p \in Slot /\ Released(hs, g)[p] = mem[p]
  BY <1>2, <1>4, <1>5, ReleasedKeeps
<1> QED BY <1>2, <1>3, <1>6

\* CloseAndEscape copies one handle of the closed scope into its parent.
LEMMA EscapeEffect ==
  ASSUME IInv, GroupsLive, NEW stays \in BOOLEAN, CloseAndEscape(stays)
  PROVE  \E old \in Top.handles, p \in Slot :
           /\ p \notin HandlesOf(Popped) \cup GroupHandles(deferred)
           /\ mem'[p] = mem[old]
           /\ \A q \in HandlesOf(Popped) \cup GroupHandles(deferred) : q \in Slot /\ mem'[q] = mem[q]
           /\ deferred' = deferred
           /\ \/ ~stays /\ scopes' = AddHandle(Popped, p)
              \/ /\ stays
                 /\ \E s \in ScopeRecord :
                      /\ s.kind = "scope" /\ s.handles = {}
                      /\ scopes' = Append(AddHandle(Popped, p), s)
<1>1. PICK base \in [1 .. Len(scopes) -> 0 .. Len(hs.blocks)] : Shape(base)
  BY DEF IInv
<1>2. TypeOK /\ scopes # <<>> /\ Top.kind = "scope" /\ deferred' = deferred
  BY DEF IInv, TypeOK, CloseAndEscape
<1>3a. PICK old \in Top.handles, closed \in Leave(hs, Top) : \E r \in WithRoom(closed) :
        /\ mem' = [Released(hs, r) EXCEPT ![r.next] = mem[old]]
        /\ scopes' = IF stays THEN Append(AddHandle(Popped, r.next), NewScope("scope", Bump(r)))
                     ELSE AddHandle(Popped, r.next)
  BY DEF CloseAndEscape
<1>3. PICK r \in WithRoom(closed) :
        /\ mem' = [Released(hs, r) EXCEPT ![r.next] = mem[old]]
        /\ scopes' = IF stays THEN Append(AddHandle(Popped, r.next), NewScope("scope", Bump(r)))
                     ELSE AddHandle(Popped, r.next)
  BY <1>3a
<1> DEFINE less == [k \in 1 .. Len(scopes) - 1 |-> base[k]]
           H == HandlesOf(Popped) \cup GroupHandles(deferred)
<1>4. /\ closed \in HandleState /\ AreaOK(closed) /\ Popped \in Seq(ScopeRecord)
      /\ ScopesOK(Popped, closed.blocks, less) /\ SlotsOK(Popped, closed, less)
  BY <1>1, <1>2, <1>3a, CloseTop
<1> HIDE DEF less
<1>5. /\ r.next \in Slot /\ r \in HandleState
      /\ Len(closed.blocks) <= Len(r.blocks)
      /\ \A i \in 1 .. Len(closed.blocks) : r.blocks[i] = closed.blocks[i]
  <2>1. Bump(r).blocks = r.blocks /\ r \in HandleState
    BY <1>2, <1>4, RoomArea DEF Bump, HandleState
  <2> QED BY <1>2, <1>4, <2>1, RoomArea
<1>6. r.next \notin H
  BY <1>2, <1>4, FreshSlot
<1>7. \A q \in H : q \in Slot /\ Released(hs, r)[q] = mem[q]
  BY <1>2, <1>4, <1>5, ReleasedKeeps
<1>8. DOMAIN Released(hs, r) = Slot
  BY DEF Released
<1> HIDE DEF H
<1>9. mem'[r.next] = mem[old] /\ \A q \in H : q \in Slot /\ mem'[q] = mem[q]
  BY <1>3, <1>5, <1>6, <1>7, <1>8
<1>10. CASE stays
  <2>1. PICK s : s = NewScope("scope", Bump(r))
    OBVIOUS
  <2>2. s.kind = "scope" /\ s.handles = {} /\ scopes' = Append(AddHandle(Popped, r.next), s)
    BY <1>3, <1>10, <2>1 DEF NewScope
  <2>3. s \in ScopeRecord
    <3>1. Bump(r) \in HandleState
      BY <1>2, <1>4, RoomArea
    <3> QED BY <2>1, <3>1 DEF NewScope, ScopeRecord, HandleState
  <2> QED BY <1>2, <1>5, <1>6, <1>9, <1>10, <2>2, <2>3 DEF H
<1>11. CASE ~stays
  <2>1. scopes' = AddHandle(Popped, r.next)
    BY <1>3, <1>11
  <2> QED BY <1>2, <1>5, <1>6, <1>9, <1>11, <2>1 DEF H
<1> QED BY <1>10, <1>11

\* Destroying a group leaves every other handle alone.
LEMMA DestroyEffect ==
  ASSUME IInv, GroupsLive, DestroyDeferred
  PROVE  \E d \in deferred :
           /\ deferred' = deferred \ {d}
           /\ scopes' = scopes
           /\ \A p \in ScopeHandles \cup GroupHandles(deferred') : p \in Slot /\ mem'[p] = mem[p]
<1>1. PICK base \in [1 .. Len(scopes) -> 0 .. Len(hs.blocks)] : Shape(base)
  BY DEF IInv
<1>2. /\ TypeOK /\ hs \in HandleState /\ scopes \in Seq(ScopeRecord) /\ AreaOK(hs) /\ GroupsOK
      /\ SlotsOK(scopes, hs, base)
  BY <1>1 DEF IInv, TypeOK, Shape
<1>3. PICK d \in deferred :
        /\ deferred' = deferred \ {d}
        /\ mem' = [p \in Slot |->
                     IF p[1] \in ({hs.spare} \cup BlocksIn(d.blocks)) \ {LastOf(d.blocks)}
                     THEN Junk ELSE mem[p]]
        /\ scopes' = scopes
  BY DEF DestroyDeferred
<1>4. \A p \in Slot : p[1] # hs.spare /\ (\A i \in 1 .. Len(d.blocks) : p[1] # d.blocks[i]) => mem'[p] = mem[p]
  <2>1. DOMAIN d.blocks = 1 .. Len(d.blocks)
    BY <1>2 DEF TypeOK, Group
  <2> QED BY <1>3, <2>1 DEF BlocksIn
<1>5. ASSUME NEW p \in ScopeHandles PROVE p \in Slot /\ mem'[p] = mem[p]
  <2>1. PICK k \in 1 .. Len(scopes) : p \in scopes[k].handles
    BY <1>2 DEF ScopeHandles
  <2>2. PICK i \in 1 .. Len(hs.blocks), x \in Offset : p = <<hs.blocks[i], x>>
    BY <1>2, <2>1 DEF SlotsOK, OwnOK
  <2>3. p \in Slot
    BY <1>2, <2>2 DEF HandleState, Slot, Offset
  <2>4. p[1] # hs.spare /\ (\A j \in 1 .. Len(d.blocks) : p[1] # d.blocks[j])
    BY <1>2, <2>2 DEF AreaOK
  <2> QED BY <1>4, <2>3, <2>4
<1>6. ASSUME NEW p \in GroupHandles(deferred') PROVE p \in Slot /\ mem'[p] = mem[p]
  <2>1. PICK e \in deferred : e # d /\ p \in e.handles
    BY <1>3 DEF GroupHandles
  <2>2. p \in Slot /\ \E i \in 1 .. Len(e.blocks) : p[1] = e.blocks[i]
    BY <1>2, <2>1, GroupSlots
  <2>3. p[1] # hs.spare /\ (\A j \in 1 .. Len(d.blocks) : p[1] # d.blocks[j])
    BY <1>2, <2>1, <2>2 DEF AreaOK, GroupsOK
  <2> QED BY <1>4, <2>2, <2>3
<1> QED BY <1>3, <1>5, <1>6

----------------------------------------------------------------------------
(* Every live handle holds an object. *)

\* A new scope has no handle yet.
LEMMA HandlesAppend ==
  ASSUME NEW ss \in Seq(ScopeRecord), NEW s
  PROVE  HandlesOf(Append(ss, s)) = HandlesOf(ss) \cup s.handles
<1>1. /\ DOMAIN ss = 1 .. Len(ss) /\ DOMAIN Append(ss, s) = 1 .. Len(ss) + 1 /\ Len(ss) \in Nat
      /\ \A k \in 1 .. Len(ss) : Append(ss, s)[k] = ss[k]
      /\ Append(ss, s)[Len(ss) + 1] = s
  OBVIOUS
<1>2. \A k \in 1 .. Len(ss) + 1 : k \in 1 .. Len(ss) \/ k = Len(ss) + 1
  BY <1>1
<1>3. \A k \in 1 .. Len(ss) : k \in 1 .. Len(ss) + 1
  BY <1>1
<1>4. Len(ss) + 1 \in 1 .. Len(ss) + 1
  BY <1>1
<1> QED BY <1>1, <1>2, <1>3, <1>4 DEF HandlesOf

\* AddHandle adds one handle.
LEMMA HandlesAdded ==
  ASSUME NEW ss \in Seq(ScopeRecord), Len(ss) > 0, NEW p \in Slot
  PROVE  HandlesOf(AddHandle(ss, p)) = HandlesOf(ss) \cup {p}
<1>1. /\ AddHandle(ss, p) \in Seq(ScopeRecord) /\ Len(AddHandle(ss, p)) = Len(ss)
      /\ \A k \in 1 .. Len(ss) :
           AddHandle(ss, p)[k].handles = IF k = Len(ss) THEN ss[k].handles \cup {p} ELSE ss[k].handles
  BY MoreHandles
<1>2. /\ DOMAIN ss = 1 .. Len(ss) /\ DOMAIN AddHandle(ss, p) = 1 .. Len(ss) /\ Len(ss) \in 1 .. Len(ss)
  BY <1>1
<1> QED BY <1>1, <1>2 DEF HandlesOf

\* The handles of a stack are those of its last scope and of the rest.
LEMMA HandlesPopped ==
  ASSUME scopes \in Seq(ScopeRecord), scopes # <<>>
  PROVE  /\ Popped \in Seq(ScopeRecord) /\ Len(Popped) = Len(scopes) - 1 /\ DOMAIN Popped = 1 .. Len(scopes) - 1
         /\ \A k \in 1 .. Len(scopes) - 1 : Popped[k] = scopes[k]
         /\ Top = scopes[Len(scopes)]
         /\ ScopeHandles = HandlesOf(Popped) \cup Top.handles
<1>1. Len(scopes) - 1 \in 0 .. Len(scopes) /\ Len(scopes) \in 1 .. Len(scopes) /\ DOMAIN scopes = 1 .. Len(scopes)
  OBVIOUS
<1>2. /\ Popped \in Seq(ScopeRecord) /\ Len(Popped) = Len(scopes) - 1
      /\ \A k \in 1 .. Len(scopes) - 1 : Popped[k] = scopes[k]
      /\ Top = scopes[Len(scopes)]
  BY <1>1, Prefix DEF Popped, Top, LastOf
<1>3. DOMAIN Popped = 1 .. Len(scopes) - 1
  BY <1>2
<1>4. /\ \A k \in 1 .. Len(scopes) : k \in 1 .. Len(scopes) - 1 \/ k = Len(scopes)
      /\ \A k \in 1 .. Len(scopes) - 1 : k \in 1 .. Len(scopes)
  <2>1. Len(scopes) \in Nat
    OBVIOUS
  <2> QED BY <2>1
<1> QED BY <1>1, <1>2, <1>3, <1>4 DEF HandlesOf, ScopeHandles

\* LiveHandles by its two parts.
LEMMA LiveAre == LiveHandles = HandlesOf(scopes) \cup GroupHandles(deferred)
BY DEF LiveHandles, ScopeHandles, HandlesOf, GroupHandles

\* The same after a step.
LEMMA LiveAfter == LiveHandles' = HandlesOf(scopes') \cup GroupHandles(deferred')
BY DEF LiveHandles, ScopeHandles, HandlesOf, GroupHandles

----------------------------------------------------------------------------
ValuesOK == \A p \in LiveHandles : mem[p] \in Object

\* No step leaves a live handle without its object.
LEMMA NextValues == IInv /\ GroupsLive /\ ValuesOK /\ [Next]_vars => ValuesOK'
<1> SUFFICES ASSUME IInv, GroupsLive, ValuesOK, [Next]_vars PROVE ValuesOK'
  OBVIOUS
<1> USE LiveAre, LiveAfter
<1>0. TypeOK /\ scopes \in Seq(ScopeRecord) /\ ScopeHandles = HandlesOf(scopes)
  BY DEF IInv, TypeOK, ScopeHandles, HandlesOf
<1>1. CASE UNCHANGED vars
  BY <1>1 DEF vars, ValuesOK
<1>2. CASE OpenScope
  <2>1. PICK s : s.handles = {} /\ scopes' = Append(scopes, s) /\ mem' = mem /\ deferred' = deferred
    BY <1>2 DEF OpenScope, NewScope
  <2> QED BY <1>0, <2>1, HandlesAppend DEF ValuesOK
<1>3. CASE OpenDeferredScope
  <2>1. PICK s : s.handles = {} /\ scopes' = Append(scopes, s) /\ mem' = mem /\ deferred' = deferred
    BY <1>3 DEF OpenDeferredScope, NewScope
  <2> QED BY <1>0, <2>1, HandlesAppend DEF ValuesOK
<1>4. ASSUME NEW v \in Object, CreateHandle(v) PROVE ValuesOK'
  <2>1. PICK p \in Slot : /\ p \notin LiveHandles /\ scopes' = AddHandle(scopes, p)
                          /\ mem' = [mem EXCEPT ![p] = v] /\ deferred' = deferred /\ Len(scopes) > 0
    BY <1>4, CreateEffect
  <2>2. LiveHandles' = LiveHandles \cup {p}
    BY <1>0, <2>1, HandlesAdded
  <2>3. mem \in [Slot -> Object \cup {Junk}]
    BY <1>0 DEF TypeOK
  <2> QED BY <2>1, <2>2, <2>3 DEF ValuesOK
<1>5. CASE CloseScope
  <2>1. /\ scopes' = Popped /\ deferred' = deferred
        /\ \A p \in HandlesOf(Popped) \cup GroupHandles(deferred) : mem'[p] = mem[p]
    BY <1>5, CloseEffect
  <2>2. HandlesOf(Popped) \subseteq HandlesOf(scopes)
    BY <1>0, <1>5, HandlesPopped DEF CloseScope
  <2> QED BY <2>1, <2>2 DEF ValuesOK
<1>6. ASSUME NEW stays \in BOOLEAN, CloseAndEscape(stays) PROVE ValuesOK'
  <2>1. PICK old \in Top.handles, p \in Slot :
           /\ mem'[p] = mem[old]
           /\ \A q \in HandlesOf(Popped) \cup GroupHandles(deferred) : mem'[q] = mem[q]
           /\ deferred' = deferred
           /\ \/ scopes' = AddHandle(Popped, p)
              \/ \E s : s.handles = {} /\ scopes' = Append(AddHandle(Popped, p), s)
    BY <1>6, EscapeEffect
  <2>2. /\ Popped \in Seq(ScopeRecord) /\ Len(Popped) > 0
        /\ HandlesOf(scopes) = HandlesOf(Popped) \cup Top.handles
    <3>1. Len(scopes) > 1 /\ scopes # <<>>
      BY <1>0, <1>6 DEF CloseAndEscape
    <3> QED BY <1>0, <3>1, HandlesPopped
  <2>3. HandlesOf(scopes') = HandlesOf(Popped) \cup {p}
    <3>1. HandlesOf(AddHandle(Popped, p)) = HandlesOf(Popped) \cup {p}
      BY <2>2, HandlesAdded
    <3>2. AddHandle(Popped, p) \in Seq(ScopeRecord)
      BY <2>2, MoreHandles
    <3>3. ASSUME NEW s, s.handles = {}, scopes' = Append(AddHandle(Popped, p), s)
          PROVE  HandlesOf(scopes') = HandlesOf(Popped) \cup {p}
      BY <3>1, <3>2, <3>3, HandlesAppend
    <3> QED BY <2>1, <3>1, <3>3
  <2> QED BY <2>1, <2>2, <2>3 DEF ValuesOK
<1>7. CASE DetachDeferredScope
  <2>1. PICK d : deferred' = deferred \cup {d} /\ d.handles = Top.handles
    BY <1>7, DetachGroup
  <2>2. scopes' = Popped /\ mem' = mem /\ scopes # <<>>
    BY <1>7 DEF DetachDeferredScope
  <2>3. HandlesOf(scopes) = HandlesOf(Popped) \cup Top.handles
    BY <1>0, <2>2, HandlesPopped
  <2>4. GroupHandles(deferred') = GroupHandles(deferred) \cup Top.handles
    BY <2>1 DEF GroupHandles
  <2>5. LiveHandles' = LiveHandles
    BY <2>2, <2>3, <2>4
  <2> QED BY <2>2, <2>5 DEF ValuesOK
<1>8. CASE DestroyDeferred
  <2>1. PICK d \in deferred :
           /\ deferred' = deferred \ {d} /\ scopes' = scopes
           /\ \A p \in ScopeHandles \cup GroupHandles(deferred') : mem'[p] = mem[p]
    BY <1>8, DestroyEffect
  <2>2. GroupHandles(deferred') \subseteq GroupHandles(deferred)
    BY <2>1 DEF GroupHandles
  <2> QED BY <1>0, <2>1, <2>2 DEF ValuesOK
<1> QED BY <1>1, <1>2, <1>3, <1>4, <1>5, <1>6, <1>7, <1>8 DEF Next

----------------------------------------------------------------------------
(* The list of groups leads to every group. *)

\* The groups are numbered from the end of the list, 1 .. n.
Counted(age, n) ==
  /\ \A b \in Names : age[b] \in 1 .. n
  /\ \A v \in 1 .. n : \E b \in Names : age[b] = v
  /\ \A b, c \in Names : age[b] = age[c] => b = c
  /\ links.head = NoBlock <=> n = 0
  /\ links.head # NoBlock => links.head \in Names /\ age[links.head] = n
  /\ \A b \in Names : age[b] = 1 => links.next[b] = NoBlock
  /\ \A b \in Names : age[b] # 1 => links.next[b] \in Names /\ age[links.next[b]] = age[b] - 1

CountedOK ==
  /\ IsFiniteSet(deferred)
  /\ \E age \in [Block -> Nat] : Counted(age, Cardinality(deferred))

\* LinkDeferredHandles puts a new group at the head of the list.
LEMMA LinkCounted ==
  ASSUME links \in Links, Names \subseteq Block, NEW n \in Nat, NEW age \in [Block -> Nat],
         Counted(age, n), NEW b \in Block \ Names, Names' = Names \cup {b}, LinkDeferredHandles(b)
  PROVE  \E aged \in [Block -> Nat] : Counted(aged, n + 1)'
<1>1. /\ links'.head = b
      /\ \A x \in Block : links'.next[x] = IF x = b THEN links.head ELSE links.next[x]
  BY DEF LinkDeferredHandles, Links
<1>2. PICK aged : aged = [age EXCEPT ![b] = n + 1]
  OBVIOUS
<1>3. /\ aged \in [Block -> Nat] /\ aged[b] = n + 1
      /\ \A x \in Names : x # b /\ x \in Block /\ aged[x] = age[x] /\ age[x] \in 1 .. n
      /\ b # NoBlock /\ NoBlock \notin Names
  BY <1>2, BlockAssumption DEF Counted
<1>4. \A x \in Names' : aged[x] \in 1 .. n + 1
  BY <1>3
<1>5. ASSUME NEW v \in 1 .. n + 1 PROVE \E x \in Names' : aged[x] = v
  <2>1. CASE v = n + 1
    BY <1>3, <2>1
  <2>2. CASE v # n + 1
    <3>1. v \in 1 .. n
      BY <2>2
    <3> QED BY <1>3, <3>1 DEF Counted
  <2> QED BY <2>1, <2>2
<1>6. \A x, y \in Names' : aged[x] = aged[y] => x = y
  <2>1. \A x \in Names : aged[x] # n + 1
    BY <1>3
  <2> QED BY <1>3, <2>1 DEF Counted
<1>7. links'.head # NoBlock /\ links'.head \in Names' /\ aged[links'.head] = n + 1 /\ n + 1 # 0
  BY <1>1, <1>3
<1>8. ASSUME NEW x \in Names'
      PROVE  /\ aged[x] = 1 => links'.next[x] = NoBlock
             /\ aged[x] # 1 => links'.next[x] \in Names' /\ aged[links'.next[x]] = aged[x] - 1
  <2>1. CASE x = b
    <3>1. links'.next[x] = links.head /\ (aged[x] = 1 <=> n = 0) /\ aged[x] - 1 = n
      BY <1>1, <1>3, <2>1
    <3> QED BY <1>3, <3>1 DEF Counted
  <2>2. CASE x \in Names
    <3>1. links'.next[x] = links.next[x] /\ aged[x] = age[x]
      BY <1>1, <1>3, <2>2
    <3> QED BY <1>3, <2>2, <3>1 DEF Counted
  <2> QED BY <2>1, <2>2
<1>9. Counted(aged, n + 1)'
  BY <1>4, <1>5, <1>6, <1>7, <1>8 DEF Counted
<1> QED BY <1>3, <1>9

\* UnlinkDeferredHandles takes a group out wherever it is.
LEMMA UnlinkCounted ==
  ASSUME links \in Links, Names \subseteq Block, LinksOK, NEW n \in Nat, NEW age \in [Block -> Nat],
         Counted(age, n), NEW b \in Names, Names' = Names \ {b}, UnlinkDeferredHandles(b)
  PROVE  \E aged \in [Block -> Nat] : Counted(aged, n - 1)'
<1> DEFINE before == links.previous[b]
           after == links.next[b]
<1>1. /\ links'.head = IF links.head = b THEN after ELSE links.head
      /\ \A x \in Block : links'.next[x] =
           IF x = b THEN NoBlock ELSE IF x = before THEN after ELSE links.next[x]
  BY DEF UnlinkDeferredHandles, Joined, Links
<1>2. /\ b \in Block /\ NoBlock \notin Names /\ b # NoBlock
      /\ \A x \in Names : links.next[x] = b <=> before = x
  BY BlockAssumption DEF LinksOK
<1>3. PICK aged : aged = [x \in Block |-> IF age[x] > age[b] THEN age[x] - 1 ELSE age[x]]
  OBVIOUS
<1>4. /\ aged \in [Block -> Nat]
      /\ \A x \in Names : aged[x] = IF age[x] > age[b] THEN age[x] - 1 ELSE age[x]
  BY <1>2, <1>3
<1>5. /\ \A x \in Names : age[x] \in 1 .. n
      /\ \A x \in Names : x # b => age[x] # age[b]
      /\ \A x, y \in Names : age[x] = age[y] => x = y
      /\ \A v \in 1 .. n : \E x \in Names : age[x] = v
      /\ n # 0
  BY DEF Counted
<1>6. /\ age[b] = 1 => after = NoBlock
      /\ age[b] # 1 => after \in Names /\ after # b /\ age[after] = age[b] - 1
  BY <1>5 DEF Counted
<1>7. links.head # NoBlock /\ links.head \in Names /\ age[links.head] = n
  BY <1>5 DEF Counted
<1> HIDE DEF before, after
<1>8. \A x \in Names' : x \in Names /\ x # b /\ x \in Block
  OBVIOUS
<1>9. \A x \in Names' : aged[x] \in 1 .. n - 1
  BY <1>4, <1>5, <1>8
<1>10. ASSUME NEW v \in 1 .. n - 1 PROVE \E x \in Names' : aged[x] = v
  <2>1. CASE v < age[b]
    <3>1. PICK x \in Names : age[x] = v
      BY <1>5
    <3>2. x # b /\ ~(age[x] > age[b])
      BY <1>5, <2>1, <3>1
    <3> QED BY <1>4, <3>1, <3>2
  <2>2. CASE ~(v < age[b])
    <3>1. v + 1 \in 1 .. n
      OBVIOUS
    <3>2. PICK x \in Names : age[x] = v + 1
      BY <1>5, <3>1
    <3>3. x # b /\ age[x] > age[b] /\ age[x] - 1 = v
      BY <1>5, <2>2, <3>2
    <3> QED BY <1>4, <3>3
  <2> QED BY <2>1, <2>2
<1>11. ASSUME NEW x \in Names', NEW y \in Names', aged[x] = aged[y] PROVE x = y
  <2>1. age[x] \in 1 .. n /\ age[y] \in 1 .. n /\ age[b] \in 1 .. n /\ age[x] # age[b] /\ age[y] # age[b]
    BY <1>5, <1>8
  <2>2. /\ aged[x] = IF age[x] > age[b] THEN age[x] - 1 ELSE age[x]
        /\ aged[y] = IF age[y] > age[b] THEN age[y] - 1 ELSE age[y]
    BY <1>4, <1>8
  <2>3. \A v, w, k \in Nat :
          v # k /\ w # k /\ (IF v > k THEN v - 1 ELSE v) = (IF w > k THEN w - 1 ELSE w)
            => v = w
    OBVIOUS
  <2>4. age[x] \in Nat /\ age[y] \in Nat /\ age[b] \in Nat
    BY <2>1
  <2>5. age[x] = age[y]
    BY <1>11, <2>1, <2>2, <2>3, <2>4, Zenon
  <2> QED BY <1>5, <1>8, <2>5
<1>12. /\ links'.head = NoBlock <=> n - 1 = 0
       /\ links'.head # NoBlock => links'.head \in Names' /\ aged[links'.head] = n - 1
  <2>1. CASE links.head = b
    <3>1. links'.head = after /\ age[b] = n
      BY <1>1, <1>7, <2>1
    <3>2. CASE n = 1
      BY <1>6, <3>1, <3>2
    <3>3. CASE n # 1
      <4>1. after \in Names' /\ age[after] = n - 1 /\ ~(age[after] > age[b])
        BY <1>6, <3>1, <3>3
      <4> QED BY <1>2, <1>4, <3>1, <3>3, <4>1
    <3> QED BY <3>2, <3>3
  <2>2. CASE links.head # b
    <3>1. links'.head = links.head /\ age[links.head] > age[b] /\ n - 1 # 0
      BY <1>1, <1>5, <1>7, <2>2
    <3> QED BY <1>4, <1>7, <2>2, <3>1
  <2> QED BY <2>1, <2>2
<1>13. ASSUME NEW x \in Names'
       PROVE  /\ aged[x] = 1 => links'.next[x] = NoBlock
              /\ aged[x] # 1 => links'.next[x] \in Names' /\ aged[links'.next[x]] = aged[x] - 1
  <2>1. /\ age[x] \in 1 .. n /\ age[b] \in 1 .. n /\ age[x] # age[b]
        /\ aged[x] = IF age[x] > age[b] THEN age[x] - 1 ELSE age[x]
    BY <1>4, <1>5, <1>8
  <2>2. /\ age[x] = 1 => links.next[x] = NoBlock
        /\ age[x] # 1 => links.next[x] \in Names /\ age[links.next[x]] = age[x] - 1
    BY <1>8 DEF Counted
  <2>3. CASE x = before
    <3>1. links.next[x] = b /\ links'.next[x] = after
      BY <1>1, <1>2, <1>8, <2>3
    <3>2. age[x] # 1 /\ age[b] = age[x] - 1
      BY <1>2, <2>2, <3>1
    <3>3. aged[x] = age[b]
      BY <2>1, <3>2
    <3>4. CASE age[b] = 1
      BY <1>6, <3>1, <3>3, <3>4
    <3>5. CASE age[b] # 1
      <4>1. after \in Names' /\ age[after] = age[b] - 1 /\ ~(age[after] > age[b])
        BY <1>6, <2>1, <3>5
      <4> QED BY <1>4, <1>8, <3>1, <3>3, <3>5, <4>1
    <3> QED BY <3>4, <3>5
  <2>4. CASE x # before
    <3>1. links'.next[x] = links.next[x] /\ links.next[x] # b
      BY <1>1, <1>2, <1>8, <2>4
    <3>2. CASE age[x] = 1
      <4>1. aged[x] = 1
        BY <2>1, <3>2
      <4> QED BY <2>2, <3>1, <3>2, <4>1
    <3>3. CASE age[x] # 1
      <4>1. PICK y : y = links.next[x]
        OBVIOUS
      <4>2. /\ y \in Names' /\ age[y] = age[x] - 1 /\ age[y] \in 1 .. n /\ age[y] # age[b]
            /\ aged[y] = IF age[y] > age[b] THEN age[y] - 1 ELSE age[y]
        BY <1>4, <1>5, <2>2, <3>1, <3>3, <4>1
      <4>3. aged[x] # 1 /\ aged[y] = aged[x] - 1
        BY <2>1, <4>2
      <4> QED BY <3>1, <4>1, <4>2, <4>3
    <3> QED BY <3>2, <3>3
  <2> QED BY <2>3, <2>4
<1>14. Counted(aged, n - 1)'
  BY <1>9, <1>10, <1>11, <1>12, <1>13 DEF Counted
<1> QED BY <1>4, <1>14

\* The groups stay numbered along the list.
LEMMA NextCounted == IInv /\ LinksOK /\ CountedOK /\ [Next]_vars => CountedOK'
<1> SUFFICES ASSUME IInv, LinksOK, CountedOK, [Next]_vars PROVE CountedOK'
  OBVIOUS
<1>1. links \in Links /\ Names \subseteq Block
  BY NamesAreBlocks DEF IInv, TypeOK
<1>3. IsFiniteSet(deferred) /\ Cardinality(deferred) \in Nat
  BY FS_CardinalityType DEF CountedOK
<1>3a. PICK n \in Nat : n = Cardinality(deferred)
  BY <1>3
<1>2. PICK age \in [Block -> Nat] : Counted(age, n)
  BY <1>3a DEF CountedOK
<1>4. CASE UNCHANGED <<deferred, links>>
  <2>1. Counted(age, n)'
    BY <1>2, <1>4 DEF Counted, Names
  <2>2. IsFiniteSet(deferred') /\ Cardinality(deferred') = n
    BY <1>3, <1>3a, <1>4
  <2> QED BY <2>1, <2>2 DEF CountedOK, Counted
<1>5. CASE DetachDeferredScope
  <2>1. PICK d : /\ deferred' = deferred \cup {d} /\ First(d) \in Block \ Names
                 /\ LinkDeferredHandles(First(d))
    BY <1>5, DetachGroup
  <2>2. Names' = Names \cup {First(d)} /\ d \notin deferred
    BY <2>1 DEF Names, First
  <2>3. IsFiniteSet(deferred') /\ Cardinality(deferred') = n + 1
    BY <1>3, <1>3a, <2>1, <2>2, FS_AddElement
  <2>4. \E aged \in [Block -> Nat] : Counted(aged, n + 1)'
    BY <1>1, <1>2, <1>3, <2>1, <2>2, LinkCounted
  <2> QED BY <2>3, <2>4 DEF CountedOK, Counted
<1>6. CASE DestroyDeferred
  <2>1. PICK d \in deferred : deferred' = deferred \ {d} /\ UnlinkDeferredHandles(First(d))
    BY <1>6 DEF DestroyDeferred
  <2>2. Names' = Names \ {First(d)} /\ First(d) \in Names
    <3>1. GroupsOK /\ \A e \in deferred : Len(e.blocks) \in Nat
      BY DEF IInv, Shape, TypeOK, Group
    <3>2. \A e \in deferred : e # d => First(e) # First(d)
      BY <3>1 DEF GroupsOK, First
    <3> QED BY <2>1, <3>2 DEF Names, First
  <2>3. IsFiniteSet(deferred') /\ Cardinality(deferred') = n - 1
    BY <1>3, <1>3a, <2>1, FS_RemoveElement
  <2>4. \E aged \in [Block -> Nat] : Counted(aged, n - 1)'
    BY <1>1, <1>2, <1>3, <2>1, <2>2, UnlinkCounted
  <2> QED BY <2>3, <2>4 DEF CountedOK, Counted
<1> QED
  BY <1>4, <1>5, <1>6
     DEF Next, vars, OpenScope, CreateHandle, CloseScope, CloseAndEscape, OpenDeferredScope

----------------------------------------------------------------------------
\* What Chain is defined by.
Follow(f) ==
  [n \in Nat |-> IF n = 0 THEN links.head
                 ELSE IF f[n - 1] = NoBlock THEN NoBlock ELSE links.next[f[n - 1]]]

\* There is one function that follows the links, so Chain is it.
LEMMA ChainUnique ==
  ASSUME NEW g, g = Follow(g)
  PROVE  Chain = g
<1>1. Chain = CHOOSE f : f = Follow(f)
  BY DEF Chain, Follow
<1>2. ASSUME NEW f, f = Follow(f) PROVE f = g
  <2> DEFINE T == {k \in Nat : f[k] # g[k]}
  <2>1. f = [k \in Nat |-> f[k]] /\ g = [k \in Nat |-> g[k]]
    BY <1>2 DEF Follow
  <2>2. CASE T = {}
    BY <2>1, <2>2
  <2>3. CASE T # {}
    <3>1. PICK k \in T : \A j \in T : k <= j
      <4>1. T \in SUBSET Nat
        OBVIOUS
      <4> HIDE DEF T
      <4> QED BY <2>3, <4>1, Least
    <3>2. k # 0
      BY <1>2 DEF Follow
    <3>3. k - 1 \in Nat /\ f[k - 1] = g[k - 1]
      BY <3>1, <3>2
    <3>4. f[k] = IF f[k - 1] = NoBlock THEN NoBlock ELSE links.next[f[k - 1]]
      BY <1>2, <3>2 DEF Follow
    <3>5. g[k] = IF g[k - 1] = NoBlock THEN NoBlock ELSE links.next[g[k - 1]]
      BY <3>2 DEF Follow
    <3> QED BY <3>3, <3>4, <3>5
  <2> QED BY <2>2, <2>3
<1> QED BY <1>1, <1>2, Zenon

\* The links lead to every group.
LEMMA LinkedAreNames ==
  ASSUME CountedOK, Names \subseteq Block
  PROVE  Linked = Names
<1> DEFINE n == Cardinality(deferred)
<1>1. n \in Nat
  BY FS_CardinalityType DEF CountedOK
<1>2. PICK age \in [Block -> Nat] : Counted(age, n)
  BY DEF CountedOK
<1> HIDE DEF n
<1> DEFINE At(v) == CHOOSE b \in Names : age[b] = v
           g == [k \in Nat |-> IF k < n THEN At(n - k) ELSE NoBlock]
<1>3. \A v \in 1 .. n : At(v) \in Names /\ age[At(v)] = v
  BY <1>2 DEF Counted
<1>4. /\ \A b, c \in Names : age[b] = age[c] => b = c
      /\ \A b \in Names : age[b] \in 1 .. n
      /\ NoBlock \notin Names
  BY <1>2, BlockAssumption DEF Counted
<1>5. \A b \in Names : At(age[b]) = b
  BY <1>3, <1>4
<1> HIDE DEF At
<1>6. ASSUME NEW k \in Nat
      PROVE  g[k] = IF k = 0 THEN links.head
                    ELSE IF g[k - 1] = NoBlock THEN NoBlock ELSE links.next[g[k - 1]]
  <2>1. CASE k = 0 /\ n = 0
    BY <1>1, <1>2, <2>1 DEF Counted
  <2>2. CASE k = 0 /\ n # 0
    <3>1. links.head \in Names /\ age[links.head] = n
      BY <1>2, <2>2 DEF Counted
    <3>2. g[k] = At(n)
      BY <1>1, <2>2
    <3> QED BY <1>5, <2>2, <3>1, <3>2
  <2>3. CASE k # 0 /\ n < k
    <3>1. k - 1 \in Nat /\ ~(k - 1 < n) /\ ~(k < n)
      BY <1>1, <2>3
    <3> QED BY <2>3, <3>1
  <2>4. CASE k # 0 /\ ~(n < k)
    <3>1. k - 1 \in Nat /\ k - 1 < n /\ n - (k - 1) = n - k + 1 /\ n - k + 1 \in 1 .. n
      BY <1>1, <2>4
    <3>2. PICK b \in Names : g[k - 1] = b /\ age[b] = n - k + 1
      BY <1>3, <3>1
    <3>3. CASE k = n
      <4>1. age[b] = 1 /\ ~(k < n)
        BY <1>1, <3>2, <3>3
      <4>2. links.next[b] = NoBlock
        BY <1>2, <4>1 DEF Counted
      <4> QED BY <1>4, <2>4, <3>2, <4>1, <4>2
    <3>4. CASE k # n
      <4>1. k < n /\ age[b] # 1 /\ age[b] - 1 = n - k
        BY <1>1, <2>4, <3>2, <3>4
      <4>2. links.next[b] \in Names /\ age[links.next[b]] = n - k
        BY <1>2, <4>1 DEF Counted
      <4>3. g[k] = At(n - k)
        BY <4>1
      <4> QED BY <1>4, <1>5, <2>4, <3>2, <4>2, <4>3
    <3> QED BY <3>3, <3>4
  <2> QED BY <2>1, <2>2, <2>3, <2>4
<1>7. Chain = g
  <2>1. g = [k \in Nat |-> g[k]]
    OBVIOUS
  <2> HIDE DEF g
  <2>2. g = Follow(g)
    BY <1>6, <2>1 DEF Follow
  <2> QED BY <2>2, ChainUnique
<1>8. ASSUME NEW b \in Linked PROVE b \in Names
  <2>1. PICK k \in 0 .. n : b = g[k] /\ b # NoBlock
    BY <1>7, <1>8 DEF Linked, n
  <2>2. k < n /\ n - k \in 1 .. n /\ b = At(n - k)
    BY <1>1, <2>1
  <2> QED BY <1>3, <2>2
<1>9. ASSUME NEW b \in Names PROVE b \in Linked
  <2>1. PICK k : k = n - age[b]
    OBVIOUS
  <2>2. age[b] \in 1 .. n
    BY <1>4
  <2>3. k \in 0 .. n /\ k < n /\ n - k = age[b]
    BY <1>1, <2>1, <2>2
  <2>4. g[k] = b
    BY <1>5, <2>3
  <2> QED BY <1>4, <1>7, <2>3, <2>4 DEF Linked, n
<1> QED BY <1>8, <1>9

----------------------------------------------------------------------------
(* The refinement: the scopes and the groups as HandleStack sees them. *)

LiveOK == GroupsLive /\ ValuesOK /\ LinksOK /\ CountedOK

\* The scopes and the groups as the abstract stack sees them.
Cells(s, m) == [deferred |-> s.kind = "deferred", own |-> [p \in s.handles |-> m[p]]]
Abstract(ss, m) == [k \in DOMAIN ss |-> Cells(ss[k], m)]
Detached(ds, m) == {[p \in d.handles |-> m[p]] : d \in ds}

\* The cells of one scope.
LEMMA CellsAre ==
  ASSUME NEW s, NEW m
  PROVE  /\ DOMAIN Cells(s, m).own = s.handles
         /\ \A p \in s.handles : Cells(s, m).own[p] = m[p]
BY DEF Cells

\* A scope with the same handles and values has the same cells.
LEMMA CellsSame ==
  ASSUME NEW s, NEW t, NEW m, NEW n, s.kind = t.kind, s.handles = t.handles,
         \A p \in s.handles : n[p] = m[p]
  PROVE  Cells(t, n) = Cells(s, m)
<1>1. [p \in t.handles |-> n[p]] = [p \in s.handles |-> m[p]]
  OBVIOUS
<1>2. (t.kind = "deferred") = (s.kind = "deferred")
  OBVIOUS
<1> QED BY <1>1, <1>2, Zenon DEF Cells

\* The abstract stack, element by element.
LEMMA AbstractIs ==
  ASSUME NEW ss \in Seq(ScopeRecord), NEW m
  PROVE  /\ Abstract(ss, m) \in Seq({Cells(s, m) : s \in ScopeRecord})
         /\ Len(Abstract(ss, m)) = Len(ss) /\ DOMAIN Abstract(ss, m) = 1 .. Len(ss)
         /\ \A k \in 1 .. Len(ss) : Abstract(ss, m)[k] = Cells(ss[k], m)
<1> DEFINE C(k) == Cells(ss[k], m)
           S == {Cells(s, m) : s \in ScopeRecord}
<1>1. Len(ss) \in Nat /\ DOMAIN ss = 1 .. Len(ss) /\ \A k \in 1 .. Len(ss) : ss[k] \in ScopeRecord
  OBVIOUS
<1>2. \A k \in 1 .. Len(ss) : C(k) \in S
  BY <1>1
<1>3. Abstract(ss, m) = [k \in 1 .. Len(ss) |-> C(k)]
  BY <1>1 DEF Abstract
<1> HIDE DEF C, S
<1>4. [k \in 1 .. Len(ss) |-> C(k)] \in Seq(S)
  BY <1>1, <1>2, IsASeq
<1>5. Abstract(ss, m) \in Seq(S) /\ DOMAIN Abstract(ss, m) = 1 .. Len(ss)
  BY <1>3, <1>4
<1>6. Len(Abstract(ss, m)) = Len(ss)
  BY <1>1, <1>5
<1> QED BY <1>3, <1>5, <1>6 DEF C, S

\* A memory that agrees on the handles makes no difference.
LEMMA AbstractSame ==
  ASSUME NEW ss \in Seq(ScopeRecord), NEW m, NEW n, \A p \in HandlesOf(ss) : n[p] = m[p]
  PROVE  Abstract(ss, n) = Abstract(ss, m)
<1>1. \A k \in DOMAIN ss : Cells(ss[k], n) = Cells(ss[k], m)
  <2> SUFFICES ASSUME NEW k \in DOMAIN ss PROVE Cells(ss[k], n) = Cells(ss[k], m)
    OBVIOUS
  <2>1. \A p \in ss[k].handles : n[p] = m[p]
    BY DEF HandlesOf
  <2> QED BY <2>1, CellsSame
<1> QED BY <1>1 DEF Abstract

\* The same for the groups.
LEMMA DetachedSame ==
  ASSUME NEW ds, NEW m, NEW n, \A p \in GroupHandles(ds) : n[p] = m[p]
  PROVE  Detached(ds, n) = Detached(ds, m)
<1>1. \A d \in ds : [p \in d.handles |-> n[p]] = [p \in d.handles |-> m[p]]
  BY DEF GroupHandles
<1> QED BY <1>1 DEF Detached

\* Opening a scope.
LEMMA AbstractAppend ==
  ASSUME NEW ss \in Seq(ScopeRecord), NEW s \in ScopeRecord, NEW m
  PROVE  Abstract(Append(ss, s), m) = Append(Abstract(ss, m), Cells(s, m))
<1> DEFINE A == Abstract(ss, m)
           B == Abstract(Append(ss, s), m)
           S == {Cells(t, m) : t \in ScopeRecord}
<1>1. /\ A \in Seq(S) /\ Len(A) = Len(ss) /\ Cells(s, m) \in S
      /\ \A k \in 1 .. Len(ss) : A[k] = Cells(ss[k], m)
  BY AbstractIs
<1>2. /\ Append(ss, s) \in Seq(ScopeRecord) /\ Len(Append(ss, s)) = Len(ss) + 1
      /\ Append(ss, s)[Len(ss) + 1] = s /\ Len(ss) \in Nat
      /\ \A k \in 1 .. Len(ss) : Append(ss, s)[k] = ss[k]
  OBVIOUS
<1>3. /\ B \in Seq(S) /\ Len(B) = Len(ss) + 1
      /\ \A k \in 1 .. Len(ss) + 1 : B[k] = Cells(Append(ss, s)[k], m)
  BY <1>2, AbstractIs
<1> HIDE DEF A, B, S
<1>4. /\ Append(A, Cells(s, m)) \in Seq(S) /\ Len(Append(A, Cells(s, m))) = Len(ss) + 1
      /\ \A k \in 1 .. Len(ss) : Append(A, Cells(s, m))[k] = A[k]
      /\ Append(A, Cells(s, m))[Len(ss) + 1] = Cells(s, m)
  BY <1>1, AppendProperties
<1>5. \A k \in 1 .. Len(ss) + 1 : k \in 1 .. Len(ss) \/ k = Len(ss) + 1
  BY <1>2
<1>6. \A k \in 1 .. Len(ss) : k \in 1 .. Len(ss) + 1
  BY <1>2
<1>7. \A k \in 1 .. Len(B) : B[k] = Append(A, Cells(s, m))[k]
  BY <1>1, <1>2, <1>3, <1>4, <1>5, <1>6
<1>8. B = Append(A, Cells(s, m))
  BY <1>3, <1>4, <1>7, SeqEqual
<1> QED BY <1>8 DEF A, B

\* Closing one.
LEMMA AbstractPopped ==
  ASSUME scopes \in Seq(ScopeRecord), scopes # <<>>, NEW m
  PROVE  /\ Abstract(Popped, m) = SubSeq(Abstract(scopes, m), 1, Len(Abstract(scopes, m)) - 1)
         /\ Abstract(scopes, m)[Len(Abstract(scopes, m))] = Cells(Top, m)
<1> DEFINE A == Abstract(scopes, m)
           S == {Cells(t, m) : t \in ScopeRecord}
<1>1. /\ A \in Seq(S) /\ Len(A) = Len(scopes) /\ Len(scopes) \in Nat /\ Len(scopes) > 0
      /\ \A k \in 1 .. Len(scopes) : A[k] = Cells(scopes[k], m)
  <2>1. A \in Seq(S) /\ Len(A) = Len(scopes) /\ \A k \in 1 .. Len(scopes) : A[k] = Cells(scopes[k], m)
    BY AbstractIs
  <2>2. Len(scopes) \in Nat /\ Len(scopes) > 0
    OBVIOUS
  <2> QED BY <2>1, <2>2
<1>2. /\ Popped \in Seq(ScopeRecord) /\ Len(Popped) = Len(scopes) - 1
      /\ \A k \in 1 .. Len(scopes) - 1 : Popped[k] = scopes[k]
      /\ Top = scopes[Len(scopes)]
  BY HandlesPopped
<1>3. /\ Abstract(Popped, m) \in Seq(S) /\ Len(Abstract(Popped, m)) = Len(scopes) - 1
      /\ \A k \in 1 .. Len(scopes) - 1 : Abstract(Popped, m)[k] = Cells(Popped[k], m)
  BY <1>2, AbstractIs
<1> HIDE DEF A, S
<1>4. /\ SubSeq(A, 1, Len(scopes) - 1) \in Seq(S) /\ Len(SubSeq(A, 1, Len(scopes) - 1)) = Len(scopes) - 1
      /\ \A k \in 1 .. Len(scopes) - 1 : SubSeq(A, 1, Len(scopes) - 1)[k] = A[k]
  <2>1. Len(scopes) - 1 \in 0 .. Len(A)
    BY <1>1
  <2> QED BY <1>1, <2>1, Prefix
<1>5. \A k \in 1 .. Len(scopes) - 1 : k \in 1 .. Len(scopes)
  BY <1>1
<1>6. Abstract(Popped, m) = SubSeq(A, 1, Len(scopes) - 1)
  BY <1>1, <1>2, <1>3, <1>4, <1>5, SeqEqual
<1>7. A[Len(scopes)] = Cells(Top, m)
  BY <1>1, <1>2
<1> QED BY <1>1, <1>6, <1>7 DEF A

\* The cells of own with one more.
More(own, p, v) == [x \in DOMAIN own \cup {p} |-> IF x = p THEN v ELSE own[x]]
Put(stack, k, f) == [stack EXCEPT ![k].own = f]
Reown(c, f) == [c EXCEPT !.own = f]
Values(handles, m) == [p \in handles |-> m[p]]

\* Replacing what one scope owns.
LEMMA CellsExcept ==
  ASSUME NEW s, NEW t, NEW m, NEW n, t.kind = s.kind, NEW c, c = Cells(s, m), NEW f, f = Values(t.handles, n)
  PROVE  Cells(t, n) = Reown(c, f)
<1> DEFINE b == s.kind = "deferred"
<1>1. Cells(t, n) = [deferred |-> b, own |-> f]
  BY DEF Cells, Values
<1>2. PICK g : g = [p \in s.handles |-> m[p]]
  OBVIOUS
<1>3. Cells(s, m) = [deferred |-> b, own |-> g]
  BY <1>2 DEF Cells
<1> HIDE DEF b
<1> QED BY <1>1, <1>3 DEF Reown

\* Making a handle.
LEMMA AbstractAdd ==
  ASSUME NEW ss \in Seq(ScopeRecord), Len(ss) > 0, NEW p \in Slot, NEW m, NEW n,
         p \notin HandlesOf(ss), \A q \in HandlesOf(ss) : n[q] = m[q]
  PROVE  Abstract(AddHandle(ss, p), n) =
           Put(Abstract(ss, m), Len(ss), More(Abstract(ss, m)[Len(ss)].own, p, n[p]))
<1> DEFINE L == Len(ss)
           A == Abstract(ss, m)
           tt == AddHandle(ss, p)
           B == Abstract(tt, n)
           W == More(A[L].own, p, n[p])
<1>1. /\ L \in 1 .. L /\ DOMAIN ss = 1 .. L
      /\ DOMAIN A = 1 .. L /\ \A k \in 1 .. L : A[k] = Cells(ss[k], m)
  <2>1. L \in 1 .. L /\ DOMAIN ss = 1 .. L
    OBVIOUS
  <2>2. DOMAIN A = 1 .. L /\ \A k \in 1 .. L : A[k] = Cells(ss[k], m)
    BY AbstractIs, Zenon
  <2> QED BY <2>1, <2>2
<1>2. /\ tt \in Seq(ScopeRecord) /\ Len(tt) = L
      /\ \A k \in 1 .. L :
           /\ tt[k].kind = ss[k].kind
           /\ tt[k].handles = IF k = L THEN ss[k].handles \cup {p} ELSE ss[k].handles
  BY MoreHandles
<1>3. B = [k \in 1 .. L |-> Cells(tt[k], n)]
  BY <1>2 DEF Abstract
<1>4. \A k \in 1 .. L : \A q \in ss[k].handles : q # p /\ n[q] = m[q]
  BY <1>1 DEF HandlesOf
<1>5. W = Values(tt[L].handles, n)
  <2>1. DOMAIN A[L].own = ss[L].handles /\ \A q \in ss[L].handles : A[L].own[q] = m[q]
    <3>1. PICK s : s = ss[L]
      OBVIOUS
    <3>2. A[L] = Cells(s, m)
      BY <1>1, <3>1
    <3>3. DOMAIN Cells(s, m).own = s.handles /\ \A q \in s.handles : Cells(s, m).own[q] = m[q]
      BY CellsAre
    <3> QED BY <3>1, <3>2, <3>3
  <2>2. tt[L].handles = ss[L].handles \cup {p}
    BY <1>1, <1>2
  <2>3. W = [q \in tt[L].handles |-> IF q = p THEN n[p] ELSE A[L].own[q]]
    BY <2>1, <2>2 DEF More
  <2>4. \A q \in tt[L].handles : (IF q = p THEN n[p] ELSE A[L].own[q]) = n[q]
    BY <1>1, <1>4, <2>1, <2>2
  <2> QED BY <2>3, <2>4 DEF Values
<1> HIDE DEF W
<1>6. Cells(tt[L], n) = Reown(A[L], W)
  <2>1. A[L] = Cells(ss[L], m) /\ tt[L].kind = ss[L].kind
    BY <1>1, <1>2
  <2> QED BY <1>5, <2>1, CellsExcept
<1>7. ASSUME NEW k \in 1 .. L, k # L PROVE Cells(tt[k], n) = A[k]
  <2>1. tt[k].kind = ss[k].kind /\ tt[k].handles = ss[k].handles /\ \A q \in ss[k].handles : n[q] = m[q]
    BY <1>2, <1>4, <1>7
  <2> QED BY <1>1, <2>1, CellsSame
<1> HIDE DEF L, A, tt, B
<1>8. B = [k \in 1 .. L |-> IF k = L THEN [A[L] EXCEPT !.own = W] ELSE A[k]]
  BY <1>3, <1>6, <1>7 DEF Reown
<1>9. [A EXCEPT ![L].own = W] = [k \in 1 .. L |-> IF k = L THEN [A[L] EXCEPT !.own = W] ELSE A[k]]
  BY <1>1
<1>10. B = [A EXCEPT ![L].own = W]
  BY <1>8, <1>9
<1> QED BY <1>10 DEF L, A, tt, B, W, Put

\* The abstract stack is as deep as the stack of scopes.
LEMMA AbstractLen ==
  ASSUME NEW ss \in Seq(ScopeRecord), Len(ss) > 0, NEW m
  PROVE  Abstract(ss, m) # <<>> /\ Len(Abstract(ss, m)) = Len(ss)
<1>1. Len(Abstract(ss, m)) = Len(ss)
  BY AbstractIs, Zenon
<1> QED BY <1>1

----------------------------------------------------------------------------
AbstractStep == Stack!Next \/ UNCHANGED Stack!vars

LiveIn(A, G) == UNION ({DOMAIN A[k].own : k \in DOMAIN A} \cup {DOMAIN g : g \in G})

\* Membership in the abstract live cells.
LEMMA LiveInIs ==
  ASSUME NEW A, NEW G, NEW p
  PROVE  p \in LiveIn(A, G) <=> (\E k \in DOMAIN A : p \in DOMAIN A[k].own) \/ (\E g \in G : p \in DOMAIN g)
BY DEF LiveIn

\* The abstract live cells are the live handles.
LEMMA StackLive ==
  ASSUME scopes \in Seq(ScopeRecord)
  PROVE  Stack!Live = LiveHandles
<1> DEFINE A == Abstract(scopes, mem)
           G == Detached(deferred, mem)
<1>1. \A p : p \in Stack!Live <=> (\E k \in DOMAIN A : p \in DOMAIN A[k].own) \/ (\E g \in G : p \in DOMAIN g)
  <2>1. Stack!Live = LiveIn(A, G)
    BY DEF Stack!Live, Abstract, Cells, Detached, LiveIn
  <2> QED BY <2>1, LiveInIs
<1>2. DOMAIN A = DOMAIN scopes /\ \A k \in DOMAIN scopes : A[k] = Cells(scopes[k], mem)
  BY DEF Abstract
<1>3. \A k \in DOMAIN scopes : DOMAIN A[k].own = scopes[k].handles
  BY <1>2, CellsAre
<1>4. ASSUME NEW p PROVE (\E g \in G : p \in DOMAIN g) <=> (\E d \in deferred : p \in d.handles)
  <2>1. ASSUME NEW g \in G, p \in DOMAIN g PROVE \E d \in deferred : p \in d.handles
    BY <2>1 DEF Detached
  <2>2. ASSUME NEW d \in deferred, p \in d.handles PROVE \E g \in G : p \in DOMAIN g
    <3>1. PICK g : g = [q \in d.handles |-> mem[q]]
      OBVIOUS
    <3> QED BY <2>2, <3>1 DEF Detached
  <2> QED BY <2>1, <2>2
<1> HIDE DEF A, G
<1>5. \A p : p \in LiveHandles <=> (\E k \in DOMAIN scopes : p \in scopes[k].handles) \/ (\E d \in deferred : p \in d.handles)
  BY DEF LiveHandles, ScopeHandles
<1>6. \A p : p \in Stack!Live <=> p \in LiveHandles
  BY <1>1, <1>2, <1>3, <1>4, <1>5
<1> QED BY <1>6

\* Opening a scope of either kind is Open.
LEMMA OpenImplements ==
  ASSUME IInv, NEW kind \in {"scope", "deferred"}, NEW h \in HandleState,
         scopes' = Append(scopes, NewScope(kind, h)), mem' = mem, deferred' = deferred
  PROVE  AbstractStep
<1>1. scopes \in Seq(ScopeRecord) /\ NewScope(kind, h) \in ScopeRecord
  BY DEF IInv, TypeOK, NewScope, ScopeRecord, HandleState
<1> DEFINE b == (kind = "deferred")
<1>2. Cells(NewScope(kind, h), mem) = [deferred |-> b, own |-> Stack!NoHandles]
  <2>1. NewScope(kind, h).handles = {} /\ NewScope(kind, h).kind = kind
    BY DEF NewScope
  <2>2. [p \in NewScope(kind, h).handles |-> mem[p]] = Stack!NoHandles
    BY <2>1 DEF Stack!NoHandles
  <2> QED BY <2>1, <2>2 DEF Cells
<1>3. Abstract(scopes', mem') = Append(Abstract(scopes, mem), [deferred |-> b, own |-> Stack!NoHandles])
  BY <1>1, <1>2, AbstractAppend
<1>4. Detached(deferred', mem') = Detached(deferred, mem)
  OBVIOUS
<1>5. Stack!Open(b)
  BY <1>3, <1>4 DEF Stack!Open, Abstract, Cells, Detached
<1>6. b \in BOOLEAN
  OBVIOUS
<1> QED BY <1>5, <1>6, Zenon DEF AbstractStep, Stack!Next

\* CreateHandle is Create.
LEMMA CreateImplements ==
  ASSUME IInv, LiveOK, NEW v \in Object, CreateHandle(v)
  PROVE  AbstractStep
<1>1. PICK p \in Slot : /\ p \notin LiveHandles /\ scopes' = AddHandle(scopes, p)
                        /\ mem' = [mem EXCEPT ![p] = v] /\ deferred' = deferred /\ Len(scopes) > 0
  BY CreateEffect DEF LiveOK
<1>2. scopes \in Seq(ScopeRecord) /\ mem \in [Slot -> Object \cup {Junk}]
  BY DEF IInv, TypeOK
<1>3. mem'[p] = v /\ \A q \in HandlesOf(scopes) \cup GroupHandles(deferred) : mem'[q] = mem[q]
  BY <1>1, <1>2, LiveAre
<1>4. p \notin HandlesOf(scopes)
  BY <1>1, LiveAre
<1> DEFINE A == Abstract(scopes, mem)
<1>5. Abstract(scopes', mem') = Put(A, Len(scopes), More(A[Len(scopes)].own, p, v))
  <2>1. PICK m, n : m = mem /\ n = mem'
    OBVIOUS
  <2>2. Len(scopes) > 0 /\ n[p] = v /\ \A q \in HandlesOf(scopes) : n[q] = m[q]
    BY <1>1, <1>3, <2>1
  <2>3. Abstract(AddHandle(scopes, p), n) =
          Put(Abstract(scopes, m), Len(scopes), More(Abstract(scopes, m)[Len(scopes)].own, p, n[p]))
    BY <1>2, <1>4, <2>2, AbstractAdd
  <2> QED BY <1>1, <2>1, <2>2, <2>3
<1>6. Detached(deferred', mem') = Detached(deferred, mem)
  BY <1>1, <1>3, DetachedSame
<1>7. Abstract(scopes, mem) # <<>> /\ Len(Abstract(scopes, mem)) = Len(scopes)
  BY <1>1, <1>2, AbstractLen
<1>8. p \in Slot \ Stack!Live
  BY <1>1, <1>2, StackLive
<1>9. Abstract(scopes', mem') = [A EXCEPT ![Len(A)].own = Stack!With(@, p, v)]
  BY <1>5, <1>7 DEF Put, More, Stack!With
<1>10. Stack!Create
  BY <1>6, <1>7, <1>8, <1>9 DEF Stack!Create, Stack!IsOpen, Abstract, Cells, Detached
<1> QED BY <1>10 DEF AbstractStep, Stack!Next

\* CloseScope is Close.
LEMMA CloseImplements ==
  ASSUME IInv, LiveOK, CloseScope
  PROVE  AbstractStep
<1>1. /\ scopes' = Popped /\ deferred' = deferred
      /\ \A p \in HandlesOf(Popped) \cup GroupHandles(deferred) : mem'[p] = mem[p]
  BY CloseEffect DEF LiveOK
<1>2. scopes \in Seq(ScopeRecord) /\ scopes # <<>> /\ Top.kind = "scope"
  BY DEF IInv, TypeOK, CloseScope
<1>3. Abstract(scopes', mem') = Abstract(Popped, mem)
  BY <1>1, <1>2, AbstractSame, HandlesPopped
<1> DEFINE A == Abstract(scopes, mem)
<1>4. Abstract(scopes', mem') = SubSeq(A, 1, Len(A) - 1) /\ A[Len(A)] = Cells(Top, mem)
  BY <1>2, <1>3, AbstractPopped
<1>5. A # <<>>
  <2>1. Len(scopes) > 0
    BY <1>2
  <2> QED BY <1>2, <2>1, AbstractLen
<1>6. ~Cells(Top, mem).deferred
  BY <1>2 DEF Cells
<1>7. ~A[Len(A)].deferred
  BY <1>4, <1>6
<1>8. Detached(deferred', mem') = Detached(deferred, mem)
  BY <1>1, DetachedSame
<1>9. Stack!Close
  BY <1>4, <1>5, <1>7, <1>8 DEF Stack!Close, Stack!IsOpen, Stack!Top, Stack!Popped, Abstract, Cells, Detached
<1> QED BY <1>9 DEF AbstractStep, Stack!Next

\* CloseAndEscape is Escape.
LEMMA EscapeImplements ==
  ASSUME IInv, LiveOK, NEW stays \in BOOLEAN, CloseAndEscape(stays)
  PROVE  AbstractStep
<1>1. PICK old \in Top.handles, p \in Slot :
        /\ p \notin HandlesOf(Popped) \cup GroupHandles(deferred)
        /\ mem'[p] = mem[old]
        /\ \A q \in HandlesOf(Popped) \cup GroupHandles(deferred) : q \in Slot /\ mem'[q] = mem[q]
        /\ deferred' = deferred
        /\ \/ ~stays /\ scopes' = AddHandle(Popped, p)
           \/ /\ stays
              /\ \E s \in ScopeRecord : /\ s.kind = "scope" /\ s.handles = {}
                                        /\ scopes' = Append(AddHandle(Popped, p), s)
  BY EscapeEffect DEF LiveOK
<1>2. scopes \in Seq(ScopeRecord) /\ scopes # <<>> /\ Len(scopes) > 1 /\ Top.kind = "scope"
  BY DEF IInv, TypeOK, CloseAndEscape
<1> DEFINE A == Abstract(scopes, mem)
           rest == SubSeq(A, 1, Len(A) - 1)
<1>3. rest = Abstract(Popped, mem) /\ A[Len(A)] = Cells(Top, mem)
  BY <1>2, AbstractPopped
<1>4. Len(A) = Len(scopes) /\ Len(A) > 1
  BY <1>2, AbstractLen
<1>5. /\ Popped \in Seq(ScopeRecord) /\ Len(Popped) = Len(A) - 1 /\ Len(Popped) > 0
      /\ AddHandle(Popped, p) \in Seq(ScopeRecord)
  <2>1. Popped \in Seq(ScopeRecord) /\ Len(Popped) = Len(scopes) - 1
    BY <1>2, HandlesPopped
  <2>2. Len(Popped) > 0
    BY <1>2, <2>1
  <2> QED BY <1>4, <2>1, <2>2, MoreHandles
<1>6. PICK m, n : m = mem /\ n = mem'
  OBVIOUS
<1>7. Abstract(AddHandle(Popped, p), n) = Put(rest, Len(A) - 1, More(rest[Len(A) - 1].own, p, m[old]))
  <2>1. n[p] = m[old] /\ \A q \in HandlesOf(Popped) : n[q] = m[q]
    BY <1>1, <1>6
  <2>2. p \notin HandlesOf(Popped)
    BY <1>1
  <2>3. Abstract(AddHandle(Popped, p), n) =
          Put(Abstract(Popped, m), Len(Popped), More(Abstract(Popped, m)[Len(Popped)].own, p, n[p]))
    BY <1>5, <2>1, <2>2, AbstractAdd
  <2> QED BY <1>3, <1>5, <1>6, <2>1, <2>3
<1>8. Cells(Top, mem).own[old] = m[old] /\ DOMAIN Cells(Top, mem).own = Top.handles
  BY <1>6, CellsAre
<1>9. ~Cells(Top, mem).deferred
  BY <1>2 DEF Cells
<1>10. p \notin Stack!Live \ Top.handles
  <2>1. Stack!Live = LiveHandles
    BY <1>2, StackLive
  <2>2. LiveHandles = HandlesOf(Popped) \cup Top.handles \cup GroupHandles(deferred)
    <3>1. ScopeHandles = HandlesOf(Popped) \cup Top.handles
      BY <1>2, HandlesPopped
    <3> QED BY <3>1 DEF LiveHandles, GroupHandles
  <2> QED BY <1>1, <2>1, <2>2
<1> DEFINE new == [rest EXCEPT ![Len(A) - 1].own = Stack!With(@, p, A[Len(A)].own[old])]
<1>11. new = Abstract(AddHandle(Popped, p), mem')
  BY <1>3, <1>6, <1>7, <1>8 DEF Put, More, Stack!With
<1>12. Abstract(scopes', mem') =
         new \o IF stays THEN <<[A[Len(A)] EXCEPT !.own = Stack!NoHandles]>> ELSE <<>>
  <2> DEFINE S == {Cells(t, n) : t \in ScopeRecord}
  <2>1. new \in Seq(S)
    <3>1. Abstract(AddHandle(Popped, p), n) \in Seq({Cells(t, n) : t \in ScopeRecord})
      BY <1>5, AbstractIs
    <3>2. new = Abstract(AddHandle(Popped, p), n)
      BY <1>6, <1>11
    <3> HIDE DEF new
    <3> QED BY <3>1, <3>2
  <2> HIDE DEF S, new
  <2>2. CASE ~stays
    <3>1. Abstract(scopes', mem') = new
      BY <1>1, <1>11, <2>2
    <3>2. new \o <<>> = new
      BY <2>1, ConcatEmptySeq
    <3> QED BY <2>2, <3>1, <3>2
  <2>3. CASE stays
    <3>1. PICK s \in ScopeRecord : /\ s.kind = "scope" /\ s.handles = {}
                                   /\ scopes' = Append(AddHandle(Popped, p), s)
      BY <1>1, <2>3
    <3>2. Abstract(scopes', n) = Append(Abstract(AddHandle(Popped, p), n), Cells(s, n))
      BY <1>5, <3>1, AbstractAppend
    <3>3. Cells(s, n) = Reown(Cells(Top, m), Stack!NoHandles)
      <4>1. PICK t, c, f : t = Top /\ c = Cells(t, m) /\ f = Stack!NoHandles
        OBVIOUS
      <4>2. f = Values(s.handles, n)
        BY <3>1, <4>1 DEF Stack!NoHandles, Values
      <4>3. s.kind = t.kind
        BY <1>2, <3>1, <4>1
      <4>4. Cells(s, n) = Reown(c, f)
        BY <4>1, <4>2, <4>3, CellsExcept
      <4> QED BY <4>1, <4>4
    <3>4. Cells(s, n) \in S
      BY DEF S
    <3>5. Append(new, Cells(s, n)) = new \o <<Cells(s, n)>>
      BY <2>1, <3>4, AppendIsConcat
    <3>6. Cells(s, n) = [A[Len(A)] EXCEPT !.own = Stack!NoHandles]
      BY <1>3, <1>6, <3>3 DEF Reown
    <3>7. Abstract(scopes', mem') = new \o <<Cells(s, n)>>
      BY <1>6, <1>11, <3>2, <3>5
    <3> QED BY <2>3, <3>6, <3>7
  <2> QED BY <2>2, <2>3
<1>13. Detached(deferred', mem') = Detached(deferred, mem)
  <2>1. \A q \in GroupHandles(deferred) : mem'[q] = mem[q]
    BY <1>1
  <2> QED BY <1>1, <2>1, DetachedSame
<1>14. /\ ~A[Len(A)].deferred /\ old \in DOMAIN A[Len(A)].own
       /\ p \notin Stack!Live \ DOMAIN A[Len(A)].own
  BY <1>3, <1>8, <1>9, <1>10
<1>15. Stack!Escape(stays)
  BY <1>4, <1>12, <1>13, <1>14 DEF Stack!Escape, Stack!Top, Stack!Popped, Abstract, Cells, Detached
<1> QED BY <1>15 DEF AbstractStep, Stack!Next

\* DetachDeferredScope is Detach.
LEMMA DetachImplements ==
  ASSUME IInv, DetachDeferredScope
  PROVE  AbstractStep
<1>1. PICK d : deferred' = deferred \cup {d} /\ d.handles = Top.handles
  BY DetachGroup
<1>2. /\ scopes \in Seq(ScopeRecord) /\ scopes # <<>> /\ Top.kind = "deferred"
      /\ scopes' = Popped /\ mem' = mem
  BY DEF IInv, TypeOK, DetachDeferredScope
<1> DEFINE A == Abstract(scopes, mem)
<1>3. Abstract(scopes', mem') = SubSeq(A, 1, Len(A) - 1) /\ A[Len(A)] = Cells(Top, mem)
  BY <1>2, AbstractPopped
<1>4. A # <<>>
  <2>1. Len(scopes) > 0
    BY <1>2
  <2> QED BY <1>2, <2>1, AbstractLen
<1>5. Cells(Top, mem).deferred
  BY <1>2 DEF Cells
<1>6. A[Len(A)].deferred
  BY <1>3, <1>5
<1>7. Detached(deferred', mem') = Detached(deferred, mem) \cup {A[Len(A)].own}
  <2>1. A[Len(A)].own = [p \in Top.handles |-> mem[p]]
    BY <1>3 DEF Cells
  <2>2. Detached(deferred', mem') = Detached(deferred, mem) \cup {[p \in d.handles |-> mem[p]]}
    BY <1>1, <1>2 DEF Detached
  <2>3. [p \in d.handles |-> mem[p]] = [p \in Top.handles |-> mem[p]]
    BY <1>1
  <2> QED BY <2>1, <2>2, <2>3
<1>8. Stack!Detach
  BY <1>3, <1>4, <1>6, <1>7 DEF Stack!Detach, Stack!IsOpen, Stack!Top, Stack!Popped, Abstract, Cells, Detached
<1> QED BY <1>8 DEF AbstractStep, Stack!Next

\* Without one group the abstract groups lose one element, or none if another group has the same cells.
LEMMA DetachedLess ==
  ASSUME NEW ds, NEW d \in ds, NEW m
  PROVE  \/ Detached(ds \ {d}, m) = Detached(ds, m)
         \/ \E g \in Detached(ds, m) : Detached(ds \ {d}, m) = Detached(ds, m) \ {g}
<1> DEFINE F(e) == [p \in e.handles |-> m[p]]
           G == {F(e) : e \in ds}
           H == {F(e) : e \in ds \ {d}}
<1>1. Detached(ds, m) = G /\ Detached(ds \ {d}, m) = H
  BY DEF Detached
<1> HIDE DEF F
<1>2. F(d) \in G /\ G = H \cup {F(d)}
  OBVIOUS
<1>3. H = G \/ H = G \ {F(d)}
  <2> HIDE DEF G, H
  <2> QED BY <1>2
<1> HIDE DEF G, H
<1> QED BY <1>1, <1>2, <1>3

\* DestroyDeferred is Destroy, or a stutter when it had no cell of its own.
LEMMA DestroyImplements ==
  ASSUME IInv, LiveOK, DestroyDeferred
  PROVE  AbstractStep
<1>1. PICK d \in deferred :
        /\ deferred' = deferred \ {d}
        /\ scopes' = scopes
        /\ \A p \in ScopeHandles \cup GroupHandles(deferred') : p \in Slot /\ mem'[p] = mem[p]
  BY DestroyEffect DEF LiveOK
<1>2. scopes \in Seq(ScopeRecord) /\ ScopeHandles = HandlesOf(scopes)
  BY DEF IInv, TypeOK, ScopeHandles, HandlesOf
<1>3. Abstract(scopes', mem') = Abstract(scopes, mem)
  BY <1>1, <1>2, AbstractSame
<1>4. Detached(deferred', mem') = Detached(deferred \ {d}, mem)
  BY <1>1, DetachedSame
<1>5. \/ Detached(deferred', mem') = Detached(deferred, mem)
      \/ \E g \in Detached(deferred, mem) : Detached(deferred', mem') = Detached(deferred, mem) \ {g}
  BY <1>4, DetachedLess
<1>6. CASE Detached(deferred', mem') = Detached(deferred, mem)
  <2>1. UNCHANGED Stack!vars
    BY <1>3, <1>6 DEF Stack!vars, Abstract, Cells, Detached
  <2> QED BY <2>1 DEF AbstractStep
<1>7. CASE \E g \in Detached(deferred, mem) : Detached(deferred', mem') = Detached(deferred, mem) \ {g}
  <2>1. Stack!Destroy
    BY <1>3, <1>7 DEF Stack!Destroy, Abstract, Cells, Detached
  <2> QED BY <2>1 DEF AbstractStep, Stack!Next
<1> QED BY <1>5, <1>6, <1>7

\* Every step of the handle scopes is a step of the abstract stack or a stutter.
LEMMA StepImplements == IInv /\ LiveOK /\ [Next]_vars => AbstractStep
<1> SUFFICES ASSUME IInv, LiveOK, [Next]_vars PROVE AbstractStep
  OBVIOUS
<1>0. hs \in HandleState
  BY DEF IInv, TypeOK
<1>1. CASE OpenScope
  <2>1. scopes' = Append(scopes, NewScope("scope", hs)) /\ mem' = mem /\ deferred' = deferred
    BY <1>1 DEF OpenScope
  <2> QED BY <1>0, <2>1, OpenImplements
<1>2. ASSUME NEW v \in Object, CreateHandle(v) PROVE AbstractStep
  BY <1>2, CreateImplements
<1>3. CASE CloseScope
  BY <1>3, CloseImplements
<1>4. ASSUME NEW stays \in BOOLEAN, CloseAndEscape(stays) PROVE AbstractStep
  BY <1>4, EscapeImplements
<1>5. CASE OpenDeferredScope
  <2>1. scopes' = Append(scopes, NewScope("deferred", hs)) /\ mem' = mem /\ deferred' = deferred
    BY <1>5 DEF OpenDeferredScope
  <2> QED BY <1>0, <2>1, OpenImplements
<1>6. CASE DetachDeferredScope
  BY <1>6, DetachImplements
<1>7. CASE DestroyDeferred
  BY <1>7, DestroyImplements
<1>8. CASE UNCHANGED vars
  <2>1. UNCHANGED Stack!vars
    BY <1>8 DEF vars, Stack!vars
  <2> QED BY <2>1 DEF AbstractStep
<1> QED BY <1>1, <1>2, <1>3, <1>4, <1>5, <1>6, <1>7, <1>8 DEF Next

\* Initially nothing is live.
LEMMA InitLive == Init => LiveOK /\ Stack!Init
<1> SUFFICES ASSUME Init PROVE LiveOK /\ Stack!Init
  OBVIOUS
<1>1. deferred = {} /\ scopes = <<>> /\ Names = {} /\ LiveHandles = {} /\ links.head = NoBlock
  BY DEF Init, Names, LiveHandles, ScopeHandles
<1>2. GroupsLive /\ ValuesOK
  BY <1>1 DEF GroupsLive, ValuesOK
<1>3. LinksOK
  <2>1. [b \in Block |-> 0] \in [Block -> Nat] /\ 0 \in Nat /\ Aged([b \in Block |-> 0], 0)
    BY <1>1 DEF Aged
  <2> QED BY <1>1, <2>1 DEF LinksOK
<1>4. CountedOK
  <2>1. IsFiniteSet(deferred) /\ Cardinality(deferred) = 0
    BY <1>1, FS_EmptySet
  <2>2. [b \in Block |-> 0] \in [Block -> Nat] /\ Counted([b \in Block |-> 0], 0)
    BY <1>1 DEF Counted
  <2> QED BY <2>1, <2>2 DEF CountedOK
<1>5. Stack!Init
  BY <1>1 DEF Stack!Init
<1> QED BY <1>2, <1>3, <1>4, <1>5 DEF LiveOK

\* The four facts about live handles are kept together.
LEMMA NextLive == IInv /\ LiveOK /\ [Next]_vars => LiveOK'
BY NextGroups, NextValues, NextLinks, NextCounted DEF LiveOK

(* What the collector needs of the handle area, kept by every step together *)
(* with IInv: each detached group is exactly the slots its iteration visits, *)
(* every live handle holds an object, and the list of groups, which         *)
(* DetachDeferredScope and DestroyDeferred relink, leads to each group once. *)
THEOREM LiveInductive == Spec => []LiveOK
<1>1. Init => LiveOK
  BY InitLive
<1> QED BY <1>1, NextLive, Inductive, PTL DEF Spec

(* The collector visits exactly the live handles, each of which holds an    *)
(* object (HandleScopeImplementer::IterateThis, DeferredHandles::Iterate,   *)
(* Isolate::IterateDeferredHandles), for every block size and depth.        *)
THEOREM RootsLive == Spec => []RootsAreLive
<1>1. IInv /\ LiveOK => RootsAreLive
  <2> SUFFICES ASSUME IInv, LiveOK PROVE RootsAreLive
    OBVIOUS
  <2>1. Linked = Names
    BY NamesAreBlocks, LinkedAreNames DEF LiveOK
  <2>2. VisitedInBlocks = ScopeHandles
    BY ScopesVisited
  <2>3. {e \in deferred : First(e) \in Linked} = deferred
    BY <2>1 DEF Names
  <2>4. Visited = ScopeHandles \cup UNION {VisitedInGroup(d) : d \in deferred}
    BY <2>2, <2>3 DEF Visited
  <2>5. {VisitedInGroup(d) : d \in deferred} = {d.handles : d \in deferred}
    BY DEF LiveOK, GroupsLive
  <2>6. Visited = LiveHandles
    BY <2>4, <2>5 DEF LiveHandles
  <2> QED BY <2>1, <2>6 DEF RootsAreLive, LiveOK, ValuesOK, Names
<1> QED BY <1>1, Inductive, LiveInductive, PTL

(* The block lists, the spare, the saved pointers and the links implement a *)
(* stack of scopes that own their cells (HandleStack): no handle is lost,   *)
(* given to two scopes or overwritten while its scope or group lives.       *)
THEOREM ImplementsHandleStack == Spec => ImplementsStack
<1>1. Init => Stack!Init
  BY InitLive
<1>2. IInv /\ LiveOK /\ [Next]_vars => [Stack!Next]_(Stack!vars)
  BY StepImplements DEF AbstractStep
<1> QED BY <1>1, <1>2, Inductive, LiveInductive, PTL DEF Spec, ImplementsStack, Stack!Spec

=============================================================================

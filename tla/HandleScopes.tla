---------------------------- MODULE HandleScopes ----------------------------
(***************************************************************************)
(* The handle area of one V8 thread: HandleScopeData (next, limit, level) and *)
(* HandleScopeImplementer (blocks_, spare_,                                 *)
(* last_handle_before_deferred_block_), the HandleScope objects on the C++  *)
(* stack, the deferred handle groups a compilation detaches, and the slots  *)
(* the garbage collector visits.  A pointer into a block is <<block, offset>>, *)
(* offset kHandleBlockSize being one past the end.                          *)
(***************************************************************************)
EXTENDS Integers, Sequences, FiniteSets

CONSTANTS
  Block,            \* the arrays NewArray can return
  NoBlock,          \* spare_ == NULL
  NoPtr,            \* a NULL Object**
  kHandleBlockSize, \* slots in a block
  Object,           \* what a slot may hold
  Junk,             \* content of memory that was never written, or was freed
  MaxDepth          \* bound: scopes open at once

ASSUME BlockAssumption == NoBlock \notin Block
ASSUME PtrAssumption == NoPtr \notin Block \X Nat
ASSUME SizeAssumption == kHandleBlockSize \in Nat \ {0}
ASSUME JunkAssumption == Junk \notin Object

VARIABLES
  hs,        \* HandleScopeData and HandleScopeImplementer of the thread
  scopes,    \* the scope objects on the C++ stack, with the handles made in each
  deferred,  \* the DeferredHandles that exist
  links,     \* deferred_handles_head_ of the isolate, next_ and previous_ of each
  mem        \* the content of every slot

vars == <<hs, scopes, deferred, links, mem>>

Slot == Block \X (0 .. kHandleBlockSize - 1)
Ptr == (Block \X (0 .. kHandleBlockSize)) \cup {NoPtr}
Start(b) == <<b, 0>>
EndOf_OnePast(b) == <<b, kHandleBlockSize + 1>>
EndOf(b) == <<b, kHandleBlockSize>>
LastOf(s) == s[Len(s)]
BlocksIn(s) == {s[i] : i \in DOMAIN s}
SlotsBelow(b, p) == {<<b, o>> : o \in {i \in 0 .. kHandleBlockSize - 1 : p[1] = b /\ i < p[2]}}
AllSlots(b) == {<<b, o>> : o \in 0 .. kHandleBlockSize - 1}
Top == LastOf(scopes)
Popped == SubSeq(scopes, 1, Len(scopes) - 1)

----------------------------------------------------------------------------
(* The block list.  Operators on a value h of hs; where the code may take   *)
(* any free array the operator is the set of the possible results.          *)

Allocated(h) ==
  BlocksIn(h.blocks) \cup ({h.spare} \ {NoBlock})
    \cup UNION {BlocksIn(d.blocks) : d \in deferred}

SpareOrNewBlock(h) ==
  IF h.spare # NoBlock THEN {h.spare} ELSE Block \ Allocated(h)

PushBlock_KeepsSpare(h, b) ==
  [h EXCEPT !.blocks = Append(@, b), !.next = Start(b), !.limit = EndOf(b)]

PushBlock(h, b) ==
  [h EXCEPT !.blocks = Append(@, b), !.spare = NoBlock,
            !.next = Start(b), !.limit = EndOf(b)]

\* Room for one more handle: the rest of the last block if the limit is not
\* its end, else the spare block or a new one.
Extend(h) ==
  LET rest == [h EXCEPT !.limit = IF h.blocks = <<>> THEN @ ELSE EndOf(LastOf(h.blocks))]
  IN  IF rest.next # rest.limit THEN {rest}
      ELSE {PushBlock(rest, b) : b \in SpareOrNewBlock(h)}

WithRoom(h) == IF h.next # h.limit THEN {h} ELSE Extend(h)

Bump(h) == [h EXCEPT !.next = <<h.next[1], h.next[2] + 1>>]

\* How many blocks remain when blocks are dropped from the end until one ends
\* at lim, or none is left.
Kept(blocks, lim) ==
  {n \in 0 .. Len(blocks) :
     /\ n = 0 \/ EndOf(blocks[n]) = lim
     /\ \A m \in n + 1 .. Len(blocks) : EndOf(blocks[m]) # lim}

\* Blocks above n are returned one by one; each replaces the spare, which is
\* freed, so the lowest of them ends up as the spare.
DeleteExtensions(h, lim) ==
  {[h EXCEPT !.blocks = SubSeq(@, 1, n),
             !.spare = IF n < Len(h.blocks) THEN h.blocks[n + 1] ELSE @]
     : n \in Kept(h.blocks, lim)}

Leave_LevelStays(h, s) ==
  LET back == [h EXCEPT !.next = s.prevNext]
  IN  IF h.limit = s.prevLimit THEN {back}
      ELSE DeleteExtensions([back EXCEPT !.limit = s.prevLimit], s.prevLimit)

Leave(h, s) ==
  LET back == [h EXCEPT !.next = s.prevNext, !.level = @ - 1]
  IN  IF h.limit = s.prevLimit THEN {back}
      ELSE DeleteExtensions([back EXCEPT !.limit = s.prevLimit], s.prevLimit)

\* Memory after h became g: arrays that are no longer allocated are gone.
Released(h, g) ==
  [p \in Slot |-> IF p[1] \in Allocated(h) \ Allocated(g) THEN Junk ELSE mem[p]]

----------------------------------------------------------------------------
(* The list of the isolate.  A group goes by its first block, which is in   *)
(* no other.                                                                *)

First(d) == d.blocks[1]

\* The links f with v in the place of b, and those of b gone with its group.
Joined(f, b, at, v) ==
  [x \in Block |-> IF x = b THEN NoBlock ELSE IF x = at THEN v ELSE f[x]]

LinkDeferredHandles(b) ==
  links' = [head |-> b,
            next |-> [links.next EXCEPT ![b] = links.head],
            previous |-> Joined(links.previous, b, links.head, b)]

UnlinkDeferredHandles_OnlyFirst(b) ==
  LET after == links.next[b]
  IN  links' = [head |-> IF links.head = b THEN after ELSE links.head,
                next |-> [links.next EXCEPT ![b] = NoBlock],
                previous |-> Joined(links.previous, b, after, links.previous[b])]

UnlinkDeferredHandles(b) ==
  LET before == links.previous[b]
      after == links.next[b]
  IN  links' = [head |-> IF links.head = b THEN after ELSE links.head,
                next |-> Joined(links.next, b, before, after),
                previous |-> Joined(links.previous, b, after, before)]

----------------------------------------------------------------------------
NewScope(kind, h) ==
  [kind |-> kind, prevNext |-> h.next, prevLimit |-> h.limit, handles |-> {}]

Init ==
  /\ hs = [next |-> NoPtr, limit |-> NoPtr, level |-> 0, blocks |-> <<>>,
           spare |-> NoBlock, lastBefore |-> NoPtr]
  /\ scopes = <<>>
  /\ deferred = {}
  /\ links = [head |-> NoBlock, next |-> [b \in Block |-> NoBlock],
              previous |-> [b \in Block |-> NoBlock]]
  /\ mem = [p \in Slot |-> Junk]

\* The handle p belongs to the innermost scope of ss.
AddHandle(ss, p) == [ss EXCEPT ![Len(ss)].handles = @ \cup {p}]

\* HandleScope::HandleScope / HandleScope::Initialize
OpenScope ==
  /\ Len(scopes) < MaxDepth
  /\ scopes' = Append(scopes, NewScope("scope", hs))
  /\ hs' = [hs EXCEPT !.level = @ + 1]
  /\ UNCHANGED <<deferred, links, mem>>

CreateHandle(v) ==
  /\ hs.level # 0
  /\ \E h \in WithRoom(hs) :
       /\ hs' = Bump(h)
       /\ scopes' = AddHandle(scopes, h.next)
       /\ mem' = [mem EXCEPT ![h.next] = v]
  /\ UNCHANGED <<deferred, links>>

\* ~HandleScope
CloseScope ==
  /\ scopes # <<>>
  /\ Top.kind = "scope"
  /\ \E h \in Leave(hs, Top) :
       /\ hs' = h
       /\ mem' = Released(hs, h)
  /\ scopes' = Popped
  /\ UNCHANGED <<deferred, links>>

CloseAndEscape_ReadsLate(stays) ==
  /\ Len(scopes) > 1
  /\ Top.kind = "scope"
  /\ \E old \in Top.handles :
     \E closed \in Leave(hs, Top) :
     \E h \in WithRoom(closed) :
       /\ mem' = [Released(hs, h) EXCEPT ![h.next] = Released(hs, h)[old]]
       /\ hs' = Bump(h)
       /\ scopes' = AddHandle(Popped, h.next)
  /\ ~stays
  /\ UNCHANGED <<deferred, links>>

\* HandleScope::Close (RawClose, stays = FALSE: the scope is closed for good,
\* its destructor does nothing) and the internal CloseAndEscape (stays = TRUE:
\* the scope starts again above the escaped handle).  The value is read before
\* the scope's blocks go.
CloseAndEscape(stays) ==
  /\ Len(scopes) > 1
  /\ Top.kind = "scope"
  /\ \E old \in Top.handles :
     \E closed \in Leave(hs, Top) :
     \E h \in WithRoom(closed) :
       LET parent == AddHandle(Popped, h.next)
           after == Bump(h)
       IN  /\ mem' = [Released(hs, h) EXCEPT ![h.next] = mem[old]]
           /\ IF stays
              THEN /\ hs' = [after EXCEPT !.level = @ + 1]
                   /\ scopes' = Append(parent, NewScope("scope", after))
              ELSE /\ hs' = after
                   /\ scopes' = parent
  /\ UNCHANGED <<deferred, links>>

\* DeferredHandleScope::DeferredHandleScope: the scope starts in a block of its
\* own, so that the blocks can be detached.  The compiler opens one where
\* handles exist already and never inside another.
OpenDeferredScope ==
  /\ Len(scopes) < MaxDepth
  /\ hs.lastBefore = NoPtr
  /\ hs.blocks # <<>>
  /\ \E b \in SpareOrNewBlock(hs) :
       hs' = [PushBlock(hs, b) EXCEPT !.level = @ + 1, !.lastBefore = hs.next]
  /\ scopes' = Append(scopes, NewScope("deferred", hs))
  /\ UNCHANGED <<deferred, links, mem>>

\* ~CompilationHandleScope: Detach, then ~DeferredHandleScope.
DetachDeferredScope ==
  /\ scopes # <<>>
  /\ Top.kind = "deferred"
  /\ \E n \in Kept(hs.blocks, Top.prevLimit) :
       LET count == Len(hs.blocks) - n
       IN  /\ deferred' = deferred \cup
                {[blocks |-> [i \in 1 .. count |-> hs.blocks[Len(hs.blocks) + 1 - i]],
                  firstLimit |-> hs.next,
                  handles |-> Top.handles]}
           /\ LinkDeferredHandles(LastOf(hs.blocks))
           /\ hs' = [hs EXCEPT !.blocks = SubSeq(@, 1, n), !.lastBefore = NoPtr,
                               !.next = Top.prevNext, !.limit = Top.prevLimit,
                               !.level = @ - 1]
  /\ scopes' = Popped
  /\ UNCHANGED mem

\* ~DeferredHandles: every block is returned in turn, each replacing the spare.
DestroyDeferred ==
  \E d \in deferred :
    /\ deferred' = deferred \ {d}
    /\ UnlinkDeferredHandles(First(d))
    /\ hs' = [hs EXCEPT !.spare = LastOf(d.blocks)]
    /\ mem' = [p \in Slot |->
                 IF p[1] \in ({hs.spare} \cup BlocksIn(d.blocks)) \ {LastOf(d.blocks)}
                 THEN Junk ELSE mem[p]]
    /\ UNCHANGED scopes

Next ==
  \/ OpenScope
  \/ \E v \in Object : CreateHandle(v)
  \/ CloseScope
  \/ \E stays \in BOOLEAN : CloseAndEscape(stays)
  \/ OpenDeferredScope
  \/ DetachDeferredScope
  \/ DestroyDeferred

Spec == Init /\ [][Next]_vars

----------------------------------------------------------------------------
(* What the garbage collector visits.                                       *)

VisitedInBlocks_AllFull ==
  UNION {IF i = Len(hs.blocks) THEN SlotsBelow(hs.blocks[i], hs.next) ELSE AllSlots(hs.blocks[i])
         : i \in DOMAIN hs.blocks}

\* HandleScopeImplementer::IterateThis
VisitedInBlocks ==
  UNION {
    LET b == hs.blocks[i] IN
    IF i = Len(hs.blocks) THEN SlotsBelow(b, hs.next)
    ELSE IF hs.lastBefore # NoPtr /\ hs.lastBefore[1] = b THEN SlotsBelow(b, hs.lastBefore)
    ELSE AllSlots(b)
    : i \in DOMAIN hs.blocks}

\* DeferredHandles::Iterate
VisitedInGroup(d) ==
  UNION {IF i = 1 THEN SlotsBelow(d.blocks[i], d.firstLimit) ELSE AllSlots(d.blocks[i])
         : i \in DOMAIN d.blocks}

\* Isolate::IterateDeferredHandles, which follows the links from the head.
Chain[n \in Nat] ==
  IF n = 0 THEN links.head
  ELSE IF Chain[n - 1] = NoBlock THEN NoBlock ELSE links.next[Chain[n - 1]]

Linked == {Chain[n] : n \in 0 .. Cardinality(deferred)} \ {NoBlock}

Visited ==
  VisitedInBlocks \cup UNION {VisitedInGroup(d) : d \in {e \in deferred : First(e) \in Linked}}

ScopeHandles == UNION {scopes[k].handles : k \in DOMAIN scopes}
LiveHandles == ScopeHandles \cup UNION {d.handles : d \in deferred}

----------------------------------------------------------------------------
ScopeRecord ==
  [kind : {"scope", "deferred"}, prevNext : Ptr, prevLimit : Ptr, handles : SUBSET Slot]
HandleState ==
  [next : Ptr, limit : Ptr, level : Nat, blocks : Seq(Block),
   spare : Block \cup {NoBlock}, lastBefore : Ptr]
Group == [blocks : Seq(Block), firstLimit : Ptr, handles : SUBSET Slot]
Links ==
  [head : Block \cup {NoBlock}, next : [Block -> Block \cup {NoBlock}],
   previous : [Block -> Block \cup {NoBlock}]]

\* Type invariant of the handle area.
TypeOK ==
  /\ hs \in HandleState
  /\ scopes \in Seq(ScopeRecord)
  /\ deferred \subseteq Group
  /\ links \in Links
  /\ mem \in [Slot -> Object \cup {Junk}]

\* The collector visits exactly the handles that are live: a live handle it
\* missed would keep a stale address (api.cc IterateThis), a dead slot it
\* visited would be read as a pointer.  The links lead to each deferred group
\* that exists and to none that was deleted, and every live handle holds an
\* object: its array was not freed under it.
RootsAreLive ==
  /\ Linked = {First(d) : d \in deferred}
  /\ Visited = LiveHandles
  /\ \A p \in LiveHandles : mem[p] \in Object

\* When the last scope is closed the thread gives every block back but the
\* spare: HandleScopeImplementer::Free asserts it (api.h).
NoScopeNoBlocks ==
  scopes = <<>> => /\ hs.blocks = <<>>
                   /\ hs.next = NoPtr
                   /\ hs.limit = NoPtr
                   /\ hs.level = 0

\* The scopes on the C++ stack seen as the abstract stack.
Stack ==
  INSTANCE HandleStack WITH
    Handle <- Slot,
    stack <- [k \in DOMAIN scopes |->
                [deferred |-> scopes[k].kind = "deferred",
                 own |-> [p \in scopes[k].handles |-> mem[p]]]],
    detached <- {[p \in d.handles |-> mem[p]] : d \in deferred}

\* The blocks implement the stack of handle scopes: a new handle is never a
\* live slot and a handle keeps its value until its scope or group goes.
ImplementsStack == Stack!Spec
=============================================================================

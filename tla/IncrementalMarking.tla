------------------------- MODULE IncrementalMarking -------------------------
(***************************************************************************)
(* The incremental marker of V8 and its write barrier.  Marking is done in  *)
(* small steps while the program goes on changing the graph of objects,     *)
(* allocating, shifting arrays and having its young objects scavenged; a    *)
(* last, atomic collection finishes the marking, frees what is not marked   *)
(* and moves the objects of the pages chosen for evacuation, updating the   *)
(* pointers to them whose slots were recorded meanwhile.                    *)
(*                                                                          *)
(* An object stands for the page it is on.  The deque is a set: the order   *)
(* in which objects are visited is left open, and so is whether there is    *)
(* room for one more, the deque being shared with the objects that are not  *)
(* modelled.  The slots buffers of the pages have no length either: any     *)
(* slot may be the one that finds its buffer full.                          *)
(***************************************************************************)
EXTENDS Integers

CONSTANTS
  Object,
  Length,    \* the number of slots of each object
  Young,     \* objects that may be allocated in new space
  Large,     \* arrays of the large object space, which have a progress bar
  Movable,   \* objects on pages that may be chosen for evacuation
  Holds,     \* bound: what the program may store in each object
  Nil,       \* what is no pointer
  Trimmed,   \* the slot was given up by a left trim
  Stale      \* the pointer to where a moved object was

ASSUME LengthAssumption == Length \in [Object -> Nat]
ASSUME LargeAssumption ==
  /\ Large \subseteq Object
  /\ Young \cup Movable \subseteq Object \ Large
ASSUME HoldsAssumption == Holds \in [Object -> SUBSET Object]
ASSUME ValuesAssumption ==
  /\ {Nil, Trimmed, Stale} \cap Object = {}
  /\ Nil # Trimmed /\ Nil # Stale /\ Trimmed # Stale

VARIABLES
  heap, young,  \* the objects, and those of them in new space
  field,        \* what the slots of each object hold
  roots,        \* the objects the program holds in handles
  color,        \* the mark bits
  bar,          \* the progress bar: the slots of a large array scanned so far
  queue,        \* marking_deque_
  overflowed,   \* overflowed_ of the deque
  state,        \* state_
  hurry,        \* should_hurry_
  compacting,   \* is_compacting_
  candidates,   \* EVACUATION_CANDIDATE is set
  rescan,       \* RESCAN_ON_EVACUATION is set
  recorded      \* the slots buffers: <<o, i, v>> if slot i of o is in v's

graph == <<heap, young, field, roots>>
deque == <<queue, overflowed>>
compaction == <<compacting, candidates, rescan, recorded>>
marking == <<color, bar, deque, state, hurry, candidates, rescan, recorded>>
vars == <<graph, marking, compacting>>

Init ==
  /\ heap = {} /\ young = {} /\ roots = {}
  /\ field = [o \in Object |-> [i \in 1..Length[o] |-> Nil]]
  /\ color = [o \in Object |-> "white"]
  /\ bar = [o \in Object |-> 0]
  /\ queue = {} /\ overflowed = FALSE
  /\ state = "STOPPED" /\ hurry = FALSE
  /\ compacting = FALSE /\ candidates = {} /\ rescan = {} /\ recorded = {}

IsMarking == state \in {"MARKING", "COMPLETE"}
Has(c) == {o \in Object : color[o] = c}
All == [o \in Object |-> 1..Length[o]]
Children(o, I) == {field[o][i] : i \in I} \cap Object
AllChildren(o) == Children(o, All[o])

(* The smallest subset of T that contains what S has in T and, with an      *)
(* object, what its slots in Rest refer to in T.                            *)
Reached(S, T, slots) ==
  LET next == [o \in T |-> Children(o, slots[o]) \cap T]
      closed == {X \in SUBSET T : S \cap T \subseteq X /\ \A o \in X : next[o] \subseteq X}
  IN {o \in T : \A X \in closed : o \in X}

----------------------------------------------------------------------------
(* The deque and the slots buffers.                                         *)

(* PushGrey and UnshiftGrey of the objects in S: those that find the deque  *)
(* full are left grey in the heap, and the overflow is noted.               *)
Push(kept, S) ==
  \E P \in SUBSET S :
    /\ queue' = kept \cup P
    /\ overflowed' = (overflowed \/ P # S)

RestartIfNotMarking_Never == state' = state

RestartIfNotMarking == state' = IF state = "COMPLETE" THEN "MARKING" ELSE state

Recolored(S, c) == [o \in Object |-> IF o \in S THEN c ELSE color[o]]

(* RecordSlot of the given slots <<o, i>>, where skipped are the objects    *)
(* that will be visited anyway when the pointers are updated.  A page whose *)
(* buffer is full is no longer evacuated, and will be visited.              *)
RecordSlots(slots, skipped) ==
  LET entries == {<<s[1], s[2], field'[s[1]][s[2]]>> : s \in
                    {t \in slots : t[1] \notin skipped /\ field'[t[1]][t[2]] \in candidates}}
  IN \E evicted \in SUBSET {e[3] : e \in entries} :
       /\ candidates' = candidates \ evicted
       /\ rescan' = rescan \cup evicted
       /\ recorded' = {e \in recorded \cup entries : e[3] \notin evicted}

Skipped == candidates \cup rescan \cup young
NothingRecorded == UNCHANGED <<candidates, rescan, recorded>>

----------------------------------------------------------------------------
(* Starting to mark, and the steps of the marker.                           *)

StartMarking(pages) ==
  /\ state' = "MARKING"
  /\ compacting' = (pages # {})
  /\ candidates' = pages
  /\ rescan' = IF pages = {} THEN {} ELSE Large \cap heap
  /\ color' = Recolored(roots, "grey")
  /\ \E P \in SUBSET roots : queue' = P /\ overflowed' = (P # roots)
  /\ UNCHANGED <<graph, bar, hurry, recorded>>

(* Pages are chosen for evacuation only if nothing is left to be swept from *)
(* the collection before.                                                   *)
Start ==
  /\ state = "STOPPED"
  /\ \/ \E pages \in SUBSET ((Movable \cap heap) \ young) : StartMarking(pages)
     \/ /\ state' = "SWEEPING"
        /\ UNCHANGED <<graph, color, bar, deque, hurry, compaction>>

SweepingEnds == state = "SWEEPING" /\ StartMarking({})

MarkingComplete(then) ==
  /\ state' = IF then = {} THEN "COMPLETE" ELSE state
  /\ hurry' = (hurry \/ then = {})

(* VisitObject.  A large array is scanned in chunks and queued again while  *)
(* there is room; if there is none it is scanned to the end.                *)
Visit(o) ==
  \E end \in IF o \in Large /\ bar[o] < Length[o] THEN bar[o]+1..Length[o]
                                                  ELSE {Length[o]} :
    LET scanned == bar[o]+1..end
        white == Children(o, scanned) \cap Has("white")
    IN /\ color' = [Recolored(white, "grey") EXCEPT ![o] = "black"]
       /\ bar' = [bar EXCEPT ![o] = IF o \in Large THEN end ELSE 0]
       /\ IF end < Length[o]
          THEN queue' = queue \cup white /\ UNCHANGED overflowed
          ELSE Push(queue \ {o}, white)
       /\ UNCHANGED <<graph, compacting>>
       /\ RecordSlots({o} \X scanned, Skipped)

(* ProcessMarkingDeque and the end of Step, one object at a time.           *)
Step ==
  /\ state = "MARKING"
  /\ \/ \E o \in queue : Visit(o) /\ MarkingComplete(queue')
     \/ /\ queue = {}
        /\ MarkingComplete(queue)
        /\ UNCHANGED <<graph, color, bar, deque, compaction>>

----------------------------------------------------------------------------
(* What the program does between the steps.                                 *)

(* AllocateRaw: the object is white, and not on a page to be evacuated.     *)
Allocate(o) ==
  /\ o \notin heap
  /\ heap' = heap \cup {o}
  /\ roots' = roots \cup {o}
  /\ young' \in IF o \in Young THEN {young, young \cup {o}} ELSE {young}
  /\ rescan' = IF compacting /\ o \in Large THEN rescan \cup {o} ELSE rescan
  /\ UNCHANGED <<field, color, bar, deque, state, hurry, compacting, candidates, recorded>>

(* Handles are not behind the barrier.                                      *)
Load(o, v) ==
  /\ o \in roots /\ v \in AllChildren(o) \ roots
  /\ roots' = roots \cup {v}
  /\ UNCHANGED <<heap, young, field, marking, compacting>>

Drop(o) ==
  /\ o \in roots
  /\ roots' = roots \ {o}
  /\ UNCHANGED <<heap, young, field, marking, compacting>>

BlackToGreyAndUnshift(o) ==
  /\ color' = Recolored({o}, "grey")
  /\ Push(queue, {o})
  /\ RestartIfNotMarking

WhiteToGreyAndPush(o) ==
  /\ color' = Recolored({o}, "grey")
  /\ Push(queue, {o})
  /\ RestartIfNotMarking

(* BaseRecordWrite and RecordWriteSlow, after v was stored in slot i of o.  *)
(* A large array that is black has its bar: right of it the slot will be    *)
(* scanned, left of it the value is marked instead of the array.            *)
RecordWriteSlow(o, i, v) ==
  \/ /\ color[v] = "white" /\ color[o] = "black"
     /\ \/ /\ o \in Large /\ i <= bar[o]
           /\ WhiteToGreyAndPush(v)
           /\ RecordSlots({<<o, i>>}, Skipped)
        \/ /\ o \in Large /\ i > bar[o]
           /\ UNCHANGED <<color, deque, state>> /\ NothingRecorded
        \/ /\ o \notin Large
           /\ BlackToGreyAndUnshift(o) /\ NothingRecorded
     /\ UNCHANGED <<bar, hurry>>
  \/ /\ color[v] = "white" /\ color[o] # "black"
     /\ UNCHANGED marking
  \/ /\ color[v] # "white"
     /\ IF compacting /\ color[o] = "black" THEN RecordSlots({<<o, i>>}, Skipped)
                                            ELSE NothingRecorded
     /\ UNCHANGED <<color, bar, deque, state, hurry>>

RecordWrite_NotWhenComplete(o, i, v) ==
  IF state = "MARKING" /\ v \in Object THEN RecordWriteSlow(o, i, v) ELSE UNCHANGED marking

RecordWrite(o, i, v) ==
  IF IsMarking /\ v \in Object THEN RecordWriteSlow(o, i, v) ELSE UNCHANGED marking

Write(o, i, v) ==
  /\ o \in roots /\ field[o][i] # Trimmed
  /\ field' = [field EXCEPT ![o][i] = v]
  /\ RecordWrite(o, i, v)
  /\ UNCHANGED <<heap, young, roots, compacting>>

(* A whole array was changed: a black one is queued again, to be scanned    *)
(* from the start.                                                          *)
RecordWrites(o) ==
  IF IsMarking /\ color[o] = "black"
  THEN /\ bar' = [bar EXCEPT ![o] = 0]
       /\ BlackToGreyAndUnshift(o)
       /\ UNCHANGED <<hurry, candidates, rescan, recorded>>
  ELSE UNCHANGED marking

(* Heap::MoveElements: n slots from src are copied to those from dst.       *)
MoveElements(o, dst, src, n) ==
  /\ o \in roots /\ dst # src
  /\ \A i \in 1..Length[o] : field[o][i] # Trimmed
  /\ {dst + n, src + n} \subseteq 1..Length[o]
  /\ field' = [field EXCEPT ![o] =
       [i \in 1..Length[o] |->
          IF i \in dst..dst + n THEN field[o][i - dst + src] ELSE field[o][i]]]
  /\ RecordWrites(o)
  /\ UNCHANGED <<heap, young, roots, compacting>>

(* A grey array is queued under its new address; what the deque has under   *)
(* the old one is a filler now, which the marker skips.                     *)
TransferMark(o) ==
  IF IsMarking /\ color[o] = "grey"
  THEN Push(queue \ {o}, {o}) /\ RestartIfNotMarking
  ELSE queue' = queue \ {o} /\ UNCHANGED <<overflowed, state>>

(* LeftTrimFixedArray: the array begins at a later address and takes its    *)
(* color there.                                                             *)
LeftTrim(o, n) ==
  /\ o \in roots \ Large
  /\ n \in 1..Length[o] /\ field[o][n] # Trimmed
  /\ field' = [field EXCEPT ![o] =
       [i \in 1..Length[o] |-> IF i <= n THEN Trimmed ELSE field[o][i]]]
  /\ TransferMark(o)
  /\ UNCHANGED <<heap, young, roots, color, bar, hurry, compaction>>

----------------------------------------------------------------------------
(* The collections.                                                         *)

Freed(dead) ==
  /\ heap' = heap \ dead
  /\ color' = Recolored(dead, "white")
  /\ bar' = [o \in Object |-> IF o \in dead THEN 0 ELSE bar[o]]

Erased(dead) ==
  field' = [o \in Object |-> IF o \in dead THEN [i \in 1..Length[o] |-> Nil] ELSE field[o]]

(* IterateAndMarkPointersToFromSpace: the slots of promoted black objects   *)
(* are recorded, since those of young objects never are.                    *)
RecordPromoted(promoted) ==
  IF compacting
  THEN RecordSlots(UNION {{o} \X All[o] : o \in promoted \cap Has("black")},
                   candidates \cup rescan)
  ELSE NothingRecorded

UpdateMarkingDequeAfterScavenge(dead) ==
  queue' = IF IsMarking THEN queue \ dead ELSE queue

(* A scavenge frees the young objects that neither a root nor any old       *)
(* object leads to and promotes some of the others.                         *)
Scavenge ==
  LET fromOld == roots \cup UNION {AllChildren(o) : o \in heap \ young}
      live == Reached(fromOld, young, All)
      dead == young \ live
  IN \E promoted \in SUBSET live :
       /\ Freed(dead) /\ Erased(dead)
       /\ young' = live \ promoted
       /\ UpdateMarkingDequeAfterScavenge(dead)
       /\ RecordPromoted(promoted)
       /\ UNCHANGED <<roots, overflowed, state, hurry, compacting>>

(* Nothing is left of the marking: Finalize or Abort, and the flags and     *)
(* buffers of the pages.                                                    *)
Stopped_RescanKept ==
  /\ state' = "STOPPED" /\ hurry' = FALSE
  /\ compacting' = FALSE /\ candidates' = {} /\ recorded' = {} /\ UNCHANGED rescan
  /\ color' = [o \in Object |-> "white"]
  /\ bar' = [o \in Object |-> 0]

Stopped ==
  /\ state' = "STOPPED" /\ hurry' = FALSE
  /\ compacting' = FALSE /\ candidates' = {} /\ rescan' = {} /\ recorded' = {}
  /\ color' = [o \in Object |-> "white"]
  /\ bar' = [o \in Object |-> 0]

Pending_OverflowLost ==
  Has("white") \cup (IF state = "MARKING" THEN queue ELSE {})

(* What the last collection still visits: the deque unless the marking was  *)
(* complete (Hurry), the grey objects in the heap if the deque overflowed,  *)
(* and what it reaches that is white.                                       *)
Pending ==
  Has("white") \cup (IF state = "MARKING" THEN queue ELSE {})
               \cup (IF overflowed THEN Has("grey") ELSE {})

Rest == [o \in Object |-> IF o \in Pending THEN bar[o]+1..Length[o] ELSE {}]

Marked == Reached(roots \cup Has("grey") \cup Has("black"), heap, Rest)

(* CollectGarbage when the marking may be finished: Finalize, the overflow  *)
(* taken over, MarkLiveObjects, EvacuateNewSpaceAndCandidates.  Pages may   *)
(* still be given up; they are visited then, like the young objects, those  *)
(* that were moved and those that are to be rescanned.                      *)
Finish ==
  /\ IsMarking /\ hurry
  /\ LET marked == Marked
         rest == Rest
         visited == young \cup candidates \cup rescan
     IN /\ heap' = marked
        /\ young' \in SUBSET (young \cap marked)
        /\ \E moved \in SUBSET candidates :
             LET Updated(o, i) ==
                   \/ o \in visited
                   \/ i \in rest[o]
                   \/ \E v \in moved : <<o, i, v>> \in recorded
             IN field' = [o \in Object |-> [i \in 1..Length[o] |->
                  CASE o \notin marked -> Nil
                    [] o \in marked /\ field[o][i] \in moved /\ ~Updated(o, i) -> Stale
                    [] OTHER -> field[o][i]]]
  /\ queue' = IF state = "MARKING" THEN {} ELSE queue
  /\ overflowed' = FALSE
  /\ Stopped
  /\ UNCHANGED roots

(* A full collection that does not use what was marked incrementally: the   *)
(* marking is aborted.  The deque is emptied here, in the code when marking *)
(* starts again; nothing reads it in between.                               *)
AbortAndCollect ==
  LET live == Reached(roots, heap, All)
  IN /\ heap' = live
     /\ young' \in SUBSET (young \cap live)
     /\ Erased(heap \ live)
     /\ queue' = {} /\ overflowed' = FALSE
     /\ Stopped
     /\ UNCHANGED roots

Next ==
  \/ Start \/ SweepingEnds \/ Step
  \/ \E o \in Object : Allocate(o) \/ Drop(o) \/ \E v \in Object : Load(o, v)
  \/ \E o \in Object : \E i \in 1..Length[o], v \in (roots \cap Holds[o]) \cup {Nil} : Write(o, i, v)
  \/ \E o \in Object : \E dst, src \in 1..Length[o], n \in 0..Length[o]-1 :
       MoveElements(o, dst, src, n)
  \/ \E o \in Object : \E n \in 1..Length[o] : LeftTrim(o, n)
  \/ Scavenge \/ Finish \/ AbortAndCollect

Spec == Init /\ [][Next]_vars

----------------------------------------------------------------------------
(* Properties.                                                              *)

Value == Object \cup {Nil, Trimmed}

(* Types, and what the tables of the collector may refer to: the deque and  *)
(* the mark bits belong to objects that exist, young objects are on no page *)
(* to be evacuated, only marking objects have colors.                       *)
TypeOK ==
  /\ DOMAIN field = Object
  /\ young \subseteq heap /\ heap \subseteq Object /\ young \subseteq Young
  /\ \A o \in Object : field[o] \in [1..Length[o] -> Value \cup {Stale}]
  /\ roots \subseteq Object
  /\ color \in [Object -> {"white", "grey", "black"}]
  /\ bar \in [Object -> Nat] /\ \A o \in Object : bar[o] <= Length[o]
  /\ queue \subseteq Object /\ (IsMarking => queue \subseteq heap)
  /\ overflowed \in BOOLEAN /\ hurry \in BOOLEAN /\ compacting \in BOOLEAN
  /\ state \in {"STOPPED", "SWEEPING", "MARKING", "COMPLETE"}
  /\ candidates \subseteq (Movable \cap heap) \ young
  /\ rescan \subseteq heap \ young /\ recorded \subseteq Object \X Nat \X candidates
  /\ Has("grey") \cup Has("black") \subseteq IF IsMarking THEN heap ELSE {}

(* No black object refers to a white one, of a large array only as far as   *)
(* it was scanned; what is grey, or black and partly scanned, is in the     *)
(* deque, or grey ones have overflowed it and the last collection will look *)
(* for them.  This is what the write barrier is for.                        *)
Scanned(o) == 1..(IF o \in Large THEN bar[o] ELSE Length[o])

TriColor ==
  IsMarking =>
    /\ \A o \in Has("black") : Children(o, Scanned(o)) \cap Has("white") = {}
    /\ \A o \in Has("black") : Scanned(o) # 1..Length[o] => o \in queue
    /\ Has("grey") \subseteq queue \/ overflowed

(* What ASSERTs of UpdateMarkingDequeAfterScavenge, VisitObject and         *)
(* Finalize say: an object in the deque is grey, or a large array that is   *)
(* black; and when the marking is complete the deque is empty.              *)
QueuedAreGrey ==
  IsMarking =>
    /\ queue \subseteq Has("grey") \cup (Large \cap Has("black"))
    /\ state = "COMPLETE" => queue = {}

(* No object that is still there refers to one that was freed or to where   *)
(* one was before it was moved, and the program holds none that was freed.  *)
PointersValid ==
  /\ roots \subseteq heap
  /\ \A o \in heap : \A i \in 1..Length[o] : field[o][i] \in heap \cup {Nil, Trimmed}
=============================================================================

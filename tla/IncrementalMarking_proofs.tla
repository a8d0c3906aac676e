---------------------- MODULE IncrementalMarking_proofs ----------------------
(***************************************************************************)
(* Proof that incremental marking frees and moves no object under a pointer *)
(* that is left: PointersValid is an invariant of IncrementalMarking, for   *)
(* any number of objects of any length, whatever pages are evacuated.       *)
(***************************************************************************)
EXTENDS IncrementalMarking, TLAPS

(* While nothing is marked nothing is evacuated, and pages are only         *)
(* evacuated by a compacting collection, which visits large arrays anyway.  *)
Idle ==
  /\ ~IsMarking => candidates = {} /\ rescan = {} /\ recorded = {} /\ ~compacting
  /\ ~compacting => candidates = {}
  /\ compacting => Large \cap heap \subseteq rescan

(* Only black large arrays have scanned slots on their progress bar.        *)
BarsOK == \A o \in Object : o \notin Large \/ color[o] # "black" => bar[o] = 0

(* What is not there refers to nothing.                                     *)
AbsentOK == \A o \in Object \ heap : \A i \in 1..Length[o] : field[o][i] = Nil

(* A black object that will not be visited when the pointers are updated    *)
(* has all its slots recorded that refer to objects to be moved.            *)
SlotsRecorded ==
  \A o \in Has("black") \ Skipped : \A i \in 1..Length[o] :
    field[o][i] \in candidates => <<o, i, field[o][i]>> \in recorded

Inv ==
  /\ TypeOK /\ TriColor /\ QueuedAreGrey /\ PointersValid
  /\ Idle /\ BarsOK /\ AbsentOK /\ SlotsRecorded

-----------------------------------------------------------------------------
(* Lemmas about the operators.                                              *)

(* Reached contains its sources and is closed under the slots followed.     *)
LEMMA ReachedClosed ==
  ASSUME NEW S, NEW T, NEW slots
  PROVE  /\ Reached(S, T, slots) \subseteq T
         /\ S \cap T \subseteq Reached(S, T, slots)
         /\ \A o \in Reached(S, T, slots) :
              Children(o, slots[o]) \cap T \subseteq Reached(S, T, slots)
<1> DEFINE next == [o \in T |-> Children(o, slots[o]) \cap T]
           closed == {X \in SUBSET T : S \cap T \subseteq X /\ \A o \in X : next[o] \subseteq X}
<1>1. Reached(S, T, slots) = {o \in T : \A X \in closed : o \in X}
  BY DEF Reached
<1>2. ASSUME NEW o \in T, NEW v \in next[o], \A X \in closed : o \in X
      PROVE  v \in T /\ \A X \in closed : v \in X
  BY <1>2
<1>3. \A o \in T : next[o] = Children(o, slots[o]) \cap T
  OBVIOUS
<1> HIDE DEF next
<1>4. ASSUME NEW o \in Reached(S, T, slots)
      PROVE  Children(o, slots[o]) \cap T \subseteq Reached(S, T, slots)
  <2>1. o \in T /\ \A X \in closed : o \in X
    BY <1>1
  <2>2. next[o] \subseteq Reached(S, T, slots)
    BY <2>1, <1>1, <1>2
  <2> QED
    BY <2>1, <2>2, <1>3
<1>5. Reached(S, T, slots) \subseteq T /\ S \cap T \subseteq Reached(S, T, slots)
  BY <1>1
<1> QED
  BY <1>4, <1>5

(* What recording slots leaves of the tables: a page that is given up is    *)
(* visited, and a slot is recorded or its page given up.                    *)
LEMMA RecordSlotsFacts ==
  ASSUME NEW slots \in SUBSET (Object \X Nat), NEW skipped,
         RecordSlots(slots, skipped),
         recorded \subseteq Object \X Nat \X candidates
  PROVE  /\ candidates' \subseteq candidates
         /\ rescan \subseteq rescan' /\ rescan' \subseteq rescan \cup candidates
         /\ candidates \subseteq candidates' \cup rescan'
         /\ recorded' \subseteq Object \X Nat \X candidates'
         /\ \A o, i, v : <<o, i, v>> \in recorded /\ v \in candidates'
              => <<o, i, v>> \in recorded'
         /\ \A o, i : <<o, i>> \in slots /\ o \notin skipped /\ field'[o][i] \in candidates'
              => <<o, i, field'[o][i]>> \in recorded'
<1> DEFINE entries ==
      {<<s[1], s[2], field'[s[1]][s[2]]>> : s \in
         {t \in slots : t[1] \notin skipped /\ field'[t[1]][t[2]] \in candidates}}
<1>1. PICK evicted \in SUBSET {e[3] : e \in entries} :
        /\ candidates' = candidates \ evicted
        /\ rescan' = rescan \cup evicted
        /\ recorded' = {e \in recorded \cup entries : e[3] \notin evicted}
  BY DEF RecordSlots
<1>2. \A e \in entries : e \in Object \X Nat \X candidates /\ e[3] \in candidates
  OBVIOUS
<1>3. ASSUME NEW o, NEW i, <<o, i>> \in slots, o \notin skipped, field'[o][i] \in candidates
      PROVE  <<o, i, field'[o][i]>> \in entries
  <2>1. <<o, i>>[1] = o /\ <<o, i>>[2] = i
    OBVIOUS
  <2> QED
    BY <1>3, <2>1
<1> HIDE DEF entries
<1>4. evicted \subseteq candidates
  BY <1>2
<1>5. recorded' \subseteq Object \X Nat \X candidates'
  BY <1>1, <1>2
<1> QED
  BY <1>1, <1>3, <1>4, <1>5

-----------------------------------------------------------------------------
(* The steps that leave the marking alone.                                  *)

LEMMA InitInv == Init => Inv
<1> SUFFICES ASSUME Init PROVE Inv
  OBVIOUS
<1>1. \A o \in Object : color[o] = "white" /\ bar[o] = 0
  BY DEF Init
<1>2. \A o \in Object : field[o] = [i \in 1..Length[o] |-> Nil]
  BY DEF Init
<1>3. ~IsMarking
  BY DEF Init, IsMarking
<1>4. TypeOK
  <2>1. Has("grey") \cup Has("black") = {}
    BY <1>1 DEF Has
  <2>2. \A o \in Object : field[o] \in [1..Length[o] -> Value \cup {Stale}]
    BY <1>2 DEF Value
  <2>3. bar \in [Object -> Nat] /\ \A o \in Object : bar[o] <= Length[o]
    BY LengthAssumption DEF Init
  <2>4. color \in [Object -> {"white", "grey", "black"}]
    BY DEF Init
  <2>5. DOMAIN field = Object
    BY DEF Init
  <2> QED
    BY <1>3, <2>1, <2>2, <2>3, <2>4, <2>5 DEF Init, TypeOK
<1>5. TriColor /\ QueuedAreGrey /\ BarsOK
  BY <1>1, <1>3 DEF TriColor, QueuedAreGrey, BarsOK
<1>6. PointersValid /\ AbsentOK
  BY <1>2 DEF Init, PointersValid, AbsentOK
<1>7. Idle /\ SlotsRecorded
  BY <1>1, <1>3 DEF Init, Idle, SlotsRecorded, Has
<1> QED
  BY <1>4, <1>5, <1>6, <1>7 DEF Inv

LEMMA RootsInv ==
  ASSUME Inv, NEW o \in Object, Drop(o) \/ \E v \in Object : Load(o, v)
  PROVE  Inv'
<1> USE DEF Inv
<1>1. UNCHANGED <<heap, young, field, marking, compacting>>
  BY DEF Drop, Load
<1> USE <1>1 DEF marking, deque
<1>2. roots' \subseteq heap
  <2>1. roots \subseteq heap
    BY DEF PointersValid
  <2>2. CASE Drop(o)
    BY <2>1, <2>2 DEF Drop
  <2>3. ASSUME NEW v \in Object, Load(o, v) PROVE roots' \subseteq heap
    <3>1. v \in AllChildren(o) /\ o \in heap /\ roots' = roots \cup {v}
      BY <2>1, <2>3 DEF Load
    <3>2. v \in heap
      BY <3>1, ValuesAssumption DEF AllChildren, Children, All, PointersValid
    <3> QED
      BY <2>1, <3>1, <3>2
  <2> QED
    BY <2>2, <2>3
<1>3. TypeOK'
  BY <1>2 DEF TypeOK, Value, Has, IsMarking
<1>4. TriColor' /\ QueuedAreGrey'
  BY DEF TriColor, QueuedAreGrey, Scanned, Children, Has, IsMarking
<1>5. PointersValid' /\ AbsentOK'
  BY <1>2 DEF PointersValid, AbsentOK
<1>6. Idle' /\ BarsOK' /\ SlotsRecorded'
  BY DEF Idle, BarsOK, SlotsRecorded, Skipped, IsMarking, Has
<1> QED
  BY <1>3, <1>4, <1>5, <1>6

LEMMA AllocateInv ==
  ASSUME Inv, NEW o \in Object, Allocate(o)
  PROVE  Inv'
<1> USE DEF Inv
<1>1. /\ o \notin heap /\ heap' = heap \cup {o} /\ roots' = roots \cup {o}
      /\ young' \subseteq young \cup {o} /\ young \subseteq young'
      /\ o \in young' => o \in Young
      /\ rescan' = IF compacting /\ o \in Large THEN rescan \cup {o} ELSE rescan
  BY DEF Allocate, TypeOK
<1>2. UNCHANGED <<field, color, bar, queue, overflowed, state, hurry, compacting,
                  candidates, recorded>>
  BY DEF Allocate, deque
<1>3. color[o] = "white"
  BY <1>1 DEF TypeOK, Has
<1>4. \A i \in 1..Length[o] : field[o][i] = Nil
  BY <1>1 DEF AbsentOK
<1>5. TypeOK'
  <2>1. young' \subseteq heap' /\ heap' \subseteq Object /\ young' \subseteq Young
    BY <1>1 DEF TypeOK
  <2>2. candidates' \subseteq (Movable \cap heap') \ young'
    BY <1>1, <1>2 DEF TypeOK
  <2>3. rescan' \subseteq heap' \ young'
    BY <1>1, LargeAssumption DEF TypeOK
  <2>4. (Has("grey") \cup Has("black"))' \subseteq IF IsMarking' THEN heap' ELSE {}
    BY <1>1, <1>2 DEF TypeOK, Has, IsMarking
  <2> QED
    BY <1>1, <1>2, <2>1, <2>2, <2>3, <2>4 DEF TypeOK, Value, IsMarking
<1>6. TriColor' /\ QueuedAreGrey'
  BY <1>2 DEF TriColor, QueuedAreGrey, Scanned, Children, Has, IsMarking
<1>7. PointersValid' /\ AbsentOK'
  BY <1>1, <1>2, <1>4 DEF PointersValid, AbsentOK
<1>8. Idle' /\ BarsOK'
  BY <1>1, <1>2 DEF Idle, BarsOK, IsMarking
<1>9. SlotsRecorded'
  <2>1. Skipped \subseteq Skipped'
    BY <1>1, <1>2 DEF Skipped
  <2> QED
    BY <1>2, <2>1 DEF SlotsRecorded, Has
<1> QED
  BY <1>5, <1>6, <1>7, <1>8, <1>9

(* Nothing is marked when marking starts, and nothing recorded.             *)
LEMMA StartMarkingInv ==
  ASSUME Inv, ~IsMarking, NEW pages \in SUBSET ((Movable \cap heap) \ young),
         StartMarking(pages)
  PROVE  Inv'
<1> USE DEF Inv
<1>1. \A o \in Object : color[o] = "white" /\ bar[o] = 0
  BY DEF TypeOK, Has, BarsOK
<1>2. recorded = {} /\ UNCHANGED <<heap, young, field, roots, bar, hurry, recorded>>
  BY DEF Idle, StartMarking, graph
<1>3. /\ state' = "MARKING" /\ IsMarking' /\ state' # "COMPLETE"
      /\ candidates' = pages
      /\ rescan' = IF pages = {} THEN {} ELSE Large \cap heap
      /\ compacting' = (pages # {})
  BY DEF StartMarking, IsMarking
<1>4. color' = [o \in Object |-> IF o \in roots THEN "grey" ELSE "white"]
  BY <1>1 DEF StartMarking, Recolored
<1>5. PICK P \in SUBSET roots : queue' = P /\ overflowed' = (P # roots)
  BY DEF StartMarking
<1>6. roots \subseteq heap /\ roots \subseteq Object
  BY DEF PointersValid, TypeOK
<1>7. Has("grey")' = roots /\ Has("black")' = {}
  BY <1>4, <1>6 DEF Has
<1>8. TypeOK'
  <2>1. rescan' \subseteq heap' \ young'
    BY <1>2, <1>3, LargeAssumption DEF TypeOK
  <2>2. color' \in [Object -> {"white", "grey", "black"}]
    BY <1>4
  <2>3. queue' \subseteq heap' /\ overflowed' \in BOOLEAN /\ queue' \subseteq Object
    BY <1>2, <1>5, <1>6
  <2> QED
    BY <1>2, <1>3, <1>6, <1>7, <2>1, <2>2, <2>3 DEF TypeOK, Value
<1>9. TriColor' /\ QueuedAreGrey'
  BY <1>3, <1>5, <1>7 DEF TriColor, QueuedAreGrey
<1>10. PointersValid' /\ AbsentOK'
  BY <1>2 DEF PointersValid, AbsentOK
<1>11. Idle'
  BY <1>2, <1>3 DEF Idle
<1>12. BarsOK'
  BY <1>1, <1>2 DEF BarsOK
<1>13. SlotsRecorded'
  BY <1>7 DEF SlotsRecorded
<1> QED
  BY <1>8, <1>9, <1>10, <1>11, <1>12, <1>13

LEMMA StartInv ==
  ASSUME Inv, Start \/ SweepingEnds
  PROVE  Inv'
<1>1. ASSUME state = "STOPPED", state' = "SWEEPING",
             UNCHANGED <<graph, color, bar, deque, hurry, compaction>>
      PROVE  Inv'
  <2> USE <1>1 DEF Inv, graph, deque, compaction
  <2>1. ~IsMarking /\ ~IsMarking'
    BY DEF IsMarking
  <2>2. TypeOK'
    BY <2>1 DEF TypeOK, Has, Value
  <2>3. TriColor' /\ QueuedAreGrey'
    BY <2>1 DEF TriColor, QueuedAreGrey
  <2>4. PointersValid' /\ AbsentOK' /\ BarsOK'
    BY DEF PointersValid, AbsentOK, BarsOK
  <2>5. Idle' /\ SlotsRecorded'
    BY <2>1 DEF Idle, SlotsRecorded, Has, Skipped
  <2> QED
    BY <2>2, <2>3, <2>4, <2>5
<1>2. CASE Start
  <2>1. state = "STOPPED" /\ ~IsMarking
    BY <1>2 DEF Start, IsMarking
  <2> QED
    BY <1>1, <1>2, <2>1, StartMarkingInv DEF Start
<1>3. CASE SweepingEnds
  <2>1. ~IsMarking /\ StartMarking({}) /\ {} \in SUBSET ((Movable \cap heap) \ young)
    BY <1>3 DEF SweepingEnds, IsMarking
  <2> QED
    BY <2>1, StartMarkingInv
<1> QED
  BY <1>2, <1>3

-----------------------------------------------------------------------------
(* The write barrier.                                                       *)

(* A black object that was changed is grey again, in the deque or, if that  *)
(* is full, with the overflow noted.                                        *)
LEMMA RescanInv ==
  ASSUME Inv, IsMarking, NEW o \in heap, color[o] = "black", BlackToGreyAndUnshift(o),
         bar' = [bar EXCEPT ![o] = 0],
         UNCHANGED <<heap, young, roots, hurry, compacting, candidates, rescan, recorded>>,
         DOMAIN field' = Object,
         field'[o] \in [1..Length[o] -> Value],
         \A i \in 1..Length[o] : field'[o][i] \in heap \cup {Nil, Trimmed},
         \A x \in Object \ {o} : field'[x] = field[x]
  PROVE  Inv'
<1> USE DEF Inv
<1>1. o \in Object /\ color' = [x \in Object |-> IF x = o THEN "grey" ELSE color[x]]
  BY DEF TypeOK, BlackToGreyAndUnshift, Recolored
<1>2. PICK P \in SUBSET {o} : queue' = queue \cup P /\ overflowed' = (overflowed \/ P # {o})
  BY DEF BlackToGreyAndUnshift, Push
<1>3. state' = "MARKING" /\ IsMarking'
  BY DEF BlackToGreyAndUnshift, RestartIfNotMarking, IsMarking
<1>4. /\ Has("black")' = Has("black") \ {o} /\ Has("grey")' = Has("grey") \cup {o}
      /\ Has("white")' = Has("white")
  BY <1>1 DEF Has
<1>5. bar' = [x \in Object |-> IF x = o THEN 0 ELSE bar[x]]
  BY DEF TypeOK
<1>6. TypeOK'
  <2>1. \A x \in Object : field'[x] \in [1..Length[x] -> Value \cup {Stale}]
    BY DEF TypeOK
  <2>2. color' \in [Object -> {"white", "grey", "black"}]
    BY <1>1 DEF TypeOK
  <2>3. bar' \in [Object -> Nat] /\ \A x \in Object : bar'[x] <= Length[x]
    BY <1>5, LengthAssumption DEF TypeOK
  <2>4. queue' \subseteq heap' /\ queue' \subseteq Object /\ overflowed' \in BOOLEAN
    BY <1>1, <1>2 DEF TypeOK
  <2>5. (Has("grey") \cup Has("black"))' \subseteq heap'
    BY <1>4 DEF TypeOK
  <2> QED
    BY <1>3, <2>1, <2>2, <2>3, <2>4, <2>5 DEF TypeOK, Value
<1>7. TriColor'
  <2>1. \A x \in Has("black")' : /\ x \in Has("black") /\ Scanned(x)' = Scanned(x)
                                 /\ \A I : Children(x, I)' = Children(x, I)
    BY <1>4, <1>5 DEF Scanned, Children, Has
  <2>2. \A x \in Has("black")' : Children(x, Scanned(x))' \cap Has("white")' = {}
    BY <1>4, <2>1 DEF TriColor
  <2>3. \A x \in Has("black")' : Scanned(x)' # 1..Length[x] => x \in queue'
    BY <1>2, <2>1 DEF TriColor
  <2>4. Has("grey")' \subseteq queue' \/ overflowed'
    BY <1>2, <1>4 DEF TriColor
  <2> QED
    BY <2>2, <2>3, <2>4 DEF TriColor
<1>8. QueuedAreGrey'
  BY <1>2, <1>3, <1>4 DEF QueuedAreGrey
<1>9. PointersValid' /\ AbsentOK'
  <2>1. heap \subseteq Object /\ roots \subseteq heap
    BY DEF TypeOK, PointersValid
  <2>2. AbsentOK'
    BY <1>1 DEF AbsentOK
  <2>3. \A x \in heap : \A i \in 1..Length[x] : field'[x][i] \in heap \cup {Nil, Trimmed}
    BY <2>1 DEF PointersValid
  <2> QED
    BY <2>1, <2>2, <2>3 DEF PointersValid
<1>10. Idle' /\ BarsOK'
  BY <1>1, <1>3, <1>5 DEF Idle, BarsOK
<1>11. SlotsRecorded'
  BY <1>4 DEF SlotsRecorded, Skipped, Has
<1> QED
  BY <1>6, <1>7, <1>8, <1>9, <1>10, <1>11

LEMMA WriteInv ==
  ASSUME Inv, NEW o \in Object, NEW i \in 1..Length[o],
         NEW v \in roots \cup {Nil}, Write(o, i, v)
  PROVE  Inv'
<1> USE DEF Inv
<1>1. /\ o \in roots /\ o \in heap /\ v \in heap \cup {Nil}
      /\ UNCHANGED <<heap, young, roots, compacting>>
      /\ RecordWrite(o, i, v)
  BY DEF Write, PointersValid
<1>2. /\ field' = [x \in Object |-> IF x = o THEN [field[o] EXCEPT ![i] = v] ELSE field[x]]
      /\ DOMAIN field' = Object
  BY DEF Write, TypeOK
<1>3. \A x \in Object : \A j \in 1..Length[x] :
        field'[x][j] = IF x = o /\ j = i THEN v ELSE field[x][j]
  BY <1>2 DEF TypeOK
<1>4. \A x \in Object : field'[x] \in [1..Length[x] -> Value \cup {Stale}]
  <2>1. v \in Value /\ field[o] \in [1..Length[o] -> Value \cup {Stale}]
    BY <1>1 DEF TypeOK, Value
  <2>2. [field[o] EXCEPT ![i] = v] \in [1..Length[o] -> Value \cup {Stale}]
    BY <2>1
  <2>3. \A x \in Object : field[x] \in [1..Length[x] -> Value \cup {Stale}]
    BY DEF TypeOK
  <2>4. field'[o] = [field[o] EXCEPT ![i] = v] /\ \A x \in Object \ {o} : field'[x] = field[x]
    BY <1>2
  <2> QED
    BY <2>2, <2>3, <2>4
<1>5. PointersValid' /\ AbsentOK'
  <2>1. heap \subseteq Object
    BY DEF TypeOK
  <2>2. AbsentOK'
    BY <1>1, <1>3 DEF AbsentOK
  <2>3. \A x \in heap : \A j \in 1..Length[x] : field'[x][j] \in heap \cup {Nil, Trimmed}
    BY <1>1, <1>3, <2>1 DEF PointersValid
  <2> QED
    BY <1>1, <2>2, <2>3 DEF PointersValid
<1>6. Nil \notin Object /\ v \in Object \cup {Nil} /\ candidates \subseteq Object
  BY <1>1, ValuesAssumption DEF TypeOK
<1>7. ASSUME UNCHANGED marking,
             ~IsMarking \/ v = Nil \/ (color[v] = "white" /\ color[o] # "black")
                \/ (v \in Object /\ color[o] = "black" /\ o \in Large /\ i > bar[o])
                \/ (v \in Object /\ color[v] # "white" /\ ~(compacting /\ color[o] = "black"))
      PROVE  Inv'
  <2> USE <1>7 DEF marking, deque
  <2>1. TypeOK'
    BY <1>1, <1>2, <1>4 DEF TypeOK, Value, Has, IsMarking
  <2>2. IsMarking' = IsMarking /\ Has("black")' = Has("black") /\ Has("grey")' = Has("grey")
        /\ Has("white")' = Has("white")
    BY DEF IsMarking, Has
  <2>3. TriColor' /\ QueuedAreGrey'
    <3>1. ASSUME IsMarking, NEW x \in Has("black"), NEW j \in Scanned(x),
                 field'[x][j] \in Object
          PROVE  color[field'[x][j]] # "white"
      <4>1. x \in Object /\ color[x] = "black" /\ bar[x] \in Nat /\ Length[x] \in Nat
            /\ bar[x] <= Length[x]
        BY <3>1, LengthAssumption DEF Has, TypeOK
      <4>4. j \in 1..Length[x] /\ (x \in Large => j <= bar[x])
        BY <3>1, <4>1 DEF Scanned
      <4>2. CASE x = o /\ j = i
        <5>1. field'[x][j] = v /\ v \in Object
          BY <1>3, <3>1, <4>2, <4>4, <4>1
        <5>2. ~(o \in Large /\ i > bar[o])
          BY <4>1, <4>2, <4>4
        <5> QED
          BY <1>6, <1>7, <3>1, <4>1, <4>2, <5>1, <5>2
      <4>3. CASE ~(x = o /\ j = i)
        <5>1. field'[x][j] = field[x][j]
          BY <1>3, <4>1, <4>3, <4>4
        <5> QED
          BY <3>1, <5>1 DEF TriColor, Children, Has
      <4> QED
        BY <4>2, <4>3
    <3>2. \A x : Scanned(x)' = Scanned(x)
      BY DEF Scanned
    <3> QED
      BY <2>2, <3>1, <3>2 DEF TriColor, QueuedAreGrey, Children, Has
  <2>4. Idle' /\ BarsOK'
    BY <1>1, <2>2 DEF Idle, BarsOK
  <2>5. SlotsRecorded'
    <3>1. ASSUME NEW x \in Has("black") \ Skipped, NEW j \in 1..Length[x],
                 field'[x][j] \in candidates
          PROVE  <<x, j, field'[x][j]>> \in recorded
      <4>1. compacting /\ IsMarking /\ x \in Object /\ color[x] = "black" /\ x \in heap
        BY <3>1 DEF Idle, Has, TypeOK
      <4>2. x \notin Large
        BY <3>1, <4>1 DEF Idle, Skipped
      <4>3. ~(x = o /\ j = i)
        BY <1>3, <1>6, <1>7, <3>1, <4>1, <4>2
      <4> QED
        BY <1>3, <3>1, <4>1, <4>3 DEF SlotsRecorded
    <3> QED
      BY <1>1, <2>2, <3>1 DEF SlotsRecorded, Skipped
  <2> QED
    BY <1>5, <2>1, <2>3, <2>4, <2>5
<1>8. ASSUME IsMarking, v \in Object, color[o] = "black", o \notin Large,
             BlackToGreyAndUnshift(o), NothingRecorded, UNCHANGED <<bar, hurry>>
      PROVE  Inv'
  <2>1. bar[o] = 0 /\ bar' = [bar EXCEPT ![o] = 0]
    BY <1>8 DEF BarsOK, TypeOK
  <2>2. \A j \in 1..Length[o] : field'[o][j] \in heap \cup {Nil, Trimmed}
    BY <1>1, <1>3 DEF PointersValid
  <2>3. field'[o] \in [1..Length[o] -> Value]
    BY <1>4, <2>2 DEF TypeOK, Value
  <2>4. \A x \in Object \ {o} : field'[x] = field[x]
    BY <1>2
  <2> QED
    BY <1>1, <1>2, <1>8, <2>1, <2>2, <2>3, <2>4, RescanInv DEF NothingRecorded
<1>9. ASSUME IsMarking, v \in Object, color[o] = "black",
             RecordSlots({<<o, i>>}, Skipped), UNCHANGED <<bar, hurry>>,
             \/ color[v] # "white" /\ UNCHANGED <<color, deque, state>>
             \/ color[v] = "white" /\ o \in Large /\ WhiteToGreyAndPush(v)
      PROVE  Inv'
  <2>1. o \in Object /\ v \in heap
    BY <1>1, <1>6, <1>9
  <2>2. /\ candidates' \subseteq candidates
        /\ rescan \subseteq rescan' /\ rescan' \subseteq rescan \cup candidates
        /\ candidates \subseteq candidates' \cup rescan'
        /\ recorded' \subseteq Object \X Nat \X candidates'
        /\ \A x, j, w : <<x, j, w>> \in recorded /\ w \in candidates'
             => <<x, j, w>> \in recorded'
        /\ \A x, j : <<x, j>> \in {<<o, i>>} /\ x \notin Skipped /\ field'[x][j] \in candidates'
             => <<x, j, field'[x][j]>> \in recorded'
    <3>1. {<<o, i>>} \in SUBSET (Object \X Nat)
      OBVIOUS
    <3>2. recorded \subseteq Object \X Nat \X candidates
      BY DEF TypeOK
    <3> HIDE DEF Inv
    <3> QED
      BY <1>9, <3>1, <3>2, RecordSlotsFacts
  <2>3. /\ IsMarking' /\ (state' = "COMPLETE" => state = "COMPLETE" /\ UNCHANGED <<color, deque>>)
        /\ state' \in {"MARKING", "COMPLETE"}
    BY <1>9 DEF IsMarking, WhiteToGreyAndPush, RestartIfNotMarking
  <2> DEFINE G == {v} \cap Has("white")
  <2>4. /\ color' = [x \in Object |-> IF x \in G THEN "grey" ELSE color[x]]
        /\ queue \subseteq queue' /\ queue' \subseteq queue \cup G
        /\ overflowed' \in BOOLEAN
        /\ overflowed => overflowed'
        /\ G \subseteq queue' \/ overflowed'
    <3>1. CASE color[v] # "white"
      <4>1. UNCHANGED <<color, queue, overflowed>> /\ color = [x \in Object |-> color[x]]
        BY <1>9, <3>1 DEF TypeOK, deque
      <4>2. G = {}
        BY <3>1 DEF Has
      <4> QED
        BY <4>1, <4>2 DEF TypeOK
    <3>2. CASE color[v] = "white"
      <4>1. color' = [x \in Object |-> IF x = v THEN "grey" ELSE color[x]]
        BY <1>9, <3>2 DEF WhiteToGreyAndPush, Recolored
      <4>2. PICK P \in SUBSET {v} : queue' = queue \cup P
                                 /\ overflowed' = (overflowed \/ P # {v})
        BY <1>9, <3>2 DEF WhiteToGreyAndPush, Push
      <4>3. G = {v}
        BY <1>9, <3>2 DEF Has
      <4>4. overflowed' \in BOOLEAN /\ (overflowed => overflowed') /\ ({v} \subseteq queue' \/ overflowed')
        BY <4>2 DEF TypeOK
      <4> QED
        BY <4>1, <4>2, <4>3, <4>4
    <3> QED
      BY <3>1, <3>2
  <2>5. /\ G \cap (Has("black") \cup Has("grey")) = {} /\ G \subseteq {v}
        /\ color[v] = "white" => v \in G
    BY <1>9 DEF Has
  <2>20. Has("black")' = Has("black") /\ Has("grey")' = Has("grey") \cup G
         /\ Has("white")' = Has("white") \ G
    BY <2>4 DEF Has
  <2> HIDE DEF G
  <2>6. TypeOK'
    <3>1. color' \in [Object -> {"white", "grey", "black"}]
      BY <2>4, <2>5, <2>20 DEF TypeOK
    <3>2. queue' \subseteq heap' /\ queue' \subseteq Object
      BY <1>1, <1>9, <2>1, <2>4, <2>5, <2>20 DEF TypeOK
    <3>3. (Has("grey") \cup Has("black"))' \subseteq heap'
      BY <1>1, <1>9, <2>1, <2>4, <2>5, <2>20 DEF TypeOK
    <3>4. candidates' \subseteq (Movable \cap heap') \ young' /\ rescan' \subseteq heap' \ young'
      BY <1>1, <2>2 DEF TypeOK
    <3> QED
      BY <1>1, <1>2, <1>4, <1>9, <2>2, <2>3, <2>4, <2>5, <2>20, <3>1, <3>2, <3>3, <3>4 DEF TypeOK, Value
  <2>7. TriColor'
    <3>1. \A x : Scanned(x)' = Scanned(x)
      BY <1>9 DEF Scanned
    <3>2. ASSUME NEW x \in Has("black"), NEW j \in Scanned(x), field'[x][j] \in Object
          PROVE  field'[x][j] \notin Has("white")'
      <4>1. x \in Object /\ color[x] = "black" /\ bar[x] \in Nat /\ Length[x] \in Nat
            /\ bar[x] <= Length[x]
        BY <3>2, LengthAssumption DEF Has, TypeOK
      <4>2. j \in 1..Length[x]
        BY <3>2, <4>1 DEF Scanned
      <4>3. CASE x = o /\ j = i
        <5>1. field'[x][j] = v
          BY <1>3, <4>1, <4>2, <4>3
        <5> QED
          BY <1>6, <2>4, <2>5, <2>20, <5>1 DEF Has
      <4>4. CASE ~(x = o /\ j = i)
        <5>1. field'[x][j] = field[x][j]
          BY <1>3, <4>1, <4>2, <4>4
        <5> QED
          BY <1>9, <2>4, <2>5, <2>20, <3>2, <5>1 DEF TriColor, Children
      <4> QED
        BY <4>3, <4>4
    <3>3. \A x \in Has("black")' : Children(x, Scanned(x))' \cap Has("white")' = {}
      BY <2>20, <3>1, <3>2 DEF Children
    <3>4. \A x \in Has("black")' : Scanned(x)' # 1..Length[x] => x \in queue'
      BY <1>9, <2>4, <2>5, <2>20, <3>1 DEF TriColor
    <3>5. Has("grey")' \subseteq queue' \/ overflowed'
      BY <1>9, <2>4, <2>5, <2>20 DEF TriColor
    <3> QED
      BY <3>3, <3>4, <3>5 DEF TriColor
  <2>8. QueuedAreGrey'
    <3>1. state' = "COMPLETE" => queue' = {}
      BY <1>9, <2>3 DEF QueuedAreGrey, deque
    <3>2. queue' \subseteq Has("grey")' \cup (Large \cap Has("black")')
      BY <1>9, <2>4, <2>5, <2>20 DEF QueuedAreGrey
    <3> QED
      BY <3>1, <3>2 DEF QueuedAreGrey
  <2>9. Idle' /\ BarsOK'
    <3>1. Idle'
      BY <1>1, <2>2, <2>3 DEF Idle
    <3>2. BarsOK'
      BY <1>9, <2>4, <2>5, <2>20 DEF BarsOK
    <3> QED
      BY <3>1, <3>2
  <2>10. SlotsRecorded'
    <3>1. ASSUME NEW x \in (Has("black") \ Skipped)', NEW j \in 1..Length[x],
                 field'[x][j] \in candidates'
          PROVE  <<x, j, field'[x][j]>> \in recorded'
      <4>1. x \notin Skipped /\ x \in Object /\ x \in Has("black")
        BY <1>1, <2>2, <2>20, <3>1 DEF Skipped, Has
      <4>2. CASE x = o /\ j = i
        BY <2>2, <3>1, <4>1, <4>2
      <4>3. CASE ~(x = o /\ j = i)
        <5>1. field'[x][j] = field[x][j] /\ field[x][j] \in candidates
          BY <1>3, <2>2, <3>1, <4>1, <4>3
        <5> QED
          BY <2>2, <3>1, <4>1, <5>1 DEF SlotsRecorded
      <4> QED
        BY <4>2, <4>3
    <3> HIDE DEF Inv
    <3> QED
      BY <3>1 DEF SlotsRecorded
  <2> QED
    BY <1>5, <2>6, <2>7, <2>8, <2>9, <2>10
<1>10. CASE ~IsMarking \/ v = Nil
  BY <1>1, <1>6, <1>7, <1>10 DEF RecordWrite
<1>11. CASE IsMarking /\ v # Nil
  <2>1. v \in Object /\ RecordWriteSlow(o, i, v)
    BY <1>1, <1>6, <1>11 DEF RecordWrite
  <2>2. CASE color[v] = "white" /\ color[o] = "black"
    <3>1. CASE o \in Large /\ i <= bar[o]
      <4>2. ~(i > bar[o])
        BY <1>1, <3>1 DEF TypeOK
      <4>1. /\ WhiteToGreyAndPush(v) /\ RecordSlots({<<o, i>>}, Skipped)
            /\ UNCHANGED <<bar, hurry>>
        BY <2>1, <2>2, <3>1, <4>2 DEF RecordWriteSlow
      <4> HIDE DEF Inv
      <4> QED
        BY <1>9, <1>11, <2>1, <2>2, <3>1, <4>1
    <3>2. CASE o \in Large /\ ~(i <= bar[o])
      <4>1. bar[o] \in Nat /\ i > bar[o]
        BY <1>1, <3>2 DEF TypeOK
      <4>2. UNCHANGED marking
        BY <2>1, <2>2, <3>2 DEF RecordWriteSlow, NothingRecorded, marking, deque
      <4> QED
        BY <1>7, <2>1, <2>2, <3>2, <4>1, <4>2
    <3>3. CASE o \notin Large
      BY <1>8, <1>11, <2>1, <2>2, <3>3 DEF RecordWriteSlow
    <3> QED
      BY <3>1, <3>2, <3>3
  <2>3. CASE color[v] = "white" /\ color[o] # "black"
    BY <1>7, <2>1, <2>3 DEF RecordWriteSlow
  <2>4. CASE color[v] # "white" /\ compacting /\ color[o] = "black"
    BY <1>9, <1>11, <2>1, <2>4 DEF RecordWriteSlow
  <2>5. CASE color[v] # "white" /\ ~(compacting /\ color[o] = "black")
    <3>1. UNCHANGED marking
      BY <2>1, <2>5 DEF RecordWriteSlow, NothingRecorded, marking, deque
    <3> QED
      BY <1>7, <2>1, <2>5, <3>1
  <2> QED
    BY <2>2, <2>3, <2>4, <2>5
<1> QED
  BY <1>10, <1>11

(* An object that is not black, or not marked at all, may be changed.       *)
LEMMA FieldInv ==
  ASSUME Inv, NEW o \in heap, ~IsMarking \/ color[o] # "black",
         UNCHANGED <<heap, young, roots, marking, compacting>>,
         DOMAIN field' = Object,
         field'[o] \in [1..Length[o] -> Value],
         \A i \in 1..Length[o] : field'[o][i] \in heap \cup {Nil, Trimmed},
         \A x \in Object \ {o} : field'[x] = field[x]
  PROVE  Inv'
<1> USE DEF Inv, marking, deque
<1>1. heap \subseteq Object /\ roots \subseteq heap
  BY DEF TypeOK, PointersValid
<1>2. /\ IsMarking' = IsMarking /\ Has("black")' = Has("black")
      /\ Has("grey")' = Has("grey") /\ Has("white")' = Has("white")
  BY DEF IsMarking, Has
<1>3. TypeOK'
  BY <1>2 DEF TypeOK, Value
<1>4. ASSUME IsMarking, NEW x \in Has("black")
      PROVE  x \in Object \ {o} /\ field'[x] = field[x]
  BY <1>4 DEF Has
<1>5. TriColor'
  <2>1. \A x : Scanned(x)' = Scanned(x)
    BY DEF Scanned
  <2>2. IsMarking => \A x \in Has("black") : Children(x, Scanned(x))' = Children(x, Scanned(x))
    BY <1>4, <2>1 DEF Children
  <2> QED
    BY <1>2, <2>1, <2>2 DEF TriColor
<1>6. QueuedAreGrey' /\ Idle' /\ BarsOK'
  BY <1>2 DEF QueuedAreGrey, Idle, BarsOK
<1>7. PointersValid' /\ AbsentOK'
  <2>1. \A x \in heap : \A i \in 1..Length[x] : field'[x][i] \in heap \cup {Nil, Trimmed}
    BY <1>1 DEF PointersValid
  <2>2. AbsentOK'
    BY <1>1 DEF AbsentOK
  <2> QED
    BY <1>1, <2>1, <2>2 DEF PointersValid
<1>8. SlotsRecorded'
  <2>1. CASE IsMarking
    BY <1>2, <1>4, <2>1 DEF SlotsRecorded, Skipped
  <2>2. CASE ~IsMarking
    BY <2>2 DEF SlotsRecorded, Idle
  <2> QED
    BY <2>1, <2>2
<1> QED
  BY <1>3, <1>5, <1>6, <1>7, <1>8

LEMMA MoveInv ==
  ASSUME Inv, NEW o \in Object, NEW dst \in 1..Length[o], NEW src \in 1..Length[o],
         NEW n \in 0..Length[o]-1, MoveElements(o, dst, src, n)
  PROVE  Inv'
<1>1. /\ o \in roots /\ UNCHANGED <<heap, young, roots, compacting>>
      /\ {dst + n, src + n} \subseteq 1..Length[o] /\ RecordWrites(o)
  BY DEF MoveElements
<1>2. o \in heap /\ Length[o] \in Nat /\ DOMAIN field = Object
  BY <1>1, LengthAssumption DEF Inv, PointersValid, TypeOK
<1>3. DOMAIN field' = Object /\ \A x \in Object \ {o} : field'[x] = field[x]
  BY <1>2 DEF MoveElements
<1>4. field'[o] = [i \in 1..Length[o] |->
                     IF i \in dst..dst + n THEN field[o][i - dst + src] ELSE field[o][i]]
  BY <1>2 DEF MoveElements
<1>5. \A i \in 1..Length[o] : field'[o][i] \in heap \cup {Nil, Trimmed}
  <2>1. \A i \in 1..Length[o] : i \in dst..dst + n => i - dst + src \in 1..Length[o]
    BY <1>1, <1>2
  <2>2. \A i \in 1..Length[o] : field[o][i] \in heap \cup {Nil, Trimmed}
    BY <1>2 DEF Inv, PointersValid
  <2> QED
    BY <1>4, <2>1, <2>2
<1>6. field'[o] \in [1..Length[o] -> Value]
  <2>1. heap \subseteq Object
    BY DEF Inv, TypeOK
  <2>2. \A i \in 1..Length[o] : field'[o][i] \in Value
    BY <1>5, <2>1 DEF Value
  <2> QED
    BY <1>4, <2>2
<1>7. CASE IsMarking /\ color[o] = "black"
  <2>1. /\ BlackToGreyAndUnshift(o) /\ bar' = [bar EXCEPT ![o] = 0]
        /\ UNCHANGED <<hurry, candidates, rescan, recorded>>
    BY <1>1, <1>7 DEF RecordWrites
  <2> QED
    BY <1>1, <1>2, <1>3, <1>5, <1>6, <1>7, <2>1, RescanInv
<1>8. CASE ~(IsMarking /\ color[o] = "black")
  <2>1. UNCHANGED marking
    BY <1>1, <1>8 DEF RecordWrites
  <2> QED
    BY <1>1, <1>2, <1>3, <1>5, <1>6, <1>8, <2>1, FieldInv
<1> QED
  BY <1>7, <1>8

(* A trimmed array loses slots only, and stays in the deque if it is grey.  *)
LEMMA LeftTrimInv ==
  ASSUME Inv, NEW o \in Object, NEW n \in 1..Length[o], LeftTrim(o, n)
  PROVE  Inv'
<1> USE DEF Inv
<1>1. /\ o \in heap /\ o \notin Large /\ heap \subseteq Object /\ roots \subseteq heap
      /\ UNCHANGED <<heap, young, roots, color, bar, hurry, compacting, candidates, rescan, recorded>>
  BY DEF LeftTrim, TransferMark, PointersValid, TypeOK, compaction
<1>2. DOMAIN field' = Object /\ \A x \in Object \ {o} : field'[x] = field[x]
  BY DEF LeftTrim, TransferMark, TypeOK
<1>3. field'[o] = [i \in 1..Length[o] |-> IF i <= n THEN Trimmed ELSE field[o][i]]
  BY DEF LeftTrim, TransferMark, TypeOK
<1>4. \A x \in Object : \A i \in 1..Length[x] : field'[x][i] \in {field[x][i], Trimmed}
  <2>1. \A i \in 1..Length[o] : field'[o][i] \in {field[o][i], Trimmed}
    BY <1>3
  <2> QED
    BY <1>2, <2>1
<1>5. /\ Trimmed \notin Object /\ Has("black")' = Has("black")
      /\ Has("grey")' = Has("grey") /\ Has("white")' = Has("white")
  BY <1>1, ValuesAssumption DEF Has
<1>6. /\ queue \ {o} \subseteq queue' /\ queue' \subseteq queue \cup {o}
      /\ o \in queue' => IsMarking /\ color[o] = "grey" /\ state' = "MARKING"
      /\ state' = "COMPLETE" => state = "COMPLETE" /\ queue' \subseteq queue
  <2>1. CASE IsMarking /\ color[o] = "grey"
    <3>1. state' = "MARKING" /\ queue \ {o} \subseteq queue' /\ queue' \subseteq queue \cup {o}
      BY <2>1 DEF LeftTrim, TransferMark, RestartIfNotMarking, IsMarking, Push
    <3> QED
      BY <2>1, <3>1
  <2>2. CASE ~(IsMarking /\ color[o] = "grey")
    BY <2>2 DEF LeftTrim, TransferMark
  <2> QED
    BY <2>1, <2>2
<1>13. IsMarking' = IsMarking /\ state' \in {"STOPPED", "SWEEPING", "MARKING", "COMPLETE"}
  BY DEF LeftTrim, TransferMark, RestartIfNotMarking, IsMarking, TypeOK
<1>14. /\ overflowed' \in BOOLEAN /\ (overflowed => overflowed')
       /\ IsMarking /\ color[o] = "grey" => o \in queue' \/ overflowed'
  <2>1. CASE IsMarking /\ color[o] = "grey"
    <3>1. PICK P \in SUBSET {o} : queue' = (queue \ {o}) \cup P
                              /\ overflowed' = (overflowed \/ P # {o})
      BY <2>1 DEF LeftTrim, TransferMark, Push
    <3> QED
      BY <3>1 DEF TypeOK
  <2>2. CASE ~(IsMarking /\ color[o] = "grey")
    BY <2>2 DEF LeftTrim, TransferMark, TypeOK
  <2> QED
    BY <2>1, <2>2
<1>7. TypeOK'
  <2>1. \A x \in Object : field'[x] \in [1..Length[x] -> Value \cup {Stale}]
    <3>1. \A x \in Object : field[x] \in [1..Length[x] -> Value \cup {Stale}]
      BY DEF TypeOK
    <3>2. field'[o] \in [1..Length[o] -> Value \cup {Stale}]
      BY <1>3, <3>1 DEF Value
    <3> QED
      BY <1>2, <3>1, <3>2
  <2>2. queue' \subseteq Object /\ (IsMarking' => queue' \subseteq heap')
    BY <1>1, <1>6, <1>13 DEF TypeOK
  <2>3. (Has("grey") \cup Has("black"))' \subseteq IF IsMarking' THEN heap' ELSE {}
    BY <1>1, <1>5, <1>13 DEF TypeOK
  <2> QED
    BY <1>1, <1>2, <1>13, <1>14, <2>1, <2>2, <2>3 DEF TypeOK, Value
<1>8. TriColor'
  <2>1. \A x : Scanned(x)' = Scanned(x)
    BY <1>1 DEF Scanned
  <2>2. \A x \in Has("black") : Children(x, Scanned(x))' \subseteq Children(x, Scanned(x))
    <3>1. ASSUME NEW x \in Has("black"), NEW j \in Scanned(x), field'[x][j] \in Object
          PROVE  field'[x][j] \in Children(x, Scanned(x))
      <4>1. x \in Object /\ bar[x] \in Nat /\ Length[x] \in Nat /\ bar[x] <= Length[x]
        BY LengthAssumption DEF Has, TypeOK
      <4>2. j \in 1..Length[x]
        BY <3>1, <4>1 DEF Scanned
      <4> QED
        BY <1>4, <1>5, <3>1, <4>1, <4>2 DEF Children
    <3> QED
      BY <2>1, <3>1 DEF Children
  <2>3. IsMarking => \A x \in Has("black") : Scanned(x) # 1..Length[x] => x \in queue'
    <3>1. \A x \in Has("black") : Scanned(x) # 1..Length[x] => x # o
      BY <1>1 DEF Scanned
    <3> QED
      BY <1>6, <3>1 DEF TriColor
  <2>4. IsMarking => Has("grey") \subseteq queue' \/ overflowed'
    <3>1. CASE IsMarking /\ o \in Has("grey")
      <4>1. o \in queue' \/ overflowed'
        BY <1>14, <3>1 DEF Has
      <4>2. Has("grey") \subseteq queue \/ overflowed
        BY <3>1 DEF TriColor
      <4> QED
        BY <1>6, <1>14, <3>1, <4>1, <4>2
    <3>2. CASE IsMarking /\ o \notin Has("grey")
      <4>1. Has("grey") \subseteq queue \/ overflowed
        BY <3>2 DEF TriColor
      <4> QED
        BY <1>6, <1>14, <3>2, <4>1
    <3> QED
      BY <3>1, <3>2
  <2> QED
    BY <1>5, <1>13, <2>1, <2>2, <2>3, <2>4 DEF TriColor
<1>9. QueuedAreGrey'
  <2>1. IsMarking => queue' \subseteq Has("grey") \cup (Large \cap Has("black"))
    BY <1>1, <1>6 DEF QueuedAreGrey, Has
  <2>2. IsMarking /\ state' = "COMPLETE" => queue' = {}
    BY <1>6 DEF QueuedAreGrey
  <2> QED
    BY <1>5, <1>13, <2>1, <2>2 DEF QueuedAreGrey
<1>10. PointersValid' /\ AbsentOK'
  <2>1. \A x \in heap : \A i \in 1..Length[x] : field'[x][i] \in heap \cup {Nil, Trimmed}
    BY <1>1, <1>4 DEF PointersValid
  <2>2. AbsentOK'
    BY <1>1, <1>2 DEF AbsentOK
  <2> QED
    BY <1>1, <2>1, <2>2 DEF PointersValid
<1>11. Idle' /\ BarsOK'
  BY <1>1, <1>13 DEF Idle, BarsOK
<1>12. SlotsRecorded'
  <2>1. candidates \subseteq Object
    BY DEF TypeOK
  <2>2. ASSUME NEW x \in Has("black") \ Skipped, NEW i \in 1..Length[x],
               field'[x][i] \in candidates
        PROVE  <<x, i, field'[x][i]>> \in recorded
    <3>1. x \in Object
      BY DEF Has
    <3>2. field'[x][i] = field[x][i]
      BY <1>4, <1>5, <2>1, <2>2, <3>1
    <3> QED
      BY <2>2, <3>2 DEF SlotsRecorded
  <2>3. Skipped' = Skipped
    BY <1>1 DEF Skipped
  <2> QED
    BY <1>1, <1>5, <2>2, <2>3 DEF SlotsRecorded
<1> QED
  BY <1>7, <1>8, <1>9, <1>10, <1>11, <1>12

-----------------------------------------------------------------------------
(* The marker.                                                              *)

(* A visited object is black, and what was white in the slots scanned grey. *)
LEMMA VisitInv ==
  ASSUME Inv, state = "MARKING", NEW o \in queue, Visit(o), MarkingComplete(queue')
  PROVE  Inv'
<1> USE DEF Inv
<1>1. /\ o \in Object /\ o \in heap /\ heap \subseteq Object /\ IsMarking
      /\ color[o] # "white" /\ (o \notin Large => color[o] = "grey")
  BY DEF TypeOK, IsMarking, QueuedAreGrey, Has
<1>2. bar[o] \in Nat /\ Length[o] \in Nat /\ bar[o] <= Length[o]
      /\ (o \notin Large => bar[o] = 0)
  BY <1>1, LengthAssumption DEF TypeOK, BarsOK
<1> DEFINE scanned(end) == bar[o]+1..end
           white(end) == Children(o, scanned(end)) \cap Has("white")
<1>3. PICK end \in IF o \in Large /\ bar[o] < Length[o] THEN bar[o]+1..Length[o]
                                                        ELSE {Length[o]} :
        /\ color' = [Recolored(white(end), "grey") EXCEPT ![o] = "black"]
        /\ bar' = [bar EXCEPT ![o] = IF o \in Large THEN end ELSE 0]
        /\ IF end < Length[o]
           THEN queue' = queue \cup white(end) /\ UNCHANGED overflowed
           ELSE Push(queue \ {o}, white(end))
        /\ UNCHANGED <<graph, compacting>>
        /\ RecordSlots({o} \X scanned(end), Skipped)
  BY Zenon DEF Visit
<1>4. end \in Nat /\ bar[o] <= end /\ end <= Length[o] /\ (end < Length[o] => o \in Large)
  BY <1>2
<1>5. UNCHANGED <<heap, young, field, roots, compacting>>
  BY <1>3 DEF graph
<1> DEFINE W == white(end)
<1>6. W \subseteq Has("white") /\ o \notin W /\ W \subseteq heap
  <2>1. \A i \in scanned(end) : field[o][i] \in heap \cup {Nil, Trimmed}
    BY <1>1, <1>2, <1>4 DEF PointersValid
  <2> QED
    BY <1>1, <2>1, ValuesAssumption DEF Children, Has
<1>7. \A i \in scanned(end) : field[o][i] \in Object => field[o][i] \in W \/ field[o][i] \notin Has("white")
  BY DEF Children
<1>8. color' = [x \in Object |-> IF x = o THEN "black" ELSE IF x \in W THEN "grey" ELSE color[x]]
  BY <1>1, <1>3 DEF Recolored
<1>9. bar' = [x \in Object |-> IF x = o THEN IF o \in Large THEN end ELSE 0 ELSE bar[x]]
  BY <1>3 DEF TypeOK
<1>10. RecordSlots({o} \X scanned(end), Skipped)
  BY <1>3
<1>11. /\ end < Length[o] => queue' = queue \cup W /\ UNCHANGED overflowed
       /\ ~(end < Length[o]) => Push(queue \ {o}, W)
  BY <1>3
<1> HIDE DEF W
<1>12. /\ queue \ {o} \subseteq queue' /\ queue' \subseteq queue \cup W
       /\ end < Length[o] => o \in queue'
       /\ ~(end < Length[o]) => o \notin queue'
  BY <1>6, <1>11 DEF Push
<1>13. overflowed' \in BOOLEAN /\ (overflowed => overflowed') /\ (W \subseteq queue' \/ overflowed')
  <2>1. CASE end < Length[o]
    BY <1>11, <2>1 DEF TypeOK
  <2>2. CASE ~(end < Length[o])
    <3>1. PICK P \in SUBSET W : queue' = (queue \ {o}) \cup P /\ overflowed' = (overflowed \/ P # W)
      BY <1>11, <2>2 DEF Push
    <3> QED
      BY <3>1 DEF TypeOK
  <2> QED
    BY <2>1, <2>2
<1>14. /\ Has("black")' = Has("black") \cup {o} /\ Has("grey")' = (Has("grey") \cup W) \ {o}
       /\ Has("white")' = Has("white") \ W
  BY <1>1, <1>6, <1>8 DEF Has
<1>15. /\ state' \in {"MARKING", "COMPLETE"} /\ IsMarking' /\ hurry' \in BOOLEAN
       /\ state' = "COMPLETE" => queue' = {}
  BY DEF MarkingComplete, IsMarking, TypeOK
<1>16. /\ candidates' \subseteq candidates
       /\ rescan \subseteq rescan' /\ rescan' \subseteq rescan \cup candidates
       /\ candidates \subseteq candidates' \cup rescan'
       /\ recorded' \subseteq Object \X Nat \X candidates'
       /\ \A x, j, w : <<x, j, w>> \in recorded /\ w \in candidates'
            => <<x, j, w>> \in recorded'
       /\ \A x, j : <<x, j>> \in {o} \X scanned(end) /\ x \notin Skipped /\ field'[x][j] \in candidates'
            => <<x, j, field'[x][j]>> \in recorded'
  <2>1. {o} \X scanned(end) \in SUBSET (Object \X Nat)
    BY <1>1, <1>2, <1>4
  <2>2. recorded \subseteq Object \X Nat \X candidates
    BY DEF TypeOK
  <2> HIDE DEF Inv
  <2> QED
    BY <1>10, <2>1, <2>2, RecordSlotsFacts
<1>17. TypeOK'
  <2>1. color' \in [Object -> {"white", "grey", "black"}]
    BY <1>8 DEF TypeOK
  <2>2. bar' \in [Object -> Nat] /\ \A x \in Object : bar'[x] <= Length[x]
    BY <1>2, <1>4, <1>9 DEF TypeOK
  <2>3. queue' \subseteq heap' /\ queue' \subseteq Object
    BY <1>1, <1>5, <1>6, <1>12 DEF TypeOK
  <2>4. (Has("grey") \cup Has("black"))' \subseteq heap'
    BY <1>1, <1>5, <1>6, <1>14 DEF TypeOK
  <2>5. candidates' \subseteq (Movable \cap heap') \ young' /\ rescan' \subseteq heap' \ young'
    BY <1>5, <1>16 DEF TypeOK
  <2>6. overflowed' \in BOOLEAN /\ recorded' \subseteq Object \X Nat \X candidates'
    BY <1>13, <1>16
  <2> QED
    BY <1>5, <1>15, <2>1, <2>2, <2>3, <2>4, <2>5, <2>6 DEF TypeOK, Value
<1>18. TriColor'
  <2>1. \A x \in Object : bar[x] \in Nat /\ Length[x] \in Nat /\ bar[x] <= Length[x]
    BY LengthAssumption DEF TypeOK
  <2>2. \A x \in Object \ {o} : Scanned(x)' = Scanned(x)
    BY <1>9 DEF Scanned
  <2>3. Scanned(o)' = 1..end
    BY <1>1, <1>2, <1>4, <1>9 DEF Scanned
  <2>4. ASSUME NEW x \in Has("black")', NEW j \in Scanned(x)', field[x][j] \in Object
        PROVE  field[x][j] \notin Has("white")'
    <3>1. CASE x = o
      <4>1. j \in 1..end
        BY <2>3, <2>4, <3>1
      <4>2. CASE j <= bar[o]
        <5>1. o \in Large /\ color[o] = "black"
          BY <1>1, <1>2, <4>1, <4>2 DEF BarsOK
        <5>2. o \in Has("black") /\ j \in Scanned(o)
          BY <1>1, <1>2, <4>1, <4>2, <5>1 DEF Has, Scanned
        <5>3. field[o][j] \in Children(o, Scanned(o))
          BY <2>4, <3>1, <5>2 DEF Children
        <5> QED
          BY <1>1, <1>14, <3>1, <5>2, <5>3 DEF TriColor
      <4>3. CASE ~(j <= bar[o])
        <5>1. j \in scanned(end)
          BY <1>2, <1>4, <4>1, <4>3
        <5> QED
          BY <1>7, <1>14, <2>4, <3>1, <5>1
      <4> QED
        BY <4>2, <4>3
    <3>2. CASE x # o
      <4>1. x \in Has("black") /\ x \in Object
        BY <1>14, <2>4, <3>2 DEF Has
      <4>2. field[x][j] \in Children(x, Scanned(x))
        BY <2>2, <2>4, <3>2, <4>1 DEF Children
      <4> QED
        BY <1>1, <1>14, <4>1, <4>2 DEF TriColor
    <3> QED
      BY <3>1, <3>2
  <2>5. \A x \in Has("black")' : Children(x, Scanned(x))' \cap Has("white")' = {}
    BY <1>5, <2>4 DEF Children
  <2>6. ASSUME NEW x \in Has("black")', Scanned(x)' # 1..Length[x] PROVE x \in queue'
    <3>1. CASE x = o
      BY <1>2, <1>4, <1>12, <2>3, <2>6, <3>1
    <3>2. CASE x # o
      <4>1. x \in Has("black") /\ x \in Object
        BY <1>14, <2>6, <3>2 DEF Has
      <4> QED
        BY <1>1, <1>12, <2>2, <2>6, <3>2, <4>1 DEF TriColor
    <3> QED
      BY <3>1, <3>2
  <2>7. Has("grey")' \subseteq queue' \/ overflowed'
    <3>1. Has("grey") \subseteq queue \/ overflowed
      BY <1>1 DEF TriColor
    <3> QED
      BY <1>12, <1>13, <1>14, <3>1
  <2> QED
    BY <2>5, <2>6, <2>7 DEF TriColor
<1>19. QueuedAreGrey'
  <2>1. queue \subseteq Has("grey") \cup (Large \cap Has("black"))
    BY <1>1 DEF QueuedAreGrey
  <2>2. o \in queue' => o \in Large
    BY <1>4, <1>12
  <2>3. queue' \subseteq Has("grey")' \cup (Large \cap Has("black")')
    BY <1>12, <1>14, <2>1, <2>2
  <2> QED
    BY <1>15, <2>3 DEF QueuedAreGrey
<1>20. PointersValid' /\ AbsentOK'
  BY <1>5 DEF PointersValid, AbsentOK
<1>21. Idle' /\ BarsOK'
  <2>1. Idle'
    BY <1>5, <1>15, <1>16 DEF Idle
  <2>2. BarsOK'
    BY <1>6, <1>8, <1>9 DEF BarsOK, Has
  <2> QED
    BY <2>1, <2>2
<1>22. SlotsRecorded'
  <2>1. ASSUME NEW x \in (Has("black") \ Skipped)', NEW j \in 1..Length[x],
               field'[x][j] \in candidates'
        PROVE  <<x, j, field'[x][j]>> \in recorded'
    <3>1. x \notin Skipped /\ x \in Object /\ x \in Has("black") \cup {o}
      BY <1>1, <1>5, <1>14, <1>16, <2>1 DEF Skipped, Has
    <3>2. CASE x = o
      <4>1. candidates # {} /\ compacting
        BY <1>16, <2>1 DEF Idle
      <4>2. o \notin Large
        BY <1>1, <3>1, <3>2, <4>1 DEF Idle, Skipped
      <4>3. j \in scanned(end)
        BY <1>2, <1>4, <2>1, <3>2, <4>2
      <4>4. <<x, j>> \in {o} \X scanned(end)
        BY <3>2, <4>3
      <4> QED
        BY <1>16, <2>1, <3>1, <4>4
    <3>3. CASE x # o
      <4>1. field'[x][j] = field[x][j] /\ field[x][j] \in candidates /\ x \in Has("black")
        BY <1>5, <1>16, <2>1, <3>1, <3>3
      <4>2. <<x, j, field[x][j]>> \in recorded
        BY <2>1, <3>1, <4>1 DEF SlotsRecorded
      <4> QED
        BY <1>16, <2>1, <4>1, <4>2
    <3> QED
      BY <3>2, <3>3
  <2> HIDE DEF Inv
  <2> QED
    BY <2>1 DEF SlotsRecorded
<1> QED
  BY <1>17, <1>18, <1>19, <1>20, <1>21, <1>22

LEMMA StepInv ==
  ASSUME Inv, Step
  PROVE  Inv'
<1>1. state = "MARKING"
  BY DEF Step
<1>2. CASE \E o \in queue : Visit(o) /\ MarkingComplete(queue')
  BY <1>1, <1>2, VisitInv
<1>3. CASE /\ queue = {} /\ MarkingComplete(queue)
           /\ UNCHANGED <<graph, color, bar, deque, compaction>>
  <2> USE <1>1, <1>3 DEF Inv, graph, deque, compaction
  <2>1. state' = "COMPLETE" /\ IsMarking /\ IsMarking' /\ hurry' \in BOOLEAN
    BY DEF MarkingComplete, IsMarking, TypeOK
  <2>2. /\ Has("black")' = Has("black") /\ Has("grey")' = Has("grey")
        /\ Has("white")' = Has("white")
    BY DEF Has
  <2>3. TypeOK'
    BY <2>1, <2>2 DEF TypeOK, Value
  <2>4. TriColor' /\ QueuedAreGrey'
    BY <2>1, <2>2 DEF TriColor, QueuedAreGrey, Children, Scanned
  <2>5. PointersValid' /\ AbsentOK'
    BY DEF PointersValid, AbsentOK
  <2>6. Idle' /\ BarsOK' /\ SlotsRecorded'
    BY <2>1, <2>2 DEF Idle, BarsOK, SlotsRecorded, Skipped
  <2> QED
    BY <2>3, <2>4, <2>5, <2>6
<1> QED
  BY <1>1, <1>2, <1>3 DEF Step

-----------------------------------------------------------------------------
(* The collections.                                                         *)

(* A scavenge frees no object a slot of a remaining one refers to, and the  *)
(* slots of the black objects it promotes are recorded.                     *)
LEMMA ScavengeInv ==
  ASSUME Inv, Scavenge
  PROVE  Inv'
<1> USE DEF Inv
<1> DEFINE fromOld == roots \cup UNION {AllChildren(o) : o \in heap \ young}
           live == Reached(fromOld, young, All)
           dead == young \ live
<1>1. PICK promoted \in SUBSET live :
        /\ Freed(dead) /\ Erased(dead)
        /\ young' = live \ promoted
        /\ UpdateMarkingDequeAfterScavenge(dead)
        /\ RecordPromoted(promoted)
        /\ UNCHANGED <<roots, overflowed, state, hurry, compacting>>
  BY Zenon DEF Scavenge
<1>2. /\ live \subseteq young /\ fromOld \cap young \subseteq live
      /\ \A o \in live : Children(o, All[o]) \cap young \subseteq live
  BY ReachedClosed
<1>3. /\ young \subseteq heap /\ heap \subseteq Object /\ roots \subseteq heap
      /\ candidates \cap young = {} /\ rescan \cap young = {}
  BY DEF TypeOK, PointersValid
<1>4. roots \cap dead = {}
  BY <1>2
<1>5. \A o \in heap \ dead : AllChildren(o) \cap dead = {}
  <2>1. ASSUME NEW o \in heap \ young PROVE AllChildren(o) \cap dead = {}
    BY <1>2
  <2>2. ASSUME NEW o \in live PROVE AllChildren(o) \cap dead = {}
    BY <1>2 DEF AllChildren
  <2> QED
    BY <2>1, <2>2
<1>6. dead \subseteq young
  OBVIOUS
<1>7. young' \subseteq young \ dead /\ young \ dead \subseteq young' \cup promoted
  BY <1>1, <1>2
<1>8. /\ Freed(dead) /\ Erased(dead)
      /\ queue' = IF IsMarking THEN queue \ dead ELSE queue
      /\ UNCHANGED <<roots, overflowed, state, hurry, compacting>>
  BY <1>1 DEF UpdateMarkingDequeAfterScavenge
<1>9. /\ compacting => RecordSlots(UNION {{o} \X All[o] : o \in promoted \cap Has("black")},
                                   candidates \cup rescan)
      /\ ~compacting => NothingRecorded
  BY <1>1 DEF RecordPromoted
<1> HIDE DEF fromOld, live, dead
<1>10. /\ heap' = heap \ dead
       /\ color' = [o \in Object |-> IF o \in dead THEN "white" ELSE color[o]]
       /\ bar' = [o \in Object |-> IF o \in dead THEN 0 ELSE bar[o]]
       /\ field' = [o \in Object |->
                      IF o \in dead THEN [i \in 1..Length[o] |-> Nil] ELSE field[o]]
  BY <1>8 DEF Freed, Erased, Recolored
<1>11. /\ Has("black")' = Has("black") \ dead /\ Has("grey")' = Has("grey") \ dead
       /\ Has("white")' = Has("white") \cup dead
  BY <1>3, <1>6, <1>10 DEF Has
<1>12. IsMarking' = IsMarking
  BY <1>8 DEF IsMarking
<1>13. /\ candidates' \subseteq candidates
       /\ rescan \subseteq rescan' /\ rescan' \subseteq rescan \cup candidates
       /\ candidates \subseteq candidates' \cup rescan'
       /\ recorded' \subseteq Object \X Nat \X candidates'
       /\ \A x, j, w : <<x, j, w>> \in recorded /\ w \in candidates'
            => <<x, j, w>> \in recorded'
       /\ compacting =>
            \A x, j : /\ <<x, j>> \in UNION {{o} \X All[o] : o \in promoted \cap Has("black")}
                      /\ x \notin candidates \cup rescan
                      /\ field'[x][j] \in candidates'
              => <<x, j, field'[x][j]>> \in recorded'
  <2>1. UNION {{o} \X All[o] : o \in promoted \cap Has("black")} \in SUBSET (Object \X Nat)
    <3>1. ASSUME NEW o \in promoted \cap Has("black")
          PROVE  {o} \X All[o] \subseteq Object \X Nat
      <4>1. o \in Object /\ All[o] = 1..Length[o]
        BY DEF Has, All
      <4> QED
        BY <4>1, LengthAssumption
    <3> QED
      BY <3>1
  <2>2. recorded \subseteq Object \X Nat \X candidates
    BY DEF TypeOK
  <2>3. CASE compacting
    <3> DEFINE slots == UNION {{o} \X All[o] : o \in promoted \cap Has("black")}
    <3>1. RecordSlots(slots, candidates \cup rescan) /\ slots \in SUBSET (Object \X Nat)
      BY <1>9, <2>1, <2>3
    <3> HIDE DEF slots, Inv
    <3>2. /\ candidates' \subseteq candidates
          /\ rescan \subseteq rescan' /\ rescan' \subseteq rescan \cup candidates
          /\ candidates \subseteq candidates' \cup rescan'
          /\ recorded' \subseteq Object \X Nat \X candidates'
          /\ \A x, j, w : <<x, j, w>> \in recorded /\ w \in candidates'
               => <<x, j, w>> \in recorded'
          /\ \A x, j : <<x, j>> \in slots /\ x \notin candidates \cup rescan /\ field'[x][j] \in candidates'
               => <<x, j, field'[x][j]>> \in recorded'
      BY <2>2, <3>1, RecordSlotsFacts
    <3> QED
      BY <3>2 DEF slots
  <2>4. CASE ~compacting
    BY <1>9, <2>2, <2>4 DEF NothingRecorded
  <2> QED
    BY <2>3, <2>4
<1>14. TypeOK'
  <2>1. \A o \in Object : field'[o] \in [1..Length[o] -> Value \cup {Stale}]
    <3>1. \A o \in Object : [i \in 1..Length[o] |-> Nil] \in [1..Length[o] -> Value \cup {Stale}]
      BY DEF Value
    <3>2. \A o \in Object : field[o] \in [1..Length[o] -> Value \cup {Stale}]
      BY DEF TypeOK
    <3> QED
      BY <1>10, <3>1, <3>2
  <2>2. color' \in [Object -> {"white", "grey", "black"}] /\ DOMAIN field' = Object
    BY <1>10 DEF TypeOK
  <2>3. bar' \in [Object -> Nat] /\ \A x \in Object : bar'[x] <= Length[x]
    BY <1>10, LengthAssumption DEF TypeOK
  <2>4. queue' \subseteq Object /\ (IsMarking' => queue' \subseteq heap')
    BY <1>8, <1>10, <1>12 DEF TypeOK
  <2>5. (Has("grey") \cup Has("black"))' \subseteq IF IsMarking' THEN heap' ELSE {}
    BY <1>10, <1>11, <1>12 DEF TypeOK
  <2>6. /\ young' \subseteq heap' /\ heap' \subseteq Object /\ young' \subseteq Young
        /\ candidates' \subseteq (Movable \cap heap') \ young' /\ rescan' \subseteq heap' \ young'
    BY <1>3, <1>6, <1>7, <1>10, <1>13 DEF TypeOK
  <2>7. recorded' \subseteq Object \X Nat \X candidates'
    BY <1>13
  <2>8. roots' \subseteq Object
    BY <1>3, <1>8
  <2> QED
    BY <1>8, <2>1, <2>2, <2>3, <2>4, <2>5, <2>6, <2>7, <2>8 DEF TypeOK, Value
<1>15. TriColor'
  <2>1. ASSUME IsMarking, NEW x \in Has("black") \ dead
        PROVE  /\ Children(x, Scanned(x))' \cap (Has("white") \cup dead) = {}
               /\ Scanned(x)' # 1..Length[x] => x \in queue'
    <3>1. x \in heap /\ x \in Object /\ bar[x] \in Nat /\ Length[x] \in Nat /\ bar[x] <= Length[x]
      BY <2>1, LengthAssumption DEF TypeOK, Has
    <3>2. Scanned(x)' = Scanned(x) /\ field'[x] = field[x]
      BY <1>10, <2>1, <3>1 DEF Scanned
    <3>3. Children(x, Scanned(x))' = Children(x, Scanned(x))
      BY <3>2 DEF Children
    <3>4. Children(x, Scanned(x)) \subseteq AllChildren(x)
      <4>1. Scanned(x) \subseteq All[x]
        BY <3>1 DEF Scanned, All
      <4> QED
        BY <4>1 DEF Children, AllChildren
    <3>5. Children(x, Scanned(x)) \cap dead = {}
      BY <1>5, <2>1, <3>1, <3>4
    <3>6. Children(x, Scanned(x)) \cap Has("white") = {} /\ (Scanned(x) # 1..Length[x] => x \in queue)
      BY <2>1 DEF TriColor
    <3> QED
      BY <1>8, <2>1, <3>2, <3>3, <3>5, <3>6
  <2>2. IsMarking => Has("grey")' \subseteq queue' \/ overflowed'
    BY <1>8, <1>11 DEF TriColor
  <2> QED
    BY <1>11, <1>12, <2>1, <2>2 DEF TriColor
<1>16. QueuedAreGrey'
  BY <1>8, <1>11, <1>12 DEF QueuedAreGrey
<1>17. PointersValid' /\ AbsentOK'
  <2>1. \A o \in heap \ dead : \A i \in 1..Length[o] : field'[o][i] \in (heap \ dead) \cup {Nil, Trimmed}
    <3>1. ASSUME NEW o \in heap \ dead, NEW i \in 1..Length[o]
          PROVE  field'[o][i] \in (heap \ dead) \cup {Nil, Trimmed}
      <4>1. o \in Object /\ field'[o][i] = field[o][i] /\ field[o][i] \in heap \cup {Nil, Trimmed}
        BY <1>3, <1>10, <3>1 DEF PointersValid
      <4>2. field[o][i] \in Object => field[o][i] \in AllChildren(o)
        BY <4>1 DEF AllChildren, Children, All
      <4> QED
        BY <1>3, <1>5, <3>1, <4>1, <4>2
    <3> QED
      BY <3>1
  <2>2. roots' \subseteq heap'
    BY <1>3, <1>4, <1>8, <1>10
  <2>3. AbsentOK'
    <3>1. ASSUME NEW o \in Object \ heap', NEW i \in 1..Length[o] PROVE field'[o][i] = Nil
      <4>1. CASE o \in dead
        BY <1>10, <4>1
      <4>2. CASE o \notin dead
        BY <1>10, <3>1, <4>2 DEF AbsentOK
      <4> QED
        BY <4>1, <4>2
    <3> QED
      BY <3>1 DEF AbsentOK
  <2> QED
    BY <1>10, <2>1, <2>2, <2>3 DEF PointersValid
<1>18. Idle' /\ BarsOK'
  <2>1. Idle'
    <3>1. ~IsMarking => ~compacting /\ candidates' = {} /\ rescan' = {} /\ recorded' = {}
      BY <1>9 DEF Idle, NothingRecorded
    <3>2. ~compacting => candidates' = {}
      BY <1>9 DEF Idle, NothingRecorded
    <3>3. compacting => Large \cap heap' \subseteq rescan'
      BY <1>10, <1>13 DEF Idle
    <3> QED
      BY <1>8, <1>12, <3>1, <3>2, <3>3 DEF Idle
  <2>2. BarsOK'
    BY <1>10 DEF BarsOK
  <2> QED
    BY <2>1, <2>2
<1>19. SlotsRecorded'
  <2>1. ASSUME NEW x \in (Has("black") \ Skipped)', NEW j \in 1..Length[x],
               field'[x][j] \in candidates'
        PROVE  <<x, j, field'[x][j]>> \in recorded'
    <3>1. compacting /\ x \in Object /\ x \in Has("black") /\ x \notin dead
          /\ x \notin candidates \cup rescan /\ x \notin young'
      BY <1>11, <1>13, <2>1 DEF Idle, Skipped, Has
    <3>2. field'[x] = field[x] /\ All[x] = 1..Length[x]
      BY <1>10, <3>1 DEF All
    <3>3. CASE x \in young
      <4>1. x \in promoted \cap Has("black")
        BY <1>7, <3>1, <3>3
      <4>2. <<x, j>> \in {x} \X All[x]
        BY <2>1, <3>2
      <4>3. <<x, j>> \in UNION {{o} \X All[o] : o \in promoted \cap Has("black")}
        BY <4>1, <4>2
      <4> QED
        BY <1>13, <2>1, <3>1, <4>3
    <3>4. CASE x \notin young
      <4>1. field[x][j] \in candidates /\ x \in Has("black") \ Skipped
        BY <1>13, <2>1, <3>1, <3>2, <3>4 DEF Skipped
      <4>2. <<x, j, field[x][j]>> \in recorded
        BY <2>1, <4>1 DEF SlotsRecorded
      <4> QED
        BY <1>13, <2>1, <3>2, <4>2
    <3> QED
      BY <3>3, <3>4
  <2> HIDE DEF Inv
  <2> QED
    BY <2>1 DEF SlotsRecorded
<1> QED
  BY <1>14, <1>15, <1>16, <1>17, <1>18, <1>19

(* What marking leaves to the last collection: every slot of an object that *)
(* is not black is still followed, and every slot of a black one that may   *)
(* hold a white object.                                                     *)
LEMMA RestFacts ==
  ASSUME Inv, IsMarking, NEW o \in Object, NEW i \in 1..Length[o]
  PROVE  /\ color[o] # "black" => i \in Rest[o]
         /\ field[o][i] \in Has("white") => i \in Rest[o]
<1> USE DEF Inv
<1>1. /\ bar[o] \in Nat /\ Length[o] \in Nat /\ bar[o] <= Length[o]
      /\ color[o] \in {"white", "grey", "black"}
      /\ state \in {"MARKING", "COMPLETE"}
  BY LengthAssumption DEF TypeOK, IsMarking
<1>2. o \in queue => state = "MARKING"
  BY <1>1 DEF QueuedAreGrey
<1>3. ASSUME color[o] # "black" PROVE i \in Rest[o]
  <2>1. bar[o] = 0
    BY <1>3 DEF BarsOK
  <2>2. o \in Pending
    <3>1. CASE color[o] = "white"
      BY <3>1 DEF Pending, Has
    <3>2. CASE color[o] = "grey"
      <4>1. o \in Has("grey")
        BY <3>2 DEF Has
      <4>2. o \in queue \/ overflowed
        BY <4>1 DEF TriColor
      <4> QED
        BY <1>2, <4>1, <4>2 DEF Pending
    <3> QED
      BY <1>1, <1>3, <3>1, <3>2
  <2> QED
    BY <2>1, <2>2 DEF Rest
<1>4. ASSUME color[o] = "black", field[o][i] \in Has("white") PROVE i \in Rest[o]
  <2>1. o \in Has("black")
    BY <1>4 DEF Has
  <2>2. i \notin Scanned(o)
    <3>1. i \in Scanned(o) => field[o][i] \in Children(o, Scanned(o))
      BY <1>4 DEF Children, Has
    <3> QED
      BY <1>4, <2>1, <3>1 DEF TriColor
  <2>3. o \in Large /\ i > bar[o]
    BY <1>1, <2>2 DEF Scanned
  <2>4. o \in queue
    BY <2>1, <2>2 DEF TriColor
  <2> QED
    BY <1>1, <1>2, <2>3, <2>4 DEF Pending, Rest
<1> QED
  BY <1>3, <1>4

(* The last collection keeps whatever the slots of the objects it keeps     *)
(* refer to, and finds every slot that refers to an object it moves.        *)
LEMMA FinishInv ==
  ASSUME Inv, Finish
  PROVE  Inv'
<1> USE DEF Inv
<1> DEFINE visited == young \cup candidates \cup rescan
           Updated(o, i, moved) == \/ o \in visited
                                   \/ i \in Rest[o]
                                   \/ \E v \in moved : <<o, i, v>> \in recorded
           newField(moved) == [o \in Object |-> [i \in 1..Length[o] |->
                  CASE o \notin Marked -> Nil
                    [] o \in Marked /\ field[o][i] \in moved /\ ~Updated(o, i, moved) -> Stale
                    [] OTHER -> field[o][i]]]
<1>1. /\ IsMarking /\ Stopped /\ UNCHANGED roots
      /\ heap' = Marked /\ young' \subseteq young \cap Marked
      /\ queue' \subseteq queue /\ overflowed' = FALSE
  BY DEF Finish
<1>2. PICK moved \in SUBSET candidates : field' = newField(moved)
  BY Zenon DEF Finish
<1>3. /\ Marked \subseteq heap /\ (roots \cup Has("grey") \cup Has("black")) \cap heap \subseteq Marked
      /\ \A o \in Marked : Children(o, Rest[o]) \cap heap \subseteq Marked
  BY ReachedClosed DEF Marked
<1>4. heap \subseteq Object /\ roots \subseteq heap /\ candidates \subseteq heap
  BY DEF TypeOK, PointersValid
<1>5. \A o \in Marked : \A i \in 1..Length[o] : field[o][i] \in Marked \cup {Nil, Trimmed}
  <2>1. ASSUME NEW o \in Marked, NEW i \in 1..Length[o]
        PROVE  field[o][i] \in Marked \cup {Nil, Trimmed}
    <3>1. o \in Object /\ field[o][i] \in heap \cup {Nil, Trimmed}
      BY <1>3, <1>4 DEF PointersValid
    <3>2. CASE field[o][i] \in Has("white") /\ field[o][i] \in heap
      <4>1. field[o][i] \in Children(o, Rest[o])
        BY <1>1, <1>4, <3>1, <3>2, RestFacts DEF Children
      <4> QED
        BY <1>3, <3>2, <4>1
    <3>3. CASE field[o][i] \notin Has("white") /\ field[o][i] \in heap
      <4>1. field[o][i] \in Has("grey") \cup Has("black")
        BY <1>4, <3>3 DEF TypeOK, Has
      <4> QED
        BY <1>3, <3>3, <4>1
    <3> QED
      BY <3>1, <3>2, <3>3
  <2> QED
    BY <2>1
<1>6. \A o \in Marked : \A i \in 1..Length[o] : field[o][i] \in moved => Updated(o, i, moved)
  <2>1. ASSUME NEW o \in Marked, NEW i \in 1..Length[o], field[o][i] \in moved,
               o \notin visited
        PROVE  i \in Rest[o] \/ \E v \in moved : <<o, i, v>> \in recorded
    <3>1. o \in Object
      BY <1>3, <1>4
    <3>2. CASE color[o] # "black"
      BY <1>1, <3>1, <3>2, RestFacts
    <3>3. CASE color[o] = "black"
      <4>1. o \in Has("black") \ Skipped
        BY <2>1, <3>1, <3>3 DEF Has, Skipped
      <4>2. <<o, i, field[o][i]>> \in recorded
        BY <2>1, <4>1 DEF SlotsRecorded
      <4> QED
        BY <2>1, <4>2
    <3> QED
      BY <3>2, <3>3
  <2> QED
    BY <2>1
<1>7. \A o \in Object : \A i \in 1..Length[o] :
        /\ o \in Marked => field'[o][i] = field[o][i]
        /\ o \notin Marked => field'[o][i] = Nil
  <2>1. ASSUME NEW o \in Object, NEW i \in 1..Length[o]
        PROVE  /\ o \in Marked => field'[o][i] = field[o][i]
               /\ o \notin Marked => field'[o][i] = Nil
    <3>1. field'[o][i] = CASE o \notin Marked -> Nil
                    [] o \in Marked /\ field[o][i] \in moved /\ ~Updated(o, i, moved) -> Stale
                    [] OTHER -> field[o][i]
      BY <1>2
    <3> HIDE DEF Updated
    <3> QED
      BY <1>6, <3>1
  <2> QED
    BY <2>1
<1>8. DOMAIN field' = Object /\ \A o \in Object : DOMAIN field'[o] = 1..Length[o]
                              /\ field'[o] = [i \in 1..Length[o] |-> field'[o][i]]
  BY <1>2
<1> HIDE DEF newField, Updated, visited
<1>9. /\ ~IsMarking' /\ state' = "STOPPED" /\ hurry' = FALSE
      /\ compacting' = FALSE /\ candidates' = {} /\ rescan' = {} /\ recorded' = {}
      /\ color' = [o \in Object |-> "white"] /\ bar' = [o \in Object |-> 0]
  BY <1>1 DEF Stopped, IsMarking
<1>10. Has("grey")' = {} /\ Has("black")' = {}
  BY <1>9 DEF Has
<1>11. TypeOK'
  <2>1. \A o \in Object : field'[o] \in [1..Length[o] -> Value \cup {Stale}]
    <3>1. \A o \in Object : \A i \in 1..Length[o] : field'[o][i] \in Value \cup {Stale}
      <4>1. \A o \in Object : \A i \in 1..Length[o] : field[o][i] \in Value \cup {Stale}
        BY DEF TypeOK
      <4>2. Nil \in Value
        BY DEF Value
      <4> QED
        BY <1>7, <4>1, <4>2
    <3> QED
      BY <1>8, <3>1
  <2>2. bar' \in [Object -> Nat] /\ \A x \in Object : bar'[x] <= Length[x]
    BY <1>9, LengthAssumption
  <2>3. young' \subseteq heap' /\ heap' \subseteq Object /\ young' \subseteq Young
    BY <1>1, <1>3, <1>4 DEF TypeOK
  <2>4. queue' \subseteq Object /\ roots' \subseteq Object /\ overflowed' \in BOOLEAN
    BY <1>1 DEF TypeOK
  <2>5. color' \in [Object -> {"white", "grey", "black"}]
    BY <1>9
  <2> QED
    BY <1>8, <1>9, <1>10, <2>1, <2>2, <2>3, <2>4, <2>5 DEF TypeOK, Value
<1>12. TriColor' /\ QueuedAreGrey'
  BY <1>9 DEF TriColor, QueuedAreGrey
<1>13. PointersValid' /\ AbsentOK'
  <2>1. \A o \in Marked : \A i \in 1..Length[o] : field'[o][i] \in Marked \cup {Nil, Trimmed}
    BY <1>3, <1>4, <1>5, <1>7
  <2>2. roots' \subseteq Marked
    BY <1>1, <1>3, <1>4
  <2> QED
    BY <1>1, <1>7, <2>1, <2>2 DEF PointersValid, AbsentOK
<1>14. Idle' /\ BarsOK' /\ SlotsRecorded'
  BY <1>9, <1>10 DEF Idle, BarsOK, SlotsRecorded
<1> QED
  BY <1>11, <1>12, <1>13, <1>14

LEMMA AbortInv ==
  ASSUME Inv, AbortAndCollect
  PROVE  Inv'
<1> USE DEF Inv
<1> DEFINE live == Reached(roots, heap, All)
<1>1. /\ heap' = live /\ young' \subseteq young \cap live /\ Erased(heap \ live)
      /\ queue' = {} /\ overflowed' = FALSE /\ Stopped /\ UNCHANGED roots
  BY DEF AbortAndCollect
<1>2. /\ live \subseteq heap /\ roots \cap heap \subseteq live
      /\ \A o \in live : Children(o, All[o]) \cap heap \subseteq live
  BY ReachedClosed
<1> HIDE DEF live
<1>3. heap \subseteq Object /\ roots \subseteq heap
  BY DEF TypeOK, PointersValid
<1>4. field' = [o \in Object |->
                 IF o \in heap \ live THEN [i \in 1..Length[o] |-> Nil] ELSE field[o]]
  BY <1>1 DEF Erased
<1>5. /\ ~IsMarking' /\ state' = "STOPPED" /\ hurry' = FALSE
      /\ compacting' = FALSE /\ candidates' = {} /\ rescan' = {} /\ recorded' = {}
      /\ color' = [o \in Object |-> "white"] /\ bar' = [o \in Object |-> 0]
  BY <1>1 DEF Stopped, IsMarking
<1>6. Has("grey")' = {} /\ Has("black")' = {}
  BY <1>5 DEF Has
<1>7. TypeOK'
  <2>1. \A o \in Object : field'[o] \in [1..Length[o] -> Value \cup {Stale}]
    <3>1. \A o \in Object : [i \in 1..Length[o] |-> Nil] \in [1..Length[o] -> Value \cup {Stale}]
      BY DEF Value
    <3>2. \A o \in Object : field[o] \in [1..Length[o] -> Value \cup {Stale}]
      BY DEF TypeOK
    <3> QED
      BY <1>4, <3>1, <3>2
  <2>2. bar' \in [Object -> Nat] /\ \A x \in Object : bar'[x] <= Length[x]
    BY <1>5, LengthAssumption
  <2>3. young' \subseteq heap' /\ heap' \subseteq Object /\ young' \subseteq Young
    BY <1>1, <1>2, <1>3 DEF TypeOK
  <2>4. color' \in [Object -> {"white", "grey", "black"}] /\ DOMAIN field' = Object
    BY <1>4, <1>5
  <2>5. roots' \subseteq Object
    BY <1>1, <1>3
  <2> QED
    BY <1>1, <1>5, <1>6, <2>1, <2>2, <2>3, <2>4, <2>5 DEF TypeOK, Value
<1>8. TriColor' /\ QueuedAreGrey'
  BY <1>5 DEF TriColor, QueuedAreGrey
<1>9. PointersValid' /\ AbsentOK'
  <2>1. \A o \in live : \A i \in 1..Length[o] : field'[o][i] \in live \cup {Nil, Trimmed}
    <3>1. ASSUME NEW o \in live, NEW i \in 1..Length[o]
          PROVE  field'[o][i] \in live \cup {Nil, Trimmed}
      <4>1. o \in Object /\ field'[o][i] = field[o][i] /\ field[o][i] \in heap \cup {Nil, Trimmed}
        BY <1>2, <1>3, <1>4 DEF PointersValid
      <4>2. field[o][i] \in heap => field[o][i] \in Children(o, All[o])
        BY <1>3, <4>1 DEF Children, All
      <4> QED
        BY <1>2, <4>1, <4>2
    <3> QED
      BY <3>1
  <2>2. roots' \subseteq live
    BY <1>1, <1>2, <1>3
  <2>3. \A o \in Object \ live : \A i \in 1..Length[o] : field'[o][i] = Nil
    BY <1>4 DEF AbsentOK
  <2> QED
    BY <1>1, <2>1, <2>2, <2>3 DEF PointersValid, AbsentOK
<1>10. Idle' /\ BarsOK' /\ SlotsRecorded'
  BY <1>5, <1>6 DEF Idle, BarsOK, SlotsRecorded
<1> QED
  BY <1>7, <1>8, <1>9, <1>10

-----------------------------------------------------------------------------
(* The theorems.                                                            *)

LEMMA StutterInv ==
  ASSUME Inv, UNCHANGED vars
  PROVE  Inv'
<1> USE DEF vars, graph, marking, deque
<1>1. TypeOK' /\ TriColor' /\ QueuedAreGrey'
  BY DEF Inv, TypeOK, TriColor, QueuedAreGrey, Has, Children, Scanned, IsMarking, Value
<1>2. PointersValid' /\ Idle' /\ BarsOK' /\ AbsentOK' /\ SlotsRecorded'
  BY DEF Inv, PointersValid, Idle, BarsOK, AbsentOK, SlotsRecorded, Has, Skipped, IsMarking
<1> QED
  BY <1>1, <1>2 DEF Inv

LEMMA NextInv == Inv /\ [Next]_vars => Inv'
<1> SUFFICES ASSUME Inv, [Next]_vars PROVE Inv'
  OBVIOUS
<1>1. CASE Start \/ SweepingEnds
  BY <1>1, StartInv
<1>2. CASE Step
  BY <1>2, StepInv
<1>3. CASE \E o \in Object : Allocate(o)
  BY <1>3, AllocateInv
<1>4. CASE \E o \in Object : Drop(o) \/ \E v \in Object : Load(o, v)
  BY <1>4, RootsInv
<1>5. CASE \E o \in Object : \E i \in 1..Length[o], v \in (roots \cap Holds[o]) \cup {Nil} :
             Write(o, i, v)
  BY <1>5, WriteInv
<1>6. CASE \E o \in Object : \E dst, src \in 1..Length[o], n \in 0..Length[o]-1 :
             MoveElements(o, dst, src, n)
  BY <1>6, MoveInv
<1>7. CASE \E o \in Object : \E n \in 1..Length[o] : LeftTrim(o, n)
  BY <1>7, LeftTrimInv
<1>8. CASE Scavenge \/ Finish \/ AbortAndCollect
  BY <1>8, ScavengeInv, FinishInv, AbortInv
<1>9. CASE UNCHANGED vars
  BY <1>9, StutterInv
<1> QED
  BY <1>1, <1>2, <1>3, <1>4, <1>5, <1>6, <1>7, <1>8, <1>9 DEF Next

(* The strengthened invariant holds in every state.                         *)
THEOREM Invariance == Spec => []Inv
  BY InitInv, NextInv, PTL DEF Spec

(* The tables of the collector have their types and never refer to objects  *)
(* that are not there, whatever is freed, promoted or given up.             *)
THEOREM TypesCorrect == Spec => []TypeOK
<1>1. Inv => TypeOK
  BY DEF Inv
<1> QED
  BY <1>1, Invariance, PTL

(* The write barrier (RecordWriteSlow, RecordWrites) and the marker keep    *)
(* every slot of a black object that was scanned from a white one, and lose *)
(* no grey object without noting the overflow.                              *)
THEOREM TriColorHolds == Spec => []TriColor
<1>1. Inv => TriColor
  BY DEF Inv
<1> QED
  BY <1>1, Invariance, PTL

(* The ASSERTs of the marker about its deque hold.                          *)
THEOREM DequeIsGrey == Spec => []QueuedAreGrey
<1>1. Inv => QueuedAreGrey
  BY DEF Inv
<1> QED
  BY <1>1, Invariance, PTL

(* No collection frees or moves an object under a pointer that is left in   *)
(* the heap or held by the program, however the steps of the marker, the    *)
(* stores, shifts and trims of the program and the scavenges interleave,    *)
(* and wherever the deque or a slots buffer overflows.                      *)
THEOREM PointersAreValid == Spec => []PointersValid
<1>1. Inv => PointersValid
  BY DEF Inv
<1> QED
  BY <1>1, Invariance, PTL

=============================================================================

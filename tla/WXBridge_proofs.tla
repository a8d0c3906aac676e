--------------------------- MODULE WXBridge_proofs ---------------------------
(***************************************************************************)
(* Proofs about WXBridge, for any scripts, instances and depth of nesting.  *)
(***************************************************************************)
EXTENDS WXBridge, FiniteSetTheorems, WellFoundedInduction, TLAPS

TopType == [scheduled : Origin \cup {NoException}, external : BOOLEAN,
            catcher : 0 .. MaxFrames, depth : 0 .. MaxFrames]

Runners == {"execJS", "runScript"}

(* One frame by itself: only JavaScript has handlers, and of the bridge only *)
(* execJS and ExecuteJavaScript have a TryCatch.                            *)
FrameOK(f) ==
  /\ f \in Frame
  /\ f.js <=> f.fn = "js"
  /\ ~f.js => /\ f.step \in DOMAIN Steps[f.fn]
              /\ f.handler = "none"
              /\ f.carried = NoException
              /\ f.tc <=> f.fn \in Runners

(* Frame g directly above frame f: JavaScript calls callbacks and nothing    *)
(* else does, and a bridge function runs JavaScript only before its call to *)
(* Java.                                                                    *)
Over(f, g) ==
  /\ f.js <=> g.fn \in Callbacks
  /\ g.js => /\ ~f.js
             /\ Steps[f.fn][f.step] \notin {"java", "true"}
             /\ f.fn \in Runners /\ f.step = 1 => ~g.tc
  /\ g.fn \notin {"runScript", "setJSFVersion"}

Bottom(f) == ~f.js /\ f.fn \notin Callbacks

StackOK(stk) ==
  /\ stk \in Seq(Frame)
  /\ \A i \in 1 .. Len(stk) : FrameOK(stk[i])
  /\ \A i \in 1 .. Len(stk) - 1 : Over(stk[i], stk[i + 1])
  /\ Len(stk) > 0 => Bottom(stk[1])

JSFrames(stk) == {i \in 1 .. Len(stk) : stk[i].js}
HasCallback(stk) == \E i \in 1 .. Len(stk) : stk[i].fn \in Callbacks
Reported(stk) ==
  \A i \in 1 .. Len(stk) :
    stk[i].fn \in Runners /\ stk[i].step \in {3, 4} => stk[i].caught # NoException

(* The inductive invariant, of any stack, exception fields and references.  *)
Inv(stk, t, refs) ==
  /\ StackOK(stk)
  /\ Len(stk) <= MaxFrames
  /\ t \in TopType
  /\ t.depth = Cardinality(JSFrames(stk))
  /\ t.catcher # 0 => t.catcher \in TryCatches(stk)
  /\ t.scheduled # NoException => HasCallback(stk)
  /\ Reported(stk)
  /\ refs \subseteq (1 .. MaxFrames) \X (1 .. 6)

IInv == Inv(stack, top, locals) /\ framework \in BOOLEAN

(* The step tables.                                                         *)
LEMMA StepsOf ==
  /\ DOMAIN Steps = Callbacks \cup Runners \cup {"setJSFVersion"}
  /\ Steps.callNative = <<"utf8", "task", "utf8", "java">>
  /\ Steps.callAddElement = <<"utf8", "utf8", "dom", "utf8", "utf8", "java">>
  /\ Steps.setTimeoutNative = <<"utf8", "utf8", "java">>
  /\ Steps.nativeLog = <<"tostr", "tostr", "message", "java">>
  /\ Steps.execJS = <<"run", "true", "report", "java">>
  /\ Steps.runScript = <<"run", "true", "report", "java">>
  /\ Steps.setJSFVersion = <<"version", "utf8", "java">>
BY DEF Steps, Callbacks, Runners

(* A function is at a step of its own after a step that is not its last, and *)
(* execJS and ExecuteJavaScript reach their report only by a call that failed. *)
LEMMA StepAfterOK ==
  ASSUME NEW f, f.fn \in DOMAIN Steps, f.step \in DOMAIN Steps[f.fn],
         Steps[f.fn][f.step] \notin {"java", "true"}, NEW ok \in BOOLEAN
  PROVE  /\ f.step \in 1 .. 6
         /\ StepAfter(f, ok) \in DOMAIN Steps[f.fn]
         /\ StepAfter(f, ok) \in 1 .. 6
         /\ f.fn \in Runners /\ StepAfter(f, ok) \in {3, 4}
              => (f.step = 1 /\ ~ok) \/ f.step = 3
         /\ f.fn \notin Runners \/ f.step \in {1, 3}
<1>1. CASE f.fn = "callNative"
  BY <1>1, StepsOf DEF StepAfter, Runners
<1>2. CASE f.fn = "callAddElement"
  BY <1>2, StepsOf DEF StepAfter, Runners
<1>3. CASE f.fn = "setTimeoutNative"
  BY <1>3, StepsOf DEF StepAfter, Runners
<1>4. CASE f.fn = "nativeLog"
  BY <1>4, StepsOf DEF StepAfter, Runners
<1>5. CASE f.fn = "execJS"
  BY <1>5, StepsOf DEF StepAfter, Runners
<1>6. CASE f.fn = "runScript"
  BY <1>6, StepsOf DEF StepAfter, Runners
<1>7. CASE f.fn = "setJSFVersion"
  BY <1>7, StepsOf DEF StepAfter, Runners
<1> QED
  BY <1>1, <1>2, <1>3, <1>4, <1>5, <1>6, <1>7, StepsOf DEF Callbacks, Runners

----------------------------------------------------------------------------
(* Stacks: a frame changes, is pushed, is popped.                           *)

LEMMA FramesOf ==
  ASSUME NEW stk, StackOK(stk)
  PROVE  /\ Len(stk) \in Nat
         /\ DOMAIN stk = 1 .. Len(stk)
         /\ \A i \in 1 .. Len(stk) : stk[i] \in Frame /\ FrameOK(stk[i])
BY DEF StackOK

Replaced(stk, i, g) == [stk EXCEPT ![i] = g]

LEMMA Update ==
  ASSUME NEW stk, StackOK(stk), NEW i \in 1 .. Len(stk), NEW g, FrameOK(g),
         g.fn = stk[i].fn, g.tc = stk[i].tc,
         i = Len(stk) \/ g.step = stk[i].step,
         NEW new, new = Replaced(stk, i, g)
  PROVE  /\ StackOK(new)
         /\ Len(new) = Len(stk)
         /\ new[i] = g
         /\ \A j \in 1 .. Len(stk) : j # i => new[j] = stk[j]
         /\ JSFrames(new) = JSFrames(stk)
         /\ TryCatches(new) = TryCatches(stk)
         /\ HasCallback(new) <=> HasCallback(stk)
<1>0. Len(stk) \in Nat
  BY DEF StackOK
<1>1. Len(stk) \in Nat /\ DOMAIN stk = 1 .. Len(stk) /\ stk \in Seq(Frame)
  BY DEF StackOK
<1>2. g \in Frame /\ stk[i] \in Frame /\ FrameOK(stk[i])
  BY <1>1 DEF StackOK, FrameOK
<1>3. g.js = stk[i].js
  BY <1>2 DEF FrameOK, Frame
<1>4. /\ new \in Seq(Frame) /\ Len(new) = Len(stk) /\ DOMAIN new = DOMAIN stk
      /\ new[i] = g
      /\ \A j \in 1 .. Len(stk) : j # i => new[j] = stk[j]
  BY <1>1, <1>2 DEF Replaced
<1>5. \A j \in 1 .. Len(stk) : FrameOK(new[j])
  BY <1>4 DEF StackOK
<1>6. ASSUME NEW j \in 1 .. Len(new) - 1 PROVE Over(new[j], new[j + 1])
  <2>0. j \in 1 .. Len(stk) - 1
    BY <1>4
  <2>1. /\ j \in Nat /\ j \in 1 .. Len(stk) /\ j + 1 \in 1 .. Len(stk) /\ j # j + 1
        /\ j # Len(stk)
        /\ Over(stk[j], stk[j + 1])
    <3>1. /\ j \in Nat /\ j \in 1 .. Len(stk) /\ j + 1 \in 1 .. Len(stk) /\ j # j + 1
          /\ j # Len(stk)
      BY <2>0, <1>0
    <3>2. Over(stk[j], stk[j + 1])
      BY <2>0 DEF StackOK
    <3> QED
      BY <3>1, <3>2
  <2>2. CASE j # i /\ j + 1 # i
    BY <2>1, <2>2, <1>4
  <2>3. CASE j + 1 = i
    BY <2>1, <2>3, <1>1, <1>3, <1>4 DEF Over
  <2>4. CASE j = i
    <3>1. g.step = stk[i].step
      BY <2>1, <2>4
    <3>2. new[j] = g /\ new[j + 1] = stk[j + 1]
      BY <2>1, <2>4, <1>4
    <3> QED
      BY <3>1, <3>2, <2>1, <2>4, <1>3 DEF Over
  <2> QED
    BY <2>2, <2>3, <2>4
<1>7. Len(new) > 0 => Bottom(new[1])
  <2>1. CASE Len(stk) = 0
    BY <2>1, <1>4
  <2>2. CASE Len(stk) # 0
    <3>1. 1 \in 1 .. Len(stk) /\ Len(stk) > 0
      BY <2>2, <1>0
    <3>2. Bottom(stk[1])
      BY <3>1 DEF StackOK
    <3> QED
      BY <3>1, <3>2, <1>3, <1>4 DEF Bottom
  <2> QED
    BY <2>1, <2>2
<1>8. StackOK(new)
  BY <1>4, <1>5, <1>6, <1>7 DEF StackOK
<1>9. \A j \in 1 .. Len(stk) : new[j].js = stk[j].js /\ new[j].tc = stk[j].tc /\ new[j].fn = stk[j].fn
  BY <1>3, <1>4
<1>10. JSFrames(new) = JSFrames(stk) /\ TryCatches(new) = TryCatches(stk)
  BY <1>1, <1>4, <1>9 DEF JSFrames, TryCatches
<1>11. HasCallback(new) <=> HasCallback(stk)
  BY <1>4, <1>9 DEF HasCallback
<1> QED
  BY <1>4, <1>8, <1>10, <1>11

(* Frame f may be pushed.                                                   *)
Fits(f, stk) ==
  /\ FrameOK(f)
  /\ Len(stk) = 0 => Bottom(f)
  /\ Len(stk) # 0 => Over(LastOf(stk), f)

Pushed(stk, f) == Append(stk, f)

LEMMA Push ==
  ASSUME NEW stk, StackOK(stk), NEW f, Fits(f, stk),
         NEW new, new = Pushed(stk, f)
  PROVE  /\ StackOK(new)
         /\ Len(new) = Len(stk) + 1
         /\ new[Len(stk) + 1] = f
         /\ \A j \in 1 .. Len(stk) : new[j] = stk[j]
<1>1. Len(stk) \in Nat /\ stk \in Seq(Frame) /\ f \in Frame /\ FrameOK(f)
  BY DEF StackOK, FrameOK, Fits
<1>2. /\ new \in Seq(Frame) /\ Len(new) = Len(stk) + 1
      /\ new[Len(stk) + 1] = f
      /\ \A j \in 1 .. Len(stk) : new[j] = stk[j]
  BY <1>1 DEF Pushed
<1>3. \A j \in 1 .. Len(new) : FrameOK(new[j])
  BY <1>1, <1>2 DEF StackOK
<1>4. ASSUME NEW j \in 1 .. Len(new) - 1 PROVE Over(new[j], new[j + 1])
  <2>1. CASE j = Len(stk)
    BY <2>1, <1>1, <1>2 DEF LastOf, Fits
  <2>2. CASE j # Len(stk)
    <3>1. j \in 1 .. Len(stk) - 1 /\ j \in 1 .. Len(stk) /\ j + 1 \in 1 .. Len(stk)
      BY <2>2, <1>1, <1>2
    <3>2. Over(stk[j], stk[j + 1])
      BY <3>1 DEF StackOK
    <3> QED
      BY <3>1, <3>2, <1>2
  <2> QED
    BY <2>1, <2>2
<1>5. Bottom(new[1])
  <2>1. CASE Len(stk) = 0
    BY <2>1, <1>2 DEF Fits
  <2>2. CASE Len(stk) # 0
    BY <2>2, <1>1, <1>2 DEF StackOK
  <2> QED
    BY <2>1, <2>2
<1> QED
  BY <1>2, <1>3, <1>4, <1>5 DEF StackOK

LEMMA SubSeqOfFront ==
  ASSUME NEW S, NEW s \in Seq(S), NEW m \in 0 .. Len(s)
  PROVE  /\ SubSeq(s, 1, m) \in Seq(S)
         /\ Len(SubSeq(s, 1, m)) = m
         /\ \A j \in 1 .. m : SubSeq(s, 1, m)[j] = s[j]
OBVIOUS

LEMMA Pop ==
  ASSUME NEW stk, StackOK(stk), Len(stk) # 0
  PROVE  /\ StackOK(Below(stk))
         /\ Len(Below(stk)) = Len(stk) - 1
         /\ \A j \in 1 .. Len(stk) - 1 : Below(stk)[j] = stk[j]
<1>1. Len(stk) \in Nat \ {0} /\ stk \in Seq(Frame)
  BY DEF StackOK
<1>2. /\ Below(stk) \in Seq(Frame) /\ Len(Below(stk)) = Len(stk) - 1
      /\ \A j \in 1 .. Len(stk) - 1 : Below(stk)[j] = stk[j]
  <2>1. 1 \in 1 .. Len(stk) + 1 /\ Len(stk) - 1 \in 0 .. Len(stk)
    BY <1>1
  <2>2. /\ SubSeq(stk, 1, Len(stk) - 1) \in Seq(Frame)
        /\ Len(SubSeq(stk, 1, Len(stk) - 1)) = Len(stk) - 1
        /\ \A j \in 1 .. Len(stk) - 1 : SubSeq(stk, 1, Len(stk) - 1)[j] = stk[j]
    BY <1>1, <2>1, SubSeqOfFront
  <2> QED
    BY <2>2 DEF Below
<1>3. \A j \in 1 .. Len(Below(stk)) : FrameOK(Below(stk)[j])
  BY <1>1, <1>2 DEF StackOK
<1>4. \A j \in 1 .. Len(Below(stk)) - 1 : Over(Below(stk)[j], Below(stk)[j + 1])
  <2> TAKE j \in 1 .. Len(Below(stk)) - 1
  <2>1. j \in 1 .. Len(stk) - 1 /\ j + 1 \in 1 .. Len(stk) - 1
    BY <1>1, <1>2
  <2>2. Over(stk[j], stk[j + 1])
    BY <2>1 DEF StackOK
  <2> QED
    BY <2>1, <2>2, <1>2
<1>5. Len(Below(stk)) > 0 => Bottom(Below(stk)[1])
  BY <1>1, <1>2 DEF StackOK
<1> QED
  BY <1>2, <1>3, <1>4, <1>5 DEF StackOK

(* The frames that are calls into JavaScript, counted by call_depth_.       *)
LEMMA JSFramesCount ==
  ASSUME NEW stk, StackOK(stk)
  PROVE  /\ IsFiniteSet(JSFrames(stk))
         /\ Cardinality(JSFrames(stk)) \in 0 .. Len(stk)
<1>1. Len(stk) \in Nat /\ JSFrames(stk) \in SUBSET (1 .. Len(stk))
  BY DEF StackOK, JSFrames
<1>2. IsFiniteSet(1 .. Len(stk)) /\ Cardinality(1 .. Len(stk)) = Len(stk)
  <2>1. /\ IsFiniteSet(1 .. Len(stk))
        /\ Cardinality(1 .. Len(stk)) = IF 1 > Len(stk) THEN 0 ELSE Len(stk) - 1 + 1
    <3>1. 1 \in Int /\ Len(stk) \in Int
      BY <1>1
    <3> QED
      BY <3>1, FS_Interval
  <2> QED
    BY <2>1, <1>1
<1>3. IsFiniteSet(JSFrames(stk)) /\ Cardinality(JSFrames(stk)) <= Len(stk)
  BY <1>1, <1>2, FS_Subset
<1>4. Cardinality(JSFrames(stk)) \in Nat
  BY <1>3, FS_CardinalityType
<1> QED
  BY <1>1, <1>3, <1>4

LEMMA JSFramesOfPop ==
  ASSUME NEW stk, StackOK(stk), Len(stk) # 0
  PROVE  Cardinality(JSFrames(Below(stk)))
           = Cardinality(JSFrames(stk)) - (IF LastOf(stk).js THEN 1 ELSE 0)
<1>1. Len(stk) \in Nat \ {0} /\ Len(Below(stk)) = Len(stk) - 1
      /\ \A j \in 1 .. Len(stk) - 1 : Below(stk)[j] = stk[j]
  BY Pop DEF StackOK
<1>2. JSFrames(Below(stk)) = JSFrames(stk) \ {Len(stk)}
  BY <1>1 DEF JSFrames
<1>3. Len(stk) \in JSFrames(stk) <=> LastOf(stk).js
  BY <1>1 DEF JSFrames, LastOf
<1>4. IsFiniteSet(JSFrames(stk)) /\ Cardinality(JSFrames(stk)) \in Nat
  BY JSFramesCount, <1>1
<1>5. Cardinality(JSFrames(stk) \ {Len(stk)})
        = IF Len(stk) \in JSFrames(stk) THEN Cardinality(JSFrames(stk)) - 1
                                        ELSE Cardinality(JSFrames(stk))
  BY <1>4, FS_RemoveElement
<1> QED
  BY <1>2, <1>3, <1>4, <1>5

LEMMA JSFramesOfPush ==
  ASSUME NEW stk, StackOK(stk), NEW f, NEW new, Len(new) = Len(stk) + 1,
         new[Len(stk) + 1] = f, \A j \in 1 .. Len(stk) : new[j] = stk[j]
  PROVE  Cardinality(JSFrames(new)) = Cardinality(JSFrames(stk)) + (IF f.js THEN 1 ELSE 0)
<1>1. Len(stk) \in Nat
  BY DEF StackOK
<1>2. IsFiniteSet(JSFrames(stk)) /\ Cardinality(JSFrames(stk)) \in Nat
  BY JSFramesCount, <1>1
<1>3. Len(stk) + 1 \notin JSFrames(stk)
  BY <1>1 DEF JSFrames
<1>4. CASE f.js
  <2>1. JSFrames(new) = JSFrames(stk) \cup {Len(stk) + 1}
    BY <1>1, <1>4 DEF JSFrames
  <2> QED
    BY <2>1, <1>2, <1>3, <1>4, FS_AddElement
<1>5. CASE ~f.js
  <2>1. JSFrames(new) = JSFrames(stk)
    BY <1>1, <1>5 DEF JSFrames
  <2> QED
    BY <2>1, <1>2, <1>5
<1> QED
  BY <1>4, <1>5

----------------------------------------------------------------------------
(* Leaving JavaScript.                                                      *)

LEMMA TopFrameIsOverBridge ==
  ASSUME NEW stk, StackOK(stk), Len(stk) # 0, LastOf(stk).js
  PROVE  /\ Len(stk) \in Nat /\ Len(stk) >= 2
         /\ Len(stk) - 1 \in 1 .. Len(stk)
         /\ Over(stk[Len(stk) - 1], stk[Len(stk)])
         /\ FrameOK(stk[Len(stk) - 1]) /\ FrameOK(stk[Len(stk)])
<1>1. Len(stk) \in Nat
  BY DEF StackOK
<1>2. Len(stk) # 1
  <2>1. SUFFICES ASSUME Len(stk) = 1 PROVE FALSE
    OBVIOUS
  <2>2. ~stk[1].js
    BY <2>1 DEF StackOK, Bottom
  <2> QED
    BY <2>1, <2>2 DEF LastOf
<1>3. /\ Len(stk) >= 2 /\ Len(stk) - 1 \in 1 .. Len(stk) /\ Len(stk) \in 1 .. Len(stk)
      /\ Len(stk) - 1 \in 1 .. Len(stk) - 1 /\ (Len(stk) - 1) + 1 = Len(stk)
  <2>1. \A n \in Nat : n # 0 /\ n # 1 =>
          /\ n >= 2 /\ n - 1 \in 1 .. n /\ n \in 1 .. n
          /\ n - 1 \in 1 .. n - 1 /\ (n - 1) + 1 = n
    OBVIOUS
  <2> QED
    BY <1>1, <1>2, <2>1
<1>4. Over(stk[Len(stk) - 1], stk[(Len(stk) - 1) + 1])
  BY <1>3 DEF StackOK
<1> QED
  BY <1>1, <1>3, <1>4 DEF StackOK

(* The step field of a bridge frame advances.                               *)
LEMMA Advanced ==
  ASSUME NEW f, FrameOK(f), ~f.js, Steps[f.fn][f.step] \notin {"java", "true"},
         NEW ok \in BOOLEAN, NEW g, g = [f EXCEPT !.step = StepAfter(f, ok)]
  PROVE  /\ FrameOK(g)
         /\ g.fn = f.fn /\ g.tc = f.tc /\ g.caught = f.caught
         /\ g.step = StepAfter(f, ok)
<1>1. f \in Frame /\ f.fn \in DOMAIN Steps /\ f.step \in DOMAIN Steps[f.fn]
  BY DEF FrameOK, Frame
<1>2. StepAfter(f, ok) \in 1 .. 6 /\ StepAfter(f, ok) \in DOMAIN Steps[f.fn]
  BY <1>1, StepAfterOK
<1>3. /\ g \in Frame /\ g.fn = f.fn /\ g.tc = f.tc /\ g.js = f.js /\ g.handler = f.handler
      /\ g.carried = f.carried /\ g.caught = f.caught /\ g.step = StepAfter(f, ok)
  BY <1>1, <1>2 DEF Frame
<1> QED
  BY <1>2, <1>3 DEF FrameOK

LEMMA ResumedOK ==
  ASSUME NEW stk, StackOK(stk), Len(stk) # 0, ~LastOf(stk).js,
         Steps[LastOf(stk).fn][LastOf(stk).step] \notin {"java", "true"},
         NEW ok \in BOOLEAN, Reported(stk),
         LastOf(stk).fn \in Runners /\ LastOf(stk).step = 1 /\ ~ok
           => LastOf(stk).caught # NoException
  PROVE  LET new == Resumed(stk, ok)
         IN  /\ StackOK(new)
             /\ Len(new) = Len(stk)
             /\ JSFrames(new) = JSFrames(stk)
             /\ TryCatches(new) = TryCatches(stk)
             /\ HasCallback(new) <=> HasCallback(stk)
             /\ Reported(new)
<1>0. Len(stk) \in Nat
  BY DEF StackOK
<1>1. Len(stk) \in 1 .. Len(stk) /\ FrameOK(stk[Len(stk)]) /\ LastOf(stk) = stk[Len(stk)]
  BY <1>0 DEF StackOK, LastOf
<1>2. PICK f : f = stk[Len(stk)]
  OBVIOUS
<1>3. PICK g : g = [f EXCEPT !.step = StepAfter(f, ok)]
  OBVIOUS
<1>4. FrameOK(f) /\ ~f.js /\ Steps[f.fn][f.step] \notin {"java", "true"}
  BY <1>1, <1>2
<1>5. /\ FrameOK(g) /\ g.fn = f.fn /\ g.tc = f.tc /\ g.caught = f.caught
      /\ g.step = StepAfter(f, ok)
  BY <1>3, <1>4, Advanced
<1>6. PICK new : new = Replaced(stk, Len(stk), g)
  OBVIOUS
<1>7. Resumed(stk, ok) = new
  BY <1>1, <1>2, <1>3, <1>6 DEF Resumed, Replaced
<1>8. /\ StackOK(new) /\ Len(new) = Len(stk) /\ new[Len(stk)] = g
      /\ \A j \in 1 .. Len(stk) : j # Len(stk) => new[j] = stk[j]
      /\ JSFrames(new) = JSFrames(stk) /\ TryCatches(new) = TryCatches(stk)
      /\ HasCallback(new) <=> HasCallback(stk)
  <2>1. g.fn = stk[Len(stk)].fn /\ g.tc = stk[Len(stk)].tc
    BY <1>2, <1>5
  <2> QED
    BY <1>1, <1>5, <1>6, <2>1, Update
<1>9. ASSUME NEW j \in 1 .. Len(new), new[j].fn \in Runners, new[j].step \in {3, 4}
      PROVE  new[j].caught # NoException
  <2>1. CASE j # Len(stk)
    BY <2>1, <1>8, <1>9 DEF Reported
  <2>2. CASE j = Len(stk)
    <3>1. f.fn \in Runners /\ g.step \in {3, 4} /\ new[j].caught = f.caught
      BY <2>2, <1>5, <1>8, <1>9
    <3>2. f.fn \in DOMAIN Steps /\ f.step \in DOMAIN Steps[f.fn]
      BY <3>1, <1>4, StepsOf DEF FrameOK
    <3>3. (f.step = 1 /\ ~ok) \/ f.step = 3
      BY <3>1, <3>2, <1>4, <1>5, StepAfterOK
    <3>4. f.caught # NoException
      BY <3>1, <3>3, <1>1, <1>2 DEF Reported
    <3> QED
      BY <3>1, <3>4
  <2> QED
    BY <2>1, <2>2
<1>10. Reported(new)
  BY <1>9 DEF Reported
<1> QED
  BY <1>7, <1>8, <1>10

(* A reference is made at a step of a frame.                                *)
LEMMA RefsAfterOK ==
  ASSUME NEW stk, StackOK(stk), Len(stk) # 0, Len(stk) <= MaxFrames, NEW ok,
         NEW refs, refs \subseteq (1 .. MaxFrames) \X (1 .. 6)
  PROVE  RefsAfter(stk, refs, ok) \subseteq (1 .. MaxFrames) \X (1 .. 6)
<1>1. Len(stk) \in 1 .. MaxFrames /\ Len(stk) \in 1 .. Len(stk)
  BY BoundAssumption DEF StackOK
<1>2. LastOf(stk).step \in 1 .. 6
  <2>1. LastOf(stk) \in Frame
    BY <1>1, FramesOf DEF LastOf
  <2> QED
    BY <2>1 DEF Frame
<1> QED
  BY <1>1, <1>2 DEF RefsAfter

LEMMA UnregisteredOK ==
  ASSUME NEW stk, StackOK(stk), Len(stk) # 0, NEW t \in TopType,
         t.catcher # 0 => t.catcher \in TryCatches(stk)
  PROVE  LET u == Unregistered(t, LastOf(stk))
         IN  /\ u \in TopType
             /\ u.depth = t.depth /\ u.scheduled = t.scheduled /\ u.external = t.external
             /\ u.catcher # 0 => u.catcher \in TryCatches(Below(stk))
<1> DEFINE u == Unregistered(t, LastOf(stk))
<1>1. /\ Len(stk) \in Nat /\ DOMAIN stk = 1 .. Len(stk)
      /\ LastOf(stk) = stk[Len(stk)]
  BY DEF StackOK, LastOf
<1>2. CASE LastOf(stk).tc
  <2>1. u = [t EXCEPT !.catcher = 0]
    BY <1>2 DEF Unregistered
  <2> QED
    BY <2>1, BoundAssumption DEF TopType
<1>3. CASE ~LastOf(stk).tc
  <2>1. u = t
    BY <1>3 DEF Unregistered
  <2>2. ASSUME t.catcher # 0 PROVE t.catcher \in TryCatches(Below(stk))
    <3>1. t.catcher \in 1 .. Len(stk) /\ stk[t.catcher].tc
      BY <2>2, <1>1 DEF TryCatches
    <3>2. t.catcher # Len(stk)
      BY <3>1, <1>1, <1>3
    <3>3. t.catcher \in 1 .. Len(stk) - 1
      BY <3>1, <3>2, <1>1
    <3>4. /\ Len(Below(stk)) = Len(stk) - 1 /\ StackOK(Below(stk))
          /\ Below(stk)[t.catcher] = stk[t.catcher]
      BY <3>3, Pop
    <3>5. DOMAIN Below(stk) = 1 .. Len(Below(stk))
      BY <3>4 DEF StackOK
    <3> QED
      BY <3>1, <3>3, <3>4, <3>5 DEF TryCatches
  <2> QED
    BY <2>1, <2>2
<1> QED
  BY <1>2, <1>3

(* An API function returns to the bridge.                                   *)
LEMMA LeaveJSInv ==
  ASSUME NEW stk, StackOK(stk), Len(stk) # 0, LastOf(stk).js, Len(stk) <= MaxFrames,
         NEW t \in TopType, t.depth = Cardinality(JSFrames(stk)) - 1,
         t.catcher # 0 => t.catcher \in TryCatches(stk),
         t.scheduled # NoException => HasCallback(Below(stk)),
         Reported(stk), NEW ok \in BOOLEAN,
         ~ok /\ stk[Len(stk) - 1].fn \in Runners /\ stk[Len(stk) - 1].step = 1
           => stk[Len(stk) - 1].caught # NoException,
         NEW refs, refs \subseteq (1 .. MaxFrames) \X (1 .. 6)
  PROVE  Inv(Resumed(Below(stk), ok), Unregistered(t, LastOf(stk)),
             RefsAfter(Below(stk), refs, ok))
<1>1. /\ Len(stk) \in Nat /\ Len(stk) >= 2 /\ Len(stk) - 1 \in 1 .. Len(stk)
      /\ Over(stk[Len(stk) - 1], stk[Len(stk)])
  BY TopFrameIsOverBridge
<1>2. PICK b : b = Below(stk)
  OBVIOUS
<1>3. /\ StackOK(b) /\ Len(b) = Len(stk) - 1 /\ Len(b) # 0
      /\ \A j \in 1 .. Len(b) : b[j] = stk[j]
  BY <1>1, <1>2, Pop
<1>4. LastOf(b) = stk[Len(stk) - 1] /\ LastOf(stk) = stk[Len(stk)]
  BY <1>1, <1>3 DEF LastOf
<1>5. ~LastOf(b).js /\ Steps[LastOf(b).fn][LastOf(b).step] \notin {"java", "true"}
  BY <1>1, <1>4 DEF Over
<1>6. Reported(b)
  BY <1>1, <1>3 DEF Reported
<1>7. PICK new : new = Resumed(b, ok)
  OBVIOUS
<1>8. /\ StackOK(new) /\ Len(new) = Len(b) /\ JSFrames(new) = JSFrames(b)
      /\ TryCatches(new) = TryCatches(b) /\ (HasCallback(new) <=> HasCallback(b))
      /\ Reported(new)
  BY <1>3, <1>4, <1>5, <1>6, <1>7, ResumedOK
<1>9. PICK u : u = Unregistered(t, LastOf(stk))
  OBVIOUS
<1>10. /\ u \in TopType /\ u.depth = t.depth /\ u.scheduled = t.scheduled
       /\ u.catcher # 0 => u.catcher \in TryCatches(b)
  BY <1>2, <1>9, UnregisteredOK
<1>11. u.depth = Cardinality(JSFrames(new))
  BY <1>2, <1>8, <1>10, JSFramesOfPop
<1>12. RefsAfter(b, refs, ok) \subseteq (1 .. MaxFrames) \X (1 .. 6)
  <2>1. Len(b) <= MaxFrames
    BY <1>1, <1>3, BoundAssumption
  <2> QED
    BY <2>1, <1>3, RefsAfterOK
<1>13. Len(new) <= MaxFrames
  BY <1>1, <1>3, <1>8, BoundAssumption
<1> QED
  BY <1>2, <1>7, <1>8, <1>9, <1>10, <1>11, <1>12, <1>13 DEF Inv

----------------------------------------------------------------------------
(* Throwing.                                                                *)

LEMMA TopIsJS ==
  ASSUME NEW stk, StackOK(stk), Len(stk) # 0, LastOf(stk).js
  PROVE  /\ Len(stk) \in Nat \ {0} /\ Len(stk) \in 1 .. Len(stk)
         /\ LastOf(stk) = stk[Len(stk)]
         /\ FrameOK(stk[Len(stk)]) /\ stk[Len(stk)] \in Frame
         /\ stk[Len(stk)].fn = "js"
         /\ stk[Len(stk)].fn \notin Runners /\ stk[Len(stk)].fn \notin Callbacks
<1>1. Len(stk) \in Nat \ {0} /\ LastOf(stk) = stk[Len(stk)]
  BY DEF StackOK, LastOf
<1>2. Len(stk) \in 1 .. Len(stk)
  BY <1>1
<1>3. FrameOK(stk[Len(stk)]) /\ stk[Len(stk)] \in Frame
  BY <1>2, FramesOf
<1>4. stk[Len(stk)].fn = "js"
  BY <1>1, <1>3 DEF FrameOK
<1> QED
  BY <1>1, <1>2, <1>3, <1>4 DEF Runners, Callbacks

(* The try statement of the newest JavaScript changes.                      *)
LEMMA HandlerInv ==
  ASSUME NEW stk, NEW t, NEW refs, Inv(stk, t, refs), Len(stk) # 0, LastOf(stk).js,
         NEW g \in Frame, g.fn = LastOf(stk).fn, g.tc = LastOf(stk).tc, g.js
  PROVE  Inv(Replaced(stk, Len(stk), g), t, refs)
<1>1. StackOK(stk) /\ Reported(stk)
  BY DEF Inv
<1>2. /\ Len(stk) \in 1 .. Len(stk) /\ LastOf(stk) = stk[Len(stk)]
      /\ stk[Len(stk)].fn = "js" /\ stk[Len(stk)].fn \notin Runners
  BY <1>1, TopIsJS
<1>3. FrameOK(g)
  BY <1>2 DEF FrameOK
<1>4. PICK new : new = Replaced(stk, Len(stk), g)
  OBVIOUS
<1>5. /\ StackOK(new) /\ Len(new) = Len(stk) /\ new[Len(stk)] = g
      /\ \A j \in 1 .. Len(stk) : j # Len(stk) => new[j] = stk[j]
      /\ JSFrames(new) = JSFrames(stk) /\ TryCatches(new) = TryCatches(stk)
      /\ HasCallback(new) <=> HasCallback(stk)
  BY <1>1, <1>2, <1>3, <1>4, Update
<1>6. Reported(new)
  BY <1>1, <1>2, <1>5 DEF Reported
<1> QED
  BY <1>4, <1>5, <1>6 DEF Inv

LEMMA CatcherFact ==
  ASSUME NEW stk, StackOK(stk)
  PROVE  /\ CatcherOf(stk) # 0 => CatcherOf(stk) \in TryCatches(stk)
         /\ CatcherOf(stk) \in 0 .. Len(stk)
<1>1. Len(stk) \in Nat /\ DOMAIN stk = 1 .. Len(stk)
  BY DEF StackOK
<1>2. CASE \E i \in DOMAIN stk : CatchesExternally(i, stk)
  <2>1. CatcherOf(stk) \in DOMAIN stk /\ CatchesExternally(CatcherOf(stk), stk)
    BY <1>2 DEF CatcherOf
  <2>2. CatcherOf(stk) \in TryCatches(stk)
    BY <2>1 DEF CatchesExternally, IsNewest
  <2> QED
    BY <2>1, <2>2, <1>1
<1>3. CASE ~\E i \in DOMAIN stk : CatchesExternally(i, stk)
  <2>1. CatcherOf(stk) = 0
    BY <1>3 DEF CatcherOf
  <2> QED
    BY <2>1, <1>1
<1> QED
  BY <1>2, <1>3

(* An exception that leaves JavaScript called by execJS or ExecuteJavaScript *)
(* is caught by their TryCatch: it is the newest, and no handler of         *)
(* JavaScript is newer.                                                     *)
LEMMA RunnerCatches ==
  ASSUME NEW stk, StackOK(stk), Len(stk) # 0, LastOf(stk).js,
         LastOf(stk).handler = "none",
         stk[Len(stk) - 1].fn \in Runners, stk[Len(stk) - 1].step = 1,
         NEW t, t.catcher = CatcherOf(stk)
  PROVE  IsExternallyCaught(stk, t) /\ t.catcher = Len(stk) - 1
<1> DEFINE n == Len(stk)
<1>1. /\ n \in Nat /\ n >= 2 /\ n - 1 \in 1 .. n
      /\ Over(stk[n - 1], stk[n]) /\ FrameOK(stk[n - 1])
  BY TopFrameIsOverBridge
<1>2. DOMAIN stk = 1 .. n /\ \A i \in 1 .. n : FrameOK(stk[i])
  BY FramesOf
<1>3. stk[n].js /\ stk[n].handler = "none"
  BY DEF LastOf
<1>4. ~stk[n - 1].js /\ ~stk[n].tc
  BY <1>1, <1>3 DEF Over
<1>5. stk[n - 1].tc /\ stk[n - 1].handler = "none"
  BY <1>1, <1>4 DEF FrameOK
<1>6. \A j \in TryCatches(stk) : j \in 1 .. n /\ j # n
  BY <1>2, <1>4 DEF TryCatches
<1>7. n - 1 \in TryCatches(stk)
  BY <1>1, <1>2, <1>5 DEF TryCatches
<1>8. \A j \in TryCatches(stk) : j <= n - 1
  BY <1>1, <1>6
<1>9. IsNewest(n - 1, stk)
  BY <1>7, <1>8 DEF IsNewest
<1>10. ASSUME NEW kind \in {"catch", "finally"}, NEW j \in Handlers(stk, kind) PROVE j < n - 1
  <2>1. j \in 1 .. n /\ stk[j].handler = kind
    BY <1>2 DEF Handlers
  <2>2. j # n /\ j # n - 1
    BY <2>1, <1>3, <1>5
  <2> QED
    BY <2>1, <2>2, <1>1
<1>11. CatchesExternally(n - 1, stk)
  BY <1>9, <1>10 DEF CatchesExternally
<1>12. ASSUME NEW i \in DOMAIN stk, CatchesExternally(i, stk) PROVE i = n - 1
  <2>1. i \in TryCatches(stk) /\ n - 1 <= i
    BY <1>7, <1>12 DEF CatchesExternally, IsNewest
  <2>2. i <= n - 1 /\ i \in 1 .. n
    BY <2>1, <1>6, <1>8
  <2> QED
    BY <2>1, <2>2, <1>1
<1>13. CatcherOf(stk) = n - 1
  BY <1>1, <1>2, <1>11, <1>12 DEF CatcherOf
<1> QED
  BY <1>9, <1>10, <1>13 DEF IsExternallyCaught

LEMMA PropagatedOK ==
  ASSUME NEW stk, StackOK(stk), Len(stk) # 0, LastOf(stk).js, Reported(stk),
         NEW t \in TopType, NEW e \in Origin, NEW p, p = Propagated(stk, t, e)
  PROVE  /\ StackOK(p) /\ Len(p) = Len(stk)
         /\ JSFrames(p) = JSFrames(stk) /\ TryCatches(p) = TryCatches(stk)
         /\ HasCallback(p) <=> HasCallback(stk)
         /\ Reported(p)
         /\ \A i \in 1 .. Len(stk) : /\ p[i].fn = stk[i].fn /\ p[i].js = stk[i].js
                                     /\ p[i].tc = stk[i].tc /\ p[i].step = stk[i].step
         /\ IsExternallyCaught(stk, t) => p[t.catcher].caught # NoException
<1>1. CASE ~IsExternallyCaught(stk, t)
  <2>1. p = stk
    BY <1>1 DEF Propagated
  <2> QED
    BY <1>1, <2>1
<1>2. CASE IsExternallyCaught(stk, t)
  <2>1. t.catcher \in DOMAIN stk
    BY <1>2 DEF IsExternallyCaught, IsNewest, TryCatches
  <2>2. PICK c : c = t.catcher
    OBVIOUS
  <2>3. c \in 1 .. Len(stk) /\ FrameOK(stk[c]) /\ stk[c] \in Frame
    BY <2>1, <2>2, FramesOf
  <2>4. PICK g : g = [stk[c] EXCEPT !.caught = e]
    OBVIOUS
  <2>5. /\ g \in Frame /\ g.fn = stk[c].fn /\ g.tc = stk[c].tc /\ g.js = stk[c].js
        /\ g.step = stk[c].step /\ g.handler = stk[c].handler /\ g.carried = stk[c].carried
        /\ g.caught = e
    BY <2>3, <2>4 DEF Frame
  <2>6. FrameOK(g)
    BY <2>3, <2>5 DEF FrameOK
  <2>7. p = Replaced(stk, c, g)
    BY <1>2, <2>2, <2>4 DEF Propagated, Replaced
  <2>8. /\ StackOK(p) /\ Len(p) = Len(stk) /\ p[c] = g
        /\ \A j \in 1 .. Len(stk) : j # c => p[j] = stk[j]
        /\ JSFrames(p) = JSFrames(stk) /\ TryCatches(p) = TryCatches(stk)
        /\ HasCallback(p) <=> HasCallback(stk)
    BY <2>3, <2>5, <2>6, <2>7, Update
  <2>9. e # NoException
    BY ExceptionAssumption DEF Origin
  <2>10. Reported(p)
    BY <2>5, <2>8, <2>9 DEF Reported
  <2>11. \A i \in 1 .. Len(stk) : /\ p[i].fn = stk[i].fn /\ p[i].js = stk[i].js
                                  /\ p[i].tc = stk[i].tc /\ p[i].step = stk[i].step
    BY <2>5, <2>8
  <2> QED
    BY <2>2, <2>5, <2>8, <2>9, <2>10, <2>11
<1> QED
  BY <1>1, <1>2

(* Two calls into JavaScript, one in the other, have a callback between them. *)
LEMMA CallbackBetween ==
  ASSUME NEW stk, StackOK(stk), Len(stk) # 0, LastOf(stk).js,
         Cardinality(JSFrames(stk)) # 1
  PROVE  HasCallback(stk)
<1>1. /\ Len(stk) \in Nat \ {0} /\ Len(stk) \in 1 .. Len(stk)
      /\ LastOf(stk) = stk[Len(stk)]
  BY TopIsJS
<1>2. Len(stk) \in JSFrames(stk)
  BY <1>1 DEF JSFrames
<1>3. IsFiniteSet(JSFrames(stk))
  BY JSFramesCount
<1>4. JSFrames(stk) # {Len(stk)}
  BY FS_Singleton
<1>5. PICK m \in JSFrames(stk) : m # Len(stk)
  BY <1>2, <1>4
<1>6. m \in 1 .. Len(stk) /\ stk[m].js
  BY <1>5 DEF JSFrames
<1>7. m \in 1 .. Len(stk) - 1 /\ m + 1 \in 1 .. Len(stk)
  BY <1>1, <1>5, <1>6
<1>8. Over(stk[m], stk[m + 1])
  BY <1>7 DEF StackOK
<1>9. stk[m + 1].fn \in Callbacks
  BY <1>6, <1>8 DEF Over
<1> QED
  BY <1>7, <1>9 DEF HasCallback

LEMMA CallbackBelow ==
  ASSUME NEW stk, StackOK(stk), Len(stk) # 0, LastOf(stk).fn \notin Callbacks,
         HasCallback(stk)
  PROVE  HasCallback(Below(stk))
<1>1. Len(stk) \in Nat
  BY DEF StackOK
<1>2. PICK i \in 1 .. Len(stk) : stk[i].fn \in Callbacks
  BY DEF HasCallback
<1>3. i # Len(stk)
  BY <1>2 DEF LastOf
<1>4. i \in 1 .. Len(stk) - 1
  BY <1>1, <1>2, <1>3
<1> QED
  BY <1>2, <1>4, Pop DEF HasCallback

(* The exception fields when the exception leaves JavaScript.               *)
LEMMA RescheduledOK ==
  ASSUME NEW stk, StackOK(stk), Len(stk) # 0, LastOf(stk).js, Len(stk) <= MaxFrames,
         NEW t \in TopType, t.depth = Cardinality(JSFrames(stk)),
         t.catcher # 0 => t.catcher \in TryCatches(stk),
         t.scheduled # NoException => HasCallback(stk),
         NEW e \in Origin, NEW u, u = Rescheduled(stk, t, e)
  PROVE  /\ u \in TopType
         /\ u.depth = Cardinality(JSFrames(stk)) - 1
         /\ u.catcher # 0 => u.catcher \in TryCatches(stk)
         /\ u.scheduled # NoException => HasCallback(stk)
<1>1. u.depth = t.depth - 1 /\ u.catcher = t.catcher
  BY DEF Rescheduled
<1>2. u.scheduled = IF Forgotten(stk, t) THEN t.scheduled ELSE e
  BY DEF Rescheduled
<1>3. u.external \in BOOLEAN
  BY DEF Rescheduled, IsExternallyCaught
<1>4. t.depth - 1 \in 0 .. MaxFrames
  <2>1. StackOK(Below(stk))
    BY Pop
  <2>2. Cardinality(JSFrames(Below(stk))) \in Nat
    BY <2>1, JSFramesCount, FS_CardinalityType
  <2>3. Cardinality(JSFrames(Below(stk))) = t.depth - 1
    BY JSFramesOfPop
  <2>4. t.depth \in 0 .. MaxFrames
    BY DEF TopType
  <2> QED
    BY <2>2, <2>3, <2>4, BoundAssumption
<1>5. u.scheduled \in Origin \cup {NoException}
  BY <1>2 DEF TopType
<1>6. u \in TopType
  <2>1. t.catcher \in 0 .. MaxFrames
    BY DEF TopType
  <2>2. u = [scheduled |-> u.scheduled, external |-> u.external, catcher |-> u.catcher,
             depth |-> u.depth]
    BY DEF Rescheduled
  <2> QED
    BY <1>1, <1>3, <1>4, <1>5, <2>1, <2>2 DEF TopType
<1>7. ASSUME u.scheduled # NoException PROVE HasCallback(stk)
  <2>1. CASE Forgotten(stk, t)
    BY <1>2, <1>7, <2>1
  <2>2. CASE ~Forgotten(stk, t)
    <3>1. Cardinality(JSFrames(stk)) # 1
      BY <2>2 DEF Forgotten
    <3> QED
      BY <3>1, CallbackBetween
  <2> QED
    BY <2>1, <2>2
<1> QED
  BY <1>1, <1>6, <1>7

LEMMA RaiseInv ==
  ASSUME NEW stk, NEW t, NEW refs, Inv(stk, t, refs), Len(stk) # 0, LastOf(stk).js,
         NEW e \in Origin, Raise(stk, t, refs, e)
  PROVE  Inv(stack', top', locals')
<1> DEFINE n == Len(stk)
<1>1. StackOK(stk) /\ Reported(stk) /\ n <= MaxFrames /\ t \in TopType
  BY DEF Inv
<1>2. /\ n \in Nat \ {0} /\ n \in 1 .. n /\ LastOf(stk) = stk[n] /\ stk[n] \in Frame
      /\ stk[n].fn = "js" /\ stk[n].fn \notin Callbacks
  BY <1>1, TopIsJS
<1>3. PICK thrown : thrown = [t EXCEPT !.catcher = CatcherOf(stk)]
  OBVIOUS
<1>4. /\ thrown \in TopType
      /\ thrown.catcher = CatcherOf(stk) /\ thrown.depth = t.depth
      /\ thrown.scheduled = t.scheduled
      /\ thrown.catcher # 0 => thrown.catcher \in TryCatches(stk)
  <2>1. CatcherOf(stk) \in 0 .. MaxFrames
    <3>1. CatcherOf(stk) \in 0 .. n
      BY <1>1, CatcherFact
    <3> QED
      BY <3>1, <1>1, <1>2, BoundAssumption
  <2>2. CatcherOf(stk) # 0 => CatcherOf(stk) \in TryCatches(stk)
    BY <1>1, CatcherFact
  <2> QED
    BY <1>1, <1>3, <2>1, <2>2 DEF TopType
<1>5. Inv(stk, thrown, refs)
  BY <1>4 DEF Inv
<1>6. CASE stk[n].handler = "catch"
  <2>1. PICK g : g = [stk[n] EXCEPT !.handler = "none"]
    OBVIOUS
  <2>2. g \in Frame /\ g.fn = stk[n].fn /\ g.tc = stk[n].tc /\ g.js = stk[n].js
    BY <1>2, <2>1 DEF Frame
  <2>3. stack' = Replaced(stk, n, g) /\ top' = thrown /\ locals' = refs
    BY <1>3, <1>6, <2>1 DEF Raise, Replaced
  <2>4. Inv(Replaced(stk, n, g), thrown, refs)
    BY <1>2, <1>5, <2>2, HandlerInv
  <2> QED
    BY <2>3, <2>4
<1>7. CASE stk[n].handler = "finally"
  <2>1. PICK g : g = [stk[n] EXCEPT !.handler = "none", !.carried = e]
    OBVIOUS
  <2>2. g \in Frame /\ g.fn = stk[n].fn /\ g.tc = stk[n].tc /\ g.js = stk[n].js
    BY <1>2, <2>1 DEF Frame
  <2>3. stack' = Replaced(stk, n, g) /\ top' = thrown /\ locals' = refs
    BY <1>3, <1>7, <2>1 DEF Raise, Replaced
  <2>4. Inv(Replaced(stk, n, g), thrown, refs)
    BY <1>2, <1>5, <2>2, HandlerInv
  <2> QED
    BY <2>3, <2>4
<1>8. CASE stk[n].handler = "none"
  <2>1. PICK p : p = Propagated(stk, thrown, e)
    OBVIOUS
  <2>2. PICK u : u = Rescheduled(stk, thrown, e)
    OBVIOUS
  <2>3. LeaveJS(p, u, refs, FALSE)
    BY <1>3, <1>8, <2>1, <2>2 DEF Raise
  <2>4. /\ StackOK(p) /\ Len(p) = n
        /\ JSFrames(p) = JSFrames(stk) /\ TryCatches(p) = TryCatches(stk)
        /\ HasCallback(p) <=> HasCallback(stk)
        /\ Reported(p)
        /\ \A i \in 1 .. n : /\ p[i].fn = stk[i].fn /\ p[i].js = stk[i].js
                             /\ p[i].tc = stk[i].tc /\ p[i].step = stk[i].step
        /\ IsExternallyCaught(stk, thrown) => p[thrown.catcher].caught # NoException
    BY <1>1, <1>4, <2>1, PropagatedOK
  <2>5. /\ u \in TopType /\ u.depth = Cardinality(JSFrames(stk)) - 1
        /\ u.catcher # 0 => u.catcher \in TryCatches(stk)
        /\ u.scheduled # NoException => HasCallback(stk)
    <3>1. /\ thrown.depth = Cardinality(JSFrames(stk))
          /\ thrown.scheduled # NoException => HasCallback(stk)
      BY <1>5 DEF Inv
    <3> QED
      BY <1>1, <1>4, <2>2, <3>1, RescheduledOK
  <2>6. LastOf(p) = p[n] /\ p[n].js /\ p[n].fn \notin Callbacks
    BY <1>2, <2>4 DEF LastOf
  <2>7. ASSUME u.scheduled # NoException PROVE HasCallback(Below(p))
    BY <2>4, <2>5, <2>6, <2>7, CallbackBelow
  <2>8. ASSUME p[n - 1].fn \in Runners, p[n - 1].step = 1 PROVE p[n - 1].caught # NoException
    <3>1. n - 1 \in 1 .. n
      BY <1>1, TopFrameIsOverBridge
    <3>2. stk[n - 1].fn \in Runners /\ stk[n - 1].step = 1
      BY <2>4, <2>8, <3>1
    <3>3. IsExternallyCaught(stk, thrown) /\ thrown.catcher = n - 1
      BY <1>1, <1>2, <1>4, <1>8, <3>2, RunnerCatches
    <3> QED
      BY <2>4, <3>3
  <2>9. refs \subseteq (1 .. MaxFrames) \X (1 .. 6)
    BY DEF Inv
  <2>10. Inv(Resumed(Below(p), FALSE), Unregistered(u, LastOf(p)),
             RefsAfter(Below(p), refs, FALSE))
    BY <1>1, <2>4, <2>5, <2>6, <2>7, <2>8, <2>9, LeaveJSInv
  <2> QED
    BY <2>3, <2>10 DEF LeaveJS
<1>9. stk[n].handler \in {"none", "catch", "finally"}
  BY <1>2 DEF Frame
<1> QED
  BY <1>6, <1>7, <1>8, <1>9

----------------------------------------------------------------------------
(* The actions.                                                             *)

(* New frames, of a bridge function and of a call into JavaScript.          *)
LEMMA NewFrames ==
  ASSUME NEW i \in Origin, NEW tc \in BOOLEAN
  PROVE  /\ FrameOK(JSFrame(i, tc))
         /\ JSFrame(i, tc).js /\ JSFrame(i, tc).fn = "js" /\ JSFrame(i, tc).tc = tc
         /\ \A fn \in DOMAIN Steps :
              /\ (fn \in Runners <=> tc) => FrameOK(BridgeFrame(fn, i, tc))
              /\ BridgeFrame(fn, i, tc).fn = fn /\ BridgeFrame(fn, i, tc).step = 1
              /\ ~BridgeFrame(fn, i, tc).js /\ BridgeFrame(fn, i, tc).tc = tc
<1>1. /\ JSFrame(i, tc) \in Frame
      /\ JSFrame(i, tc).js /\ JSFrame(i, tc).fn = "js" /\ JSFrame(i, tc).tc = tc
  <2>1. PICK b : b = BridgeFrame("js", i, tc)
    OBVIOUS
  <2>2. b \in Frame /\ b.fn = "js" /\ b.tc = tc
    BY <2>1 DEF BridgeFrame, Frame
  <2>3. JSFrame(i, tc) = [b EXCEPT !.js = TRUE]
    BY <2>1 DEF JSFrame
  <2> QED
    BY <2>2, <2>3 DEF Frame
<1>2. FrameOK(JSFrame(i, tc))
  BY <1>1 DEF FrameOK
<1>3. ASSUME NEW fn \in DOMAIN Steps
      PROVE  /\ (fn \in Runners <=> tc) => FrameOK(BridgeFrame(fn, i, tc))
             /\ BridgeFrame(fn, i, tc).fn = fn /\ BridgeFrame(fn, i, tc).step = 1
             /\ ~BridgeFrame(fn, i, tc).js /\ BridgeFrame(fn, i, tc).tc = tc
  <2>1. fn # "js" /\ 1 \in DOMAIN Steps[fn]
    BY StepsOf DEF Callbacks, Runners
  <2>2. BridgeFrame(fn, i, tc) \in Frame
    BY DEF BridgeFrame, Frame
  <2> QED
    BY <2>1, <2>2 DEF FrameOK, BridgeFrame
<1> QED
  BY <1>1, <1>2, <1>3

(* A frame is pushed that is no reporting runner; a JavaScript frame counts. *)
LEMMA PushInv ==
  ASSUME NEW stk, NEW t, NEW refs, Inv(stk, t, refs), Len(stk) + 1 <= MaxFrames,
         NEW f, Fits(f, stk), f.js \/ f.step = 1
  PROVE  Inv(Pushed(stk, f), IF f.js THEN Entered(t) ELSE t, refs)
<1>1. StackOK(stk) /\ Reported(stk) /\ t \in TopType /\ t.depth = Cardinality(JSFrames(stk))
  BY DEF Inv
<1>2. PICK new : new = Pushed(stk, f)
  OBVIOUS
<1>3. /\ StackOK(new) /\ Len(new) = Len(stk) + 1 /\ new[Len(stk) + 1] = f
      /\ \A j \in 1 .. Len(stk) : new[j] = stk[j]
  BY <1>1, <1>2, Push
<1>4. Cardinality(JSFrames(new)) = Cardinality(JSFrames(stk)) + (IF f.js THEN 1 ELSE 0)
  BY <1>1, <1>3, JSFramesOfPush
<1>5. Len(stk) \in Nat /\ DOMAIN stk = 1 .. Len(stk) /\ DOMAIN new = 1 .. Len(new)
  BY <1>1, <1>3 DEF StackOK
<1>6. \A j \in 1 .. Len(stk) : j \in 1 .. Len(new) /\ j # Len(stk) + 1
  BY <1>3, <1>5
<1>7. TryCatches(stk) \subseteq TryCatches(new) /\ (HasCallback(stk) => HasCallback(new))
  BY <1>3, <1>5, <1>6 DEF TryCatches, HasCallback
<1>8. Reported(new)
  <2> SUFFICES ASSUME NEW j \in 1 .. Len(new), new[j].fn \in Runners, new[j].step \in {3, 4}
               PROVE  new[j].caught # NoException
    BY DEF Reported
  <2>1. j # Len(stk) + 1
    <3>1. SUFFICES ASSUME j = Len(stk) + 1 PROVE FALSE
      OBVIOUS
    <3>2. f.fn \in Runners /\ f.step \in {3, 4}
      BY <3>1, <1>3
    <3>3. f.fn # "js"
      BY <3>2 DEF Runners
    <3> QED
      BY <3>2, <3>3 DEF FrameOK, Fits
  <2>2. j \in 1 .. Len(stk)
    BY <2>1, <1>3, <1>5
  <2> QED
    BY <2>2, <1>1, <1>3 DEF Reported
<1>13. PICK u : u = IF f.js THEN Entered(t) ELSE t
  OBVIOUS
<1>9. /\ u.catcher = t.catcher /\ u.scheduled = t.scheduled
      /\ u.depth = t.depth + (IF f.js THEN 1 ELSE 0)
  BY <1>1, <1>13 DEF Entered, TopType
<1>10. u.depth = Cardinality(JSFrames(new))
  BY <1>1, <1>4, <1>9
<1>11. u \in TopType
  <2>1. Cardinality(JSFrames(new)) \in 0 .. Len(new)
    BY <1>3, JSFramesCount
  <2>2. Len(new) <= MaxFrames /\ Len(new) \in Nat
    BY <1>3, <1>5
  <2>3. u.depth \in 0 .. MaxFrames
    BY <2>1, <2>2, <1>10, BoundAssumption
  <2>4. CASE f.js
    <3>1. u = [t EXCEPT !.depth = t.depth + 1] /\ u.depth = t.depth + 1
      BY <2>4, <1>1, <1>9, <1>13 DEF Entered
    <3> QED
      BY <3>1, <2>3, <1>1 DEF TopType
  <2>5. CASE ~f.js
    BY <2>5, <1>1, <1>13
  <2> QED
    BY <2>4, <2>5
<1>12. Len(new) <= MaxFrames
  BY <1>3
<1> QED
  BY <1>13, <1>2, <1>3, <1>7, <1>8, <1>9, <1>10, <1>11, <1>12 DEF Inv

(* The frame of a bridge function is popped.                                *)
LEMMA PopInv ==
  ASSUME NEW stk, NEW t, NEW refs, Inv(stk, t, refs), Len(stk) # 0, ~LastOf(stk).js,
         t.scheduled # NoException => HasCallback(Below(stk)),
         NEW u, u = Unregistered(t, LastOf(stk)),
         NEW r, r \subseteq (1 .. MaxFrames) \X (1 .. 6)
  PROVE  Inv(Below(stk), u, r)
<1>1. StackOK(stk) /\ Reported(stk) /\ t \in TopType /\ t.depth = Cardinality(JSFrames(stk))
      /\ (t.catcher # 0 => t.catcher \in TryCatches(stk)) /\ Len(stk) <= MaxFrames
  BY DEF Inv
<1>2. PICK b : b = Below(stk)
  OBVIOUS
<1>3. /\ StackOK(b) /\ Len(b) = Len(stk) - 1
      /\ \A j \in 1 .. Len(stk) - 1 : b[j] = stk[j]
  BY <1>1, <1>2, Pop
<1>4. /\ u \in TopType /\ u.depth = t.depth /\ u.scheduled = t.scheduled
      /\ u.catcher # 0 => u.catcher \in TryCatches(b)
  BY <1>1, <1>2, UnregisteredOK
<1>5. Cardinality(JSFrames(b)) = Cardinality(JSFrames(stk))
  <2>1. Cardinality(JSFrames(stk)) \in Nat
    BY <1>1, JSFramesCount, FS_CardinalityType
  <2> QED
    BY <2>1, <1>1, <1>2, JSFramesOfPop
<1>6. Len(stk) \in Nat
  BY <1>1 DEF StackOK
<1>7. Reported(b)
  <2>1. \A j \in 1 .. Len(b) : j \in 1 .. Len(stk) /\ j \in 1 .. Len(stk) - 1
    BY <1>3, <1>6
  <2> QED
    BY <2>1, <1>1, <1>3 DEF Reported
<1>8. Len(b) <= MaxFrames
  BY <1>1, <1>3, <1>6, BoundAssumption
<1> QED
  BY <1>1, <1>2, <1>3, <1>4, <1>5, <1>7, <1>8 DEF Inv

Promoted(t) == [t EXCEPT !.scheduled = NoException]

(* Under a callback is the JavaScript that called it.                       *)
LEMMA CallbackPopped ==
  ASSUME NEW t, Inv(stack, t, locals), Len(stack) # 0, TopFrame.fn \in Callbacks,
         NEW refs, refs \subseteq (1 .. MaxFrames) \X (1 .. 6)
  PROVE  /\ Inv(Below(stack), Promoted(t), refs)
         /\ t.scheduled = NoException => Inv(Below(stack), t, refs)
         /\ Len(Below(stack)) # 0 /\ LastOf(Below(stack)).js
<1>1. StackOK(stack) /\ t \in TopType
  BY DEF Inv
<1>2. PICK b : b = Below(stack)
  OBVIOUS
<1>3. /\ Len(stack) \in Nat \ {0} /\ Len(stack) \in 1 .. Len(stack)
      /\ TopFrame = stack[Len(stack)] /\ FrameOK(TopFrame)
  <2>1. Len(stack) \in Nat \ {0} /\ TopFrame = stack[Len(stack)]
    BY <1>1 DEF StackOK, TopFrame, LastOf
  <2>2. Len(stack) \in 1 .. Len(stack)
    BY <2>1
  <2> QED
    BY <1>1, <2>1, <2>2 DEF StackOK
<1>4. ~TopFrame.js /\ ~TopFrame.tc
  BY <1>3 DEF FrameOK, Callbacks, Runners
<1>5. \A u : Unregistered(u, TopFrame) = u
  BY <1>4 DEF Unregistered
<1>6. /\ StackOK(b) /\ Len(b) = Len(stack) - 1
      /\ \A j \in 1 .. Len(stack) - 1 : b[j] = stack[j]
  BY <1>1, <1>2, <1>3, Pop
<1>7. Len(b) # 0 /\ LastOf(b).js
  <2>1. Len(stack) # 1
    <3>1. SUFFICES ASSUME Len(stack) = 1 PROVE FALSE
      OBVIOUS
    <3>2. Bottom(stack[1])
      BY <1>1, <3>1 DEF StackOK
    <3> QED
      BY <1>3, <3>1, <3>2 DEF Bottom
  <2>2. /\ Len(stack) - 1 # 0 /\ Len(stack) - 1 \in 1 .. Len(stack) - 1
        /\ (Len(stack) - 1) + 1 = Len(stack)
    <3>1. \A n \in Nat \ {0} : n # 1 => n - 1 # 0 /\ n - 1 \in 1 .. n - 1 /\ (n - 1) + 1 = n
      OBVIOUS
    <3> QED
      BY <1>3, <2>1, <3>1
  <2>3. Over(stack[Len(stack) - 1], stack[(Len(stack) - 1) + 1])
    BY <1>1, <2>2 DEF StackOK
  <2>4. stack[Len(stack) - 1].js
    BY <1>3, <2>2, <2>3 DEF Over
  <2> QED
    BY <1>6, <2>2, <2>4 DEF LastOf
<1>8. Inv(Below(stack), Promoted(t), refs)
  <2>1. PICK u : u = Promoted(t)
    OBVIOUS
  <2>2. /\ u \in TopType /\ u.scheduled = NoException
        /\ u.catcher = t.catcher /\ u.depth = t.depth
    BY <1>1, <2>1 DEF TopType, Promoted
  <2>3. Inv(stack, u, locals)
    BY <2>2 DEF Inv
  <2> QED
    BY <1>3, <1>4, <1>5, <2>1, <2>2, <2>3, PopInv DEF TopFrame
<1>9. ASSUME t.scheduled = NoException PROVE Inv(Below(stack), t, refs)
  BY <1>3, <1>4, <1>5, <1>9, PopInv DEF TopFrame
<1> QED
  BY <1>2, <1>7, <1>8, <1>9

(* A callback returns: an exception that waits is thrown in the JavaScript   *)
(* below it.                                                                *)
LEMMA CallbackEndsInv ==
  ASSUME NEW t, Inv(stack, t, locals), Len(stack) # 0, TopFrame.fn \in Callbacks,
         NEW refs, refs \subseteq (1 .. MaxFrames) \X (1 .. 6), CallbackEnds(t, refs)
  PROVE  Inv(stack', top', locals')
<1>1. CASE t.scheduled = NoException
  <2>1. stack' = Below(stack) /\ top' = t /\ locals' = refs
    BY <1>1 DEF CallbackEnds
  <2> QED
    BY <1>1, <2>1, CallbackPopped
<1>2. CASE t.scheduled # NoException
  <2>1. t.scheduled \in Origin
    BY <1>2 DEF TopType, Inv
  <2>2. Raise(Below(stack), Promoted(t), refs, t.scheduled)
    BY <1>2 DEF CallbackEnds, Promoted
  <2> QED
    BY <2>1, <2>2, CallbackPopped, RaiseInv
<1> QED
  BY <1>1, <1>2

LEMMA StackFacts ==
  ASSUME IInv, Len(stack) # 0
  PROVE  /\ Len(stack) \in Nat \ {0} /\ Len(stack) \in 1 .. Len(stack)
         /\ DOMAIN stack = 1 .. Len(stack)
         /\ TopFrame = LastOf(stack) /\ TopFrame = stack[Len(stack)]
         /\ FrameOK(TopFrame) /\ TopFrame \in Frame
<1>1. StackOK(stack)
  BY DEF IInv, Inv
<1>2. Len(stack) \in Nat \ {0} /\ DOMAIN stack = 1 .. Len(stack)
  BY <1>1 DEF StackOK
<1>3. Len(stack) \in 1 .. Len(stack)
  BY <1>2
<1>4. FrameOK(stack[Len(stack)]) /\ stack[Len(stack)] \in Frame
  BY <1>1, <1>3, FramesOf
<1> QED
  BY <1>2, <1>3, <1>4 DEF TopFrame, LastOf

LEMMA NotEmpty ==
  ASSUME IInv
  PROVE  /\ InJS \/ InBridge => Len(stack) # 0
         /\ stack = <<>> <=> Len(stack) = 0
<1>1. stack \in Seq(Frame)
  BY DEF IInv, Inv, StackOK
<1> QED
  BY <1>1 DEF InJS, InBridge

(* A conversion that runs no JavaScript of the program.                     *)
LEMMA ConvertInv ==
  ASSUME IInv, InBridge, At \notin {"java", "true"},
         NEW t, t = top \/ t = [top EXCEPT !.catcher = 0],
         NEW ok \in BOOLEAN, NEW refs, refs = RefsAfter(stack, locals, ok) \/ refs = locals
  PROVE  Inv(Resumed(stack, TRUE), t, refs)
<1>1. Inv(stack, top, locals) /\ Len(stack) # 0
  BY NotEmpty DEF IInv
<1>2. StackOK(stack) /\ Reported(stack) /\ top \in TopType /\ Len(stack) <= MaxFrames
  BY <1>1 DEF Inv
<1>3. ~LastOf(stack).js /\ Steps[LastOf(stack).fn][LastOf(stack).step] \notin {"java", "true"}
  BY DEF InBridge, At, TopFrame
<1>4. PICK new : new = Resumed(stack, TRUE)
  OBVIOUS
<1>5. /\ StackOK(new) /\ Len(new) = Len(stack) /\ JSFrames(new) = JSFrames(stack)
      /\ TryCatches(new) = TryCatches(stack) /\ (HasCallback(new) <=> HasCallback(stack))
      /\ Reported(new)
  BY <1>1, <1>2, <1>3, <1>4, ResumedOK
<1>6. /\ t \in TopType /\ t.depth = top.depth /\ t.scheduled = top.scheduled
      /\ t.catcher = top.catcher \/ t.catcher = 0
  BY <1>2, BoundAssumption DEF TopType
<1>7. refs \subseteq (1 .. MaxFrames) \X (1 .. 6)
  <2>1. locals \subseteq (1 .. MaxFrames) \X (1 .. 6)
    BY <1>1 DEF Inv
  <2>2. RefsAfter(stack, locals, ok) \subseteq (1 .. MaxFrames) \X (1 .. 6)
    BY <1>1, <1>2, <2>1, RefsAfterOK
  <2> QED
    BY <2>1, <2>2
<1> QED
  BY <1>1, <1>4, <1>5, <1>6, <1>7 DEF Inv

(* A call of the bridge from Java, and of JavaScript from the bridge.       *)
LEMMA ExecJSInv ==
  ASSUME IInv, NEW i \in Instance, ExecJS(i)
  PROVE  Inv(stack', top', locals')
<1>1. Inv(stack, top, locals) /\ StackOK(stack) /\ Len(stack) \in Nat
  BY DEF IInv, Inv, StackOK
<1>2. i \in Origin
  BY DEF Origin
<1>3. PICK f : f = BridgeFrame("execJS", i, TRUE)
  OBVIOUS
<1>4. PICK g : g = JSFrame(i, FALSE)
  OBVIOUS
<1>5. FrameOK(f) /\ f.fn = "execJS" /\ f.step = 1 /\ ~f.js /\ FrameOK(g) /\ g.js /\ ~g.tc
      /\ g.fn = "js"
  <2>1. "execJS" \in DOMAIN Steps /\ "execJS" \in Runners
    BY StepsOf DEF Runners
  <2> QED
    BY <1>2, <1>3, <1>4, <2>1, NewFrames
<1>6. Fits(f, stack)
  <2>1. Len(stack) = 0 => Bottom(f)
    BY <1>5 DEF Bottom, Callbacks
  <2>2. ASSUME Len(stack) # 0 PROVE Over(LastOf(stack), f)
    <3>1. ~LastOf(stack).js
      BY <2>2, NotEmpty DEF ExecJS, InBridge, TopFrame
    <3> QED
      BY <3>1, <1>5 DEF Over, Callbacks
  <2> QED
    BY <1>5, <2>1, <2>2 DEF Fits
<1>7. Len(stack) + 1 <= MaxFrames /\ Len(stack) + 2 <= MaxFrames
  BY <1>1, BoundAssumption DEF ExecJS
<1>8. PICK one : one = Pushed(stack, f)
  OBVIOUS
<1>9. Inv(one, top, locals)
  BY <1>1, <1>5, <1>6, <1>7, <1>8, PushInv
<1>10. StackOK(one) /\ Len(one) = Len(stack) + 1 /\ one[Len(stack) + 1] = f
  BY <1>1, <1>6, <1>8, Push
<1>11. LastOf(one) = f /\ Len(one) # 0 /\ Len(one) + 1 <= MaxFrames
  BY <1>1, <1>7, <1>10, BoundAssumption DEF LastOf
<1>12. Fits(g, one)
  <2>1. Steps[f.fn][f.step] = "run"
    BY <1>5, StepsOf
  <2> QED
    BY <1>5, <1>11, <2>1 DEF Fits, Over, Callbacks
<1>13. Inv(Pushed(one, g), Entered(top), locals)
  BY <1>5, <1>9, <1>11, <1>12, PushInv
<1>14. stack' = Pushed(one, g)
  <2>1. stack' = stack \o <<f, g>>
    BY <1>3, <1>4 DEF ExecJS
  <2>2. stack \in Seq(Frame) /\ f \in Frame /\ g \in Frame
    BY <1>1, <1>5 DEF StackOK, FrameOK
  <2>3. stack \o <<f, g>> = Append(Append(stack, f), g)
    BY <2>2
  <2> QED
    BY <1>8, <2>1, <2>3 DEF Pushed
<1> QED
  BY <1>13, <1>14 DEF ExecJS

LEMMA TwoFrames ==
  ASSUME NEW f \in Frame, NEW g \in Frame
  PROVE  Pushed(Pushed(<<>>, f), g) = <<f, g>>
<1>1. <<>> \in Seq(Frame)
  OBVIOUS
<1>2. <<>> \o <<f, g>> = Append(Append(<<>>, f), g)
  BY <1>1
<1>3. <<>> \o <<f, g>> = <<f, g>>
  BY <1>1
<1> QED
  BY <1>2, <1>3 DEF Pushed

(* The two functions initFramework runs JavaScript in, on an empty stack.   *)
LEMMA FrameworkFrames ==
  ASSUME NEW t, NEW refs, Inv(<<>>, t, refs),
         NEW fn \in {"runScript", "setJSFVersion"}, NEW tc, tc = (fn = "runScript")
  PROVE  Inv(<<BridgeFrame(fn, Framework, tc), JSFrame(Framework, FALSE)>>, Entered(t), refs)
<1>1. Framework \in Origin /\ tc \in BOOLEAN
  BY DEF Origin
<1>2. PICK f : f = BridgeFrame(fn, Framework, tc)
  OBVIOUS
<1>3. PICK g : g = JSFrame(Framework, FALSE)
  OBVIOUS
<1>4. FrameOK(f) /\ f.fn = fn /\ f.step = 1 /\ ~f.js /\ FrameOK(g) /\ g.js /\ ~g.tc
      /\ g.fn = "js"
  <2>1. fn \in DOMAIN Steps /\ (fn \in Runners <=> tc)
    BY StepsOf DEF Runners
  <2> QED
    BY <1>1, <1>2, <1>3, <2>1, NewFrames
<1>5. PICK e : e = <<>>
  OBVIOUS
<1>6. Len(e) = 0 /\ Inv(e, t, refs) /\ StackOK(e)
  BY <1>5 DEF Inv
<1>7. Fits(f, e)
  BY <1>4, <1>6 DEF Fits, Bottom, Callbacks
<1>8. PICK one : one = Pushed(e, f)
  OBVIOUS
<1>9. Inv(one, t, refs)
  <2>1. Len(e) + 1 <= MaxFrames
    BY <1>6, BoundAssumption
  <2> QED
    BY <1>4, <1>6, <1>7, <1>8, <2>1, PushInv
<1>10. StackOK(one) /\ Len(one) = 1 /\ one[1] = f
  <2>1. Len(e) + 1 = 1
    BY <1>6
  <2> QED
    BY <1>6, <1>7, <1>8, <2>1, Push
<1>11. LastOf(one) = f /\ Len(one) # 0 /\ Len(one) + 1 <= MaxFrames
  BY <1>10, BoundAssumption DEF LastOf
<1>12. Fits(g, one)
  <2>1. Steps[f.fn][f.step] \in {"run", "version"}
    BY <1>4, StepsOf
  <2> QED
    BY <1>4, <1>11, <2>1 DEF Fits, Over, Callbacks
<1>13. Inv(Pushed(one, g), Entered(t), refs)
  BY <1>4, <1>9, <1>11, <1>12, PushInv
<1>14. Pushed(one, g) = <<f, g>>
  BY <1>4, <1>5, <1>8, TwoFrames DEF FrameOK
<1> QED
  BY <1>2, <1>3, <1>13, <1>14

LEMMA InitFrameworkInv ==
  ASSUME IInv, InitFramework
  PROVE  Inv(stack', top', locals')
<1>1. Inv(<<>>, top, locals)
  BY DEF IInv, InitFramework
<1>2. Inv(<<BridgeFrame("runScript", Framework, TRUE), JSFrame(Framework, FALSE)>>,
          Entered(top), locals)
  BY <1>1, FrameworkFrames
<1> QED
  BY <1>2 DEF InitFramework

LEMMA SetJSFVersionInv ==
  ASSUME IInv, SetJSFVersion
  PROVE  Inv(stack', top', locals')
<1>1. Inv(stack, top, locals) /\ Len(stack) # 0 /\ ~LastOf(stack).js
      /\ LastOf(stack).fn = "runScript"
  BY NotEmpty DEF IInv, SetJSFVersion, InBridge, TopFrame
<1>2. StackOK(stack) /\ Len(stack) \in Nat /\ locals \subseteq (1 .. MaxFrames) \X (1 .. 6)
  BY <1>1 DEF Inv, StackOK
<1>3. Len(stack) = 1
  <2>1. SUFFICES ASSUME Len(stack) # 1 PROVE FALSE
    OBVIOUS
  <2>2. Len(stack) - 1 \in 1 .. Len(stack) - 1 /\ (Len(stack) - 1) + 1 = Len(stack)
    <3>1. \A n \in Nat : n # 0 /\ n # 1 => n - 1 \in 1 .. n - 1 /\ (n - 1) + 1 = n
      OBVIOUS
    <3> QED
      BY <1>1, <1>2, <2>1, <3>1
  <2>3. Over(stack[Len(stack) - 1], stack[Len(stack)])
    BY <1>2, <2>2 DEF StackOK
  <2> QED
    BY <1>1, <2>3 DEF Over, LastOf
<1>4. Below(stack) = <<>>
  <2>1. StackOK(Below(stack)) /\ Len(Below(stack)) = Len(stack) - 1
    BY <1>1, <1>2, Pop
  <2>2. Len(Below(stack)) = 0 /\ Below(stack) \in Seq(Frame)
    BY <2>1, <1>3 DEF StackOK
  <2> QED
    BY <2>2
<1>5. PICK t : t = Unregistered(top, LastOf(stack))
  OBVIOUS
<1>6. Inv(<<>>, t, locals)
  <2>1. top.scheduled # NoException => HasCallback(Below(stack))
    <3>1. LastOf(stack).fn \notin Callbacks
      BY <1>1 DEF Callbacks
    <3> QED
      BY <1>1, <1>2, <3>1, CallbackBelow DEF Inv
  <2> QED
    BY <1>1, <1>2, <1>4, <1>5, <2>1, PopInv
<1>7. Inv(<<BridgeFrame("setJSFVersion", Framework, FALSE), JSFrame(Framework, FALSE)>>,
          Entered(t), locals)
  BY <1>6, FrameworkFrames
<1> QED
  BY <1>5, <1>7 DEF SetJSFVersion, TopFrame

(* Return from a native method.                                             *)
LEMMA ReturnToJavaInv ==
  ASSUME IInv, InBridge, TopFrame.fn \notin Callbacks, ReturnToJava
  PROVE  Inv(stack', top', locals')
<1>1. Inv(stack, top, locals) /\ Len(stack) # 0 /\ ~LastOf(stack).js
      /\ LastOf(stack).fn \notin Callbacks
  BY NotEmpty DEF IInv, InBridge, TopFrame
<1>2. StackOK(stack) /\ locals \subseteq (1 .. MaxFrames) \X (1 .. 6)
  BY <1>1 DEF Inv
<1>3. top.scheduled # NoException => HasCallback(Below(stack))
  BY <1>1, <1>2, CallbackBelow DEF Inv
<1>4. PICK r : r = {l \in locals : l[1] < Len(stack)}
  OBVIOUS
<1>5. r \subseteq (1 .. MaxFrames) \X (1 .. 6)
  BY <1>2, <1>4
<1>6. Inv(Below(stack), Unregistered(top, LastOf(stack)), r)
  BY <1>1, <1>3, <1>5, PopInv
<1> QED
  BY <1>4, <1>6 DEF ReturnToJava, TopFrame

(* JavaScript enters or leaves a try statement, or drops an exception.       *)
LEMMA TryInv ==
  ASSUME IInv, InJS, NEW h \in {"none", "catch", "finally"},
         NEW c \in Origin \cup {NoException},
         NEW g, g = [TopFrame EXCEPT !.handler = h, !.carried = c]
  PROVE  Inv(Replaced(stack, Len(stack), g), top, locals)
<1>1. Inv(stack, top, locals) /\ Len(stack) # 0 /\ LastOf(stack).js
  BY NotEmpty DEF IInv, InJS, TopFrame
<1>2. TopFrame \in Frame /\ TopFrame = LastOf(stack)
  BY <1>1, StackFacts
<1>3. g \in Frame /\ g.fn = TopFrame.fn /\ g.tc = TopFrame.tc /\ g.js = TopFrame.js
  BY <1>2 DEF Frame
<1> QED
  BY <1>1, <1>2, <1>3, HandlerInv

LEMMA JSReturnInv ==
  ASSUME IInv, JSReturn
  PROVE  Inv(stack', top', locals')
<1>1. Inv(stack, top, locals) /\ Len(stack) # 0 /\ LastOf(stack).js
  BY NotEmpty DEF IInv, JSReturn, InJS, TopFrame
<1>2. StackOK(stack) /\ top \in TopType /\ Reported(stack) /\ Len(stack) <= MaxFrames
      /\ top.depth = Cardinality(JSFrames(stack))
      /\ locals \subseteq (1 .. MaxFrames) \X (1 .. 6)
  BY <1>1 DEF Inv
<1>3. PICK t : t = [top EXCEPT !.depth = @ - 1]
  OBVIOUS
<1>4. /\ t \in TopType /\ t.depth = Cardinality(JSFrames(stack)) - 1
      /\ t.catcher = top.catcher /\ t.scheduled = top.scheduled
  <2>1. top.depth - 1 \in 0 .. MaxFrames
    <3>1. Cardinality(JSFrames(Below(stack))) \in Nat
      BY <1>1, <1>2, Pop, JSFramesCount, FS_CardinalityType
    <3>2. Cardinality(JSFrames(Below(stack))) = top.depth - 1
      BY <1>1, <1>2, JSFramesOfPop
    <3>3. top.depth \in 0 .. MaxFrames
      BY <1>2 DEF TopType
    <3> QED
      BY <3>1, <3>2, <3>3, BoundAssumption
  <2> QED
    BY <1>2, <1>3, <2>1 DEF TopType
<1>5. t.scheduled # NoException => HasCallback(Below(stack))
  <2>1. LastOf(stack).fn \notin Callbacks
    BY <1>1, <1>2, TopIsJS
  <2> QED
    BY <1>1, <1>2, <1>4, <2>1, CallbackBelow DEF Inv
<1>6. t.catcher # 0 => t.catcher \in TryCatches(stack)
  BY <1>1, <1>4 DEF Inv
<1>7. Inv(Resumed(Below(stack), TRUE), Unregistered(t, LastOf(stack)),
          RefsAfter(Below(stack), locals, TRUE))
  BY <1>1, <1>2, <1>4, <1>5, <1>6, LeaveJSInv
<1> QED
  BY <1>3, <1>7 DEF JSReturn, LeaveJS

(* Every action preserves the invariant.                                    *)
LEMMA NextInv ==
  ASSUME IInv, Next
  PROVE  Inv(stack', top', locals') /\ framework' \in BOOLEAN
<1>0. framework \in BOOLEAN /\ Inv(stack, top, locals)
  BY DEF IInv
<1>1. CASE InitFramework
  BY <1>0, <1>1, InitFrameworkInv DEF InitFramework
<1>2. ASSUME NEW i \in Instance, ExecJS(i)
      PROVE  Inv(stack', top', locals') /\ framework' \in BOOLEAN
  <2>1. framework' = framework
    BY <1>2 DEF ExecJS
  <2> QED
    BY <1>0, <1>2, <2>1, ExecJSInv
<1>3. ASSUME NEW kind \in {"catch", "finally"}, JSEnterTry(kind)
      PROVE  Inv(stack', top', locals') /\ framework' \in BOOLEAN
  <2>1. InJS /\ TopFrame.carried = NoException /\ UNCHANGED <<top, locals, framework>>
    BY <1>3 DEF JSEnterTry
  <2>2. Len(stack) # 0 /\ TopFrame \in Frame /\ TopFrame = stack[Len(stack)]
    BY <2>1, NotEmpty, StackFacts
  <2>3. PICK g : g = [TopFrame EXCEPT !.handler = kind, !.carried = NoException]
    OBVIOUS
  <2>4. g = [stack[Len(stack)] EXCEPT !.handler = kind]
    BY <2>1, <2>2, <2>3 DEF Frame
  <2>5. stack' = Replaced(stack, Len(stack), g)
    BY <1>3, <2>4 DEF JSEnterTry, Replaced
  <2>6. Inv(Replaced(stack, Len(stack), g), top, locals)
    BY <2>1, <2>3, TryInv
  <2> QED
    BY <1>0, <2>1, <2>5, <2>6
<1>4. CASE JSLeaveTry
  <2>1. InJS /\ UNCHANGED <<top, locals, framework>>
    BY <1>4 DEF JSLeaveTry
  <2>2. Len(stack) # 0 /\ TopFrame \in Frame /\ TopFrame = stack[Len(stack)]
    BY <2>1, NotEmpty, StackFacts
  <2>3. TopFrame.carried \in Origin \cup {NoException}
    BY <2>2 DEF Frame
  <2>4. PICK g : g = [TopFrame EXCEPT !.handler = "none", !.carried = TopFrame.carried]
    OBVIOUS
  <2>5. g = [stack[Len(stack)] EXCEPT !.handler = "none"]
    BY <2>2, <2>4 DEF Frame
  <2>6. stack' = Replaced(stack, Len(stack), g)
    BY <1>4, <2>5 DEF JSLeaveTry, Replaced
  <2>7. Inv(Replaced(stack, Len(stack), g), top, locals)
    BY <2>1, <2>3, <2>4, TryInv
  <2> QED
    BY <1>0, <2>1, <2>6, <2>7
<1>5. CASE JSThrow
  <2>1. InJS /\ Raise(stack, top, locals, TopFrame.inst) /\ framework' = framework
    BY <1>5 DEF JSThrow
  <2>2. Len(stack) # 0 /\ LastOf(stack).js
    BY <2>1, NotEmpty DEF InJS, TopFrame
  <2>3. TopFrame.inst \in Origin
    BY <2>2, StackFacts DEF Frame
  <2> QED
    BY <1>0, <2>1, <2>2, <2>3, RaiseInv
<1>6. ASSUME InJS, TopFrame.carried # NoException
      PROVE  \E rest \in {[stack EXCEPT ![Len(stack)].carried = NoException]} :
               Inv(rest, top, locals) /\ Len(rest) # 0 /\ LastOf(rest).js
  <2>1. Len(stack) # 0 /\ TopFrame \in Frame /\ TopFrame = stack[Len(stack)]
        /\ Len(stack) \in 1 .. Len(stack) /\ LastOf(stack).js
    BY <1>6, NotEmpty, StackFacts DEF InJS
  <2>2. TopFrame.handler \in {"none", "catch", "finally"}
    BY <2>1 DEF Frame
  <2>3. PICK g : g = [TopFrame EXCEPT !.handler = TopFrame.handler, !.carried = NoException]
    OBVIOUS
  <2>4. g = [stack[Len(stack)] EXCEPT !.carried = NoException] /\ g.js
    BY <2>1, <2>3 DEF Frame, LastOf
  <2>5. Inv(Replaced(stack, Len(stack), g), top, locals)
    BY <1>6, <2>2, <2>3, TryInv
  <2>6. PICK rest : rest = Replaced(stack, Len(stack), g)
    OBVIOUS
  <2>7. rest = [stack EXCEPT ![Len(stack)].carried = NoException]
    BY <2>4, <2>6 DEF Replaced
  <2>8. StackOK(stack)
    BY <1>0 DEF Inv
  <2>9. Len(rest) = Len(stack) /\ rest[Len(stack)] = g
    BY <2>1, <2>6, <2>8 DEF StackOK, Replaced
  <2> QED
    BY <2>1, <2>4, <2>5, <2>6, <2>7, <2>9 DEF LastOf
<1>7. CASE JSRethrow
  <2>1. /\ InJS /\ TopFrame.carried # NoException /\ framework' = framework
        /\ Raise([stack EXCEPT ![Len(stack)].carried = NoException], top, locals,
                 TopFrame.carried)
    BY <1>7 DEF JSRethrow
  <2>2. PICK rest \in {[stack EXCEPT ![Len(stack)].carried = NoException]} :
          Inv(rest, top, locals) /\ Len(rest) # 0 /\ LastOf(rest).js
    BY <1>6, <2>1
  <2>3. TopFrame.carried \in Origin
    <3>1. TopFrame \in Frame
      BY <2>1, NotEmpty, StackFacts
    <3> QED
      BY <2>1, <3>1 DEF Frame
  <2>4. Raise(rest, top, locals, TopFrame.carried)
    BY <2>1, <2>2
  <2> QED
    BY <1>0, <2>1, <2>2, <2>3, <2>4, RaiseInv
<1>8. CASE JSDrop
  <2>1. /\ InJS /\ TopFrame.carried # NoException /\ UNCHANGED <<top, locals, framework>>
        /\ stack' = [stack EXCEPT ![Len(stack)].carried = NoException]
    BY <1>8 DEF JSDrop
  <2>2. PICK rest \in {[stack EXCEPT ![Len(stack)].carried = NoException]} :
          Inv(rest, top, locals) /\ Len(rest) # 0 /\ LastOf(rest).js
    BY <1>6, <2>1
  <2>3. rest = stack'
    BY <2>1, <2>2
  <2> QED
    BY <1>0, <2>1, <2>2, <2>3
<1>9. CASE JSReturn
  BY <1>0, <1>9, JSReturnInv DEF JSReturn
<1>10. ASSUME NEW fn \in Callback, JSCall(fn)
       PROVE  Inv(stack', top', locals') /\ framework' \in BOOLEAN
  <2>1. InJS /\ Len(stack) < MaxFrames /\ UNCHANGED <<top, locals, framework>>
    BY <1>10 DEF JSCall
  <2>2. /\ Len(stack) # 0 /\ Len(stack) \in Nat /\ LastOf(stack).js
        /\ TopFrame.inst \in Origin
    BY <2>1, NotEmpty, StackFacts DEF InJS, Frame
  <2>3. PICK f : f = BridgeFrame(fn, TopFrame.inst, FALSE)
    OBVIOUS
  <2>4. fn \in Callbacks /\ fn \in DOMAIN Steps /\ fn \notin Runners
    BY CallbackAssumption, StepsOf DEF Callbacks, Runners
  <2>5. FrameOK(f) /\ f.fn = fn /\ f.step = 1 /\ ~f.js
    BY <2>2, <2>3, <2>4, NewFrames
  <2>6. Fits(f, stack)
    BY <2>2, <2>4, <2>5 DEF Fits, Over, Callbacks
  <2>7. Len(stack) + 1 <= MaxFrames
    BY <2>1, <2>2, BoundAssumption
  <2>8. Inv(Pushed(stack, f), top, locals)
    BY <1>0, <2>5, <2>6, <2>7, PushInv
  <2>9. stack' = Pushed(stack, f)
    BY <1>10, <2>3 DEF JSCall, Pushed
  <2> QED
    BY <1>0, <2>1, <2>8, <2>9
<1>11. CASE ConvertString
  <2>1. /\ InBridge /\ At \notin {"java", "true"} /\ framework' = framework
        /\ stack' = Resumed(stack, TRUE)
        /\ locals' = RefsAfter(stack, locals, TRUE)
    BY <1>11 DEF ConvertString
  <2>2. PICK t : t = [top EXCEPT !.catcher = 0]
    OBVIOUS
  <2>3. top' = t
    BY <1>11, <2>2 DEF ConvertString
  <2>4. Inv(Resumed(stack, TRUE), t, locals')
    BY <2>1, <2>2, ConvertInv
  <2> QED
    BY <1>0, <2>1, <2>3, <2>4
<1>12. CASE ConvertNothing
  <2>1. /\ InBridge /\ At \notin {"java", "true"} /\ UNCHANGED <<top, locals, framework>>
        /\ stack' = Resumed(stack, TRUE)
    BY <1>12 DEF ConvertNothing
  <2>2. Inv(Resumed(stack, TRUE), top, locals)
    BY <2>1, ConvertInv
  <2> QED
    BY <1>0, <2>1, <2>2
<1>13. CASE ConvertNonString
  <2>1. /\ InBridge /\ At \in {"utf8", "task", "dom", "tostr", "report"}
        /\ Len(stack) < MaxFrames /\ top' = Entered(top) /\ UNCHANGED <<locals, framework>>
    BY <1>13 DEF ConvertNonString
  <2>2. /\ Len(stack) # 0 /\ Len(stack) \in Nat /\ ~LastOf(stack).js
        /\ TopFrame.inst \in Origin /\ TopFrame = LastOf(stack) /\ FrameOK(TopFrame)
    BY <2>1, NotEmpty, StackFacts DEF InBridge, Frame
  <2>3. PICK f : f = JSFrame(TopFrame.inst, At \in {"utf8", "report"})
    OBVIOUS
  <2>4. FrameOK(f) /\ f.fn = "js" /\ f.js
    <3>1. PICK tc : tc = (At \in {"utf8", "report"})
      OBVIOUS
    <3>2. tc \in BOOLEAN /\ f = JSFrame(TopFrame.inst, tc)
      BY <2>3, <3>1
    <3> QED
      BY <2>2, <3>2, NewFrames
  <2>5. TopFrame.fn \in Runners => TopFrame.step # 1
    <3>1. ASSUME TopFrame.fn \in Runners, TopFrame.step = 1 PROVE FALSE
      <4>1. At = "run"
        BY <3>1, StepsOf DEF At, Runners
      <4> QED
        BY <2>1, <4>1
    <3> QED
      BY <3>1
  <2>6. Over(LastOf(stack), f)
    BY <2>1, <2>2, <2>4, <2>5 DEF Over, At, Callbacks
  <2>7. Fits(f, stack)
    BY <2>2, <2>4, <2>6 DEF Fits
  <2>8. Len(stack) + 1 <= MaxFrames
    BY <2>1, <2>2, BoundAssumption
  <2>9. Inv(Pushed(stack, f), Entered(top), locals)
    BY <1>0, <2>4, <2>7, <2>8, PushInv
  <2>10. stack' = Pushed(stack, f)
    BY <1>13, <2>3 DEF ConvertNonString, Pushed
  <2> QED
    BY <1>0, <2>1, <2>9, <2>10
<1>14. ASSUME InBridge
       PROVE  /\ Len(stack) # 0 /\ RefsDeleted \subseteq (1 .. MaxFrames) \X (1 .. 6)
              /\ locals \cup {<<Len(stack), TopFrame.step>>} \subseteq (1 .. MaxFrames) \X (1 .. 6)
  <2>1. Len(stack) # 0 /\ Len(stack) \in Nat \ {0} /\ TopFrame \in Frame
    BY <1>14, NotEmpty, StackFacts
  <2>2. locals \subseteq (1 .. MaxFrames) \X (1 .. 6) /\ Len(stack) <= MaxFrames
    BY <1>0 DEF Inv
  <2>3. Len(stack) \in 1 .. MaxFrames /\ TopFrame.step \in 1 .. 6
    BY <2>1, <2>2, BoundAssumption DEF Frame
  <2> QED
    BY <2>1, <2>2, <2>3 DEF RefsDeleted
<1>15. CASE LogClassMissing
  <2>1. /\ InBridge /\ At = "message" /\ framework' = framework
        /\ CallbackEnds([top EXCEPT !.catcher = 0], locals \cup {<<Len(stack), TopFrame.step>>})
    BY <1>15 DEF LogClassMissing
  <2>2. TopFrame.fn \in Callbacks
    <3>1. /\ TopFrame.fn \in DOMAIN Steps
          /\ TopFrame.step \in DOMAIN Steps[TopFrame.fn]
          /\ Steps[TopFrame.fn][TopFrame.step] = "message"
      BY <2>1, <1>14, StackFacts DEF FrameOK, Frame, InBridge, At
    <3> QED
      BY <3>1, StepsOf DEF Callbacks, Runners
  <2>3. PICK t : t = [top EXCEPT !.catcher = 0]
    OBVIOUS
  <2>4. /\ t \in TopType /\ t.depth = top.depth /\ t.scheduled = top.scheduled
        /\ t.catcher = 0
    BY <1>0, <2>3, BoundAssumption DEF TopType, Inv
  <2>5. Inv(stack, t, locals)
    BY <1>0, <2>4 DEF Inv
  <2> QED
    BY <1>0, <1>14, <2>1, <2>2, <2>3, <2>5, CallbackEndsInv
<1>16. CASE CallbackReturns
  <2>1. /\ InBridge /\ TopFrame.fn \in Callbacks /\ framework' = framework
        /\ CallbackEnds(top, RefsDeleted)
    BY <1>16 DEF CallbackReturns
  <2> QED
    BY <1>0, <1>14, <2>1, CallbackEndsInv
<1>17. CASE ReturnTrue
  <2>1. InBridge /\ TopFrame.fn \notin Callbacks /\ ReturnToJava /\ framework' = framework
    BY <1>17 DEF ReturnTrue, Callbacks
  <2> QED
    BY <1>0, <2>1, ReturnToJavaInv
<1>18. CASE ReturnFalse
  <2>1. InBridge /\ TopFrame.fn \notin Callbacks /\ ReturnToJava /\ framework' = framework
    BY <1>18 DEF ReturnFalse, Callbacks
  <2> QED
    BY <1>0, <2>1, ReturnToJavaInv
<1>19. CASE SetJSFVersion
  BY <1>0, <1>19, SetJSFVersionInv DEF SetJSFVersion
<1>20. CASE InitFrameworkReturnsTrue
  <2>1. InBridge /\ TopFrame.fn \notin Callbacks /\ ReturnToJava /\ framework' = TRUE
    BY <1>20 DEF InitFrameworkReturnsTrue, Callbacks
  <2> QED
    BY <2>1, ReturnToJavaInv
<1> QED
  BY <1>1, <1>2, <1>3, <1>4, <1>5, <1>7, <1>8, <1>9, <1>10, <1>11, <1>12, <1>13,
     <1>15, <1>16, <1>17, <1>18, <1>19, <1>20 DEF Next

LEMMA InitInv == Init => IInv
<1> SUFFICES ASSUME Init PROVE IInv
  OBVIOUS
<1>1. stack = <<>> /\ Len(stack) = 0 /\ locals = {} /\ framework = FALSE
  BY DEF Init
<1>2. /\ top \in TopType /\ top.scheduled = NoException /\ top.catcher = 0 /\ top.depth = 0
  BY BoundAssumption DEF Init, TopType
<1>3. StackOK(stack)
  BY <1>1 DEF StackOK
<1>4. JSFrames(stack) = {}
  BY <1>1 DEF JSFrames
<1>5. Cardinality({}) = 0
  BY FS_EmptySet
<1>6. Reported(stack)
  BY <1>1 DEF Reported
<1>7. Len(stack) <= MaxFrames
  BY <1>1, BoundAssumption
<1>8. locals \subseteq (1 .. MaxFrames) \X (1 .. 6) /\ framework \in BOOLEAN
  BY <1>1
<1>9. top.depth = Cardinality(JSFrames(stack))
  BY <1>2, <1>4, <1>5
<1> QED
  BY <1>2, <1>3, <1>6, <1>7, <1>8, <1>9 DEF IInv, Inv

(* The invariant holds in every reachable state: in each the stack alternates *)
(* as Over says, call_depth_ counts the calls into JavaScript and every one  *)
(* of the properties below follows.                                         *)
THEOREM Inductive == Spec => []IInv
<1>1. IInv /\ [Next]_vars => IInv'
  <2> SUFFICES ASSUME IInv, [Next]_vars PROVE IInv'
    OBVIOUS
  <2>1. CASE Next
    BY <2>1, NextInv DEF IInv
  <2>2. CASE UNCHANGED vars
    BY <2>2 DEF vars, IInv
  <2> QED
    BY <2>1, <2>2
<1> QED
  BY InitInv, <1>1, PTL DEF Spec

(* The variables have their types: no more frames than the bound, no more    *)
(* entries of V8 than frames, and a bridge function is at a step of its own. *)
THEOREM TypeCorrect == Spec => []TypeOK
<1>1. IInv => TypeOK
  <2> SUFFICES ASSUME IInv PROVE TypeOK
    OBVIOUS
  <2>1. /\ stack \in Seq(Frame) /\ DOMAIN stack = 1 .. Len(stack) /\ Len(stack) <= MaxFrames
        /\ \A i \in 1 .. Len(stack) : FrameOK(stack[i])
    BY DEF IInv, Inv, StackOK
  <2>2. /\ top \in TopType /\ locals \subseteq (1 .. MaxFrames) \X (1 .. 6)
        /\ framework \in BOOLEAN
    BY DEF IInv, Inv
  <2>3. \A i \in DOMAIN stack : stack[i].js <=> stack[i].fn = "js"
    BY <2>1 DEF FrameOK
  <2>4. \A i \in DOMAIN stack : ~stack[i].js => stack[i].step \in DOMAIN Steps[stack[i].fn]
    BY <2>1 DEF FrameOK
  <2> QED
    BY <2>1, <2>2, <2>3, <2>4 DEF TypeOK, TopType
<1> QED
  BY Inductive, <1>1, PTL

(* execJS and ExecuteJavaScript never report an exception they did not catch, *)
(* however deep the callbacks, Java and execJS nest under them: their        *)
(* assertion that HasCaught after a call without a result.                   *)
THEOREM EmptyIsCaught == Spec => []EmptyMeansCaught
<1>1. IInv => EmptyMeansCaught
  BY FramesOf DEF IInv, Inv, Reported, Runners, EmptyMeansCaught
<1> QED
  BY Inductive, <1>1, PTL

(* catcher_ of V8 never points to a TryCatch that is gone, although the      *)
(* bridge, Utf8Value and JavaScript register and unregister them in any order *)
(* of nesting.                                                              *)
THEOREM CatcherIsRegistered == Spec => []CatcherRegistered
<1>1. IInv => CatcherRegistered
  BY DEF IInv, Inv, CatcherRegistered
<1> QED
  BY Inductive, <1>1, PTL

(* No exception waits when no callback is active: a conversion that throws in *)
(* a callback does not outlive it.                                          *)
THEOREM ScheduledIsPromoted == Spec => []ScheduledUnderCallback
<1>1. IInv => ScheduledUnderCallback
  <2> SUFFICES ASSUME IInv, top.scheduled # NoException
               PROVE  \E i \in DOMAIN stack : stack[i].fn \in Callbacks
    BY DEF ScheduledUnderCallback
  <2>1. HasCallback(stack) /\ DOMAIN stack = 1 .. Len(stack)
    BY DEF IInv, Inv, StackOK
  <2> QED
    BY <2>1 DEF HasCallback
<1> QED
  BY Inductive, <1>1, PTL

----------------------------------------------------------------------------
(* The tame program.  An exception is on its way from the callback that has *)
(* it scheduled to the TryCatch that has noted it, and nothing is in between *)
(* that could handle it.                                                    *)

(* What a frame keeps is of its own instance, and nothing is noted by a call *)
(* that has a result.                                                       *)
Own(f) ==
  /\ f.caught \in {NoException, f.inst}
  /\ f.carried \in {NoException, f.inst}
  /\ f.fn \in Runners /\ f.step = 2 => f.caught = NoException

(* Frame g directly above frame f is of the same instance, unless Java has   *)
(* called execJS; Utf8Value has a TryCatch.                                 *)
Inherits(f, g) ==
  /\ g.fn # "execJS" => g.inst = f.inst
  /\ g.js => (g.tc <=> Steps[f.fn][f.step] \in {"utf8", "report"})

OwnOK(stk) ==
  /\ \A i \in 1 .. Len(stk) : Own(stk[i])
  /\ \A i \in 1 .. Len(stk) - 1 : Inherits(stk[i], stk[i + 1])

(* The TryCatch of the frame has noted an exception that has yet to come.   *)
Awaits(f) == f.caught # NoException /\ (f.js \/ (f.fn \in Runners /\ f.step = 1))
Awaiting(stk) == {i \in 1 .. Len(stk) : Awaits(stk[i])}

(* Nothing handles the exception before frame i.                            *)
Free(i, stk) ==
  /\ IsNewest(i, stk)
  /\ \A j \in 1 .. Len(stk) : stk[j].handler # "none" => j < i

WayFree(stk) == \A i \in Awaiting(stk) : Free(i, stk)

TState(stk, t) ==
  /\ OwnOK(stk)
  /\ WayFree(stk)
  /\ t.scheduled # NoException =>
       Len(stk) # 0 /\ LastOf(stk).fn \in Callbacks /\ LastOf(stk).inst = t.scheduled
  /\ t.scheduled = NoException => Awaiting(stk) = {}
  /\ t.external => Awaiting(stk) # {}

TInv == TState(stack, top)

Calm(stk, t) ==
  OwnOK(stk) /\ Awaiting(stk) = {} /\ t.scheduled = NoException /\ ~t.external

LEMMA CalmIs ==
  ASSUME NEW stk, NEW t
  PROVE  /\ Calm(stk, t) => TState(stk, t)
         /\ TState(stk, t) /\ t.scheduled = NoException => Calm(stk, t)
BY DEF Calm, TState, WayFree

(* Any set of naturals that has an element has a least one.                 *)
LEMMA Least ==
  ASSUME NEW T \in SUBSET Nat, T # {}
  PROVE  \E x \in T : \A y \in T : x <= y
<1> DEFINE R == {p \in Nat \X Nat : p[1] < p[2]}
<1>1. IsWellFoundedOn(R, Nat)
  BY NatLessThanWellFounded DEF OpToRel
<1>2. PICK x \in T : \A y \in T : ~ (<<y, x>> \in R)
  <2> HIDE DEF R
  <2> QED BY <1>1, WFMin, Zenon
<1>3. ASSUME NEW y \in T, y < x PROVE FALSE
  <2>1. <<y, x>> \in R
    BY <1>3
  <2> QED BY <2>1, <1>2
<1> QED BY <1>3

(* The frames above the newest TryCatch are of the instance of its frame.   *)
LEMMA SameInstance ==
  ASSUME NEW stk, StackOK(stk), OwnOK(stk), NEW c, IsNewest(c, stk)
  PROVE  \A i \in c .. Len(stk) : stk[i].inst = stk[Len(stk)].inst
<1> DEFINE n == Len(stk)
<1>1. n \in Nat /\ DOMAIN stk = 1 .. n /\ \A i \in 1 .. n : FrameOK(stk[i])
  BY FramesOf
<1>2. c \in 1 .. n /\ \A j \in 1 .. n : stk[j].tc => j <= c
  BY <1>1 DEF IsNewest, TryCatches
<1>3. \A i \in 1 .. n - 1 : Inherits(stk[i], stk[i + 1])
  BY DEF OwnOK
<1> HIDE DEF n
<1>4. ASSUME NEW i \in c .. n, stk[i].inst # stk[n].inst PROVE FALSE
  <2> DEFINE T == {k \in 0 .. n : n - k \in c .. n /\ stk[n - k].inst # stk[n].inst}
  <2>1. n - i \in 0 .. n /\ n - (n - i) = i
    BY <1>1, <1>2
  <2>2. T \in SUBSET Nat /\ T # {}
    BY <1>4, <2>1
  <2>3. PICK k \in T : \A l \in T : k <= l
    <3> HIDE DEF T
    <3> QED BY <2>2, Least
  <2>4. k \in 0 .. n /\ n - k \in c .. n /\ stk[n - k].inst # stk[n].inst
    BY <2>3
  <2>5. k # 0
    BY <1>1, <2>4
  <2>6. /\ k - 1 \in 0 .. n /\ ~(k <= k - 1) /\ n - (k - 1) = (n - k) + 1
        /\ (n - k) + 1 \in c .. n /\ n - k \in 1 .. n - 1
        /\ (n - k) + 1 \in 1 .. n /\ ~((n - k) + 1 <= c)
    BY <1>1, <1>2, <2>4, <2>5
  <2>7. stk[(n - k) + 1].inst = stk[n].inst
    BY <2>3, <2>6
  <2>8. ~stk[(n - k) + 1].tc /\ FrameOK(stk[(n - k) + 1])
    BY <1>1, <1>2, <2>6
  <2>9. stk[(n - k) + 1].fn # "execJS"
    BY <2>8 DEF FrameOK, Runners
  <2>10. Inherits(stk[n - k], stk[(n - k) + 1])
    BY <1>3, <2>6
  <2> QED BY <2>4, <2>7, <2>9, <2>10 DEF Inherits
<1> QED BY <1>4 DEF n

----------------------------------------------------------------------------
(* Stacks.                                                                  *)

LEMMA PushOwn ==
  ASSUME NEW stk, StackOK(stk), OwnOK(stk), NEW f, f.caught = NoException, Own(f),
         Len(stk) # 0 => Inherits(LastOf(stk), f),
         NEW new, Len(new) = Len(stk) + 1, new[Len(stk) + 1] = f,
         \A j \in 1 .. Len(stk) : new[j] = stk[j]
  PROVE  OwnOK(new) /\ Awaiting(new) = Awaiting(stk)
<1> DEFINE n == Len(stk)
<1>1. n \in Nat
  BY DEF StackOK
<1>2. \A i \in 1 .. n + 1 : i \in 1 .. n \/ i = n + 1
  BY <1>1
<1>3. \A i \in 1 .. Len(new) : Own(new[i])
  BY <1>2 DEF OwnOK
<1>4. ASSUME NEW i \in 1 .. Len(new) - 1 PROVE Inherits(new[i], new[i + 1])
  <2>1. CASE i = n
    BY <1>1, <1>4, <2>1 DEF LastOf
  <2>2. CASE i # n
    <3>1. i \in 1 .. n - 1 /\ i \in 1 .. n /\ i + 1 \in 1 .. n
      BY <1>1, <1>4, <2>2
    <3> QED BY <3>1 DEF OwnOK
  <2> QED BY <2>1, <2>2
<1>5. ~Awaits(f)
  BY DEF Awaits
<1>6. \A i \in 1 .. n : i \in 1 .. n + 1
  BY <1>1
<1> QED BY <1>2, <1>3, <1>4, <1>5, <1>6 DEF OwnOK, Awaiting

LEMMA PopOwn ==
  ASSUME NEW stk, StackOK(stk), Len(stk) # 0, OwnOK(stk)
  PROVE  /\ OwnOK(Below(stk)) /\ Awaiting(Below(stk)) = Awaiting(stk) \ {Len(stk)}
         /\ \A i \in 1 .. Len(stk) - 1 : Free(i, stk) => Free(i, Below(stk))
<1> DEFINE n == Len(stk)
<1>1. PICK b : b = Below(stk)
  OBVIOUS
<1>2. /\ n \in Nat /\ n > 0 /\ Len(b) = n - 1 /\ StackOK(b)
      /\ \A j \in 1 .. n - 1 : b[j] = stk[j]
      /\ DOMAIN stk = 1 .. n /\ DOMAIN b = 1 .. n - 1
  BY <1>1, Pop, FramesOf
<1> HIDE DEF n
<1>3. \A j \in 1 .. n - 1 : j \in 1 .. n
  BY <1>2
<1>4. \A i \in 1 .. n - 1 : Own(b[i])
  BY <1>2, <1>3 DEF OwnOK, n
<1>5. ASSUME NEW i \in 1 .. (n - 1) - 1 PROVE Inherits(b[i], b[i + 1])
  <2>1. i \in 1 .. n - 1 /\ i + 1 \in 1 .. n - 1
    BY <1>2
  <2> QED BY <1>2, <2>1 DEF OwnOK, n
<1>6. Awaiting(b) = Awaiting(stk) \ {n}
  <2>1. \A j \in 1 .. n : j \in 1 .. n - 1 <=> j # n
    BY <1>2
  <2> QED BY <1>2, <1>3, <2>1 DEF Awaiting, n
<1>7. ASSUME NEW i \in 1 .. n - 1, Free(i, stk) PROVE Free(i, b)
  <2>1. stk[i].tc /\ \A j \in 1 .. n : stk[j].tc => j <= i
    BY <1>2, <1>7 DEF Free, IsNewest, TryCatches
  <2>2. \A j \in 1 .. n : stk[j].handler # "none" => j < i
    BY <1>7 DEF Free, n
  <2> QED BY <1>2, <1>3, <2>1, <2>2 DEF Free, IsNewest, TryCatches
<1> QED BY <1>1, <1>2, <1>4, <1>5, <1>6, <1>7 DEF OwnOK, n

(* The newest frame changes, and keeps its function, instance and TryCatch. *)
LEMMA ReplaceOwn ==
  ASSUME NEW stk, StackOK(stk), Len(stk) # 0, OwnOK(stk),
         NEW g, Own(g), g.fn = LastOf(stk).fn, g.inst = LastOf(stk).inst,
         g.tc = LastOf(stk).tc, g.js = LastOf(stk).js,
         NEW new, Len(new) = Len(stk), new[Len(stk)] = g,
         \A j \in 1 .. Len(stk) : j # Len(stk) => new[j] = stk[j]
  PROVE  /\ OwnOK(new)
         /\ Awaiting(new) = (Awaiting(stk) \ {Len(stk)}) \cup (IF Awaits(g) THEN {Len(stk)} ELSE {})
<1> DEFINE n == Len(stk)
<1>1. n \in Nat /\ n > 0 /\ n \in 1 .. n /\ LastOf(stk) = stk[n]
  BY DEF StackOK, LastOf
<1>2. \A i \in 1 .. n : Own(new[i])
  BY DEF OwnOK
<1>3. ASSUME NEW i \in 1 .. n - 1 PROVE Inherits(new[i], new[i + 1])
  <2>1. i \in 1 .. n /\ i # n /\ i + 1 \in 1 .. n /\ new[i] = stk[i]
    BY <1>1
  <2>2. Inherits(stk[i], stk[i + 1])
    BY DEF OwnOK
  <2>3. CASE i + 1 = n
    BY <1>1, <2>1, <2>2, <2>3 DEF Inherits
  <2>4. CASE i + 1 # n
    BY <2>1, <2>2, <2>4
  <2> QED BY <2>3, <2>4
<1>4. Awaiting(new) = (Awaiting(stk) \ {n}) \cup (IF Awaits(g) THEN {n} ELSE {})
  BY <1>1 DEF Awaiting
<1> QED BY <1>2, <1>3, <1>4 DEF OwnOK

(* The bridge goes on after a call or a conversion.                         *)
LEMMA ResumedOwn ==
  ASSUME NEW stk, StackOK(stk), Len(stk) # 0, ~LastOf(stk).js, OwnOK(stk),
         Steps[LastOf(stk).fn][LastOf(stk).step] \notin {"java", "true"},
         NEW ok \in BOOLEAN,
         ok /\ LastOf(stk).fn \in Runners /\ LastOf(stk).step = 1 => LastOf(stk).caught = NoException
  PROVE  LET new == Resumed(stk, ok)
         IN  /\ OwnOK(new) /\ Awaiting(new) = Awaiting(stk) \ {Len(stk)}
             /\ Len(new) = Len(stk)
             /\ LastOf(new).fn = LastOf(stk).fn /\ LastOf(new).inst = LastOf(stk).inst
             /\ \A i \in 1 .. Len(stk) : Free(i, stk) => Free(i, new)
<1> DEFINE n == Len(stk)
<1>1. /\ n \in Nat /\ n \in 1 .. n /\ LastOf(stk) = stk[n] /\ DOMAIN stk = 1 .. n
      /\ FrameOK(stk[n]) /\ stk \in Seq(Frame)
  <2>1. n \in Nat /\ n \in 1 .. n /\ LastOf(stk) = stk[n]
    BY DEF StackOK, LastOf
  <2> QED BY <2>1, FramesOf DEF StackOK
<1>2. PICK f : f = stk[n]
  OBVIOUS
<1>3. PICK g : g = [f EXCEPT !.step = StepAfter(f, ok)]
  OBVIOUS
<1>4. FrameOK(f) /\ ~f.js /\ Steps[f.fn][f.step] \notin {"java", "true"} /\ Own(f)
  BY <1>1, <1>2 DEF OwnOK
<1>5. /\ FrameOK(g) /\ g.fn = f.fn /\ g.tc = f.tc /\ g.caught = f.caught
      /\ g.step = StepAfter(f, ok)
  BY <1>3, <1>4, Advanced
<1>6. g.inst = f.inst /\ g.carried = f.carried /\ g.js = f.js /\ g.handler = f.handler
  BY <1>3, <1>4 DEF FrameOK, Frame
<1>7. f.fn \in Runners => (f.step = 1 /\ g.step = IF ok THEN 2 ELSE 3) \/ (f.step = 3 /\ g.step = 4)
  <2>1. SUFFICES ASSUME f.fn \in Runners PROVE (f.step = 1 /\ g.step = IF ok THEN 2 ELSE 3) \/ (f.step = 3 /\ g.step = 4)
    OBVIOUS
  <2>2. f.step \in {1, 3}
    <3>1. f.fn \in DOMAIN Steps /\ f.step \in DOMAIN Steps[f.fn]
      BY <1>4 DEF FrameOK, Frame
    <3> QED BY <1>4, <2>1, <3>1, StepAfterOK
  <2>3. Steps[f.fn][1] = "run" /\ Steps[f.fn][3] = "report"
    BY <2>1, StepsOf DEF Runners
  <2>4. f.step = 1 => g.step = IF ok THEN 2 ELSE 3
    BY <1>5, <2>3 DEF StepAfter
  <2>5. f.step = 3 => g.step = 4
    BY <1>5, <2>3 DEF StepAfter
  <2> QED BY <2>2, <2>4, <2>5
<1>8. Own(g) /\ ~Awaits(g)
  <2>1. g.fn \in Runners /\ g.step = 2 => g.caught = NoException
    BY <1>1, <1>2, <1>5, <1>7
  <2>2. ~(g.fn \in Runners /\ g.step = 1)
    BY <1>5, <1>7
  <2> QED BY <1>4, <1>5, <1>6, <2>1, <2>2 DEF Own, Awaits
<1>9. PICK new : new = Replaced(stk, n, g)
  OBVIOUS
<1>10. Resumed(stk, ok) = new
  BY <1>1, <1>2, <1>3, <1>9 DEF Resumed, Replaced
<1>11. /\ Len(new) = n /\ new[n] = g /\ DOMAIN new = 1 .. n
       /\ \A j \in 1 .. n : j # n => new[j] = stk[j]
  BY <1>1, <1>5, <1>9 DEF Replaced, FrameOK
<1>12. OwnOK(new) /\ Awaiting(new) = Awaiting(stk) \ {n}
  <2>1. /\ OwnOK(new)
        /\ Awaiting(new) = (Awaiting(stk) \ {n}) \cup (IF Awaits(g) THEN {n} ELSE {})
    <3>1. /\ g.fn = LastOf(stk).fn /\ g.inst = LastOf(stk).inst
          /\ g.tc = LastOf(stk).tc /\ g.js = LastOf(stk).js
      BY <1>1, <1>2, <1>5, <1>6
    <3> QED BY <1>8, <1>11, <3>1, ReplaceOwn
  <2> QED BY <1>8, <2>1
<1>13. ASSUME NEW i \in 1 .. n, Free(i, stk) PROVE Free(i, new)
  <2>1. \A j \in 1 .. n : new[j].tc = stk[j].tc /\ new[j].handler = stk[j].handler
    BY <1>2, <1>5, <1>6, <1>11
  <2> QED BY <1>1, <1>11, <1>13, <2>1 DEF Free, IsNewest, TryCatches
<1>14. LastOf(new) = g
  BY <1>11 DEF LastOf
<1> QED BY <1>1, <1>2, <1>5, <1>6, <1>10, <1>11, <1>12, <1>13, <1>14

----------------------------------------------------------------------------
(* Throwing in a tame program.                                              *)

(* DoThrow sets catcher_ to a TryCatch that nothing is newer than.          *)
LEMMA CatcherIsFree ==
  ASSUME NEW stk, StackOK(stk), NEW c, Free(c, stk)
  PROVE  CatcherOf(stk) = c
<1>1. DOMAIN stk = 1 .. Len(stk) /\ Len(stk) \in Nat
  BY FramesOf
<1>2. /\ c \in 1 .. Len(stk) /\ IsNewest(c, stk)
      /\ \A j \in 1 .. Len(stk) : stk[j].handler # "none" => j < c
  BY <1>1 DEF Free, IsNewest, TryCatches
<1>3. CatchesExternally(c, stk)
  BY <1>1, <1>2 DEF CatchesExternally, Handlers
<1>4. ASSUME NEW i \in DOMAIN stk, CatchesExternally(i, stk) PROVE i = c
  <2>1. i <= c /\ c <= i /\ i \in 1 .. Len(stk)
    BY <1>1, <1>2, <1>4 DEF CatchesExternally, IsNewest
  <2> QED BY <1>1, <1>2, <2>1
<1> QED BY <1>1, <1>2, <1>3, <1>4 DEF CatcherOf

LEMMA CaughtIsFree ==
  ASSUME NEW stk, StackOK(stk), NEW t, t.catcher = CatcherOf(stk)
  PROVE  IsExternallyCaught(stk, t) <=> Free(t.catcher, stk)
<1>1. DOMAIN stk = 1 .. Len(stk) /\ Len(stk) \in Nat /\ \A i \in 1 .. Len(stk) : stk[i] \in Frame
  BY FramesOf
<1>2. ASSUME IsExternallyCaught(stk, t) PROVE Free(t.catcher, stk)
  <2>1. IsNewest(t.catcher, stk) /\ \A i \in Handlers(stk, "finally") : i < t.catcher
    BY <1>2 DEF IsExternallyCaught
  <2>2. CatchesExternally(t.catcher, stk)
    <3>1. t.catcher \in 1 .. Len(stk)
      BY <1>1, <2>1 DEF IsNewest, TryCatches
    <3>2. CatcherOf(stk) # 0
      BY <1>1, <3>1
    <3> QED BY <3>2 DEF CatcherOf
  <2>3. ASSUME NEW j \in 1 .. Len(stk), stk[j].handler # "none" PROVE j < t.catcher
    <3>1. stk[j].handler \in {"catch", "finally"}
      BY <1>1, <2>3 DEF Frame
    <3> QED BY <1>1, <2>1, <2>2, <3>1 DEF CatchesExternally, Handlers
  <2> QED BY <2>1, <2>3 DEF Free
<1>3. ASSUME Free(t.catcher, stk) PROVE IsExternallyCaught(stk, t)
  BY <1>1, <1>3 DEF Free, IsExternallyCaught, Handlers
<1> QED BY <1>2, <1>3

(* The TryCatch of Utf8Value, and that of execJS and ExecuteJavaScript, catch *)
(* what leaves the JavaScript under them, and it is forgotten.              *)
LEMMA CaughtAtOnce ==
  ASSUME NEW stk, StackOK(stk), OwnOK(stk), Len(stk) # 0, LastOf(stk).js,
         LastOf(stk).handler = "none", stk[Len(stk) - 1].fn \in Runners,
         NEW t, t.catcher = CatcherOf(stk)
  PROVE  /\ Free(t.catcher, stk) /\ t.catcher \in {Len(stk), Len(stk) - 1}
         /\ t.catcher = Len(stk) - 1 => stk[Len(stk) - 1].step = 1
         /\ Forgotten(stk, t)
<1> DEFINE n == Len(stk)
<1>1. /\ n \in Nat /\ n >= 2 /\ n - 1 \in 1 .. n
      /\ Over(stk[n - 1], stk[n]) /\ FrameOK(stk[n - 1]) /\ FrameOK(stk[n])
  BY TopFrameIsOverBridge
<1>2. stk[n].js /\ stk[n].handler = "none" /\ DOMAIN stk = 1 .. n
  BY FramesOf DEF LastOf
<1>3. ~stk[n - 1].js /\ Steps[stk[n - 1].fn][stk[n - 1].step] \notin {"java", "true"}
  BY <1>1, <1>2 DEF Over
<1>4. stk[n - 1].step \in {1, 3}
  <2>1. stk[n - 1].fn \in DOMAIN Steps /\ stk[n - 1].step \in DOMAIN Steps[stk[n - 1].fn]
    BY <1>1, <1>3 DEF FrameOK, Frame
  <2> QED BY <1>3, <2>1, StepAfterOK
<1>5. CASE stk[n - 1].step = 1
  <2>1. IsExternallyCaught(stk, t) /\ t.catcher = n - 1
    BY <1>5, RunnerCatches
  <2>2. Free(t.catcher, stk)
    BY <2>1, CaughtIsFree
  <2>3. ~JSNewerThan(stk, n - 1)
    <3>1. \A j \in n - 1 .. n - 1 : j = n - 1
      BY <1>1
    <3> QED BY <1>3, <3>1 DEF JSNewerThan
  <2> QED BY <1>5, <2>1, <2>2, <2>3 DEF Forgotten
<1>6. CASE stk[n - 1].step = 3
  <2>1. Steps[stk[n - 1].fn][3] = "report"
    BY StepsOf DEF Runners
  <2>2. Inherits(stk[n - 1], stk[n])
    <3>1. n - 1 \in 1 .. n - 1 /\ (n - 1) + 1 = n
      BY <1>1
    <3> QED BY <3>1 DEF OwnOK
  <2>3. stk[n].tc
    BY <1>2, <1>6, <2>1, <2>2 DEF Inherits
  <2>4. \A j \in 1 .. n : j <= n /\ (j # n => j < n)
    BY <1>1
  <2>5. n \in 1 .. n
    BY <1>1
  <2>6. Free(n, stk)
    BY <1>2, <2>3, <2>4, <2>5 DEF Free, IsNewest, TryCatches
  <2>7. t.catcher = n
    BY <2>6, CatcherIsFree
  <2>8. IsExternallyCaught(stk, t)
    BY <2>6, <2>7, CaughtIsFree
  <2>9. ~JSNewerThan(stk, n)
    <3>1. n .. n - 1 = {}
      BY <1>1
    <3> QED BY <3>1 DEF JSNewerThan
  <2>10. n # n - 1
    BY <1>1
  <2> QED BY <2>6, <2>7, <2>8, <2>9, <2>10 DEF Forgotten
<1> QED BY <1>4, <1>5, <1>6

(* getJSFMVersion is called when nothing else runs.                         *)
LEMMA VersionIsBottom ==
  ASSUME NEW stk, StackOK(stk), Len(stk) # 0, LastOf(stk).js,
         stk[Len(stk) - 1].fn = "setJSFVersion"
  PROVE  Len(stk) = 2 /\ Cardinality(JSFrames(stk)) = 1
<1> DEFINE n == Len(stk)
<1>1. /\ n \in Nat /\ n >= 2 /\ Over(stk[n - 1], stk[n])
  BY TopFrameIsOverBridge
<1>2. stk[n].js /\ ~stk[n - 1].js
  BY <1>1 DEF LastOf, Over
<1>3. n = 2
  <2> SUFFICES ASSUME n # 2 PROVE FALSE
    OBVIOUS
  <2>1. n - 2 \in 1 .. n - 1 /\ (n - 2) + 1 = n - 1
    <3>1. \A m \in Nat : m >= 2 /\ m # 2 => m - 2 \in 1 .. m - 1 /\ (m - 2) + 1 = m - 1
      OBVIOUS
    <3> QED BY <1>1, <3>1
  <2>2. Over(stk[n - 2], stk[n - 1])
    BY <2>1 DEF StackOK
  <2> QED BY <2>2 DEF Over
<1>4. JSFrames(stk) = {2}
  <2>1. 1 .. 2 = {1, 2}
    OBVIOUS
  <2> QED BY <1>2, <1>3, <2>1 DEF JSFrames
<1> QED BY <1>3, <1>4, FS_Singleton

(* Under a conversion of a callback is the JavaScript that called it.        *)
LEMMA CallbackIsUnder ==
  ASSUME NEW stk, StackOK(stk), Len(stk) # 0, LastOf(stk).js,
         stk[Len(stk) - 1].fn \in Callbacks
  PROVE  /\ Len(stk) - 2 \in 1 .. Len(stk) /\ stk[Len(stk) - 2].js
         /\ ~stk[Len(stk) - 1].tc
         /\ Cardinality(JSFrames(stk)) # 1
<1> DEFINE n == Len(stk)
<1>1. /\ n \in Nat /\ n >= 2 /\ n - 1 \in 1 .. n /\ Over(stk[n - 1], stk[n]) /\ FrameOK(stk[n - 1])
  BY TopFrameIsOverBridge
<1>2. stk[n].js /\ ~stk[n - 1].js
  BY <1>1 DEF LastOf, Over
<1>3. n # 2
  <2> SUFFICES ASSUME n = 2 PROVE FALSE
    OBVIOUS
  <2>1. Bottom(stk[1])
    BY <1>1 DEF StackOK
  <2> QED BY <2>1 DEF Bottom
<1>4. n - 2 \in 1 .. n - 1 /\ (n - 2) + 1 = n - 1 /\ n - 2 \in 1 .. n /\ n \in 1 .. n /\ n - 2 # n
  <2>1. \A m \in Nat : m >= 2 /\ m # 2 =>
          m - 2 \in 1 .. m - 1 /\ (m - 2) + 1 = m - 1 /\ m - 2 \in 1 .. m /\ m \in 1 .. m /\ m - 2 # m
    OBVIOUS
  <2> QED BY <1>1, <1>3, <2>1
<1>5. Over(stk[n - 2], stk[n - 1])
  BY <1>4 DEF StackOK
<1>6. stk[n - 2].js
  BY <1>5 DEF Over
<1>7. {n - 2, n} \subseteq JSFrames(stk)
  BY <1>2, <1>4, <1>6 DEF JSFrames
<1>8. Cardinality(JSFrames(stk)) # 1
  <2> SUFFICES ASSUME Cardinality(JSFrames(stk)) = 1 PROVE FALSE
    OBVIOUS
  <2>1. IsFiniteSet(JSFrames(stk))
    BY JSFramesCount
  <2>2. PICK x : JSFrames(stk) = {x}
    BY <2>1, FS_Singleton
  <2> QED BY <1>4, <1>7, <2>2
<1>9. ~stk[n - 1].tc
  <2>1. stk[n - 1].fn \notin Runners
    BY DEF Callbacks, Runners
  <2> QED BY <1>1, <1>2, <2>1 DEF FrameOK
<1> QED BY <1>4, <1>6, <1>8, <1>9

(* The newest TryCatch below a callback is one that awaits its exception,    *)
(* once it has noted it.                                                    *)
LEMMA CatcherAwaits ==
  ASSUME NEW stk, StackOK(stk), OwnOK(stk), NEW c, IsNewest(c, stk),
         c + 1 \in 1 .. Len(stk)
  PROVE  stk[c].js \/ (stk[c].fn \in Runners /\ stk[c].step = 1)
<1>1. Len(stk) \in Nat /\ DOMAIN stk = 1 .. Len(stk) /\ \A i \in 1 .. Len(stk) : FrameOK(stk[i])
  BY FramesOf
<1>2. c \in 1 .. Len(stk) /\ stk[c].tc /\ \A j \in 1 .. Len(stk) : stk[j].tc => j <= c
  BY <1>1 DEF IsNewest, TryCatches
<1>3. c \in 1 .. Len(stk) - 1 /\ ~(c + 1 <= c)
  BY <1>1, <1>2
<1>4. Over(stk[c], stk[c + 1]) /\ Inherits(stk[c], stk[c + 1]) /\ ~stk[c + 1].tc
  BY <1>2, <1>3 DEF StackOK, OwnOK
<1> SUFFICES ASSUME ~stk[c].js PROVE stk[c].fn \in Runners /\ stk[c].step = 1
  OBVIOUS
<1>5. stk[c].fn \in Runners /\ stk[c].fn \in DOMAIN Steps /\ stk[c].step \in DOMAIN Steps[stk[c].fn]
  BY <1>1, <1>2 DEF FrameOK, Frame
<1>6. stk[c + 1].js
  <2>1. stk[c + 1].fn \notin Callbacks /\ stk[c + 1].fn \notin {"runScript", "setJSFVersion"}
    BY <1>4 DEF Over
  <2>2. FrameOK(stk[c + 1])
    BY <1>1
  <2>3. ~stk[c + 1].js => stk[c + 1].fn \notin Runners /\ stk[c + 1].fn \in DOMAIN Steps
    BY <1>4, <2>2 DEF FrameOK, Frame
  <2> QED BY <2>1, <2>3, StepsOf
<1>7. Steps[stk[c].fn][stk[c].step] \notin {"java", "true", "report"}
  BY <1>4, <1>6 DEF Over, Inherits
<1>8. stk[c].step \in {1, 3}
  BY <1>5, <1>7, StepAfterOK
<1>9. Steps[stk[c].fn][3] = "report"
  BY <1>5, StepsOf DEF Runners
<1> QED BY <1>5, <1>7, <1>8, <1>9

(* The TryCatch notes the exception.                                        *)
LEMMA PropagatedOwn ==
  ASSUME NEW stk, StackOK(stk), OwnOK(stk), NEW t, NEW c, c = t.catcher,
         Free(c, stk), IsExternallyCaught(stk, t), Len(stk) # 0,
         NEW e, e = LastOf(stk).inst, c # Len(stk) - 1 \/ stk[c].step = 1,
         stk[c].js \/ stk[c].step = 1,
         NEW p, p = Propagated(stk, t, e)
  PROVE  /\ OwnOK(p) /\ Awaiting(p) \subseteq Awaiting(stk) \cup {c}
         /\ p[c].caught = e
         /\ \A i \in 1 .. Len(stk) : Free(i, stk) => Free(i, p)
<1> DEFINE n == Len(stk)
<1>1. n \in Nat /\ DOMAIN stk = 1 .. n /\ stk \in Seq(Frame)
  BY FramesOf DEF StackOK
<1>2. c \in 1 .. n /\ IsNewest(c, stk)
  BY <1>1 DEF Free, IsNewest, TryCatches
<1>3. stk[c].inst = e
  <2>1. c \in c .. n
    BY <1>1, <1>2
  <2> QED BY <1>2, <2>1, SameInstance DEF LastOf
<1>4. stk[c] \in Frame /\ Own(stk[c]) /\ FrameOK(stk[c])
  BY <1>2, FramesOf DEF OwnOK
<1>5. PICK g : g = [stk[c] EXCEPT !.caught = e]
  OBVIOUS
<1>6. /\ g.caught = e /\ g.fn = stk[c].fn /\ g.inst = stk[c].inst /\ g.tc = stk[c].tc
      /\ g.js = stk[c].js /\ g.step = stk[c].step /\ g.handler = stk[c].handler
      /\ g.carried = stk[c].carried
  BY <1>4, <1>5 DEF Frame
<1>7. p = [stk EXCEPT ![c] = g]
  BY <1>5 DEF Propagated
<1>8. /\ Len(p) = n /\ DOMAIN p = 1 .. n /\ p[c] = g
      /\ \A j \in 1 .. n : j # c => p[j] = stk[j]
  BY <1>1, <1>2, <1>7
<1>9. \A j \in 1 .. n : /\ p[j].fn = stk[j].fn /\ p[j].inst = stk[j].inst /\ p[j].tc = stk[j].tc
                        /\ p[j].js = stk[j].js /\ p[j].step = stk[j].step
                        /\ p[j].handler = stk[j].handler
  BY <1>6, <1>8
<1>10. Own(g)
  <2>1. g.fn \in Runners /\ g.step = 2 => g.caught = NoException
    <3>1. ~stk[c].js => stk[c].step = 1
      OBVIOUS
    <3>2. stk[c].js => stk[c].fn \notin Runners
      BY <1>4 DEF FrameOK, Runners
    <3> QED BY <1>6, <3>1, <3>2
  <2> QED BY <1>3, <1>4, <1>6, <2>1 DEF Own
<1>11. \A j \in 1 .. n : Own(p[j])
  BY <1>8, <1>10 DEF OwnOK
<1>12. ASSUME NEW j \in 1 .. n - 1 PROVE Inherits(p[j], p[j + 1])
  <2>1. j \in 1 .. n /\ j + 1 \in 1 .. n
    BY <1>1
  <2>2. Inherits(stk[j], stk[j + 1])
    BY DEF OwnOK
  <2> QED BY <1>9, <2>1, <2>2 DEF Inherits
<1>13. Awaiting(p) \subseteq Awaiting(stk) \cup {c}
  BY <1>8 DEF Awaiting
<1>14. \A i \in 1 .. n : Free(i, stk) => Free(i, p)
  BY <1>1, <1>8, <1>9 DEF Free, IsNewest, TryCatches
<1> QED BY <1>6, <1>8, <1>11, <1>12, <1>13, <1>14 DEF OwnOK

(* An exception leaves JavaScript: it waits for the callback below to        *)
(* return, or has arrived.                                                  *)
LEMMA LeaveTame ==
  ASSUME NEW stk, StackOK(stk), OwnOK(stk), WayFree(stk), Len(stk) # 0, LastOf(stk).js,
         LastOf(stk).handler = "none", Reported(stk),
         NEW t \in TopType, t.catcher = CatcherOf(stk), t.depth = Cardinality(JSFrames(stk)),
         t.scheduled = NoException,
         NEW e \in Origin, e = LastOf(stk).inst,
         NEW p, p = Propagated(stk, t, e), NEW u, u = Rescheduled(stk, t, e)
  PROVE  TState(Resumed(Below(p), FALSE), Unregistered(u, LastOf(p)))
<1> DEFINE n == Len(stk)
           c == t.catcher
<1>1. /\ n \in Nat /\ n >= 2 /\ n - 1 \in 1 .. n /\ n \in 1 .. n
      /\ Over(stk[n - 1], stk[n]) /\ FrameOK(stk[n - 1]) /\ stk[n].js /\ ~stk[n - 1].js
      /\ stk[n] = LastOf(stk)
  <2>1. /\ n \in Nat /\ n >= 2 /\ n - 1 \in 1 .. n /\ stk[n].js /\ stk[n] = LastOf(stk)
        /\ Over(stk[n - 1], stk[n]) /\ FrameOK(stk[n - 1])
    BY TopFrameIsOverBridge DEF LastOf
  <2> QED BY <2>1 DEF Over
<1>2. IsExternallyCaught(stk, t) <=> Free(c, stk)
  BY CaughtIsFree
<1>3. Awaiting(stk) \subseteq {c}
  <2> SUFFICES ASSUME NEW i \in Awaiting(stk) PROVE i = c
    OBVIOUS
  <2> QED BY CatcherIsFree DEF WayFree
<1>4. Awaiting(stk) # {} => Free(c, stk)
  BY <1>3 DEF WayFree
<1>5. Free(c, stk) => c \in 1 .. n /\ IsNewest(c, stk)
  BY FramesOf DEF Free, IsNewest, TryCatches
<1>6. stk[n - 1].inst = e /\ Steps[stk[n - 1].fn][stk[n - 1].step] \notin {"java", "true"}
  <2>1. n - 1 \in 1 .. n - 1 /\ (n - 1) + 1 = n
    BY <1>1
  <2>2. Inherits(stk[n - 1], stk[n])
    BY <2>1 DEF OwnOK
  <2>3. stk[n].fn = "js"
    BY <1>1, FramesOf DEF FrameOK
  <2> QED BY <1>1, <2>2, <2>3 DEF Inherits, Over
<1>7. /\ StackOK(p) /\ Len(p) = n
      /\ \A i \in 1 .. n : p[i].fn = stk[i].fn /\ p[i].js = stk[i].js /\ p[i].step = stk[i].step
  BY PropagatedOK
<1>8. /\ OwnOK(p) /\ (~Free(c, stk) => p = stk)
      /\ Awaiting(p) \subseteq {c} /\ (~Free(c, stk) => Awaiting(p) = {})
      /\ \A i \in 1 .. n : Free(i, stk) => Free(i, p)
      /\ Free(c, stk) => p[c].caught = e
      /\ \A i \in 1 .. n : p[i].inst = stk[i].inst
  <2>1. CASE ~Free(c, stk)
    <3>1. p = stk
      BY <1>2, <2>1 DEF Propagated
    <3> QED BY <1>3, <1>4, <2>1, <3>1
  <2>2. CASE Free(c, stk)
    <3>1. c # n - 1 \/ stk[c].step = 1
      <4> SUFFICES ASSUME c = n - 1 PROVE stk[c].step = 1
        OBVIOUS
      <4>1. stk[n - 1].fn \in Runners
        <5>1. stk[n - 1].tc
          BY <1>5, <2>2 DEF IsNewest, TryCatches
        <5> QED BY <1>1, <5>1 DEF FrameOK
      <4> QED BY <4>1, CaughtAtOnce
    <3>2. stk[c].js \/ stk[c].step = 1
      <4>1. CASE c = n
        BY <1>1, <4>1
      <4>2. CASE c # n
        <5>1. c + 1 \in 1 .. n
          BY <1>1, <1>5, <2>2, <4>2
        <5> QED BY <1>5, <2>2, <5>1, CatcherAwaits
      <4> QED BY <4>1, <4>2
    <3>3. /\ OwnOK(p) /\ Awaiting(p) \subseteq Awaiting(stk) \cup {c} /\ p[c].caught = e
          /\ \A i \in 1 .. n : Free(i, stk) => Free(i, p)
      BY <1>2, <2>2, <3>1, <3>2, PropagatedOwn
    <3>4. \A i \in 1 .. n : p[i].inst = stk[i].inst
      <4>1. p = [stk EXCEPT ![c].caught = e] /\ c \in 1 .. n
        BY <1>2, <1>5, <2>2 DEF Propagated
      <4>2. stk \in Seq(Frame) /\ stk[c] \in Frame
        BY <4>1, FramesOf DEF StackOK
      <4> QED BY <4>1, <4>2 DEF Frame
    <3> QED BY <1>3, <2>2, <3>3, <3>4
  <2> QED BY <2>1, <2>2
<1>9. PICK b : b = Below(p)
  OBVIOUS
<1>10. /\ StackOK(b) /\ Len(b) = n - 1 /\ Len(b) # 0
       /\ \A j \in 1 .. n - 1 : b[j] = p[j]
       /\ OwnOK(b) /\ Awaiting(b) = Awaiting(p) \ {n}
       /\ \A i \in 1 .. n - 1 : Free(i, p) => Free(i, b)
  <2>1. Len(p) # 0 /\ n - 1 # 0
    BY <1>1, <1>7
  <2>2. StackOK(b) /\ Len(b) = n - 1 /\ \A j \in 1 .. n - 1 : b[j] = p[j]
    BY <1>7, <1>9, <2>1, Pop
  <2> QED BY <1>7, <1>8, <1>9, <2>1, <2>2, PopOwn
<1>11. LastOf(b) = p[n - 1]
  <2>1. n - 1 \in 1 .. n - 1
    BY <1>1
  <2> QED BY <1>10, <2>1 DEF LastOf
<1>12. PICK new : new = Resumed(b, FALSE)
  OBVIOUS
<1>13. /\ OwnOK(new) /\ Awaiting(new) = Awaiting(p) \ {n, n - 1}
       /\ Len(new) = n - 1 /\ LastOf(new).fn = stk[n - 1].fn /\ LastOf(new).inst = e
       /\ \A i \in 1 .. n - 1 : Free(i, stk) => Free(i, new)
  <2>1. ~LastOf(b).js /\ Steps[LastOf(b).fn][LastOf(b).step] \notin {"java", "true"}
        /\ LastOf(b).fn = stk[n - 1].fn /\ LastOf(b).inst = e
    BY <1>1, <1>6, <1>7, <1>8, <1>11
  <2>2. /\ OwnOK(new) /\ Awaiting(new) = Awaiting(b) \ {n - 1}
        /\ Len(new) = n - 1
        /\ LastOf(new).fn = LastOf(b).fn /\ LastOf(new).inst = LastOf(b).inst
        /\ \A i \in 1 .. n - 1 : Free(i, b) => Free(i, new)
    BY <1>10, <1>12, <2>1, ResumedOwn
  <2>3. \A i \in 1 .. n - 1 : i \in 1 .. n
    BY <1>1
  <2> QED BY <1>8, <1>10, <2>1, <2>2, <2>3
<1>14. PICK v : v = Unregistered(u, LastOf(p))
  OBVIOUS
<1>15. /\ v.scheduled = IF Forgotten(stk, t) THEN NoException ELSE e
       /\ v.external = (IsExternallyCaught(stk, t) /\ ~Forgotten(stk, t))
  <2>1. /\ u.scheduled = IF Forgotten(stk, t) THEN NoException ELSE e
        /\ u.external = (IsExternallyCaught(stk, t) /\ ~Forgotten(stk, t))
    BY DEF Rescheduled
  <2>2. v.scheduled = u.scheduled /\ v.external = u.external
    <3>1. u = [scheduled |-> u.scheduled, external |-> u.external, catcher |-> u.catcher, depth |-> u.depth]
      BY DEF Rescheduled
    <3> QED BY <1>14, <3>1 DEF Unregistered
  <2> QED BY <2>1, <2>2
<1>16. e # NoException
  BY ExceptionAssumption DEF Origin
<1>17. CASE Forgotten(stk, t) /\ Awaiting(new) = {}
  BY <1>9, <1>12, <1>13, <1>14, <1>15, <1>17 DEF TState, WayFree
<1>18. CASE stk[n - 1].fn \in Runners
  <2>1. c \in {n, n - 1} /\ Forgotten(stk, t)
    BY <1>18, CaughtAtOnce
  <2>2. Awaiting(new) = {}
    BY <1>8, <1>13, <2>1
  <2> QED BY <1>17, <2>1, <2>2
<1>19. CASE stk[n - 1].fn = "setJSFVersion"
  <2>1. n = 2 /\ Forgotten(stk, t)
    BY <1>19, VersionIsBottom DEF Forgotten
  <2>2. Awaiting(new) = {}
    <3> SUFFICES ASSUME Awaiting(new) # {} PROVE FALSE
      OBVIOUS
    <3>1. c \in Awaiting(p) /\ c # n /\ c # n - 1 /\ Free(c, stk)
      BY <1>8, <1>13
    <3>2. c \in 1 .. n
      BY <1>5, <3>1
    <3> QED BY <2>1, <3>1, <3>2
  <2> QED BY <1>17, <2>1, <2>2
<1>20. CASE stk[n - 1].fn \in Callbacks
  <2>1. n - 2 \in 1 .. n /\ stk[n - 2].js /\ ~stk[n - 1].tc /\ t.depth # 1
    BY <1>20, CallbackIsUnder
  <2>2. Len(new) # 0
    BY <1>1, <1>13
  <2>3. CASE ~Free(c, stk)
    <3>1. ~Forgotten(stk, t) /\ ~IsExternallyCaught(stk, t)
      BY <1>2, <2>1, <2>3 DEF Forgotten
    <3>2. Awaiting(new) = {}
      BY <1>8, <1>13, <2>3
    <3> QED BY <1>9, <1>12, <1>13, <1>14, <1>15, <1>16, <1>20, <2>2, <3>1, <3>2 DEF TState, WayFree
  <2>4. CASE Free(c, stk) /\ c = n
    <3>1. ~JSNewerThan(stk, c)
      <4>1. n .. n - 1 = {}
        BY <1>1
      <4> QED BY <2>4, <4>1 DEF JSNewerThan
    <3>2. Forgotten(stk, t)
      BY <1>2, <2>4, <3>1 DEF Forgotten
    <3>3. Awaiting(new) = {}
      BY <1>8, <1>13, <2>4
    <3> QED BY <1>17, <3>2, <3>3
  <2>5. CASE Free(c, stk) /\ c # n
    <3>1. c \in 1 .. n - 2 /\ c \in 1 .. n - 1 /\ c + 1 \in 1 .. n /\ c # n - 1
      <4>1. c # n - 1
        BY <1>5, <2>1, <2>5 DEF IsNewest, TryCatches
      <4>2. c \in 1 .. n
        BY <1>5, <2>5
      <4> QED BY <1>1, <2>5, <4>1, <4>2
    <3>2. JSNewerThan(stk, c)
      <4>1. n - 2 \in c .. n - 1
        BY <1>1, <3>1
      <4> QED BY <2>1, <4>1 DEF JSNewerThan
    <3>3. IsExternallyCaught(stk, t) /\ ~Forgotten(stk, t)
      BY <1>2, <2>1, <2>5, <3>2 DEF Forgotten
    <3>4. Awaiting(new) = {c}
      <4>1. stk[c].js \/ (stk[c].fn \in Runners /\ stk[c].step = 1)
        BY <1>5, <2>5, <3>1, CatcherAwaits
      <4>2. c \in Awaiting(p)
        BY <1>5, <1>7, <1>8, <1>16, <2>5, <4>1 DEF Awaiting, Awaits
      <4> QED BY <1>8, <1>13, <2>5, <3>1, <4>2
    <3>5. Free(c, new)
      BY <1>13, <2>5, <3>1
    <3>6. v.scheduled = e
      BY <1>15, <3>3
    <3> QED BY <1>9, <1>12, <1>13, <1>14, <1>16, <1>20, <2>2, <3>4, <3>5, <3>6 DEF TState, WayFree
  <2> QED BY <2>3, <2>4, <2>5
<1>21. stk[n - 1].fn \in DOMAIN Steps
  BY <1>1 DEF FrameOK, Frame
<1> QED BY <1>18, <1>19, <1>20, <1>21, StepsOf

(* A frame with a handler of JavaScript is not newer than a TryCatch that    *)
(* awaits its exception.                                                    *)
LEMMA HandlerIsCalm ==
  ASSUME NEW stk, StackOK(stk), WayFree(stk), Len(stk) # 0, LastOf(stk).handler # "none"
  PROVE  Awaiting(stk) = {}
<1> SUFFICES ASSUME NEW i \in Awaiting(stk) PROVE FALSE
  OBVIOUS
<1>1. Len(stk) \in Nat /\ Len(stk) \in 1 .. Len(stk) /\ LastOf(stk) = stk[Len(stk)]
  BY DEF StackOK, LastOf
<1>2. i \in 1 .. Len(stk) /\ Len(stk) < i
  BY <1>1 DEF WayFree, Free, Awaiting
<1> QED BY <1>1, <1>2

(* The newest JavaScript changes its try statement.                         *)
LEMMA HandlerTame ==
  ASSUME NEW stk, StackOK(stk), NEW t, Calm(stk, t), Len(stk) # 0, LastOf(stk).js,
         NEW h \in {"none", "catch", "finally"}, NEW c \in {NoException, LastOf(stk).inst},
         NEW g, g = [LastOf(stk) EXCEPT !.handler = h, !.carried = c]
  PROVE  Calm(Replaced(stk, Len(stk), g), t)
<1> DEFINE n == Len(stk)
<1>1. /\ n \in 1 .. n /\ LastOf(stk) = stk[n] /\ stk[n] \in Frame /\ stk \in Seq(Frame)
      /\ DOMAIN stk = 1 .. n
  BY TopIsJS, FramesOf DEF StackOK
<1>2. PICK f : f = stk[n]
  OBVIOUS
<1>3. /\ g.fn = f.fn /\ g.inst = f.inst /\ g.tc = f.tc /\ g.js = f.js /\ g.caught = f.caught
      /\ g.step = f.step /\ g.carried = c
  BY <1>1, <1>2 DEF Frame
<1>4. Own(f) /\ OwnOK(stk) /\ Awaiting(stk) = {}
  BY <1>1, <1>2 DEF Calm, OwnOK
<1>5. Own(g) /\ ~Awaits(g)
  <2>1. ~Awaits(f)
    BY <1>1, <1>2, <1>4 DEF Awaiting
  <2> QED BY <1>1, <1>2, <1>3, <1>4, <2>1 DEF Own, Awaits
<1>6. PICK new : new = Replaced(stk, n, g)
  OBVIOUS
<1>7. Len(new) = n /\ new[n] = g /\ \A j \in 1 .. n : j # n => new[j] = stk[j]
  BY <1>1, <1>6 DEF Replaced
<1>8. OwnOK(new) /\ Awaiting(new) = {}
  <2>1. /\ g.fn = LastOf(stk).fn /\ g.inst = LastOf(stk).inst
        /\ g.tc = LastOf(stk).tc /\ g.js = LastOf(stk).js
    BY <1>1, <1>2, <1>3
  <2>2. /\ OwnOK(new)
        /\ Awaiting(new) = (Awaiting(stk) \ {n}) \cup (IF Awaits(g) THEN {n} ELSE {})
    BY <1>4, <1>5, <1>7, <2>1, ReplaceOwn
  <2> QED BY <1>4, <1>5, <2>2
<1> QED BY <1>6, <1>8 DEF Calm

LEMMA RaiseTame ==
  ASSUME NEW stk, NEW t, NEW refs, Inv(stk, t, refs), Len(stk) # 0, LastOf(stk).js,
         OwnOK(stk), WayFree(stk), t.scheduled = NoException,
         t.external => Awaiting(stk) # {},
         NEW e \in Origin, e = LastOf(stk).inst, Raise(stk, t, refs, e)
  PROVE  TState(stack', top')
<1> DEFINE n == Len(stk)
<1>1. StackOK(stk) /\ Reported(stk) /\ n <= MaxFrames /\ t \in TopType
      /\ t.depth = Cardinality(JSFrames(stk))
  BY DEF Inv
<1>2. n \in Nat \ {0} /\ LastOf(stk) = stk[n] /\ stk[n] \in Frame /\ FrameOK(stk[n]) /\ n \in 1 .. n
  BY <1>1, TopIsJS
<1>3. PICK thrown : thrown = [t EXCEPT !.catcher = CatcherOf(stk)]
  OBVIOUS
<1>4. /\ thrown \in TopType /\ thrown.catcher = CatcherOf(stk) /\ thrown.depth = t.depth
      /\ thrown.scheduled = NoException /\ thrown.external = t.external
  <2>1. CatcherOf(stk) \in 0 .. n
    BY <1>1, CatcherFact
  <2>2. CatcherOf(stk) \in 0 .. MaxFrames
    BY <1>1, <1>2, <2>1, BoundAssumption
  <2> QED BY <1>1, <1>3, <2>2 DEF TopType
<1>5. ASSUME stk[n].handler # "none" PROVE Calm(stk, thrown)
  <2>1. Awaiting(stk) = {}
    BY <1>1, <1>2, <1>5, HandlerIsCalm
  <2> QED BY <1>4, <2>1 DEF Calm
<1>6. CASE stk[n].handler = "catch"
  <2>1. PICK c : c = stk[n].carried
    OBVIOUS
  <2>2. c \in {NoException, LastOf(stk).inst}
    BY <1>2, <2>1 DEF OwnOK, Own
  <2>3. PICK g : g = [LastOf(stk) EXCEPT !.handler = "none", !.carried = c]
    OBVIOUS
  <2>4. g = [stk[n] EXCEPT !.handler = "none"]
    BY <1>2, <2>1, <2>3 DEF Frame
  <2>5. stack' = Replaced(stk, n, g) /\ top' = thrown
    BY <1>3, <1>6, <2>4 DEF Raise, Replaced
  <2>6. Calm(Replaced(stk, n, g), thrown)
    BY <1>1, <1>5, <1>6, <2>2, <2>3, HandlerTame
  <2> QED BY <2>5, <2>6, CalmIs
<1>7. CASE stk[n].handler = "finally"
  <2>1. PICK g : g = [LastOf(stk) EXCEPT !.handler = "none", !.carried = e]
    OBVIOUS
  <2>2. stack' = Replaced(stk, n, g) /\ top' = thrown
    BY <1>2, <1>3, <1>7, <2>1 DEF Raise, Replaced
  <2>3. Calm(Replaced(stk, n, g), thrown)
    BY <1>1, <1>5, <1>7, <2>1, HandlerTame
  <2> QED BY <2>2, <2>3, CalmIs
<1>8. CASE stk[n].handler = "none"
  <2>1. PICK p : p = Propagated(stk, thrown, e)
    OBVIOUS
  <2>2. PICK u : u = Rescheduled(stk, thrown, e)
    OBVIOUS
  <2>3. LeaveJS(p, u, refs, FALSE)
    BY <1>3, <1>8, <2>1, <2>2 DEF Raise
  <2>4. TState(Resumed(Below(p), FALSE), Unregistered(u, LastOf(p)))
    BY <1>1, <1>2, <1>4, <1>8, <2>1, <2>2, LeaveTame
  <2> QED BY <2>3, <2>4 DEF LeaveJS
<1>9. stk[n].handler \in {"none", "catch", "finally"}
  BY <1>2 DEF Frame
<1> QED BY <1>6, <1>7, <1>8, <1>9

----------------------------------------------------------------------------
(* The actions.                                                             *)

(* No frame but a callback has an exception waiting.                        *)
LEMMA OthersAreCalm ==
  ASSUME IInv, TInv, stack = <<>> \/ TopFrame.fn \notin Callbacks
  PROVE  Calm(stack, top)
<1>1. stack = <<>> <=> Len(stack) = 0
  BY NotEmpty
<1> QED BY <1>1, CalmIs DEF TInv, TState, TopFrame

LEMMA JSIsCalm ==
  ASSUME IInv, TInv, InJS
  PROVE  /\ Calm(stack, top) /\ StackOK(stack) /\ Len(stack) # 0 /\ LastOf(stack).js
         /\ TopFrame = LastOf(stack) /\ TopFrame \in Frame /\ Own(TopFrame)
<1>1. Len(stack) # 0 /\ LastOf(stack).js /\ TopFrame = LastOf(stack)
  BY NotEmpty DEF InJS, TopFrame
<1>2. StackOK(stack)
  BY DEF IInv, Inv
<1>3. TopFrame.fn \notin Callbacks
  BY <1>1, <1>2, TopIsJS
<1>4. TopFrame \in Frame /\ TopFrame = stack[Len(stack)] /\ Len(stack) \in 1 .. Len(stack)
  BY <1>1, StackFacts
<1> QED BY <1>1, <1>2, <1>3, <1>4, OthersAreCalm DEF TInv, TState, OwnOK

(* A frame is pushed.                                                       *)
LEMMA PushTame ==
  ASSUME NEW stk, StackOK(stk), NEW t, Calm(stk, t), NEW f, Fits(f, stk), f.caught = NoException,
         Own(f), Len(stk) # 0 => Inherits(LastOf(stk), f)
  PROVE  Calm(Pushed(stk, f), t)
<1>1. PICK new : new = Pushed(stk, f)
  OBVIOUS
<1>2. /\ StackOK(new) /\ Len(new) = Len(stk) + 1 /\ new[Len(stk) + 1] = f
      /\ \A j \in 1 .. Len(stk) : new[j] = stk[j]
  BY <1>1, Push
<1>3. OwnOK(new) /\ Awaiting(new) = Awaiting(stk)
  BY <1>2, PushOwn DEF Calm
<1> QED BY <1>1, <1>3 DEF Calm

LEMMA EnteredCalm ==
  ASSUME NEW stk, NEW t \in TopType, Calm(stk, t)
  PROVE  Calm(stk, Entered(t))
<1>1. Entered(t).scheduled = t.scheduled /\ Entered(t).external = t.external
  BY DEF Entered, TopType
<1> QED BY <1>1 DEF Calm

LEMMA NewOwn ==
  ASSUME NEW i, NEW tc, NEW fn
  PROVE  /\ BridgeFrame(fn, i, tc).caught = NoException /\ Own(BridgeFrame(fn, i, tc))
         /\ BridgeFrame(fn, i, tc).inst = i
         /\ JSFrame(i, tc).caught = NoException /\ Own(JSFrame(i, tc))
         /\ JSFrame(i, tc).inst = i
<1>1. /\ BridgeFrame(fn, i, tc).caught = NoException /\ BridgeFrame(fn, i, tc).carried = NoException
      /\ BridgeFrame(fn, i, tc).inst = i
  BY DEF BridgeFrame
<1>2. PICK b : b = BridgeFrame("js", i, tc)
  OBVIOUS
<1>3. /\ [b EXCEPT !.js = TRUE].caught = NoException /\ [b EXCEPT !.js = TRUE].carried = NoException
      /\ [b EXCEPT !.js = TRUE].inst = i
  BY <1>2 DEF BridgeFrame
<1>4. JSFrame(i, tc) = [b EXCEPT !.js = TRUE]
  BY <1>2 DEF JSFrame
<1> QED BY <1>1, <1>3, <1>4 DEF Own

LEMMA BridgeFrameOwn ==
  ASSUME NEW fn, NEW i, NEW tc, NEW f, f = BridgeFrame(fn, i, tc)
  PROVE  f.caught = NoException /\ Own(f) /\ f.inst = i
<1>1. f.caught = NoException /\ f.carried = NoException /\ f.inst = i
  BY DEF BridgeFrame
<1> QED BY <1>1 DEF Own

(* A call of the bridge from Java, and of JavaScript from the bridge.       *)
LEMMA EnterTame ==
  ASSUME NEW stk, StackOK(stk), NEW t \in TopType, Calm(stk, t),
         NEW fn \in Runners \cup {"setJSFVersion"}, NEW i \in Origin, NEW tc \in BOOLEAN, fn \in Runners <=> tc,
         Len(stk) # 0 => fn = "execJS" /\ ~LastOf(stk).js,
         NEW f, f = BridgeFrame(fn, i, tc), NEW g, g = JSFrame(i, FALSE)
  PROVE  Calm(Pushed(Pushed(stk, f), g), Entered(t))
<1>1. /\ FrameOK(f) /\ f.fn = fn /\ f.step = 1 /\ ~f.js /\ FrameOK(g) /\ g.js /\ ~g.tc
      /\ g.fn = "js"
  <2>1. fn \in DOMAIN Steps
    BY StepsOf
  <2> QED BY <2>1, NewFrames
<1>2. /\ f.caught = NoException /\ Own(f) /\ f.inst = i
      /\ g.caught = NoException /\ Own(g) /\ g.inst = i
  <2>1. PICK b : b = BridgeFrame(fn, i, tc)
    OBVIOUS
  <2>2. PICK c : c = JSFrame(i, FALSE)
    OBVIOUS
  <2>3. b.caught = NoException /\ Own(b) /\ b.inst = i
    BY <2>1, BridgeFrameOwn
  <2>4. c.caught = NoException /\ Own(c) /\ c.inst = i
    BY <2>2, NewOwn, Zenon
  <2> QED BY <2>1, <2>2, <2>3, <2>4
<1>3. fn \notin Callbacks /\ "js" \notin Callbacks
  BY DEF Callbacks, Runners
<1>4. Fits(f, stk)
  BY <1>1, <1>3 DEF Fits, Over, Bottom, Runners
<1>5. Len(stk) # 0 => Inherits(LastOf(stk), f)
  BY <1>1 DEF Inherits
<1>6. PICK one : one = Pushed(stk, f)
  OBVIOUS
<1>7. Calm(one, t)
  BY <1>1, <1>2, <1>4, <1>5, <1>6, PushTame
<1>8. StackOK(one) /\ LastOf(one) = f /\ Len(one) # 0
  <2>1. StackOK(one) /\ Len(one) = Len(stk) + 1 /\ one[Len(stk) + 1] = f
    BY <1>4, <1>6, Push
  <2>2. Len(stk) \in Nat
    BY DEF StackOK
  <2> QED BY <2>1, <2>2 DEF LastOf
<1>9. Steps[f.fn][f.step] \in {"run", "version"}
  BY <1>1, StepsOf DEF Runners
<1>10. Fits(g, one)
  BY <1>1, <1>3, <1>8, <1>9 DEF Fits, Over
<1>11. Inherits(f, g)
  BY <1>1, <1>2, <1>9 DEF Inherits
<1>12. Calm(Pushed(one, g), t)
  BY <1>2, <1>7, <1>8, <1>10, <1>11, PushTame
<1> QED BY <1>6, <1>12, EnteredCalm

(* initFramework, twice, on an empty stack.                                 *)
LEMMA FrameworkTame ==
  ASSUME NEW t \in TopType, t.scheduled = NoException, ~t.external,
         NEW fn \in {"runScript", "setJSFVersion"}, NEW tc \in BOOLEAN, fn \in Runners <=> tc
  PROVE  Calm(<<BridgeFrame(fn, Framework, tc), JSFrame(Framework, FALSE)>>, Entered(t))
<1>1. Framework \in Origin /\ tc \in BOOLEAN /\ fn \in Runners \cup {"setJSFVersion"}
  BY DEF Origin, Runners
<1>2. PICK f : f = BridgeFrame(fn, Framework, tc)
  OBVIOUS
<1>3. PICK g : g = JSFrame(Framework, FALSE)
  OBVIOUS
<1>4. f \in Frame /\ g \in Frame
  <2>1. fn \in DOMAIN Steps
    BY <1>1, StepsOf
  <2> QED BY <1>1, <1>2, <1>3, <2>1, NewFrames DEF FrameOK
<1>5. PICK e : e = <<>>
  OBVIOUS
<1>6. Len(e) = 0 /\ StackOK(e) /\ Calm(e, t)
  <2>1. Len(e) = 0 /\ e \in Seq(Frame)
    BY <1>5
  <2> QED BY <2>1 DEF StackOK, Calm, OwnOK, Awaiting
<1>7. Calm(Pushed(Pushed(e, f), g), Entered(t))
  BY <1>1, <1>2, <1>3, <1>6, EnterTame
<1> QED BY <1>2, <1>3, <1>4, <1>5, <1>7, TwoFrames

LEMMA InitFrameworkTame ==
  ASSUME IInv, TInv, InitFramework
  PROVE  TState(stack', top') /\ ~top.external
<1>1. stack = <<>> /\ top \in TopType
  BY DEF InitFramework, IInv, Inv
<1>2. top.scheduled = NoException /\ ~top.external
  BY <1>1, OthersAreCalm DEF Calm
<1>3. Calm(<<BridgeFrame("runScript", Framework, TRUE), JSFrame(Framework, FALSE)>>, Entered(top))
  BY <1>1, <1>2, FrameworkTame DEF Runners
<1> QED BY <1>2, <1>3, CalmIs DEF InitFramework

LEMMA ExecJSTame ==
  ASSUME Tame, IInv, TInv, NEW i \in Instance, ExecJS(i)
  PROVE  TState(stack', top') /\ ~top.external
<1>1. /\ StackOK(stack) /\ top \in TopType /\ i \in Origin
      /\ stack = <<>> <=> Len(stack) = 0
  BY NotEmpty DEF IInv, Inv, Origin
<1>2. Calm(stack, top) /\ (Len(stack) # 0 => ~LastOf(stack).js)
  <2>1. CASE stack = <<>>
    BY <1>1, <2>1, OthersAreCalm
  <2>2. CASE stack # <<>>
    BY <2>2, CalmIs DEF ExecJS, MayEnterV8, InBridge, TopFrame, TInv
  <2> QED BY <2>1, <2>2
<1>3. PICK f : f = BridgeFrame("execJS", i, TRUE)
  OBVIOUS
<1>4. PICK g : g = JSFrame(i, FALSE)
  OBVIOUS
<1>5. Calm(Pushed(Pushed(stack, f), g), Entered(top))
  BY <1>1, <1>2, <1>3, <1>4, EnterTame DEF Runners
<1>6. stack' = Pushed(Pushed(stack, f), g)
  <2>1. stack' = stack \o <<f, g>>
    BY <1>3, <1>4 DEF ExecJS
  <2>2. stack \in Seq(Frame)
    BY <1>1 DEF StackOK
  <2>3. f \in Frame /\ g \in Frame
    BY <1>1, <1>3, <1>4, NewFrames, StepsOf DEF FrameOK, Runners
  <2> QED BY <2>1, <2>2, <2>3 DEF Pushed
<1> QED BY <1>2, <1>5, <1>6, CalmIs DEF ExecJS, Calm

LEMMA SetJSFVersionTame ==
  ASSUME IInv, TInv, SetJSFVersion
  PROVE  TState(stack', top') /\ ~top.external
<1>1. TopFrame.fn \notin Callbacks /\ top \in TopType
  BY DEF SetJSFVersion, Callbacks, IInv, Inv
<1>2. top.scheduled = NoException /\ ~top.external
  BY <1>1, OthersAreCalm DEF Calm
<1>3. PICK t : t = Unregistered(top, TopFrame)
  OBVIOUS
<1>4. t \in TopType /\ t.scheduled = NoException /\ ~t.external
  BY <1>1, <1>2, <1>3, BoundAssumption DEF Unregistered, TopType
<1>5. Calm(<<BridgeFrame("setJSFVersion", Framework, FALSE), JSFrame(Framework, FALSE)>>, Entered(t))
  <2>1. "setJSFVersion" \notin Runners
    BY DEF Runners
  <2> QED BY <1>4, <2>1, FrameworkTame
<1> QED BY <1>2, <1>3, <1>5, CalmIs DEF SetJSFVersion

----------------------------------------------------------------------------
(* JavaScript.                                                              *)

LEMMA EnterTryTame ==
  ASSUME IInv, TInv, NEW kind \in {"catch", "finally"}, JSEnterTry(kind)
  PROVE  TState(stack', top')
<1>1. InJS /\ TopFrame.carried = NoException /\ top' = top
  BY DEF JSEnterTry
<1>2. /\ Calm(stack, top) /\ StackOK(stack) /\ Len(stack) # 0 /\ LastOf(stack).js
      /\ TopFrame = LastOf(stack) /\ TopFrame \in Frame
  BY <1>1, JSIsCalm
<1>3. PICK g : g = [LastOf(stack) EXCEPT !.handler = kind, !.carried = NoException]
  OBVIOUS
<1>4. g = [stack[Len(stack)] EXCEPT !.handler = kind]
  BY <1>1, <1>2, <1>3 DEF Frame, LastOf
<1>5. stack' = Replaced(stack, Len(stack), g)
  BY <1>4 DEF JSEnterTry, Replaced
<1>6. Calm(Replaced(stack, Len(stack), g), top)
  BY <1>2, <1>3, HandlerTame
<1> QED BY <1>1, <1>5, <1>6, CalmIs

LEMMA LeaveTryTame ==
  ASSUME IInv, TInv, JSLeaveTry
  PROVE  TState(stack', top')
<1>1. InJS /\ top' = top
  BY DEF JSLeaveTry
<1>2. /\ Calm(stack, top) /\ StackOK(stack) /\ Len(stack) # 0 /\ LastOf(stack).js
      /\ TopFrame = LastOf(stack) /\ TopFrame \in Frame /\ Own(TopFrame)
  BY <1>1, JSIsCalm
<1>3. PICK c : c = LastOf(stack).carried
  OBVIOUS
<1>4. c \in {NoException, LastOf(stack).inst}
  BY <1>2, <1>3 DEF Own
<1>5. PICK g : g = [LastOf(stack) EXCEPT !.handler = "none", !.carried = c]
  OBVIOUS
<1>6. g = [stack[Len(stack)] EXCEPT !.handler = "none"]
  BY <1>2, <1>3, <1>5 DEF Frame, LastOf
<1>7. stack' = Replaced(stack, Len(stack), g)
  BY <1>6 DEF JSLeaveTry, Replaced
<1>8. Calm(Replaced(stack, Len(stack), g), top)
  BY <1>2, <1>4, <1>5, HandlerTame
<1> QED BY <1>1, <1>7, <1>8, CalmIs

(* The end of a finally block takes the exception it carries.               *)
LEMMA DroppedTame ==
  ASSUME IInv, TInv, InJS, TopFrame.carried # NoException,
         NEW rest, rest = [stack EXCEPT ![Len(stack)].carried = NoException]
  PROVE  /\ Calm(rest, top) /\ Inv(rest, top, locals) /\ Len(rest) # 0
         /\ LastOf(rest).js /\ LastOf(rest).inst = TopFrame.carried
<1>1. /\ Calm(stack, top) /\ StackOK(stack) /\ Len(stack) # 0 /\ LastOf(stack).js
      /\ TopFrame = LastOf(stack) /\ TopFrame \in Frame /\ Own(TopFrame)
  BY JSIsCalm
<1>2. PICK h : h = LastOf(stack).handler
  OBVIOUS
<1>3. h \in {"none", "catch", "finally"}
  BY <1>1, <1>2 DEF Frame
<1>4. PICK g : g = [LastOf(stack) EXCEPT !.handler = h, !.carried = NoException]
  OBVIOUS
<1>5. g = [stack[Len(stack)] EXCEPT !.carried = NoException] /\ g.js /\ g.inst = TopFrame.inst
  BY <1>1, <1>2, <1>4 DEF Frame, LastOf
<1>6. rest = Replaced(stack, Len(stack), g)
  BY <1>5 DEF Replaced
<1>7. Calm(Replaced(stack, Len(stack), g), top)
  BY <1>1, <1>3, <1>4, HandlerTame
<1>8. Inv(Replaced(stack, Len(stack), g), top, locals)
  BY <1>1, <1>3, <1>4, TryInv
<1>9. Len(rest) = Len(stack) /\ rest[Len(stack)] = g
  <2>1. Len(stack) \in DOMAIN stack /\ stack \in Seq(Frame)
    BY <1>1, StackFacts DEF StackOK
  <2> QED BY <1>6, <2>1 DEF Replaced
<1>10. TopFrame.carried = TopFrame.inst
  BY <1>1 DEF Own
<1> QED BY <1>1, <1>5, <1>6, <1>7, <1>8, <1>9, <1>10 DEF LastOf

LEMMA ThrowTame ==
  ASSUME IInv, TInv, JSThrow
  PROVE  TState(stack', top')
<1>1. InJS /\ Raise(stack, top, locals, TopFrame.inst)
  BY DEF JSThrow
<1>2. /\ Calm(stack, top) /\ StackOK(stack) /\ Len(stack) # 0 /\ LastOf(stack).js
      /\ TopFrame = LastOf(stack) /\ TopFrame \in Frame
  BY <1>1, JSIsCalm
<1>3. TopFrame.inst \in Origin /\ Inv(stack, top, locals)
  BY <1>2 DEF Frame, IInv
<1>4. OwnOK(stack) /\ WayFree(stack) /\ top.scheduled = NoException /\ ~top.external
  BY <1>2 DEF Calm, WayFree
<1>5. PICK e : e = TopFrame.inst
  OBVIOUS
<1>6. e \in Origin /\ e = LastOf(stack).inst /\ Raise(stack, top, locals, e)
  BY <1>1, <1>2, <1>3, <1>5
<1> QED BY <1>2, <1>3, <1>4, <1>6, RaiseTame

LEMMA RethrowTame ==
  ASSUME IInv, TInv, JSRethrow
  PROVE  TState(stack', top')
<1>1. InJS /\ TopFrame.carried # NoException
  BY DEF JSRethrow
<1>2. PICK rest : rest = [stack EXCEPT ![Len(stack)].carried = NoException]
  OBVIOUS
<1>3. PICK e : e = TopFrame.carried
  OBVIOUS
<1>4. Raise(rest, top, locals, e)
  BY <1>2, <1>3 DEF JSRethrow
<1>5. /\ Calm(rest, top) /\ Inv(rest, top, locals) /\ Len(rest) # 0
      /\ LastOf(rest).js /\ LastOf(rest).inst = e
  BY <1>1, <1>2, <1>3, DroppedTame
<1>6. e \in Origin
  <2>1. TopFrame \in Frame
    BY <1>1, JSIsCalm
  <2> QED BY <1>1, <1>3, <2>1 DEF Frame
<1>7. OwnOK(rest) /\ WayFree(rest) /\ top.scheduled = NoException /\ ~top.external
  BY <1>5 DEF Calm, WayFree
<1> QED BY <1>4, <1>5, <1>6, <1>7, RaiseTame

LEMMA DropTame ==
  ASSUME IInv, TInv, JSDrop
  PROVE  TState(stack', top')
<1>1. PICK rest : rest = [stack EXCEPT ![Len(stack)].carried = NoException]
  OBVIOUS
<1>2. InJS /\ TopFrame.carried # NoException /\ stack' = rest /\ top' = top
  BY <1>1 DEF JSDrop
<1>3. Calm(rest, top)
  BY <1>1, <1>2, DroppedTame
<1> QED BY <1>2, <1>3, CalmIs

LEMMA CallTame ==
  ASSUME IInv, TInv, NEW fn \in Callback, JSCall(fn)
  PROVE  TState(stack', top')
<1>1. InJS /\ top' = top
  BY DEF JSCall
<1>2. /\ Calm(stack, top) /\ StackOK(stack) /\ Len(stack) # 0 /\ LastOf(stack).js
      /\ TopFrame = LastOf(stack) /\ TopFrame \in Frame
  BY <1>1, JSIsCalm
<1>3. PICK f : f = BridgeFrame(fn, TopFrame.inst, FALSE)
  OBVIOUS
<1>4. TopFrame.inst \in Origin /\ fn \in Callbacks /\ fn \in DOMAIN Steps /\ fn \notin Runners
      /\ fn \notin {"runScript", "setJSFVersion"}
  BY <1>2, CallbackAssumption, StepsOf DEF Callbacks, Runners, Frame
<1>5. FrameOK(f) /\ f.fn = fn /\ f.step = 1 /\ ~f.js
  BY <1>3, <1>4, NewFrames
<1>6. f.caught = NoException /\ Own(f) /\ f.inst = LastOf(stack).inst
  <2>1. f.caught = NoException /\ Own(f) /\ f.inst = TopFrame.inst
    <3>1. PICK i : i = TopFrame.inst
      OBVIOUS
    <3>2. PICK tc : tc = FALSE
      OBVIOUS
    <3>4. f = BridgeFrame(fn, i, tc)
      BY <1>3, <3>1, <3>2
    <3>3. f.caught = NoException /\ Own(f) /\ f.inst = i
      BY <3>4, BridgeFrameOwn
    <3> QED BY <3>1, <3>3
  <2> QED BY <1>2, <2>1
<1>7. Fits(f, stack) /\ Inherits(LastOf(stack), f)
  BY <1>2, <1>4, <1>5, <1>6 DEF Fits, Over, Inherits
<1>8. Calm(Pushed(stack, f), top)
  BY <1>2, <1>6, <1>7, PushTame
<1>9. stack' = Pushed(stack, f)
  BY <1>3 DEF JSCall, Pushed
<1> QED BY <1>1, <1>8, <1>9, CalmIs

LEMMA UnregisteredSame ==
  ASSUME NEW t \in TopType, NEW f, NEW u, u = Unregistered(t, f)
  PROVE  u.scheduled = t.scheduled /\ u.external = t.external /\ u.depth = t.depth
BY DEF Unregistered, TopType

LEMMA ReturnTame ==
  ASSUME IInv, TInv, JSReturn
  PROVE  TState(stack', top')
<1>1. InJS /\ top \in TopType
  BY DEF JSReturn, IInv, Inv
<1>2. Calm(stack, top) /\ StackOK(stack) /\ Len(stack) # 0 /\ LastOf(stack).js
  BY <1>1, JSIsCalm
<1>3. PICK t : t = [top EXCEPT !.depth = @ - 1]
  OBVIOUS
<1>4. PICK b : b = Below(stack)
  OBVIOUS
<1>5. stack' = Resumed(b, TRUE) /\ top' = Unregistered(t, LastOf(stack))
  BY <1>3, <1>4 DEF JSReturn, LeaveJS
<1>6. /\ StackOK(b) /\ Len(b) = Len(stack) - 1 /\ OwnOK(b) /\ Awaiting(b) = {}
      /\ \A j \in 1 .. Len(stack) - 1 : b[j] = stack[j]
  BY <1>2, <1>4, Pop, PopOwn DEF Calm
<1>7. /\ Len(stack) \in Nat /\ Len(stack) >= 2
      /\ Over(stack[Len(stack) - 1], stack[Len(stack)])
  BY <1>2, TopFrameIsOverBridge
<1>8. Len(b) # 0 /\ LastOf(b) = stack[Len(stack) - 1] /\ Len(b) \in 1 .. Len(b)
  <2>1. Len(stack) - 1 # 0 /\ Len(stack) - 1 \in 1 .. Len(stack) - 1
    BY <1>7
  <2> QED BY <1>6, <2>1 DEF LastOf
<1>9. ~LastOf(b).js /\ Steps[LastOf(b).fn][LastOf(b).step] \notin {"java", "true"}
  BY <1>2, <1>7, <1>8 DEF Over, LastOf
<1>10. LastOf(b).fn \in Runners /\ LastOf(b).step = 1 => LastOf(b).caught = NoException
  BY <1>6, <1>8 DEF Awaiting, Awaits, LastOf
<1>11. PICK new : new = Resumed(b, TRUE)
  OBVIOUS
<1>12. OwnOK(new) /\ Awaiting(new) = {}
  BY <1>6, <1>8, <1>9, <1>10, <1>11, ResumedOwn
<1>13. top'.scheduled = NoException /\ ~top'.external
  BY <1>1, <1>2, <1>3, <1>5 DEF Calm, TopType, Unregistered
<1>14. Calm(stack', top')
  BY <1>5, <1>11, <1>12, <1>13 DEF Calm
<1> QED BY <1>14, CalmIs

----------------------------------------------------------------------------
(* Conversions.                                                             *)

LEMMA ConvertTame ==
  ASSUME IInv, TInv, InBridge, At \notin {"java", "true", "run"},
         NEW t, t.scheduled = top.scheduled, t.external = top.external
  PROVE  TState(Resumed(stack, TRUE), t)
<1>1. StackOK(stack) /\ Len(stack) # 0 /\ Len(stack) \in 1 .. Len(stack)
  BY NotEmpty, StackFacts DEF IInv, Inv
<1>2. ~LastOf(stack).js /\ Steps[LastOf(stack).fn][LastOf(stack).step] \notin {"java", "true", "run"}
  BY DEF InBridge, At, TopFrame
<1>3. ~(LastOf(stack).fn \in Runners /\ LastOf(stack).step = 1)
  <2>1. Steps.execJS[1] = "run" /\ Steps.runScript[1] = "run"
    BY StepsOf
  <2> QED BY <1>2, <2>1 DEF Runners
<1>4. PICK new : new = Resumed(stack, TRUE)
  OBVIOUS
<1>5. OwnOK(stack) /\ WayFree(stack)
  BY DEF TInv, TState
<1>6. /\ OwnOK(new) /\ Awaiting(new) = Awaiting(stack) \ {Len(stack)}
      /\ Len(new) = Len(stack)
      /\ LastOf(new).fn = LastOf(stack).fn /\ LastOf(new).inst = LastOf(stack).inst
      /\ \A i \in 1 .. Len(stack) : Free(i, stack) => Free(i, new)
  <2>1. Steps[LastOf(stack).fn][LastOf(stack).step] \notin {"java", "true"}
    BY <1>2
  <2> QED BY <1>1, <1>2, <1>3, <1>4, <1>5, <2>1, ResumedOwn
<1>7. Awaiting(new) = Awaiting(stack)
  <2>1. Len(stack) \notin Awaiting(stack)
    BY <1>2, <1>3 DEF Awaiting, Awaits, LastOf
  <2> QED BY <1>6, <2>1
<1>8. WayFree(new)
  BY <1>5, <1>6, <1>7 DEF WayFree, Awaiting
<1>9. TState(new, t)
  <2>1. /\ t.scheduled # NoException =>
             LastOf(stack).fn \in Callbacks /\ LastOf(stack).inst = t.scheduled
        /\ t.scheduled = NoException => Awaiting(stack) = {}
        /\ t.external => Awaiting(stack) # {}
    BY DEF TInv, TState
  <2> QED BY <1>1, <1>6, <1>7, <1>8, <2>1 DEF TState
<1> QED BY <1>4, <1>9

LEMMA ConvertNonStringTame ==
  ASSUME Tame, IInv, TInv, ConvertNonString
  PROVE  TState(stack', top') /\ ~top.external
<1>1. /\ InBridge /\ At \in {"utf8", "task", "dom", "tostr", "report"}
      /\ top.scheduled = NoException /\ top' = Entered(top) /\ top \in TopType
  BY DEF ConvertNonString, MayEnterV8, IInv, Inv
<1>2. /\ Len(stack) # 0 /\ ~LastOf(stack).js /\ TopFrame.inst \in Origin
      /\ TopFrame = LastOf(stack) /\ StackOK(stack)
  BY <1>1, NotEmpty, StackFacts DEF InBridge, Frame, IInv, Inv
<1>3. Calm(stack, top)
  BY <1>1, CalmIs DEF TInv
<1>4. PICK tc \in BOOLEAN : tc <=> At \in {"utf8", "report"}
  <2>1. CASE At \in {"utf8", "report"}
    BY <2>1
  <2>2. CASE At \notin {"utf8", "report"}
    BY <2>2
  <2> QED BY <2>1, <2>2
<1>5. PICK f : f = JSFrame(TopFrame.inst, At \in {"utf8", "report"})
  OBVIOUS
<1>6. PICK i : i = TopFrame.inst
  OBVIOUS
<1>7. f = JSFrame(i, tc)
  <2>1. tc = (At \in {"utf8", "report"})
    BY <1>4
  <2> QED BY <1>5, <1>6, <2>1
<1>8. FrameOK(f) /\ f.fn = "js" /\ f.js /\ f.tc = tc
  BY <1>2, <1>6, <1>7, NewFrames
<1>9. f.caught = NoException /\ Own(f) /\ f.inst = i
  BY <1>7, NewOwn, Zenon
<1>10. ~(TopFrame.fn \in Runners /\ TopFrame.step = 1)
  <2>1. Steps.execJS[1] = "run" /\ Steps.runScript[1] = "run"
    BY StepsOf
  <2> QED BY <1>1, <2>1 DEF At, Runners
<1>11. Fits(f, stack)
  BY <1>1, <1>2, <1>8, <1>10 DEF Fits, Over, At, Callbacks
<1>12. Inherits(LastOf(stack), f)
  BY <1>2, <1>4, <1>6, <1>8, <1>9 DEF Inherits, At
<1>13. Calm(Pushed(stack, f), top)
  BY <1>2, <1>3, <1>9, <1>11, <1>12, PushTame
<1>14. Calm(Pushed(stack, f), Entered(top))
  BY <1>1, <1>13, EnteredCalm
<1>15. stack' = Pushed(stack, f)
  BY <1>5 DEF ConvertNonString, Pushed
<1> QED BY <1>1, <1>3, <1>14, <1>15, CalmIs DEF Calm

----------------------------------------------------------------------------
(* Returns.                                                                 *)

LEMMA ReturnToJavaTame ==
  ASSUME IInv, TInv, InBridge, TopFrame.fn \notin Callbacks, ReturnToJava
  PROVE  TState(stack', top')
<1>1. /\ Len(stack) # 0 /\ StackOK(stack) /\ top \in TopType
      /\ stack' = Below(stack) /\ top' = Unregistered(top, TopFrame)
  BY NotEmpty DEF IInv, Inv, ReturnToJava
<1>2. Calm(stack, top)
  BY OthersAreCalm
<1>3. OwnOK(Below(stack)) /\ Awaiting(Below(stack)) = {}
  BY <1>1, <1>2, PopOwn DEF Calm
<1>4. top'.scheduled = NoException /\ ~top'.external
  BY <1>1, <1>2, UnregisteredSame DEF Calm
<1>5. Calm(stack', top')
  BY <1>1, <1>3, <1>4 DEF Calm
<1> QED BY <1>5, CalmIs

(* A callback returns with the exception its conversion has scheduled, which *)
(* is of the instance of the JavaScript below it.                           *)
LEMMA CallbackEndsTame ==
  ASSUME IInv, TInv, NEW t, Inv(stack, t, locals), t.scheduled = top.scheduled,
         t.external = top.external, Len(stack) # 0, TopFrame.fn \in Callbacks,
         NEW refs, refs \subseteq (1 .. MaxFrames) \X (1 .. 6), CallbackEnds(t, refs)
  PROVE  TState(stack', top')
<1> DEFINE n == Len(stack)
<1>1. /\ StackOK(stack) /\ n \in Nat \ {0} /\ n \in 1 .. n /\ TopFrame = LastOf(stack)
      /\ TopFrame = stack[n] /\ FrameOK(TopFrame) /\ t \in TopType
  BY StackFacts DEF Inv
<1>2. PICK b : b = Below(stack)
  OBVIOUS
<1>3. /\ StackOK(b) /\ Len(b) = n - 1
      /\ \A j \in 1 .. n - 1 : b[j] = stack[j]
      /\ OwnOK(stack) /\ WayFree(stack) /\ OwnOK(b) /\ Awaiting(b) = Awaiting(stack) \ {n}
      /\ \A i \in 1 .. n - 1 : Free(i, stack) => Free(i, b)
  BY <1>1, <1>2, Pop, PopOwn DEF TInv, TState
<1>4. /\ Inv(b, Promoted(t), refs) /\ Len(b) # 0 /\ LastOf(b).js
  BY <1>2, CallbackPopped
<1>5. Awaiting(b) = Awaiting(stack)
  <2>1. ~TopFrame.js /\ TopFrame.fn \notin Runners
    BY <1>1 DEF FrameOK, Callbacks, Runners
  <2>2. n \notin Awaiting(stack)
    BY <1>1, <2>1 DEF Awaiting, Awaits
  <2> QED BY <1>3, <2>2
<1>6. WayFree(b)
  <2> SUFFICES ASSUME NEW i \in Awaiting(b) PROVE Free(i, b)
    BY DEF WayFree
  <2>1. i \in 1 .. n - 1 /\ Free(i, stack)
    BY <1>3, <1>5 DEF Awaiting, WayFree
  <2> QED BY <1>3, <2>1
<1>7. CASE t.scheduled = NoException
  <2>1. stack' = b /\ top' = t
    BY <1>2, <1>7 DEF CallbackEnds
  <2>2. Awaiting(stack) = {} /\ ~t.external
    BY <1>7 DEF TInv, TState
  <2>3. Calm(b, t)
    BY <1>3, <1>5, <1>7, <2>2 DEF Calm
  <2> QED BY <2>1, <2>3, CalmIs
<1>8. CASE t.scheduled # NoException
  <2>1. PICK e : e = t.scheduled
    OBVIOUS
  <2>2. PICK u : u = Promoted(t)
    OBVIOUS
  <2>3. e \in Origin /\ u.scheduled = NoException /\ u.external = t.external
    BY <1>1, <1>8, <2>1, <2>2 DEF TopType, Promoted
  <2>4. Raise(b, u, refs, e)
    BY <1>2, <1>8, <2>1, <2>2 DEF CallbackEnds, Promoted
  <2>5. e = TopFrame.inst
    BY <1>1, <1>8, <2>1 DEF TInv, TState
  <2>6. TopFrame.inst = LastOf(b).inst
    <3>1. n - 1 \in 1 .. n - 1 /\ (n - 1) + 1 = n
      BY <1>1, <1>3, <1>4
    <3>2. Inherits(stack[n - 1], stack[(n - 1) + 1])
      BY <1>3, <3>1 DEF OwnOK
    <3>3. LastOf(b) = stack[n - 1] /\ stack[(n - 1) + 1] = TopFrame
      BY <1>1, <1>3, <3>1 DEF LastOf
    <3> QED BY <3>2, <3>3 DEF Inherits, Callbacks
  <2>7. u.external => Awaiting(b) # {}
    BY <1>5, <2>3 DEF TInv, TState
  <2> QED BY <1>3, <1>4, <1>6, <2>2, <2>3, <2>4, <2>5, <2>6, <2>7, RaiseTame
<1> QED BY <1>7, <1>8

(* Throwing never enters V8.                                                *)
LEMMA RaiseDepth ==
  ASSUME NEW stk, NEW t \in TopType, NEW refs, NEW e, Raise(stk, t, refs, e)
  PROVE  ~(top'.depth > t.depth)
<1>1. t.depth \in Nat
  BY BoundAssumption DEF TopType
<1>2. PICK thrown : thrown = [t EXCEPT !.catcher = CatcherOf(stk)]
  OBVIOUS
<1>3. thrown.depth = t.depth
  BY <1>2 DEF TopType
<1>4. CASE top' = thrown
  BY <1>1, <1>3, <1>4
<1>5. CASE top' # thrown
  <2>1. PICK u : u = Rescheduled(stk, thrown, e)
    OBVIOUS
  <2>2. PICK f : top' = Unregistered(u, f)
    BY <1>2, <1>5, <2>1 DEF Raise, LeaveJS
  <2>3. u.depth = t.depth - 1
    BY <1>3, <2>1 DEF Rescheduled
  <2>4. [u EXCEPT !.catcher = 0].depth = u.depth
    BY <2>1 DEF Rescheduled
  <2>5. top'.depth = u.depth
    BY <2>2, <2>4 DEF Unregistered
  <2> QED BY <1>1, <2>3, <2>5
<1> QED BY <1>4, <1>5

LEMMA CallbackDepth ==
  ASSUME NEW t \in TopType, NEW refs, CallbackEnds(t, refs)
  PROVE  ~(top'.depth > t.depth)
<1>1. t.depth \in Nat
  BY BoundAssumption DEF TopType
<1>2. PICK u : u = Promoted(t)
  OBVIOUS
<1>3. u \in TopType /\ u.depth = t.depth
  BY <1>2 DEF Promoted, TopType
<1>4. CASE t.scheduled = NoException
  BY <1>1, <1>4 DEF CallbackEnds
<1>5. CASE t.scheduled # NoException
  <2>1. Raise(Below(stack), u, refs, t.scheduled)
    BY <1>2, <1>5 DEF CallbackEnds, Promoted
  <2> QED BY <1>3, <2>1, RaiseDepth
<1> QED BY <1>4, <1>5

LEMMA NextTame ==
  ASSUME Tame, IInv, TInv, Next
  PROVE  TState(stack', top') /\ (top'.depth > top.depth => ~top.external)
<1>0. Inv(stack, top, locals) /\ top \in TopType /\ top.depth \in Nat
  BY BoundAssumption DEF IInv, Inv, TopType
<1> DEFINE Good == TState(stack', top') /\ (top'.depth > top.depth => ~top.external)
<1>1. CASE InitFramework
  BY <1>1, InitFrameworkTame
<1>2. ASSUME NEW i \in Instance, ExecJS(i) PROVE Good
  BY <1>2, ExecJSTame
<1>3. ASSUME NEW kind \in {"catch", "finally"}, JSEnterTry(kind) PROVE Good
  <2>1. top' = top
    BY <1>3 DEF JSEnterTry
  <2> QED BY <1>0, <1>3, <2>1, EnterTryTame
<1>4. CASE JSLeaveTry
  <2>1. top' = top
    BY <1>4 DEF JSLeaveTry
  <2> QED BY <1>0, <1>4, <2>1, LeaveTryTame
<1>5. CASE JSThrow
  <2>1. ~(top'.depth > top.depth)
    BY <1>0, <1>5, RaiseDepth DEF JSThrow
  <2> QED BY <1>5, <2>1, ThrowTame
<1>6. CASE JSRethrow
  <2>1. ~(top'.depth > top.depth)
    BY <1>0, <1>6, RaiseDepth DEF JSRethrow
  <2> QED BY <1>6, <2>1, RethrowTame
<1>7. CASE JSDrop
  <2>1. top' = top
    BY <1>7 DEF JSDrop
  <2> QED BY <1>0, <1>7, <2>1, DropTame
<1>8. CASE JSReturn
  <2>1. PICK t : t = [top EXCEPT !.depth = @ - 1]
    OBVIOUS
  <2>2. PICK f : top' = Unregistered(t, f)
    BY <1>8, <2>1 DEF JSReturn, LeaveJS
  <2>3. t.depth = top.depth - 1 /\ [t EXCEPT !.catcher = 0].depth = t.depth
    BY <1>0, <2>1 DEF TopType
  <2>4. top'.depth = top.depth - 1
    BY <2>2, <2>3 DEF Unregistered
  <2> QED BY <1>0, <1>8, <2>4, ReturnTame
<1>9. ASSUME NEW fn \in Callback, JSCall(fn) PROVE Good
  <2>1. top' = top
    BY <1>9 DEF JSCall
  <2> QED BY <1>0, <1>9, <2>1, CallTame
<1>10. ASSUME InBridge, At \notin {"java", "true", "run"}, stack' = Resumed(stack, TRUE),
              top' = top \/ top' = [top EXCEPT !.catcher = 0]
       PROVE  Good
  <2>1. /\ top'.scheduled = top.scheduled /\ top'.external = top.external
        /\ top'.depth = top.depth
    BY <1>0, <1>10 DEF TopType
  <2>2. PICK t : t = top'
    OBVIOUS
  <2>3. TState(Resumed(stack, TRUE), t)
    BY <1>10, <2>1, <2>2, ConvertTame
  <2>4. stack' = Resumed(stack, TRUE)
    BY <1>10
  <2>5. TState(stack', top')
    BY <2>2, <2>3, <2>4
  <2>6. ~(top'.depth > top.depth)
    BY <1>0, <2>1
  <2> QED BY <2>5, <2>6
<1>11. CASE ConvertString
  <2>1. InBridge /\ At \notin {"java", "true", "run"}
    BY <1>11 DEF ConvertString
  <2> QED BY <1>10, <1>11, <2>1 DEF ConvertString
<1>12. CASE ConvertNothing
  <2>1. InBridge /\ At \notin {"java", "true", "run"}
    BY <1>12 DEF ConvertNothing
  <2> QED BY <1>10, <1>12, <2>1 DEF ConvertNothing
<1>13. CASE ConvertNonString
  BY <1>13, ConvertNonStringTame
<1>14. ASSUME InBridge, TopFrame.fn \in Callbacks,
              NEW t, t = top \/ t = [top EXCEPT !.catcher = 0],
              NEW refs, refs \subseteq (1 .. MaxFrames) \X (1 .. 6), CallbackEnds(t, refs)
       PROVE  Good
  <2>1. /\ t \in TopType /\ t.scheduled = top.scheduled /\ t.external = top.external
        /\ t.depth = top.depth /\ (t.catcher = top.catcher \/ t.catcher = 0)
    BY <1>0, <1>14, BoundAssumption DEF TopType
  <2>2. Inv(stack, t, locals)
    BY <1>0, <2>1 DEF Inv
  <2>3. Len(stack) # 0
    BY <1>14, NotEmpty
  <2>4. TState(stack', top')
    BY <1>14, <2>1, <2>2, <2>3, CallbackEndsTame
  <2>5. ~(top'.depth > t.depth)
    BY <1>14, <2>1, CallbackDepth
  <2> QED BY <2>1, <2>4, <2>5
<1>15. ASSUME InBridge
       PROVE  /\ RefsDeleted \subseteq (1 .. MaxFrames) \X (1 .. 6)
              /\ locals \cup {<<Len(stack), TopFrame.step>>} \subseteq (1 .. MaxFrames) \X (1 .. 6)
  <2>1. Len(stack) \in Nat \ {0} /\ TopFrame \in Frame
    BY <1>15, NotEmpty, StackFacts
  <2>2. locals \subseteq (1 .. MaxFrames) \X (1 .. 6) /\ Len(stack) <= MaxFrames
    BY <1>0 DEF Inv
  <2>3. Len(stack) \in 1 .. MaxFrames /\ TopFrame.step \in 1 .. 6
    BY <2>1, <2>2, BoundAssumption DEF Frame
  <2> QED BY <2>2, <2>3 DEF RefsDeleted
<1>16. CASE LogClassMissing
  <2>1. InBridge /\ At = "message"
    BY <1>16 DEF LogClassMissing
  <2>2. TopFrame.fn \in Callbacks
    <3>1. /\ TopFrame.fn \in DOMAIN Steps
          /\ TopFrame.step \in DOMAIN Steps[TopFrame.fn]
          /\ Steps[TopFrame.fn][TopFrame.step] = "message"
      BY <2>1, NotEmpty, StackFacts DEF FrameOK, Frame, InBridge, At
    <3> QED BY <3>1, StepsOf DEF Callbacks, Runners
  <2>3. PICK t : t = [top EXCEPT !.catcher = 0]
    OBVIOUS
  <2>4. PICK refs : refs = locals \cup {<<Len(stack), TopFrame.step>>}
    OBVIOUS
  <2>5. CallbackEnds(t, refs)
    BY <1>16, <2>3, <2>4 DEF LogClassMissing
  <2> QED BY <1>14, <1>15, <2>1, <2>2, <2>3, <2>4, <2>5
<1>17. CASE CallbackReturns
  <2>1. PICK refs : refs = RefsDeleted
    OBVIOUS
  <2>2. InBridge /\ TopFrame.fn \in Callbacks /\ CallbackEnds(top, refs)
    BY <1>17, <2>1 DEF CallbackReturns
  <2> QED BY <1>14, <1>15, <2>1, <2>2
<1>18. ASSUME InBridge, TopFrame.fn \notin Callbacks, ReturnToJava PROVE Good
  <2>1. top'.depth = top.depth
    BY <1>0, <1>18, UnregisteredSame DEF ReturnToJava
  <2> QED BY <1>0, <1>18, <2>1, ReturnToJavaTame
<1>19. CASE ReturnTrue
  <2>1. InBridge /\ TopFrame.fn \notin Callbacks /\ ReturnToJava
    BY <1>19 DEF ReturnTrue, Callbacks
  <2> QED BY <1>18, <2>1
<1>20. CASE ReturnFalse
  <2>1. InBridge /\ TopFrame.fn \notin Callbacks /\ ReturnToJava
    BY <1>20 DEF ReturnFalse, Callbacks
  <2> QED BY <1>18, <2>1
<1>21. CASE SetJSFVersion
  BY <1>21, SetJSFVersionTame
<1>22. CASE InitFrameworkReturnsTrue
  <2>1. InBridge /\ TopFrame.fn \notin Callbacks /\ ReturnToJava
    BY <1>22 DEF InitFrameworkReturnsTrue, Callbacks
  <2> QED BY <1>18, <2>1
<1> QED
  BY <1>1, <1>2, <1>3, <1>4, <1>5, <1>6, <1>7, <1>8, <1>9, <1>11, <1>12, <1>13,
     <1>16, <1>17, <1>19, <1>20, <1>21, <1>22 DEF Next

LEMMA InitTame == Init => TInv
<1> SUFFICES ASSUME Init PROVE TInv
  OBVIOUS
<1>1. Len(stack) = 0 /\ top.scheduled = NoException /\ ~top.external
  BY DEF Init
<1>2. OwnOK(stack) /\ Awaiting(stack) = {}
  BY <1>1 DEF OwnOK, Awaiting
<1> QED BY <1>1, <1>2 DEF TInv, TState, WayFree

(* In a tame program the way of an exception from the callback that has it   *)
(* scheduled to the TryCatch that has noted it is free of handlers, every    *)
(* frame on it is of the instance of the exception, and external_caught_     *)
(* is set only on it: no other call sees the exception.                     *)
THEOREM TameInductive == Tame => (Spec => []TInv)
<1> SUFFICES ASSUME Tame PROVE Spec => []TInv
  OBVIOUS
<1>1. IInv /\ TInv /\ [Next]_vars => TInv'
  <2> SUFFICES ASSUME IInv, TInv, [Next]_vars PROVE TInv'
    OBVIOUS
  <2>1. CASE Next
    BY <2>1, NextTame DEF TInv
  <2>2. CASE UNCHANGED vars
    BY <2>2 DEF vars, TInv
  <2> QED BY <2>1, <2>2
<1> QED BY InitTame, Inductive, <1>1, PTL DEF Spec

(* execJS and ExecuteJavaScript report under an instance id only what was    *)
(* thrown by a script of that instance, in a tame program.                  *)
THEOREM OwnExceptionsTame == Tame => (Spec => []OwnExceptions)
<1> SUFFICES ASSUME Tame PROVE Spec => []OwnExceptions
  OBVIOUS
<1>1. IInv /\ TInv => OwnExceptions
  BY FramesOf DEF IInv, Inv, TInv, TState, OwnOK, Own, OwnExceptions
<1> QED BY Inductive, TameInductive, <1>1, PTL

(* execJS and initFramework return true only when nothing went uncaught in   *)
(* the JavaScript of the call, in a tame program.                           *)
THEOREM TrueIsNotCaught == Tame => (Spec => []TrueMeansNotCaught)
<1> SUFFICES ASSUME Tame PROVE Spec => []TrueMeansNotCaught
  OBVIOUS
<1>1. IInv /\ TInv => TrueMeansNotCaught
  BY FramesOf
     DEF IInv, Inv, TInv, TState, OwnOK, Own, Runners, ReturnedNotCaught, TrueMeansNotCaught
<1> QED BY Inductive, TameInductive, <1>1, PTL

(* EXCEPTION_PREAMBLE's assertion holds as long as no callback enters V8     *)
(* after one of its conversions has thrown (Tame): no call of a script, of  *)
(* execJS or of an earlier conversion then starts with an exception on its  *)
(* way to an external TryCatch, however callbacks nest and catch.           *)
THEOREM EnteredIsClean == Tame => (Spec => EnteredWithoutExternal)
<1> SUFFICES ASSUME Tame PROVE Spec => EnteredWithoutExternal
  OBVIOUS
<1>1. IInv /\ TInv /\ [Next]_vars => [top'.depth > top.depth => ~top.external]_vars
  <2> SUFFICES ASSUME IInv, TInv, Next PROVE top'.depth > top.depth => ~top.external
    OBVIOUS
  <2> QED BY NextTame
<1> QED BY Inductive, TameInductive, <1>1, PTL DEF Spec, EnteredWithoutExternal
=============================================================================

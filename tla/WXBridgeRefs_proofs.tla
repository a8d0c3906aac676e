------------------------- MODULE WXBridgeRefs_proofs -------------------------
(***************************************************************************)
(* Proof that the callbacks of WXBridge delete the local references they    *)
(* make, when the class for the log is found.                               *)
(***************************************************************************)
EXTENDS WXBridge_proofs

(* The steps that can make a reference.                                     *)
Makers == {"utf8", "task", "dom", "message", "report"}

(* A reference was made by a bridge function that is active, at a step that  *)
(* makes references and that it has left behind.                            *)
RefsOK(stk, refs) ==
  \A l \in refs :
    /\ l[1] \in 1 .. Len(stk)
    /\ ~stk[l[1]].js
    /\ l[2] \in 1 .. stk[l[1]].step - 1
    /\ Steps[stk[l[1]].fn][l[2]] \in Makers

RInv == RefsOK(stack, locals)

(* What a callback has made when it calls Java, it deletes after.           *)
LEMMA AllDeleted ==
  ASSUME NEW fn \in Callbacks, NEW step \in DOMAIN Steps[fn], Steps[fn][step] = "java",
         NEW k \in 1 .. step - 1, Steps[fn][k] \in Makers
  PROVE  k \in Deletes[fn]
<1>1. CASE fn = "callNative"
  <2>1. step = 4 /\ k \in {1, 2, 3}
    BY <1>1, StepsOf
  <2> QED
    BY <1>1, <2>1 DEF Deletes
<1>2. CASE fn = "callAddElement"
  <2>1. step = 6 /\ k \in 1 .. 5
    BY <1>2, StepsOf
  <2> QED
    BY <1>2, <2>1 DEF Deletes
<1>3. CASE fn = "setTimeoutNative"
  <2>1. step = 3 /\ k \in {1, 2}
    BY <1>3, StepsOf
  <2> QED
    BY <1>3, <2>1 DEF Deletes
<1>4. CASE fn = "nativeLog"
  <2>1. step = 4 /\ k = 3
    <3>1. step = 4 /\ k \in {1, 2, 3}
      BY <1>4, StepsOf
    <3>2. Steps[fn][1] = "tostr" /\ Steps[fn][2] = "tostr"
      BY <1>4, StepsOf
    <3> QED
      BY <3>1, <3>2 DEF Makers
  <2> QED
    BY <1>4, <2>1 DEF Deletes
<1> QED
  BY <1>1, <1>2, <1>3, <1>4 DEF Callbacks

(* References of frames that stay as they are, or only go forward.          *)
LEMMA RefsKept ==
  ASSUME NEW stk, StackOK(stk), NEW refs, RefsOK(stk, refs), NEW new, StackOK(new),
         NEW r, r \subseteq refs, \A l \in r : l[1] \in 1 .. Len(new),
         \A i \in 1 .. Len(stk) :
           i \in 1 .. Len(new) => /\ new[i].fn = stk[i].fn /\ new[i].js = stk[i].js
                                  /\ new[i].step >= stk[i].step
  PROVE  RefsOK(new, r)
<1> SUFFICES ASSUME NEW l \in r
             PROVE  /\ l[1] \in 1 .. Len(new)
                    /\ ~new[l[1]].js
                    /\ l[2] \in 1 .. new[l[1]].step - 1
                    /\ Steps[new[l[1]].fn][l[2]] \in Makers
  BY DEF RefsOK
<1>1. /\ l[1] \in 1 .. Len(stk)
      /\ ~stk[l[1]].js
      /\ l[2] \in 1 .. stk[l[1]].step - 1
      /\ Steps[stk[l[1]].fn][l[2]] \in Makers
  BY DEF RefsOK
<1>2. l[1] \in 1 .. Len(new)
  OBVIOUS
<1>3. /\ new[l[1]].fn = stk[l[1]].fn /\ new[l[1]].js = stk[l[1]].js
      /\ new[l[1]].step >= stk[l[1]].step
  BY <1>1, <1>2
<1>4. stk[l[1]].step \in Nat /\ new[l[1]].step \in Nat
  <2>1. stk[l[1]] \in Frame /\ new[l[1]] \in Frame
    BY <1>1, <1>2, FramesOf
  <2> QED
    BY <2>1 DEF Frame
<1>5. l[2] \in 1 .. new[l[1]].step - 1
  BY <1>1, <1>3, <1>4
<1> QED
  BY <1>1, <1>2, <1>3, <1>5

(* A frame is popped that made none of the references that stay.            *)
LEMMA PopRefs ==
  ASSUME NEW stk, StackOK(stk), Len(stk) # 0, NEW refs, RefsOK(stk, refs),
         NEW r, r \subseteq refs, \A l \in r : l[1] # Len(stk)
  PROVE  RefsOK(Below(stk), r)
<1>1. /\ StackOK(Below(stk)) /\ Len(Below(stk)) = Len(stk) - 1
      /\ \A j \in 1 .. Len(stk) - 1 : Below(stk)[j] = stk[j]
  BY Pop
<1>2. Len(stk) \in Nat \ {0}
  BY DEF StackOK
<1>3. \A l \in r : l[1] \in 1 .. Len(Below(stk))
  <2> TAKE l \in r
  <2>1. l[1] \in 1 .. Len(stk) /\ l[1] # Len(stk)
    BY DEF RefsOK
  <2>2. \A n \in Nat : \A i \in 1 .. n : i # n => i \in 1 .. n - 1
    OBVIOUS
  <2> QED
    BY <1>1, <1>2, <2>1, <2>2
<1>4. \A i \in 1 .. Len(stk) : stk[i].step \in Nat
  <2> TAKE i \in 1 .. Len(stk)
  <2>1. stk[i] \in Frame
    BY FramesOf
  <2> QED
    BY <2>1 DEF Frame
<1>5. \A n \in Nat : n >= n
  OBVIOUS
<1>6. \A i \in 1 .. Len(stk) :
        i \in 1 .. Len(Below(stk)) => /\ Below(stk)[i].fn = stk[i].fn
                                      /\ Below(stk)[i].js = stk[i].js
                                      /\ Below(stk)[i].step >= stk[i].step
  BY <1>1, <1>4, <1>5
<1> QED
  BY <1>1, <1>3, <1>6, RefsKept

(* The frames stay and others may come on top.                              *)
LEMMA SameRefs ==
  ASSUME NEW stk, StackOK(stk), NEW refs, RefsOK(stk, refs), NEW new, StackOK(new),
         Len(new) = Len(stk) \/ Len(new) = Len(stk) + 1,
         \A i \in 1 .. Len(stk) : /\ new[i].fn = stk[i].fn /\ new[i].js = stk[i].js
                                  /\ new[i].step = stk[i].step
  PROVE  RefsOK(new, refs)
<1>1. \A l \in refs : l[1] \in 1 .. Len(new)
  <2> TAKE l \in refs
  <2>1. l[1] \in 1 .. Len(stk) /\ Len(stk) \in Nat
    BY DEF RefsOK, StackOK
  <2>2. \A n \in Nat : \A i \in 1 .. n : i \in 1 .. n + 1
    OBVIOUS
  <2> QED
    BY <2>1, <2>2
<1>2. \A i \in 1 .. Len(stk) : stk[i].step \in Nat
  <2> TAKE i \in 1 .. Len(stk)
  <2>1. stk[i] \in Frame
    BY FramesOf
  <2> QED
    BY <2>1 DEF Frame
<1>3. \A n \in Nat : n >= n
  OBVIOUS
<1>4. \A i \in 1 .. Len(stk) : new[i].step >= stk[i].step
  BY <1>2, <1>3
<1>5. refs \subseteq refs
  OBVIOUS
<1> QED
  BY <1>1, <1>4, <1>5, RefsKept

(* The bridge goes on, and may have made a reference at the step it leaves.  *)
LEMMA ResumedRefs ==
  ASSUME NEW stk, StackOK(stk), Len(stk) # 0, ~LastOf(stk).js,
         Steps[LastOf(stk).fn][LastOf(stk).step] \notin {"java", "true"},
         NEW ok \in BOOLEAN, NEW refs, RefsOK(stk, refs),
         NEW r, r = refs \/ r = RefsAfter(stk, refs, ok)
  PROVE  RefsOK(Resumed(stk, ok), r)
<1>0. Len(stk) \in Nat
  BY DEF StackOK
<1>1. Len(stk) \in 1 .. Len(stk) /\ FrameOK(stk[Len(stk)]) /\ LastOf(stk) = stk[Len(stk)]
  BY <1>0 DEF StackOK, LastOf
<1>2. PICK f : f = stk[Len(stk)]
  OBVIOUS
<1>3. PICK g : g = [f EXCEPT !.step = StepAfter(f, ok)]
  OBVIOUS
<1>4. FrameOK(f) /\ ~f.js /\ Steps[f.fn][f.step] \notin {"java", "true"}
  BY <1>1, <1>2
<1>5. /\ FrameOK(g) /\ g.fn = f.fn /\ g.tc = f.tc /\ g.step = StepAfter(f, ok)
  BY <1>3, <1>4, Advanced
<1>6. PICK new : new = Replaced(stk, Len(stk), g)
  OBVIOUS
<1>7. Resumed(stk, ok) = new
  BY <1>1, <1>2, <1>3, <1>6 DEF Resumed, Replaced
<1>8. /\ StackOK(new) /\ Len(new) = Len(stk) /\ new[Len(stk)] = g
      /\ \A j \in 1 .. Len(stk) : j # Len(stk) => new[j] = stk[j]
  <2>1. g.fn = stk[Len(stk)].fn /\ g.tc = stk[Len(stk)].tc
    BY <1>2, <1>5
  <2> QED
    BY <1>1, <1>5, <1>6, <2>1, Update
<1>9. f.step \in 1 .. 6 /\ g.step \in 1 .. 6 /\ g.step > f.step
  <2>1. f \in Frame /\ g \in Frame /\ f.fn \in DOMAIN Steps /\ f.step \in DOMAIN Steps[f.fn]
    BY <1>4, <1>5 DEF FrameOK, Frame
  <2>2. f.step \in 1 .. 6 /\ StepAfter(f, ok) \in 1 .. 6
    BY <2>1, <1>4, StepAfterOK
  <2> QED
    BY <2>2, <1>5 DEF StepAfter
<1>10. ~g.js
  BY <1>4, <1>5 DEF FrameOK
<1>11. RefsOK(new, refs)
  <2>1. \A l \in refs : l[1] \in 1 .. Len(new)
    BY <1>8 DEF RefsOK
  <2>2. ASSUME NEW i \in 1 .. Len(stk)
        PROVE  new[i].fn = stk[i].fn /\ new[i].js = stk[i].js /\ new[i].step >= stk[i].step
    <3>1. CASE i = Len(stk)
      <4>1. g.step >= f.step
        BY <1>9
      <4>2. g.js = f.js
        BY <1>3
      <4> QED
        BY <3>1, <4>1, <4>2, <1>2, <1>5, <1>8
    <3>2. CASE i # Len(stk)
      <4>1. stk[i] \in Frame /\ new[i] = stk[i]
        BY <3>2, <1>8, FramesOf
      <4>2. stk[i].step \in Nat
        BY <4>1 DEF Frame
      <4>3. stk[i].step >= stk[i].step
        BY <4>2
      <4> QED
        BY <4>1, <4>3
    <3> QED
      BY <3>1, <3>2
  <2>3. refs \subseteq refs
    OBVIOUS
  <2> QED
    BY <1>8, <2>1, <2>2, <2>3, RefsKept
<1>12. CASE MakesRef(f, ok)
  <2>1. Steps[f.fn][f.step] \in Makers
    BY <1>12 DEF MakesRef, Makers
  <2>2. r \subseteq refs \cup {<<Len(stk), f.step>>}
    BY <1>2 DEF RefsAfter, LastOf
  <2>3. PICK one : one = <<Len(stk), f.step>>
    OBVIOUS
  <2>4. one[1] = Len(stk) /\ one[2] = f.step
    BY <2>3
  <2>5. f.step \in 1 .. g.step - 1
    BY <1>9
  <2>6. /\ one[1] \in 1 .. Len(new) /\ ~new[one[1]].js
        /\ one[2] \in 1 .. new[one[1]].step - 1
        /\ Steps[new[one[1]].fn][one[2]] \in Makers
    BY <2>1, <2>4, <2>5, <1>1, <1>5, <1>8, <1>10
  <2>7. \A l \in r : l \in refs \/ l = one
    BY <2>2, <2>3
  <2>8. RefsOK(new, r)
    BY <2>6, <2>7, <1>11 DEF RefsOK
  <2> QED
    BY <2>8, <1>7
<1>13. CASE ~MakesRef(f, ok)
  <2>1. r = refs
    BY <1>13, <1>1, <1>2 DEF RefsAfter
  <2> QED
    BY <2>1, <1>7, <1>11
<1> QED
  BY <1>12, <1>13

(* An API function returns to the bridge.                                   *)
LEMMA LeaveRefs ==
  ASSUME NEW stk, StackOK(stk), Len(stk) # 0, LastOf(stk).js, NEW ok \in BOOLEAN,
         NEW refs, RefsOK(stk, refs)
  PROVE  RefsOK(Resumed(Below(stk), ok), RefsAfter(Below(stk), refs, ok))
<1>1. /\ Len(stk) \in Nat /\ Len(stk) >= 2 /\ Len(stk) - 1 \in 1 .. Len(stk)
      /\ Over(stk[Len(stk) - 1], stk[Len(stk)])
  BY TopFrameIsOverBridge
<1>2. PICK b : b = Below(stk)
  OBVIOUS
<1>3. /\ StackOK(b) /\ Len(b) = Len(stk) - 1
      /\ \A j \in 1 .. Len(stk) - 1 : b[j] = stk[j]
  BY <1>1, <1>2, Pop
<1>4. Len(b) # 0 /\ LastOf(b) = stk[Len(stk) - 1] /\ LastOf(stk) = stk[Len(stk)]
  <2>1. Len(stk) - 1 # 0 /\ Len(stk) - 1 \in 1 .. Len(stk) - 1
    BY <1>1
  <2> QED
    BY <1>3, <2>1 DEF LastOf
<1>5. ~LastOf(b).js /\ Steps[LastOf(b).fn][LastOf(b).step] \notin {"java", "true"}
  BY <1>1, <1>4 DEF Over
<1>6. \A l \in refs : l[1] # Len(stk)
  BY <1>4 DEF RefsOK
<1>7. RefsOK(b, refs)
  <2>1. refs \subseteq refs
    OBVIOUS
  <2> QED
    BY <1>2, <1>6, <2>1, PopRefs
<1>8. PICK r : r = RefsAfter(b, refs, ok)
  OBVIOUS
<1> QED
  BY <1>2, <1>3, <1>4, <1>5, <1>7, <1>8, ResumedRefs

LEMMA RaiseRefs ==
  ASSUME NEW stk, NEW t, NEW refs, Inv(stk, t, refs), Len(stk) # 0, LastOf(stk).js,
         NEW e \in Origin, Raise(stk, t, refs, e), RefsOK(stk, refs)
  PROVE  RefsOK(stack', locals')
<1>1. StackOK(stk) /\ Reported(stk) /\ Len(stk) <= MaxFrames /\ t \in TopType
  BY DEF Inv
<1>2. Len(stk) \in Nat \ {0} /\ Len(stk) \in 1 .. Len(stk) /\ LastOf(stk) = stk[Len(stk)]
      /\ stk[Len(stk)] \in Frame
  BY <1>1, TopIsJS
<1>3. Inv(stack', top', locals')
  BY RaiseInv
<1>4. StackOK(stack')
  BY <1>3 DEF Inv
<1>5. CASE stk[Len(stk)].handler \in {"catch", "finally"}
  <2>1. locals' = refs
    BY <1>5 DEF Raise
  <2>2. \E g \in Frame : /\ g.fn = stk[Len(stk)].fn /\ g.js = stk[Len(stk)].js
                         /\ g.step = stk[Len(stk)].step
                         /\ stack' = Replaced(stk, Len(stk), g)
    <3>1. CASE stk[Len(stk)].handler = "catch"
      <4>1. PICK g : g = [stk[Len(stk)] EXCEPT !.handler = "none"]
        OBVIOUS
      <4>2. g \in Frame /\ g.fn = stk[Len(stk)].fn /\ g.js = stk[Len(stk)].js
            /\ g.step = stk[Len(stk)].step
        BY <4>1, <1>2 DEF Frame
      <4>3. stack' = Replaced(stk, Len(stk), g)
        BY <4>1, <3>1 DEF Raise, Replaced
      <4> QED
        BY <4>2, <4>3
    <3>2. CASE stk[Len(stk)].handler = "finally"
      <4>1. PICK g : g = [stk[Len(stk)] EXCEPT !.handler = "none", !.carried = e]
        OBVIOUS
      <4>2. g \in Frame /\ g.fn = stk[Len(stk)].fn /\ g.js = stk[Len(stk)].js
            /\ g.step = stk[Len(stk)].step
        BY <4>1, <1>2 DEF Frame
      <4>3. stack' = Replaced(stk, Len(stk), g)
        BY <4>1, <3>2 DEF Raise, Replaced
      <4> QED
        BY <4>2, <4>3
    <3> QED
      BY <3>1, <3>2, <1>5
  <2>3. PICK g \in Frame : /\ g.fn = stk[Len(stk)].fn /\ g.js = stk[Len(stk)].js
                           /\ g.step = stk[Len(stk)].step
                           /\ stack' = Replaced(stk, Len(stk), g)
    BY <2>2
  <2>4. stk \in Seq(Frame)
    BY <1>1 DEF StackOK
  <2>5. PICK new : new = stack'
    OBVIOUS
  <2>6. Len(new) = Len(stk)
        /\ \A i \in 1 .. Len(stk) : new[i] = IF i = Len(stk) THEN g ELSE stk[i]
    BY <1>2, <2>3, <2>4, <2>5 DEF Replaced
  <2>7. \A i \in 1 .. Len(stk) : /\ new[i].fn = stk[i].fn /\ new[i].js = stk[i].js
                                 /\ new[i].step = stk[i].step
    BY <2>3, <2>6
  <2>8. RefsOK(new, refs)
    BY <1>1, <1>4, <2>5, <2>6, <2>7, SameRefs
  <2> QED
    BY <2>1, <2>5, <2>8
<1>6. CASE stk[Len(stk)].handler = "none"
  <2>1. PICK thrown : thrown = [t EXCEPT !.catcher = CatcherOf(stk)]
    OBVIOUS
  <2>2. thrown \in TopType
    <3>1. CatcherOf(stk) \in 0 .. Len(stk)
      BY <1>1, CatcherFact
    <3>2. CatcherOf(stk) \in 0 .. MaxFrames
      BY <3>1, <1>1, <1>2, BoundAssumption
    <3> QED
      BY <1>1, <2>1, <3>2 DEF TopType
  <2>3. PICK p : p = Propagated(stk, thrown, e)
    OBVIOUS
  <2>4. /\ StackOK(p) /\ Len(p) = Len(stk)
        /\ \A i \in 1 .. Len(stk) : /\ p[i].fn = stk[i].fn /\ p[i].js = stk[i].js
                                    /\ p[i].tc = stk[i].tc /\ p[i].step = stk[i].step
    BY <1>1, <2>2, <2>3, PropagatedOK
  <2>5. RefsOK(p, refs)
    BY <1>1, <2>4, SameRefs
  <2>6. Len(p) # 0 /\ LastOf(p).js
    BY <1>2, <2>4 DEF LastOf
  <2>7. /\ stack' = Resumed(Below(p), FALSE)
        /\ locals' = RefsAfter(Below(p), refs, FALSE)
    BY <1>6, <2>1, <2>3 DEF Raise, LeaveJS
  <2> QED
    BY <2>4, <2>5, <2>6, <2>7, LeaveRefs
<1>7. stk[Len(stk)].handler \in {"none", "catch", "finally"}
  BY <1>2 DEF Frame
<1> QED
  BY <1>5, <1>6, <1>7

----------------------------------------------------------------------------
LEMMA CallbackReturnsRefs ==
  ASSUME IInv, RInv, CallbackReturns
  PROVE  RefsOK(stack', locals')
<1>1. /\ InBridge /\ At = "java" /\ TopFrame.fn \in Callbacks
      /\ CallbackEnds(top, RefsDeleted)
  BY DEF CallbackReturns
<1>2. /\ Len(stack) # 0 /\ Len(stack) \in Nat \ {0} /\ TopFrame = stack[Len(stack)]
      /\ FrameOK(TopFrame) /\ ~TopFrame.js
  BY <1>1, NotEmpty, StackFacts DEF InBridge
<1>3. Inv(stack, top, locals) /\ StackOK(stack) /\ locals \subseteq (1 .. MaxFrames) \X (1 .. 6)
  BY DEF IInv, Inv
<1>4. RefsDeleted \subseteq locals
  BY DEF RefsDeleted
<1>5. ASSUME NEW l \in RefsDeleted PROVE l[1] # Len(stack)
  <2>1. SUFFICES ASSUME l[1] = Len(stack) PROVE FALSE
    OBVIOUS
  <2>2. l \in locals /\ l = <<l[1], l[2]>>
    BY <1>3, <1>4
  <2>3. l[2] \in 1 .. TopFrame.step - 1 /\ Steps[TopFrame.fn][l[2]] \in Makers
    BY <2>1, <2>2, <1>2 DEF RInv, RefsOK
  <2>4. TopFrame.step \in DOMAIN Steps[TopFrame.fn]
    BY <1>2 DEF FrameOK
  <2>5. Steps[TopFrame.fn][TopFrame.step] = "java"
    BY <1>1 DEF At
  <2>6. l[2] \in Deletes[TopFrame.fn]
    BY <1>1, <2>3, <2>4, <2>5, AllDeleted
  <2>7. l \in {<<Len(stack), k>> : k \in Deletes[TopFrame.fn]}
    BY <2>1, <2>2, <2>6
  <2> QED
    BY <2>7, <1>5 DEF RefsDeleted
<1>6. RefsOK(Below(stack), RefsDeleted)
  BY <1>2, <1>3, <1>4, <1>5, PopRefs DEF RInv
<1>7. RefsDeleted \subseteq (1 .. MaxFrames) \X (1 .. 6)
  BY <1>3, <1>4
<1>8. CASE top.scheduled = NoException
  <2>1. stack' = Below(stack) /\ locals' = RefsDeleted
    BY <1>1, <1>8 DEF CallbackEnds
  <2> QED
    BY <1>6, <2>1
<1>9. CASE top.scheduled # NoException
  <2>1. top.scheduled \in Origin
    BY <1>3, <1>9 DEF TopType, Inv
  <2>2. Raise(Below(stack), Promoted(top), RefsDeleted, top.scheduled)
    BY <1>1, <1>9 DEF CallbackEnds, Promoted
  <2>3. /\ Inv(Below(stack), Promoted(top), RefsDeleted)
        /\ Len(Below(stack)) # 0 /\ LastOf(Below(stack)).js
    BY <1>1, <1>2, <1>3, <1>7, CallbackPopped
  <2> QED
    BY <1>6, <2>1, <2>2, <2>3, RaiseRefs
<1> QED
  BY <1>8, <1>9

LEMMA ReturnToJavaRefs ==
  ASSUME IInv, RInv, InBridge, ReturnToJava
  PROVE  RefsOK(stack', locals')
<1>1. Len(stack) # 0 /\ Len(stack) \in Nat
  BY NotEmpty, StackFacts
<1>2. StackOK(stack)
  BY DEF IInv, Inv
<1>3. PICK r : r = {l \in locals : l[1] < Len(stack)}
  OBVIOUS
<1>4. r \subseteq locals
  BY <1>3
<1>5. ASSUME NEW l \in r PROVE l[1] # Len(stack)
  <2>1. l[1] < Len(stack) /\ l[1] \in 1 .. Len(stack)
    BY <1>3 DEF RInv, RefsOK
  <2> QED
    BY <2>1, <1>1
<1>6. RefsOK(Below(stack), r)
  BY <1>1, <1>2, <1>4, <1>5, PopRefs DEF RInv
<1> QED
  BY <1>3, <1>6 DEF ReturnToJava

(* The frames below a changed or a new one stay, and so do the references.   *)
LEMMA TopChangesRefs ==
  ASSUME IInv, RInv, IInv', locals' = locals, InJS,
         NEW g \in Frame, g.fn = TopFrame.fn, g.js = TopFrame.js, g.step = TopFrame.step,
         NEW new, new = Replaced(stack, Len(stack), g), stack' = new
  PROVE  RefsOK(stack', locals')
<1>1. /\ Len(stack) \in 1 .. Len(stack) /\ TopFrame = stack[Len(stack)]
      /\ StackOK(stack) /\ StackOK(new) /\ stack \in Seq(Frame)
  BY NotEmpty, StackFacts DEF IInv, Inv, StackOK
<1>2. Len(new) = Len(stack)
      /\ \A i \in 1 .. Len(stack) : new[i] = IF i = Len(stack) THEN g ELSE stack[i]
  BY <1>1 DEF Replaced
<1>3. \A i \in 1 .. Len(stack) : /\ new[i].fn = stack[i].fn /\ new[i].js = stack[i].js
                                 /\ new[i].step = stack[i].step
  BY <1>1, <1>2
<1>4. RefsOK(new, locals)
  BY <1>1, <1>2, <1>3, SameRefs DEF RInv
<1> QED
  BY <1>4

LEMMA PushRefs ==
  ASSUME NEW stk, StackOK(stk), NEW refs, RefsOK(stk, refs), NEW f \in Frame,
         StackOK(Pushed(stk, f))
  PROVE  RefsOK(Pushed(stk, f), refs)
<1>1. PICK new : new = Pushed(stk, f)
  OBVIOUS
<1>2. stk \in Seq(Frame) /\ Len(stk) \in Nat
  BY DEF StackOK
<1>3. Len(new) = Len(stk) + 1 /\ \A i \in 1 .. Len(stk) : new[i] = stk[i]
  BY <1>1, <1>2 DEF Pushed
<1> QED
  BY <1>1, <1>3, SameRefs

LEMMA NextRefs ==
  ASSUME LogClassFound, IInv, RInv, Next
  PROVE  RInv'
<1>0. SUFFICES RefsOK(stack', locals')
  BY DEF RInv
<1>i. Inv(stack', top', locals') /\ Inv(stack, top, locals)
  BY NextInv DEF IInv
<1>j. /\ StackOK(stack) /\ StackOK(stack') /\ RefsOK(stack, locals)
      /\ stack \in Seq(Frame) /\ Len(stack) \in Nat /\ IInv'
  BY <1>i, NextInv DEF Inv, StackOK, RInv, IInv
<1>1. CASE InitFramework
  <2>1. Len(stack) = 0 /\ locals' = locals
    BY <1>1 DEF InitFramework
  <2>2. \A l \in locals : FALSE
    BY <2>1, <1>j DEF RefsOK
  <2> QED
    BY <2>1, <2>2 DEF RefsOK
<1>2. ASSUME NEW i \in Instance, ExecJS(i) PROVE RefsOK(stack', locals')
  <2>1. locals' = locals
    BY <1>2 DEF ExecJS
  <2>2. PICK f : f = BridgeFrame("execJS", i, TRUE)
    OBVIOUS
  <2>3. PICK g : g = JSFrame(i, FALSE)
    OBVIOUS
  <2>4. f \in Frame /\ g \in Frame
    <3>1. i \in Origin /\ "execJS" \in DOMAIN Steps /\ "execJS" \in Runners
      BY StepsOf DEF Origin, Runners
    <3>2. FrameOK(f) /\ FrameOK(g)
      BY <2>2, <2>3, <3>1, NewFrames
    <3> QED
      BY <3>2 DEF FrameOK
  <2>5. PICK new : new = stack \o <<f, g>>
    OBVIOUS
  <2>6. stack' = new
    BY <1>2, <2>2, <2>3, <2>5 DEF ExecJS
  <2>7. Len(new) = Len(stack) + 2 /\ \A k \in 1 .. Len(stack) : new[k] = stack[k]
    BY <1>j, <2>4, <2>5
  <2>8. \A l \in locals : l[1] \in 1 .. Len(new)
    <3>1. \A n \in Nat : \A k \in 1 .. n : k \in 1 .. n + 2
      OBVIOUS
    <3> QED
      BY <3>1, <2>7, <1>j DEF RefsOK
  <2>9. \A k \in 1 .. Len(stack) : /\ new[k].fn = stack[k].fn /\ new[k].js = stack[k].js
                                   /\ new[k].step >= stack[k].step
    <3> TAKE k \in 1 .. Len(stack)
    <3>1. stack[k] \in Frame /\ new[k] = stack[k]
      BY <1>j, <2>7, FramesOf
    <3>2. stack[k].step \in Nat
      BY <3>1 DEF Frame
    <3>3. stack[k].step >= stack[k].step
      BY <3>2
    <3> QED
      BY <3>1, <3>3
  <2>10. locals \subseteq locals
    OBVIOUS
  <2>11. RefsOK(new, locals)
    BY <1>j, <2>6, <2>8, <2>9, <2>10, RefsKept
  <2> QED
    BY <2>1, <2>6, <2>11
<1>3. ASSUME InJS, locals' = locals,
             \/ \E kind \in {"none", "catch", "finally"} :
                  stack' = [stack EXCEPT ![Len(stack)].handler = kind]
             \/ stack' = [stack EXCEPT ![Len(stack)].carried = NoException]
      PROVE  RefsOK(stack', locals')
  <2>1. TopFrame \in Frame /\ TopFrame = stack[Len(stack)]
    BY <1>3, NotEmpty, StackFacts
  <2>2. ASSUME NEW kind \in {"none", "catch", "finally"},
               stack' = [stack EXCEPT ![Len(stack)].handler = kind]
        PROVE  RefsOK(stack', locals')
    <3>1. PICK g : g = [stack[Len(stack)] EXCEPT !.handler = kind]
      OBVIOUS
    <3>2. g \in Frame /\ g.fn = TopFrame.fn /\ g.js = TopFrame.js /\ g.step = TopFrame.step
      BY <2>1, <3>1 DEF Frame
    <3>3. PICK new : new = Replaced(stack, Len(stack), g)
      OBVIOUS
    <3>4. stack' = new
      BY <2>2, <3>1, <3>3 DEF Replaced
    <3> QED
      BY <1>3, <1>j, <3>2, <3>3, <3>4, TopChangesRefs
  <2>3. CASE stack' = [stack EXCEPT ![Len(stack)].carried = NoException]
    <3>1. PICK g : g = [stack[Len(stack)] EXCEPT !.carried = NoException]
      OBVIOUS
    <3>2. g \in Frame /\ g.fn = TopFrame.fn /\ g.js = TopFrame.js /\ g.step = TopFrame.step
      BY <2>1, <3>1 DEF Frame
    <3>3. PICK new : new = Replaced(stack, Len(stack), g)
      OBVIOUS
    <3>4. stack' = new
      BY <2>3, <3>1, <3>3 DEF Replaced
    <3> QED
      BY <1>3, <1>j, <3>2, <3>3, <3>4, TopChangesRefs
  <2> QED
    BY <1>3, <2>2, <2>3
<1>4. CASE (\E kind \in {"catch", "finally"} : JSEnterTry(kind)) \/ JSLeaveTry \/ JSDrop
  <2>1. CASE \E kind \in {"catch", "finally"} : JSEnterTry(kind)
    BY <2>1, <1>3 DEF JSEnterTry
  <2>2. CASE JSLeaveTry
    BY <2>2, <1>3 DEF JSLeaveTry
  <2>3. CASE JSDrop
    BY <2>3, <1>3 DEF JSDrop
  <2> QED
    BY <1>4, <2>1, <2>2, <2>3
<1>5. CASE JSThrow
  <2>1. InJS /\ Raise(stack, top, locals, TopFrame.inst)
    BY <1>5 DEF JSThrow
  <2>2. Len(stack) # 0 /\ LastOf(stack).js /\ TopFrame.inst \in Origin
    BY <2>1, NotEmpty, StackFacts DEF InJS, Frame
  <2> QED
    BY <1>i, <1>j, <2>1, <2>2, RaiseRefs
<1>6. CASE JSRethrow
  <2>1. /\ InJS /\ TopFrame.carried # NoException
        /\ Raise([stack EXCEPT ![Len(stack)].carried = NoException], top, locals,
                 TopFrame.carried)
    BY <1>6 DEF JSRethrow
  <2>2. /\ Len(stack) # 0 /\ Len(stack) \in 1 .. Len(stack)
        /\ TopFrame \in Frame /\ TopFrame = stack[Len(stack)] /\ TopFrame.js
    BY <2>1, NotEmpty, StackFacts DEF InJS
  <2>3. TopFrame.carried \in Origin
    BY <2>1, <2>2 DEF Frame
  <2>4. PICK g : g = [TopFrame EXCEPT !.handler = TopFrame.handler, !.carried = NoException]
    OBVIOUS
  <2>5. /\ g = [stack[Len(stack)] EXCEPT !.carried = NoException]
        /\ g \in Frame /\ g.fn = TopFrame.fn /\ g.js = TopFrame.js /\ g.step = TopFrame.step
    BY <2>2, <2>4 DEF Frame
  <2>6. PICK rest : rest = Replaced(stack, Len(stack), g)
    OBVIOUS
  <2>7. rest = [stack EXCEPT ![Len(stack)].carried = NoException]
    BY <2>5, <2>6 DEF Replaced
  <2>8. Inv(rest, top, locals)
    <3>1. TopFrame.handler \in {"none", "catch", "finally"}
      BY <2>2 DEF Frame
    <3> QED
      BY <2>1, <2>4, <2>6, <3>1, TryInv
  <2>9. Len(rest) = Len(stack)
        /\ \A i \in 1 .. Len(stack) : rest[i] = IF i = Len(stack) THEN g ELSE stack[i]
    BY <1>j, <2>2, <2>5, <2>6 DEF Replaced
  <2>10. \A i \in 1 .. Len(stack) : /\ rest[i].fn = stack[i].fn /\ rest[i].js = stack[i].js
                                    /\ rest[i].step = stack[i].step
    BY <2>2, <2>5, <2>9
  <2>11. RefsOK(rest, locals)
    <3>1. StackOK(rest)
      BY <2>8 DEF Inv
    <3> QED
      BY <1>j, <2>9, <2>10, <3>1, SameRefs
  <2>12. Len(rest) # 0 /\ LastOf(rest).js
    BY <2>2, <2>5, <2>9 DEF LastOf
  <2>13. Raise(rest, top, locals, TopFrame.carried)
    BY <2>1, <2>7
  <2> QED
    BY <2>3, <2>8, <2>11, <2>12, <2>13, RaiseRefs
<1>7. CASE JSReturn
  <2>1. InJS /\ LeaveJS(stack, [top EXCEPT !.depth = @ - 1], locals, TRUE)
    BY <1>7 DEF JSReturn
  <2>2. Len(stack) # 0 /\ LastOf(stack).js
    BY <2>1, NotEmpty DEF InJS, TopFrame
  <2>3. /\ stack' = Resumed(Below(stack), TRUE)
        /\ locals' = RefsAfter(Below(stack), locals, TRUE)
    BY <2>1 DEF LeaveJS
  <2> QED
    BY <1>j, <2>2, <2>3, LeaveRefs
<1>8. ASSUME InJS \/ InBridge, NEW f, stack' = Append(stack, f), f \in Frame, locals' = locals
      PROVE  RefsOK(stack', locals')
  <2>1. stack' = Pushed(stack, f)
    BY <1>8 DEF Pushed
  <2>2. StackOK(Pushed(stack, f))
    BY <2>1, <1>j
  <2>3. RefsOK(Pushed(stack, f), locals)
    BY <1>8, <1>j, <2>2, PushRefs
  <2> QED
    BY <1>8, <2>1, <2>3
<1>9. ASSUME NEW fn \in Callback, JSCall(fn) PROVE RefsOK(stack', locals')
  <2>1. InJS /\ locals' = locals /\ stack' = Append(stack, BridgeFrame(fn, TopFrame.inst, FALSE))
    BY <1>9 DEF JSCall
  <2>2. TopFrame.inst \in Origin
    BY <2>1, NotEmpty, StackFacts DEF Frame
  <2>3. fn \in DOMAIN Steps /\ fn \notin Runners
    BY CallbackAssumption, StepsOf DEF Callbacks, Runners
  <2>4. BridgeFrame(fn, TopFrame.inst, FALSE) \in Frame
    BY <2>2, <2>3, NewFrames DEF FrameOK
  <2> QED
    BY <1>8, <2>1, <2>4
<1>10. CASE ConvertNonString
  <2>1. InBridge /\ locals' = locals
        /\ stack' = Append(stack, JSFrame(TopFrame.inst, At \in {"utf8", "report"}))
    BY <1>10 DEF ConvertNonString
  <2>2. TopFrame.inst \in Origin
    BY <2>1, NotEmpty, StackFacts DEF Frame
  <2>3. PICK tc : tc = (At \in {"utf8", "report"})
    OBVIOUS
  <2>4. tc \in BOOLEAN /\ stack' = Append(stack, JSFrame(TopFrame.inst, tc))
    BY <2>1, <2>3
  <2>5. JSFrame(TopFrame.inst, tc) \in Frame
    BY <2>2, <2>4, NewFrames DEF FrameOK
  <2> QED
    BY <1>8, <2>1, <2>4, <2>5
<1>11. CASE ConvertString \/ ConvertNothing
  <2>1. /\ InBridge /\ At \notin {"java", "true"} /\ stack' = Resumed(stack, TRUE)
        /\ locals' = locals \/ locals' = RefsAfter(stack, locals, TRUE)
    BY <1>11 DEF ConvertString, ConvertNothing
  <2>2. /\ Len(stack) # 0 /\ ~LastOf(stack).js
        /\ Steps[LastOf(stack).fn][LastOf(stack).step] \notin {"java", "true"}
    BY <2>1, NotEmpty DEF InBridge, At, TopFrame
  <2>3. PICK r : r = locals'
    OBVIOUS
  <2>4. RefsOK(Resumed(stack, TRUE), r)
    BY <1>j, <2>1, <2>2, <2>3, ResumedRefs
  <2> QED
    BY <2>1, <2>3, <2>4
<1>12. CASE LogClassMissing
  BY <1>12 DEF LogClassMissing
<1>13. CASE CallbackReturns
  BY <1>13, CallbackReturnsRefs
<1>14. CASE ReturnTrue \/ ReturnFalse \/ InitFrameworkReturnsTrue
  BY <1>14, ReturnToJavaRefs DEF ReturnTrue, ReturnFalse, InitFrameworkReturnsTrue
<1>15. CASE SetJSFVersion
  <2>1. /\ InBridge /\ At = "true" /\ TopFrame.fn = "runScript" /\ locals' = locals
        /\ stack' = <<BridgeFrame("setJSFVersion", Framework, FALSE), JSFrame(Framework, FALSE)>>
    BY <1>15 DEF SetJSFVersion
  <2>2. Len(stack) # 0 /\ Len(stack) \in Nat \ {0} /\ TopFrame = stack[Len(stack)]
    BY <2>1, NotEmpty, StackFacts
  <2>3. Len(stack) = 1
    <3>1. SUFFICES ASSUME Len(stack) # 1 PROVE FALSE
      OBVIOUS
    <3>2. Len(stack) - 1 \in 1 .. Len(stack) - 1 /\ (Len(stack) - 1) + 1 = Len(stack)
      <4>1. \A n \in Nat \ {0} : n # 1 => n - 1 \in 1 .. n - 1 /\ (n - 1) + 1 = n
        OBVIOUS
      <4> QED
        BY <2>2, <3>1, <4>1
    <3>3. Over(stack[Len(stack) - 1], stack[Len(stack)])
      BY <1>j, <3>2 DEF StackOK
    <3> QED
      BY <2>1, <2>2, <3>3 DEF Over
  <2>4. ASSUME NEW l \in locals PROVE FALSE
    <3>1. /\ l[1] = 1 /\ stack[1] = TopFrame
          /\ l[2] \in 1 .. TopFrame.step - 1
          /\ Steps[TopFrame.fn][l[2]] \in Makers
      BY <1>j, <2>2, <2>3 DEF RefsOK
    <3>2. TopFrame.step = 2
      <4>1. FrameOK(TopFrame) /\ ~TopFrame.js
        BY <2>1, <2>2, StackFacts DEF InBridge
      <4>2. TopFrame.step \in DOMAIN Steps[TopFrame.fn]
        BY <4>1 DEF FrameOK
      <4>3. Steps[TopFrame.fn][TopFrame.step] = "true"
        BY <2>1 DEF At
      <4> QED
        BY <2>1, <4>2, <4>3, StepsOf
    <3>3. l[2] = 1
      BY <3>1, <3>2
    <3>4. Steps[TopFrame.fn][1] = "run"
      BY <2>1, StepsOf
    <3> QED
      BY <3>1, <3>3, <3>4 DEF Makers
  <2> QED
    BY <2>1, <2>4 DEF RefsOK
<1> QED
  BY <1>1, <1>2, <1>4, <1>5, <1>6, <1>7, <1>9, <1>10, <1>11, <1>12, <1>13, <1>14, <1>15
     DEF Next

(* A callback deletes every local reference it makes, however scripts nest    *)
(* callbacks, Java calls and execJS, and whichever conversions throw: none   *)
(* outlives the function that made it.  Without the class for the log,       *)
(* nativeLog returns early and keeps its string.                            *)
THEOREM RefsAreDeleted == LogClassFound => (Spec => []LocalRefsDeleted)
<1> SUFFICES ASSUME LogClassFound PROVE Spec => []LocalRefsDeleted
  OBVIOUS
<1>1. Init => RInv
  BY DEF Init, RInv, RefsOK
<1>2. IInv /\ RInv /\ [Next]_vars => RInv'
  <2> SUFFICES ASSUME IInv, RInv, [Next]_vars PROVE RInv'
    OBVIOUS
  <2>1. CASE Next
    BY <2>1, NextRefs
  <2>2. CASE UNCHANGED vars
    BY <2>2 DEF vars, RInv
  <2> QED
    BY <2>1, <2>2
<1>3. IInv /\ RInv => LocalRefsDeleted
  <2> SUFFICES ASSUME IInv, RInv, NEW l \in locals
               PROVE  l[1] \in DOMAIN stack /\ ~stack[l[1]].js /\ l[2] < stack[l[1]].step
    BY DEF LocalRefsDeleted
  <2>1. /\ l[1] \in 1 .. Len(stack) /\ ~stack[l[1]].js
        /\ l[2] \in 1 .. stack[l[1]].step - 1
    BY DEF RInv, RefsOK
  <2>2. StackOK(stack) /\ DOMAIN stack = 1 .. Len(stack)
    BY DEF IInv, Inv, StackOK
  <2>3. stack[l[1]].step \in Nat
    <3>1. stack[l[1]] \in Frame
      BY <2>1, <2>2, FramesOf
    <3> QED
      BY <3>1 DEF Frame
  <2>4. l[2] < stack[l[1]].step
    BY <2>1, <2>3
  <2> QED
    BY <2>1, <2>2, <2>4
<1> QED
  BY Inductive, <1>1, <1>2, <1>3, PTL DEF Spec
=============================================================================

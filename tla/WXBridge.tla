------------------------------ MODULE WXBridge ------------------------------
(***************************************************************************)
(* The JNI bridge between Java and the JavaScript of weex: the entry points *)
(* initFramework and execJS, the callbacks callNative, callAddElement,      *)
(* setTimeoutNative and nativeLog that JavaScript calls, and the way an     *)
(* exception travels through all of them.                                   *)
(*                                                                          *)
(* One thread runs everything.  Its stack has a frame for each bridge       *)
(* function that is active and one for each call into JavaScript; execJS    *)
(* and Java calls nest because a callback calls Java and Java may call      *)
(* execJS again.  An exception is known by the instance on whose behalf it  *)
(* was thrown.                                                              *)
(***************************************************************************)
EXTENDS V8Exceptions

CONSTANTS
  Instance,       \* the instance ids Java passes to execJS
  Framework,      \* stands for the NULL instance id of initFramework
  Callback,       \* the callbacks the scripts use
  LogClassFound,  \* FindClass finds com/taobao/weex/utils/WXLogUtils
  Tame,           \* no callback enters V8 after one of its argument conversions
                  \* has thrown (see MayEnterV8)
  MaxFrames       \* bound: frames on the stack

ASSUME InstanceAssumption == Framework \notin Instance
ASSUME ExceptionAssumption == NoException \notin Instance \cup {Framework}
ASSUME CallbackAssumption ==
  Callback \subseteq {"callNative", "callAddElement", "setTimeoutNative", "nativeLog"}
ASSUME SwitchAssumption == LogClassFound \in BOOLEAN /\ Tame \in BOOLEAN
ASSUME BoundAssumption == MaxFrames \in Nat /\ MaxFrames >= 2

VARIABLES
  stack,     \* the frames, the newest last
  top,       \* ThreadLocalTop: scheduled_exception_, external_caught_exception_,
             \* catcher_, and call_depth_ of the HandleScopeImplementer
  locals,    \* JNI local references: the frame and the step that made each
  framework  \* has initFramework returned true

vars == <<stack, top, locals, framework>>

Origin == Instance \cup {Framework}

(* What each bridge function does, in order, once its arguments are there.  *)
(*   utf8    Utf8Value of an argument, then NewStringUTF                    *)
(*   task    the task of callNative: stringify, Utf8Value or nothing        *)
(*   dom     the node of callAddElement: stringify or nothing               *)
(*   tostr   ToString of an argument, no TryCatch                           *)
(*   message the jstring and the class for the log                          *)
(*   java    the call to Java                                               *)
(*   run     the call of the function or script, under the TryCatch         *)
(*   true    return true                                                    *)
(*   report  Utf8Value of the exception for reportJSException               *)
(*   version the call of getJSFMVersion, no TryCatch                        *)
Steps == [
  callNative       |-> <<"utf8", "task", "utf8", "java">>,
  callAddElement   |-> <<"utf8", "utf8", "dom", "utf8", "utf8", "java">>,
  setTimeoutNative |-> <<"utf8", "utf8", "java">>,
  nativeLog        |-> <<"tostr", "tostr", "message", "java">>,
  execJS           |-> <<"run", "true", "report", "java">>,
  runScript        |-> <<"run", "true", "report", "java">>,
  setJSFVersion    |-> <<"version", "utf8", "java">>]

Callbacks == {"callNative", "callAddElement", "setTimeoutNative", "nativeLog"}

(* The steps whose local references each function deletes before it returns. *)
Deletes_NoCallback ==
  [f \in DOMAIN Steps |->
     IF f = "callNative" THEN {1, 2}
     ELSE IF f = "callAddElement" THEN 1 .. 5
     ELSE {k \in DOMAIN Steps[f] : Steps[f][k] \in {"utf8", "message", "report"}}]

Deletes == [
  callNative       |-> {1, 2, 3},
  callAddElement   |-> 1 .. 5,
  setTimeoutNative |-> {1, 2},
  nativeLog        |-> {3},
  execJS           |-> {3},
  runScript        |-> {3},
  setJSFVersion    |-> {2}]

TopFrame == LastOf(stack)
InJS == stack # <<>> /\ TopFrame.js
InBridge == stack # <<>> /\ ~TopFrame.js
At == Steps[TopFrame.fn][TopFrame.step]

(* A new frame: of a bridge function, and of a call into JavaScript made by *)
(* an API function with (tc) or without a TryCatch of its own.              *)
BridgeFrame(fn, i, tc) ==
  [fn |-> fn, step |-> 1, inst |-> i, js |-> FALSE, tc |-> tc,
   caught |-> NoException, handler |-> "none", carried |-> NoException]
JSFrame(i, tc) == [BridgeFrame("js", i, tc) EXCEPT !.js = TRUE]

----------------------------------------------------------------------------
(* Leaving JavaScript, by a return or by an exception.                      *)

MakesRef(f, ok) ==
  \/ Steps[f.fn][f.step] \in {"task", "dom", "message", "report"}
  \/ Steps[f.fn][f.step] = "utf8" /\ ok

(* A call that failed is followed by the report, or for the version by      *)
(* Utf8Value of an empty handle, which does nothing.                        *)
StepAfter(f, ok) ==
  IF Steps[f.fn][f.step] \in {"run", "version"} /\ ~ok THEN f.step + 2 ELSE f.step + 1

Resumed(stk, ok) == [stk EXCEPT ![Len(stk)].step = StepAfter(LastOf(stk), ok)]

RefsAfter(stk, refs, ok) ==
  IF MakesRef(LastOf(stk), ok) THEN refs \cup {<<Len(stk), LastOf(stk).step>>} ELSE refs

(* The API function on top of stk returns to the bridge function below it,  *)
(* with a value (ok) or an empty handle.                                    *)
LeaveJS(stk, t, refs, ok) ==
  /\ stack' = Resumed(Below(stk), ok)
  /\ top' = Unregistered(t, LastOf(stk))
  /\ locals' = RefsAfter(Below(stk), refs, ok)

(* DoThrow or ReThrow of e in the JavaScript on top of stk, and the unwinding. *)
Raise(stk, t, refs, e) ==
  LET n == Len(stk)
      thrown == [t EXCEPT !.catcher = CatcherOf(stk)]
  IN  \/ /\ stk[n].handler = "catch"
         /\ stack' = [stk EXCEPT ![n].handler = "none"]
         /\ top' = thrown
         /\ locals' = refs
      \/ /\ stk[n].handler = "finally"
         /\ stack' = [stk EXCEPT ![n] = [@ EXCEPT !.handler = "none", !.carried = e]]
         /\ top' = thrown
         /\ locals' = refs
      \/ /\ stk[n].handler = "none"
         /\ LeaveJS(Propagated(stk, thrown, e), Rescheduled(stk, thrown, e), refs, FALSE)

CallbackEnds_Forgets(t, refs) ==
  stack' = Below(stack) /\ top' = t /\ locals' = refs

(* A callback returns to the JavaScript that called it: HandleApiCallHelper *)
(* promotes the scheduled exception, whoever scheduled it.                  *)
CallbackEnds(t, refs) ==
  IF t.scheduled = NoException
    THEN stack' = Below(stack) /\ top' = t /\ locals' = refs
    ELSE Raise(Below(stack), [t EXCEPT !.scheduled = NoException], refs, t.scheduled)

RefsDeleted == locals \ {<<Len(stack), k>> : k \in Deletes[TopFrame.fn]}

(* A native method returns to Java, which frees its local references.       *)
ReturnToJava ==
  /\ stack' = Below(stack)
  /\ top' = Unregistered(top, TopFrame)
  /\ locals' = {l \in locals : l[1] < Len(stack)}

(* May a callback enter V8 now?  Always, in the program; in a tame one not  *)
(* between a conversion that threw and the return of the callback: what it  *)
(* converts after that are strings, and its call to Java comes back without *)
(* execJS.  A number is enough to break this, and an argument left out.     *)
MayEnterV8 == Tame => top.scheduled = NoException

----------------------------------------------------------------------------
Init ==
  /\ stack = <<>>
  /\ top = [scheduled |-> NoException, external |-> FALSE, catcher |-> 0, depth |-> 0]
  /\ locals = {}
  /\ framework = FALSE

(* initFramework up to the code of the framework; a script that does not    *)
(* compile is one that throws at once.                                      *)
InitFramework ==
  /\ stack = <<>>
  /\ ~framework
  /\ stack' = <<BridgeFrame("runScript", Framework, TRUE), JSFrame(Framework, FALSE)>>
  /\ top' = Entered(top)
  /\ UNCHANGED <<locals, framework>>

(* execJS, called when nothing runs or by the Java method a bridge function *)
(* has called, up to the code of the function.                              *)
ExecJS_NoTryCatch(i) ==
  /\ framework
  /\ stack # <<>> => InBridge /\ At = "java" /\ MayEnterV8
  /\ Len(stack) + 2 <= MaxFrames
  /\ stack' = stack \o <<BridgeFrame("execJS", i, FALSE), JSFrame(i, FALSE)>>
  /\ top' = Entered(top)
  /\ UNCHANGED <<locals, framework>>

ExecJS(i) ==
  /\ framework
  /\ stack # <<>> => InBridge /\ At = "java" /\ MayEnterV8
  /\ Len(stack) + 2 <= MaxFrames
  /\ stack' = stack \o <<BridgeFrame("execJS", i, TRUE), JSFrame(i, FALSE)>>
  /\ top' = Entered(top)
  /\ UNCHANGED <<locals, framework>>

(* The script enters or leaves a try statement: one at a time in a call.    *)
JSEnterTry(kind) ==
  /\ InJS /\ TopFrame.handler = "none" /\ TopFrame.carried = NoException
  /\ stack' = [stack EXCEPT ![Len(stack)].handler = kind]
  /\ UNCHANGED <<top, locals, framework>>

JSLeaveTry ==
  /\ InJS /\ TopFrame.handler # "none"
  /\ stack' = [stack EXCEPT ![Len(stack)].handler = "none"]
  /\ UNCHANGED <<top, locals, framework>>

JSThrow ==
  /\ InJS
  /\ Raise(stack, top, locals, TopFrame.inst)
  /\ UNCHANGED framework

(* A finally block ends: it rethrows, or drops the exception by a return.   *)
JSRethrow ==
  /\ InJS /\ TopFrame.carried # NoException
  /\ Raise([stack EXCEPT ![Len(stack)].carried = NoException], top, locals, TopFrame.carried)
  /\ UNCHANGED framework

JSDrop ==
  /\ InJS /\ TopFrame.carried # NoException
  /\ stack' = [stack EXCEPT ![Len(stack)].carried = NoException]
  /\ UNCHANGED <<top, locals, framework>>

JSReturn ==
  /\ InJS /\ TopFrame.handler = "none" /\ TopFrame.carried = NoException
  /\ LeaveJS(stack, [top EXCEPT !.depth = @ - 1], locals, TRUE)
  /\ UNCHANGED framework

JSCall(fn) ==
  /\ InJS /\ Len(stack) < MaxFrames
  /\ stack' = Append(stack, BridgeFrame(fn, TopFrame.inst, FALSE))
  /\ UNCHANGED <<top, locals, framework>>

(* A string is its own conversion: Value::ToString does not enter V8, and   *)
(* only the TryCatch of Utf8Value comes and goes.  For the report this is an *)
(* exception that is a string and has no message.                           *)
ConvertString ==
  /\ InBridge
  /\ At \in {"utf8", "task", "report"} \/ (At = "message" /\ LogClassFound)
  /\ stack' = Resumed(stack, TRUE)
  /\ top' = [top EXCEPT !.catcher = 0]
  /\ locals' = RefsAfter(stack, locals, TRUE)
  /\ UNCHANGED framework

(* A value of which nothing is made: a task that is neither object nor      *)
(* string, a node that is no object (a string too), a string to log.        *)
ConvertNothing ==
  /\ InBridge /\ At \in {"task", "dom", "tostr"}
  /\ stack' = Resumed(stack, TRUE)
  /\ UNCHANGED <<top, locals, framework>>

(* Any other value enters V8: Execution::ToString of a number, a Boolean or *)
(* undefined, which returns at once, the toString or toJSON of an object,   *)
(* the line number of a message to report.  It is under a TryCatch only if  *)
(* it is Utf8Value that converts the value.                                 *)
ConvertNonString ==
  /\ InBridge /\ At \in {"utf8", "task", "dom", "tostr", "report"} /\ MayEnterV8
  /\ Len(stack) < MaxFrames
  /\ stack' = Append(stack, JSFrame(TopFrame.inst, At \in {"utf8", "report"}))
  /\ top' = Entered(top)
  /\ UNCHANGED <<locals, framework>>

LogClassMissing ==
  /\ InBridge /\ At = "message" /\ ~LogClassFound
  /\ CallbackEnds([top EXCEPT !.catcher = 0], locals \cup {<<Len(stack), TopFrame.step>>})
  /\ UNCHANGED framework

(* Java has returned to the callback.                                       *)
CallbackReturns ==
  /\ InBridge /\ At = "java" /\ TopFrame.fn \in Callbacks
  /\ CallbackEnds(top, RefsDeleted)
  /\ UNCHANGED framework

ReturnTrue ==
  /\ InBridge /\ At = "true" /\ TopFrame.fn = "execJS"
  /\ ReturnToJava
  /\ UNCHANGED framework

(* reportJSException has returned: execJS or initFramework returns false.   *)
ReturnFalse ==
  /\ InBridge /\ At = "java" /\ TopFrame.fn \in {"execJS", "runScript"}
  /\ ReturnToJava
  /\ UNCHANGED framework

(* ExecuteJavaScript returns true to initFramework, which asks the framework *)
(* its version.                                                             *)
SetJSFVersion ==
  /\ InBridge /\ At = "true" /\ TopFrame.fn = "runScript"
  /\ stack' = <<BridgeFrame("setJSFVersion", Framework, FALSE), JSFrame(Framework, FALSE)>>
  /\ top' = Entered(Unregistered(top, TopFrame))
  /\ UNCHANGED <<locals, framework>>

InitFrameworkReturnsTrue ==
  /\ InBridge /\ At = "java" /\ TopFrame.fn = "setJSFVersion"
  /\ ReturnToJava
  /\ framework' = TRUE

Next ==
  \/ InitFramework
  \/ \E i \in Instance : ExecJS(i)
  \/ \E kind \in {"catch", "finally"} : JSEnterTry(kind)
  \/ JSLeaveTry \/ JSThrow \/ JSRethrow \/ JSDrop \/ JSReturn
  \/ \E fn \in Callback : JSCall(fn)
  \/ ConvertString \/ ConvertNothing \/ ConvertNonString
  \/ LogClassMissing \/ CallbackReturns
  \/ ReturnTrue \/ ReturnFalse \/ SetJSFVersion \/ InitFrameworkReturnsTrue

Spec == Init /\ [][Next]_vars

----------------------------------------------------------------------------
Frame == [fn : DOMAIN Steps \cup {"js"}, step : 1 .. 6, inst : Origin,
          js : BOOLEAN, tc : BOOLEAN, caught : Origin \cup {NoException},
          handler : {"none", "catch", "finally"}, carried : Origin \cup {NoException}]

(* The variables have their types, and a bridge function is at a step of its *)
(* own.                                                                     *)
TypeOK ==
  /\ stack \in Seq(Frame)
  /\ Len(stack) <= MaxFrames
  /\ \A i \in DOMAIN stack : stack[i].js <=> stack[i].fn = "js"
  /\ \A i \in DOMAIN stack : ~stack[i].js => stack[i].step \in DOMAIN Steps[stack[i].fn]
  /\ top \in [scheduled : Origin \cup {NoException}, external : BOOLEAN,
              catcher : 0 .. MaxFrames, depth : 0 .. MaxFrames]
  /\ locals \subseteq (1 .. MaxFrames) \X (1 .. 6)
  /\ framework \in BOOLEAN

(* execJS and ExecuteJavaScript report an exception only when there is one: *)
(* the assertion of both that a call without a result has left its          *)
(* exception in the TryCatch, whatever the callbacks and Java did meanwhile. *)
EmptyMeansCaught ==
  \A i \in DOMAIN stack :
    stack[i].fn \in {"execJS", "runScript"} /\ stack[i].step \in {3, 4}
      => stack[i].caught # NoException

(* catcher_ never dangles: it is NULL or a TryCatch that is registered.  The *)
(* objects are made on the stack, so a stale pointer would equal the next   *)
(* TryCatch made at the same address, which would catch in its place.       *)
CatcherRegistered == top.catcher # 0 => top.catcher \in TryCatches(stack)

(* An exception waits in scheduled_exception_ only while a callback that    *)
(* will promote it is active: no call of JavaScript, of this instance or of *)
(* another one, starts with the exception of an earlier one.                *)
ScheduledUnderCallback ==
  top.scheduled # NoException => \E i \in DOMAIN stack : stack[i].fn \in Callbacks

(* A callback deletes the local references it makes: none outlives the      *)
(* function that made it, although JavaScript may call callbacks any number *)
(* of times before the native method returns to Java and frees them.        *)
LocalRefsDeleted ==
  \A l \in locals :
    l[1] \in DOMAIN stack /\ ~stack[l[1]].js /\ l[2] < stack[l[1]].step

(* When the script of ExecuteJavaScript has a result, its TryCatch has      *)
(* caught nothing.                                                          *)
ReturnedNotCaught ==
  \A i \in DOMAIN stack :
    stack[i].fn = "runScript" /\ stack[i].step = 2 => stack[i].caught = NoException

(* The same of execJS too: both return true only if nothing went uncaught   *)
(* in the JavaScript of the call.                                           *)
TrueMeansNotCaught ==
  /\ ReturnedNotCaught
  /\ \A i \in DOMAIN stack :
       stack[i].fn = "execJS" /\ stack[i].step = 2 => stack[i].caught = NoException

(* What is reported to Java under an instance id was thrown by a script of  *)
(* that instance.                                                           *)
OwnExceptions ==
  \A i \in DOMAIN stack : stack[i].caught \in {NoException, stack[i].inst}

(* The assertion of EXCEPTION_PREAMBLE: V8 is entered only when no          *)
(* exception is on its way to an external TryCatch.  The program keeps to   *)
(* this only if it is tame: a callback that converts a number or calls Java *)
(* that calls execJS, after a conversion that threw, breaks it.             *)
EnteredWithoutExternal ==
  [][top'.depth > top.depth => ~top.external]_vars
=============================================================================

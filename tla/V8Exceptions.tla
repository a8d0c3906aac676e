---------------------------- MODULE V8Exceptions ----------------------------
(***************************************************************************)
(* Where V8 sends a thrown exception.  Operators on the stack of one thread *)
(* and on the exception fields of its ThreadLocalTop; a module that has the *)
(* stack as a variable says when they apply.                                *)
(*                                                                          *)
(* A stack is a sequence of frames, the newest last, and the index of a     *)
(* frame stands for its address: a v8::TryCatch is known by the frame that  *)
(* holds it, so two that are made one after the other in the same place     *)
(* have the same address, as on the machine.  A frame has the fields        *)
(*   js       it is a call into JavaScript (an entry frame and its code)    *)
(*   tc       its C++ code has a v8::TryCatch, older than its JavaScript    *)
(*   caught   exception_ of that TryCatch                                   *)
(*   handler  the try statement its JavaScript is in                        *)
(*   carried  the exception a finally block of it will rethrow              *)
(***************************************************************************)
EXTENDS Integers, Sequences, FiniteSets

CONSTANT NoException

LastOf(s) == s[Len(s)]
Below(s) == SubSeq(s, 1, Len(s) - 1)

TryCatches(stk) == {i \in DOMAIN stk : stk[i].tc}
Handlers(stk, kind) == {i \in DOMAIN stk : stk[i].handler = kind}
IsNewest(i, stk) == i \in TryCatches(stk) /\ \A j \in TryCatches(stk) : j <= i

CatchesExternally_IgnoresCatch(i, stk) == IsNewest(i, stk)

(* ShouldReportException: the newest TryCatch catches, unless a catch        *)
(* handler of JavaScript is newer still.                                    *)
CatchesExternally(i, stk) ==
  IsNewest(i, stk) /\ \A j \in Handlers(stk, "catch") : j < i

(* catcher_ as DoThrow and ReThrow set it.                                  *)
CatcherOf(stk) ==
  IF \E i \in DOMAIN stk : CatchesExternally(i, stk)
    THEN CHOOSE i \in DOMAIN stk : CatchesExternally(i, stk)
    ELSE 0

IsExternallyCaught_IgnoresFinally(stk, t) == IsNewest(t.catcher, stk)

IsExternallyCaught(stk, t) ==
  /\ IsNewest(t.catcher, stk)
  /\ \A i \in Handlers(stk, "finally") : i < t.catcher

(* PropagatePendingExceptionToExternalTryCatch, its effect on exception_.   *)
Propagated(stk, t, e) ==
  IF IsExternallyCaught(stk, t) THEN [stk EXCEPT ![t.catcher].caught = e] ELSE stk

(* JavaScript that is newer than the TryCatch of frame i, once the          *)
(* JavaScript of the newest frame has been unwound.                         *)
JSNewerThan(stk, i) == \E j \in i .. Len(stk) - 1 : stk[j].js

(* OptionalRescheduleException forgets the exception when this was the      *)
(* bottom call, or when no JavaScript is left before it reaches its catcher. *)
Forgotten(stk, t) ==
  \/ t.depth = 1
  \/ IsExternallyCaught(stk, t) /\ ~JSNewerThan(stk, t.catcher)

Unregistered_CatcherStays(t, f) == t

(* ~TryCatch of frame f, when it has one.                                   *)
Unregistered(t, f) == IF f.tc THEN [t EXCEPT !.catcher = 0] ELSE t

Rescheduled_ExternalStays(stk, t, e) ==
  [scheduled |-> IF Forgotten(stk, t) THEN t.scheduled ELSE e,
   external  |-> IsExternallyCaught(stk, t),
   catcher   |-> t.catcher,
   depth     |-> t.depth - 1]

Rescheduled_DepthStays(stk, t, e) ==
  [scheduled |-> IF Forgotten(stk, t) THEN t.scheduled ELSE e,
   external  |-> IsExternallyCaught(stk, t) /\ ~Forgotten(stk, t),
   catcher   |-> t.catcher,
   depth     |-> t.depth]

(* EXCEPTION_BAILOUT_CHECK of an API function whose JavaScript ended with e. *)
Rescheduled(stk, t, e) ==
  [scheduled |-> IF Forgotten(stk, t) THEN t.scheduled ELSE e,
   external  |-> IsExternallyCaught(stk, t) /\ ~Forgotten(stk, t),
   catcher   |-> t.catcher,
   depth     |-> t.depth - 1]

(* EXCEPTION_PREAMBLE.                                                      *)
Entered(t) == [t EXCEPT !.depth = @ + 1]
=============================================================================

--------------------------- MODULE PerThreadState ---------------------------
(***************************************************************************)
(* What the Locker promises the threads that share an isolate               *)
(* (include/v8.h, Locker and TerminateExecution): each has a state of its   *)
(* own, its handles and its interrupt requests, that comes into being when  *)
(* the thread first locks and is there, as the thread left it, whenever the *)
(* thread is the one that uses V8.  A request made to the isolate is one to *)
(* the thread that uses V8, or did last; a request made to a thread reaches *)
(* that thread, and no other thread's state changes at all.  This is the    *)
(* abstract specification that ThreadManager implements.                    *)
(***************************************************************************)
EXTENDS Integers

CONSTANTS Thread, NoThread, Flag, MaxHandles

VARIABLES
  current,  \* the thread that uses V8 or did last, NoThread if it is gone
  state     \* of each thread

vars == <<current, state>>

Absent == [there |-> FALSE, handles |-> 0, postponed |-> 0, requests |-> {}]
Fresh == [Absent EXCEPT !.there = TRUE]

Init == current = NoThread /\ state = [t \in Thread |-> Absent]

SwitchTo(t) ==
  /\ current # t
  /\ current' = t
  /\ state' = [state EXCEPT ![t] = IF @.there THEN @ ELSE Fresh]

\* Nobody's turn: a thread that is not there yet is about to be.
Pause ==
  /\ current' = NoThread
  /\ UNCHANGED state

Leave(t) ==
  /\ current = t /\ state[t].handles = 0
  /\ current' = NoThread
  /\ state' = [state EXCEPT ![t] = Absent]

Work(t) ==
  /\ current = t
  /\ \E n \in 0 .. MaxHandles : state' = [state EXCEPT ![t].handles = n]
  /\ UNCHANGED current

Postpone(t) ==
  /\ current = t
  /\ \E n \in {-1, 1} : state' = [state EXCEPT ![t].postponed = @ + n]
  /\ UNCHANGED current

Request(flag) ==
  /\ current # NoThread
  /\ state' = [state EXCEPT ![current].requests = @ \cup {flag}]
  /\ UNCHANGED current

Terminate(t) ==
  /\ current # NoThread
  /\ state[t].there
  /\ state' = [state EXCEPT ![t].requests = @ \cup {"terminate"}]
  /\ UNCHANGED current

Serve(t, flag) ==
  /\ current = t
  /\ state' = [state EXCEPT ![t].requests = @ \ {flag}]
  /\ UNCHANGED current

Next ==
  \/ Pause
  \/ \E t \in Thread : SwitchTo(t) \/ Leave(t) \/ Work(t) \/ Postpone(t) \/ Terminate(t)
  \/ \E flag \in Flag : Request(flag) \/ \E t \in Thread : Serve(t, flag)

Spec == Init /\ [][Next]_vars
=============================================================================

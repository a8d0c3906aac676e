---------------------------- MODULE HandleStack ----------------------------
(***************************************************************************)
(* What V8 promises an embedder about handles (include/v8.h, HandleScope): *)
(* scopes are opened and closed like a stack, a handle belongs to the scope *)
(* that was innermost when it was made, it keeps its value as long as that *)
(* scope is open, and the handles of a deferred scope outlive it as a      *)
(* group until the group is destroyed.  No blocks, no pointers: this is the *)
(* abstract specification that HandleScopes implements.                    *)
(***************************************************************************)
EXTENDS Integers, Sequences

CONSTANTS Handle,   \* identities of handle cells
          Object    \* what a cell can hold

VARIABLES stack,    \* the open scopes, outermost first: [deferred, own]
          detached  \* the handle groups detached from deferred scopes

vars == <<stack, detached>>

NoHandles == [h \in {} |-> CHOOSE v \in Object : TRUE]

Live ==
  UNION ({DOMAIN stack[k].own : k \in DOMAIN stack} \cup {DOMAIN g : g \in detached})

Top == stack[Len(stack)]
Popped == SubSeq(stack, 1, Len(stack) - 1)
IsOpen == stack # <<>>

\* The cells of own with one more, h, that holds v.
With(own, h, v) ==
  [x \in DOMAIN own \cup {h} |-> IF x = h THEN v ELSE own[x]]

Init ==
  /\ stack = <<>>
  /\ detached = {}

Open(isDeferred) ==
  /\ stack' = Append(stack, [deferred |-> isDeferred, own |-> NoHandles])
  /\ UNCHANGED detached

\* A new handle is a cell that is not live.
Create ==
  /\ IsOpen
  /\ \E h \in Handle \ Live, v \in Object :
       stack' = [stack EXCEPT ![Len(stack)].own = With(@, h, v)]
  /\ UNCHANGED detached

Close ==
  /\ IsOpen
  /\ ~Top.deferred
  /\ stack' = Popped
  /\ UNCHANGED detached

\* The innermost scope loses its handles; one of their values survives in a
\* handle of the enclosing scope.  The scope itself is left (RawClose) or
\* stays open and empty (CloseAndEscape).
Escape(stays) ==
  /\ Len(stack) > 1
  /\ ~Top.deferred
  /\ \E old \in DOMAIN Top.own, h \in Handle :
       /\ h \notin Live \ DOMAIN Top.own
       /\ stack' = [Popped EXCEPT ![Len(stack) - 1].own = With(@, h, Top.own[old])]
                     \o IF stays THEN <<[Top EXCEPT !.own = NoHandles]>> ELSE <<>>
  /\ UNCHANGED detached

Detach ==
  /\ IsOpen
  /\ Top.deferred
  /\ stack' = Popped
  /\ detached' = detached \cup {Top.own}

\* Two empty groups are one group here, so a group may stay behind.
Destroy ==
  /\ \E g \in detached : detached' = detached \ {g}
  /\ UNCHANGED stack

Next ==
  \/ \E isDeferred \in BOOLEAN : Open(isDeferred)
  \/ Create
  \/ Close
  \/ \E stays \in BOOLEAN : Escape(stays)
  \/ Detach
  \/ Destroy

Spec == Init /\ [][Next]_vars
=============================================================================

----------------------------- MODULE StackGuard -----------------------------
(***************************************************************************)
(* The part of StackGuard that threads hand over to one another: operators *)
(* on a value g of StackGuard::ThreadLocal.  A module that has it as a      *)
(* variable says who applies them; each runs under ExecutionAccess.         *)
(*   real   real_jslimit_ and real_climit_: an address in a stack           *)
(*   limit  jslimit_ and climit_, which are always set together             *)
(*   nesting, flags   postpone_interrupts_nesting_ and interrupt_flags_     *)
(***************************************************************************)
EXTENDS Integers

CONSTANTS kIllegalLimit, kInterruptLimit,
          NoLimit  \* 0 in stack_limit_ of PerIsolateThreadData: none stored

Blank == [real |-> kIllegalLimit, limit |-> kIllegalLimit, nesting |-> 0, flags |-> {}]

\* StackGuard::Preempt, RequestGC, TerminateExecution: the flag is kept, the
\* limit is lowered unless interrupts are postponed.
Requested(g, flag) ==
  [g EXCEPT !.flags = @ \cup {flag},
            !.limit = IF g.nesting > 0 THEN @ ELSE kInterruptLimit]

ResetLimits(g) == [g EXCEPT !.limit = g.real]

\* Continue that takes the flag for the only one.
Continued_Always(g, flag) == ResetLimits([g EXCEPT !.flags = @ \ {flag}])

Continued(g, flag) ==
  LET without == [g EXCEPT !.flags = @ \ {flag}]
  IN  IF g.nesting = 0 /\ without.flags = {} THEN ResetLimits(without) ELSE without

\* PostponeInterruptsScope and its destructor.
Postponed(g) == ResetLimits([g EXCEPT !.nesting = @ + 1])

Resumed(g) ==
  LET less == [g EXCEPT !.nesting = @ - 1]
  IN  IF less.nesting = 0 /\ less.flags # {} THEN [less EXCEPT !.limit = kInterruptLimit]
      ELSE less

\* ThreadLocal::Initialize, limit being the one computed from where the stack
\* is: it keeps the limits of whoever was here before unless they are illegal.
Initialized(g, limit) ==
  [real    |-> IF g.real = kIllegalLimit THEN limit ELSE g.real,
   limit   |-> IF g.real = kIllegalLimit THEN limit ELSE g.limit,
   nesting |-> 0,
   flags   |-> {}]

\* StackGuard::SetStackLimit: the guard alone, never the copy in the heap.
SetStackLimit(g, limit) ==
  [g EXCEPT !.limit = IF @ = g.real THEN limit ELSE @, !.real = limit]

\* StackGuard::InitThread: a limit that is stored for the thread is set again.
InitThread(g, limit, stored) ==
  IF stored = NoLimit THEN Initialized(g, limit)
                      ELSE SetStackLimit(Initialized(g, limit), stored)
=============================================================================

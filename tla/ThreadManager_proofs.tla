------------------------ MODULE ThreadManager_proofs ------------------------
(***************************************************************************)
(* Proofs about ThreadManager: where the state of each thread is, what its  *)
(* guard says, and that together they are the states of PerThreadState, for *)
(* any number of threads, Lockers and Unlockers inside one another, and     *)
(* entries of the isolate.                                                  *)
(***************************************************************************)
EXTENDS ThreadManager, FiniteSetTheorems, SequenceTheorems, TLAPS

----------------------------------------------------------------------------
(* The invariant.                                                           *)

\* The types of all variables but stackLimit, which no step that archives or
\* restores a thread changes.
Types ==
  /\ owner \in Thread \cup {NoThread} /\ lazy \in Thread \cup {NoThread}
  /\ lazyState \in State \cup {NoState}
  /\ states \in [State -> [list : {"free", "out", "inUse"},
                           id : Thread \cup {NoThread}, terminate : BOOLEAN, data : Local]]
  /\ threadState \in [Thread -> State \cup {NoState}]
  /\ cur \in Local
  /\ heapLimit \in Limit \cup {kIllegalLimit, kInterruptLimit}
  /\ entries \in Seq(Nat \ {0}) /\ entered \subseteq Thread
  /\ \A t \in Thread : Len(scopes[t]) <= MaxScopes[t] + 1
  /\ pc \in [Thread -> {"run", "locks", "restores", "inits", "relocks", "rerestores",
                        "preempt", "terminate", "joins"}]
  /\ switcher \in {"none", "sleeps", "gone"} /\ keepGoing \in BOOLEAN

\* What is stored for a thread is a limit of its own stack.
StoredOK ==
  /\ stackLimit \in [Thread -> Limit \cup {NoLimit}]
  /\ \A t \in Thread : stackLimit[t] \in LimitsOf(t) \cup {NoLimit}

ScopeRecord ==
  [kind : {"locker", "unlocker", "isolate", "postpone"},
   hasLock : BOOLEAN, topLevel : BOOLEAN, back : {"run", "terminate"}]

ScopesOK ==
  /\ scopes \in [Thread -> Seq(ScopeRecord)]
  /\ \A t \in Thread : pc[t] \notin {"relocks", "rerestores"} => Len(scopes[t]) <= MaxScopes[t]

\* How scopes lie on one another in the stack st of a thread at p.
Nested(st, p) ==
  /\ \A k \in DOMAIN st :
       /\ st[k].kind = "locker" => (st[k].hasLock <=> (k = 1 \/ st[k - 1].kind = "unlocker"))
       /\ st[k].kind # "locker" => k > 1 /\ st[k - 1].kind # "unlocker"
       /\ st[k].kind = "locker" /\ st[k].hasLock /\ st[k].topLevel /\ k > 1 =>
            k = Len(st) /\ p \in {"locks", "restores"}
  /\ p \in {"locks", "restores", "inits"} =>
       st # <<>> /\ LastOf(st).kind = "locker" /\ LastOf(st).hasLock
  /\ p \in {"relocks", "rerestores"} => st # <<>> /\ LastOf(st).kind = "unlocker"
  /\ p \in {"preempt", "terminate", "joins"} => st # <<>> /\ LastOf(st).kind # "unlocker"

\* A thread has the lock from the time it gets it for a Locker, or again in
\* the destructor of an Unlocker.
Holds(st, p) ==
  \/ p \in {"restores", "inits", "rerestores", "preempt", "terminate", "joins"}
  \/ p = "run" /\ st # <<>> /\ LastOf(st).kind # "unlocker"

StacksOK == \A t \in Thread : Nested(scopes[t], pc[t]) /\ (owner = t <=> Holds(scopes[t], pc[t]))

\* The thread that is archived lazily has its ThreadState; there is none where
\* a thread uses V8.
LazyOK ==
  /\ lazy # NoThread => lazyState \in State /\ threadState[lazy] = lazyState
  /\ \A s \in State : states[s].list # "inUse" => ~states[s].terminate
  /\ owner # NoThread /\ pc[owner] \notin {"restores", "rerestores"} =>
       lazy = NoThread /\ threadState[owner] = NoState

Present(t) == t = Installed \/ threadState[t] # NoState
LocalOf(t) == IF t = Installed THEN cur ELSE states[threadState[t]].data

\* The scopes that postpone interrupts are the topmost n.
Postponing(st, n) ==
  n <= Len(st) /\ \A k \in DOMAIN st : st[k].kind = "postpone" <=> k > Len(st) - n

\* The guard g of thread t.
GuardOf(g, t) ==
  /\ g.real \in LimitsOf(t)
  /\ g.limit = IF g.flags # {} /\ g.nesting = 0 THEN kInterruptLimit ELSE g.real

\* The limit h in the heap where thread t has the guard g.
HeapOf(h, g, t) ==
  IF g.flags # {} /\ g.nesting = 0 THEN h = kInterruptLimit ELSE h \in LimitsOf(t)

PresentOK ==
  \A t \in Thread :
    IF Present(t)
      THEN GuardOf(LocalOf(t).guard, t) /\ Postponing(scopes[t], LocalOf(t).guard.nesting)
      ELSE Len(scopes[t]) <= 1

IsolateOK ==
  /\ Installed # NoThread => HeapOf(heapLimit, cur.guard, Installed)
  /\ Installed = NoThread => cur.handles = 0
  /\ owner # NoThread /\ pc[owner] = "preempt" => cur.guard.nesting = 0

IInv ==
  Types /\ ScopesOK /\ StacksOK /\ StatesAccounted /\ LazyOK /\ PresentOK /\ IsolateOK

----------------------------------------------------------------------------
(* Guards.                                                                  *)

\* The limits of the stack of a thread.
LEMMA LimitFacts ==
  ASSUME NEW t \in Thread
  PROVE  /\ LimitsOf(t) \subseteq Limit
         /\ kIllegalLimit \notin LimitsOf(t) /\ kInterruptLimit \notin LimitsOf(t)
         /\ NoLimit \notin LimitsOf(t)
<1>1. LimitsOf(t) \subseteq Limit
  BY DEF Limit
<1>2. {kIllegalLimit, kInterruptLimit, NoLimit} \cap LimitsOf(t) = {}
  BY LimitAssumption
<1> HIDE DEF LimitsOf
<1> QED BY <1>1, <1>2

\* The copy of the guard's own limit is right.
LEMMA HeapIs ==
  ASSUME NEW t \in Thread, NEW g, GuardOf(g, t)
  PROVE  HeapOf(g.limit, g, t)
BY DEF GuardOf, HeapOf

\* The type of the limit in the heap.
LEMMA HeapIn ==
  ASSUME NEW t \in Thread, NEW g, NEW h, HeapOf(h, g, t)
  PROVE  h \in Limit \cup {kIllegalLimit, kInterruptLimit}
<1>1. LimitsOf(t) \subseteq Limit
  BY LimitFacts
<1> HIDE DEF Limit, LimitsOf
<1> QED BY <1>1 DEF HeapOf

\* A thread is initialised: from a guard that is blank one of its own comes.
LEMMA GuardInited ==
  ASSUME NEW g \in Guard, NEW t \in Thread, NEW limit \in LimitsOf(t),
         NEW stored \in LimitsOf(t) \cup {NoLimit}
  PROVE  /\ InitThread(g, limit, stored) \in Guard
         /\ LET new == InitThread(Blank, limit, stored)
            IN  new.real \in LimitsOf(t) /\ new.limit = new.real /\ new.nesting = 0 /\ new.flags = {}
<1>1. limit \in Limit /\ (stored # NoLimit => stored \in Limit /\ stored \in LimitsOf(t))
  BY LimitFacts
<1> HIDE DEF Limit, LimitsOf
<1>2. InitThread(g, limit, stored) \in Guard
  <2> DEFINE h == Initialized(g, limit)
  <2>1. h \in Guard
    BY <1>1 DEF Guard, Initialized
  <2> HIDE DEF h
  <2>2. stored # NoLimit => SetStackLimit(h, stored) \in Guard
    <3> SUFFICES ASSUME stored # NoLimit PROVE SetStackLimit(h, stored) \in Guard
      OBVIOUS
    <3> DEFINE low == IF h.limit = h.real THEN stored ELSE h.limit
    <3> DEFINE k == [h EXCEPT !.limit = low]
    <3>0. k = [real |-> h.real, limit |-> low, nesting |-> h.nesting, flags |-> h.flags]
      BY <2>1 DEF Guard
    <3>3. SetStackLimit(h, stored) = [k EXCEPT !.real = stored]
      BY DEF SetStackLimit
    <3> HIDE DEF low, k
    <3>1. SetStackLimit(h, stored) =
            [real |-> stored, limit |-> low, nesting |-> h.nesting, flags |-> h.flags]
      BY <3>0, <3>3
    <3>2. /\ low \in Limit \cup {kIllegalLimit, kInterruptLimit} /\ h.nesting \in Nat
          /\ h.flags \in SUBSET {"preempt", "terminate"}
      BY <1>1, <2>1 DEF Guard, low
    <3> QED BY <1>1, <3>1, <3>2 DEF Guard
  <2> QED BY <2>1, <2>2 DEF InitThread, h
<1>3. Initialized(Blank, limit) = [real |-> limit, limit |-> limit, nesting |-> 0, flags |-> {}]
  BY DEF Initialized, Blank
<1>4. LET new == InitThread(Blank, limit, stored)
      IN  new.real \in LimitsOf(t) /\ new.limit = new.real /\ new.nesting = 0 /\ new.flags = {}
  BY <1>1, <1>3 DEF InitThread, SetStackLimit
<1> QED BY <1>2, <1>4

\* Every function on guards returns a guard, ResumeInterrupts where the nesting is not 0.
LEMMA GuardTypes ==
  ASSUME NEW g \in Guard
  PROVE  /\ \A f \in {"preempt", "terminate"} : Requested(g, f) \in Guard /\ Continued(g, f) \in Guard
         /\ Blank \in Guard /\ Postponed(g) \in Guard
         /\ g.nesting > 0 => Resumed(g) \in Guard
<1>1. \A f \in {"preempt", "terminate"} : Requested(g, f) \in Guard /\ Continued(g, f) \in Guard
  BY DEF Guard, Requested, Continued, ResetLimits
<1>2. Blank \in Guard
  BY DEF Guard, Blank
<1>3. Postponed(g) \in Guard
  <2>1. Postponed(g) = [real |-> g.real, limit |-> g.real, nesting |-> g.nesting + 1, flags |-> g.flags]
    <3> DEFINE h == [g EXCEPT !.nesting = @ + 1]
    <3>1. h = [real |-> g.real, limit |-> g.limit, nesting |-> g.nesting + 1, flags |-> g.flags]
      BY DEF Guard
    <3>2. Postponed(g) = [h EXCEPT !.limit = h.real]
      BY DEF Postponed, ResetLimits
    <3> HIDE DEF h
    <3> QED BY <3>1, <3>2
  <2>2. g.real \in Limit \cup {kIllegalLimit} /\ g.nesting + 1 \in Nat
        /\ g.flags \in SUBSET {"preempt", "terminate"}
    BY DEF Guard
  <2> QED BY <2>1, <2>2 DEF Guard
<1>4. g.nesting > 0 => Resumed(g) \in Guard
  <2> SUFFICES ASSUME g.nesting > 0 PROVE Resumed(g) \in Guard
    OBVIOUS
  <2> DEFINE limit == IF g.nesting - 1 = 0 /\ g.flags # {} THEN kInterruptLimit ELSE g.limit
  <2>1. Resumed(g) = [real |-> g.real, limit |-> limit, nesting |-> g.nesting - 1, flags |-> g.flags]
    BY DEF Guard, Resumed
  <2>2. /\ g.real \in Limit \cup {kIllegalLimit} /\ g.nesting - 1 \in Nat
        /\ limit \in Limit \cup {kIllegalLimit, kInterruptLimit}
        /\ g.flags \in SUBSET {"preempt", "terminate"}
    BY DEF Guard
  <2> HIDE DEF limit
  <2> QED BY <2>1, <2>2 DEF Guard
<1> QED BY <1>1, <1>2, <1>3, <1>4

\* Every operation of the guard keeps the limit right.
LEMMA GuardKept ==
  ASSUME NEW g \in Guard, NEW t \in Thread, GuardOf(g, t), NEW f \in {"preempt", "terminate"}
  PROVE  /\ GuardOf(Requested(g, f), t) /\ GuardOf(Continued(g, f), t) /\ GuardOf(Postponed(g), t)
         /\ g.nesting > 0 => GuardOf(Resumed(g), t)
<1>1. GuardOf(Requested(g, f), t)
  BY DEF Guard, GuardOf, Requested
<1>2. GuardOf(Continued(g, f), t)
  BY DEF Guard, GuardOf, Continued, ResetLimits
<1>3. GuardOf(Postponed(g), t)
  BY DEF Guard, GuardOf, Postponed, ResetLimits
<1>4. g.nesting > 0 => GuardOf(Resumed(g), t)
  BY DEF Guard, GuardOf, Resumed
<1> QED BY <1>1, <1>2, <1>3, <1>4

\* What the operations of the guard do to its other fields.
LEMMA GuardFields ==
  ASSUME NEW g \in Guard, NEW t \in Thread, NEW f \in {"preempt", "terminate"}
  PROVE  /\ Requested(g, f).nesting = g.nesting /\ Requested(g, f).flags = g.flags \cup {f}
         /\ Continued(g, f).nesting = g.nesting /\ Continued(g, f).flags = g.flags \ {f}
         /\ Postponed(g).nesting = g.nesting + 1 /\ Postponed(g).flags = g.flags
         /\ Resumed(g).nesting = g.nesting - 1 /\ Resumed(g).flags = g.flags
<1>1. Requested(g, f).nesting = g.nesting /\ Requested(g, f).flags = g.flags \cup {f}
  BY DEF Guard, Requested
<1>2. Continued(g, f).nesting = g.nesting /\ Continued(g, f).flags = g.flags \ {f}
  BY DEF Guard, Continued, ResetLimits
<1>3. Postponed(g).nesting = g.nesting + 1 /\ Postponed(g).flags = g.flags
  BY DEF Guard, Postponed, ResetLimits
<1>4. Resumed(g).nesting = g.nesting - 1 /\ Resumed(g).flags = g.flags
  BY DEF Guard, Resumed
<1> QED BY <1>1, <1>2, <1>3, <1>4

----------------------------------------------------------------------------
(* Stacks of scopes.                                                        *)

\* What is left of a stack of scopes when its last one is closed.
LEMMA PopFacts ==
  ASSUME NEW st \in Seq(ScopeRecord), st # <<>>
  PROVE  /\ Pop(st) \in Seq(ScopeRecord) /\ Len(Pop(st)) = Len(st) - 1
         /\ \A k \in 1..(Len(st) - 1) : Pop(st)[k] = st[k]
         /\ Pop(st) # <<>> <=> Len(st) > 1
<1>1. Len(st) \in Nat \ {0}
  OBVIOUS
<1> DEFINE n == Len(st) - 1
<1>2. 1 \in Int /\ n \in Nat /\ \A k \in 1..n : st[k] \in ScopeRecord
  BY <1>1
<1>3. Pop(st) = SubSeq(st, 1, n)
  BY DEF Pop
<1>4. n - 1 + 1 = n /\ \A k \in 1..n : 1 + k - 1 = k
  BY <1>2
<1> HIDE DEF n, ScopeRecord
<1>5. /\ Pop(st) \in Seq(ScopeRecord)
      /\ Len(Pop(st)) = IF 1 <= n THEN n - 1 + 1 ELSE 0
      /\ \A k \in 1..(n - 1 + 1) : Pop(st)[k] = st[1 + k - 1]
  BY <1>2, <1>3, SubSeqProperties
<1>6. /\ Pop(st) \in Seq(ScopeRecord) /\ Len(Pop(st)) = n
      /\ \A k \in 1..n : Pop(st)[k] = st[k]
  BY <1>2, <1>4, <1>5
<1> QED BY <1>1, <1>6 DEF n

\* A scope is put on top.
LEMMA PushNested ==
  ASSUME NEW st \in Seq(ScopeRecord), NEW p, Nested(st, p), p \notin {"locks", "restores"},
         NEW r \in ScopeRecord, NEW q,
         r.kind = "locker" => (r.hasLock <=> (st = <<>> \/ LastOf(st).kind = "unlocker")),
         r.kind # "locker" => st # <<>> /\ LastOf(st).kind # "unlocker",
         r.kind = "locker" /\ r.hasLock /\ r.topLevel => q \in {"locks", "restores"},
         q \in {"locks", "restores", "inits"} => r.kind = "locker" /\ r.hasLock,
         q \in {"relocks", "rerestores"} => r.kind = "unlocker",
         q \in {"preempt", "terminate", "joins"} => r.kind # "unlocker"
  PROVE  Nested(Append(st, r), q)
<1> DEFINE new == Append(st, r)
<1>1. /\ new \in Seq(ScopeRecord) /\ Len(new) = Len(st) + 1 /\ new # <<>>
      /\ DOMAIN new = 1..(Len(st) + 1) /\ DOMAIN st = 1..Len(st) /\ Len(st) \in Nat
      /\ new[Len(st) + 1] = r /\ \A k \in 1..Len(st) : new[k] = st[k]
  OBVIOUS
<1>0. LastOf(new) = r
  BY <1>1 DEF LastOf
<1>2. \A k \in DOMAIN new :
        /\ new[k].kind = "locker" => (new[k].hasLock <=> (k = 1 \/ new[k - 1].kind = "unlocker"))
        /\ new[k].kind # "locker" => k > 1 /\ new[k - 1].kind # "unlocker"
        /\ new[k].kind = "locker" /\ new[k].hasLock /\ new[k].topLevel /\ k > 1 =>
             k = Len(new) /\ q \in {"locks", "restores"}
  <2> SUFFICES ASSUME NEW k \in DOMAIN new
               PROVE  /\ new[k].kind = "locker" => (new[k].hasLock <=> (k = 1 \/ new[k - 1].kind = "unlocker"))
                      /\ new[k].kind # "locker" => k > 1 /\ new[k - 1].kind # "unlocker"
                      /\ new[k].kind = "locker" /\ new[k].hasLock /\ new[k].topLevel /\ k > 1 =>
                           k = Len(new) /\ q \in {"locks", "restores"}
    OBVIOUS
  <2>1. CASE k <= Len(st)
    <3>1. k \in DOMAIN st /\ new[k] = st[k] /\ (k > 1 => new[k - 1] = st[k - 1])
      BY <1>1, <2>1
    <3> HIDE DEF new
    <3> QED BY <1>1, <2>1, <3>1 DEF Nested
  <2>2. CASE k = Len(st) + 1
    <3>1. new[k] = r /\ (st = <<>> <=> k = 1)
      BY <1>1, <2>2
    <3>2. st # <<>> => new[k - 1] = LastOf(st)
      <4>1. st # <<>> => Len(st) \in 1..Len(st) /\ k - 1 = Len(st)
        BY <1>1, <2>2
      <4> HIDE DEF new
      <4> QED BY <1>1, <4>1 DEF LastOf
    <3> HIDE DEF new
    <3> QED BY <1>1, <2>2, <3>1, <3>2
  <2> QED BY <1>1, <2>1, <2>2
<1> HIDE DEF new
<1>3. Nested(new, q)
  BY <1>0, <1>1, <1>2 DEF Nested
<1> QED BY <1>3 DEF new

\* The topmost scope is taken away.
LEMMA PopNested ==
  ASSUME NEW st \in Seq(ScopeRecord), st # <<>>, NEW p, Nested(st, p), p \notin {"locks", "restores"},
         NEW q \in {"run", "terminate"}, q = "terminate" => LastOf(st).kind = "unlocker"
  PROVE  Nested(Pop(st), q)
<1> DEFINE new == Pop(st)
<1>1. /\ new \in Seq(ScopeRecord) /\ Len(new) = Len(st) - 1
      /\ \A k \in DOMAIN new : new[k] = st[k] /\ k \in DOMAIN st /\ (k > 1 => new[k - 1] = st[k - 1])
      /\ Len(st) > 1 => new # <<>> /\ LastOf(new) = st[Len(st) - 1]
      /\ Len(st) \in Nat \ {0} /\ Len(st) \in DOMAIN st
  <2>1. /\ new \in Seq(ScopeRecord) /\ Len(new) = Len(st) - 1 /\ (new # <<>> <=> Len(st) > 1)
        /\ \A k \in 1..(Len(st) - 1) : new[k] = st[k]
    BY PopFacts
  <2>2. Len(st) \in Nat \ {0} /\ DOMAIN st = 1..Len(st)
    OBVIOUS
  <2> HIDE DEF new, ScopeRecord
  <2>3. DOMAIN new = 1..(Len(st) - 1)
    BY <2>1, <2>2
  <2> QED BY <2>1, <2>2, <2>3 DEF LastOf
<1> HIDE DEF new
<1>2. \A k \in DOMAIN new :
        /\ new[k].kind = "locker" => (new[k].hasLock <=> (k = 1 \/ new[k - 1].kind = "unlocker"))
        /\ new[k].kind # "locker" => k > 1 /\ new[k - 1].kind # "unlocker"
        /\ ~(new[k].kind = "locker" /\ new[k].hasLock /\ new[k].topLevel /\ k > 1)
  BY <1>1 DEF Nested
<1>3. q = "terminate" => new # <<>> /\ LastOf(new).kind # "unlocker"
  BY <1>1 DEF Nested, LastOf
<1>4. Nested(new, q)
  BY <1>2, <1>3 DEF Nested
<1> QED BY <1>4 DEF new

\* What lies below the top: the thread has the lock below a scope that is not
\* a Locker that took it, or below an Unlocker.
LEMMA BelowTop ==
  ASSUME NEW st \in Seq(ScopeRecord), st # <<>>, NEW p, Nested(st, p)
  PROVE  /\ Holds(Pop(st), "run") <=> LastOf(st).kind # "locker" \/ ~LastOf(st).hasLock
         /\ LastOf(st).kind # "locker" => Len(st) > 1
<1> DEFINE n == Len(st)
<1>1. n \in Nat \ {0} /\ n \in DOMAIN st /\ LastOf(st) = st[n]
  BY DEF LastOf
<1>2. Pop(st) # <<>> <=> n > 1
  BY PopFacts
<1>3. n > 1 => LastOf(Pop(st)) = st[n - 1]
  BY <1>1, PopFacts DEF LastOf
<1> HIDE DEF n
<1> QED BY <1>1, <1>2, <1>3 DEF Nested, Holds, n

\* A new scope: the scopes that postpone interrupts stay on top, and are counted.
LEMMA PushPostponing ==
  ASSUME NEW st \in Seq(ScopeRecord), NEW n \in Nat, Postponing(st, n), NEW r \in ScopeRecord
  PROVE  /\ r.kind # "postpone" /\ (st # <<>> => LastOf(st).kind # "postpone") =>
              Postponing(Append(st, r), n) /\ n = 0
         /\ r.kind = "postpone" => Postponing(Append(st, r), n + 1)
<1>1. /\ Len(Append(st, r)) = Len(st) + 1 /\ Len(st) \in Nat
      /\ Append(st, r)[Len(st) + 1] = r /\ \A k \in 1..Len(st) : Append(st, r)[k] = st[k]
      /\ DOMAIN Append(st, r) = 1..(Len(st) + 1) /\ DOMAIN st = 1..Len(st)
      /\ st = <<>> <=> Len(st) = 0
  OBVIOUS
<1>2. (st # <<>> => LastOf(st).kind # "postpone") => n = 0
  BY <1>1 DEF Postponing, LastOf
<1> QED BY <1>1, <1>2 DEF Postponing

\* The last scope is closed: one that postpones takes its count along, and where another
\* kind is on top nothing is postponed.
LEMMA PopPostponing ==
  ASSUME NEW st \in Seq(ScopeRecord), st # <<>>, NEW n \in Nat, Postponing(st, n)
  PROVE  /\ LastOf(st).kind # "postpone" => Postponing(Pop(st), n) /\ n = 0
         /\ LastOf(st).kind = "postpone" => n > 0 /\ Postponing(Pop(st), n - 1)
<1>1. /\ Len(Pop(st)) = Len(st) - 1 /\ Len(st) \in Nat \ {0}
      /\ \A k \in 1..(Len(st) - 1) : Pop(st)[k] = st[k]
      /\ DOMAIN Pop(st) = 1..(Len(st) - 1) /\ DOMAIN st = 1..Len(st)
  BY PopFacts
<1>2. LastOf(st).kind = "postpone" <=> n > 0
  BY <1>1 DEF Postponing, LastOf
<1> QED BY <1>1, <1>2 DEF Postponing

----------------------------------------------------------------------------
(* Archiving and restoring.                                                 *)

Data ==
  /\ lazy \in Thread \cup {NoThread} /\ lazyState \in State \cup {NoState}
  /\ states \in [State -> [list : {"free", "out", "inUse"},
                           id : Thread \cup {NoThread}, terminate : BOOLEAN, data : Local]]
  /\ threadState \in [Thread -> State \cup {NoState}]
  /\ cur \in Local
  /\ heapLimit \in Limit \cup {kIllegalLimit, kInterruptLimit}

\* What StateOf shows of a thread with the local data d.
Here == TRUE
Shown(d, more) ==
  [there |-> Here, handles |-> d.handles, postponed |-> d.guard.nesting,
   requests |-> d.guard.flags \cup more]

\* The state of thread u, from where it is archived.
Seen(u) ==
  IF u = Installed THEN Shown(cur, {})
  ELSE IF threadState[u] = NoState THEN PerThread!Absent
  ELSE Shown(states[threadState[u]].data,
             IF states[threadState[u]].terminate THEN {"terminate"} ELSE {})

\* The refinement mapping, case by case.
LEMMA StateOfIs == \A u : StateOf(u) = Seen(u)
BY DEF StateOf, Shown, Here, Seen, PerThread!Absent

\* The same after a step.
LEMMA StateOfIsNext == \A u : StateOf(u)' = Seen(u)'
<1>1. (\A u : StateOf(u) = Seen(u))'
  BY StateOfIs, PTL
<1> QED BY <1>1

\* The state of thread u stays what it is, and its guard right.
Kept(u) ==
  /\ Present(u)' <=> Present(u)
  /\ Present(u) => /\ GuardOf(LocalOf(u).guard, u)'
                   /\ LocalOf(u).guard.nesting' = LocalOf(u).guard.nesting
  /\ StateOf(u)' = StateOf(u)

\* A thread that gives up the lock is archived: what it has in the isolate is
\* still what it has, and nobody else is concerned.
LEMMA Archived ==
  ASSUME IInv, NEW t \in Thread, owner = t, pc[t] \notin {"restores", "inits", "rerestores"},
         ArchiveThread(t), owner' = NoThread,
         cur' \in Local, heapLimit' \in Limit \cup {kIllegalLimit, kInterruptLimit}
  PROVE  /\ (Data /\ StatesAccounted /\ LazyOK)'
         /\ Installed = t /\ Installed' = t
         /\ \A u \in Thread \ {t} : Kept(u)
<1>1. PICK s \in State :
        /\ states[s].list = "free"
        /\ states' = [states EXCEPT ![s].list = "out", ![s].id = t]
        /\ threadState' = [threadState EXCEPT ![t] = s]
        /\ lazy' = t /\ lazyState' = s
  BY DEF ArchiveThread, FreeStates
<1>2. t # NoThread /\ s # NoState /\ lazy = NoThread /\ threadState[t] = NoState
  BY ThreadAssumption DEF IInv, LazyOK
<1>3. Installed = t /\ Installed' = t
  BY <1>1, <1>2 DEF Installed
<1>4. /\ states \in [State -> [list : {"free", "out", "inUse"},
                               id : Thread \cup {NoThread}, terminate : BOOLEAN, data : Local]]
      /\ threadState \in [Thread -> State \cup {NoState}]
  BY DEF IInv, Types
<1>5. /\ states' \in [State -> [list : {"free", "out", "inUse"},
                                id : Thread \cup {NoThread}, terminate : BOOLEAN, data : Local]]
      /\ \A x \in State : x # s => states'[x] = states[x]
      /\ states'[s].list = "out" /\ states'[s].id = t
      /\ states'[s].terminate = states[s].terminate /\ states'[s].data = states[s].data
  <2> HIDE DEF Local
  <2> QED BY <1>1, <1>4
<1>6. /\ threadState' \in [Thread -> State \cup {NoState}]
      /\ threadState'[t] = s /\ \A u \in Thread : u # t => threadState'[u] = threadState[u]
  BY <1>1, <1>4
<1>7. Data'
  BY <1>1, <1>5, <1>6 DEF Data
<1>8. \A u \in Thread : threadState[u] # s
  BY <1>1, <1>2, <1>4 DEF IInv, StatesAccounted
<1>9. StatesAccounted'
  <2>1. ASSUME NEW u \in Thread, threadState'[u] # NoState
        PROVE  /\ states'[threadState'[u]].id = u
               /\ states'[threadState'[u]].list = IF lazy' = u THEN "out" ELSE "inUse"
    <3>1. CASE u = t
      BY <1>1, <1>5, <1>6, <3>1
    <3>2. CASE u # t
      <4>1. threadState'[u] = threadState[u] /\ threadState[u] \in State /\ threadState[u] # s
        BY <1>4, <1>6, <1>8, <2>1, <3>2
      <4>2. states[threadState[u]].id = u /\ states[threadState[u]].list = "inUse"
        BY <1>2, <2>1, <4>1, ThreadAssumption DEF IInv, StatesAccounted
      <4> QED BY <1>1, <1>5, <3>2, <4>1, <4>2
    <3> QED BY <3>1, <3>2
  <2>2. ASSUME NEW x \in State, states'[x].list \in {"out", "inUse"}
        PROVE  states'[x].id # NoThread /\ threadState'[states'[x].id] = x
    <3>1. CASE x = s
      BY <1>2, <1>5, <1>6, <3>1
    <3>2. CASE x # s
      <4>1. states[x].id # NoThread /\ threadState[states[x].id] = x /\ states[x].id \in Thread
        BY <1>4, <1>5, <2>2, <3>2 DEF IInv, StatesAccounted
      <4>2. states[x].id # t
        BY <1>2, <4>1, ThreadAssumption
      <4> QED BY <1>5, <1>6, <3>2, <4>1, <4>2
    <3> QED BY <3>1, <3>2
  <2>3. ASSUME NEW x \in State, states'[x].list = "free" PROVE ~states'[x].terminate
    BY <1>5, <2>3 DEF IInv, StatesAccounted
  <2> QED BY <2>1, <2>2, <2>3 DEF StatesAccounted
<1>10. LazyOK'
  BY <1>1, <1>5, <1>6 DEF IInv, LazyOK, StatesAccounted
<1>11. ASSUME NEW u \in Thread \ {t} PROVE Kept(u)
  <2>1. u # Installed /\ u # Installed' /\ threadState'[u] = threadState[u]
    BY <1>3, <1>6
  <2>2. threadState[u] # NoState => states'[threadState[u]] = states[threadState[u]]
    BY <1>4, <1>5, <1>8
  <2>3. Present(u)' <=> Present(u)
    BY <2>1 DEF Present
  <2>4. Present(u) => LocalOf(u)' = LocalOf(u)
    BY <2>1, <2>2 DEF LocalOf, Present
  <2>6. StateOf(u)' = StateOf(u)
    BY <2>1, <2>2, StateOfIs, StateOfIsNext DEF Seen, Shown, PerThread!Absent
  <2>7. Present(u) => GuardOf(LocalOf(u).guard, u)
    BY DEF IInv, PresentOK
  <2> QED BY <2>3, <2>4, <2>6, <2>7 DEF Kept, GuardOf
<1> QED BY <1>3, <1>7, <1>9, <1>10, <1>11
\* A thread that finds its state still in the isolate has it again.
LEMMA RestoredLazily ==
  ASSUME IInv, NEW t \in Thread, owner = t, pc[t] \in {"restores", "rerestores"},
         RestoreLazily(t), owner' = t, pc'[t] \notin {"restores", "inits", "rerestores"}
  PROVE  /\ (Data /\ StatesAccounted /\ LazyOK)'
         /\ Installed = t /\ Installed' = t /\ HeapOf(heapLimit', cur'.guard, t)
         /\ \A u \in Thread : Kept(u)
<1>1. /\ lazy = t /\ lazy' = NoThread /\ lazyState' = NoState /\ heapLimit' = heapLimit
      /\ states' = [states EXCEPT ![lazyState].list = "free", ![lazyState].id = NoThread]
      /\ threadState' = [threadState EXCEPT ![t] = NoState]
      /\ cur' = [cur EXCEPT !.id = EnteredAs(t, @)]
  BY DEF RestoreLazily, NoLongerLazy
<1>2. t # NoThread
  BY ThreadAssumption
<1>3. Installed = t /\ Installed' = t
  BY <1>1, <1>2 DEF Installed
<1>4. /\ states \in [State -> [list : {"free", "out", "inUse"},
                               id : Thread \cup {NoThread}, terminate : BOOLEAN, data : Local]]
      /\ threadState \in [Thread -> State \cup {NoState}]
      /\ lazyState \in State /\ threadState[t] = lazyState /\ states[lazyState].list = "out"
      /\ states[lazyState].id = t /\ ~states[lazyState].terminate
  BY <1>1, <1>2, ThreadAssumption DEF IInv, Types, LazyOK, StatesAccounted
<1>5. /\ states' \in [State -> [list : {"free", "out", "inUse"},
                                id : Thread \cup {NoThread}, terminate : BOOLEAN, data : Local]]
      /\ \A x \in State : x # lazyState => states'[x] = states[x]
      /\ states'[lazyState].list = "free" /\ ~states'[lazyState].terminate
  <2> HIDE DEF Local
  <2>1. /\ states' \in [State -> [list : {"free", "out", "inUse"},
                                id : Thread \cup {NoThread}, terminate : BOOLEAN, data : Local]]
        /\ \A x \in State : x # lazyState => states'[x] = states[x]
    <3>1. states[lazyState] \in [list : {"free", "out", "inUse"}, id : Thread \cup {NoThread},
                                 terminate : BOOLEAN, data : Local]
      BY <1>4
    <3>2. [states[lazyState] EXCEPT !.list = "free", !.id = NoThread] \in
            [list : {"free", "out", "inUse"}, id : Thread \cup {NoThread},
             terminate : BOOLEAN, data : Local]
      BY <3>1
    <3>3. states' = [states EXCEPT ![lazyState] =
                       [states[lazyState] EXCEPT !.list = "free", !.id = NoThread]]
      BY <1>1, <1>4
    <3> QED BY <1>4, <3>2, <3>3
  <2>2. states'[lazyState].list = "free" /\ states'[lazyState].terminate = states[lazyState].terminate
    BY <1>1, <1>4
  <2> QED BY <1>4, <2>1, <2>2
<1>6. /\ threadState' \in [Thread -> State \cup {NoState}]
      /\ threadState'[t] = NoState /\ \A u \in Thread : u # t => threadState'[u] = threadState[u]
  BY <1>1, <1>4
<1>7. cur' \in Local /\ cur'.guard = cur.guard /\ cur'.handles = cur.handles
  BY <1>1 DEF Local, EnteredAs, IInv, Types
<1>8. Data'
  BY <1>1, <1>5, <1>6, <1>7 DEF Data, IInv, Types
<1>9. \A u \in Thread : u # t => threadState[u] # lazyState
  BY <1>1, <1>4, ThreadAssumption DEF IInv, StatesAccounted
<1>10. StatesAccounted'
  <2>1. ASSUME NEW u \in Thread, threadState'[u] # NoState
        PROVE  /\ states'[threadState'[u]].id = u
               /\ states'[threadState'[u]].list = IF lazy' = u THEN "out" ELSE "inUse"
    <3>1. u # t /\ threadState'[u] = threadState[u] /\ threadState[u] \in State
          /\ threadState[u] # lazyState
      BY <1>4, <1>6, <1>9, <2>1
    <3>2. states[threadState[u]].id = u /\ states[threadState[u]].list = "inUse"
      BY <1>1, <2>1, <3>1 DEF IInv, StatesAccounted
    <3> QED BY <1>1, <1>5, <3>1, <3>2, ThreadAssumption
  <2>2. ASSUME NEW x \in State, states'[x].list \in {"out", "inUse"}
        PROVE  states'[x].id # NoThread /\ threadState'[states'[x].id] = x
    <3>1. x # lazyState
      BY <1>5, <2>2
    <3>2. states[x].id # NoThread /\ threadState[states[x].id] = x /\ states[x].id \in Thread
      BY <1>4, <1>5, <2>2, <3>1 DEF IInv, StatesAccounted
    <3>3. states[x].id # t
      BY <1>4, <3>1, <3>2
    <3> QED BY <1>5, <1>6, <3>1, <3>2, <3>3
  <2>3. ASSUME NEW x \in State, states'[x].list = "free" PROVE ~states'[x].terminate
    BY <1>5, <2>3 DEF IInv, StatesAccounted
  <2> QED BY <2>1, <2>2, <2>3 DEF StatesAccounted
<1>11. LazyOK'
  <2>1. \A x \in State : states'[x].list # "inUse" => ~states'[x].terminate
    BY <1>5 DEF IInv, LazyOK
  <2> QED BY <1>1, <1>6, <2>1 DEF LazyOK
<1>12. HeapOf(heapLimit', cur'.guard, t)
  BY <1>1, <1>2, <1>3, <1>7 DEF IInv, IsolateOK
<1>13. ASSUME NEW u \in Thread PROVE Kept(u)
  <2>1. CASE u = t
    <3>1. Present(u) /\ Present(u)' /\ LocalOf(u) = cur /\ LocalOf(u)' = cur'
      BY <1>3, <2>1 DEF Present, LocalOf
    <3>2. StateOf(u)' = StateOf(u)
      BY <1>3, <1>7, <2>1, StateOfIs, StateOfIsNext DEF Seen, Shown
    <3>3. GuardOf(cur.guard, u)
      BY <3>1 DEF IInv, PresentOK
    <3> QED BY <1>7, <3>1, <3>2, <3>3 DEF Kept, GuardOf
  <2>2. CASE u # t
    <3>1. u # Installed /\ u # Installed' /\ threadState'[u] = threadState[u]
      BY <1>3, <1>6, <2>2
    <3>2. threadState[u] # NoState => states'[threadState[u]] = states[threadState[u]]
      BY <1>4, <1>5, <1>9, <2>2
    <3>3. Present(u)' <=> Present(u)
      BY <3>1 DEF Present
    <3>4. Present(u) => LocalOf(u)' = LocalOf(u)
      BY <3>1, <3>2 DEF LocalOf, Present
    <3>5. StateOf(u)' = StateOf(u)
      BY <3>1, <3>2, StateOfIs, StateOfIsNext DEF Seen, Shown, PerThread!Absent
    <3>6. Present(u) => GuardOf(LocalOf(u).guard, u)
      BY DEF IInv, PresentOK
    <3> QED BY <3>3, <3>4, <3>5, <3>6 DEF Kept, GuardOf
  <2> QED BY <2>1, <2>2
<1> QED BY <1>3, <1>8, <1>10, <1>11, <1>12, <1>13

\* What EagerlyArchiveThread leaves: the thread that was archived lazily, if
\* any, has its state on the list of those in use.
LEMMA EagerlyFacts ==
  ASSUME IInv
  PROVE  /\ EagerlyArchived \in [State -> [list : {"free", "out", "inUse"},
                              id : Thread \cup {NoThread}, terminate : BOOLEAN, data : Local]]
         /\ \A x \in State :
              /\ EagerlyArchived[x].id = states[x].id
              /\ EagerlyArchived[x].terminate = states[x].terminate
              /\ states[x].list = "free" <=> EagerlyArchived[x].list = "free"
              /\ EagerlyArchived[x].list # "out"
              /\ EagerlyArchived[x].data = IF lazy # NoThread /\ x = lazyState THEN cur ELSE states[x].data
<1>1. /\ states \in [State -> [list : {"free", "out", "inUse"},
                               id : Thread \cup {NoThread}, terminate : BOOLEAN, data : Local]]
      /\ cur \in Local
  BY DEF IInv, Types
<1>2. \A x \in State : states[x].list = "out" => lazy # NoThread /\ x = lazyState
  <2> SUFFICES ASSUME NEW x \in State, states[x].list = "out" PROVE lazy # NoThread /\ x = lazyState
    OBVIOUS
  <2>1. states[x].id \in Thread /\ threadState[states[x].id] = x
    BY <1>1 DEF IInv, StatesAccounted
  <2>2. x # NoState
    BY ThreadAssumption
  <2>3. lazy = states[x].id
    BY <2>1, <2>2 DEF IInv, StatesAccounted
  <2> QED BY <2>1, <2>3, ThreadAssumption DEF IInv, LazyOK
<1>3. lazy # NoThread => lazyState \in State /\ states[lazyState].list = "out"
  BY ThreadAssumption DEF IInv, LazyOK, StatesAccounted, Types
<1>4. CASE lazy = NoThread
  BY <1>1, <1>2, <1>4 DEF EagerlyArchived
<1>5. CASE lazy # NoThread
  <2>1. EagerlyArchived = [states EXCEPT ![lazyState].list = "inUse", ![lazyState].data = cur]
    BY <1>5 DEF EagerlyArchived
  <2> HIDE DEF Local, EagerlyArchived
  <2>2. /\ \A x \in State : x # lazyState => EagerlyArchived[x] = states[x]
        /\ EagerlyArchived[lazyState].list = "inUse" /\ EagerlyArchived[lazyState].data = cur
        /\ EagerlyArchived[lazyState].id = states[lazyState].id
        /\ EagerlyArchived[lazyState].terminate = states[lazyState].terminate
    BY <1>1, <1>3, <1>5, <2>1
  <2>3. EagerlyArchived \in [State -> [list : {"free", "out", "inUse"},
                              id : Thread \cup {NoThread}, terminate : BOOLEAN, data : Local]]
    BY <1>1, <1>3, <1>5, <2>1
  <2> QED BY <1>1, <1>2, <1>3, <1>5, <2>2, <2>3
<1> QED BY <1>4, <1>5
\* A thread that comes where another one is archived lazily, or none: the state
\* it had, if any, is free, and the others keep what is theirs.
LEMMA OthersKept ==
  ASSUME IInv, NEW t \in Thread, owner = t, pc[t] \in {"restores", "rerestores"},
         owner' = t, lazy # t, lazy' = NoThread, Installed' \in {t, NoThread},
         \A u \in Thread : u # t => threadState'[u] = threadState[u],
         threadState'[t] = NoState,
         \A x \in State : x # threadState[t] => states'[x] = EagerlyArchived[x],
         threadState[t] # NoState =>
           states'[threadState[t]].list = "free" /\ ~states'[threadState[t]].terminate
  PROVE  /\ (StatesAccounted /\ LazyOK)' /\ Installed = lazy
         /\ \A u \in Thread \ {t} : Kept(u)
<1>1. /\ states \in [State -> [list : {"free", "out", "inUse"},
                               id : Thread \cup {NoThread}, terminate : BOOLEAN, data : Local]]
      /\ threadState \in [Thread -> State \cup {NoState}]
      /\ t # NoThread /\ NoThread \notin Thread /\ NoState \notin State
  BY ThreadAssumption DEF IInv, Types
<1>2. Installed = lazy
  BY DEF Installed
<1>3. \A u \in Thread : threadState[u] # NoState => threadState[u] \in State /\ states[threadState[u]].id = u
  BY <1>1 DEF IInv, StatesAccounted
<1>4. \A x \in State :
        /\ EagerlyArchived[x].id = states[x].id
        /\ EagerlyArchived[x].terminate = states[x].terminate
        /\ states[x].list = "free" <=> EagerlyArchived[x].list = "free"
        /\ EagerlyArchived[x].list \in {"free", "inUse"}
        /\ EagerlyArchived[x].data = IF lazy # NoThread /\ x = lazyState THEN cur ELSE states[x].data
  BY EagerlyFacts
<1>5. StatesAccounted'
  <2>1. ASSUME NEW u \in Thread, threadState'[u] # NoState
        PROVE  /\ states'[threadState'[u]].id = u
               /\ states'[threadState'[u]].list = IF lazy' = u THEN "out" ELSE "inUse"
    <3>1. u # t /\ threadState'[u] = threadState[u]
      BY <2>1
    <3>2. threadState[u] \in State /\ threadState[u] # threadState[t]
          /\ states[threadState[u]].id = u /\ states[threadState[u]].list # "free"
      BY <1>3, <2>1, <3>1 DEF IInv, StatesAccounted
    <3> QED BY <1>1, <1>4, <3>1, <3>2
  <2>2. ASSUME NEW x \in State, states'[x].list \in {"out", "inUse"}
        PROVE  states'[x].id # NoThread /\ threadState'[states'[x].id] = x
    <3>1. x # threadState[t]
      BY <1>1, <2>2
    <3>2. states'[x] = EagerlyArchived[x] /\ states[x].list \in {"out", "inUse"}
      BY <1>1, <1>4, <2>2, <3>1
    <3>3. states[x].id # NoThread /\ threadState[states[x].id] = x /\ states[x].id \in Thread
      BY <1>1, <3>2 DEF IInv, StatesAccounted
    <3> QED BY <1>4, <3>1, <3>2, <3>3
  <2>3. ASSUME NEW x \in State, states'[x].list = "free" PROVE ~states'[x].terminate
    BY <1>1, <1>4, <2>3 DEF IInv, StatesAccounted
  <2> QED BY <2>1, <2>2, <2>3 DEF StatesAccounted
<1>6. LazyOK'
  <2>1. \A x \in State : states'[x].list # "inUse" => ~states'[x].terminate
    BY <1>1, <1>4 DEF IInv, StatesAccounted
  <2> QED BY <2>1 DEF LazyOK
<1>7. ASSUME NEW u \in Thread \ {t} PROVE Kept(u)
  <2>1. u # Installed' /\ threadState'[u] = threadState[u] /\ u # t
    BY <1>1
  <2>2. threadState[u] # NoState => threadState[u] \in State /\ threadState[u] # threadState[t]
    BY <1>3, <2>1
  <2>3. Present(u) => GuardOf(LocalOf(u).guard, u)
    BY DEF IInv, PresentOK
  <2>4. CASE u = lazy
    <3>1. lazyState \in State /\ threadState[u] = lazyState /\ states[lazyState].list = "out"
      BY <1>1, <2>4 DEF IInv, LazyOK, StatesAccounted
    <3>2. states'[lazyState].data = cur /\ ~states'[lazyState].terminate /\ lazyState # NoState
      BY <1>1, <1>4, <2>2, <2>4, <3>1 DEF IInv, LazyOK
    <3>3. Present(u) /\ Present(u)' /\ LocalOf(u) = cur /\ LocalOf(u)' = cur
      BY <1>2, <2>1, <2>4, <3>1, <3>2 DEF Present, LocalOf
    <3>4. StateOf(u)' = StateOf(u)
      BY <1>2, <2>1, <2>4, <3>1, <3>2, StateOfIs, StateOfIsNext DEF Seen, Shown
    <3> QED BY <2>3, <3>3, <3>4 DEF Kept, GuardOf
  <2>5. CASE u # lazy
    <3>1. threadState[u] # NoState =>
            lazy = NoThread \/ threadState[u] # lazyState
      BY <1>1, <1>3, <2>1, <2>5 DEF IInv, LazyOK, Types
    <3>2. threadState[u] # NoState =>
            /\ states'[threadState[u]].data = states[threadState[u]].data
            /\ states'[threadState[u]].terminate = states[threadState[u]].terminate
      BY <1>4, <2>2, <3>1
    <3>3. (Present(u)' <=> Present(u)) /\ (Present(u) => LocalOf(u)' = LocalOf(u))
      BY <1>2, <2>1, <2>5, <3>2 DEF Present, LocalOf
    <3>4. StateOf(u)' = StateOf(u)
      BY <1>2, <2>1, <2>5, <3>2, StateOfIs, StateOfIsNext DEF Seen, Shown, PerThread!Absent
    <3> QED BY <2>3, <3>3, <3>4 DEF Kept, GuardOf
  <2> QED BY <2>4, <2>5
<1> QED BY <1>2, <1>5, <1>6, <1>7

\* A thread that others have come after gets its state from where it was
\* archived, and the request to terminate it with it.
LEMMA RestoredArchived ==
  ASSUME IInv, NEW t \in Thread, owner = t, pc[t] \in {"restores", "rerestores"},
         RestoreArchived(t), owner' = t, pc'[t] \notin {"restores", "inits", "rerestores"}
  PROVE  /\ (Data /\ StatesAccounted /\ LazyOK)'
         /\ Present(t) /\ Installed # t /\ Installed' = t /\ HeapOf(heapLimit', cur'.guard, t)
         /\ \A u \in Thread : Kept(u)
<1> DEFINE s == threadState[t]
           d == states[s].data
           g == IF states[s].terminate THEN Requested(d.guard, "terminate") ELSE d.guard
<1>1. /\ lazy # t /\ s # NoState /\ lazy' = NoThread /\ lazyState' = NoState
      /\ states' = [EagerlyArchived EXCEPT ![s].list = "free", ![s].id = NoThread,
                                           ![s].terminate = FALSE,
                                           ![s].data = ClearedLocal(NoThread)]
      /\ threadState' = [threadState EXCEPT ![t] = NoState]
  BY DEF RestoreArchived, NoLongerLazy
<1>2. /\ states \in [State -> [list : {"free", "out", "inUse"},
                               id : Thread \cup {NoThread}, terminate : BOOLEAN, data : Local]]
      /\ threadState \in [Thread -> State \cup {NoState}]
      /\ t # NoThread /\ s \in State /\ d \in Local
  BY <1>1, ThreadAssumption DEF IInv, Types
<1>3. Installed = lazy /\ Installed' = t
  BY <1>1, <1>2 DEF Installed
<1>4. EagerlyArchived[s].data = d
  <2>1. lazy # NoThread => s # lazyState
    <3>1. lazy # NoThread => lazy \in Thread /\ threadState[lazy] = lazyState /\ lazyState \in State
      BY DEF IInv, LazyOK, Types
    <3>2. states[s].id = t /\ (lazy # NoThread => states[lazyState].id = lazy)
      BY <1>1, <1>2, <3>1, ThreadAssumption DEF IInv, StatesAccounted
    <3> QED BY <1>1, <3>2
  <2> QED BY <1>2, <2>1, EagerlyFacts
<1>5. cur' = [d EXCEPT !.guard = g, !.id = EnteredAs(t, @)] /\ heapLimit' = g.limit
  BY <1>4 DEF RestoreArchived
<1>6. Present(t) /\ LocalOf(t) = d /\ GuardOf(d.guard, t) /\ d.guard \in Guard
  BY <1>1, <1>2, <1>3 DEF Present, LocalOf, IInv, PresentOK, Local
<1>7. g \in Guard /\ GuardOf(g, t) /\ g.nesting = d.guard.nesting
      /\ g.flags = d.guard.flags \cup (IF states[s].terminate THEN {"terminate"} ELSE {})
  BY <1>6, GuardTypes, GuardKept, GuardFields
<1> HIDE DEF g, d, s
<1>8. cur' \in Local /\ cur'.guard = g /\ cur'.handles = d.handles
  BY <1>2, <1>5, <1>7 DEF Local, EnteredAs
<1>9. HeapOf(heapLimit', cur'.guard, t) /\ heapLimit' \in Limit \cup {kIllegalLimit, kInterruptLimit}
  BY <1>5, <1>7, <1>8, HeapIs, HeapIn
<1>10. ClearedLocal(NoThread) \in Local
  BY BoundAssumption, GuardTypes DEF ClearedLocal, Local, Blank, Guard
<1>11. /\ states' \in [State -> [list : {"free", "out", "inUse"},
                                id : Thread \cup {NoThread}, terminate : BOOLEAN, data : Local]]
       /\ \A x \in State : x # s => states'[x] = EagerlyArchived[x]
       /\ states'[s].list = "free" /\ ~states'[s].terminate
  <2> DEFINE Record == [list : {"free", "out", "inUse"}, id : Thread \cup {NoThread},
                        terminate : BOOLEAN, data : Local]
             e == EagerlyArchived[s]
             c == ClearedLocal(NoThread)
             free == [e EXCEPT !.list = "free", !.id = NoThread, !.terminate = FALSE, !.data = c]
  <2>1. EagerlyArchived \in [State -> Record]
    BY EagerlyFacts
  <2>2. e \in Record
    BY <1>2, <2>1
  <2> HIDE DEF Local, EagerlyArchived, e, c
  <2>3. free \in Record /\ free.list = "free" /\ free.terminate = FALSE
    <3>1. c \in Local
      BY <1>10 DEF c
    <3> QED BY <2>2, <3>1
  <2> HIDE DEF Record
  <2>4. states' = [EagerlyArchived EXCEPT ![s] = free]
    BY <1>1, <1>2, <2>1 DEF e, c
  <2> HIDE DEF free
  <2>5. states' \in [State -> Record] /\ \A x \in State : x # s => states'[x] = EagerlyArchived[x]
    BY <1>2, <2>1, <2>3, <2>4
  <2>6. states'[s] = free
    BY <1>2, <2>1, <2>4
  <2> QED BY <2>3, <2>5, <2>6 DEF Record
<1>12. /\ threadState' \in [Thread -> State \cup {NoState}]
       /\ threadState'[t] = NoState /\ \A u \in Thread : u # t => threadState'[u] = threadState[u]
  BY <1>1, <1>2
<1>13. Data'
  BY <1>1, <1>8, <1>9, <1>11, <1>12 DEF Data
<1>14. (StatesAccounted /\ LazyOK)' /\ \A u \in Thread \ {t} : Kept(u)
  BY <1>1, <1>3, <1>11, <1>12, OthersKept DEF s
<1>15. Kept(t)
  <2>1. Present(t)' /\ LocalOf(t)' = cur'
    BY <1>3 DEF Present, LocalOf
  <2>2. StateOf(t) = Shown(d, IF states[s].terminate THEN {"terminate"} ELSE {})
    BY <1>1, <1>3, StateOfIs DEF Seen, s, d
  <2>3. StateOf(t)' = Shown(cur', {})
    BY <1>3, StateOfIsNext DEF Seen
  <2>4. StateOf(t)' = StateOf(t)
    BY <1>7, <1>8, <2>2, <2>3 DEF Shown
  <2> QED BY <1>6, <1>7, <1>8, <2>1, <2>4 DEF Kept, GuardOf
<1> QED BY <1>1, <1>3, <1>6, <1>9, <1>13, <1>14, <1>15

\* A thread V8 knows nothing of: the isolate is nobody's for now.
LEMMA RestoredNew ==
  ASSUME IInv, StoredOK, NEW t \in Thread, owner = t, pc[t] = "restores", RestoreNew(t),
         owner' = t, pc'[t] = "inits"
  PROVE  /\ (Data /\ StatesAccounted /\ LazyOK)'
         /\ ~Present(t) /\ Installed' = NoThread /\ cur'.handles = 0
         /\ \A u \in Thread : Kept(u)
<1>1. /\ lazy # t /\ threadState[t] = NoState /\ lazy' = NoThread /\ lazyState' = NoState
      /\ states' = EagerlyArchived /\ threadState' = threadState
      /\ InitsThread(t, CurArchived)
  BY DEF RestoreNew, NoLongerLazy
<1>0. PICK limit \in LimitsOf(t) :
        /\ cur' = [CurArchived EXCEPT !.guard = InitThread(@, limit, stackLimit[t])]
        /\ heapLimit' \in {limit, heapLimit}
  BY <1>1 DEF InitsThread
<1>2. t # NoThread /\ Installed = lazy /\ Installed' = NoThread
  BY <1>1, ThreadAssumption DEF Installed
<1>3. CurArchived \in Local /\ CurArchived.handles = 0
  <2>1. cur \in Local /\ (lazy = NoThread => cur.handles = 0)
    BY <1>2 DEF IInv, Types, IsolateOK
  <2>2. ClearedLocal(owner) \in Local /\ ClearedLocal(owner).handles = 0
    BY BoundAssumption DEF ClearedLocal, Local, Blank, Guard
  <2> QED BY <2>1, <2>2 DEF CurArchived
<1>4. cur' \in Local /\ cur'.handles = 0
  <2>1. InitThread(CurArchived.guard, limit, stackLimit[t]) \in Guard
    BY <1>3, GuardInited DEF Local, StoredOK
  <2> HIDE DEF Guard, InitThread, CurArchived
  <2> QED BY <1>0, <1>3, <2>1 DEF Local
<1>5. Data'
  <2>1. heapLimit \in Limit \cup {kIllegalLimit, kInterruptLimit}
        /\ threadState \in [Thread -> State \cup {NoState}] /\ limit \in Limit
    BY LimitFacts DEF IInv, Types
  <2> HIDE DEF Local, Limit
  <2> QED BY <1>0, <1>1, <1>4, <2>1, EagerlyFacts DEF Data
<1>6. (StatesAccounted /\ LazyOK)' /\ \A u \in Thread \ {t} : Kept(u)
  BY <1>1, <1>2, OthersKept
<1>7. Kept(t) /\ ~Present(t)
  <2>1. ~Present(t) /\ ~Present(t)'
    BY <1>1, <1>2 DEF Present
  <2>2. StateOf(t)' = StateOf(t)
    BY <1>1, <1>2, StateOfIs, StateOfIsNext DEF Seen, PerThread!Absent
  <2> QED BY <2>1, <2>2 DEF Kept
<1> QED BY <1>2, <1>4, <1>5, <1>6, <1>7
----------------------------------------------------------------------------
(* The parts of a step.                                                     *)

Places == {"run", "locks", "restores", "inits", "relocks", "rerestores",
           "preempt", "terminate", "joins"}
\* Where a thread has the lock, and the isolate does not have its state yet.
Restoring == {"restores", "inits", "rerestores"}

Entry == entries \in Seq(Nat \ {0}) /\ entered \subseteq Thread
Preemption == switcher \in {"none", "sleeps", "gone"} /\ keepGoing \in BOOLEAN

Control ==
  /\ owner \in Thread \cup {NoThread} /\ pc \in [Thread -> Places]
  /\ \A t \in Thread : Len(scopes[t]) <= MaxScopes[t] + 1

\* The type invariant in four parts that steps disturb separately.
LEMMA TypeParts == Types <=> Data /\ Control /\ Entry /\ Preemption
BY DEF Types, Data, Control, Entry, Preemption, Places

\* The invariant put together from its parts after a step.
LEMMA InvParts ==
  ASSUME (Data /\ Control /\ Entry /\ Preemption)', (ScopesOK /\ StacksOK)',
         (StatesAccounted /\ LazyOK)', (PresentOK /\ IsolateOK)'
  PROVE  IInv'
<1>1. (Data /\ Control /\ Entry /\ Preemption => Types)'
  BY TypeParts, PTL
<1> QED BY <1>1 DEF IInv

\* The entry stack of the isolate keeps positive counts: an entry whose count would become 0
\* is popped by Exit.
LEMMA EntryStep ==
  ASSUME IInv, NEW t \in Thread,
         Enter(t) \/ EnterDefaultIsolate(t) \/ Exit(t) \/ UNCHANGED entry
  PROVE  Entry'
<1>1. entries \in Seq(Nat \ {0}) /\ entered \subseteq Thread
  BY DEF IInv, Types
<1>2. ASSUME Enter(t) PROVE Entry'
  <2>1. CASE t \in entered
    <3>1. /\ entries # <<>> /\ entries' = [entries EXCEPT ![Len(entries)] = @ + 1]
          /\ entered' = entered \cup {t}
      BY <1>2, <2>1 DEF Enter
    <3>2. Len(entries) \in DOMAIN entries /\ entries[Len(entries)] + 1 \in Nat \ {0}
      BY <1>1, <3>1
    <3> QED BY <1>1, <3>1, <3>2 DEF Entry
  <2>2. CASE t \notin entered
    BY <1>1, <1>2, <2>2 DEF Enter, Entry
  <2> QED BY <2>1, <2>2
<1>3. ASSUME Exit(t) PROVE Entry'
  <2>1. CASE LastOf(entries) > 1
    <3>1. /\ entries # <<>> /\ entries' = [entries EXCEPT ![Len(entries)] = @ - 1]
          /\ entered' = entered
      BY <1>3, <2>1 DEF Exit
    <3>2. Len(entries) \in DOMAIN entries /\ entries[Len(entries)] - 1 \in Nat \ {0}
      BY <1>1, <2>1, <3>1 DEF LastOf
    <3> QED BY <1>1, <3>1, <3>2 DEF Entry
  <2>2. CASE ~(LastOf(entries) > 1)
    <3>1. entries # <<>> /\ entries' = SubSeq(entries, 1, Len(entries) - 1) /\ entered' \subseteq entered
      BY <1>3, <2>2 DEF Exit, Pop
    <3>2. Len(entries) - 1 \in Int /\ 1 \in Int /\ \A k \in 1..(Len(entries) - 1) : entries[k] \in Nat \ {0}
      BY <1>1
    <3>3. SubSeq(entries, 1, Len(entries) - 1) \in Seq(Nat \ {0})
      BY <3>2, SubSeqProperties
    <3> QED BY <1>1, <3>1, <3>3 DEF Entry
  <2> QED BY <2>1, <2>2
<1> QED BY <1>1, <1>2, <1>3 DEF EnterDefaultIsolate, Entry, entry

\* The thread t has the scopes st and goes on at p.
LEMMA StackStep ==
  ASSUME IInv, NEW t \in Thread, NEW st \in Seq(ScopeRecord), NEW p \in Places,
         scopes' = [scopes EXCEPT ![t] = st], pc' = [pc EXCEPT ![t] = p],
         Len(st) <= MaxScopes[t] + 1, p \notin {"relocks", "rerestores"} => Len(st) <= MaxScopes[t],
         Nested(st, p), owner' \in Thread \cup {NoThread}, owner' = t <=> Holds(st, p),
         \A u \in Thread : u # t => (owner' = u <=> owner = u)
  PROVE  /\ (Control /\ ScopesOK /\ StacksOK)'
         /\ scopes'[t] = st /\ pc'[t] = p
         /\ \A u \in Thread : u # t => scopes'[u] = scopes[u] /\ pc'[u] = pc[u]
<1>1. /\ scopes \in [Thread -> Seq(ScopeRecord)] /\ pc \in [Thread -> Places]
      /\ \A u \in Thread : Len(scopes[u]) <= MaxScopes[u] + 1
  BY DEF IInv, ScopesOK, Types, Places
<1>2. /\ scopes' \in [Thread -> Seq(ScopeRecord)] /\ pc' \in [Thread -> Places]
      /\ scopes'[t] = st /\ pc'[t] = p
      /\ \A u \in Thread : u # t => scopes'[u] = scopes[u] /\ pc'[u] = pc[u]
  <2> HIDE DEF ScopeRecord, Places
  <2> QED BY <1>1
<1>3. Control'
  <2>1. \A u \in Thread : Len(scopes'[u]) <= MaxScopes[u] + 1
    BY <1>1, <1>2
  <2> QED BY <1>2, <2>1 DEF Control
<1>4. ScopesOK'
  <2>1. ASSUME NEW u \in Thread, pc'[u] \notin {"relocks", "rerestores"}
        PROVE  Len(scopes'[u]) <= MaxScopes[u]
    BY <1>2, <2>1 DEF IInv, ScopesOK
  <2> HIDE DEF ScopeRecord
  <2> QED BY <1>2, <2>1 DEF ScopesOK
<1>5. StacksOK'
  <2>1. ASSUME NEW u \in Thread
        PROVE  Nested(scopes'[u], pc'[u]) /\ (owner' = u <=> Holds(scopes'[u], pc'[u]))
    BY <1>2 DEF IInv, StacksOK
  <2> QED BY <2>1 DEF StacksOK, Nested, Holds
<1> QED BY <1>2, <1>3, <1>4, <1>5

\* What the others have is kept, and t has as many scopes that postpone
\* interrupts as its guard says.
LEMMA PresentStep ==
  ASSUME IInv, NEW t \in Thread, \A u \in Thread \ {t} : Kept(u) /\ scopes'[u] = scopes[u],
         Present(t)' => /\ GuardOf(LocalOf(t).guard, t)'
                        /\ Postponing(scopes'[t], LocalOf(t).guard.nesting'),
         ~Present(t)' => Len(scopes'[t]) <= 1
  PROVE  PresentOK'
<1>1. ASSUME NEW u \in Thread, u # t
      PROVE  (IF Present(u)
                THEN GuardOf(LocalOf(u).guard, u) /\ Postponing(scopes[u], LocalOf(u).guard.nesting)
                ELSE Len(scopes[u]) <= 1)'
  <2>1. Kept(u) /\ scopes'[u] = scopes[u]
    BY <1>1
  <2>2. IF Present(u)
          THEN GuardOf(LocalOf(u).guard, u) /\ Postponing(scopes[u], LocalOf(u).guard.nesting)
          ELSE Len(scopes[u]) <= 1
    BY DEF IInv, PresentOK
  <2>3. CASE Present(u)
    BY <2>1, <2>2, <2>3 DEF Kept, Postponing
  <2>4. CASE ~Present(u)
    BY <2>1, <2>2, <2>4 DEF Kept
  <2> QED BY <2>3, <2>4
<1>2. (IF Present(t)
         THEN GuardOf(LocalOf(t).guard, t) /\ Postponing(scopes[t], LocalOf(t).guard.nesting)
         ELSE Len(scopes[t]) <= 1)'
  BY DEF Postponing
<1> QED BY <1>1, <1>2 DEF PresentOK

\* Nothing is archived or restored.
LEMMA SameArchive ==
  ASSUME IInv, UNCHANGED archive,
         cur' \in Local, heapLimit' \in Limit \cup {kIllegalLimit, kInterruptLimit},
         owner' # NoThread /\ pc'[owner'] \notin {"restores", "rerestores"} =>
           lazy = NoThread /\ threadState[owner'] = NoState
  PROVE  /\ (Data /\ StatesAccounted /\ LazyOK)'
         /\ \A u \in Thread : u # Installed /\ u # Installed' => Kept(u)
<1>1. UNCHANGED <<lazy, lazyState, states, threadState>>
  BY DEF archive
<1>2. (Data /\ StatesAccounted /\ LazyOK)'
  <2>1. Data'
    BY <1>1 DEF IInv, Types, Data
  <2>2. StatesAccounted'
    BY <1>1 DEF IInv, StatesAccounted
  <2>3. LazyOK'
    BY <1>1 DEF IInv, LazyOK
  <2> QED BY <2>1, <2>2, <2>3
<1>3. ASSUME NEW u \in Thread, u # Installed, u # Installed' PROVE Kept(u)
  <2>1. Present(u)' <=> Present(u)
    BY <1>1, <1>3 DEF Present
  <2>2. LocalOf(u)' = LocalOf(u)
    BY <1>1, <1>3 DEF LocalOf
  <2>3. StateOf(u)' = StateOf(u)
    BY <1>1, <1>3, StateOfIs, StateOfIsNext DEF Seen, Shown, PerThread!Absent
  <2>4. Present(u) => GuardOf(LocalOf(u).guard, u)
    BY DEF IInv, PresentOK
  <2> QED BY <2>1, <2>2, <2>3, <2>4 DEF Kept, GuardOf
<1> QED BY <1>2, <1>3
\* The thread that uses V8 has its state in the isolate.
LEMMA OwnerFacts ==
  ASSUME IInv, NEW t \in Thread, owner = t, pc[t] \notin Restoring
  PROVE  /\ Installed = t /\ lazy = NoThread /\ threadState[t] = NoState
         /\ Present(t) /\ LocalOf(t) = cur /\ StateOf(t) = Shown(cur, {})
         /\ cur \in Local /\ cur.guard \in Guard /\ cur.guard.nesting \in Nat /\ GuardOf(cur.guard, t)
         /\ Postponing(scopes[t], cur.guard.nesting) /\ HeapOf(heapLimit, cur.guard, t)
         /\ scopes[t] \in Seq(ScopeRecord) /\ scopes[t] # <<>> /\ LastOf(scopes[t]).kind # "unlocker"
         /\ Nested(scopes[t], pc[t]) /\ Holds(scopes[t], pc[t])
<1>1. t # NoThread
  BY ThreadAssumption
<1>2. Installed = t /\ lazy = NoThread /\ threadState[t] = NoState
  BY <1>1 DEF Installed, IInv, LazyOK, Restoring
<1>3. Present(t) /\ LocalOf(t) = cur /\ StateOf(t) = Shown(cur, {})
  BY <1>2, StateOfIs DEF Present, LocalOf, Seen
<1>4. cur \in Local /\ cur.guard \in Guard /\ cur.guard.nesting \in Nat
  BY DEF IInv, Types, Local, Guard
<1>5. GuardOf(cur.guard, t) /\ Postponing(scopes[t], cur.guard.nesting) /\ HeapOf(heapLimit, cur.guard, t)
  BY <1>1, <1>2, <1>3 DEF IInv, PresentOK, IsolateOK
<1>6. scopes[t] \in Seq(ScopeRecord) /\ Nested(scopes[t], pc[t]) /\ Holds(scopes[t], pc[t])
  BY DEF IInv, ScopesOK, StacksOK
<1>7. scopes[t] # <<>> /\ LastOf(scopes[t]).kind # "unlocker"
  BY <1>6 DEF Holds, Nested, Restoring
<1> QED BY <1>2, <1>3, <1>4, <1>5, <1>6, <1>7

\* A step of the thread that uses V8, by which it goes on using it.
LEMMA OwnerStep ==
  ASSUME IInv, NEW t \in Thread, owner = t, pc[t] \notin Restoring, owner' = t,
         NEW st \in Seq(ScopeRecord), NEW p \in {"run", "preempt", "terminate", "joins"},
         scopes' = [scopes EXCEPT ![t] = st], pc' = [pc EXCEPT ![t] = p],
         UNCHANGED archive, Entry', Preemption',
         cur' \in Local, HeapOf(heapLimit', cur'.guard, t), GuardOf(cur'.guard, t),
         Postponing(st, cur'.guard.nesting), Nested(st, p), Len(st) <= MaxScopes[t],
         st # <<>> /\ LastOf(st).kind # "unlocker", p = "preempt" => cur'.guard.nesting = 0
  PROVE  /\ IInv' /\ Installed = t /\ Installed' = t
         /\ \A u \in Thread : u # t => StateOf(u)' = StateOf(u)
         /\ StateOf(t) = Shown(cur, {}) /\ StateOf(t)' = Shown(cur', {})
<1>1. t # NoThread /\ Installed = t /\ lazy = NoThread /\ threadState[t] = NoState
      /\ StateOf(t) = Shown(cur, {})
  BY OwnerFacts, ThreadAssumption
<1>2. p \in Places /\ Holds(st, p) /\ p \notin {"relocks", "rerestores"}
  BY DEF Places, Holds
<1>3. Len(st) <= MaxScopes[t] + 1
  <2>1. MaxScopes[t] \in Nat
    BY BoundAssumption
  <2> QED BY <2>1
<1>4. /\ (Control /\ ScopesOK /\ StacksOK)'
      /\ scopes'[t] = st /\ pc'[t] = p
      /\ \A u \in Thread : u # t => scopes'[u] = scopes[u] /\ pc'[u] = pc[u]
  <2>1. owner' \in Thread \cup {NoThread} /\ (owner' = t <=> Holds(st, p))
        /\ \A u \in Thread : u # t => (owner' = u <=> owner = u)
    BY <1>2
  <2> QED BY <1>2, <1>3, <2>1, StackStep
<1>5. Installed' = t
  BY <1>1, <1>4 DEF Installed
<1>6. cur'.guard \in Guard /\ heapLimit' \in Limit \cup {kIllegalLimit, kInterruptLimit}
  BY HeapIn DEF Local
<1>7. /\ (Data /\ StatesAccounted /\ LazyOK)'
      /\ \A u \in Thread : u # t => Kept(u)
  BY <1>1, <1>5, <1>6, SameArchive
<1>8. PresentOK'
  <2>1. Present(t)' /\ LocalOf(t)' = cur'
    BY <1>5 DEF Present, LocalOf
  <2>2. GuardOf(LocalOf(t).guard, t)' /\ Postponing(scopes'[t], LocalOf(t).guard.nesting')
    BY <1>4, <2>1 DEF GuardOf
  <2> QED BY <1>4, <1>7, <2>1, <2>2, PresentStep
<1>9. IsolateOK'
  BY <1>1, <1>4, <1>5 DEF IsolateOK
<1>10. StateOf(t)' = Shown(cur', {}) /\ \A u \in Thread : u # t => StateOf(u)' = StateOf(u)
  BY <1>5, <1>7, StateOfIsNext DEF Seen, Kept
<1> QED BY <1>1, <1>4, <1>5, <1>7, <1>8, <1>9, <1>10, InvParts

\* A step of the thread that uses V8, by which it gives up the lock.
LEMMA ArchiveStep ==
  ASSUME IInv, NEW t \in Thread, owner = t, pc[t] \notin Restoring,
         ArchiveThread(t), owner' = NoThread,
         NEW st \in Seq(ScopeRecord), NEW p \in {"run", "relocks"},
         scopes' = [scopes EXCEPT ![t] = st], pc' = [pc EXCEPT ![t] = p],
         Entry', Preemption',
         cur' \in Local, HeapOf(heapLimit', cur'.guard, t), GuardOf(cur'.guard, t),
         Postponing(st, cur'.guard.nesting), Nested(st, p), ~Holds(st, p),
         Len(st) <= MaxScopes[t] + 1, p = "run" => Len(st) <= MaxScopes[t]
  PROVE  /\ IInv' /\ Installed = t /\ Installed' = t
         /\ \A u \in Thread : u # t => StateOf(u)' = StateOf(u)
         /\ StateOf(t) = Shown(cur, {}) /\ StateOf(t)' = Shown(cur', {})
<1>1. t # NoThread /\ StateOf(t) = Shown(cur, {})
  BY OwnerFacts, ThreadAssumption
<1>2. cur'.guard \in Guard /\ heapLimit' \in Limit \cup {kIllegalLimit, kInterruptLimit}
  BY HeapIn DEF Local
<1>3. /\ (Data /\ StatesAccounted /\ LazyOK)'
      /\ Installed = t /\ Installed' = t
      /\ \A u \in Thread \ {t} : Kept(u)
  BY <1>2, Archived DEF Restoring
<1>4. /\ (Control /\ ScopesOK /\ StacksOK)'
      /\ scopes'[t] = st /\ pc'[t] = p
      /\ \A u \in Thread : u # t => scopes'[u] = scopes[u] /\ pc'[u] = pc[u]
  <2>1. owner' \in Thread \cup {NoThread} /\ (owner' = t <=> Holds(st, p)) /\ p \in Places
        /\ \A u \in Thread : u # t => (owner' = u <=> owner = u)
    BY <1>1, ThreadAssumption DEF Places
  <2> QED BY <2>1, StackStep
<1>5. PresentOK'
  <2>1. Present(t)' /\ LocalOf(t)' = cur'
    BY <1>3 DEF Present, LocalOf
  <2>2. GuardOf(LocalOf(t).guard, t)' /\ Postponing(scopes'[t], LocalOf(t).guard.nesting')
    BY <1>4, <2>1 DEF GuardOf
  <2> QED BY <1>3, <1>4, <2>1, <2>2, PresentStep
<1>6. IsolateOK'
  BY <1>1, <1>3 DEF IsolateOK
<1>7. StateOf(t)' = Shown(cur', {}) /\ \A u \in Thread : u # t => StateOf(u)' = StateOf(u)
  BY <1>3, StateOfIsNext DEF Seen, Kept
<1> QED BY <1>1, <1>3, <1>4, <1>5, <1>6, <1>7, InvParts

\* A step by which t gets its state, or finds that it has none: what everybody
\* has is kept.
LEMMA RestoreStep ==
  ASSUME IInv, StoredOK, NEW t \in Thread, owner = t, pc[t] \in {"restores", "rerestores"}, owner' = t,
         Restore(t) \/ (RestoreNew(t) /\ pc[t] = "restores"),
         NEW st \in Seq(ScopeRecord), NEW p \in {"run", "terminate", "inits"},
         p = "inits" <=> RestoreNew(t),
         scopes' = [scopes EXCEPT ![t] = st], pc' = [pc EXCEPT ![t] = p], Entry', Preemption',
         Nested(st, p), Len(st) <= MaxScopes[t], Holds(st, p),
         \A n \in Nat : Postponing(scopes[t], n) => Postponing(st, n),
         RestoreNew(t) => Len(st) = Len(scopes[t])
  PROVE  /\ IInv' /\ \A u \in Thread : StateOf(u)' = StateOf(u)
         /\ \/ Installed' = Installed
            \/ Installed # t /\ Installed' = t /\ Present(t)
            \/ Installed' = NoThread
<1>1. t # NoThread /\ pc'[t] = p
  <2>1. pc \in [Thread -> Places]
    BY DEF IInv, Types, Places
  <2> QED BY <2>1, ThreadAssumption
<1>2. /\ (Control /\ ScopesOK /\ StacksOK)'
      /\ scopes'[t] = st /\ pc'[t] = p
      /\ \A u \in Thread : u # t => scopes'[u] = scopes[u] /\ pc'[u] = pc[u]
  <2>1. MaxScopes[t] \in Nat
    BY BoundAssumption
  <2>2. owner' \in Thread \cup {NoThread} /\ (owner' = t <=> Holds(st, p)) /\ p \in Places
        /\ \A u \in Thread : u # t => (owner' = u <=> owner = u)
    BY DEF Places
  <2>3. Len(st) <= MaxScopes[t] + 1
    BY <2>1
  <2> QED BY <2>2, <2>3, StackStep
<1>3. /\ (Data /\ StatesAccounted /\ LazyOK)'
      /\ \A u \in Thread : Kept(u)
      /\ \/ Installed' = Installed /\ Installed' = t /\ HeapOf(heapLimit', cur'.guard, t)
         \/ Installed # t /\ Installed' = t /\ Present(t) /\ HeapOf(heapLimit', cur'.guard, t)
         \/ Installed' = NoThread /\ cur'.handles = 0 /\ ~Present(t) /\ RestoreNew(t)
  <2>1. CASE RestoreLazily(t)
    <3>1. ~RestoreNew(t)
      BY <2>1 DEF RestoreLazily, RestoreNew
    <3> QED BY <1>1, <2>1, <3>1, RestoredLazily
  <2>2. CASE RestoreArchived(t)
    <3>1. ~RestoreNew(t)
      BY <2>2 DEF RestoreArchived, RestoreNew
    <3> QED BY <1>1, <2>2, <3>1, RestoredArchived
  <2>3. CASE RestoreNew(t) /\ pc[t] = "restores"
    BY <1>1, <2>3, RestoredNew
  <2> QED BY <2>1, <2>2, <2>3 DEF Restore
<1>4. PresentOK'
  <2>1. LocalOf(t).guard.nesting \in Nat \/ ~Present(t)
    <3>1. cur \in Local /\ \A x \in State : states[x].data \in Local
      BY DEF IInv, Types
    <3>2. threadState[t] # NoState => threadState[t] \in State
      BY DEF IInv, Types
    <3> QED BY <3>1, <3>2 DEF LocalOf, Present, Local, Guard
  <2>2. IF Present(t)
          THEN GuardOf(LocalOf(t).guard, t) /\ Postponing(scopes[t], LocalOf(t).guard.nesting)
          ELSE Len(scopes[t]) <= 1
    BY DEF IInv, PresentOK
  <2>3. Kept(t)
    BY <1>3
  <2>4. ASSUME Present(t)'
        PROVE  GuardOf(LocalOf(t).guard, t)' /\ Postponing(scopes'[t], LocalOf(t).guard.nesting')
    BY <1>2, <2>1, <2>2, <2>3, <2>4 DEF Kept
  <2>5. ASSUME ~Present(t)' PROVE Len(scopes'[t]) <= 1
    <3>1. RestoreNew(t) /\ ~Present(t)
      BY <1>3, <2>3, <2>5 DEF Kept, Present
    <3> QED BY <1>2, <2>2, <3>1
  <2> QED BY <1>2, <1>3, <2>4, <2>5, PresentStep
<1>5. IsolateOK'
  BY <1>1, <1>2, <1>3, ThreadAssumption DEF IsolateOK
<1>6. \A u \in Thread : StateOf(u)' = StateOf(u)
  BY <1>3 DEF Kept
<1> QED BY <1>2, <1>3, <1>4, <1>5, <1>6, InvParts
----------------------------------------------------------------------------
(* What a step is to the abstract specification.                            *)

Abstract == [t \in Thread |-> StateOf(t)]
AbstractStep == PerThread!Next \/ UNCHANGED PerThread!vars

\* A step after which everyone shows what it showed is a stutter of the abstract specification.
LEMMA AbstractSame ==
  ASSUME Installed' = Installed, \A u \in Thread : StateOf(u)' = StateOf(u)
  PROVE  AbstractStep
<1>1. Abstract' = Abstract
  BY DEF Abstract
<1>2. UNCHANGED PerThread!vars
  BY <1>1 DEF PerThread!vars, Abstract
<1> QED BY <1>2 DEF AbstractStep

\* Only the current thread changes: the abstract Pause, or SwitchTo a thread that is there.
LEMMA AbstractTurn ==
  ASSUME Installed' = NoThread \/ (Installed' \in Thread /\ Installed # Installed' /\ StateOf(Installed').there),
         \A u \in Thread : StateOf(u)' = StateOf(u)
  PROVE  AbstractStep
<1>1. Abstract' = Abstract
  BY DEF Abstract
<1>2. CASE Installed' = NoThread
  <2>1. PerThread!Pause
    BY <1>1, <1>2 DEF PerThread!Pause, Abstract
  <2> QED BY <2>1 DEF AbstractStep, PerThread!Next
<1>3. CASE Installed' \in Thread /\ Installed # Installed' /\ StateOf(Installed').there
  <2> DEFINE t == Installed'
  <2>1. Abstract \in [Thread -> {StateOf(u) : u \in Thread}] /\ Abstract[t].there
    BY <1>3 DEF Abstract
  <2>2. Abstract' = [Abstract EXCEPT ![t] = IF @.there THEN @ ELSE PerThread!Fresh]
    BY <1>1, <2>1
  <2>3. PerThread!SwitchTo(t)
    BY <1>3, <2>2 DEF PerThread!SwitchTo, PerThread!Fresh, PerThread!Absent, Abstract
  <2> QED BY <1>3, <2>3 DEF AbstractStep, PerThread!Next
<1> QED BY <1>2, <1>3

\* The steps by which the thread in the isolate changes its own state.
LEMMA AbstractOwn ==
  ASSUME NEW t \in Thread, Installed = t, Installed' = t,
         \A u \in Thread : u # t => StateOf(u)' = StateOf(u),
         StateOf(t) = Shown(cur, {}), StateOf(t)' = Shown(cur', {})
  PROVE  /\ /\ cur'.handles = cur.handles /\ cur'.guard.nesting = cur.guard.nesting
            /\ cur'.guard.flags = cur.guard.flags
            => AbstractStep
         /\ cur'.handles \in 0..MaxHandles /\ cur'.guard = cur.guard => AbstractStep
         /\ \A n \in {-1, 1} :
              /\ cur'.handles = cur.handles /\ cur'.guard.nesting = cur.guard.nesting + n
              /\ cur'.guard.flags = cur.guard.flags
              => AbstractStep
         /\ \A f \in {"preempt", "terminate"} :
              /\ cur'.handles = cur.handles /\ cur'.guard.nesting = cur.guard.nesting
              /\ \/ cur'.guard.flags = cur.guard.flags \cup {f}
                 \/ cur'.guard.flags = cur.guard.flags \ {f}
              => AbstractStep
<1>1. Abstract = [u \in Thread |-> StateOf(u)] /\ Abstract' = [u \in Thread |-> StateOf(u)']
  BY DEF Abstract
<1>2. Abstract' = [Abstract EXCEPT ![t] = Shown(cur', {})] /\ Abstract[t] = Shown(cur, {})
  BY <1>1
<1>3. ASSUME cur'.handles = cur.handles, cur'.guard.nesting = cur.guard.nesting,
             cur'.guard.flags = cur.guard.flags
      PROVE  AbstractStep
  <2>1. \A u \in Thread : StateOf(u)' = StateOf(u)
    BY <1>3 DEF Shown
  <2> QED BY <2>1, AbstractSame
<1>4. ASSUME cur'.handles \in 0..MaxHandles, cur'.guard = cur.guard PROVE AbstractStep
  <2>1. Abstract' = [Abstract EXCEPT ![t].handles = cur'.handles]
    <3>1. Shown(cur', {}) = [Shown(cur, {}) EXCEPT !.handles = cur'.handles]
      BY <1>4 DEF Shown
    <3> QED BY <1>2, <3>1
  <2>2. PerThread!Work(t)
    BY <1>4, <2>1 DEF PerThread!Work, Abstract
  <2> QED BY <2>2 DEF AbstractStep, PerThread!Next
<1>5. ASSUME NEW n \in {-1, 1}, cur'.handles = cur.handles,
             cur'.guard.nesting = cur.guard.nesting + n, cur'.guard.flags = cur.guard.flags
      PROVE  AbstractStep
  <2>1. Abstract' = [Abstract EXCEPT ![t].postponed = @ + n]
    <3>1. Shown(cur', {}) = [Shown(cur, {}) EXCEPT !.postponed = @ + n]
      BY <1>5 DEF Shown
    <3> QED BY <1>2, <3>1
  <2>2. PerThread!Postpone(t)
    BY <2>1 DEF PerThread!Postpone, Abstract
  <2> QED BY <2>2 DEF AbstractStep, PerThread!Next
<1>6. ASSUME NEW f \in {"preempt", "terminate"}, cur'.handles = cur.handles,
             cur'.guard.nesting = cur.guard.nesting, cur'.guard.flags = cur.guard.flags \cup {f}
      PROVE  AbstractStep
  <2>1. Abstract' = [Abstract EXCEPT ![t].requests = @ \cup {f}]
    <3>0. cur'.guard.flags \cup {} = (cur.guard.flags \cup {}) \cup {f}
      BY <1>6
    <3>1. Shown(cur', {}) = [Shown(cur, {}) EXCEPT !.requests = @ \cup {f}]
      BY <3>0, <1>6 DEF Shown
    <3> QED BY <1>2, <3>1
  <2>2. PerThread!Request(f)
    BY <2>1, ThreadAssumption DEF PerThread!Request, Abstract
  <2> QED BY <2>2 DEF AbstractStep, PerThread!Next
<1>7. ASSUME NEW f \in {"preempt", "terminate"}, cur'.handles = cur.handles,
             cur'.guard.nesting = cur.guard.nesting, cur'.guard.flags = cur.guard.flags \ {f}
      PROVE  AbstractStep
  <2>1. Abstract' = [Abstract EXCEPT ![t].requests = @ \ {f}]
    <3>0. cur'.guard.flags \cup {} = (cur.guard.flags \cup {}) \ {f}
      BY <1>7
    <3>1. Shown(cur', {}) = [Shown(cur, {}) EXCEPT !.requests = @ \ {f}]
      BY <3>0, <1>7 DEF Shown
    <3> QED BY <1>2, <3>1
  <2>2. PerThread!Serve(t, f)
    BY <2>1 DEF PerThread!Serve, Abstract
  <2> QED BY <2>2 DEF AbstractStep, PerThread!Next
<1> QED BY <1>3, <1>4, <1>5, <1>6, <1>7
----------------------------------------------------------------------------
(* What a thread does with the lock.                                        *)

\* A thread that has the lock, and the isolate's data, is inside a Locker and not inside an
\* Unlocker.
LEMMA OwnStack ==
  ASSUME IInv, NEW t \in Thread, owner = t, pc[t] \notin Restoring
  PROVE  /\ pc[t] \in {"run", "preempt", "terminate", "joins"} /\ Len(scopes[t]) <= MaxScopes[t]
         /\ \A p \in {"run", "preempt", "terminate", "joins"} : Nested(scopes[t], p)
         /\ scopes = [scopes EXCEPT ![t] = scopes[t]] /\ pc \in [Thread -> Places]
         /\ pc = [pc EXCEPT ![t] = pc[t]]
<1>1. /\ Holds(scopes[t], pc[t]) /\ Nested(scopes[t], pc[t])
      /\ scopes[t] # <<>> /\ LastOf(scopes[t]).kind # "unlocker"
  BY OwnerFacts
<1>2. pc[t] \in {"run", "preempt", "terminate", "joins"}
  BY <1>1 DEF Holds, Restoring
<1>3. scopes \in [Thread -> Seq(ScopeRecord)] /\ pc \in [Thread -> Places] /\ Len(scopes[t]) <= MaxScopes[t]
  BY <1>2 DEF IInv, ScopesOK, Types, Places
<1>4. ASSUME NEW p \in {"run", "preempt", "terminate", "joins"} PROVE Nested(scopes[t], p)
  BY <1>1, <1>2 DEF Nested
<1>5. scopes = [scopes EXCEPT ![t] = scopes[t]] /\ pc = [pc EXCEPT ![t] = pc[t]]
  BY <1>3
<1> QED BY <1>2, <1>3, <1>4, <1>5

\* Running code opens and closes handles of the thread's own.
LEMMA WorkInv ==
  ASSUME IInv, NEW t \in Thread, Work(t)
  PROVE  IInv' /\ AbstractStep
<1>1. /\ owner = t /\ owner' = t /\ pc[t] = "run" /\ pc' = pc /\ scopes' = scopes
      /\ UNCHANGED <<archive, entry, preemption>> /\ heapLimit' = heapLimit
  BY DEF Work, Runs
<1>2. PICK n \in 0..MaxHandles : cur' = [cur EXCEPT !.handles = n]
  BY DEF Work
<1>3. pc[t] \notin Restoring
  BY <1>1 DEF Restoring
<1>4. /\ cur \in Local /\ cur.guard \in Guard /\ GuardOf(cur.guard, t)
      /\ Postponing(scopes[t], cur.guard.nesting) /\ HeapOf(heapLimit, cur.guard, t)
      /\ scopes[t] \in Seq(ScopeRecord) /\ scopes[t] # <<>> /\ LastOf(scopes[t]).kind # "unlocker"
  BY <1>1, <1>3, OwnerFacts
<1>5. cur' \in Local /\ cur'.guard = cur.guard /\ cur'.handles = n
  BY <1>2, <1>4 DEF Local
<1>6. Nested(scopes[t], "run") /\ Len(scopes[t]) <= MaxScopes[t]
      /\ scopes' = [scopes EXCEPT ![t] = scopes[t]] /\ pc' = [pc EXCEPT ![t] = "run"]
  BY <1>1, <1>3, OwnStack
<1>7. Entry' /\ Preemption'
  BY <1>1, EntryStep DEF preemption, Preemption, IInv, Types
<1>8. /\ IInv' /\ Installed = t /\ Installed' = t
      /\ \A u \in Thread : u # t => StateOf(u)' = StateOf(u)
      /\ StateOf(t) = Shown(cur, {}) /\ StateOf(t)' = Shown(cur', {})
  BY <1>1, <1>3, <1>4, <1>5, <1>6, <1>7, OwnerStep
<1> QED BY <1>5, <1>8, AbstractOwn

\* A new guard of the thread that uses V8, and its limit in the heap.
LEMMA GuardStep ==
  ASSUME IInv, NEW t \in Thread, owner = t, pc[t] \notin Restoring, owner' = t,
         UNCHANGED archive, Entry', Preemption', NEW g \in Guard, SetGuard(g), GuardOf(g, t),
         NEW st \in Seq(ScopeRecord), NEW p \in {"run", "preempt", "terminate", "joins"},
         scopes' = [scopes EXCEPT ![t] = st], pc' = [pc EXCEPT ![t] = p],
         Postponing(st, g.nesting), Nested(st, p), Len(st) <= MaxScopes[t],
         st # <<>> /\ LastOf(st).kind # "unlocker", p = "preempt" => g.nesting = 0
  PROVE  /\ IInv' /\ Installed = t /\ Installed' = t
         /\ \A u \in Thread : u # t => StateOf(u)' = StateOf(u)
         /\ StateOf(t) = Shown(cur, {}) /\ StateOf(t)' = Shown(cur', {})
         /\ cur'.handles = cur.handles /\ cur'.guard = g
<1>1. cur' = [cur EXCEPT !.guard = g] /\ heapLimit' = g.limit /\ cur \in Local
  BY OwnerFacts DEF SetGuard
<1>2. cur' \in Local /\ cur'.guard = g /\ cur'.handles = cur.handles
  BY <1>1 DEF Local
<1>3. HeapOf(heapLimit', cur'.guard, t) /\ GuardOf(cur'.guard, t) /\ Postponing(st, cur'.guard.nesting)
      /\ (p = "preempt" => cur'.guard.nesting = 0)
  BY <1>1, <1>2, HeapIs
<1> QED BY <1>2, <1>3, OwnerStep

\* A PostponeInterruptsScope opens.
LEMMA OpenPostponeInv ==
  ASSUME IInv, NEW t \in Thread, OpenPostpone(t)
  PROVE  IInv' /\ AbstractStep
<1> DEFINE g == Postponed(cur.guard)
           r == Scope("postpone", "run")
           st == Append(scopes[t], r)
<1>1. /\ owner = t /\ owner' = t /\ pc[t] = "run" /\ pc' = pc
      /\ UNCHANGED <<archive, entry, preemption>> /\ SetGuard(g)
      /\ scopes' = [scopes EXCEPT ![t] = st] /\ Len(scopes[t]) < MaxScopes[t]
  BY DEF OpenPostpone, Runs, HasRoom, Pushed
<1>2. pc[t] \notin Restoring /\ MaxScopes[t] \in Nat
  BY <1>1, BoundAssumption DEF Restoring
<1>3. /\ cur.guard \in Guard /\ GuardOf(cur.guard, t) /\ cur.guard.nesting \in Nat
      /\ Postponing(scopes[t], cur.guard.nesting)
      /\ scopes[t] \in Seq(ScopeRecord) /\ scopes[t] # <<>> /\ LastOf(scopes[t]).kind # "unlocker"
  BY <1>1, <1>2, OwnerFacts
<1>4. g \in Guard /\ GuardOf(g, t) /\ g.nesting = cur.guard.nesting + 1 /\ g.flags = cur.guard.flags
  BY <1>3, GuardTypes, GuardKept, GuardFields
<1>5. r \in ScopeRecord /\ r.kind = "postpone"
  BY DEF ScopeRecord, Scope
<1> HIDE DEF g, r
<1>6. Nested(scopes[t], "run") /\ pc' = [pc EXCEPT ![t] = "run"]
  BY <1>1, <1>2, OwnStack
<1>7. Nested(st, "run") /\ Postponing(st, g.nesting)
  BY <1>3, <1>4, <1>5, <1>6, PushNested, PushPostponing
<1>8. st \in Seq(ScopeRecord) /\ st # <<>> /\ LastOf(st) = r /\ Len(st) <= MaxScopes[t]
  BY <1>1, <1>2, <1>3, <1>5 DEF LastOf
<1>9. Entry' /\ Preemption'
  BY <1>1, EntryStep DEF preemption, Preemption, IInv, Types
<1> HIDE DEF st
<1>10. /\ IInv' /\ Installed = t /\ Installed' = t
       /\ \A u \in Thread : u # t => StateOf(u)' = StateOf(u)
       /\ StateOf(t) = Shown(cur, {}) /\ StateOf(t)' = Shown(cur', {})
       /\ cur'.handles = cur.handles /\ cur'.guard = g
  BY <1>1, <1>2, <1>4, <1>5, <1>6, <1>7, <1>8, <1>9, GuardStep
<1> QED BY <1>4, <1>10, AbstractOwn

\* A PostponeInterruptsScope closes.
LEMMA ClosePostponeInv ==
  ASSUME IInv, NEW t \in Thread, ClosePostpone(t)
  PROVE  IInv' /\ AbstractStep
<1> DEFINE g == Resumed(cur.guard)
           st == Pop(scopes[t])
<1>1. /\ owner = t /\ owner' = t /\ pc[t] = "run" /\ pc' = pc
      /\ UNCHANGED <<archive, entry, preemption>> /\ SetGuard(g)
      /\ scopes' = [scopes EXCEPT ![t] = st] /\ LastOf(scopes[t]).kind = "postpone"
  BY DEF ClosePostpone, Runs, TopIs, Top, Popped
<1>2. pc[t] \notin Restoring
  BY <1>1 DEF Restoring
<1>3. /\ cur.guard \in Guard /\ GuardOf(cur.guard, t) /\ cur.guard.nesting \in Nat
      /\ Postponing(scopes[t], cur.guard.nesting)
      /\ scopes[t] \in Seq(ScopeRecord) /\ scopes[t] # <<>>
  BY <1>1, <1>2, OwnerFacts
<1>4. cur.guard.nesting > 0 /\ Postponing(st, cur.guard.nesting - 1)
  BY <1>1, <1>3, PopPostponing
<1>5. g \in Guard /\ GuardOf(g, t) /\ g.nesting = cur.guard.nesting + -1 /\ g.flags = cur.guard.flags
  BY <1>3, <1>4, GuardTypes, GuardKept, GuardFields
<1> HIDE DEF g
<1>6. Nested(scopes[t], "run") /\ pc' = [pc EXCEPT ![t] = "run"] /\ Len(scopes[t]) <= MaxScopes[t]
  BY <1>1, <1>2, OwnStack
<1>7. Nested(st, "run") /\ Holds(st, "run")
  BY <1>1, <1>3, <1>6, PopNested, BelowTop
<1>8. st \in Seq(ScopeRecord) /\ st # <<>> /\ LastOf(st).kind # "unlocker" /\ Len(st) <= MaxScopes[t]
  <2>1. MaxScopes[t] \in Nat /\ Len(scopes[t]) \in Nat
    BY <1>3, BoundAssumption
  <2>2. st \in Seq(ScopeRecord) /\ Len(st) = Len(scopes[t]) - 1
    BY <1>3, PopFacts
  <2> QED BY <1>6, <1>7, <2>1, <2>2 DEF Holds
<1>9. Entry' /\ Preemption'
  BY <1>1, EntryStep DEF preemption, Preemption, IInv, Types
<1>10. Postponing(st, g.nesting)
  BY <1>3, <1>4, <1>5
<1> HIDE DEF st
<1>11. /\ IInv' /\ Installed = t /\ Installed' = t
       /\ \A u \in Thread : u # t => StateOf(u)' = StateOf(u)
       /\ StateOf(t) = Shown(cur, {}) /\ StateOf(t)' = Shown(cur', {})
       /\ cur'.handles = cur.handles /\ cur'.guard = g
  BY <1>1, <1>2, <1>5, <1>6, <1>7, <1>8, <1>9, <1>10, GuardStep
<1> QED BY <1>5, <1>11, AbstractOwn

\* A step of the thread that uses V8 that changes nobody's state.
LEMMA PlainStep ==
  ASSUME IInv, NEW t \in Thread, owner = t, pc[t] \notin Restoring, owner' = t,
         UNCHANGED archive, Entry', Preemption',
         cur' \in Local, cur'.guard = cur.guard, cur'.handles = cur.handles, heapLimit' = heapLimit,
         NEW st \in Seq(ScopeRecord), NEW p \in {"run", "preempt", "terminate", "joins"},
         scopes' = [scopes EXCEPT ![t] = st], pc' = [pc EXCEPT ![t] = p],
         Postponing(st, cur.guard.nesting), Nested(st, p), Len(st) <= MaxScopes[t],
         st # <<>> /\ LastOf(st).kind # "unlocker", p = "preempt" => cur.guard.nesting = 0
  PROVE  IInv' /\ AbstractStep
<1>1. GuardOf(cur'.guard, t) /\ HeapOf(heapLimit', cur'.guard, t) /\ Postponing(st, cur'.guard.nesting)
      /\ (p = "preempt" => cur'.guard.nesting = 0)
  BY OwnerFacts
<1>2. /\ IInv' /\ Installed = t /\ Installed' = t
      /\ \A u \in Thread : u # t => StateOf(u)' = StateOf(u)
      /\ StateOf(t) = Shown(cur, {}) /\ StateOf(t)' = Shown(cur', {})
  BY <1>1, OwnerStep
<1> QED BY <1>2, AbstractOwn

\* The thread goes from one place in the code to another and nothing else moves.
LEMMA PlaceStep ==
  ASSUME IInv, NEW t \in Thread, owner = t, pc[t] \notin Restoring,
         UNCHANGED <<owner, archive, isolate, entry, scopes>>, Preemption',
         NEW p \in {"run", "preempt", "terminate", "joins"}, pc' = [pc EXCEPT ![t] = p],
         p = "preempt" => cur.guard.nesting = 0
  PROVE  IInv' /\ AbstractStep
<1>1. /\ cur \in Local /\ Postponing(scopes[t], cur.guard.nesting)
      /\ scopes[t] \in Seq(ScopeRecord) /\ scopes[t] # <<>> /\ LastOf(scopes[t]).kind # "unlocker"
  BY OwnerFacts
<1>2. Nested(scopes[t], p) /\ Len(scopes[t]) <= MaxScopes[t] /\ scopes' = [scopes EXCEPT ![t] = scopes[t]]
  BY OwnStack
<1>3. cur' = cur /\ heapLimit' = heapLimit /\ owner' = t /\ UNCHANGED archive /\ Entry'
  BY EntryStep DEF isolate
<1> QED BY <1>1, <1>2, <1>3, PlainStep

\* The thread handles its own termination request, if there is one.
LEMMA HandleTerminateInv ==
  ASSUME IInv, NEW t \in Thread, HandleTerminate(t)
  PROVE  IInv' /\ AbstractStep
<1> DEFINE g == Continued(cur.guard, "terminate")
<1>1. /\ owner' = owner /\ pc[t] = "terminate" /\ pc' = [pc EXCEPT ![t] = "run"]
      /\ UNCHANGED <<archive, entry, preemption>> /\ scopes' = scopes
      /\ IF "terminate" \in cur.guard.flags THEN SetGuard(g) ELSE UNCHANGED isolate
  BY DEF HandleTerminate, Goto
<1>2. pc[t] \notin Restoring /\ owner = t
  BY <1>1 DEF Restoring, IInv, StacksOK, Holds
<1>3. /\ cur.guard \in Guard /\ GuardOf(cur.guard, t) /\ cur.guard.nesting \in Nat
      /\ Postponing(scopes[t], cur.guard.nesting)
      /\ scopes[t] \in Seq(ScopeRecord) /\ scopes[t] # <<>> /\ LastOf(scopes[t]).kind # "unlocker"
  BY <1>2, OwnerFacts
<1>4. g \in Guard /\ GuardOf(g, t) /\ g.nesting = cur.guard.nesting /\ g.flags = cur.guard.flags \ {"terminate"}
  BY <1>3, GuardTypes, GuardKept, GuardFields
<1> HIDE DEF g
<1>5. Nested(scopes[t], "run") /\ Len(scopes[t]) <= MaxScopes[t] /\ scopes' = [scopes EXCEPT ![t] = scopes[t]]
  BY <1>1, <1>2, OwnStack
<1>6. Entry' /\ Preemption'
  BY <1>1, EntryStep DEF preemption, Preemption, IInv, Types
<1>7. CASE "terminate" \in cur.guard.flags
  <2>1. /\ IInv' /\ Installed = t /\ Installed' = t
        /\ \A u \in Thread : u # t => StateOf(u)' = StateOf(u)
        /\ StateOf(t) = Shown(cur, {}) /\ StateOf(t)' = Shown(cur', {})
        /\ cur'.handles = cur.handles /\ cur'.guard = g
    BY <1>1, <1>2, <1>3, <1>4, <1>5, <1>6, <1>7, GuardStep
  <2> QED BY <1>4, <2>1, AbstractOwn
<1>8. CASE "terminate" \notin cur.guard.flags
  BY <1>1, <1>2, <1>6, <1>8, PlaceStep
<1> QED BY <1>7, <1>8

\* Stack checks, the preemption thread's start and stop, and joins.
LEMMA PlaceInv ==
  ASSUME IInv, NEW t \in Thread,
         StackCheck(t) \/ StartPreemption(t) \/ StopPreemption(t) \/ Join(t)
         \/ (HandlePreempt(t) /\ "preempt" \notin cur.guard.flags)
  PROVE  IInv' /\ AbstractStep
<1>1. /\ UNCHANGED <<owner, archive, isolate, entry, scopes>>
      /\ pc[t] \in {"run", "preempt", "joins"} /\ (pc[t] = "run" => owner = t)
      /\ Preemption'
  BY DEF StackCheck, StartPreemption, StopPreemption, Join, HandlePreempt, Runs, preemption,
         Preemption, IInv, Types
<1>2. owner = t /\ pc[t] \notin Restoring
  BY <1>1 DEF Restoring, IInv, StacksOK, Holds
<1>3. PICK p \in {"run", "preempt", "terminate", "joins"} :
        pc' = [pc EXCEPT ![t] = p] /\ (p = "preempt" => cur.guard.nesting = 0)
  <2>1. CASE StackCheck(t)
    BY <2>1 DEF StackCheck, Goto
  <2>2. CASE StartPreemption(t)
    <3>1. pc' = [pc EXCEPT ![t] = "run"]
      BY <1>2, <2>2, OwnStack DEF StartPreemption, Runs
    <3> QED BY <3>1
  <2>3. CASE StopPreemption(t) \/ Join(t) \/ (HandlePreempt(t) /\ "preempt" \notin cur.guard.flags)
    BY <2>3 DEF StopPreemption, Join, HandlePreempt, Goto
  <2> QED BY <2>1, <2>2, <2>3
<1> QED BY <1>1, <1>2, <1>3, PlaceStep

----------------------------------------------------------------------------
(* Scopes that are opened and closed with the lock.                         *)

\* A scope that does not postpone interrupts is put on top.
LEMMA OpenOwn ==
  ASSUME IInv, NEW t \in Thread, owner = t, pc[t] = "run", owner' = t, pc' = pc,
         UNCHANGED <<archive, preemption>>, Entry',
         cur' \in Local, cur'.guard = cur.guard, cur'.handles = cur.handles, heapLimit' = heapLimit,
         NEW r \in ScopeRecord, scopes' = Pushed(t, r), HasRoom(t), ~TopIs(t, "postpone"),
         r.kind \in {"locker", "isolate"}, r.kind = "locker" => ~r.hasLock
  PROVE  IInv' /\ AbstractStep
<1> DEFINE st == Append(scopes[t], r)
<1>1. pc[t] \notin Restoring /\ MaxScopes[t] \in Nat
  BY BoundAssumption DEF Restoring
<1>2. /\ cur.guard.nesting \in Nat /\ Postponing(scopes[t], cur.guard.nesting)
      /\ scopes[t] \in Seq(ScopeRecord) /\ scopes[t] # <<>> /\ LastOf(scopes[t]).kind # "unlocker"
  BY <1>1, OwnerFacts
<1>3. Nested(scopes[t], "run") /\ pc' = [pc EXCEPT ![t] = "run"]
  BY <1>1, OwnStack
<1>4. LastOf(scopes[t]).kind # "postpone"
  BY <1>2 DEF TopIs, Top
<1>5. Nested(st, "run")
  BY <1>2, <1>3, PushNested
<1>6. Postponing(st, cur.guard.nesting)
  BY <1>2, <1>4, PushPostponing
<1>7. /\ st \in Seq(ScopeRecord) /\ st # <<>> /\ LastOf(st).kind # "unlocker" /\ Len(st) <= MaxScopes[t]
      /\ scopes' = [scopes EXCEPT ![t] = st]
  BY <1>1, <1>2 DEF LastOf, HasRoom, Pushed
<1>8. Preemption'
  BY DEF preemption, Preemption, IInv, Types
<1> HIDE DEF st
<1> QED BY <1>1, <1>3, <1>5, <1>6, <1>7, <1>8, PlainStep

\* A scope that does not postpone interrupts and has not taken the lock is taken away.
LEMMA CloseOwn ==
  ASSUME IInv, NEW t \in Thread, owner = t, pc[t] = "run", owner' = t, pc' = pc,
         UNCHANGED <<archive, isolate, preemption>>, Entry', scopes' = Popped(t),
         Top(t).kind # "postpone", Top(t).kind = "locker" => ~Top(t).hasLock
  PROVE  IInv' /\ AbstractStep
<1> DEFINE st == Pop(scopes[t])
<1>1. pc[t] \notin Restoring
  BY DEF Restoring
<1>2. /\ cur.guard.nesting \in Nat /\ Postponing(scopes[t], cur.guard.nesting) /\ cur \in Local
      /\ scopes[t] \in Seq(ScopeRecord) /\ scopes[t] # <<>>
  BY <1>1, OwnerFacts
<1>3. Nested(scopes[t], "run") /\ pc' = [pc EXCEPT ![t] = "run"] /\ Len(scopes[t]) <= MaxScopes[t]
  BY <1>1, OwnStack
<1>4. Nested(st, "run") /\ Holds(st, "run")
  BY <1>2, <1>3, PopNested, BelowTop DEF Top
<1>5. Postponing(st, cur.guard.nesting)
  BY <1>2, PopPostponing DEF Top
<1>6. /\ st \in Seq(ScopeRecord) /\ st # <<>> /\ LastOf(st).kind # "unlocker" /\ Len(st) <= MaxScopes[t]
      /\ scopes' = [scopes EXCEPT ![t] = st]
  <2>1. MaxScopes[t] \in Nat /\ Len(scopes[t]) \in Nat
    BY <1>2, BoundAssumption
  <2>2. st \in Seq(ScopeRecord) /\ Len(st) = Len(scopes[t]) - 1
    BY <1>2, PopFacts
  <2> QED BY <1>3, <1>4, <2>1, <2>2 DEF Holds, Popped
<1>7. Preemption' /\ cur' = cur /\ heapLimit' = heapLimit /\ UNCHANGED archive
  BY DEF preemption, Preemption, IInv, Types, isolate
<1> HIDE DEF st
<1> QED BY <1>1, <1>2, <1>3, <1>4, <1>5, <1>6, <1>7, PlainStep

\* An Isolate::Scope opens or closes.
LEMMA IsolateScopeInv ==
  ASSUME IInv, NEW t \in Thread, OpenIsolateScope(t) \/ CloseIsolateScope(t)
  PROVE  IInv' /\ AbstractStep
<1>1. CASE OpenIsolateScope(t)
  <2> DEFINE r == Scope("isolate", "run")
  <2>1. /\ owner = t /\ owner' = t /\ pc[t] = "run" /\ pc' = pc /\ Enter(t) /\ HasRoom(t)
        /\ ~TopIs(t, "postpone") /\ UNCHANGED <<archive, preemption>> /\ heapLimit' = heapLimit
        /\ cur' = [cur EXCEPT !.id = EnteredAs(t, @)] /\ scopes' = Pushed(t, r)
    BY <1>1 DEF OpenIsolateScope, Runs
  <2>2. cur' \in Local /\ cur'.guard = cur.guard /\ cur'.handles = cur.handles
    BY <2>1 DEF IInv, Types, Local, EnteredAs
  <2>3. r \in ScopeRecord /\ r.kind = "isolate" /\ Entry'
    BY <2>1, EntryStep DEF ScopeRecord, Scope
  <2> HIDE DEF r
  <2> QED BY <2>1, <2>2, <2>3, OpenOwn
<1>2. CASE CloseIsolateScope(t)
  <2>1. /\ owner = t /\ owner' = t /\ pc[t] = "run" /\ pc' = pc /\ Exit(t)
        /\ UNCHANGED <<archive, isolate, preemption>> /\ scopes' = Popped(t) /\ Top(t).kind = "isolate"
    BY <1>2 DEF CloseIsolateScope, Runs, TopIs
  <2>2. Entry'
    BY <2>1, EntryStep
  <2> QED BY <2>1, <2>2, CloseOwn
<1> QED BY <1>1, <1>2
----------------------------------------------------------------------------
(* Waiting for the lock, and getting it.                                    *)

\* A step of a thread that does not use V8 before it, nor after.
LEMMA OutsideStep ==
  ASSUME IInv, NEW t \in Thread, UNCHANGED <<archive, isolate, entry, preemption>>,
         NEW st \in Seq(ScopeRecord), NEW p \in Places,
         scopes' = [scopes EXCEPT ![t] = st], pc' = [pc EXCEPT ![t] = p],
         \/ owner # t /\ owner' = owner /\ ~Holds(st, p)
         \/ owner = NoThread /\ owner' = t /\ p \in {"restores", "rerestores"},
         Len(st) <= MaxScopes[t] + 1, p \notin {"relocks", "rerestores"} => Len(st) <= MaxScopes[t],
         Nested(st, p), ~Present(t) => Len(st) <= 1,
         \A n \in Nat : Postponing(scopes[t], n) => Postponing(st, n)
  PROVE  IInv' /\ AbstractStep
<1>1. t # NoThread /\ owner \in Thread \cup {NoThread}
  BY ThreadAssumption DEF IInv, Types
<1>2. /\ (Control /\ ScopesOK /\ StacksOK)'
      /\ scopes'[t] = st /\ pc'[t] = p
      /\ \A u \in Thread : u # t => scopes'[u] = scopes[u] /\ pc'[u] = pc[u]
  <2>1. owner' \in Thread \cup {NoThread} /\ (owner' = t <=> Holds(st, p))
        /\ \A u \in Thread : u # t => (owner' = u <=> owner = u)
    BY <1>1, ThreadAssumption DEF Holds
  <2> QED BY <2>1, StackStep
<1>3. UNCHANGED <<cur, heapLimit, lazy, lazyState, states, threadState>>
  BY DEF archive, isolate
<1>4. Installed' = Installed
  BY <1>1, <1>2, <1>3 DEF Installed
<1>5. /\ (Data /\ StatesAccounted /\ LazyOK)'
      /\ \A u \in Thread : u # Installed => Kept(u)
  <2>1. cur' \in Local /\ heapLimit' \in Limit \cup {kIllegalLimit, kInterruptLimit}
    BY <1>3 DEF IInv, Types
  <2>2. owner' # NoThread /\ pc'[owner'] \notin {"restores", "rerestores"} =>
          lazy = NoThread /\ threadState[owner'] = NoState
    BY <1>1, <1>2 DEF IInv, LazyOK
  <2> QED BY <1>4, <2>1, <2>2, SameArchive
<1>6. ASSUME NEW u \in Thread, u = Installed PROVE Kept(u)
  <2>1. Present(u) /\ Present(u)' /\ LocalOf(u) = cur /\ LocalOf(u)' = cur
    BY <1>3, <1>4, <1>6 DEF Present, LocalOf
  <2>2. StateOf(u)' = StateOf(u)
    BY <1>3, <1>4, <1>6, StateOfIs, StateOfIsNext DEF Seen, Shown
  <2>3. GuardOf(LocalOf(u).guard, u)
    BY <2>1 DEF IInv, PresentOK
  <2> QED BY <2>1, <2>2, <2>3 DEF Kept, GuardOf
<1>7. PresentOK'
  <2>1. LocalOf(t).guard.nesting \in Nat \/ ~Present(t)
    <3>1. cur \in Local /\ \A x \in State : states[x].data \in Local
      BY DEF IInv, Types
    <3>2. threadState[t] # NoState => threadState[t] \in State
      BY DEF IInv, Types
    <3> QED BY <3>1, <3>2 DEF LocalOf, Present, Local, Guard
  <2>2. Present(t) => Postponing(scopes[t], LocalOf(t).guard.nesting)
    BY DEF IInv, PresentOK
  <2>3. Kept(t)
    BY <1>5, <1>6
  <2>4. ASSUME Present(t)'
        PROVE  GuardOf(LocalOf(t).guard, t)' /\ Postponing(scopes'[t], LocalOf(t).guard.nesting')
    BY <1>2, <2>1, <2>2, <2>3, <2>4 DEF Kept
  <2>5. ~Present(t)' => Len(scopes'[t]) <= 1
    BY <1>2, <2>3 DEF Kept
  <2> QED BY <1>2, <1>5, <1>6, <2>4, <2>5, PresentStep
<1>8. IsolateOK'
  BY <1>1, <1>2, <1>3, <1>4 DEF IInv, IsolateOK
<1>9. Entry' /\ Preemption'
  BY EntryStep DEF preemption, Preemption, IInv, Types
<1>10. IInv'
  BY <1>2, <1>5, <1>7, <1>8, <1>9, InvParts
<1> QED BY <1>4, <1>5, <1>6, <1>10, AbstractSame DEF Kept

\* A Locker opens, nested or first.
LEMMA OpenLockerInv ==
  ASSUME IInv, NEW t \in Thread, OpenLocker(t)
  PROVE  IInv' /\ AbstractStep
<1>1. /\ pc[t] = "run" /\ owner' = owner /\ HasRoom(t) /\ ~TopIs(t, "postpone")
      /\ UNCHANGED <<archive, isolate, entry, preemption>> /\ scopes' = Pushed(t, Locker(owner # t))
      /\ pc' = [pc EXCEPT ![t] = IF owner = t THEN "run" ELSE "locks"]
  BY DEF OpenLocker, Goto
<1>2. scopes[t] \in Seq(ScopeRecord) /\ Nested(scopes[t], "run") /\ (owner = t <=> Holds(scopes[t], "run"))
      /\ pc \in [Thread -> Places]
  BY <1>1 DEF IInv, ScopesOK, StacksOK, Types, Places
<1>3. CASE owner = t
  <2> DEFINE r == Locker(owner # t)
  <2>1. r \in ScopeRecord /\ r.kind = "locker" /\ ~r.hasLock
    BY <1>3 DEF Locker, ScopeRecord
  <2>2. pc' = pc /\ cur' = cur /\ heapLimit' = heapLimit /\ cur \in Local /\ UNCHANGED <<archive, preemption>>
    BY <1>1, <1>2, <1>3 DEF isolate, IInv, Types
  <2>3. Entry'
    BY <1>1, EntryStep
  <2> HIDE DEF r
  <2>4. scopes' = Pushed(t, r)
    BY <1>1 DEF r
  <2> QED BY <1>1, <1>3, <2>1, <2>2, <2>3, <2>4, OpenOwn
<1>4. CASE owner # t
  <2> DEFINE r == Locker(owner # t)
             st == Append(scopes[t], r)
  <2>1. r \in ScopeRecord /\ r.kind = "locker" /\ r.hasLock
    BY <1>4 DEF Locker, ScopeRecord
  <2>2. /\ scopes' = [scopes EXCEPT ![t] = st] /\ pc' = [pc EXCEPT ![t] = "locks"]
        /\ MaxScopes[t] \in Nat /\ Len(scopes[t]) \in Nat /\ Len(scopes[t]) < MaxScopes[t]
    BY <1>1, <1>2, <1>4, BoundAssumption DEF Pushed, HasRoom
  <2> HIDE DEF r
  <2>3. st \in Seq(ScopeRecord) /\ Len(st) <= MaxScopes[t] /\ Len(st) <= MaxScopes[t] + 1
        /\ Len(st) = Len(scopes[t]) + 1
    BY <1>2, <2>1, <2>2
  <2>4. scopes[t] = <<>> \/ LastOf(scopes[t]).kind = "unlocker"
    BY <1>2, <1>4 DEF Holds
  <2>5. Nested(st, "locks")
    BY <1>2, <2>1, <2>4, PushNested
  <2>6. ~Present(t) => Len(st) <= 1
    <3>1. ASSUME ~Present(t) PROVE Len(st) <= 1
      <4>1. Len(scopes[t]) <= 1
        BY <3>1 DEF IInv, PresentOK
      <4>2. scopes[t] # <<>> => Len(scopes[t]) > 1
        BY <1>2, <2>4, BelowTop
      <4>3. scopes[t] = <<>>
        BY <1>2, <4>1, <4>2
      <4> QED BY <2>3, <4>3
    <3> QED BY <3>1
  <2>7. ASSUME NEW n \in Nat, Postponing(scopes[t], n) PROVE Postponing(st, n)
    <3>1. scopes[t] # <<>> => LastOf(scopes[t]).kind # "postpone"
      BY <1>1 DEF TopIs, Top
    <3> QED BY <1>2, <2>1, <2>7, <3>1, PushPostponing
  <2> HIDE DEF st
  <2>8. ~Holds(st, "locks") /\ "locks" \in Places
    BY DEF Holds, Places
  <2> QED BY <1>1, <1>4, <2>2, <2>3, <2>5, <2>6, <2>7, <2>8, OutsideStep
<1> QED BY <1>3, <1>4

\* The mutex is taken: nobody had it.
LEMMA LockInv ==
  ASSUME IInv, NEW t \in Thread, Lock(t)
  PROVE  IInv' /\ AbstractStep
<1> DEFINE p == IF pc[t] = "locks" THEN "restores" ELSE "rerestores"
<1>1. /\ pc[t] \in {"locks", "relocks"} /\ owner = NoThread /\ owner' = t
      /\ UNCHANGED <<archive, isolate, entry, preemption>> /\ scopes' = scopes
      /\ pc' = [pc EXCEPT ![t] = p]
  BY DEF Lock, Goto
<1>2. /\ scopes \in [Thread -> Seq(ScopeRecord)] /\ Nested(scopes[t], pc[t])
      /\ Len(scopes[t]) <= MaxScopes[t] + 1 /\ (pc[t] = "locks" => Len(scopes[t]) <= MaxScopes[t])
      /\ (~Present(t) => Len(scopes[t]) <= 1)
  BY DEF IInv, ScopesOK, StacksOK, Types, PresentOK
<1>3. /\ p \in Places /\ p \in {"restores", "rerestores"} /\ (p = "restores" <=> pc[t] = "locks")
      /\ (p = "rerestores" <=> pc[t] = "relocks")
  BY <1>1 DEF Places
<1> HIDE DEF p
<1>4. Nested(scopes[t], p)
  BY <1>1, <1>2, <1>3 DEF Nested
<1>5. scopes' = [scopes EXCEPT ![t] = scopes[t]] /\ scopes[t] \in Seq(ScopeRecord)
  BY <1>1, <1>2
<1> QED BY <1>1, <1>2, <1>3, <1>4, <1>5, OutsideStep

\* An Unlocker closes: the thread waits for the lock again.
LEMMA CloseUnlockerInv ==
  ASSUME IInv, NEW t \in Thread, CloseUnlocker(t)
  PROVE  IInv' /\ AbstractStep
<1>1. /\ pc[t] = "run" /\ owner' = owner /\ scopes[t] # <<>> /\ LastOf(scopes[t]).kind = "unlocker"
      /\ UNCHANGED <<archive, isolate, entry, preemption>> /\ scopes' = scopes
      /\ pc' = [pc EXCEPT ![t] = "relocks"]
  BY DEF CloseUnlocker, Goto, TopIs, Top
<1>2. /\ scopes \in [Thread -> Seq(ScopeRecord)] /\ Nested(scopes[t], pc[t])
      /\ Len(scopes[t]) <= MaxScopes[t] + 1
      /\ (~Present(t) => Len(scopes[t]) <= 1) /\ (owner = t <=> Holds(scopes[t], pc[t]))
  BY DEF IInv, ScopesOK, StacksOK, Types, PresentOK
<1>3. owner # t /\ ~Holds(scopes[t], "relocks") /\ "relocks" \in Places
  BY <1>1, <1>2 DEF Holds, Places
<1>4. Nested(scopes[t], "relocks")
  BY <1>1, <1>2 DEF Nested
<1>5. scopes' = [scopes EXCEPT ![t] = scopes[t]] /\ scopes[t] \in Seq(ScopeRecord)
  BY <1>1, <1>2
<1> QED BY <1>1, <1>2, <1>3, <1>4, <1>5, OutsideStep
----------------------------------------------------------------------------
(* Giving up the lock.                                                      *)

\* An Unlocker is put on top, at the place p with the guard g.
LEMMA UnlockStep ==
  ASSUME IInv, NEW t \in Thread, owner = t, pc[t] \notin Restoring, Unlock(t), Preemption',
         NEW back \in {"run", "terminate"}, NEW p \in {"run", "relocks"},
         scopes' = Pushed(t, Scope("unlocker", back)), pc' = [pc EXCEPT ![t] = p],
         p = "run" => HasRoom(t), LastOf(scopes[t]).kind # "postpone",
         cur' \in Local, HeapOf(heapLimit', cur'.guard, t), GuardOf(cur'.guard, t),
         cur'.guard.nesting = cur.guard.nesting
  PROVE  /\ IInv' /\ Installed = t /\ Installed' = t
         /\ \A u \in Thread : u # t => StateOf(u)' = StateOf(u)
         /\ StateOf(t) = Shown(cur, {}) /\ StateOf(t)' = Shown(cur', {})
<1> DEFINE r == Scope("unlocker", back)
           st == Append(scopes[t], r)
<1>1. r \in ScopeRecord /\ r.kind = "unlocker"
  BY DEF Scope, ScopeRecord
<1>2. /\ cur.guard.nesting \in Nat /\ Postponing(scopes[t], cur.guard.nesting)
      /\ scopes[t] \in Seq(ScopeRecord) /\ scopes[t] # <<>> /\ LastOf(scopes[t]).kind # "unlocker"
  BY OwnerFacts
<1>3. Nested(scopes[t], "run") /\ Len(scopes[t]) <= MaxScopes[t]
  BY OwnStack
<1> HIDE DEF r
<1>4. Nested(st, p)
  BY <1>1, <1>2, <1>3, PushNested
<1>5. Postponing(st, cur'.guard.nesting)
  BY <1>1, <1>2, PushPostponing
<1>6. /\ st \in Seq(ScopeRecord) /\ st # <<>> /\ LastOf(st) = r
      /\ Len(st) <= MaxScopes[t] + 1 /\ (p = "run" => Len(st) <= MaxScopes[t])
  <2>1. MaxScopes[t] \in Nat /\ Len(scopes[t]) \in Nat
    BY <1>2, BoundAssumption
  <2> QED BY <1>1, <1>2, <1>3, <2>1 DEF HasRoom, LastOf
<1>7. ~Holds(st, p)
  BY <1>1, <1>6 DEF Holds
<1>8. ArchiveThread(t) /\ owner' = NoThread /\ Entry'
  BY EntryStep DEF Unlock
<1>9. scopes' = [scopes EXCEPT ![t] = st]
  BY DEF Pushed, r
<1> HIDE DEF st
<1> QED BY <1>4, <1>5, <1>6, <1>7, <1>8, <1>9, ArchiveStep

\* An Unlocker opens: the thread's data is archived lazily and the mutex given up.
LEMMA OpenUnlockerInv ==
  ASSUME IInv, NEW t \in Thread, OpenUnlocker(t)
  PROVE  IInv' /\ AbstractStep
<1>1. /\ owner = t /\ pc[t] = "run" /\ pc' = pc /\ HasRoom(t) /\ Unlock(t)
      /\ scopes' = Pushed(t, Scope("unlocker", "run")) /\ cur' = cur /\ heapLimit' = heapLimit
      /\ preemption' = preemption /\ LastOf(scopes[t]).kind # "postpone"
  BY DEF OpenUnlocker, Runs, TopIs, Top, isolate
<1>2. pc[t] \notin Restoring
  BY <1>1 DEF Restoring
<1>3. cur \in Local /\ HeapOf(heapLimit, cur.guard, t) /\ GuardOf(cur.guard, t)
  BY <1>1, <1>2, OwnerFacts
<1>4. pc' = [pc EXCEPT ![t] = "run"] /\ Preemption'
  BY <1>1, <1>2, OwnStack DEF preemption, Preemption, IInv, Types
<1>5. /\ IInv' /\ Installed = t /\ Installed' = t
      /\ \A u \in Thread : u # t => StateOf(u)' = StateOf(u)
      /\ StateOf(t) = Shown(cur, {}) /\ StateOf(t)' = Shown(cur', {})
  <2>1. cur' \in Local /\ HeapOf(heapLimit', cur'.guard, t) /\ GuardOf(cur'.guard, t)
        /\ cur'.guard.nesting = cur.guard.nesting
    BY <1>1, <1>3
  <2> QED BY <1>1, <1>2, <1>4, <2>1, UnlockStep
<1> QED BY <1>1, <1>5, AbstractOwn

\* The thread is preempted: it archives, unlocks, and will relock.
LEMMA HandlePreemptInv ==
  ASSUME IInv, NEW t \in Thread, HandlePreempt(t), "preempt" \in cur.guard.flags
  PROVE  IInv' /\ AbstractStep
<1> DEFINE g == Continued(cur.guard, "preempt")
<1>1. /\ pc[t] = "preempt" /\ pc' = [pc EXCEPT ![t] = "relocks"] /\ Unlock(t) /\ SetGuard(g)
      /\ scopes' = Pushed(t, Scope("unlocker", "terminate")) /\ preemption' = preemption
  BY DEF HandlePreempt, Goto
<1>2. owner = t /\ pc[t] \notin Restoring
  BY <1>1 DEF Restoring, IInv, StacksOK, Holds
<1>3. /\ cur \in Local /\ cur.guard \in Guard /\ GuardOf(cur.guard, t)
      /\ Postponing(scopes[t], cur.guard.nesting) /\ scopes[t] \in Seq(ScopeRecord) /\ scopes[t] # <<>>
      /\ cur.guard.nesting \in Nat
  BY <1>2, OwnerFacts
<1>4. cur.guard.nesting = 0
  <2>1. owner # NoThread
    BY <1>2, ThreadAssumption
  <2> QED BY <1>1, <1>2, <2>1 DEF IInv, IsolateOK
<1>5. LastOf(scopes[t]).kind # "postpone"
  BY <1>3, <1>4, PopPostponing
<1>6. g \in Guard /\ GuardOf(g, t) /\ g.nesting = cur.guard.nesting /\ g.flags = cur.guard.flags \ {"preempt"}
  BY <1>3, GuardTypes, GuardKept, GuardFields
<1> HIDE DEF g
<1>7. cur' \in Local /\ cur'.guard = g /\ cur'.handles = cur.handles /\ heapLimit' = g.limit
  BY <1>1, <1>3, <1>6 DEF SetGuard, Local
<1>8. Preemption'
  BY <1>1 DEF preemption, Preemption, IInv, Types
<1>9. /\ IInv' /\ Installed = t /\ Installed' = t
      /\ \A u \in Thread : u # t => StateOf(u)' = StateOf(u)
      /\ StateOf(t) = Shown(cur, {}) /\ StateOf(t)' = Shown(cur', {})
  <2>1. HeapOf(heapLimit', cur'.guard, t) /\ GuardOf(cur'.guard, t) /\ cur'.guard.nesting = cur.guard.nesting
    BY <1>6, <1>7, HeapIs
  <2> QED BY <1>1, <1>2, <1>5, <1>7, <1>8, <2>1, UnlockStep
<1> QED BY <1>6, <1>7, <1>9, AbstractOwn

\* The outermost Locker of a thread that has never been archived: the thread
\* is forgotten.
LEMMA LeaveInv ==
  ASSUME IInv, NEW t \in Thread, Runs(t), scopes[t] # <<>>, Top(t).kind = "locker", scopes' = Popped(t),
         Top(t).hasLock, Top(t).topLevel, cur.handles = 0, Exit(t), owner' = NoThread,
         UNCHANGED <<archive, isolate, pc, preemption>>
  PROVE  IInv' /\ AbstractStep
<1> DEFINE st == Pop(scopes[t])
<1>1. owner = t /\ pc[t] = "run" /\ pc[t] \notin Restoring /\ t # NoThread
  BY ThreadAssumption DEF Runs, Restoring
<1>2. /\ Installed = t /\ lazy = NoThread /\ threadState[t] = NoState /\ StateOf(t) = Shown(cur, {})
      /\ scopes[t] \in Seq(ScopeRecord)
  BY <1>1, OwnerFacts
<1>3. Nested(scopes[t], "run") /\ pc' = [pc EXCEPT ![t] = "run"] /\ Len(scopes[t]) <= MaxScopes[t]
  BY <1>1, OwnStack
<1>4. Len(scopes[t]) = 1
  <2> DEFINE n == Len(scopes[t])
  <2>1. n \in DOMAIN scopes[t] /\ n \in Nat \ {0} /\ scopes[t][n] = Top(t)
    BY <1>2 DEF Top, LastOf
  <2> HIDE DEF n
  <2>2. scopes[t][n].kind = "locker" /\ scopes[t][n].hasLock /\ scopes[t][n].topLevel
    BY <2>1
  <2>3. \A k \in DOMAIN scopes[t] :
          ~(scopes[t][k].kind = "locker" /\ scopes[t][k].hasLock /\ scopes[t][k].topLevel /\ k > 1)
    BY <1>3 DEF Nested
  <2>4. ~(n > 1)
    BY <2>1, <2>2, <2>3
  <2>5. n = 1
    BY <2>1, <2>4
  <2> QED BY <2>5 DEF n
<1>5. st = <<>> /\ st \in Seq(ScopeRecord) /\ Len(st) = 0 /\ scopes' = [scopes EXCEPT ![t] = st]
  BY <1>2, <1>4, PopFacts DEF Popped
<1>6. Nested(st, "run") /\ ~Holds(st, "run")
  BY <1>5 DEF Nested, Holds
<1> HIDE DEF st
<1>7. /\ (Control /\ ScopesOK /\ StacksOK)'
      /\ scopes'[t] = st /\ pc'[t] = "run"
      /\ \A u \in Thread : u # t => scopes'[u] = scopes[u] /\ pc'[u] = pc[u]
  <2>1. MaxScopes[t] \in Nat
    BY BoundAssumption
  <2>2. owner' \in Thread \cup {NoThread} /\ (owner' = t <=> Holds(st, "run")) /\ "run" \in Places
        /\ \A u \in Thread : u # t => (owner' = u <=> owner = u)
    BY <1>1, <1>6, ThreadAssumption DEF Places
  <2>3. Len(st) <= MaxScopes[t] /\ Len(st) <= MaxScopes[t] + 1
    BY <1>5, <2>1
  <2>4. st \in Seq(ScopeRecord) /\ scopes' = [scopes EXCEPT ![t] = st]
    BY <1>5
  <2> QED BY <1>3, <1>6, <2>2, <2>3, <2>4, StackStep
<1>8. UNCHANGED <<cur, heapLimit, lazy, lazyState, states, threadState>>
  BY DEF archive, isolate
<1>9. Installed' = NoThread
  BY <1>2, <1>8 DEF Installed
<1>10. /\ (Data /\ StatesAccounted /\ LazyOK)'
       /\ \A u \in Thread : u # t => Kept(u)
  <2>1. cur' \in Local /\ heapLimit' \in Limit \cup {kIllegalLimit, kInterruptLimit}
    BY <1>8 DEF IInv, Types
  <2>2. \A u \in Thread : u # t => u # Installed /\ u # Installed'
    BY <1>2, <1>9, ThreadAssumption
  <2> QED BY <2>1, <2>2, SameArchive
<1>11. PresentOK'
  <2>1. ~Present(t)'
    BY <1>1, <1>2, <1>8, <1>9 DEF Present
  <2> QED BY <1>5, <1>7, <1>10, <2>1, PresentStep
<1>12. IsolateOK'
  BY <1>8, <1>9 DEF IsolateOK
<1>13. Entry' /\ Preemption'
  BY EntryStep DEF preemption, Preemption, IInv, Types
<1>14. IInv'
  BY <1>7, <1>10, <1>11, <1>12, <1>13, InvParts
<1>15. StateOf(t)' = PerThread!Absent /\ \A u \in Thread : u # t => StateOf(u)' = StateOf(u)
  BY <1>1, <1>2, <1>8, <1>9, <1>10, StateOfIsNext DEF Seen, Kept
<1>16. PerThread!Leave(t)
  <2>1. Abstract' = [Abstract EXCEPT ![t] = PerThread!Absent] /\ Abstract[t].handles = 0
    <3>1. Abstract = [u \in Thread |-> StateOf(u)] /\ Abstract' = [u \in Thread |-> StateOf(u)']
      BY DEF Abstract
    <3>2. StateOf(t).handles = 0
      BY <1>2 DEF Shown
    <3> QED BY <1>15, <3>1, <3>2
  <2> QED BY <1>2, <1>9, <2>1 DEF PerThread!Leave, PerThread!Absent, Abstract
<1> QED BY <1>14, <1>16 DEF AbstractStep, PerThread!Next

\* A Locker closes: the top-level one drops the thread's state or archives it.
LEMMA CloseLockerInv ==
  ASSUME IInv, NEW t \in Thread, CloseLocker(t)
  PROVE  IInv' /\ AbstractStep
<1>1. /\ owner = t /\ pc[t] = "run" /\ pc' = pc /\ scopes[t] # <<>> /\ Top(t).kind = "locker"
      /\ scopes' = Popped(t) /\ UNCHANGED <<isolate, preemption>>
  BY DEF CloseLocker, Runs, TopIs
<1>2. pc[t] \notin Restoring
  BY <1>1 DEF Restoring
<1>3. CASE ~Top(t).hasLock /\ UNCHANGED <<owner, archive, entry>>
  <2>1. Entry'
    BY <1>3, EntryStep
  <2> QED BY <1>1, <1>3, <2>1, CloseOwn
<1>4. CASE Top(t).hasLock /\ Top(t).topLevel /\ cur.handles = 0 /\ Exit(t) /\ owner' = NoThread
           /\ UNCHANGED archive
  BY <1>1, <1>4, LeaveInv DEF Runs
<1>5. CASE Top(t).hasLock /\ ~Top(t).topLevel /\ Exit(t) /\ ArchiveThread(t) /\ owner' = NoThread
  <2> DEFINE st == Pop(scopes[t])
  <2>1. /\ cur \in Local /\ HeapOf(heapLimit, cur.guard, t) /\ GuardOf(cur.guard, t)
        /\ Postponing(scopes[t], cur.guard.nesting) /\ scopes[t] \in Seq(ScopeRecord)
        /\ cur.guard.nesting \in Nat
    BY <1>1, <1>2, OwnerFacts
  <2>2. Nested(scopes[t], "run") /\ pc' = [pc EXCEPT ![t] = "run"] /\ Len(scopes[t]) <= MaxScopes[t]
    BY <1>1, <1>2, OwnStack
  <2>3. Nested(st, "run") /\ ~Holds(st, "run")
    BY <1>1, <1>5, <2>1, <2>2, PopNested, BelowTop DEF Top
  <2>4. Postponing(st, cur.guard.nesting)
    BY <1>1, <2>1, PopPostponing DEF Top
  <2>5. st \in Seq(ScopeRecord) /\ Len(st) <= MaxScopes[t] /\ Len(st) <= MaxScopes[t] + 1
    <3>1. MaxScopes[t] \in Nat /\ Len(scopes[t]) \in Nat
      BY <2>1, BoundAssumption
    <3>2. st \in Seq(ScopeRecord) /\ Len(st) = Len(scopes[t]) - 1
      BY <1>1, <2>1, PopFacts
    <3> QED BY <2>2, <3>1, <3>2
  <2>6. /\ cur' = cur /\ heapLimit' = heapLimit /\ Entry' /\ Preemption'
        /\ scopes' = [scopes EXCEPT ![t] = st]
    BY <1>1, <1>5, EntryStep DEF isolate, preemption, Preemption, IInv, Types, Popped
  <2> HIDE DEF st
  <2>7. /\ IInv' /\ Installed = t /\ Installed' = t
        /\ \A u \in Thread : u # t => StateOf(u)' = StateOf(u)
        /\ StateOf(t) = Shown(cur, {}) /\ StateOf(t)' = Shown(cur', {})
    <3>1. cur' \in Local /\ HeapOf(heapLimit', cur'.guard, t) /\ GuardOf(cur'.guard, t)
          /\ Postponing(st, cur'.guard.nesting)
      BY <2>1, <2>4, <2>6
    <3> QED BY <1>1, <1>2, <1>5, <2>2, <2>3, <2>5, <2>6, <3>1, ArchiveStep
  <2> QED BY <2>6, <2>7, AbstractOwn
<1> QED BY <1>3, <1>4, <1>5 DEF CloseLocker
----------------------------------------------------------------------------
(* Getting the state back.                                                  *)

\* To the abstract specification that is a turn of t, or a pause, or nothing.
LEMMA AbstractRestore ==
  ASSUME NEW t \in Thread, \A u \in Thread : StateOf(u)' = StateOf(u),
         \/ Installed' = Installed
         \/ Installed # t /\ Installed' = t /\ Present(t)
         \/ Installed' = NoThread
  PROVE  AbstractStep
<1>1. Present(t) => StateOf(t).there
  BY StateOfIs DEF Seen, Shown, Here, Present
<1> QED BY <1>1, AbstractSame, AbstractTurn

\* The first Locker of a thread restores what was archived, or finds nothing.
LEMMA LockerRestoresInv ==
  ASSUME IInv, StoredOK, NEW t \in Thread, LockerRestores(t)
  PROVE  IInv' /\ AbstractStep
<1>1. pc[t] = "restores" /\ owner' = owner /\ preemption' = preemption
  BY DEF LockerRestores
<1>2. /\ scopes \in [Thread -> Seq(ScopeRecord)] /\ scopes[t] \in Seq(ScopeRecord)
      /\ Nested(scopes[t], "restores") /\ Len(scopes[t]) <= MaxScopes[t]
      /\ owner = t /\ (~Present(t) => Len(scopes[t]) <= 1)
  BY <1>1 DEF IInv, ScopesOK, StacksOK, PresentOK, Holds
<1>3. /\ scopes[t] # <<>> /\ LastOf(scopes[t]).kind = "locker" /\ LastOf(scopes[t]).hasLock
      /\ DOMAIN scopes[t] = 1..Len(scopes[t]) /\ Len(scopes[t]) \in Nat \ {0}
  BY <1>2 DEF Nested
<1>4. Preemption'
  BY <1>1 DEF preemption, Preemption, IInv, Types
<1>5. ASSUME Restore(t), scopes' = [scopes EXCEPT ![t][Len(scopes[t])].topLevel = FALSE],
             EnterDefaultIsolate(t), Goto(t, "run")
      PROVE  IInv' /\ AbstractStep
  <2> DEFINE n == Len(scopes[t])
             st == [scopes[t] EXCEPT ![n].topLevel = FALSE]
  <2>1. scopes' = [scopes EXCEPT ![t] = st] /\ pc' = [pc EXCEPT ![t] = "run"]
    BY <1>2, <1>5 DEF Goto
  <2>2. /\ n \in DOMAIN scopes[t] /\ scopes[t][n] \in ScopeRecord /\ DOMAIN st = DOMAIN scopes[t]
        /\ \A k \in DOMAIN scopes[t] : k # n => st[k] = scopes[t][k]
        /\ st[n] = [scopes[t][n] EXCEPT !.topLevel = FALSE]
    <3> DEFINE r == [scopes[t][n] EXCEPT !.topLevel = FALSE]
    <3>1. st = [scopes[t] EXCEPT ![n] = r]
      OBVIOUS
    <3>2. n \in DOMAIN scopes[t] /\ n \in Nat \ {0} /\ scopes[t][n] \in ScopeRecord
      BY <1>2, <1>3
    <3> HIDE DEF r, st, ScopeRecord, n
    <3>3. DOMAIN st = DOMAIN scopes[t] /\ (\A k \in DOMAIN scopes[t] : k # n => st[k] = scopes[t][k])
          /\ st[n] = r
      BY <3>1, <3>2
    <3> QED BY <3>2, <3>3 DEF r
  <2>3. /\ st[n] \in ScopeRecord /\ ~st[n].topLevel
        /\ st[n].kind = scopes[t][n].kind /\ st[n].hasLock = scopes[t][n].hasLock
    BY <2>2 DEF ScopeRecord
  <2>4. st \in Seq(ScopeRecord) /\ Len(st) = n
    <3> HIDE DEF ScopeRecord
    <3>1. [scopes[t][n] EXCEPT !.topLevel = FALSE] \in ScopeRecord
      BY <2>2, <2>3
    <3> QED BY <1>2, <1>3, <2>2, <3>1
  <2> HIDE DEF st, n
  <2>5. \A k \in DOMAIN st : k \in DOMAIN scopes[t] /\ st[k].kind = scopes[t][k].kind
                            /\ st[k].hasLock = scopes[t][k].hasLock
    BY <2>2, <2>3
  <2>6. \A k \in DOMAIN st : k > 1 => k - 1 \in DOMAIN st
    BY <1>3, <2>2
  <2>7. \A k \in DOMAIN st :
          /\ st[k].kind = "locker" => (st[k].hasLock <=> (k = 1 \/ st[k - 1].kind = "unlocker"))
          /\ st[k].kind # "locker" => k > 1 /\ st[k - 1].kind # "unlocker"
    <3>1. ASSUME NEW k \in DOMAIN st
          PROVE  /\ st[k].kind = "locker" => (st[k].hasLock <=> (k = 1 \/ st[k - 1].kind = "unlocker"))
                 /\ st[k].kind # "locker" => k > 1 /\ st[k - 1].kind # "unlocker"
      <4>1. k \in DOMAIN scopes[t] /\ k \in Nat \ {0}
        BY <1>3, <2>2
      <4>2. /\ scopes[t][k].kind = "locker" =>
                 (scopes[t][k].hasLock <=> (k = 1 \/ scopes[t][k - 1].kind = "unlocker"))
            /\ scopes[t][k].kind # "locker" => k > 1 /\ scopes[t][k - 1].kind # "unlocker"
        BY <1>2, <4>1 DEF Nested
      <4>3. k > 1 => st[k - 1].kind = scopes[t][k - 1].kind
        BY <2>5, <2>6
      <4>4. st[k].kind = scopes[t][k].kind /\ st[k].hasLock = scopes[t][k].hasLock
        BY <2>5
      <4> QED BY <4>1, <4>2, <4>3, <4>4
    <3> QED BY <3>1
  <2>8. \A k \in DOMAIN st : ~(st[k].kind = "locker" /\ st[k].hasLock /\ st[k].topLevel /\ k > 1)
    <3>1. ASSUME NEW k \in DOMAIN st, st[k].kind = "locker", st[k].hasLock, st[k].topLevel, k > 1 PROVE FALSE
      <4>1. k # n /\ st[k] = scopes[t][k] /\ k \in DOMAIN scopes[t]
        BY <2>2, <2>3, <3>1
      <4>2. scopes[t][k].kind = "locker" /\ scopes[t][k].hasLock /\ scopes[t][k].topLevel
        BY <3>1, <4>1
      <4> QED BY <1>2, <3>1, <4>1, <4>2 DEF Nested, n
    <3> QED BY <3>1
  <2>9. Nested(st, "run")
    BY <2>7, <2>8 DEF Nested
  <2>10. Holds(st, "run") /\ Len(st) <= MaxScopes[t]
    <3>1. LastOf(st) = st[n] /\ LastOf(scopes[t]) = scopes[t][n] /\ st # <<>>
      BY <1>3, <2>4 DEF LastOf, n
    <3> QED BY <1>2, <1>3, <2>3, <2>4, <3>1 DEF Holds, n
  <2>11. ASSUME NEW m \in Nat, Postponing(scopes[t], m) PROVE Postponing(st, m)
    BY <2>2, <2>4, <2>5, <2>11 DEF Postponing, n
  <2>12. ~RestoreNew(t) /\ Entry'
    BY <1>5, EntryStep DEF Restore, RestoreLazily, RestoreArchived, RestoreNew
  <2>13. /\ IInv' /\ \A u \in Thread : StateOf(u)' = StateOf(u)
         /\ \/ Installed' = Installed
            \/ Installed # t /\ Installed' = t /\ Present(t)
            \/ Installed' = NoThread
    <3>1. owner' = t /\ pc[t] \in {"restores", "rerestores"} /\ Restore(t)
      BY <1>1, <1>2, <1>5
    <3> QED BY <1>2, <1>4, <2>1, <2>4, <2>9, <2>10, <2>11, <2>12, <3>1, RestoreStep
  <2> QED BY <2>13, AbstractRestore
<1>6. ASSUME RestoreNew(t), Goto(t, "inits"), UNCHANGED <<scopes, entry>>
      PROVE  IInv' /\ AbstractStep
  <2>1. /\ scopes' = [scopes EXCEPT ![t] = scopes[t]] /\ pc' = [pc EXCEPT ![t] = "inits"] /\ Entry'
    BY <1>2, <1>6, EntryStep DEF Goto
  <2>2. Len(scopes[t]) = 1
    <3>1. ~Present(t)
      BY <1>1, <1>2, <1>6 DEF RestoreNew, Present, Installed
    <3> QED BY <1>2, <1>3, <3>1
  <2>3. Nested(scopes[t], "inits") /\ Holds(scopes[t], "inits")
    BY <1>2, <1>3, <2>2 DEF Nested, Holds
  <2>4. /\ IInv' /\ \A u \in Thread : StateOf(u)' = StateOf(u)
        /\ \/ Installed' = Installed
           \/ Installed # t /\ Installed' = t /\ Present(t)
           \/ Installed' = NoThread
    BY <1>1, <1>2, <1>4, <1>6, <2>1, <2>3, RestoreStep
  <2> QED BY <2>4, AbstractRestore
<1> QED BY <1>5, <1>6 DEF LockerRestores

\* After an Unlocker or a preemption the thread has its data back.
LEMMA UnlockerRestoresInv ==
  ASSUME IInv, StoredOK, NEW t \in Thread, UnlockerRestores(t)
  PROVE  IInv' /\ AbstractStep
<1> DEFINE st == Pop(scopes[t])
           p == Top(t).back
<1>1. /\ pc[t] = "rerestores" /\ owner' = owner /\ preemption' = preemption
      /\ Restore(t) \/ RestoreNew(t)
      /\ Enter(t) /\ scopes' = [scopes EXCEPT ![t] = st] /\ pc' = [pc EXCEPT ![t] = p]
  BY DEF UnlockerRestores, Goto, Popped
<1>2. /\ scopes[t] \in Seq(ScopeRecord) /\ Nested(scopes[t], "rerestores")
      /\ Len(scopes[t]) <= MaxScopes[t] + 1
      /\ owner = t /\ (~Present(t) => Len(scopes[t]) <= 1)
  BY <1>1 DEF IInv, ScopesOK, StacksOK, PresentOK, Holds, Types
<1>3. /\ scopes[t] # <<>> /\ LastOf(scopes[t]).kind = "unlocker" /\ LastOf(scopes[t]) \in ScopeRecord
      /\ Len(scopes[t]) > 1 /\ Len(scopes[t]) \in Nat
  <2>1. scopes[t] # <<>> /\ LastOf(scopes[t]).kind = "unlocker"
    BY <1>2 DEF Nested
  <2>2. Len(scopes[t]) > 1 /\ Len(scopes[t]) \in DOMAIN scopes[t]
    BY <1>2, <2>1, BelowTop
  <2> QED BY <1>2, <2>1, <2>2 DEF LastOf
<1>4. ~RestoreNew(t)
  BY <1>1, <1>2, <1>3 DEF RestoreNew, Present, Installed
<1>5. p \in {"run", "terminate"}
  BY <1>3 DEF Top, ScopeRecord
<1> HIDE DEF p
<1>6. Nested(st, p)
  BY <1>2, <1>3, <1>5, PopNested
<1>7. Holds(st, p)
  <2>1. Holds(st, "run")
    BY <1>2, <1>3, BelowTop
  <2> QED BY <1>5, <2>1 DEF Holds
<1>8. st \in Seq(ScopeRecord) /\ Len(st) <= MaxScopes[t]
  <2>1. MaxScopes[t] \in Nat
    BY BoundAssumption
  <2>2. st \in Seq(ScopeRecord) /\ Len(st) = Len(scopes[t]) - 1
    BY <1>2, <1>3, PopFacts
  <2> QED BY <1>2, <1>3, <2>1, <2>2
<1>9. ASSUME NEW n \in Nat, Postponing(scopes[t], n) PROVE Postponing(st, n)
  BY <1>2, <1>3, <1>9, PopPostponing
<1>10. Entry' /\ Preemption'
  BY <1>1, EntryStep DEF preemption, Preemption, IInv, Types
<1> HIDE DEF st
<1>11. /\ IInv' /\ \A u \in Thread : StateOf(u)' = StateOf(u)
       /\ \/ Installed' = Installed
          \/ Installed # t /\ Installed' = t /\ Present(t)
          \/ Installed' = NoThread
  <2>1. /\ owner' = t /\ pc[t] \in {"restores", "rerestores"} /\ Restore(t)
        /\ p \in {"run", "terminate", "inits"} /\ p # "inits"
    BY <1>1, <1>2, <1>4, <1>5
  <2> QED BY <1>1, <1>2, <1>4, <1>6, <1>7, <1>8, <1>9, <1>10, <2>1, RestoreStep
<1> QED BY <1>11, AbstractRestore

\* A thread with no state starts from a fresh one.
LEMMA LockerInitsInv ==
  ASSUME IInv, StoredOK, NEW t \in Thread, LockerInits(t)
  PROVE  IInv' /\ AbstractStep
<1> DEFINE blank == [cur EXCEPT !.guard = Blank, !.id = EnteredAs(t, @)]
<1>1. /\ pc[t] = "inits" /\ owner' = owner /\ preemption' = preemption /\ EnterDefaultIsolate(t)
      /\ UNCHANGED archive /\ scopes' = scopes
      /\ InitsThread(t, blank)
      /\ pc' = [pc EXCEPT ![t] = "run"]
  BY DEF LockerInits, Goto
<1>2. /\ scopes \in [Thread -> Seq(ScopeRecord)] /\ scopes[t] \in Seq(ScopeRecord)
      /\ Nested(scopes[t], "inits") /\ Len(scopes[t]) <= MaxScopes[t]
      /\ owner = t /\ (~Present(t) => Len(scopes[t]) <= 1) /\ t # NoThread
  BY <1>1, ThreadAssumption DEF IInv, ScopesOK, StacksOK, PresentOK, Holds
<1>3. lazy = NoThread /\ threadState[t] = NoState /\ Installed = NoThread /\ cur.handles = 0 /\ cur \in Local
  BY <1>1, <1>2 DEF IInv, LazyOK, Installed, IsolateOK, Types
<1>4. ~Present(t) /\ StateOf(t) = PerThread!Absent
  BY <1>2, <1>3, StateOfIs DEF Present, Seen
<1>0. /\ blank \in Local /\ blank.guard = Blank /\ blank.handles = 0
  <2>1. Blank \in Guard
    BY <1>3, GuardTypes DEF Local
  <2> HIDE DEF Guard, Blank
  <2> QED BY <1>3, <2>1 DEF Local, EnteredAs
<1> HIDE DEF blank
<1>19. PICK limit \in LimitsOf(t) :
        /\ cur' = [blank EXCEPT !.guard = InitThread(Blank, limit, stackLimit[t])]
        /\ heapLimit' = limit
  <2>1. Blank.real = kIllegalLimit
    BY DEF Blank
  <2> QED BY <1>0, <1>1, <2>1 DEF InitsThread
<1> DEFINE g == InitThread(Blank, limit, stackLimit[t])
<1>5. /\ g \in Guard /\ g.real \in LimitsOf(t) /\ g.limit = g.real /\ g.nesting = 0 /\ g.flags = {}
      /\ GuardOf(g, t) /\ HeapOf(limit, g, t)
  <2>1. Blank \in Guard
    BY <1>3, GuardTypes DEF Local
  <2>2. /\ g \in Guard /\ g.real \in LimitsOf(t) /\ g.limit = g.real /\ g.nesting = 0 /\ g.flags = {}
    BY <2>1, GuardInited DEF StoredOK
  <2> HIDE DEF g
  <2> QED BY <2>2 DEF GuardOf, HeapOf
<1> HIDE DEF g
<1>6. cur' \in Local /\ cur'.guard = g /\ cur'.handles = 0 /\ HeapOf(heapLimit', cur'.guard, t)
  <2>1. cur' = [blank EXCEPT !.guard = g]
    BY <1>19 DEF g
  <2> HIDE DEF Guard
  <2> QED BY <1>0, <1>5, <1>19, <2>1 DEF Local
<1>7. /\ scopes[t] # <<>> /\ Len(scopes[t]) = 1 /\ LastOf(scopes[t]) = scopes[t][1]
      /\ scopes[t][1].kind = "locker" /\ DOMAIN scopes[t] = {1}
  <2>1. scopes[t] # <<>> /\ LastOf(scopes[t]).kind = "locker"
    BY <1>2 DEF Nested
  <2>2. Len(scopes[t]) <= 1
    BY <1>2, <1>4
  <2>3. Len(scopes[t]) \in Nat \ {0} /\ DOMAIN scopes[t] = 1..Len(scopes[t])
    BY <1>2, <2>1
  <2>4. Len(scopes[t]) = 1
    <3> DEFINE n == Len(scopes[t])
    <3>1. n <= 1 /\ n \in Nat \ {0}
      BY <2>2, <2>3
    <3> HIDE DEF n
    <3>2. n = 1
      BY <3>1
    <3> QED BY <3>2 DEF n
  <2> QED BY <2>1, <2>3, <2>4 DEF LastOf
<1>8. Nested(scopes[t], "run") /\ Holds(scopes[t], "run") /\ Postponing(scopes[t], 0)
  BY <1>2, <1>7 DEF Nested, Holds, Postponing
<1>9. /\ (Control /\ ScopesOK /\ StacksOK)'
      /\ scopes'[t] = scopes[t] /\ pc'[t] = "run"
      /\ \A u \in Thread : u # t => scopes'[u] = scopes[u] /\ pc'[u] = pc[u]
  <2>1. MaxScopes[t] \in Nat
    BY BoundAssumption
  <2>2. owner' \in Thread \cup {NoThread} /\ (owner' = t <=> Holds(scopes[t], "run")) /\ "run" \in Places
        /\ \A u \in Thread : u # t => (owner' = u <=> owner = u)
    BY <1>1, <1>2, <1>8 DEF Places
  <2>3. Len(scopes[t]) <= MaxScopes[t] + 1 /\ scopes' = [scopes EXCEPT ![t] = scopes[t]]
    BY <1>1, <1>2, <1>7, <2>1
  <2> QED BY <1>1, <1>2, <1>8, <2>2, <2>3, StackStep
<1>10. UNCHANGED <<lazy, lazyState, states, threadState>> /\ owner' = t
  BY <1>1, <1>2 DEF archive
<1>11. Installed' = t
  BY <1>2, <1>9, <1>10 DEF Installed
<1>12. /\ (Data /\ StatesAccounted /\ LazyOK)'
       /\ \A u \in Thread : u # t => Kept(u)
  <2>1. cur' \in Local /\ heapLimit' \in Limit \cup {kIllegalLimit, kInterruptLimit}
    BY <1>6, HeapIn
  <2>2. \A u \in Thread : u # t => u # Installed /\ u # Installed'
    BY <1>3, <1>11, ThreadAssumption
  <2> QED BY <1>1, <1>3, <1>10, <2>1, <2>2, SameArchive
<1>13. PresentOK'
  <2>1. Present(t)' /\ LocalOf(t)' = cur'
    BY <1>11 DEF Present, LocalOf
  <2>2. GuardOf(LocalOf(t).guard, t)' /\ Postponing(scopes'[t], LocalOf(t).guard.nesting')
    BY <1>5, <1>6, <1>8, <1>9, <2>1 DEF GuardOf
  <2> QED BY <1>9, <1>12, <2>1, <2>2, PresentStep
<1>14. IsolateOK'
  BY <1>1, <1>2, <1>5, <1>6, <1>9, <1>10, <1>11 DEF IsolateOK
<1>15. Entry' /\ Preemption'
  BY <1>1, EntryStep DEF preemption, Preemption, IInv, Types
<1>16. IInv'
  BY <1>9, <1>12, <1>13, <1>14, <1>15, InvParts
<1>17. StateOf(t)' = PerThread!Fresh
  <2>1. StateOf(t)' = Shown(cur', {})
    BY <1>11, StateOfIsNext DEF Seen
  <2>2. cur'.handles = 0 /\ cur'.guard.nesting = 0 /\ cur'.guard.flags \cup {} = {}
    BY <1>5, <1>6
  <2>3. Shown(cur', {}) = [there |-> TRUE, handles |-> 0, postponed |-> 0, requests |-> {}]
    BY <2>2 DEF Shown, Here
  <2>4. PerThread!Fresh = [there |-> TRUE, handles |-> 0, postponed |-> 0, requests |-> {}]
    <3> DEFINE no == FALSE
    <3>1. PerThread!Absent = [there |-> no, handles |-> 0, postponed |-> 0, requests |-> {}]
      BY Zenon DEF PerThread!Absent
    <3>2. PerThread!Fresh = [PerThread!Absent EXCEPT !.there = Here]
      BY Zenon DEF PerThread!Fresh, Here
    <3> HIDE DEF no
    <3>3. PerThread!Fresh = [there |-> Here, handles |-> 0, postponed |-> 0, requests |-> {}]
      BY <3>1, <3>2
    <3> QED BY <3>3, Zenon DEF Here
  <2> QED BY <2>1, <2>3, <2>4
<1>18. PerThread!SwitchTo(t)
  <2>1. Abstract = [u \in Thread |-> StateOf(u)] /\ Abstract' = [u \in Thread |-> StateOf(u)']
    BY DEF Abstract
  <2>2. ~StateOf(t).there
    BY <1>4 DEF PerThread!Absent
  <2>3. \A u \in Thread : u # t => StateOf(u)' = StateOf(u)
    BY <1>12 DEF Kept
  <2>4. Abstract' = [Abstract EXCEPT ![t] = IF @.there THEN @ ELSE PerThread!Fresh]
    BY <1>17, <2>1, <2>2, <2>3
  <2> QED BY <1>2, <1>3, <1>11, <2>4 DEF PerThread!SwitchTo, PerThread!Fresh, PerThread!Absent, Abstract
<1> QED BY <1>16, <1>18 DEF AbstractStep, PerThread!Next
----------------------------------------------------------------------------
(* Requests.                                                                *)

\* A request is one to the thread that is in the isolate, if any.
LEMMA RequestInv ==
  ASSUME IInv, NEW f \in {"preempt", "terminate"}, Request(f), Preemption'
  PROVE  IInv' /\ AbstractStep
<1> DEFINE g == Requested(cur.guard, f)
<1>1. /\ SetGuard(g) /\ UNCHANGED <<owner, archive, entry, scopes, pc>>
  BY DEF Request
<1>2. cur \in Local /\ cur.guard \in Guard
  BY DEF IInv, Types, Local
<1>3. g \in Guard /\ g.nesting = cur.guard.nesting /\ g.flags = cur.guard.flags \cup {f}
      /\ \A u \in Thread : GuardOf(cur.guard, u) => GuardOf(g, u)
  <2>1. ASSUME NEW u \in Thread, GuardOf(cur.guard, u) PROVE GuardOf(g, u)
    BY <1>2, <2>1, GuardKept
  <2>2. g \in Guard /\ g.nesting = cur.guard.nesting /\ g.flags = cur.guard.flags \cup {f}
    BY <1>2 DEF Guard, Requested
  <2> QED BY <2>1, <2>2
<1> HIDE DEF g
<1>4. cur' \in Local /\ cur'.guard = g /\ cur'.handles = cur.handles /\ heapLimit' = g.limit
  BY <1>1, <1>2, <1>3 DEF SetGuard, Local
<1>5. UNCHANGED <<lazy, lazyState, states, threadState>> /\ Installed' = Installed
  BY <1>1 DEF archive, Installed
<1>6. /\ (Data /\ StatesAccounted /\ LazyOK)'
      /\ \A u \in Thread : u # Installed => Kept(u)
  <2>1. heapLimit' \in Limit \cup {kIllegalLimit, kInterruptLimit}
    <3> HIDE DEF Limit
    <3> QED BY <1>3, <1>4 DEF Guard
  <2>2. owner' # NoThread /\ pc'[owner'] \notin {"restores", "rerestores"} =>
          lazy = NoThread /\ threadState[owner'] = NoState
    BY <1>1 DEF IInv, LazyOK
  <2> QED BY <1>1, <1>4, <1>5, <2>1, <2>2, SameArchive
<1>7. Control' /\ ScopesOK' /\ StacksOK' /\ Entry'
  BY <1>1 DEF Control, ScopesOK, StacksOK, Entry, entry, IInv, Types, Places
<1>8. PresentOK'
  <2>1. ASSUME NEW u \in Thread
        PROVE  (IF Present(u)
                  THEN GuardOf(LocalOf(u).guard, u) /\ Postponing(scopes[u], LocalOf(u).guard.nesting)
                  ELSE Len(scopes[u]) <= 1)'
    <3>1. IF Present(u)
            THEN GuardOf(LocalOf(u).guard, u) /\ Postponing(scopes[u], LocalOf(u).guard.nesting)
            ELSE Len(scopes[u]) <= 1
      BY DEF IInv, PresentOK
    <3>2. CASE u = Installed
      <4>1. Present(u) /\ Present(u)' /\ LocalOf(u) = cur /\ LocalOf(u)' = cur'
        BY <1>5, <3>2 DEF Present, LocalOf
      <4> QED BY <1>1, <1>3, <1>4, <3>1, <4>1 DEF GuardOf, Postponing
    <3>3. CASE u # Installed
      <4>1. Kept(u)
        BY <1>6, <3>3
      <4> QED BY <1>1, <3>1, <4>1 DEF Kept, Postponing
    <3> QED BY <3>2, <3>3
  <2> QED BY <2>1 DEF PresentOK
<1>9. IsolateOK'
  <2>1. ASSUME Installed # NoThread PROVE HeapOf(heapLimit', cur'.guard, Installed)
    <3>1. Installed \in Thread
      BY <2>1 DEF Installed, IInv, Types
    <3>2. GuardOf(cur.guard, Installed)
      BY <3>1 DEF IInv, PresentOK, Present, LocalOf
    <3> QED BY <1>3, <1>4, <3>1, <3>2, HeapIs
  <2> QED BY <1>1, <1>3, <1>4, <1>5, <2>1 DEF IsolateOK, IInv
<1>10. IInv'
  BY <1>6, <1>7, <1>8, <1>9, InvParts
<1>11. AbstractStep
  <2>1. CASE Installed \in Thread
    <3> DEFINE t == Installed
    <3>1. StateOf(t) = Shown(cur, {}) /\ StateOf(t)' = Shown(cur', {})
      BY <1>5, StateOfIs, StateOfIsNext DEF Seen
    <3>2. \A u \in Thread : u # t => StateOf(u)' = StateOf(u)
      BY <1>6 DEF Kept
    <3>3. Installed' = t /\ cur'.guard.nesting = cur.guard.nesting /\ cur'.handles = cur.handles
          /\ cur'.guard.flags = cur.guard.flags \cup {f}
      BY <1>3, <1>4, <1>5
    <3>4. PICK u \in Thread : u = Installed
      BY <2>1
    <3> QED BY <3>1, <3>2, <3>3, <3>4, AbstractOwn
  <2>2. CASE Installed \notin Thread
    BY <1>5, <1>6, <2>2, AbstractSame DEF Kept
  <2> QED BY <2>1, <2>2
<1> QED BY <1>10, <1>11

\* One thread asks that another be terminated.
LEMMA TerminateThreadInv ==
  ASSUME IInv, NEW t \in Thread, NEW u \in Thread, TerminateThread(t, u)
  PROVE  IInv' /\ AbstractStep
<1>1. /\ owner = t /\ pc[t] = "run" /\ pc[t] \notin Restoring /\ t # NoThread
      /\ UNCHANGED <<owner, lazy, lazyState, threadState, entry, scopes, pc, preemption>>
  BY ThreadAssumption DEF TerminateThread, Runs, Restoring
<1>2. CASE cur.id = u
  <2>1. Request("terminate") /\ Preemption'
    BY <1>1, <1>2 DEF TerminateThread, Request, archive, preemption, Preemption, IInv, Types
  <2> QED BY <2>1, RequestInv
<1>3. CASE cur.id # u
  <2>1. /\ UNCHANGED <<cur, heapLimit>>
        /\ states' = [s \in State |-> IF states[s].list = "inUse" /\ states[s].id = u
                                      THEN [states[s] EXCEPT !.terminate = TRUE] ELSE states[s]]
    BY <1>3 DEF TerminateThread, isolate
  <2>2. /\ states \in [State -> [list : {"free", "out", "inUse"},
                                 id : Thread \cup {NoThread}, terminate : BOOLEAN, data : Local]]
        /\ threadState \in [Thread -> State \cup {NoState}] /\ NoState \notin State
    BY ThreadAssumption DEF IInv, Types
  <2>3. /\ states' \in [State -> [list : {"free", "out", "inUse"},
                                 id : Thread \cup {NoThread}, terminate : BOOLEAN, data : Local]]
        /\ \A s \in State :
             /\ states'[s].list = states[s].list /\ states'[s].id = states[s].id
             /\ states'[s].data = states[s].data
             /\ (states[s].list = "inUse" /\ states[s].id = u => states'[s].terminate)
             /\ (~(states[s].list = "inUse" /\ states[s].id = u) => states'[s] = states[s])
    <3> HIDE DEF Local
    <3> QED BY <2>1, <2>2
  <2>4. Installed = t /\ Installed' = t /\ lazy = NoThread
    BY <1>1, OwnerFacts DEF Installed
  <2>5. Data'
    BY <1>1, <2>1, <2>3 DEF Data, IInv, Types
  <2>6. StatesAccounted'
    BY <1>1, <2>2, <2>3 DEF IInv, StatesAccounted
  <2>7. LazyOK'
    BY <1>1, <2>2, <2>3 DEF IInv, LazyOK
  <2>8. Control' /\ ScopesOK' /\ StacksOK' /\ Entry' /\ Preemption'
    BY <1>1 DEF Control, ScopesOK, StacksOK, Entry, entry, preemption, Preemption, IInv, Types, Places
  <2>9. ASSUME NEW w \in Thread
        PROVE  (Present(w)' <=> Present(w)) /\ (Present(w) => LocalOf(w)' = LocalOf(w))
    BY <1>1, <2>1, <2>2, <2>3, <2>4 DEF Present, LocalOf
  <2>10. PresentOK'
    BY <1>1, <2>9 DEF IInv, PresentOK, GuardOf, Postponing
  <2>11. IsolateOK'
    BY <1>1, <2>1, <2>4 DEF IInv, IsolateOK
  <2>12. IInv'
    BY <2>5, <2>6, <2>7, <2>8, <2>10, <2>11, InvParts
  <2>13. ASSUME NEW w \in Thread, w # u PROVE StateOf(w)' = StateOf(w)
    <3>1. w # Installed /\ threadState[w] # NoState => states'[threadState[w]] = states[threadState[w]]
      <4>1. threadState[w] # NoState => threadState[w] \in State /\ states[threadState[w]].id = w
        BY <2>2 DEF IInv, StatesAccounted
      <4> QED BY <2>3, <2>13, <4>1
    <3> QED BY <1>1, <2>1, <2>4, <3>1, StateOfIs, StateOfIsNext DEF Seen, Shown, PerThread!Absent
  <2>14. AbstractStep
    <3>1. CASE u # t /\ threadState[u] # NoState
      <4> DEFINE s == threadState[u]
                 d == states[s].data
      <4>1. s \in State /\ states[s].id = u /\ states[s].list = "inUse"
        BY <2>2, <2>4, <3>1, ThreadAssumption DEF IInv, StatesAccounted
      <4>2. states'[s].data = d /\ states'[s].terminate
        BY <2>3, <4>1
      <4>3. StateOf(u) = Shown(d, IF states[s].terminate THEN {"terminate"} ELSE {})
        BY <2>4, <3>1, StateOfIs DEF Seen
      <4>4. StateOf(u)' = Shown(d, {"terminate"})
        BY <1>1, <2>4, <3>1, <4>2, StateOfIsNext DEF Seen
      <4> HIDE DEF d
      <4>5. StateOf(u)' = [StateOf(u) EXCEPT !.requests = @ \cup {"terminate"}]
        <5>1. d.guard.flags \cup {"terminate"} =
                (d.guard.flags \cup (IF states[s].terminate THEN {"terminate"} ELSE {})) \cup {"terminate"}
          OBVIOUS
        <5> DEFINE x == d.guard.flags \cup (IF states[s].terminate THEN {"terminate"} ELSE {})
        <5>2. StateOf(u) = [there |-> Here, handles |-> d.handles, postponed |-> d.guard.nesting,
                            requests |-> x]
          BY <4>3 DEF Shown
        <5>3. StateOf(u)' = [there |-> Here, handles |-> d.handles, postponed |-> d.guard.nesting,
                             requests |-> x \cup {"terminate"}]
          BY <4>4, <5>1 DEF Shown
        <5> HIDE DEF x
        <5> QED BY <5>2, <5>3
      <4>6. Abstract = [w \in Thread |-> StateOf(w)] /\ Abstract' = [w \in Thread |-> StateOf(w)']
        BY DEF Abstract
      <4>7. Abstract' = [Abstract EXCEPT ![u].requests = @ \cup {"terminate"}]
        BY <2>13, <4>5, <4>6
      <4>8. StateOf(u).there
        BY <4>3 DEF Shown, Here
      <4>9. PerThread!Terminate(u)
        BY <1>1, <2>4, <4>6, <4>7, <4>8 DEF PerThread!Terminate, Abstract
      <4> QED BY <4>9 DEF AbstractStep, PerThread!Next
    <3>2. CASE u = t \/ threadState[u] = NoState
      <4>1. StateOf(u)' = StateOf(u)
        BY <1>1, <2>1, <2>4, <3>2, StateOfIs, StateOfIsNext DEF Seen, Shown, PerThread!Absent
      <4> QED BY <2>4, <2>13, <4>1, AbstractSame
    <3> QED BY <3>1, <3>2
  <2> QED BY <2>12, <2>14
<1> QED BY <1>2, <1>3
----------------------------------------------------------------------------
(* The theorems.                                                            *)

\* The initial states satisfy the invariant, and are initial for the abstract
\* specification: nobody has a state.
LEMMA InitInv == Init => IInv /\ PerThread!Init
<1> SUFFICES ASSUME Init PROVE IInv /\ PerThread!Init
  OBVIOUS
<1>1. /\ owner = NoThread /\ lazy = NoThread /\ lazyState = NoState
      /\ states = [s \in State |-> [list |-> "free", id |-> NoThread, terminate |-> FALSE,
                                    data |-> ClearedLocal(NoThread)]]
      /\ threadState = [t \in Thread |-> NoState] /\ cur = ClearedLocal(NoThread)
      /\ heapLimit = kIllegalLimit /\ entries = <<>> /\ entered = {}
      /\ scopes = [t \in Thread |-> <<>>] /\ pc = [t \in Thread |-> "run"]
      /\ switcher = "none" /\ keepGoing = FALSE
  BY DEF Init
<1>2. ClearedLocal(NoThread) \in Local /\ ClearedLocal(NoThread).handles = 0
  BY BoundAssumption DEF ClearedLocal, Local, Blank, Guard
<1>3. Installed = NoThread /\ \A t \in Thread : t # NoThread
  BY <1>1, ThreadAssumption DEF Installed
<1>4. Data
  <2> HIDE DEF Local
  <2> QED BY <1>1, <1>2 DEF Data
<1>5. Control /\ Entry /\ Preemption
  <2>1. \A t \in Thread : Len(scopes[t]) <= MaxScopes[t] /\ Len(scopes[t]) <= MaxScopes[t] + 1
    BY <1>1, BoundAssumption
  <2>2. Control
    BY <1>1, <2>1 DEF Control, Places
  <2>3. Entry
    <3>1. <<>> \in Seq(Nat \ {0})
      OBVIOUS
    <3> QED BY <1>1, <3>1 DEF Entry
  <2>4. Preemption
    BY <1>1 DEF Preemption
  <2> QED BY <2>2, <2>3, <2>4
<1>6. ScopesOK
  <2>1. \A t \in Thread : Len(scopes[t]) <= MaxScopes[t]
    BY <1>1, BoundAssumption
  <2>2. <<>> \in Seq(ScopeRecord)
    OBVIOUS
  <2> QED BY <1>1, <2>1, <2>2 DEF ScopesOK
<1>7. StacksOK
  BY <1>1, <1>3 DEF StacksOK, Nested, Holds
<1>8. StatesAccounted /\ LazyOK
  BY <1>1 DEF StatesAccounted, LazyOK
<1>9. PresentOK /\ IsolateOK
  BY <1>1, <1>2, <1>3 DEF PresentOK, Present, IsolateOK
<1>10. PerThread!Init
  <2>1. \A t \in Thread : StateOf(t) = PerThread!Absent
    BY <1>1, <1>3, StateOfIs DEF Seen
  <2> QED BY <1>3, <2>1 DEF PerThread!Init, PerThread!Absent
<1> QED BY <1>4, <1>5, <1>6, <1>7, <1>8, <1>9, <1>10, TypeParts DEF IInv

\* Every step keeps the invariant, and is one of the abstract specification or
\* changes nothing there.
LEMMA NextInv ==
  ASSUME IInv, StoredOK, Next
  PROVE  IInv' /\ AbstractStep
<1>1. ASSUME NEW t \in Thread, Begins(t) PROVE IInv' /\ AbstractStep
  BY <1>1, OpenLockerInv, CloseLockerInv, OpenUnlockerInv, CloseUnlockerInv, WorkInv, IsolateScopeInv,
     OpenPostponeInv, PlaceInv, TerminateThreadInv DEF Begins
<1>2. ASSUME NEW t \in Thread, Continues(t) PROVE IInv' /\ AbstractStep
  BY <1>2, LockerRestoresInv, LockerInitsInv, UnlockerRestoresInv, HandlePreemptInv, HandleTerminateInv,
     PlaceInv DEF Continues
<1>3. ASSUME NEW t \in Thread, Lock(t) \/ ClosePostpone(t) \/ StackCheck(t) PROVE IInv' /\ AbstractStep
  BY <1>3, LockInv, ClosePostponeInv, PlaceInv
<1>4. CASE Preempt
  <2>1. Preemption' /\ Request("preempt")
    BY <1>4 DEF Preempt, Preemption, IInv, Types
  <2> QED BY <2>1, RequestInv
<1>5. CASE TerminateIsolate
  <2>1. Preemption' /\ Request("terminate")
    BY <1>5 DEF TerminateIsolate, preemption, Preemption, IInv, Types
  <2> QED BY <2>1, RequestInv
<1> QED BY <1>1, <1>2, <1>3, <1>4, <1>5 DEF Next

\* What is stored of the limits changes only where a thread closes its outermost
\* Locker, and the limit of its guard is stored.
LEMMA StoredInv ==
  ASSUME IInv, StoredOK, [Next]_vars
  PROVE  StoredOK'
<1>1. CASE UNCHANGED stackLimit
  BY <1>1 DEF StoredOK
<1>2. ASSUME NEW t \in Thread, Runs(t), TopIs(t, "locker"),
             stackLimit' = [stackLimit EXCEPT ![t] = cur.guard.real]
      PROVE  StoredOK'
  <2>1. owner = t /\ pc[t] \notin Restoring
    BY <1>2 DEF Runs, Restoring
  <2>2. cur.guard.real \in LimitsOf(t)
    BY <2>1, OwnerFacts DEF GuardOf
  <2>3. cur.guard.real \in Limit
    BY <2>2, LimitFacts
  <2> HIDE DEF Limit, LimitsOf
  <2> QED BY <1>2, <2>2, <2>3 DEF StoredOK
<1>3. ASSUME NEW t \in Thread, CloseLocker(t) PROVE StoredOK'
  BY <1>1, <1>2, <1>3 DEF CloseLocker
<1>4. ASSUME NEW t \in Thread, Begins(t) PROVE UNCHANGED stackLimit \/ CloseLocker(t)
  BY <1>4 DEF Begins, OpenLocker, OpenUnlocker, CloseUnlocker, Work, OpenIsolateScope,
     CloseIsolateScope, OpenPostpone, StartPreemption, StopPreemption, TerminateThread
<1>5. ASSUME NEW t \in Thread, Continues(t) PROVE UNCHANGED stackLimit
  BY <1>5 DEF Continues, LockerRestores, LockerInits, UnlockerRestores, HandlePreempt,
     HandleTerminate, Join
<1>6. ASSUME NEW t \in Thread, Lock(t) \/ ClosePostpone(t) \/ StackCheck(t)
      PROVE  UNCHANGED stackLimit
  BY <1>6 DEF Lock, ClosePostpone, StackCheck
<1>7. Preempt \/ TerminateIsolate \/ UNCHANGED vars => UNCHANGED stackLimit
  BY DEF Preempt, TerminateIsolate, Request, vars
<1> QED BY <1>1, <1>3, <1>4, <1>5, <1>6, <1>7 DEF Next

\* A step of nobody.
LEMMA StutterInv ==
  ASSUME IInv, UNCHANGED vars
  PROVE  IInv' /\ AbstractStep
<1>1. UNCHANGED <<owner, lazy, lazyState, states, threadState, cur, heapLimit, entries, entered,
                  scopes, pc, switcher, keepGoing>>
  BY DEF vars, archive, isolate, entry, preemption
<1>2. Installed' = Installed /\ \A u : StateOf(u)' = StateOf(u)
  BY <1>1, StateOfIs, StateOfIsNext DEF Installed, Seen, Shown, PerThread!Absent
<1>3. Types' /\ ScopesOK' /\ StacksOK' /\ StatesAccounted' /\ LazyOK'
  BY <1>1 DEF IInv, Types, ScopesOK, StacksOK, Nested, Holds, StatesAccounted, LazyOK
<1>4. PresentOK' /\ IsolateOK'
  BY <1>1, <1>2 DEF IInv, PresentOK, Present, LocalOf, GuardOf, Postponing, IsolateOK
<1> QED BY <1>2, <1>3, <1>4, AbstractSame DEF IInv

\* In every reachable state the invariant holds.
THEOREM Invariance == Spec => [](IInv /\ StoredOK)
<1>1. Init => IInv /\ StoredOK
  <2>1. Init => StoredOK
    BY DEF Init, StoredOK
  <2> QED BY <2>1, InitInv
<1>2. IInv /\ StoredOK /\ [Next]_vars => IInv' /\ StoredOK'
  BY NextInv, StutterInv, StoredInv
<1> QED BY <1>1, <1>2, PTL DEF Spec

\* TypeOK, of the model of v8threads.cc and the parts of isolate.cc and execution.cc it uses.
THEOREM TypeCorrect == Spec => []TypeOK
<1>1. IInv /\ StoredOK => TypeOK
  BY DEF IInv, Types, StoredOK, TypeOK
<1> QED BY <1>1, Invariance, PTL

\* RestoreThread, EagerlyArchiveThread and ArchiveThread lose no ThreadState and
\* give none to two threads.
THEOREM StatesAreAccounted == Spec => []StatesAccounted
<1>1. IInv => StatesAccounted
  BY DEF IInv
<1> QED BY <1>1, Invariance, PTL

\* Where a thread uses V8, and may collect, each other thread that is inside an
\* Unlocker has exactly one state on the list ThreadManager::Iterate walks.
THEOREM CollectorFindsAll == Spec => []CollectorSeesAll
<1>1. IInv => CollectorSeesAll
  <2> SUFFICES ASSUME IInv, NEW t \in Thread, Runs(t)
               PROVE  /\ lazy = NoThread /\ threadState[t] = NoState
                      /\ \A u \in Thread \ {t} : \A k \in DOMAIN scopes[u] :
                           scopes[u][k].kind = "unlocker" =>
                             Cardinality({s \in State : states[s].list = "inUse" /\ states[s].id = u}) = 1
    BY DEF CollectorSeesAll
  <2>1. owner = t /\ pc[t] \notin Restoring
    BY DEF Runs, Restoring
  <2>2. Installed = t /\ lazy = NoThread /\ threadState[t] = NoState
    BY <2>1, OwnerFacts
  <2>3. ASSUME NEW u \in Thread \ {t}, NEW k \in DOMAIN scopes[u], scopes[u][k].kind = "unlocker"
        PROVE  Cardinality({s \in State : states[s].list = "inUse" /\ states[s].id = u}) = 1
    <3>1. scopes[u] \in Seq(ScopeRecord) /\ k > 1
      BY <2>3 DEF IInv, ScopesOK, StacksOK, Nested
    <3>2. Len(scopes[u]) > 1
      <4> DEFINE n == Len(scopes[u])
      <4>1. n \in Nat /\ k \in 1..n
        BY <3>1
      <4> HIDE DEF n
      <4>2. n > 1
        BY <3>1, <4>1
      <4> QED BY <4>2 DEF n
    <3>3. threadState[u] # NoState
      <4>1. Present(u)
        <5>1. ~Present(u) => Len(scopes[u]) <= 1
          BY DEF IInv, PresentOK
        <5> DEFINE n == Len(scopes[u])
        <5>2. n \in Nat /\ n > 1 /\ (~Present(u) => n <= 1)
          BY <3>1, <3>2, <5>1
        <5> HIDE DEF n
        <5> QED BY <5>2
      <4> QED BY <2>2, <4>1 DEF Present
    <3>4. /\ threadState[u] \in State /\ states[threadState[u]].list = "inUse"
          /\ states[threadState[u]].id = u
      BY <2>2, <3>3, ThreadAssumption DEF IInv, StatesAccounted, Types
    <3>5. \A s \in State : states[s].list = "inUse" /\ states[s].id = u => s = threadState[u]
      BY DEF IInv, StatesAccounted
    <3>6. {s \in State : states[s].list = "inUse" /\ states[s].id = u} = {threadState[u]}
      BY <3>4, <3>5
    <3> QED BY <3>6, FS_Singleton
  <2> QED BY <2>2, <2>3
<1> QED BY <1>1, Invariance, PTL

\* The thread that runs has limits of its own stack in the guard and in the heap,
\* whatever thread was there before and wherever on its stack it was initialised,
\* and a request that is pending shows in both (StackGuard::InitThread,
\* ArchiveStackGuard, RestoreStackGuard, RequestInterrupt, Continue).
THEOREM LimitsAreOwn == Spec => []LimitsMatch
<1>1. IInv => LimitsMatch
  <2> SUFFICES ASSUME IInv, owner # NoThread, Installed = owner
               PROVE  /\ cur.guard.real \in LimitsOf(owner)
                      /\ IF cur.guard.flags # {} /\ cur.guard.nesting = 0
                           THEN cur.guard.limit = kInterruptLimit /\ heapLimit = kInterruptLimit
                           ELSE cur.guard.limit = cur.guard.real /\ heapLimit \in LimitsOf(owner)
    BY DEF LimitsMatch
  <2>1. owner \in Thread
    BY DEF IInv, Types
  <2>2. GuardOf(cur.guard, owner)
    BY <2>1 DEF IInv, PresentOK, Present, LocalOf
  <2>3. HeapOf(heapLimit, cur.guard, owner)
    BY DEF IInv, IsolateOK
  <2> QED BY <2>2, <2>3 DEF GuardOf, HeapOf
<1> QED BY <1>1, Invariance, PTL

\* Each thread has a state of its own that is there, as the thread left it, when
\* the thread uses V8, and a request reaches the thread it was made to.
THEOREM Implements == Spec => ImplementsPerThread
<1>1. Init => PerThread!Init
  BY InitInv
<1>2. IInv /\ StoredOK /\ [Next]_vars => [PerThread!Next]_(PerThread!vars)
  BY NextInv, StutterInv DEF AbstractStep
<1> QED BY <1>1, <1>2, Invariance, PTL DEF Spec, ImplementsPerThread, PerThread!Spec
=============================================================================

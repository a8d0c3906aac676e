---------------------------- MODULE ThreadManager ----------------------------
(***************************************************************************)
(* Threads that take turns in one isolate, the default one: v8::Locker and  *)
(* v8::Unlocker, the ThreadManager that saves and restores what each thread *)
(* has in the isolate, the ContextSwitcher that preempts them, the requests *)
(* to the StackGuard, and the isolate's entry stack.                        *)
(*                                                                          *)
(* A thread that gives up the lock is archived lazily: its state stays      *)
(* where it is, and a ThreadState is set aside for it that is filled only   *)
(* when another thread comes.  A step is what runs without another thread   *)
(* being able to touch the same data; the steps of the preemption thread    *)
(* and of V8::TerminateExecution take ExecutionAccess only, never the lock. *)
(***************************************************************************)
EXTENDS Integers, Sequences, FiniteSets, StackGuard

CONSTANTS
  Thread, NoThread,
  State, NoState,  \* the ThreadState objects that may be allocated
  Depth,           \* where on its stack each thread may be in InitThread
  MaxHandles,      \* bound: what a thread has in the isolate, as a number
  MaxScopes,       \* bound: Lockers, Unlockers, ... of each thread at once
  MaxEntries       \* bound: v8::Isolate::Scope objects of each thread at once

\* The addresses in the stack of t that StackGuard takes for its limit: it is
\* computed from where the stack is when the thread is initialised.
LimitsOf(t) == {t} \X Depth[t]

ASSUME ThreadAssumption == NoThread \notin Thread /\ NoState \notin State
ASSUME LimitAssumption ==
  /\ kIllegalLimit # kInterruptLimit
  /\ \A t \in Thread : {kIllegalLimit, kInterruptLimit, NoLimit} \cap LimitsOf(t) = {}
ASSUME BoundAssumption ==
  MaxHandles \in Nat /\ {MaxScopes, MaxEntries} \subseteq [Thread -> Nat]

VARIABLES
  owner,        \* mutex_owner_, and with it the mutex
  lazy,         \* lazily_archived_thread_
  lazyState,    \* lazily_archived_thread_state_
  states,       \* each ThreadState: list, id_, terminate_on_restore_ and data_
  threadState,  \* thread_state_ in the PerIsolateThreadData of each thread
  cur,          \* the isolate's own: handles and other roots, thread_id_ of
                \* ThreadLocalTop, and the StackGuard
  heapLimit,    \* the copy of jslimit_ among the roots of the heap
  stackLimit,   \* stack_limit_ in the PerIsolateThreadData of each thread
  entries,      \* entry_stack_: the count of each item
  entered,      \* the threads whose thread-local data say they are inside
  scopes,       \* the Lockers, Unlockers and other scopes on each C++ stack
  pc,           \* where each thread is
  switcher, keepGoing  \* the ContextSwitcher and keep_going_

archive == <<lazy, lazyState, states, threadState>>
isolate == <<cur, heapLimit>>
entry == <<entries, entered>>
preemption == <<switcher, keepGoing>>
vars == <<owner, archive, isolate, stackLimit, entry, scopes, pc, preemption>>

LastOf(s) == s[Len(s)]
Pop(s) == SubSeq(s, 1, Len(s) - 1)
Top(t) == LastOf(scopes[t])
TopIs(t, kind) == scopes[t] # <<>> /\ Top(t).kind = kind
HasRoom(t) == Len(scopes[t]) < MaxScopes[t]
Pushed(t, scope) == [scopes EXCEPT ![t] = Append(@, scope)]
Popped(t) == [scopes EXCEPT ![t] = Pop(@)]
Goto(t, where) == pc' = [pc EXCEPT ![t] = where]

Runs(t) == owner = t /\ pc[t] = "run"

\* What InitializeThreadLocal and the archiving of the handles and of the
\* guard leave.
ClearedLocal(id) == [handles |-> 0, id |-> id, guard |-> Blank]

Init ==
  /\ owner = NoThread
  /\ lazy = NoThread /\ lazyState = NoState
  /\ states = [s \in State |-> [list |-> "free", id |-> NoThread, terminate |-> FALSE,
                                data |-> ClearedLocal(NoThread)]]
  /\ threadState = [t \in Thread |-> NoState]
  /\ cur = ClearedLocal(NoThread)
  /\ heapLimit = kIllegalLimit
  /\ stackLimit = [t \in Thread |-> NoLimit]
  /\ entries = <<>> /\ entered = {}
  /\ scopes = [t \in Thread |-> <<>>]
  /\ pc = [t \in Thread |-> "run"]
  /\ switcher = "none" /\ keepGoing = FALSE

----------------------------------------------------------------------------
(* The entry stack of the isolate.  Enter also names the thread in          *)
(* ThreadLocalTop, so it gives the new thread_id_, id being the old one.    *)
(* A thread that is inside finds an item (the assertions that entry_stack_  *)
(* is not NULL): the program goes no further where it does not.             *)

EnteredAs(t, id) == IF t \in entered THEN id ELSE t

Enter(t) ==
  /\ t \in entered => entries # <<>>
  /\ entries' = IF t \in entered THEN [entries EXCEPT ![Len(entries)] = @ + 1]
                                 ELSE Append(entries, 1)
  /\ entered' = entered \cup {t}

EnterDefaultIsolate(t) == IF t \in entered THEN UNCHANGED entry ELSE Enter(t)

\* Exit with the count compared before it is decremented.
Exit_OneLate(t) ==
  /\ entries # <<>>
  /\ IF LastOf(entries) > 0
       THEN entries' = [entries EXCEPT ![Len(entries)] = @ - 1] /\ UNCHANGED entered
       ELSE entries' = Pop(entries) /\ entered' = entered \ {t}

Exit(t) ==
  /\ entries # <<>>
  /\ IF LastOf(entries) > 1
       THEN entries' = [entries EXCEPT ![Len(entries)] = @ - 1] /\ UNCHANGED entered
       ELSE entries' = Pop(entries) /\ entered' = entered \ {t}

----------------------------------------------------------------------------
(* Archiving and restoring.                                                 *)

\* GetFreeThreadState: one from the free list or, if there is none, a new one,
\* which differs in nothing.
FreeStates == {s \in State : states[s].list = "free"}

ArchiveThread(t) ==
  \E s \in FreeStates :
    /\ states' = [states EXCEPT ![s].list = "out", ![s].id = t]
    /\ threadState' = [threadState EXCEPT ![t] = s]
    /\ lazy' = t /\ lazyState' = s

\* EagerlyArchiveThread without LinkInto.
EagerlyArchived_NotLinked ==
  IF lazy = NoThread THEN states ELSE [states EXCEPT ![lazyState].data = cur]

\* EagerlyArchiveThread, if a thread was archived lazily: what it leaves in
\* the states, and in the isolate for owner.
EagerlyArchived ==
  IF lazy = NoThread THEN states
  ELSE [states EXCEPT ![lazyState].list = "inUse", ![lazyState].data = cur]

CurArchived == IF lazy = NoThread THEN cur ELSE ClearedLocal(owner)

NoLongerLazy == lazy' = NoThread /\ lazyState' = NoState

\* RestoreThread that leaves thread_state_ as it is.
RestoreLazily_KeepsState(t) ==
  /\ lazy = t
  /\ states' = [states EXCEPT ![lazyState].list = "free", ![lazyState].id = NoThread]
  /\ NoLongerLazy
  /\ cur' = [cur EXCEPT !.id = EnteredAs(t, @)]
  /\ UNCHANGED <<threadState, heapLimit>>

\* RestoreThread, when nobody else has come.
RestoreLazily(t) ==
  /\ lazy = t
  /\ states' = [states EXCEPT ![lazyState].list = "free", ![lazyState].id = NoThread]
  /\ threadState' = [threadState EXCEPT ![t] = NoState]
  /\ NoLongerLazy
  /\ cur' = [cur EXCEPT !.id = EnteredAs(t, @)]
  /\ UNCHANGED heapLimit

\* RestoreThread that leaves terminate_on_restore_ set.
RestoreArchived_TerminatesAgain(t) ==
  LET s == threadState[t] IN
  /\ lazy # t /\ s # NoState
  /\ LET data == EagerlyArchived[s].data
         guard == IF states[s].terminate THEN Requested(data.guard, "terminate") ELSE data.guard
     IN  /\ cur' = [data EXCEPT !.guard = guard, !.id = EnteredAs(t, @)]
         /\ heapLimit' = guard.limit
  /\ states' = [EagerlyArchived EXCEPT ![s].list = "free", ![s].id = NoThread,
                                       ![s].data = ClearedLocal(NoThread)]
  /\ threadState' = [threadState EXCEPT ![t] = NoState]
  /\ NoLongerLazy

\* RestoreThread from the thread's ThreadState; what is left in data_ is not
\* read again before it is written, so it is forgotten here.
RestoreArchived(t) ==
  LET s == threadState[t] IN
  /\ lazy # t /\ s # NoState
  /\ LET data == EagerlyArchived[s].data
         guard == IF states[s].terminate THEN Requested(data.guard, "terminate") ELSE data.guard
     IN  /\ cur' = [data EXCEPT !.guard = guard, !.id = EnteredAs(t, @)]
         /\ heapLimit' = guard.limit
  /\ states' = [EagerlyArchived EXCEPT ![s].list = "free", ![s].id = NoThread,
                                       ![s].terminate = FALSE,
                                       ![s].data = ClearedLocal(NoThread)]
  /\ threadState' = [threadState EXCEPT ![t] = NoState]
  /\ NoLongerLazy

\* StackGuard::InitThread of t, with local in the isolate.  The heap gets the
\* limit that was computed; the one that is stored goes to the guard only.
InitsThread(t, local) ==
  \E limit \in LimitsOf(t) :
    /\ cur' = [local EXCEPT !.guard = InitThread(@, limit, stackLimit[t])]
    /\ heapLimit' = IF local.guard.real = kIllegalLimit THEN limit ELSE heapLimit

\* A thread V8 knows nothing of: false is returned.
RestoreNew(t) ==
  /\ lazy # t /\ threadState[t] = NoState
  /\ states' = EagerlyArchived
  /\ InitsThread(t, CurArchived)
  /\ NoLongerLazy
  /\ UNCHANGED threadState

Restore(t) == RestoreLazily(t) \/ RestoreArchived(t)

----------------------------------------------------------------------------
(* Locker.                                                                  *)

Locker(has) == [kind |-> "locker", hasLock |-> has, topLevel |-> TRUE, back |-> "run"]
Scope(kind, back) == [kind |-> kind, hasLock |-> FALSE, topLevel |-> FALSE, back |-> back]

\* A thread uses V8 only where it holds the lock; it waits for it outside any
\* Locker and inside an Unlocker.
OpenLocker(t) ==
  /\ pc[t] = "run" /\ HasRoom(t) /\ ~TopIs(t, "postpone")
  /\ scopes' = Pushed(t, Locker(owner # t))
  /\ Goto(t, IF owner = t THEN "run" ELSE "locks")
  /\ UNCHANGED <<owner, archive, isolate, entry, preemption, stackLimit>>

Lock(t) ==
  /\ pc[t] \in {"locks", "relocks"} /\ owner = NoThread
  /\ owner' = t
  /\ Goto(t, IF pc[t] = "locks" THEN "restores" ELSE "rerestores")
  /\ UNCHANGED <<archive, isolate, entry, scopes, preemption, stackLimit>>

LockerRestores(t) ==
  /\ pc[t] = "restores"
  /\ \/ /\ Restore(t)
        /\ scopes' = [scopes EXCEPT ![t][Len(scopes[t])].topLevel = FALSE]
        /\ EnterDefaultIsolate(t)
        /\ Goto(t, "run")
     \/ /\ RestoreNew(t)
        /\ Goto(t, "inits")
        /\ UNCHANGED <<scopes, entry>>
  /\ UNCHANGED <<owner, preemption, stackLimit>>

LockerInits(t) ==
  /\ pc[t] = "inits"
  /\ InitsThread(t, [cur EXCEPT !.guard = Blank, !.id = EnteredAs(t, @)])
  /\ EnterDefaultIsolate(t)
  /\ Goto(t, "run")
  /\ UNCHANGED <<owner, archive, scopes, preemption, stackLimit>>

\* ~Locker.  FreeThreadResources asserts that no handle is left, and stores the
\* limit of the guard.
CloseLocker(t) ==
  /\ Runs(t) /\ TopIs(t, "locker")
  /\ scopes' = Popped(t)
  /\ \/ /\ ~Top(t).hasLock
        /\ UNCHANGED <<owner, archive, entry, stackLimit>>
     \/ /\ Top(t).hasLock /\ Top(t).topLevel /\ cur.handles = 0
        /\ Exit(t)
        /\ stackLimit' = [stackLimit EXCEPT ![t] = cur.guard.real]
        /\ owner' = NoThread
        /\ UNCHANGED archive
     \/ /\ Top(t).hasLock /\ ~Top(t).topLevel
        /\ Exit(t)
        /\ ArchiveThread(t)
        /\ owner' = NoThread
        /\ UNCHANGED stackLimit
  /\ UNCHANGED <<isolate, pc, preemption>>

(* Unlocker.                                                                *)
Unlock(t) == Exit(t) /\ ArchiveThread(t) /\ owner' = NoThread

OpenUnlocker(t) ==
  /\ Runs(t) /\ HasRoom(t) /\ scopes[t] # <<>> /\ ~TopIs(t, "postpone")
  /\ Unlock(t)
  /\ scopes' = Pushed(t, Scope("unlocker", "run"))
  /\ UNCHANGED <<isolate, pc, preemption, stackLimit>>

CloseUnlocker(t) ==
  /\ pc[t] = "run" /\ TopIs(t, "unlocker")
  /\ Goto(t, "relocks")
  /\ UNCHANGED <<owner, archive, isolate, entry, scopes, preemption, stackLimit>>

\* ~Unlocker with the lock; what RestoreThread returns is ignored.
UnlockerRestores(t) ==
  /\ pc[t] = "rerestores"
  /\ Restore(t) \/ RestoreNew(t)
  /\ Enter(t)
  /\ scopes' = Popped(t)
  /\ Goto(t, Top(t).back)
  /\ UNCHANGED <<owner, preemption, stackLimit>>

----------------------------------------------------------------------------
(* What a thread does with the lock.                                        *)

Work(t) ==
  /\ Runs(t)
  /\ \E n \in 0 .. MaxHandles : cur' = [cur EXCEPT !.handles = n]
  /\ UNCHANGED <<owner, archive, heapLimit, entry, scopes, pc, preemption, stackLimit>>

Entries(t) == Cardinality({k \in DOMAIN scopes[t] : scopes[t][k].kind = "isolate"})

\* v8::Isolate::Scope.
OpenIsolateScope(t) ==
  /\ Runs(t) /\ HasRoom(t) /\ ~TopIs(t, "postpone") /\ Entries(t) < MaxEntries[t]
  /\ Enter(t)
  /\ cur' = [cur EXCEPT !.id = EnteredAs(t, @)]
  /\ scopes' = Pushed(t, Scope("isolate", "run"))
  /\ UNCHANGED <<owner, archive, heapLimit, pc, preemption, stackLimit>>

CloseIsolateScope(t) ==
  /\ Runs(t) /\ TopIs(t, "isolate")
  /\ Exit(t)
  /\ scopes' = Popped(t)
  /\ UNCHANGED <<owner, archive, isolate, pc, preemption, stackLimit>>

\* A new guard, and the copy of its limit in the heap: SetStackLimits.
SetGuard(g) ==
  /\ cur' = [cur EXCEPT !.guard = g]
  /\ heapLimit' = g.limit

\* Nothing is called with interrupts postponed that locks or unlocks.
OpenPostpone(t) ==
  /\ Runs(t) /\ HasRoom(t) /\ scopes[t] # <<>>
  /\ SetGuard(Postponed(cur.guard))
  /\ scopes' = Pushed(t, Scope("postpone", "run"))
  /\ UNCHANGED <<owner, archive, entry, pc, preemption, stackLimit>>

ClosePostpone(t) ==
  /\ Runs(t) /\ TopIs(t, "postpone")
  /\ SetGuard(Resumed(cur.guard))
  /\ scopes' = Popped(t)
  /\ UNCHANGED <<owner, archive, entry, pc, preemption, stackLimit>>

----------------------------------------------------------------------------
(* Requests, and how a thread that runs JavaScript serves them.             *)

Request(flag) ==
  /\ SetGuard(Requested(cur.guard, flag))
  /\ UNCHANGED <<owner, archive, entry, scopes, pc, stackLimit>>

\* V8::TerminateExecution(isolate), by any thread once the isolate is set up.
TerminateIsolate == cur.id # NoThread /\ Request("terminate") /\ UNCHANGED preemption

\* V8::TerminateExecution(thread_id) by a thread that holds the lock.
TerminateThread(t, u) ==
  /\ Runs(t)
  /\ IF cur.id = u
       THEN SetGuard(Requested(cur.guard, "terminate")) /\ UNCHANGED states
       ELSE /\ states' = [s \in State |->
                 IF states[s].list = "inUse" /\ states[s].id = u
                 THEN [states[s] EXCEPT !.terminate = TRUE] ELSE states[s]]
            /\ UNCHANGED isolate
  /\ UNCHANGED <<owner, lazy, lazyState, threadState, entry, scopes, pc, preemption, stackLimit>>

\* Generated code has compared the stack with the limit in the heap's roots
\* (ARM), and Runtime_StackGuard with the one in the guard: no overflow.
\* HandleStackGuardInterrupt serves the requests in this order: the preempt
\* request, then the one to terminate.
StackCheck(t) ==
  /\ Runs(t) /\ heapLimit = kInterruptLimit /\ cur.guard.limit = kInterruptLimit
  /\ cur.guard.nesting = 0
  /\ Goto(t, "preempt")
  /\ UNCHANGED <<owner, archive, isolate, entry, scopes, preemption, stackLimit>>

\* RuntimePreempt without the Unlocker.
HandlePreempt_OnlyAcknowledges(t) ==
  /\ pc[t] = "preempt"
  /\ IF "preempt" \in cur.guard.flags
       THEN SetGuard(Continued(cur.guard, "preempt")) ELSE UNCHANGED isolate
  /\ Goto(t, "terminate")
  /\ UNCHANGED <<owner, archive, entry, scopes, preemption, stackLimit>>

\* RuntimePreempt: an Unlocker around a yield.  (MaxScopes does not bound it.)
HandlePreempt(t) ==
  /\ pc[t] = "preempt"
  /\ IF "preempt" \in cur.guard.flags
       THEN /\ SetGuard(Continued(cur.guard, "preempt"))
            /\ Unlock(t)
            /\ scopes' = Pushed(t, Scope("unlocker", "terminate"))
            /\ Goto(t, "relocks")
       ELSE /\ Goto(t, "terminate")
            /\ UNCHANGED <<owner, archive, isolate, entry, scopes>>
  /\ UNCHANGED <<preemption, stackLimit>>

\* A thread that is terminated unwinds; its handles go as its scopes close.
HandleTerminate(t) ==
  /\ pc[t] = "terminate"
  /\ IF "terminate" \in cur.guard.flags THEN SetGuard(Continued(cur.guard, "terminate"))
                                        ELSE UNCHANGED isolate
  /\ Goto(t, "run")
  /\ UNCHANGED <<owner, archive, entry, scopes, preemption, stackLimit>>

----------------------------------------------------------------------------
(* The ContextSwitcher.                                                     *)

StartPreemption(t) ==
  /\ Runs(t) /\ switcher = "none"
  /\ switcher' = "sleeps" /\ keepGoing' = TRUE
  /\ UNCHANGED <<owner, archive, isolate, entry, scopes, pc, stackLimit>>

\* One turn of ContextSwitcher::Run: the sleep is over.  That keep_going_ is
\* tested after the request is taken for the same moment.
Preempt ==
  /\ switcher = "sleeps"
  /\ Request("preempt")
  /\ switcher' = IF keepGoing THEN "sleeps" ELSE "gone"
  /\ UNCHANGED keepGoing

StopPreemption(t) ==
  /\ Runs(t) /\ switcher = "sleeps"
  /\ keepGoing' = FALSE
  /\ Goto(t, "joins")
  /\ UNCHANGED <<owner, archive, isolate, entry, scopes, switcher, stackLimit>>

Join(t) ==
  /\ pc[t] = "joins" /\ switcher = "gone"
  /\ switcher' = "none"
  /\ Goto(t, "run")
  /\ UNCHANGED <<owner, archive, isolate, entry, scopes, keepGoing, stackLimit>>

----------------------------------------------------------------------------
\* What a thread goes on with by itself once it has the lock.
Continues(t) ==
  \/ LockerRestores(t) \/ LockerInits(t) \/ UnlockerRestores(t)
  \/ HandlePreempt(t) \/ HandleTerminate(t)
  \/ Join(t)

\* What its program decides.
Begins(t) ==
  \/ OpenLocker(t) \/ CloseLocker(t) \/ OpenUnlocker(t) \/ CloseUnlocker(t)
  \/ Work(t) \/ OpenIsolateScope(t) \/ CloseIsolateScope(t) \/ OpenPostpone(t)
  \/ StartPreemption(t) \/ StopPreemption(t)
  \/ \E u \in Thread : TerminateThread(t, u)

Next ==
  \/ \E t \in Thread :
       Begins(t) \/ Continues(t) \/ Lock(t) \/ ClosePostpone(t) \/ StackCheck(t)
  \/ Preempt \/ TerminateIsolate

Spec == Init /\ [][Next]_vars

\* The outermost PostponeInterruptsScope is closed.
Resumes(t) == ClosePostpone(t) /\ cur'.guard.nesting = 0

(* The thread with the lock goes on with what it has begun (nobody else can *)
(* take these steps, so one condition does for all threads), interrupts are *)
(* not postponed for ever, and JavaScript passes stack checks again and     *)
(* again, at each call and each back edge.  Nothing is assumed of the       *)
(* mutex: a thread that waits for it may starve.                            *)
FairSpec ==
  /\ Spec /\ WF_vars(Preempt)
  /\ WF_vars(\E t \in Thread : Continues(t)) /\ WF_vars(\E t \in Thread : ClosePostpone(t))
  /\ SF_vars(\E t \in Thread : Resumes(t)) /\ SF_vars(\E t \in Thread : StackCheck(t))

----------------------------------------------------------------------------
Limit == UNION {LimitsOf(t) : t \in Thread}
Guard == [real : Limit \cup {kIllegalLimit},
          limit : Limit \cup {kIllegalLimit, kInterruptLimit},
          nesting : Nat, flags : SUBSET {"preempt", "terminate"}]
Local == [handles : 0 .. MaxHandles, id : Thread \cup {NoThread}, guard : Guard]

\* The variables have their types.
TypeOK ==
  /\ owner \in Thread \cup {NoThread} /\ lazy \in Thread \cup {NoThread}
  /\ lazyState \in State \cup {NoState}
  /\ states \in [State -> [list : {"free", "out", "inUse"},
                           id : Thread \cup {NoThread}, terminate : BOOLEAN, data : Local]]
  /\ threadState \in [Thread -> State \cup {NoState}]
  /\ cur \in Local
  /\ heapLimit \in Limit \cup {kIllegalLimit, kInterruptLimit}
  /\ stackLimit \in [Thread -> Limit \cup {NoLimit}]
  /\ entries \in Seq(Nat \ {0}) /\ entered \subseteq Thread
  /\ \A t \in Thread : Len(scopes[t]) <= MaxScopes[t] + 1
  /\ pc \in [Thread -> {"run", "locks", "restores", "inits", "relocks", "rerestores",
                        "preempt", "terminate", "joins"}]
  /\ switcher \in {"none", "sleeps", "gone"} /\ keepGoing \in BOOLEAN

\* The states that are not free are those of the threads that are archived,
\* one each, the lazily archived one's on no list: none is lost, although
\* RestoreThread, EagerlyArchiveThread and ArchiveThread each move them.
StatesAccounted ==
  /\ \A t \in Thread : threadState[t] # NoState =>
       LET s == threadState[t]
       IN  states[s].id = t /\ states[s].list = IF lazy = t THEN "out" ELSE "inUse"
  /\ \A s \in State : states[s].list \in {"out", "inUse"} =>
       states[s].id # NoThread /\ threadState[states[s].id] = s
  /\ \A s \in State : states[s].list = "free" => ~states[s].terminate

Installed ==
  IF owner # NoThread /\ pc[owner] \notin {"restores", "inits", "rerestores"} THEN owner ELSE lazy

\* The state of thread t, wherever it is.
StateOf(t) ==
  LET there(d, more) ==
        [there |-> TRUE, handles |-> d.handles, postponed |-> d.guard.nesting,
         requests |-> d.guard.flags \cup more]
  IN  IF t = Installed THEN there(cur, {})
      ELSE IF threadState[t] = NoState
             THEN [there |-> FALSE, handles |-> 0, postponed |-> 0, requests |-> {}]
      ELSE LET s == states[threadState[t]]
           IN  there(s.data, IF s.terminate THEN {"terminate"} ELSE {})

\* Archived threads keep their state and get the requests made to them, and
\* only those, through any nesting of Lockers and Unlockers and preemption.
PerThread ==
  INSTANCE PerThreadState WITH
    Flag <- {"preempt", "terminate"},
    current <- Installed,
    state <- [t \in Thread |-> StateOf(t)]
ImplementsPerThread == PerThread!Spec

\* Where a collection may happen, the collector finds the roots of every
\* thread: the running one's in the isolate, the others' in the list of
\* states in use (ThreadManager::Iterate), none in a state that is only
\* lazily archived, none twice.
CollectorSeesAll ==
  \A t \in Thread : Runs(t) =>
    /\ lazy = NoThread /\ threadState[t] = NoState
    /\ \A u \in Thread \ {t} : \A k \in DOMAIN scopes[u] :
         scopes[u][k].kind = "unlocker" =>
           Cardinality({s \in State : states[s].list = "inUse" /\ states[s].id = u}) = 1

\* The running thread has limits of its own stack, in the guard and in the
\* heap's roots: of no other thread, although it comes and goes through
\* archiving, restoring and initialisation.  A request that is pending and
\* not postponed lowers both, so that generated code sees it and
\* Runtime_StackGuard agrees; otherwise neither is lowered.
LimitsMatch ==
  owner # NoThread /\ Installed = owner =>
    LET g == cur.guard
    IN  /\ g.real \in LimitsOf(owner)
        /\ IF g.flags # {} /\ g.nesting = 0
             THEN g.limit = kInterruptLimit /\ heapLimit = kInterruptLimit
             ELSE g.limit = g.real /\ heapLimit \in LimitsOf(owner)

\* A thread that has locked the isolate has entered it and goes by its own
\* id: an isolate that was entered more than once stays the current one until
\* it is exited as often (Isolate::Exit; include/v8.h, Isolate::Exit).
EntryIsOwn == \A t \in Thread : Runs(t) /\ scopes[t] # <<>> => t \in entered /\ cur.id = t

\* While the switcher runs the lock is free again and again: no thread keeps
\* it for ever (the purpose of Locker::StartPreemption).
LockReleased == []<>(owner = NoThread \/ switcher # "sleeps")
=============================================================================

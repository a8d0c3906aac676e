# A verification project for weex_js_engine

The repository is the JavaScript engine of weex for Android: a JNI library of one C++ file,
`src/jni/v8core/com_taobao_weex_bridge_WXBridge.cpp`, over a complete copy of V8 3.17
(`src/jni/v8core/v8`) and dlmalloc. This directory holds TLA+ models of the parts where the order
of events decides whether the program is right, TLC runs on small instances, and proofs for every
size that TLAPS checks.

Paths below are relative to `src/jni/v8core/v8/src` unless they begin with `WX`, the bridge file.

## 1. The system

### Components

| Component | State | Operations | What is hard |
|---|---|---|---|
| **JNI bridge** (WX) | the isolate, the context, cached method ids, the JNI references of each active call | `initFramework`, `execJS` from Java; `callNative`, `callAddElement`, `setTimeoutNative`, `nativeLog` from JavaScript; `ExecuteJavaScript`, `ReportException` | a callback calls Java and Java may call `execJS` again; the arguments of a callback are converted by `toString`, `toJSON`, which are scripts; conversions outside any `TryCatch`; local references in scripts that loop |
| **Exception delivery** (isolate.cc, api.cc, builtins.cc, execution.cc) | `pending_exception_`, `scheduled_exception_`, `external_caught_exception_`, `catcher_`, the chain of `TryCatch`, the call depth | throw, rethrow, propagate to a `TryCatch`, reschedule at the API boundary, promote on return from a callback | who catches depends on how JavaScript handlers and C++ `TryCatch` objects interleave on the stack |
| **Handle scopes** (api.h, api.cc, handles.cc, handles-inl.h) | `next`, `limit`, `level`, the list of blocks, the spare block, deferred groups | open, close, escape, create a handle, begin and detach a deferred scope, destroy a group, visit the roots | a block changes hands between scopes, groups and the spare; the collector must see the live slots and no others |
| **Unbound queue** (unbound-queue.h, unbound-queue-inl.h) | a linked list, `first_`, `divider_`, `last_` | `Enqueue`, `IsEmpty`, `Dequeue`, `Peek` | two threads, no lock; the producer deletes what the consumer has passed |
| **Optimizing compiler thread** (optimizing-compiler-thread.cc, compiler.cc, runtime.cc, runtime-profiler.cc) | two queues, the length, a semaphore, a stop flag, the code field of every function | queue a function, optimise, install, on-stack replacement, deoptimise, stop | both threads write the code field; the state of a function when it is installed is not that when it was queued |
| **Thread manager and Locker** (v8threads.cc) | the lock, the archived states, the lazily archived thread, the isolate's entry stack | lock, unlock, archive, restore, free, preempt, terminate | archiving is put off until another thread needs the isolate; Lockers nest in Unlockers |
| **Incremental marking** (incremental-marking.cc, mark-compact.cc, heap.cc) | mark bits, the deque, the progress bars, the candidates for evacuation and their slots buffers | start, step, write barrier, left trim, scavenge, complete, finalize, abort | program and marker interleave; a deque or a buffer may be full |
| **Global handles** (global-handles.cc) | nodes with their states, the list of blocks in use, the free nodes, the list of the nodes of young objects | create, destroy, make weak, mark independent; identify what dies, process after a collection | weak callbacks use handles and collect again while the processing iterates over both lists |
| **Stack guard** (execution.cc) | interrupt flags, limits, the nesting of postponements | request, handle, postpone, terminate, archive, restore | requests of other threads, at any moment |
| **Sampling queue, profiler** | a ring of records | enqueue in a signal handler, dequeue | the producer never waits |
| **Isolate's life cycle, CallOnce** | the state of the isolate, the entry stack | init, enter, exit, tear down | threads started in Init and stopped in Deinit |
| heap and collector, compilers, parser, ICs, regular expressions, conversions, JavaScript library, debugger, dlmalloc, build tools | | | not concurrent in this configuration, third-party, or about the semantics of JavaScript rather than of this program |

### How they interact

Java calls the bridge on one thread. The bridge opens a `HandleScope`, registers a `TryCatch`, and
calls V8; JavaScript calls the bridge's callbacks, which convert their arguments (entering
JavaScript again when an argument is an object), call Java, and return into the code that called
them. An exception thrown in JavaScript goes to the newest handler; if it leaves JavaScript it is
written into the newest `TryCatch` of C++ or *scheduled*, and a callback that returns with an
exception scheduled rethrows it. Handles made meanwhile live in the blocks of the handle scopes,
which the collector scans. A hot function is queued by the main thread through an unbound queue to
the compiler thread, which optimises it and queues it back; the main thread installs the code at its next
profiler tick or call of the function. The compilation holds its handles in a deferred group.

An embedder may use the isolate from several threads with `Locker` and `Unlocker` (the bridge has one
thread and does not). A thread that gives up the lock leaves its handles, its guard and its other roots
in the isolate; the next thread that takes the lock archives them, and the first finds them again through
its `ThreadState`. A preemption thread and `TerminateExecution` write requests into the guard that is in the
isolate, whoever's it is. The collector marks incrementally while the program runs: each store goes through the
write barrier, which keeps the marks right and records the slots that refer to pages to be evacuated; a
scavenge may run between two steps. After a collection the callbacks of the weak handles whose objects
were about to die are called; they are part of the program and may do anything a program may, collect included.

What makes each of them right, with the line where it may go wrong, is listed under `hazards` in
`PROJECT.json`; each hazard names the properties that would show it, or says why none does yet.

## 2. The modules

```
HandleStack    <--implements--  HandleScopes       <-- MCHandleScopes,       HandleScopes_proofs
V8Exceptions   <--extended by-- WXBridge           <-- MCWXBridge,           WXBridge_proofs <-- WXBridgeRefs_proofs
Fifo           <--implements--  UnboundQueue       <-- MCUnboundQueue,       UnboundQueue_proofs
                                OptimizingThread   <-- MCOptimizingThread,   OptimizingThread_proofs
PerThreadState <--implements--  ThreadManager      <-- MCThreadManager,      ThreadManager_proofs
StackGuard     <--extended by-- ThreadManager
                                IncrementalMarking <-- MCIncrementalMarking, IncrementalMarking_proofs
                                GlobalHandles      <-- MCGlobalHandles,      GlobalHandles_proofs
```

### HandleScopes, HandleStack

`HandleStack` is what `include/v8.h` promises an embedder: scopes are a stack, a new handle is a
cell that is not live and keeps its value until its scope, or the deferred group it was detached
into, goes. `HandleScopes` is the implementation.

| TLA+ | code |
|---|---|
| `hs.next`, `.limit`, `.level` | `HandleScopeData` |
| `hs.blocks`, `.spare`, `.lastBefore` | `HandleScopeImplementer`: `blocks_`, `spare_`, `last_handle_before_deferred_block_` |
| `scopes` | the scope objects on the C++ stack: the saved `prev_next_`, `prev_limit_` and, for the properties only, the handles made in each |
| `deferred` | the `DeferredHandles` that exist |
| `links` | `deferred_handles_head_` of the isolate, `next_` and `previous_` of each group; a group goes by its first block |
| `mem` | the content of the slots; `Junk` when never written, or freed |
| `OpenScope`, `CloseScope`, `CreateHandle`, `CloseAndEscape` | `HandleScope`, public and internal; `CloseAndEscape(FALSE)` is `RawClose` |
| `OpenDeferredScope`, `DetachDeferredScope`, `DestroyDeferred` | `DeferredHandleScope`, `Detach`, `~DeferredHandles` |
| `LinkDeferredHandles`, `UnlinkDeferredHandles` | the `Isolate`'s functions of these names, parts of `DetachDeferredScope` and `DestroyDeferred` |
| `VisitedInBlocks`, `VisitedInGroup`, `Linked` | `IterateThis`, `DeferredHandles::Iterate`, the walk of `IterateDeferredHandles` |

A pointer is `<<block, offset>>`. `DeleteExtensions`, `SpareOrNewBlock` and `Extend` are sets of
possible results, because the allocator may return any free array. The release build is modelled
(the exact comparison `prev_limit == block_limit`, no zapping).

### WXBridge, V8Exceptions

One thread, so one stack: `stack` has a frame for each active bridge function and one for each call
into JavaScript. The index of a frame stands for its address, so two `TryCatch` objects made one
after the other at the same depth have the same address, which is what makes a stale `catcher_`
dangerous. `V8Exceptions` has the rules of V8 as operators on a stack and on
`ThreadLocalTop`; `WXBridge` has the program.

* `Steps` gives each bridge function's order of conversions and calls. `InitFramework` and `ExecJS`
  enter JavaScript; `ConvertNonString` enters V8 for the conversion of an argument: for the `toString` or `toJSON` of
  an object, and for a number, a Boolean or `undefined`, whose builtin returns at once (`Value::ToString`, api.cc:2530-2538).
  `ConvertString` and `ConvertNothing` are the conversions that do not enter it.
* `Tame` is a premise about the program: between a conversion that threw and the return of the callback nothing
  enters V8 (`MayEnterV8`), so what is converted then are strings, and Java does not call `execJS`. It rules out
  `callNative(id, {toJSON() { throw 1 }})`, whose third argument is `undefined`, and `callAddElement` with a node
  that throws and a numeric index.
* `JSThrow`, `JSRethrow`, `JSEnterTry`, ... are the scripts (external): a script may throw, be in one
  `try` statement per call, call callbacks, return. An exception is known by the instance for which
  it was thrown.
* `LeaveJS` is the boundary of the API: the exception is written to the `TryCatch` and rescheduled
  or forgotten (`Propagated`, `Rescheduled`). `CallbackEnds` is the end of `HandleApiCallHelper`: a
  scheduled exception is rethrown in the caller.
* `locals` are the JNI references a callback has made, by frame and step.
* `nativeLog` has two arguments; the conversions inside `ReportException` are one step.

### UnboundQueue, Fifo

Each action is one access to memory that the other thread can see: `EnqueueLink` writes
`last_->next`, `EnqueuePublish` is the release store to `last_`, `EnqueueClean` one turn of the loop
that deletes nodes up to `divider_`; `NotEmpty`, `DequeueNext`, `DequeueValue`, `DequeueAdvance` are
the consumer's loads and its release store. Addresses come from a set smaller than the number of
records, so a freed address is handed out again while the consumer is active.

Weak memory is modelled by one reordering, the one that can hurt: the consumer's
load of `divider_->next` ahead of its load of `last_` (`LoadNextEarly`). `IsEmpty` loads `last_`
plainly and a control dependency does not order the later load on ARM. `consumer.early` remembers that the load was early, for
`FindsRecordInOrder` only; a consumer that follows a null pointer has crashed (`Crashed`), and nothing happens after it. Both pointers are published by release
stores, so that what a thread wrote before is visible to the other.

### OptimizingThread

`code[f]` is the code field of closure `f`: unoptimised, optimised, or one of the three builtins
that mark it. The main thread is at `"js"` when scripts run; every other value of `pc["main"]` is a
place inside `RecompileParallel`, `OptimizeNow`, `InstallRecompiledCode` or `Stop` between two
accesses the worker can tell apart. `CompileNext` is shared by the worker and by `Stop`, as in the
code. The operations of the two queues are atomic here, which `UnboundQueue` justifies: it
implements `Fifo`, whose steps are atomic. `SharedOf` says which closures come from one function literal and
so share unoptimised code, the flag `optimization_disabled` and the optimised code map.
`optimizedFunctions` counts how often the context's list has each closure; its order is left out, since nothing
reads it. A second entry is where the linked list of the code would become a cycle, and the run that shows one stops there.

### ThreadManager, StackGuard, PerThreadState

`PerThreadState` is what `include/v8.h` promises of `Locker` and `TerminateExecution`: each thread has a
state of its own that is there, as the thread left it, whenever it is the one that uses V8; a request
made to a thread reaches that thread and no other. `ThreadManager` has the code, `StackGuard` the rules of
`StackGuard::ThreadLocal` as operators on a record.

| TLA+ | code |
|---|---|
| `owner` | `mutex_owner_` and the mutex |
| `lazy`, `lazyState` | `lazily_archived_thread_`, `lazily_archived_thread_state_` |
| `states` | the `ThreadState` objects: `"free"` and `"inUse"` are the two lists, `"out"` is on neither; id, `terminate_on_restore_`, and the archived data |
| `threadState[t]` | `thread_state_` in the `PerIsolateThreadData` of the thread |
| `stackLimit[t]` | `stack_limit_` of the thread's `PerIsolateThreadData`, which `FreeThreadResources` stores |
| `cur`, `heapLimit` | what is in the isolate: the number of handles (for all that is archived and iterated), `thread_id_` of `ThreadLocalTop`, the guard; and the limit among the roots of the heap |
| `entries`, `entered` | `entry_stack_`, by its counts, and the threads whose thread-local data say they are inside |
| `scopes[t]`, `pc[t]` | the `Locker`, `Unlocker`, `PostponeInterruptsScope` and `Isolate::Scope` objects on the stack of the thread, and where in their constructors and destructors it is |
| `OpenLocker`, `Lock`, `LockerRestores`, `LockerInits`, `CloseLocker` | `Locker::Initialize`, `~Locker` |
| `OpenUnlocker`, `CloseUnlocker`, `UnlockerRestores` | `Unlocker::Initialize`, `~Unlocker` |
| `ArchiveThread`, `EagerlyArchived`, `RestoreLazily`, `RestoreArchived`, `RestoreNew` | the `ThreadManager`'s functions of these names and the three ways through `RestoreThread` |
| `StackCheck`, `HandlePreempt`, `HandleTerminate` | `Runtime_StackGuard`, `RuntimePreempt`, `HandleStackGuardInterrupt` |
| `Preempt`, `StartPreemption`, `StopPreemption`, `Join` | the `ContextSwitcher` |
| `TerminateIsolate`, `TerminateThread` | `V8::TerminateExecution`, with and without a thread id |

A step is what runs under the lock between two places at which a request can come in. A limit
is an address in a thread's stack; it is named by the thread and by how deep in its stack `InitThread` ran (`LimitsOf`), since `Initialize` computes
it from the address of a local variable. A thread that opens a top-level `Locker` a second time has a limit
stored, which `InitThread` sets again, in the guard only (`SetStackLimit`).

### IncrementalMarking

The graph of objects is data (`heap`, `young`, `field`, and `roots` for the handles of the program); an
object stands for the page it is on.

| TLA+ | code |
|---|---|
| `color` | the mark bits |
| `bar` | the progress bar of a large array |
| `queue`, `overflowed` | `marking_deque_` |
| `state`, `hurry` | `state_` and `should_hurry_` |
| `compacting`, `candidates`, `rescan` | `is_compacting_`, the flags `EVACUATION_CANDIDATE` and `RESCAN_ON_EVACUATION` of the pages |
| `recorded` | the slots buffers |
| `Start`, `SweepingEnds`, `Step` | `Start`, and the three states of `Step`, one visit of an object each |
| `Write`, `MoveElements`, `LeftTrim` | the three ways in which the program changes a graph that is being marked: a store with `RecordWrite`, a bulk move with `RecordWrites`, and the trim that moves the start of an array (`TransferMark`) |
| `Scavenge` | a scavenge: what dies, what is promoted, what the deque becomes, the slots of promoted black objects |
| `Finish` | `CollectGarbage` once the marking hurries: `Finalize` or `Hurry`, the deque and its overflow handed over, `MarkLiveObjects`, evacuation and the update of the pointers |
| `AbortAndCollect` | a collection before that: `Abort`, and marking from nothing |

Abstractions, each of which allows more than the code does: the deque is a set, and any push may find it full; a
slots buffer may be full at any entry; which objects are promoted, or moved among the candidates, is
open; and a step may visit any object of the deque. `AbortAndCollect` empties the deque where the code leaves that to the
next `StartMarking`; nothing reads it between. A large array is always rescanned
in a compacting collection, as `EvacuateNewSpaceAndCandidates` and `StartCompaction` do. What the marker
reads through handles is `roots`; the roots are not behind the barrier and are visited again at the end.

### GlobalHandles

| TLA+ | code |
|---|---|
| `nodes` | the `Node`s of all blocks: state, object, the three flags, and `word`, the union of the callback's parameter and the free-list link; `"absent"` is a node of a block that was not allocated yet |
| `free`, `used`, `newSpace` | `first_free_`; `first_used_block_` with `next_used_`, `prev_used_`, `used_nodes_` of the blocks; `new_space_nodes_` |
| `rounds` | the active calls of `PostGarbageCollectionProcessing`: the collector, where its iterator stands, the node whose callback runs, and `again`, that `post_gc_processing_count_` has changed since |
| `heap` | external: where each object is, and whether anything but a global handle reaches it |
| `due` | for `NoneForgotten` only: the nodes scavenges have made pending |
| `Create`, `Destroy`, `MakeWeak`, `ClearWeakness`, `MarkIndependent`, `MarkPartiallyDependent` | the functions of these names; `Destroy` is `Release` |
| `Scavenge` | `IterateNewSpaceStrongAndDependentRoots`, `IdentifyNewSpaceWeakIndependentHandles`, `IterateNewSpaceWeakIndependentRoots`, in the order of `Heap::Scavenge` |
| `MarkCompact` | the strong roots, `IdentifyWeakHandles`, `IterateWeakRoots`, the moves out of the new space |
| `PassNode`, `CallBack`, `CallbackReturns`, `EndRound` | a turn of the loops of `PostGarbageCollectionProcessing` that calls nothing, the call, the return with the comparison of the counts, the new list of young nodes (`Compacted`: the loop that moves the nodes that stay forward) |

A slot that no root iteration visits although its object died or moved holds `Null`, an address at which there is no
object any more: `HandlesValid` says that no handle that exists does. The iterators stand in the lists that
callbacks change: `Advanced` and `AtEnd` read `used` and `newSpace` as they are then. That a callback disposes
of its handle or revives it (`ASSERT` at 281) is what the API asks of the embedder, and the guard of `CallbackReturns`.

## 3. What is checked

TLC's deadlock check is on wherever the program goes on for ever; it is off only for the queue
(which is destroyed), the compiler thread (which is stopped) and the thread manager (whose threads
may be terminated or done).

| Run | Instance | Shows |
|---|---|---|
| `handle_scopes` | 3 blocks of 2 slots, 2 objects, 4 scopes | `RootsAreLive`: the collector visits exactly the live handles, and each holds an object; `NoScopeNoBlocks`; the implementation keeps the promise of `HandleStack` |
| `bridge` | 2 instances, all four callbacks, 5 frames | whatever scripts do, a call without a result has its exception (`EmptyMeansCaught`), `catcher_` is never stale (`CatcherRegistered`), nothing stays scheduled once no callback is active (`ScheduledUnderCallback`), each callback deletes the references it makes (`LocalRefsDeleted`) |
| `bridge_tame` | 6 frames, two callbacks, the log class missing, `Tame` | if a callback does not enter V8 between a conversion that threw and its return: a call that has a result has no exception (`TrueMeansNotCaught`), exceptions reach the instance they belong to (`OwnExceptions`), and no other call or conversion enters V8 with an exception on its way either (`EnteredWithoutExternal`) |
| `bridge_assert` | 5 frames, not tame | a violation, section 5 |
| `unbound_queue` | 4 addresses, 5 records | no node is touched after it was deleted, none is leaked; `Dequeue` finds the record `IsEmpty` promised if the loads were in order (`FindsRecordInOrder`); the queue implements `Fifo` with its liveness, up to a crash; `Enqueue` ends |
| `unbound_queue_null` | the same | a violation, section 5 |
| `optimizing_thread` | 2 closures of a literal without loops, 1 of a literal with them (on-stack replacement), queue of 2, delay | no job or waiting function is lost (`WaitersHaveJobs`), no mark overwrites optimised code (`MarksUnoptimized`), the list of optimised functions is exact through caching, installation and deoptimisation (`ListIsExact`), `Dequeue` finds a job although the semaphore also signals a stop, `Stop` drains both queues, calls and `Stop` end |
| `optimizing_thread_list` | 2 closures of 1 literal with loops | a violation, section 5 |
| `threads` | 2 threads, one with 3 scopes of which one may be an `Isolate::Scope`, the other with 1 and two depths of its stack | lazy archiving implements `PerThreadState`; no `ThreadState` is lost (`StatesAccounted`); a collection sees each thread's handles once (`CollectorSeesAll`); the thread that runs has limits of its own stack in guard and heap, and a pending request lowers both (`LimitsMatch`); with the switcher running no thread keeps the lock (`LockReleased`) |
| `threads_entry` | one thread with two `Isolate::Scope`s, one with one | a violation, section 5 |
| `marking` | a young object, an old one and a large array of 2 slots | no black object hides a white one (`TriColor`), the deque holds what it should and is empty when the marking is complete (`QueuedAreGrey`), no pointer leads to what was freed or moved (`PointersValid`) |
| `global_handles` | 2 blocks of 2 nodes, 3 handles at once, 1 object, a collection in a callback | the iterators stay inside the blocks (`TypeOK`), no handle leads nowhere (`HandlesValid`), the lists of free nodes, blocks and young nodes are exact (`ListsExact`), no pending handle is passed over (`NoneForgotten`) |

### Why the bounds are enough

* Handles: with 2 slots a block, every scope of two handles crosses a block boundary, starts or ends
  exactly on one; 4 scopes and 3 blocks allow a deferred scope between ordinary ones, two groups at
  once, which go in either order, and the spare block used by each. That a group goes from the middle of the
  list takes four blocks; the theorem `DeferredLinked` covers it. Two objects tell a value that was kept from one that
  was not.
* Bridge: 4 frames are `execJS`, its script, a callback, the script that converts its argument; 5 are
  a callback that has called Java, a second `execJS` and its script, the smallest stack with two
  instances; 6 (the tame run) add a callback in that script. The invariants that hold for any environment
  are proved for every depth.
* Queue: 4 nodes are one behind `divider_`, `divider_` itself, one unread and one being published;
  5 records reuse addresses.
* Compiler thread: queue length 2 with 3 functions fills the queue and has one refused. `MaxJobs` is
  the bound on jobs in the two queues: one for each function. Two closures of one literal share
  code, flag and code map; the third has the loops. Loops in a literal with two closures lead to the violation
  of section 5 and are the other run.
* Threads: 3 scopes are a `Locker`, an `Unlocker` and a `Locker` in it, or a postponement in the second; the other
  thread has one `Locker` at a time, and is preempted in it (the `Unlocker` of a preemption is not counted). Each is archived lazily
  and eagerly, comes back to find another's state in the isolate or its own, and is
  terminated while archived. Two depths of one thread make the limit that is stored differ from the one that is computed. Two `ThreadState` objects are one for each thread. `MaxHandles` 1 tells a
  thread that has something in the isolate from one that has not; one `Isolate::Scope` keeps `entries` where the code
  is right, two are the violation (`EntryIsOwn`).
* Marking: `a` may be young and on an evacuated page, `b` is old and movable, `l` is large; `Holds` lets `a`
  hold `b`, and the others hold `a`. This has each barrier, an array that is partly scanned, a promotion of a black object, an overflow and each
  kind of collection. It does not tell apart what needs a fourth object: a page that is given up as a candidate while another one
  keeps a slot to a third. The proof of section 4 covers these.
* Global handles: two blocks of two nodes have an iterator step within a block, from one to the next, and off the end,
  and a block that is emptied, unlinked and linked again under the iterator. `MaxHandles` 3 of the 4 nodes: the fourth
  in use at the same time adds no new shape of a list. `MaxRounds` 2 is a collection in a callback; a third level meets
  what a second one does, since a round knows only whether there was another. `InCallback` leaves out what
  a callback could do as well before or after the collection (allocate, drop, read a handle, set a flag).
  One object is young or old, dies, and comes again; each node's fate depends on its own object only.

### Fairness

* `UnboundQueue!FairSpec`: weak fairness of the producer inside a call (a thread is scheduled) and of
  the consumer, which in the code polls in a loop. Strong fairness of `DequeueValue`, because a consumer may
  `Peek` at any moment: it must not do only that. Nothing makes the producer call `Enqueue`.
* `OptimizingThread!FairSpec`: weak fairness of the worker, and of the main thread for the steps that
  follow from what it has begun. That scripts call functions, that the profiler ticks or that the isolate is torn down is
  not assumed. `CallEnds` is the property of the loop in `Runtime_InstallRecompiledCode` (runtime.cc:7747), which
  spins until the worker has queued the function.
* `ThreadManager!FairSpec`: weak fairness of `Preempt` (the switcher sleeps and wakes), of what the thread that has
  the lock is in the middle of (`Continues`) and of closing a postponement; strong fairness of closing the outermost
  one and of a stack check, since scripts come to checks at each call and back edge and do not postpone for
  ever. Each is one condition for all threads, not one for each: only the thread that has the lock can take these
  steps, so it says that whoever has it goes on, and no more. Nothing is assumed of the mutex, nor that a thread closes a `Locker` or asks for one: `LockReleased` says that the
  lock is given up, not who gets it.
* `HandleScopes`, `WXBridge`, `IncrementalMarking` and `GlobalHandles` have safety properties only: one thread, the scripts
  and callbacks may loop, and nothing obliges the program to allocate, which is what drives marker and collector.

## 4. What is proved

| Theorem | Says | For every |
|---|---|---|
| `HandleScopes_proofs!Inductive`, `TypeCorrect`, `BlocksReturned` | `Spec => []IInv`, `[]TypeOK`, `[]NoScopeNoBlocks` | set of blocks, block size > 0, depth |
| `HandleScopes_proofs!DeferredLinked`, `LiveInductive` | `Spec => []LinksOK`: the list of deferred groups is well linked; `Spec => []LiveOK`: it leads to every group, and live handles hold objects | the same, and any number of groups |
| `HandleScopes_proofs!RootsLive` | `Spec => []RootsAreLive` | the same |
| `HandleScopes_proofs!ImplementsHandleStack` | `Spec => ImplementsStack`, the whole refinement | the same |
| `WXBridge_proofs!TypeCorrect`, `EmptyIsCaught`, `CatcherIsRegistered`, `ScheduledIsPromoted` | the invariants of `bridge` | set of instances and callbacks, depth >= 2, tame or not |
| `WXBridge_proofs!TameInductive`, `OwnExceptionsTame`, `TrueIsNotCaught`, `EnteredIsClean` | `Spec => []TInv`; `OwnExceptions`, `TrueMeansNotCaught` and `EnteredWithoutExternal`, the properties of `bridge_tame` | the same, if `Tame` (section 2); section 5 says what breaks them without the premise |
| `WXBridgeRefs_proofs!RefsAreDeleted` | `LocalRefsDeleted` when the log class is found | the same |
| `IncrementalMarking_proofs!Invariance`, `TypesCorrect`, `TriColorHolds`, `DequeIsGrey`, `PointersAreValid` | `Spec => []Inv`, and the four invariants of `marking` | set of objects of any lengths, whichever are young, large or movable, and whatever the program stores |
| `UnboundQueue_proofs!Invariance`, `TypeCorrect`, `NothingUsedAfterFree`, `NothingLeaked`, `RecordFound` | `Spec => []IInv`, and the four invariants of `unbound_queue` | finite set of addresses, number of records, loads in order or not |
| `UnboundQueue_proofs!ImplementsFifoSteps` | the queue implements `Fifo`, its liveness apart | the same |
| `OptimizingThread_proofs!Invariance`, `TypeCorrect`, `JobFound`, `WaitersServed`, `Drained` | `Spec => []IInv`, and four invariants of `optimizing_thread` | set of closures, sharing of literals, queue length, delay or none |
| `OptimizingThread_proofs!MarksAreRight`, `ListIsRight` | the other two | the same, if closures of one literal with loops are one closure |
| `ThreadManager_proofs!Invariance`, `TypeCorrect`, `StatesAreAccounted`, `CollectorFindsAll`, `LimitsAreOwn` | `Spec => []IInv`, and the four invariants of `threads` | set of threads and of `ThreadState`s, nesting of scopes, number of handles |
| `ThreadManager_proofs!Implements` | `Spec => ImplementsPerThread`, the whole refinement | the same |
| `GlobalHandles_proofs!Invariance`, `TypeCorrect`, `HandlesAreValid`, `ListsAreExact`, `NothingForgotten` | `Spec => []IInv`, and the four invariants of `global_handles` | set of blocks of any size, objects, and number of handles and of collections inside one another, whatever the callbacks do |

The assumptions are those the modules state: constants that stand for "none" are not among the
values, block size and depth are naturals of at least 1 and 2, the nodes of the queue have finitely many addresses.

*Handle scopes.* `NoScopeNoBlocks` is not inductive: that closing the last scope empties the block
list depends on what that scope saved when it was opened. `IInv` gives each open scope `k` a number
`base[k]`, the blocks that existed when it was opened: `base[1] = 0`, `base` does not decrease, the
saved pointers of scope `k` lie in block `base[k]`, and the current ones in the last block. It further says
that no array is in two places (in the list, in a group, spare), which is what makes the block
at which `DeleteExtensions` stops unique (`KeptIsUnique`): it compares addresses only. One lemma for each
operation, and the theorem. `LinksOK` stands on `IInv`, which says that no two groups have the same first block. It
gives each group an age that decreases along `next_`, as a witness that no group comes after itself. `RootsAreLive` says that the slots the
collector visits, which it finds from pointers alone, are the handles that were made and not dropped. So `SlotsOK`, a part of `IInv`, says which slots a scope owns: from
the pointer it saved to the one the next scope saved, or to `next` (`OwnOK`); below a deferred scope the rest of
the block is a gap, and `last_handle_before_deferred_block_` is where that starts (`GapOK`). A slot in use is then owned by the last scope that begins
at or below it (`InUseOwned`), and nothing owned is missed (`OwnedInUse`). `LiveOK` adds that
a group is what its iteration visits, that the groups on the list are numbered without a gap (`CountedOK`), so that the walk meets each (`LinkedAreNames`), and
that live handles hold objects: a step frees or overwrites no memory of the handles that remain (`ReleasedKeeps`, one `Effect` lemma
for each operation). The same lemmas give the refinement: one `Implements` lemma for each operation, and destroying a group is a stutter when another has the same, that is no,
handles.

*Bridge.* `IInv` (`Inv`) says how frames may lie on one another (`Over`: only JavaScript calls callbacks; a
bridge function runs JavaScript only before it calls Java; under `execJS` and
`ExecuteJavaScript` the call runs without a second `TryCatch`), that the call depth is the number of JavaScript frames, that
`catcher_` is a registered `TryCatch`, that an exception scheduled has a callback on the stack to
promote it, and that a frame at its report has an exception. The depth matters because `OptionalRescheduleException`
forgets an exception when it is 1: exactly then there is no older JavaScript, so no callback, and
the exception must not stay. The way a throw unwinds is one lemma for `Raise`, used by `JSThrow`, `JSRethrow` and every
return from a callback.
`TInv` says of a tame program where an exception is on its way. A `TryCatch` whose call has not ended and that has noted one (`Awaiting`) is the newest
of all, with no `try` of JavaScript above it (`WayFree`); that is so only while the newest frame is a callback with an
exception scheduled, and `external_caught_exception_` is set only then. Each frame has the instance of the one below it unless Java called `execJS` between them
(`Inherits`), and `execJS` has a `TryCatch` of its own, so what lies above the newest `TryCatch` is of one instance (`SameInstance`)
and what arrives there is of the instance of its frame. The callback returns, and the exception is thrown
again one call further down: `LeaveTame` shows that the same `TryCatch` catches it again or that it has arrived. `MayEnterV8` is used in two places, where
`execJS` and the conversion of a value that is no string would enter V8 with the exception waiting.

*Unbound queue.* `IInv` numbers the records. The value of a node is the number of its record, so it gives the node its place:
no two nodes allocated have the same, each links to the next, none between `first_` and the newest is missing, and `divider_`
and `last_` are those of the records received and sent. The node in the consumer's hands is the one after `divider_`, which
`EnqueueClean` does not reach; this is what `NoUseAfterFree` and `RecordFound` need, and `early` is the one exception the
code has (section 5). `NoLeak` is about a walk from `first_`, which is recursive: each node
that the walk leaves out has a place, and the one with the least would be what the one before it links to. `ImplementsFifoSteps` says that
`EnqueuePublish` is the abstract `Enqueue`, `DequeueAdvance` the abstract `Dequeue` of the oldest record, and the other steps stutter.

*Compiler thread.* `IInv` is an accounting. `LengthOK`: `queue_length_` counts the jobs in the queue, those on the way in once they are counted, and
those on the way out until they are counted off. `TokensOK`: there is a token of the semaphore for every job, except for
the one that is taken and the one whose signal is still to come, and one more for `Stop`; a worker that has gone past the check of the
flag has not taken `Stop`'s. `StopOK` says how far `Stop` has come and what is left of the queues then. From these `Dequeue` finds a
job, the worker's and `Stop`'s, and `Stop` with a delay leaves nothing. `WaitersHaveJobs` is inductive with them, also where two
closures of one literal have loops. `Alone` is the second invariant: a closure has at most one job, and its code field says where that
is. It needs the premise `LoopsOfOneClosure`, which `--no-use-osr` also gives: the code that on-stack replacement patches is then run by one
closure, so a closure with a job is not optimised on the stack. Without it `ListIsExact` fails, as section 5 shows; so the premise is what the code
lacks, and nothing else is wrong with the list.

*Threads.* `IInv` has five parts beyond types and `StatesAccounted`. `StacksOK`: how the scopes of a thread may lie on one another (`Nested`: under an `Unlocker` its thread does not
run V8, so what is on it is a `Locker` that takes the lock), and that a thread has the lock exactly at the places and under
the scopes of `Holds`. `LazyOK`: a thread archived lazily has its `ThreadState`, and where a thread uses V8 no other is in the
isolate. `PresentOK`: a thread that has more than one scope has a state, in the isolate or in its `ThreadState`, with a guard
whose limit is right and whose `nesting` is the number of postponements on its stack. `IsolateOK`: the limit in the heap is the guard's or one of the
same stack, both lowered or neither, and the isolate without a thread has no handles. `StoredOK`, beside `IInv`: the limit stored for a thread is of its stack. Every action changes the states of one or two threads: `OwnerStep`, `ArchiveStep`, `RestoreStep` and
`OutsideStep` say once what follows for all others. `Implements` maps a thread that is `Present` to its abstract state; taking or giving up the lock and archiving, lazily or not, are stutters,
`RestoreArchived` and `LockerInits` switch to another thread's state, or a fresh one, `RestoreNew` leaves the isolate to none, and closing a top-level `Locker` ends the state.

*References.* `RInv` on top of it: a reference belongs to an active bridge frame and a step it has
left behind. A callback that returns deletes them all (`AllDeleted`). `LogClassFound` is
a premise because without the class `nativeLog` does leak the message (WX:573).

*Marking.* `Inv` adds to the four properties what they need to be inductive. `SlotsRecorded`: a black object that will
not be visited when pointers are updated has each of its slots that refers to a candidate in that candidate's
buffer; this is why a page whose buffer overflows must be rescanned from then on, its own slots having been
skipped as long as it was a candidate, and why a scavenge must record the slots of what it promotes. `BarsOK`: only a black
large array has its bar above 0, so that to turn one grey again means to scan it from the start. `Idle`: there are
candidates only in a compacting marking, in which every large array is rescanned. `AbsentOK`: an object that is allocated
refers to nothing. `PointersValid` is last: what is white at the end is reached from no live object, because `Marked` is closed
(`ReachedClosed`) from grey and black objects, from the deque or its overflow, and from the roots; and a slot that refers to a moved object is
visited, freshly scanned or recorded. The store has the longest proof: for an ordinary object the object is turned
grey, for a large array the value is.

*Global handles.* `StorageOK` says of the free nodes and of the blocks in use that they form a `Chain`: there is an age for each
element, the number of those behind it, that decreases by one along the links. This is what the links alone do not say and what an
insertion at the head (`ChainPush`) and a removal from anywhere (`ChainRemove`) keep. A walk then meets exactly the elements (`ChainWalk`):
if it left some out, take one of greatest age; that of the least greater age among those it meets links to it. Both exist because the naturals are well-founded. `CountsOK`: the
uses of a block are the cardinality of its handles, so a block is taken out with its last handle and no handle is in a
block that an iteration does not come to (`RetainersIterated`); with `ListOK`, by which every young handle is on the list of the
scavenger, this is why a collection that keeps or marks what it iterates over takes no object from a handle. The list is
compacted at the end of a round (`CompactedKeeps`). `RoundsOK` keeps each iterator inside a block or at the end (`Inside`), also while
callbacks of its round change the lists.

`NoneForgotten` needs to know what an iterator is still to come to (`Ahead`), in `PInv`, which `IInv` helps to keep. `AheadOK`: the innermost round, if no other
came into it, is still to come to all that is pending, or for a scavenge to all that a scavenge has identified. `DueOK`: what a scavenge has
identified is pending, may still die young and is listed. `WaitOK`: a round that another came into is in a callback, and
when the other ended nothing of it was left. The hard step is a callback that empties a block or puts one back, with the iterator on
it or before it. A walk is the least closed set, so `DecreaseWalks` shows that a set that is closed along the new links, with the block that was taken out if need be, is
closed along the old; the block taken out has kept its link, so this holds of a walk from it too, and it is what the mutant breaks. A block
put back at the head leads to every block in use (`IncreaseWalks`).

**Only model-checked**: liveness (out of this prover's reach: `EnqueueEnds` and that of `Fifo`, `CallEnds`, `StopEnds`,
`LockReleased`). Every safety property of the passing runs is proved.

## 5. What the runs found

1. `bridge_assert` — `ExecuteJavaScript` asserts that a script that has a result left nothing in the
   `TryCatch` (WX:331). `callNative` calls `JSON.stringify` with no `TryCatch` and goes on after it threw
   (WX:400); a later argument whose conversion calls a native function rethrows the exception where the
   `TryCatch` of `Utf8Value` swallows it. The assertion fails.
   For the same reason a callback enters V8 again while `external_caught_exception_` is set, against the
   assertion of `EXCEPTION_PREAMBLE`, `ASSERT(!(isolate)->external_caught_exception())` (api.cc:84). It takes no
   script for that: the argument converted next need only not be a string, as `undefined` for the third argument of `callNative`
   (WX:400, then 418) or a number for the index of `callAddElement` (WX:467, then 488). `EnteredWithoutExternal`
   states the assertion. It holds under `Tame` only.
2. `unbound_queue_null` — where loads are reordered, `Dequeue` may follow a null `next` although
   `IsEmpty` said there is a record (unbound-queue.h:51).
3. `optimizing_thread_list` — with two closures of one literal and on-stack replacement, the worker
   marks a closure that has been optimised on the stack meanwhile; it is entered into the list of
   optimised functions a second time (optimizing-compiler-thread.cc:91, contexts.cc:262).
4. `threads_entry` — `Isolate::Exit` counts down the item on top of the entry stack, which may be that of
   another thread; a thread that has entered the isolate twice and was preempted meanwhile loses it at its first
   exit (isolate.cc:2271), against `include/v8.h`.

The second and the third finding concern code that is off by default (`--parallel_recompilation`), the fourth
embedders that use `Locker`.

Two remarks, which are not among the findings. A thread that opens a top-level `Locker` again, deeper or less deep in its
stack than before, runs with two limits: `InitThread` writes the computed one to the guard and to the roots of the heap, then
puts the stored one into the guard only (execution.cc:561-567, 368-381). heap.h:502-505 describes the copy in the roots as one that
generated code reads "because it is faster than loading from the static jslimit_/real_jslimit_ variable in the
StackGuard". The invariant `heapLimit = cur.guard.limit` has a counterexample of nine steps in the `threads` instance;
`LimitsMatch` asks for what does hold. `Runtime_StackGuard` looks at the guard, so the two may differ on whether the stack overflows, within
the thread's own stack. The other is the assertion in item 1, `EnteredWithoutExternal`, which in the `bridge` instance has
one of five.

## 6. What is not modelled

* Of the bridge: the copying of the options (WX:149-199) and of the arguments of `execJS` into V8
  (WX:242-275, where `JSON.parse` may throw), unknown function or namespace names, `JNI_OnLoad` and
  `JNI_OnUnload`, Java exceptions left pending by `CallIntMethod`. The pinned strings of WX:190, 191
  and 205 are never released, the global reference of WX:117 is overwritten by a second
  `initFramework`, `nativeLog` does not delete the message when the log class is missing (WX:573), and the
  inverted condition of WX:477 drops a string node: visible by reading, no property is about
  them. `ReportException` also reads the stack trace of the exception, which may be a
  getter; that conversion is left out.
* Of exceptions: messages, termination, verbose `TryCatch`, the debugger.
* Of the compiler thread: the compilation itself, `MarkForLazyRecompilation` and the %-natives, the collector
  clearing optimised code maps, the length of the delay, and that Init clears the flag for parallel
  recompilation after it started the thread where there is one processor (isolate.cc:2206).
* Of the threads: the archives of the debugger, the regexp stack, the bootstrapper and `Relocatable`, which
  move with the handles; the requests other than preemption and termination; `SetResourceConstraints`, which sets a stack limit by hand. A
  request to terminate the isolate between `RestoreThread`'s answer and the initialisation of the guard (v8threads.cc:79)
  is cleared with it: it is nobody's request, and the abstract specification allows it.
* Of marking: objects without pointers, maps, weak collections and caches, slots of code and of cells, the
  marker's speed, the generated `RecordWriteStub` (the barrier in generated code does what `RecordWriteSlow` does, inline), the store
  buffer (`Scavenge` looks at all old objects), sweeping.
* Of the global handles: object groups and implicit references, class ids, weak handles without a callback (ruled
  out by the assertion at 484), the answer whether the next collection is likely to free more. A remark, not a
  finding: `PostGarbageCollectionProcessing` of a full collection goes no further when a callback has only scavenged
  (global-handles.cc:657), and the nested round passes over the handles that are neither independent nor partially
  dependent. Those stay pending, and alive, until the next full collection; no line promises more.
* Of weak memory: everything but the one reordering of section 2.
* The rest of V8: most of the repository is compilers and code generators for four processors, inline caches, the JavaScript library,
  regular expressions, number conversion, a debugger. What makes them right is the meaning of JavaScript
  and of machine instructions, over data without bound; they share no state with another actor. They are
  marked `not_modelled` in `PROJECT.json`, each with its reason.

## 7. The plan

Done: the bridge with the delivery of exceptions (the program's own code), the handle scopes it relies
on, the queue and the compiler thread that uses it, the thread manager with the stack guard, incremental marking with the
collections around it, the global handles with their callbacks.

Next, in this order; a question that is added replaces a weaker one, the project staying at about a dozen runs:

1. The arguments of `execJS` and the options, in `WXBridge`.
2. `ExceptionDelivery`, an abstract specification (an exception goes to the newest handler, be it of
   JavaScript or of C++) that `WXBridge` implements when `Tame`.
3. `SamplingQueue`; the isolate's life cycle with `CallOnce`.

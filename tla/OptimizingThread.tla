-------------------------- MODULE OptimizingThread --------------------------
(***************************************************************************)
(* OptimizingCompilerThread: the main thread prepares functions for         *)
(* optimisation and queues them, the compiler thread (the worker)           *)
(* optimises them and queues them back, the main thread installs the code.  *)
(* What is between the two is the code field of the function, which both    *)
(* threads write: it holds the unoptimised code, the optimised code or one  *)
(* of three builtins that say how far the function has come.  The queues    *)
(* are those UnboundQueue implements, each operation one step here.         *)
(***************************************************************************)
EXTENDS Integers, Sequences, SequencesExt

CONSTANTS
  Function, Shared,  \* the closures, and what closures of one literal share
  SharedOf,          \* the SharedFunctionInfo of each closure
  NoFunction,
  QueueLength,       \* FLAG_parallel_recompilation_queue_length
  Delay,             \* FLAG_parallel_recompilation_delay is not zero
  HasLoops,          \* the shared code with back edges, which FLAG_use_osr
                     \* lets the profiler patch: empty when the flag is off
  MaxJobs            \* bound: jobs in the queues when one more is prepared

ASSUME SharedOfAssumption == SharedOf \in [Function -> Shared]
ASSUME NoFunctionAssumption == NoFunction \notin Function
ASSUME QueueLengthAssumption == QueueLength \in Nat /\ MaxJobs \in Nat
ASSUME FlagsAssumption == Delay \in BOOLEAN /\ HasLoops \subseteq Shared

Thread == {"main", "worker"}

VARIABLES
  code,                \* what the code field of each closure holds
  optimizedFunctions,  \* how often the context's list of optimised closures
                       \* has each
  disabled,            \* optimization_disabled
  patched,             \* the shared code whose back edges call for OSR
  cached,              \* the optimized code map has an entry
  input, output,       \* input_queue_ and output_queue_
  length,              \* queue_length_
  tokens,              \* input_queue_semaphore_
  stopThread,          \* stop_thread_
  stopTokens,          \* stop_semaphore_
  pc, fn               \* where each thread is, and the closure it works on

queues == <<input, output, length, tokens>>
functions == <<code, optimizedFunctions, disabled, patched, cached>>
stopping == <<stopThread, stopTokens>>
vars == <<functions, queues, stopping, pc, fn>>

Init ==
  /\ code = [f \in Function |-> "unoptimized"]
  /\ optimizedFunctions = [f \in Function |-> 0]
  /\ disabled = {} /\ patched = {} /\ cached = {}
  /\ input = <<>> /\ output = <<>> /\ length = 0 /\ tokens = 0
  /\ stopThread = FALSE /\ stopTokens = 0
  /\ pc = [t \in Thread |-> IF t = "main" THEN "js" ELSE "wait"]
  /\ fn = [t \in Thread |-> NoFunction]

Goto(t, where, f) ==
  /\ pc' = [pc EXCEPT ![t] = where]
  /\ fn' = [fn EXCEPT ![t] = f]

Step(t, from, to) == pc[t] = from /\ Goto(t, to, fn[t])

----------------------------------------------------------------------------
(* The code field.  ReplaceCode keeps the list of the context, the marks    *)
(* are stores and nothing else.                                             *)

IsOptimized(f) == code[f] = "optimized"

ReplaceCode(f, c) ==
  /\ code' = [code EXCEPT ![f] = c]
  /\ optimizedFunctions' = [optimizedFunctions EXCEPT ![f] =
       CASE ~IsOptimized(f) /\ c = "optimized" -> @ + 1
         [] IsOptimized(f) /\ c # "optimized"  -> @ - 1
         [] OTHER                              -> @]

Mark(f, builtin) ==
  /\ code' = [code EXCEPT ![f] = builtin]
  /\ UNCHANGED <<optimizedFunctions, disabled, patched, cached>>

----------------------------------------------------------------------------
(* Runtime_ParallelRecompile, which the first call of a marked function     *)
(* runs.  With a full queue it leaves everything as it is.                  *)

Calls(f) == pc["main"] = "js" /\ code[f] = "parallelRecompile"

RefusedAsDisabled(f) ==
  /\ Calls(f) /\ SharedOf[f] \in disabled
  /\ ReplaceCode(f, "unoptimized")
  /\ UNCHANGED <<disabled, patched, cached, queues, stopping, pc, fn>>

(* A queue that takes one job more than the flag says.                      *)
IsQueueAvailable_OneMore == length <= QueueLength

IsQueueAvailable == length < QueueLength

Recompiles(f) == Calls(f) /\ SharedOf[f] \notin disabled /\ IsQueueAvailable

FoundInCodeMap(f) ==
  /\ Recompiles(f) /\ SharedOf[f] \in cached
  /\ ReplaceCode(f, "optimized")
  /\ UNCHANGED <<disabled, patched, cached, queues, stopping, pc, fn>>

\* The stack checks as RecompileParallel leaves them.
Unpatched(f) == patched' = patched \ {SharedOf[f]}

(* The graph is not built: AbortOptimization disables the function, or the  *)
(* attempt to inline disables the callee.                                   *)
CreateGraphBailsOut(f) ==
  /\ Recompiles(f) /\ SharedOf[f] \notin cached
  /\ ReplaceCode(f, "unoptimized")
  /\ \E s \in Shared : disabled' \in {disabled, disabled \cup {s}}
  /\ Unpatched(f)
  /\ UNCHANGED <<cached, queues, stopping, pc, fn>>

CreateGraphFails(f) ==
  /\ Recompiles(f) /\ SharedOf[f] \notin cached
  /\ Unpatched(f)
  /\ UNCHANGED <<code, optimizedFunctions, disabled, cached, queues, stopping, pc, fn>>

CreateGraph(f) ==
  /\ Recompiles(f) /\ SharedOf[f] \notin cached
  /\ Len(input) + Len(output) < MaxJobs
  /\ Goto("main", "increment", f)
  /\ UNCHANGED <<functions, queues, stopping>>

(* QueueForOptimization.                                                    *)
IncrementLength ==
  /\ Step("main", "increment", "markInQueue")
  /\ length' = length + 1
  /\ UNCHANGED <<functions, input, output, tokens, stopping>>

MarkInRecompileQueue ==
  /\ Step("main", "markInQueue", "enqueue")
  /\ Mark(fn["main"], "inRecompileQueue")
  /\ UNCHANGED <<queues, stopping>>

EnqueueInput ==
  /\ Step("main", "enqueue", "signal")
  /\ input' = Append(input, fn["main"])
  /\ UNCHANGED <<functions, output, length, tokens, stopping>>

SignalInput ==
  /\ Step("main", "signal", "unpatch")
  /\ tokens' = tokens + 1
  /\ UNCHANGED <<functions, input, output, length, stopping>>

(* A RecompileParallel that marks the function only here, after the worker    *)
(* may have marked it.                                                      *)
RevertStackCheck_MarksLate ==
  /\ pc["main"] = "unpatch"
  /\ Unpatched(fn["main"])
  /\ code' = [code EXCEPT ![fn["main"]] = "inRecompileQueue"]
  /\ Goto("main", "js", NoFunction)
  /\ UNCHANGED <<optimizedFunctions, disabled, cached, queues, stopping>>

(* A RecompileParallel that leaves the back edges patched.                    *)
RevertStackCheck_Keeps ==
  /\ pc["main"] = "unpatch"
  /\ Goto("main", "js", NoFunction)
  /\ UNCHANGED <<functions, queues, stopping>>

RevertStackCheck ==
  /\ pc["main"] = "unpatch"
  /\ Unpatched(fn["main"])
  /\ Goto("main", "js", NoFunction)
  /\ UNCHANGED <<code, optimizedFunctions, disabled, cached, queues, stopping>>

----------------------------------------------------------------------------
(* CompileNext, by the worker or, at the end, by the main thread.           *)

DequeueInput(t) ==
  /\ pc[t] = "dequeue" /\ input # <<>>
  /\ Goto(t, "decrement", Head(input))
  /\ input' = Tail(input)
  /\ UNCHANGED <<functions, output, length, tokens, stopping>>

DecrementLength(t) ==
  /\ Step(t, "decrement", "markForInstalling")
  /\ length' = length - 1
  /\ UNCHANGED <<functions, input, output, tokens, stopping>>

MarkForInstalling(t) ==
  /\ Step(t, "markForInstalling", "enqueueOutput")
  /\ Mark(fn[t], "installRecompiledCode")
  /\ UNCHANGED <<queues, stopping>>

(* Stop's loop without the installation after each job.                     *)
EnqueueOutput_NotInstalled(t) ==
  /\ pc[t] = "enqueueOutput"
  /\ output' = Append(output, fn[t])
  /\ Goto(t, IF t = "worker" THEN "wait" ELSE "drain", NoFunction)
  /\ UNCHANGED <<functions, input, length, tokens, stopping>>

EnqueueOutput(t) ==
  /\ pc[t] = "enqueueOutput"
  /\ output' = Append(output, fn[t])
  /\ Goto(t, IF t = "worker" THEN "wait" ELSE "drainInstalls", NoFunction)
  /\ UNCHANGED <<functions, input, length, tokens, stopping>>

CompileNext(t) ==
  \/ DequeueInput(t) \/ DecrementLength(t) \/ MarkForInstalling(t) \/ EnqueueOutput(t)

(* Run.                                                                     *)
WaitForInput ==
  /\ Step("worker", "wait", "checkStop") /\ tokens > 0
  /\ tokens' = tokens - 1
  /\ UNCHANGED <<functions, input, output, length, stopping>>

(* A worker that takes every signal for a job.                              *)
CheckStop_Ignores ==
  /\ Step("worker", "checkStop", "dequeue")
  /\ UNCHANGED <<functions, queues, stopping>>

CheckStop ==
  /\ IF stopThread
       THEN Step("worker", "checkStop", "gone") /\ stopTokens' = stopTokens + 1
       ELSE Step("worker", "checkStop", "dequeue") /\ UNCHANGED stopTokens
  /\ UNCHANGED <<functions, queues, stopThread>>

Worker == WaitForInput \/ CheckStop \/ CompileNext("worker")

----------------------------------------------------------------------------
(* InstallOptimizedFunctions, called by the profiler, by the call of a      *)
(* function marked for installing, and by Stop.                             *)

Installing == pc["main"] \in {"profileInstalls", "callInstalls", "drainInstalls"}

(* Compiler::InstallOptimizedCode that gives up a disabled function without *)
(* giving it its unoptimised code back.                                     *)
InstallOptimizedCode_Forgets(f) ==
  \/ /\ SharedOf[f] \in disabled
     /\ UNCHANGED <<code, optimizedFunctions, disabled, cached>>
  \/ /\ SharedOf[f] \notin disabled
     /\ ReplaceCode(f, "optimized")
     /\ cached' = cached \cup {SharedOf[f]}
     /\ UNCHANGED disabled

(* It was disabled meanwhile, it is installed, or the optimisation failed.  *)
InstallOptimizedCode(f) ==
  \/ /\ SharedOf[f] \in disabled
     /\ ReplaceCode(f, "unoptimized")
     /\ UNCHANGED <<disabled, cached>>
  \/ /\ SharedOf[f] \notin disabled
     /\ ReplaceCode(f, "optimized")
     /\ cached' = cached \cup {SharedOf[f]}
     /\ UNCHANGED disabled
  \/ /\ SharedOf[f] \notin disabled
     /\ ReplaceCode(f, "unoptimized")
     /\ disabled' = disabled \cup {SharedOf[f]}
     /\ UNCHANGED cached

InstallNext ==
  /\ Installing /\ output # <<>>
  /\ InstallOptimizedCode(Head(output))
  /\ output' = Tail(output)
  /\ UNCHANGED <<patched, input, length, tokens, stopping, pc, fn>>

InstalledAll(from, to) ==
  /\ output = <<>>
  /\ Step("main", from, to)
  /\ UNCHANGED <<functions, queues, stopping>>

(* Runtime_InstallRecompiledCode: the do loop, and its condition.           *)
CallMarkedForInstalling(f) ==
  /\ pc["main"] = "js" /\ code[f] = "installRecompiledCode"
  /\ Goto("main", "callInstalls", f)
  /\ UNCHANGED <<functions, queues, stopping>>

RetryInstall ==
  /\ pc["main"] = "callCheck"
  /\ IF code[fn["main"]] = "installRecompiledCode"
       THEN Step("main", "callCheck", "callInstalls")
       ELSE Goto("main", "js", NoFunction)
  /\ UNCHANGED <<functions, queues, stopping>>

----------------------------------------------------------------------------
(* RuntimeProfiler::OptimizeNow.                                            *)

Tick ==
  /\ Step("main", "js", "profileInstalls")
  /\ UNCHANGED <<functions, queues, stopping>>

(* f runs unoptimised code on the stack although it has long been marked.   *)
AttemptOnStackReplacement(f) ==
  /\ pc["main"] = "profile" /\ SharedOf[f] \in HasLoops
  /\ code[f] \in {"parallelRecompile", "optimized"} /\ SharedOf[f] \notin disabled
  /\ patched' = patched \cup {SharedOf[f]}
  /\ UNCHANGED <<code, optimizedFunctions, disabled, cached, queues, stopping, pc, fn>>

TryReenableOptimization(f) ==
  /\ pc["main"] = "profile"
  /\ code[f] # "inRecompileQueue" /\ SharedOf[f] \in disabled
  /\ disabled' = disabled \ {SharedOf[f]}
  /\ UNCHANGED <<code, optimizedFunctions, patched, cached, queues, stopping, pc, fn>>

IsOptimizable(f) == code[f] = "unoptimized" /\ SharedOf[f] \notin disabled

Optimize(f) ==
  /\ pc["main"] = "profile" /\ IsOptimizable(f)
  /\ Goto("main", "markForRecompilation", f)
  /\ UNCHANGED <<functions, queues, stopping>>

MarkForParallelRecompilation ==
  /\ pc["main"] = "markForRecompilation"
  /\ Mark(fn["main"], "parallelRecompile")
  /\ Goto("main", "profile", NoFunction)
  /\ UNCHANGED <<queues, stopping>>

ProfileEnds ==
  /\ Step("main", "profile", "js")
  /\ UNCHANGED <<functions, queues, stopping>>

----------------------------------------------------------------------------
(* On-stack replacement at a patched back edge of unoptimised code, and     *)
(* deoptimisation.                                                          *)

CompileForOnStackReplacement(f) ==
  /\ pc["main"] = "js" /\ SharedOf[f] \in patched
  /\ \/ /\ SharedOf[f] \notin disabled
        /\ ReplaceCode(f, "optimized")
        /\ UNCHANGED disabled
     \/ /\ SharedOf[f] \notin disabled
        /\ ReplaceCode(f, "unoptimized")
        /\ disabled' = disabled \cup {SharedOf[f]}
     \/ UNCHANGED <<code, optimizedFunctions, disabled>>
  /\ Unpatched(f)
  /\ UNCHANGED <<cached, queues, stopping, pc, fn>>

(* Deoptimize that takes only one of the closures off the list.             *)
Deoptimize_One(f, fs) ==
  /\ pc["main"] = "js"
  /\ f \in fs /\ \A g \in fs : IsOptimized(g) /\ SharedOf[g] = SharedOf[f]
  /\ code' = [g \in Function |-> IF g \in fs THEN "unoptimized" ELSE code[g]]
  /\ optimizedFunctions' = [optimizedFunctions EXCEPT ![f] = 0]
  /\ cached' = cached \ {SharedOf[f]}
  /\ UNCHANGED <<disabled, patched, queues, stopping, pc, fn>>

(* fs are f and the closures that run the same optimised code.              *)
Deoptimize(f, fs) ==
  /\ pc["main"] = "js"
  /\ f \in fs /\ \A g \in fs : IsOptimized(g) /\ SharedOf[g] = SharedOf[f]
  /\ code' = [g \in Function |-> IF g \in fs THEN "unoptimized" ELSE code[g]]
  /\ optimizedFunctions' = [g \in Function |-> IF g \in fs THEN 0 ELSE optimizedFunctions[g]]
  /\ cached' = cached \ {SharedOf[f]}
  /\ UNCHANGED <<disabled, patched, queues, stopping, pc, fn>>

----------------------------------------------------------------------------
(* Stop, when the isolate is torn down.                                     *)

StoreStop ==
  /\ Step("main", "js", "stopSignals")
  /\ stopThread' = TRUE
  /\ UNCHANGED <<functions, queues, stopTokens>>

(* Stop without the signal that wakes a worker that has nothing to do.      *)
SignalStop_NoSignal ==
  /\ Step("main", "stopSignals", "stopWaits")
  /\ UNCHANGED <<functions, queues, stopping>>

SignalStop ==
  /\ Step("main", "stopSignals", "stopWaits")
  /\ tokens' = tokens + 1
  /\ UNCHANGED <<functions, input, output, length, stopping>>

WaitForWorker ==
  /\ Step("main", "stopWaits", IF Delay THEN "drainInstalls" ELSE "stopped")
  /\ stopTokens > 0
  /\ stopTokens' = stopTokens - 1
  /\ UNCHANGED <<functions, queues, stopThread>>

Drain ==
  /\ Step("main", "drain", IF length > 0 THEN "dequeue" ELSE "stopped")
  /\ UNCHANGED <<functions, queues, stopping>>

----------------------------------------------------------------------------
Queueing == IncrementLength \/ MarkInRecompileQueue \/ EnqueueInput \/ SignalInput \/ RevertStackCheck

\* The steps of the main thread that follow from what it has begun.
MainContinues ==
  \/ Queueing
  \/ InstallNext
  \/ InstalledAll("profileInstalls", "profile")
  \/ InstalledAll("callInstalls", "callCheck")
  \/ InstalledAll("drainInstalls", "drain")
  \/ RetryInstall
  \/ MarkForParallelRecompilation
  \/ SignalStop \/ WaitForWorker \/ Drain \/ CompileNext("main")

\* Those the scripts, the ticks and the owner of the isolate decide on.
MainBegins ==
  \/ \E f \in Function :
       \/ RefusedAsDisabled(f) \/ FoundInCodeMap(f)
       \/ CreateGraphBailsOut(f) \/ CreateGraphFails(f) \/ CreateGraph(f)
       \/ CallMarkedForInstalling(f)
       \/ AttemptOnStackReplacement(f) \/ TryReenableOptimization(f) \/ Optimize(f)
       \/ CompileForOnStackReplacement(f)
       \/ \E fs \in SUBSET Function : Deoptimize(f, fs)
  \/ Tick \/ ProfileEnds \/ StoreStop

Next == MainContinues \/ MainBegins \/ Worker

Spec == Init /\ [][Next]_vars

(* Both threads run; nothing says which scripts they run, nor that the      *)
(* isolate is torn down.                                                    *)
FairSpec == Spec /\ WF_vars(MainContinues) /\ WF_vars(Worker)

----------------------------------------------------------------------------
At(t, places) == pc[t] \in places

One(b) == IF b THEN 1 ELSE 0

(* The code fields, the queues and the counters have the types the code     *)
(* gives them, and queue_length_ never passes the flag, although the main   *)
(* thread reads it without a barrier (IsQueueAvailable).                    *)
TypeOK ==
  /\ code \in [Function -> {"unoptimized", "parallelRecompile", "inRecompileQueue",
                            "installRecompiledCode", "optimized"}]
  /\ optimizedFunctions \in [Function -> Nat]
  /\ {disabled, patched, cached} \subseteq SUBSET Shared
  /\ input \in Seq(Function) /\ output \in Seq(Function)
  /\ length \in 0..QueueLength
  /\ tokens \in Nat /\ stopTokens \in 0..1 /\ stopThread \in BOOLEAN
  /\ pc["worker"] \in {"wait", "checkStop", "dequeue", "decrement", "markForInstalling",
                       "enqueueOutput", "gone"}
  /\ pc["main"] \in {"js", "increment", "markInQueue", "enqueue", "signal", "unpatch",
                     "profileInstalls", "profile", "markForRecompilation",
                     "callInstalls", "callCheck", "stopSignals", "stopWaits",
                     "drainInstalls", "drain", "dequeue", "decrement",
                     "markForInstalling", "enqueueOutput", "stopped"}
  /\ fn \in [Thread -> Function \cup {NoFunction}]

(* Each Dequeue of the input queue finds a job: the worker's, which the     *)
(* semaphore counts for it and the signal of Stop does not (CompileNext     *)
(* does not ask IsEmpty), and the main thread's, which goes by              *)
(* queue_length_ (Stop).                                                    *)
DequeueFindsJob == \A t \in Thread : At(t, {"dequeue"}) => input # <<>>

(* A function that says it is in the queue has a job that will change that: *)
(* the profiler would never look at it again (OptimizeNow).  One marked for *)
(* installing has a job that is in the output queue or about to be:         *)
(* Runtime_InstallRecompiledCode waits for it.                              *)
WaitersHaveJobs ==
  \A f \in Function :
    /\ code[f] = "inRecompileQueue" =>
         \/ f \in ToSet(input)
         \/ fn["main"] = f /\ At("main", {"enqueue"})
         \/ \E t \in Thread : fn[t] = f /\ At(t, {"decrement", "markForInstalling"})
    /\ code[f] = "installRecompiledCode" =>
         \/ f \in ToSet(output)
         \/ \E t \in Thread : fn[t] = f /\ At(t, {"enqueueOutput"})

(* The list of the native context holds the closures that run optimised     *)
(* code (ReplaceCode, RemoveOptimizedFunction).                             *)
ListIsExact == \A f \in Function : optimizedFunctions[f] > 0 <=> IsOptimized(f)

(* No closure is entered that is on the list: the list is linked through a  *)
(* field of the closures, so that a second entry would close a cycle        *)
(* (AddOptimizedFunction).                                                  *)
ListedOnce == \A f \in Function : optimizedFunctions[f] <= 1

(* What the mark functions assert: a function about to be marked, by either *)
(* thread, is not running optimised code (MarkForInstallingRecompiledCode,  *)
(* MarkInRecompileQueue, MarkForParallelRecompilation).                     *)
MarksUnoptimized ==
  \A t \in Thread :
    At(t, {"markForRecompilation", "markInQueue", "markForInstalling"}) => ~IsOptimized(fn[t])

(* With a delay, Stop leaves no job behind and no function waiting for one, *)
(* although the worker may have stopped with jobs in its queue (Stop).      *)
DrainedAtStop ==
  Delay /\ At("main", {"stopped"}) =>
    /\ input = <<>> /\ output = <<>> /\ length = 0
    /\ \A f \in Function : code[f] \notin {"inRecompileQueue", "installRecompiledCode"}

(* The loop of Runtime_InstallRecompiledCode ends.                          *)
CallEnds == At("main", {"callInstalls", "callCheck"}) ~> At("main", {"js"})

(* Stop ends, whatever the worker is doing when it is called.               *)
StopEnds == At("main", {"stopSignals"}) ~> At("main", {"stopped"})
=============================================================================

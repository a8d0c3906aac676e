------------------------ MODULE OptimizingThread_proofs ------------------------
(***************************************************************************)
(* Proofs about OptimizingThread: types, the counters, that no job and no   *)
(* waiting function is lost, for any functions, queue length and flags; and *)
(* that marks and list are right as long as closures of one literal do not  *)
(* share code with loops.                                                   *)
(***************************************************************************)
EXTENDS OptimizingThread, SequenceTheorems, TLAPS

----------------------------------------------------------------------------
(* The invariant.                                                           *)

Codes == {"unoptimized", "parallelRecompile", "inRecompileQueue", "installRecompiledCode",
          "optimized"}

Data ==
  /\ code \in [Function -> Codes] /\ optimizedFunctions \in [Function -> Nat]
  /\ disabled \in SUBSET Shared /\ patched \in SUBSET Shared /\ cached \in SUBSET Shared
  /\ input \in Seq(Function) /\ output \in Seq(Function)
  /\ length \in Int /\ tokens \in Nat /\ stopTokens \in Int /\ stopThread \in BOOLEAN

\* What runs optimised code is on the list at least once.
Listed == \A f \in Function : IsOptimized(f) => optimizedFunctions[f] > 0

MainPlaces == {"js", "increment", "markInQueue", "enqueue", "signal", "unpatch", "profileInstalls",
               "profile", "markForRecompilation", "callInstalls", "callCheck", "stopSignals",
               "stopWaits", "drainInstalls", "drain", "dequeue", "decrement", "markForInstalling",
               "enqueueOutput", "stopped"}
WorkerPlaces == {"wait", "checkStop", "dequeue", "decrement", "markForInstalling",
                 "enqueueOutput", "gone"}

\* Where the main thread is inside Stop, and where in its loop.
Draining == {"drain", "dequeue", "decrement", "markForInstalling", "enqueueOutput"}
Stopping == {"stopSignals", "stopWaits", "drainInstalls", "stopped"} \cup Draining

\* Where a thread has a closure in its hands.
Holding == {"increment", "markInQueue", "enqueue", "signal", "unpatch", "markForRecompilation",
            "callInstalls", "callCheck", "decrement", "markForInstalling", "enqueueOutput"}

Places ==
  /\ pc \in [Thread -> MainPlaces \cup WorkerPlaces]
  /\ pc["main"] \in MainPlaces /\ pc["worker"] \in WorkerPlaces
  /\ fn \in [Thread -> Function \cup {NoFunction}]
  /\ \A t \in Thread : pc[t] \in Holding => fn[t] \in Function

\* queue_length_ counts the jobs in the queue, those on the way in once the main thread has
\* counted them, and those on the way out until they are counted off.
LengthOK ==
  /\ length = Len(input) + One(At("main", {"markInQueue", "enqueue"}))
                         + One(At("main", {"decrement"})) + One(At("worker", {"decrement"}))
  /\ length <= QueueLength
  /\ At("main", {"increment"}) => length < QueueLength

\* Until the worker is gone there is a token for each job, but for the one that it has taken and
\* the one that the main thread is about to give, and one for the signal of Stop. A worker that
\* goes for a job has not taken Stop's.
TokensOK ==
  /\ ~At("worker", {"gone"}) =>
       tokens + One(At("worker", {"checkStop", "dequeue"})) + One(At("main", {"signal"}))
         = Len(input) + One(At("main", {"stopWaits"}))
  /\ At("worker", {"dequeue"}) /\ At("main", {"stopWaits"}) => tokens > 0

\* Stop: who has been told, who is gone, and what is left of the queues.
StopOK ==
  /\ stopThread <=> At("main", Stopping)
  /\ At("worker", {"gone"}) => stopThread
  /\ stopTokens = One(At("worker", {"gone"}) /\ At("main", {"stopSignals", "stopWaits"}))
  /\ At("main", Stopping \ {"stopSignals", "stopWaits"}) => At("worker", {"gone"})
  /\ At("main", Draining) => output = <<>>
  /\ At("main", {"dequeue"}) => length > 0
  /\ Delay /\ At("main", {"stopped"}) => output = <<>> /\ length = 0

IInv == Data /\ Listed /\ Places /\ LengthOK /\ TokensOK /\ StopOK /\ WaitersHaveJobs

----------------------------------------------------------------------------
(* The invariant for closures that do not share code with loops.            *)

\* On-stack replacement, which patches the code a literal's closures share, is for code that one
\* closure runs. With --no-use-osr no code is patched (HasLoops).
LoopsOfOneClosure ==
  \A f, g \in Function : SharedOf[f] = SharedOf[g] /\ SharedOf[f] \in HasLoops => f = g

NotIn(f, queue) == \A i \in 1..Len(queue) : queue[i] # f
EachOnce(queue) == \A i, j \in 1..Len(queue) : queue[i] = queue[j] => i = j

\* Every closure has one job, and its code field says where that is: in a queue,
QueuesOK ==
  /\ EachOnce(input) /\ EachOnce(output)
  /\ \A i \in 1..Len(input) : code[input[i]] = "inRecompileQueue"
  /\ \A i \in 1..Len(output) : code[output[i]] = "installRecompiledCode"

\* with a thread that optimises it,
JobsOK ==
  \A t \in Thread :
    /\ At(t, {"decrement", "markForInstalling"}) =>
         code[fn[t]] = "inRecompileQueue" /\ NotIn(fn[t], input)
    /\ At(t, {"enqueueOutput"}) =>
         code[fn[t]] = "installRecompiledCode" /\ NotIn(fn[t], output)

\* or with the main thread, which prepares it.
MainOK ==
  /\ At("main", {"markForRecompilation"}) => code[fn["main"]] = "unoptimized"
  /\ At("main", {"increment", "markInQueue"}) => code[fn["main"]] = "parallelRecompile"
  /\ At("main", {"enqueue"}) =>
       /\ code[fn["main"]] = "inRecompileQueue" /\ NotIn(fn["main"], input)
       /\ At("worker", {"decrement", "markForInstalling"}) => fn["worker"] # fn["main"]

Pending(f) == code[f] \in {"inRecompileQueue", "installRecompiledCode"}

\* Code that is patched has no job, once RecompileParallel has reverted its stack checks.
PatchesOK ==
  /\ patched \subseteq HasLoops
  /\ \A f \in Function :
       Pending(f) /\ SharedOf[f] \in patched =>
         fn["main"] = f /\ At("main", {"enqueue", "signal", "unpatch"})

ListOK == \A f \in Function : optimizedFunctions[f] = One(IsOptimized(f))

Alone == QueuesOK /\ JobsOK /\ MainOK /\ PatchesOK /\ ListOK

----------------------------------------------------------------------------
(* Sequences.                                                               *)

\* What is in a queue, by its positions.
LEMMA InQueue ==
  ASSUME NEW s \in Seq(Function), NEW f
  PROVE  f \in ToSet(s) <=> \E i \in 1..Len(s) : s[i] = f
BY DEF ToSet

\* A job is appended.
LEMMA Appended ==
  ASSUME NEW s \in Seq(Function), NEW f \in Function
  PROVE  /\ Append(s, f) \in Seq(Function) /\ Len(Append(s, f)) = Len(s) + 1
         /\ \A i \in 1..Len(s) : Append(s, f)[i] = s[i]
         /\ Append(s, f)[Len(s) + 1] = f
         /\ ToSet(Append(s, f)) = ToSet(s) \cup {f}
<1>1. /\ Append(s, f) \in Seq(Function) /\ Len(Append(s, f)) = Len(s) + 1 /\ Len(s) \in Nat
      /\ \A i \in 1..Len(s) : Append(s, f)[i] = s[i]
      /\ Append(s, f)[Len(s) + 1] = f
  OBVIOUS
<1>2. ASSUME NEW g PROVE g \in ToSet(Append(s, f)) <=> g \in ToSet(s) \/ g = f
  <2>0. ASSUME NEW q \in Seq(Function), NEW m, Len(q) = m
        PROVE  g \in ToSet(q) <=> \E i \in 1..m : q[i] = g
    BY <2>0, InQueue
  <2>1. g \in ToSet(Append(s, f)) <=> \E i \in 1..(Len(s) + 1) : Append(s, f)[i] = g
    BY <1>1, <2>0, Zenon
  <2>2. g \in ToSet(s) <=> \E i \in 1..Len(s) : s[i] = g
    BY InQueue
  <2> DEFINE n == Len(s)
             q == Append(s, f)
  <2>3. n \in Nat /\ (\A i \in 1..n : q[i] = s[i]) /\ q[n + 1] = f
    BY <1>1
  <2> HIDE DEF n, q
  <2>4. (\E i \in 1..(n + 1) : q[i] = g) <=> (\E i \in 1..n : s[i] = g) \/ g = f
    BY <2>3
  <2> QED BY <2>1, <2>2, <2>4 DEF n, q
<1> QED BY <1>1, <1>2

\* The oldest job is taken.
LEMMA Taken ==
  ASSUME NEW s \in Seq(Function), s # <<>>
  PROVE  /\ Tail(s) \in Seq(Function) /\ Len(Tail(s)) = Len(s) - 1 /\ Len(s) \in Nat \ {0}
         /\ Head(s) = s[1] /\ Head(s) \in Function
         /\ \A i \in 1..(Len(s) - 1) : Tail(s)[i] = s[i + 1]
         /\ ToSet(s) = ToSet(Tail(s)) \cup {Head(s)}
<1>1. /\ Tail(s) \in Seq(Function) /\ Len(Tail(s)) = Len(s) - 1 /\ Len(s) \in Nat \ {0}
      /\ Head(s) = s[1] /\ Head(s) \in Function
      /\ \A i \in 1..(Len(s) - 1) : Tail(s)[i] = s[i + 1]
  OBVIOUS
<1>2. ASSUME NEW g PROVE g \in ToSet(s) <=> g \in ToSet(Tail(s)) \/ g = Head(s)
  <2>0. ASSUME NEW q \in Seq(Function), NEW m, Len(q) = m
        PROVE  g \in ToSet(q) <=> \E i \in 1..m : q[i] = g
    BY <2>0, InQueue
  <2>1. g \in ToSet(Tail(s)) <=> \E i \in 1..(Len(s) - 1) : Tail(s)[i] = g
    BY <1>1, <2>0, Zenon
  <2>2. g \in ToSet(s) <=> \E i \in 1..Len(s) : s[i] = g
    BY InQueue
  <2> DEFINE n == Len(s)
             q == Tail(s)
             h == Head(s)
  <2>3. n \in Nat \ {0} /\ (\A i \in 1..(n - 1) : q[i] = s[i + 1]) /\ h = s[1]
    BY <1>1
  <2> HIDE DEF n, q, h
  <2>4. (\E i \in 1..(n - 1) : q[i] = g) <=> (\E i \in 1..(n - 1) : s[i + 1] = g)
    BY <2>3
  <2>5. (\E i \in 1..n : s[i] = g) <=> (\E i \in 1..(n - 1) : s[i + 1] = g) \/ s[1] = g
    <3>1. ASSUME NEW i \in 1..n, s[i] = g, i # 1 PROVE \E j \in 1..(n - 1) : s[j + 1] = g
      <4>1. i - 1 \in 1..(n - 1) /\ s[(i - 1) + 1] = g
        BY <2>3, <3>1
      <4> QED BY <4>1
    <3>2. ASSUME NEW i \in 1..(n - 1), s[i + 1] = g PROVE \E j \in 1..n : s[j] = g
      <4>1. i + 1 \in 1..n
        BY <2>3
      <4> QED BY <3>2, <4>1
    <3>3. 1 \in 1..n
      BY <2>3
    <3> QED BY <3>1, <3>2, <3>3
  <2> QED BY <2>1, <2>2, <2>3, <2>4, <2>5 DEF n, q, h
<1> QED BY <1>1, <1>2
----------------------------------------------------------------------------
(* Steps of a kind.                                                         *)

\* The main thread changes what the code fields hold, and marks nothing as a job.
LEMMA CodeStep ==
  ASSUME IInv, UNCHANGED <<queues, stopping, pc, fn>>,
         code' \in [Function -> Codes], optimizedFunctions' \in [Function -> Nat],
         (disabled \in SUBSET Shared /\ patched \in SUBSET Shared /\ cached \in SUBSET Shared)',
         Listed', \A f \in Function : code'[f] = code[f] \/ ~Pending(f)'
  PROVE  IInv'
<1> USE DEF IInv
<1>1. /\ input' = input /\ output' = output /\ length' = length /\ tokens' = tokens
      /\ stopThread' = stopThread /\ stopTokens' = stopTokens /\ pc' = pc /\ fn' = fn
  BY DEF queues, stopping
<1>2. Data'
  BY <1>1 DEF Data
<1>3. (Places /\ LengthOK /\ TokensOK /\ StopOK)'
  BY <1>1 DEF Places, LengthOK, TokensOK, StopOK, At, One
<1>4. WaitersHaveJobs'
  BY <1>1 DEF WaitersHaveJobs, At, Pending
<1> QED BY <1>2, <1>3, <1>4

\* The same where each closure has one job: none that has one is touched, and none patched.
LEMMA CodeStepAlone ==
  ASSUME IInv, Alone, UNCHANGED <<queues, stopping, pc, fn>>, pc["main"] \in {"js", "profile"},
         \A f \in Function : code'[f] = code[f] \/ (~Pending(f) /\ ~Pending(f)'),
         \A f \in Function : Pending(f) => SharedOf[f] \notin patched',
         patched' \subseteq HasLoops, ListOK'
  PROVE  Alone'
<1> USE DEF Alone
<1>1. /\ input' = input /\ output' = output /\ pc' = pc /\ fn' = fn
      /\ input \in Seq(Function) /\ output \in Seq(Function)
  BY DEF queues, stopping, IInv, Data
<1>2. QueuesOK'
  BY <1>1 DEF QueuesOK, EachOnce, Pending
<1>3. JobsOK'
  <2>1. ASSUME NEW t \in Thread, At(t, {"decrement", "markForInstalling", "enqueueOutput"})
        PROVE  fn[t] \in Function
    BY <2>1 DEF IInv, Places, Holding, At
  <2> QED BY <1>1, <2>1 DEF JobsOK, NotIn, Pending, At
<1>4. MainOK'
  BY <1>1 DEF MainOK, At
<1>5. PatchesOK'
  BY DEF PatchesOK, Pending
<1> QED BY <1>2, <1>3, <1>4, <1>5

\* Where the main thread is neither in the queue nor in Stop.
Quiet == {"js", "increment", "profileInstalls", "profile", "markForRecompilation",
          "callInstalls", "callCheck"}

\* The main thread goes from one such place to another.
LEMMA QuietStep ==
  ASSUME IInv, UNCHANGED <<functions, queues, stopping>>, pc["main"] \in Quiet,
         NEW where \in Quiet, NEW f, Goto("main", where, f),
         f \in Function \/ (f = NoFunction /\ where \notin Holding),
         where = "increment" => length < QueueLength
  PROVE  IInv'
<1> USE DEF IInv
<1>1. /\ input' = input /\ output' = output /\ length' = length /\ tokens' = tokens
      /\ stopThread' = stopThread /\ stopTokens' = stopTokens
      /\ code' = code /\ optimizedFunctions' = optimizedFunctions
      /\ disabled' = disabled /\ patched' = patched /\ cached' = cached
  BY DEF queues, stopping, functions
<1>2. /\ pc'["main"] = where /\ pc'["worker"] = pc["worker"]
      /\ fn'["main"] = f /\ fn'["worker"] = fn["worker"]
      /\ pc' \in [Thread -> MainPlaces \cup WorkerPlaces]
      /\ fn' \in [Thread -> Function \cup {NoFunction}]
  BY DEF Goto, Places, Thread, MainPlaces, Quiet
<1>3. (Data /\ Listed)'
  BY <1>1 DEF Data, Listed, IsOptimized
<1>4. Places'
  BY <1>2 DEF Places, Quiet, MainPlaces, Holding, Thread
<1>5. (LengthOK /\ TokensOK /\ StopOK)'
  BY <1>1, <1>2 DEF LengthOK, TokensOK, StopOK, At, One, Quiet, Stopping, Draining
<1>6. WaitersHaveJobs'
  BY <1>1, <1>2 DEF WaitersHaveJobs, At, Quiet, Thread
<1> QED BY <1>3, <1>4, <1>5, <1>6

\* The same where each closure has one job.
LEMMA QuietStepAlone ==
  ASSUME IInv, Alone, UNCHANGED <<functions, queues, stopping>>, pc["main"] \in Quiet,
         NEW where \in Quiet, NEW f, Goto("main", where, f),
         where = "markForRecompilation" => code[f] = "unoptimized",
         where = "increment" => code[f] = "parallelRecompile"
  PROVE  Alone'
<1> USE DEF Alone
<1>1. /\ input' = input /\ output' = output
      /\ code' = code /\ optimizedFunctions' = optimizedFunctions /\ patched' = patched
  BY DEF queues, functions
<1>2. /\ pc'["main"] = where /\ pc'["worker"] = pc["worker"]
      /\ fn'["main"] = f /\ fn'["worker"] = fn["worker"]
  BY DEF Goto, IInv, Places, Thread
<1>3. (QueuesOK /\ ListOK)'
  BY <1>1 DEF QueuesOK, EachOnce, ListOK, One, IsOptimized
<1>4. JobsOK'
  BY <1>1, <1>2 DEF JobsOK, NotIn, At, Thread, Quiet
<1>5. MainOK'
  BY <1>1, <1>2 DEF MainOK, At, Quiet
<1>6. PatchesOK'
  BY <1>1, <1>2 DEF PatchesOK, Pending, At, Quiet
<1> QED BY <1>3, <1>4, <1>5, <1>6

----------------------------------------------------------------------------
(* What the main thread does with code fields.                              *)

\* ReplaceCode keeps the list: what runs optimised code is on it, and where each closure is on it
\* once or not at all, that stays so.
LEMMA Replaced ==
  ASSUME Data, Listed, NEW f \in Function, NEW c \in {"unoptimized", "optimized"},
         ReplaceCode(f, c)
  PROVE  /\ code' \in [Function -> Codes] /\ optimizedFunctions' \in [Function -> Nat]
         /\ code'[f] = c /\ \A g \in Function : g # f => code'[g] = code[g]
         /\ Listed' /\ (ListOK => ListOK')
<1> USE DEF ReplaceCode, Data, Listed, IsOptimized, Codes
<1>1. /\ code' \in [Function -> Codes]
      /\ code'[f] = c /\ \A g \in Function : g # f => code'[g] = code[g]
  OBVIOUS
<1>2. \A g \in Function : g # f => optimizedFunctions'[g] = optimizedFunctions[g]
  OBVIOUS
<1>3. optimizedFunctions[f] \in Nat
  OBVIOUS
<1>4. CASE code[f] # "optimized" /\ c = "optimized"
  <2>1. optimizedFunctions' = [optimizedFunctions EXCEPT ![f] = @ + 1]
    BY <1>4
  <2> QED BY <1>1, <1>2, <1>3, <1>4, <2>1 DEF ListOK, One
<1>5. CASE code[f] = "optimized" /\ c # "optimized"
  <2>1. optimizedFunctions' = [optimizedFunctions EXCEPT ![f] = @ - 1] /\ optimizedFunctions[f] > 0
    BY <1>5
  <2> QED BY <1>1, <1>2, <1>3, <1>5, <2>1 DEF ListOK, One
<1>6. CASE (code[f] = "optimized") = (c = "optimized")
  <2>1. optimizedFunctions' = optimizedFunctions
    BY <1>6
  <2> QED BY <1>1, <1>2, <1>3, <1>6, <2>1 DEF ListOK, One
<1> QED BY <1>4, <1>5, <1>6

\* A closure is given code that is not a mark, and what is patched is nothing new.
LEMMA ReplaceStep ==
  ASSUME IInv, UNCHANGED <<queues, stopping, pc, fn>>, NEW f \in Function,
         NEW c \in {"unoptimized", "optimized"}, ReplaceCode(f, c),
         disabled' \in SUBSET Shared, patched' \subseteq patched, cached' \in SUBSET Shared,
         pc["main"] \in {"js", "profile"}
  PROVE  IInv' /\ (Alone /\ ~Pending(f) => Alone')
<1>1. Data /\ Listed /\ patched \in SUBSET Shared
  BY DEF IInv, Data
<1>2. /\ code' \in [Function -> Codes] /\ optimizedFunctions' \in [Function -> Nat]
      /\ code'[f] = c /\ \A g \in Function : g # f => code'[g] = code[g]
      /\ Listed' /\ (ListOK => ListOK')
  BY <1>1, Replaced
<1>3. \A g \in Function : code'[g] = code[g] \/ (g = f /\ ~Pending(g)')
  BY <1>2 DEF Pending
<1>4. IInv'
  BY <1>1, <1>2, <1>3, CodeStep
<1>5. ASSUME Alone, ~Pending(f) PROVE Alone'
  <2>1. \A g \in Function : Pending(g) => SharedOf[g] \notin patched'
    BY <1>5 DEF Alone, PatchesOK, At
  <2>2. patched' \subseteq HasLoops /\ ListOK'
    BY <1>2, <1>5 DEF Alone, PatchesOK
  <2> QED BY <1>3, <1>5, <2>1, <2>2, CodeStepAlone
<1> QED BY <1>4, <1>5

\* Only what is patched, disabled or in the code map changes.
LEMMA SharedStep ==
  ASSUME IInv, UNCHANGED <<code, optimizedFunctions, queues, stopping, pc, fn>>,
         disabled' \in SUBSET Shared, patched' \in SUBSET Shared, cached' = cached,
         pc["main"] \in {"js", "profile"}
  PROVE  /\ IInv'
         /\ /\ Alone /\ patched' \subseteq HasLoops
            /\ \A g \in Function : Pending(g) => SharedOf[g] \notin patched'
            => Alone'
<1>1. /\ code' \in [Function -> Codes] /\ optimizedFunctions' \in [Function -> Nat]
      /\ cached' \in SUBSET Shared /\ \A g \in Function : code'[g] = code[g]
  BY DEF IInv, Data
<1>2. Listed' /\ (ListOK => ListOK')
  BY DEF IInv, Listed, IsOptimized, ListOK, One
<1>3. IInv'
  BY <1>1, <1>2, CodeStep
<1>4. ASSUME Alone, patched' \subseteq HasLoops,
             \A g \in Function : Pending(g) => SharedOf[g] \notin patched'
      PROVE  Alone'
  BY <1>1, <1>2, <1>4, CodeStepAlone DEF Alone
<1> QED BY <1>3, <1>4

\* The first call of a marked function, as far as it leads to no job.
LEMMA RecompileInv ==
  ASSUME IInv, NEW f \in Function,
         \/ RefusedAsDisabled(f) \/ FoundInCodeMap(f)
         \/ CreateGraphBailsOut(f) \/ CreateGraphFails(f)
  PROVE  IInv' /\ (Alone => Alone')
<1>1. /\ disabled \in SUBSET Shared /\ patched \in SUBSET Shared /\ cached \in SUBSET Shared
      /\ UNCHANGED <<queues, stopping, pc, fn>> /\ pc["main"] = "js"
      /\ code[f] = "parallelRecompile"
  BY DEF IInv, Data, RefusedAsDisabled, FoundInCodeMap, CreateGraphBailsOut, CreateGraphFails,
         Calls, Recompiles
<1>2. ~Pending(f)
  BY <1>1 DEF Pending
<1>3. CASE RefusedAsDisabled(f)
  BY <1>1, <1>2, <1>3, ReplaceStep DEF RefusedAsDisabled
<1>4. CASE FoundInCodeMap(f)
  BY <1>1, <1>2, <1>4, ReplaceStep DEF FoundInCodeMap
<1>5. CASE CreateGraphBailsOut(f)
  <2>1. disabled' \in SUBSET Shared /\ patched' \subseteq patched /\ cached' = cached
    BY <1>1, <1>5 DEF CreateGraphBailsOut, Unpatched
  <2> QED BY <1>1, <1>2, <1>5, <2>1, ReplaceStep DEF CreateGraphBailsOut
<1>6. CASE CreateGraphFails(f)
  <2>1. /\ disabled' \in SUBSET Shared /\ patched' \subseteq patched /\ cached' = cached
        /\ UNCHANGED <<code, optimizedFunctions, queues, stopping, pc, fn>>
    BY <1>1, <1>6 DEF CreateGraphFails, Unpatched
  <2>2. Alone => patched' \subseteq HasLoops
                 /\ \A g \in Function : Pending(g) => SharedOf[g] \notin patched'
    BY <1>1, <2>1 DEF Alone, PatchesOK, At
  <2> QED BY <1>1, <2>1, <2>2, SharedStep
<1> QED BY <1>3, <1>4, <1>5, <1>6

\* The profiler patches loops, or allows a function to be optimised again.
LEMMA ProfileInv ==
  ASSUME IInv, NEW f \in Function, AttemptOnStackReplacement(f) \/ TryReenableOptimization(f)
  PROVE  IInv' /\ (LoopsOfOneClosure /\ Alone => Alone')
<1>1. /\ disabled \in SUBSET Shared /\ patched \in SUBSET Shared /\ SharedOf[f] \in Shared
      /\ UNCHANGED <<code, optimizedFunctions, queues, stopping, pc, fn>>
      /\ pc["main"] = "profile" /\ cached' = cached
  BY SharedOfAssumption DEF IInv, Data, AttemptOnStackReplacement, TryReenableOptimization
<1>2. disabled' \in SUBSET Shared /\ patched' \in SUBSET Shared
  BY <1>1 DEF AttemptOnStackReplacement, TryReenableOptimization
<1>3. ASSUME LoopsOfOneClosure, Alone
      PROVE  patched' \subseteq HasLoops
             /\ \A g \in Function : Pending(g) => SharedOf[g] \notin patched'
  <2>1. patched \subseteq HasLoops /\ \A g \in Function : Pending(g) => SharedOf[g] \notin patched
    BY <1>1, <1>3 DEF Alone, PatchesOK, At
  <2>2. CASE AttemptOnStackReplacement(f)
    <3>1. /\ patched' = patched \cup {SharedOf[f]} /\ SharedOf[f] \in HasLoops
          /\ code[f] \in {"parallelRecompile", "optimized"}
      BY <2>2 DEF AttemptOnStackReplacement
    <3>2. ASSUME NEW g \in Function, Pending(g) PROVE SharedOf[g] # SharedOf[f]
      BY <1>3, <3>1, <3>2 DEF LoopsOfOneClosure, Pending
    <3> QED BY <2>1, <3>1, <3>2
  <2>3. CASE TryReenableOptimization(f)
    BY <2>1, <2>3 DEF TryReenableOptimization
  <2> QED BY <2>2, <2>3
<1> QED BY <1>1, <1>2, <1>3, SharedStep

\* On-stack replacement: it is for code that is patched, so that the function has no job if its
\* code is its own.
LEMMA OnStackReplacementInv ==
  ASSUME IInv, NEW f \in Function, CompileForOnStackReplacement(f)
  PROVE  IInv' /\ (Alone => Alone')
<1>1. /\ disabled \in SUBSET Shared /\ patched \in SUBSET Shared /\ SharedOf[f] \in Shared
      /\ UNCHANGED <<queues, stopping, pc, fn>> /\ cached' = cached /\ cached \in SUBSET Shared
      /\ pc["main"] = "js" /\ SharedOf[f] \in patched /\ patched' \subseteq patched
  BY SharedOfAssumption DEF IInv, Data, CompileForOnStackReplacement, Unpatched
<1>2. Alone => ~Pending(f)
  BY <1>1 DEF Alone, PatchesOK, At
<1>3. CASE ReplaceCode(f, "optimized") /\ disabled' = disabled
  BY <1>1, <1>2, <1>3, ReplaceStep
<1>4. CASE ReplaceCode(f, "unoptimized") /\ disabled' = disabled \cup {SharedOf[f]}
  BY <1>1, <1>2, <1>4, ReplaceStep
<1>5. CASE UNCHANGED <<code, optimizedFunctions, disabled>>
  <2>1. Alone => patched' \subseteq HasLoops
                 /\ \A g \in Function : Pending(g) => SharedOf[g] \notin patched'
    BY <1>1 DEF Alone, PatchesOK, At
  <2> QED BY <1>1, <1>5, <2>1, SharedStep
<1> QED BY <1>3, <1>4, <1>5 DEF CompileForOnStackReplacement

\* Closures that run the same optimised code are deoptimised together.
LEMMA DeoptimizeInv ==
  ASSUME IInv, NEW f \in Function, NEW fs \in SUBSET Function, Deoptimize(f, fs)
  PROVE  IInv' /\ (Alone => Alone')
<1>1. /\ UNCHANGED <<queues, stopping, pc, fn>> /\ pc["main"] = "js"
      /\ disabled' = disabled /\ patched' = patched /\ cached' \subseteq cached
      /\ code' = [g \in Function |-> IF g \in fs THEN "unoptimized" ELSE code[g]]
      /\ optimizedFunctions' = [g \in Function |-> IF g \in fs THEN 0 ELSE optimizedFunctions[g]]
      /\ \A g \in fs : code[g] = "optimized"
  BY DEF Deoptimize, IsOptimized
<1>2. /\ code \in [Function -> Codes] /\ optimizedFunctions \in [Function -> Nat]
      /\ disabled \in SUBSET Shared /\ patched \in SUBSET Shared /\ cached \in SUBSET Shared
  BY DEF IInv, Data
<1>3. /\ code' \in [Function -> Codes] /\ optimizedFunctions' \in [Function -> Nat]
      /\ (disabled \in SUBSET Shared /\ patched \in SUBSET Shared /\ cached \in SUBSET Shared)'
  BY <1>1, <1>2 DEF Codes
<1>4. \A g \in Function : code'[g] = code[g] \/ (~Pending(g) /\ ~Pending(g)')
  BY <1>1 DEF Pending
<1>5. Listed' /\ (ListOK => ListOK')
  BY <1>1 DEF IInv, Listed, ListOK, One, IsOptimized
<1>6. IInv'
  BY <1>1, <1>3, <1>4, <1>5, CodeStep
<1>7. ASSUME Alone PROVE Alone'
  <2>1. \A g \in Function : Pending(g) => SharedOf[g] \notin patched'
    BY <1>1, <1>7 DEF Alone, PatchesOK, At
  <2> QED BY <1>1, <1>4, <1>5, <1>7, <2>1, CodeStepAlone DEF Alone, PatchesOK
<1> QED BY <1>6, <1>7

----------------------------------------------------------------------------
(* Where the main thread goes outside the queue and Stop.                   *)

\* A call that makes a job, ticks and calls that install, and the profiler.
LEMMA QuietInv ==
  ASSUME IInv,
         \/ \E f \in Function : CreateGraph(f) \/ CallMarkedForInstalling(f) \/ Optimize(f)
         \/ RetryInstall \/ Tick \/ ProfileEnds
         \/ InstalledAll("profileInstalls", "profile") \/ InstalledAll("callInstalls", "callCheck")
  PROVE  IInv' /\ (Alone => Alone')
<1> DEFINE m == fn["main"]
<1>1. /\ m \in Function \cup {NoFunction}
      /\ pc["main"] \in {"callInstalls", "callCheck"} => m \in Function
  BY DEF IInv, Places, Holding, Thread
<1>2. ASSUME NEW f \in Function, CreateGraph(f) PROVE IInv' /\ (Alone => Alone')
  BY <1>2, QuietStep, QuietStepAlone
     DEF CreateGraph, Recompiles, IsQueueAvailable, Calls, Quiet
<1>3. ASSUME NEW f \in Function, CallMarkedForInstalling(f) PROVE IInv' /\ (Alone => Alone')
  BY <1>3, QuietStep, QuietStepAlone DEF CallMarkedForInstalling, Quiet
<1>4. ASSUME NEW f \in Function, Optimize(f) PROVE IInv' /\ (Alone => Alone')
  BY <1>4, QuietStep, QuietStepAlone DEF Optimize, IsOptimizable, Quiet
<1>5. CASE RetryInstall
  BY <1>1, <1>5, QuietStep, QuietStepAlone DEF RetryInstall, Step, Quiet, Holding
<1>6. CASE Tick
  <2>1. /\ pc["main"] = "js" /\ Goto("main", "profileInstalls", m)
        /\ UNCHANGED <<functions, queues, stopping>>
    BY <1>6 DEF Tick, Step
  <2> QED BY <1>1, <2>1, QuietStep, QuietStepAlone DEF Quiet, Holding
<1>7. CASE ProfileEnds
  <2>1. /\ pc["main"] = "profile" /\ Goto("main", "js", m)
        /\ UNCHANGED <<functions, queues, stopping>>
    BY <1>7 DEF ProfileEnds, Step
  <2> QED BY <1>1, <2>1, QuietStep, QuietStepAlone DEF Quiet, Holding
<1>8. CASE InstalledAll("profileInstalls", "profile")
  <2>1. /\ pc["main"] = "profileInstalls" /\ Goto("main", "profile", m)
        /\ UNCHANGED <<functions, queues, stopping>>
    BY <1>8 DEF InstalledAll, Step
  <2> QED BY <1>1, <2>1, QuietStep, QuietStepAlone DEF Quiet, Holding
<1>9. CASE InstalledAll("callInstalls", "callCheck")
  <2>1. /\ pc["main"] = "callInstalls" /\ Goto("main", "callCheck", m)
        /\ UNCHANGED <<functions, queues, stopping>>
    BY <1>9 DEF InstalledAll, Step
  <2> QED BY <1>1, <2>1, QuietStep, QuietStepAlone DEF Quiet, Holding
<1> QED BY <1>2, <1>3, <1>4, <1>5, <1>6, <1>7, <1>8, <1>9

----------------------------------------------------------------------------
(* A job on its way in.                                                     *)

\* A thread goes on: only its own place and closure change.
LEMMA Moved ==
  ASSUME Places, NEW t \in Thread, NEW w \in MainPlaces \cup WorkerPlaces,
         NEW f \in Function \cup {NoFunction}, Goto(t, w, f)
  PROVE  /\ pc'[t] = w /\ fn'[t] = f
         /\ \A u \in Thread : u # t => pc'[u] = pc[u] /\ fn'[u] = fn[u]
         /\ pc' \in [Thread -> MainPlaces \cup WorkerPlaces]
         /\ fn' \in [Thread -> Function \cup {NoFunction}]
BY DEF Goto, Places

\* The same for the main thread, by name.
LEMMA MainMoved ==
  ASSUME Places, NEW w \in MainPlaces, NEW f \in Function \cup {NoFunction}, Goto("main", w, f),
         w \in Holding => f \in Function
  PROVE  /\ pc'["main"] = w /\ fn'["main"] = f
         /\ pc'["worker"] = pc["worker"] /\ fn'["worker"] = fn["worker"] /\ Places'
<1>1. /\ pc'["main"] = w /\ fn'["main"] = f
      /\ pc'["worker"] = pc["worker"] /\ fn'["worker"] = fn["worker"]
      /\ pc' \in [Thread -> MainPlaces \cup WorkerPlaces]
      /\ fn' \in [Thread -> Function \cup {NoFunction}]
  BY Moved DEF Thread
<1>2. Places'
  BY <1>1 DEF Places, Thread
<1> QED BY <1>1, <1>2

\* And for the worker.
LEMMA WorkerMoved ==
  ASSUME Places, NEW w \in WorkerPlaces, NEW f \in Function \cup {NoFunction},
         Goto("worker", w, f), w \in Holding => f \in Function
  PROVE  /\ pc'["worker"] = w /\ fn'["worker"] = f
         /\ pc'["main"] = pc["main"] /\ fn'["main"] = fn["main"] /\ Places'
<1>1. /\ pc'["worker"] = w /\ fn'["worker"] = f
      /\ pc'["main"] = pc["main"] /\ fn'["main"] = fn["main"]
      /\ pc' \in [Thread -> MainPlaces \cup WorkerPlaces]
      /\ fn' \in [Thread -> Function \cup {NoFunction}]
  BY Moved DEF Thread
<1>2. Places'
  BY <1>1 DEF Places, Thread
<1> QED BY <1>1, <1>2

\* The job is counted.
LEMMA IncrementLengthInv ==
  ASSUME IInv, IncrementLength
  PROVE  IInv' /\ (Alone => Alone')
<1> DEFINE f == fn["main"]
<1>1. /\ pc["main"] = "increment" /\ f \in Function /\ length' = length + 1
      /\ UNCHANGED <<functions, input, output, tokens, stopping>>
      /\ Goto("main", "markInQueue", f)
  BY DEF IncrementLength, Step, IInv, Places, Holding, Thread
<1>2. /\ pc'["main"] = "markInQueue" /\ fn'["main"] = f
      /\ pc'["worker"] = pc["worker"] /\ fn'["worker"] = fn["worker"] /\ Places'
  BY <1>1, MainMoved DEF IInv, MainPlaces
<1> HIDE DEF f
<1>3. (Data /\ Listed)'
  BY <1>1 DEF IInv, Data, Listed, IsOptimized, functions, stopping
<1>4. (LengthOK /\ TokensOK /\ StopOK)'
  <2> DEFINE n == Len(input)
  <2>1. n \in Nat /\ Len(input)' = n
    BY <1>1, <1>2 DEF IInv, Data
  <2> HIDE DEF n
  <2>2. /\ length = n + One(At("main", {"markInQueue", "enqueue"}))
                      + One(At("main", {"decrement"})) + One(At("worker", {"decrement"}))
        /\ length \in Int /\ length <= QueueLength
        /\ At("main", {"increment"}) => length < QueueLength
    BY DEF IInv, LengthOK, n, Data
  <2>3. LengthOK'
    BY <1>1, <1>2, <2>1, <2>2, QueueLengthAssumption DEF LengthOK, At, One
  <2>4. ~At("worker", {"gone"}) =>
           tokens + One(At("worker", {"checkStop", "dequeue"})) + One(At("main", {"signal"}))
             = n + One(At("main", {"stopWaits"}))
    BY DEF IInv, TokensOK, n
  <2>5. TokensOK'
    BY <1>1, <1>2, <2>1, <2>4 DEF IInv, Data, TokensOK, At, One
  <2>6. StopOK'
    BY <1>1, <1>2 DEF IInv, StopOK, At, One, Stopping, Draining, stopping
  <2> QED BY <2>3, <2>5, <2>6
<1>5. WaitersHaveJobs'
  BY <1>1, <1>2 DEF IInv, WaitersHaveJobs, At, Thread, functions
<1>6. ASSUME Alone PROVE Alone'
  <2>1. (QueuesOK /\ ListOK)'
    BY <1>1, <1>6 DEF Alone, QueuesOK, EachOnce, ListOK, One, IsOptimized, functions
  <2>2. (JobsOK /\ MainOK /\ PatchesOK)'
    BY <1>1, <1>2, <1>6
       DEF Alone, JobsOK, MainOK, PatchesOK, Pending, NotIn, At, Thread, functions, f
  <2> QED BY <2>1, <2>2 DEF Alone
<1> QED BY <1>2, <1>3, <1>4, <1>5, <1>6 DEF IInv

\* The function is marked: it is not optimised, if its code is its own.
LEMMA MarkInRecompileQueueInv ==
  ASSUME IInv, MarkInRecompileQueue
  PROVE  IInv' /\ (Alone => Alone')
<1> DEFINE f == fn["main"]
<1>1. /\ pc["main"] = "markInQueue" /\ f \in Function /\ UNCHANGED <<queues, stopping>>
      /\ UNCHANGED <<optimizedFunctions, disabled, patched, cached>>
      /\ code' = [code EXCEPT ![f] = "inRecompileQueue"]
      /\ Goto("main", "enqueue", f)
  BY DEF MarkInRecompileQueue, Mark, Step, IInv, Places, Holding, Thread
<1>2. /\ pc'["main"] = "enqueue" /\ fn'["main"] = f
      /\ pc'["worker"] = pc["worker"] /\ fn'["worker"] = fn["worker"] /\ Places'
  BY <1>1, MainMoved DEF IInv, MainPlaces
<1> HIDE DEF f
<1>3. /\ code' \in [Function -> Codes] /\ code'[f] = "inRecompileQueue"
      /\ \A g \in Function : g # f => code'[g] = code[g]
  BY <1>1 DEF IInv, Data, Codes
<1>4. (Data /\ Listed)'
  BY <1>1, <1>3 DEF IInv, Data, Listed, IsOptimized, queues, stopping
<1>5. (LengthOK /\ TokensOK /\ StopOK)'
  BY <1>1, <1>2 DEF IInv, Data, LengthOK, TokensOK, StopOK, At, One, Stopping, Draining,
                    queues, stopping
<1>6. WaitersHaveJobs'
  BY <1>1, <1>2, <1>3 DEF IInv, WaitersHaveJobs, At, Thread, queues
<1>7. ASSUME Alone PROVE Alone'
  <2>1. code[f] = "parallelRecompile"
    BY <1>1, <1>7 DEF Alone, MainOK, At, f
  <2>2. /\ input' = input /\ output' = output /\ input \in Seq(Function) /\ output \in Seq(Function)
    BY <1>1 DEF queues, IInv, Data
  <2>3. NotIn(f, input) /\ NotIn(f, output)
    BY <1>7, <2>1 DEF Alone, QueuesOK, NotIn
  <2>4. QueuesOK'
    BY <1>3, <1>7, <2>2, <2>3 DEF Alone, QueuesOK, EachOnce, NotIn
  <2>5. /\ At("worker", {"decrement", "markForInstalling", "enqueueOutput"}) =>
             fn["worker"] # f /\ fn["worker"] \in Function
    BY <1>7, <2>1 DEF Alone, JobsOK, At, Thread, IInv, Places, Holding
  <2>6. JobsOK'
    BY <1>2, <1>3, <1>7, <2>2, <2>5 DEF Alone, JobsOK, NotIn, At, Thread
  <2>7. MainOK'
    BY <1>2, <1>3, <2>2, <2>3, <2>5 DEF MainOK, NotIn, At
  <2>8. PatchesOK'
    BY <1>1, <1>2, <1>3, <1>7 DEF Alone, PatchesOK, Pending, At
  <2>9. ListOK'
    BY <1>1, <1>3, <1>7, <2>1 DEF Alone, ListOK, One, IsOptimized
  <2> QED BY <2>4, <2>6, <2>7, <2>8, <2>9 DEF Alone
<1> QED BY <1>2, <1>4, <1>5, <1>6, <1>7 DEF IInv

\* The job is queued.
LEMMA EnqueueInputInv ==
  ASSUME IInv, EnqueueInput
  PROVE  IInv' /\ (Alone => Alone')
<1> DEFINE f == fn["main"]
<1>1. /\ pc["main"] = "enqueue" /\ f \in Function /\ input' = Append(input, f)
      /\ UNCHANGED <<functions, output, length, tokens, stopping>>
      /\ Goto("main", "signal", f)
  BY DEF EnqueueInput, Step, IInv, Places, Holding, Thread
<1>2. /\ pc'["main"] = "signal" /\ fn'["main"] = f
      /\ pc'["worker"] = pc["worker"] /\ fn'["worker"] = fn["worker"] /\ Places'
  BY <1>1, MainMoved DEF IInv, MainPlaces
<1> HIDE DEF f
<1>3. /\ input' \in Seq(Function) /\ Len(input') = Len(input) + 1 /\ Len(input) \in Nat
      /\ \A i \in 1..Len(input) : input'[i] = input[i]
      /\ input'[Len(input) + 1] = f /\ ToSet(input') = ToSet(input) \cup {f}
  BY <1>1, Appended DEF IInv, Data
<1>4. (Data /\ Listed)'
  BY <1>1, <1>3 DEF IInv, Data, Listed, IsOptimized, functions, stopping
<1>5. (LengthOK /\ TokensOK /\ StopOK)'
  <2> DEFINE n == Len(input)
  <2>1. n \in Nat /\ Len(input)' = n + 1
    BY <1>1, <1>2, <1>3 DEF IInv, Data
  <2> HIDE DEF n
  <2>2. /\ length = n + One(At("main", {"markInQueue", "enqueue"}))
                      + One(At("main", {"decrement"})) + One(At("worker", {"decrement"}))
        /\ length \in Int /\ length <= QueueLength
        /\ At("main", {"increment"}) => length < QueueLength
    BY DEF IInv, LengthOK, n, Data
  <2>3. LengthOK'
    BY <1>1, <1>2, <1>3, <2>1, <2>2, QueueLengthAssumption DEF LengthOK, At, One
  <2>4. ~At("worker", {"gone"}) =>
           tokens + One(At("worker", {"checkStop", "dequeue"})) + One(At("main", {"signal"}))
             = n + One(At("main", {"stopWaits"}))
    BY DEF IInv, TokensOK, n
  <2>5. TokensOK'
    BY <1>1, <1>2, <1>3, <2>1, <2>4 DEF IInv, Data, TokensOK, At, One
  <2>6. StopOK'
    BY <1>1, <1>2, <1>3 DEF IInv, StopOK, At, One, Stopping, Draining, stopping
  <2> QED BY <2>3, <2>5, <2>6
<1>6. WaitersHaveJobs'
  BY <1>1, <1>2, <1>3 DEF IInv, WaitersHaveJobs, At, Thread, functions, f
<1>7. ASSUME Alone PROVE Alone'
  <2> DEFINE n == Len(input)
             q == input'
  <2>1. /\ n \in Nat /\ (\A i \in 1..n : q[i] = input[i]) /\ q[n + 1] = f /\ Len(q) = n + 1
    BY <1>3
  <2>2. /\ code[f] = "inRecompileQueue" /\ (\A i \in 1..n : input[i] # f)
        /\ At("worker", {"decrement", "markForInstalling"}) => fn["worker"] # f
    BY <1>1, <1>7 DEF Alone, MainOK, At, f, NotIn
  <2>3. /\ code' = code /\ optimizedFunctions' = optimizedFunctions /\ patched' = patched
        /\ output' = output
    BY <1>1 DEF functions
  <2>4. /\ (\A i, j \in 1..n : input[i] = input[j] => i = j) /\ EachOnce(output)
        /\ \A i \in 1..n : code[input[i]] = "inRecompileQueue"
        /\ \A i \in 1..Len(output) : code[output[i]] = "installRecompiledCode"
    BY <1>7 DEF Alone, QueuesOK, EachOnce
  <2> HIDE DEF n, q
  <2>5. (\A i, j \in 1..(n + 1) : q[i] = q[j] => i = j)
        /\ (\A i \in 1..(n + 1) : code[q[i]] = "inRecompileQueue")
    BY <2>1, <2>2, <2>4
  <2>6. QueuesOK'
    BY <2>1, <2>3, <2>4, <2>5 DEF QueuesOK, EachOnce, q
  <2>7. At("worker", {"decrement", "markForInstalling"}) => \A i \in 1..(n + 1) : q[i] # fn["worker"]
    <3>1. At("worker", {"decrement", "markForInstalling"}) => \A i \in 1..n : input[i] # fn["worker"]
      BY <1>7 DEF Alone, JobsOK, NotIn, Thread, n
    <3> QED BY <2>1, <2>2, <3>1
  <2>8. JobsOK'
    BY <1>2, <1>7, <2>1, <2>3, <2>7 DEF Alone, JobsOK, NotIn, At, Thread, q
  <2>9. MainOK' /\ ListOK'
    BY <1>2, <1>7, <2>3 DEF Alone, MainOK, ListOK, One, IsOptimized, At
  <2>10. PatchesOK'
    BY <1>1, <1>2, <1>7, <2>3 DEF Alone, PatchesOK, Pending, At, f
  <2> QED BY <2>6, <2>8, <2>9, <2>10 DEF Alone
<1> QED BY <1>2, <1>4, <1>5, <1>6, <1>7 DEF IInv

\* The worker is told.
LEMMA SignalInputInv ==
  ASSUME IInv, SignalInput
  PROVE  IInv' /\ (Alone => Alone')
<1> DEFINE f == fn["main"]
<1>1. /\ pc["main"] = "signal" /\ f \in Function /\ tokens' = tokens + 1
      /\ UNCHANGED <<functions, input, output, length, stopping>>
      /\ Goto("main", "unpatch", f)
  BY DEF SignalInput, Step, IInv, Places, Holding, Thread
<1>2. /\ pc'["main"] = "unpatch" /\ fn'["main"] = f
      /\ pc'["worker"] = pc["worker"] /\ fn'["worker"] = fn["worker"] /\ Places'
  BY <1>1, MainMoved DEF IInv, MainPlaces
<1> HIDE DEF f
<1>3. (Data /\ Listed)'
  BY <1>1 DEF IInv, Data, Listed, IsOptimized, functions, stopping
<1>4. (LengthOK /\ TokensOK /\ StopOK)'
  <2> DEFINE n == Len(input)
  <2>1. n \in Nat /\ Len(input)' = n
    BY <1>1, <1>2 DEF IInv, Data
  <2> HIDE DEF n
  <2>2. /\ length = n + One(At("main", {"markInQueue", "enqueue"}))
                      + One(At("main", {"decrement"})) + One(At("worker", {"decrement"}))
        /\ length \in Int /\ length <= QueueLength
        /\ At("main", {"increment"}) => length < QueueLength
    BY DEF IInv, LengthOK, n, Data
  <2>3. LengthOK'
    BY <1>1, <1>2, <2>1, <2>2, QueueLengthAssumption DEF LengthOK, At, One
  <2>4. ~At("worker", {"gone"}) =>
           tokens + One(At("worker", {"checkStop", "dequeue"})) + One(At("main", {"signal"}))
             = n + One(At("main", {"stopWaits"}))
    BY DEF IInv, TokensOK, n
  <2>5. TokensOK'
    BY <1>1, <1>2, <2>1, <2>4 DEF IInv, Data, TokensOK, At, One
  <2>6. StopOK'
    BY <1>1, <1>2 DEF IInv, StopOK, At, One, Stopping, Draining, stopping
  <2> QED BY <2>3, <2>5, <2>6
<1>5. WaitersHaveJobs'
  BY <1>1, <1>2 DEF IInv, WaitersHaveJobs, At, Thread, functions
<1>6. ASSUME Alone PROVE Alone'
  <2>1. (QueuesOK /\ ListOK)'
    BY <1>1, <1>6 DEF Alone, QueuesOK, EachOnce, ListOK, One, IsOptimized, functions
  <2>2. (JobsOK /\ MainOK /\ PatchesOK)'
    BY <1>1, <1>2, <1>6
       DEF Alone, JobsOK, MainOK, PatchesOK, Pending, NotIn, At, Thread, functions, f
  <2> QED BY <2>1, <2>2 DEF Alone
<1> QED BY <1>2, <1>3, <1>4, <1>5, <1>6 DEF IInv

\* The stack checks of the literal are as they were before: its code is not patched any more.
LEMMA RevertStackCheckInv ==
  ASSUME IInv, RevertStackCheck
  PROVE  IInv' /\ (Alone => Alone')
<1> DEFINE f == fn["main"]
<1>1. /\ pc["main"] = "unpatch" /\ f \in Function /\ patched' = patched \ {SharedOf[f]}
      /\ UNCHANGED <<code, optimizedFunctions, disabled, cached, queues, stopping>>
      /\ Goto("main", "js", NoFunction)
  BY DEF RevertStackCheck, Unpatched, IInv, Places, Holding, Thread
<1>2. /\ pc'["main"] = "js" /\ pc'["worker"] = pc["worker"] /\ fn'["worker"] = fn["worker"]
      /\ Places'
  BY <1>1, MainMoved DEF IInv, MainPlaces, Holding
<1> HIDE DEF f
<1>3. (Data /\ Listed)'
  BY <1>1 DEF IInv, Data, Listed, IsOptimized, queues, stopping
<1>4. (LengthOK /\ TokensOK /\ StopOK)'
  BY <1>1, <1>2 DEF IInv, Data, LengthOK, TokensOK, StopOK, At, One, Stopping, Draining, queues,
                    stopping
<1>5. WaitersHaveJobs'
  BY <1>1, <1>2 DEF IInv, WaitersHaveJobs, At, Thread, queues
<1>6. ASSUME Alone PROVE Alone'
  <2>1. (QueuesOK /\ ListOK)'
    BY <1>1, <1>6 DEF Alone, QueuesOK, EachOnce, ListOK, One, IsOptimized, queues
  <2>2. (JobsOK /\ MainOK)'
    BY <1>1, <1>2, <1>6 DEF Alone, JobsOK, MainOK, NotIn, At, Thread, queues
  <2>3. PatchesOK'
    BY <1>1, <1>2, <1>6 DEF Alone, PatchesOK, Pending, At, f
  <2> QED BY <2>1, <2>2, <2>3 DEF Alone
<1> QED BY <1>2, <1>3, <1>4, <1>5, <1>6 DEF IInv

----------------------------------------------------------------------------
(* A job in the hands of a thread.                                          *)

\* A thread goes on with a job.
LEMMA WorkMoved ==
  ASSUME Places, NEW t \in Thread, NEW w \in {"decrement", "markForInstalling", "enqueueOutput"},
         NEW f \in Function, Goto(t, w, f)
  PROVE  /\ pc'[t] = w /\ fn'[t] = f /\ Places'
         /\ \A u \in Thread : u # t => pc'[u] = pc[u] /\ fn'[u] = fn[u]
<1>1. w \in MainPlaces \cap WorkerPlaces
  BY DEF MainPlaces, WorkerPlaces
<1>2. CASE t = "main"
  BY <1>1, <1>2, MainMoved DEF Thread
<1>3. CASE t = "worker"
  BY <1>1, <1>3, WorkerMoved DEF Thread
<1> QED BY <1>2, <1>3 DEF Thread

\* One of the two: and when the main thread works, the worker is gone.
LEMMA WhoWorks ==
  ASSUME IInv, NEW t \in Thread, At(t, {"dequeue", "decrement", "markForInstalling", "enqueueOutput"})
  PROVE  t = "worker" \/ (t = "main" /\ pc["worker"] = "gone")
BY DEF IInv, StopOK, At, Stopping, Draining, Thread

\* What the counters say, with the length of the queue by name.
LEMMA Counted ==
  ASSUME IInv, NEW n, n = Len(input)
  PROVE  /\ n \in Nat /\ length \in Int /\ tokens \in Nat
         /\ length = n + One(At("main", {"markInQueue", "enqueue"}))
                      + One(At("main", {"decrement"})) + One(At("worker", {"decrement"}))
         /\ length <= QueueLength /\ (At("main", {"increment"}) => length < QueueLength)
         /\ ~At("worker", {"gone"}) =>
              tokens + One(At("worker", {"checkStop", "dequeue"})) + One(At("main", {"signal"}))
                = n + One(At("main", {"stopWaits"}))
         /\ At("worker", {"dequeue"}) /\ At("main", {"stopWaits"}) => tokens > 0
BY DEF IInv, Data, LengthOK, TokensOK

\* The job is taken.
LEMMA DequeueInputInv ==
  ASSUME IInv, NEW t \in Thread, DequeueInput(t)
  PROVE  IInv' /\ (Alone => Alone')
<1> DEFINE f == Head(input)
           n == Len(input)
<1>1. /\ pc[t] = "dequeue" /\ input # <<>> /\ input' = Tail(input)
      /\ UNCHANGED <<functions, output, length, tokens, stopping>> /\ Goto(t, "decrement", f)
  BY DEF DequeueInput
<1>2. /\ input' \in Seq(Function) /\ Len(input') = n - 1 /\ n \in Nat \ {0}
      /\ f = input[1] /\ f \in Function
      /\ \A i \in 1..(n - 1) : input'[i] = input[i + 1]
      /\ ToSet(input) = ToSet(input') \cup {f}
  BY <1>1, Taken DEF IInv, Data
<1>3. /\ pc'[t] = "decrement" /\ fn'[t] = f /\ Places'
      /\ \A u \in Thread : u # t => pc'[u] = pc[u] /\ fn'[u] = fn[u]
  BY <1>1, <1>2, WorkMoved DEF IInv
<1>4. t = "worker" \/ (t = "main" /\ pc["worker"] = "gone")
  BY <1>1, WhoWorks DEF At
<1>5. (Data /\ Listed)'
  BY <1>1, <1>2 DEF IInv, Data, Listed, IsOptimized, functions, stopping
<1>6. (LengthOK /\ TokensOK)'
  <2> HIDE DEF IInv
  <2>1. n = Len(input)
    OBVIOUS
  <2> HIDE DEF n, f
  <2>2. /\ n \in Nat /\ length \in Int /\ tokens \in Nat
        /\ length = n + One(At("main", {"markInQueue", "enqueue"}))
                      + One(At("main", {"decrement"})) + One(At("worker", {"decrement"}))
        /\ length <= QueueLength /\ (At("main", {"increment"}) => length < QueueLength)
        /\ ~At("worker", {"gone"}) =>
             tokens + One(At("worker", {"checkStop", "dequeue"})) + One(At("main", {"signal"}))
               = n + One(At("main", {"stopWaits"}))
    BY <2>1, Counted
  <2>3. /\ Len(input)' = n - 1 /\ length' = length /\ tokens' = tokens
        /\ n > 0 /\ pc[t] = "dequeue" /\ pc'[t] = "decrement"
    BY <1>1, <1>2, <1>3, <2>1
  <2>4. CASE t = "worker"
    <3>1. pc'["main"] = pc["main"]
      BY <1>3, <2>4 DEF Thread
    <3>2. LengthOK'
      BY <2>2, <2>3, <2>4, <3>1, QueueLengthAssumption DEF LengthOK, At, One
    <3>3. TokensOK'
      BY <2>2, <2>3, <2>4, <3>1 DEF TokensOK, At, One
    <3> QED BY <3>2, <3>3
  <2>5. CASE t = "main" /\ pc["worker"] = "gone"
    <3>1. pc'["worker"] = pc["worker"]
      BY <1>3, <2>5 DEF Thread
    <3>2. LengthOK'
      BY <2>2, <2>3, <2>5, <3>1, QueueLengthAssumption DEF LengthOK, At, One
    <3>3. TokensOK'
      BY <2>2, <2>3, <2>5, <3>1 DEF TokensOK, At, One
    <3> QED BY <3>2, <3>3
  <2> QED BY <1>4, <2>4, <2>5
<1>7. StopOK'
  BY <1>1, <1>3, <1>4 DEF IInv, StopOK, At, One, Stopping, Draining, stopping, Thread
<1> HIDE DEF f, n
<1>8. WaitersHaveJobs'
  BY <1>1, <1>2, <1>3 DEF IInv, WaitersHaveJobs, At, Thread, functions
<1>9. ASSUME Alone PROVE Alone'
  <2>1. /\ code' = code /\ optimizedFunctions' = optimizedFunctions /\ patched' = patched
        /\ output' = output
    BY <1>1 DEF functions
  <2>2. /\ \A i, j \in 1..n : input[i] = input[j] => i = j
        /\ \A i \in 1..n : code[input[i]] = "inRecompileQueue"
        /\ EachOnce(output) /\ \A i \in 1..Len(output) : code[output[i]] = "installRecompiledCode"
    BY <1>9 DEF Alone, QueuesOK, EachOnce, n
  <2> DEFINE q == input'
  <2>3. Len(q) = n - 1 /\ \A i \in 1..(n - 1) : q[i] = input[i + 1]
    BY <1>2
  <2> HIDE DEF q
  <2>4. /\ \A i \in 1..(n - 1) : i + 1 \in 1..n /\ q[i] = input[i + 1] /\ q[i] # f
        /\ code[f] = "inRecompileQueue" /\ 1 \in 1..n
    <3>1. 1 \in 1..n /\ \A i \in 1..(n - 1) : i + 1 \in 1..n /\ i + 1 # 1
      BY <1>2
    <3> QED BY <1>2, <2>2, <2>3, <3>1
  <2>5. \A i, j \in 1..(n - 1) : q[i] = q[j] => i = j
    BY <2>2, <2>4
  <2>6. QueuesOK'
    BY <2>1, <2>2, <2>3, <2>4, <2>5 DEF QueuesOK, EachOnce, q
  <2>7. ASSUME NEW g, NotIn(g, input) PROVE NotIn(g, q) /\ g # f
    BY <1>2, <2>3, <2>4, <2>7 DEF NotIn, n
  <2>8. JobsOK'
    <3>1. NotIn(f, q)
      BY <2>3, <2>4 DEF NotIn
    <3>2. ASSUME NEW u \in Thread, u # t
          PROVE  (/\ At(u, {"decrement", "markForInstalling"}) =>
                       code[fn[u]] = "inRecompileQueue" /\ NotIn(fn[u], input)
                  /\ At(u, {"enqueueOutput"}) =>
                       code[fn[u]] = "installRecompiledCode" /\ NotIn(fn[u], output))'
      <4>1. /\ At(u, {"decrement", "markForInstalling"}) =>
                 code[fn[u]] = "inRecompileQueue" /\ NotIn(fn[u], input)
            /\ At(u, {"enqueueOutput"}) =>
                 code[fn[u]] = "installRecompiledCode" /\ NotIn(fn[u], output)
        BY <1>9 DEF Alone, JobsOK
      <4>2. pc'[u] = pc[u] /\ fn'[u] = fn[u]
        BY <1>3, <3>2
      <4>3. NotIn(fn[u], input) => NotIn(fn[u], q)
        BY <2>7
      <4> QED BY <2>1, <4>1, <4>2, <4>3 DEF At, NotIn, q
    <3> QED BY <1>3, <2>1, <2>4, <3>1, <3>2 DEF JobsOK, At, NotIn, q
  <2>9. MainOK'
    BY <1>1, <1>3, <1>4, <1>9, <2>1, <2>7 DEF Alone, MainOK, At, Thread, NotIn, q
  <2>10. PatchesOK' /\ ListOK'
    BY <1>1, <1>3, <1>4, <1>9, <2>1
       DEF Alone, PatchesOK, ListOK, One, IsOptimized, Pending, At, Thread
  <2> QED BY <2>6, <2>8, <2>9, <2>10 DEF Alone
<1> QED BY <1>3, <1>5, <1>6, <1>7, <1>8, <1>9 DEF IInv

\* The job is counted off.
LEMMA DecrementLengthInv ==
  ASSUME IInv, NEW t \in Thread, DecrementLength(t)
  PROVE  IInv' /\ (Alone => Alone')
<1> DEFINE f == fn[t]
           n == Len(input)
<1>1. /\ pc[t] = "decrement" /\ length' = length - 1 /\ f \in Function
      /\ UNCHANGED <<functions, input, output, tokens, stopping>>
      /\ Goto(t, "markForInstalling", f)
  BY DEF DecrementLength, Step, IInv, Places, Holding
<1>2. /\ pc'[t] = "markForInstalling" /\ fn'[t] = f /\ Places'
      /\ \A u \in Thread : u # t => pc'[u] = pc[u] /\ fn'[u] = fn[u]
  BY <1>1, WorkMoved DEF IInv
<1>3. t = "worker" \/ (t = "main" /\ pc["worker"] = "gone")
  BY <1>1, WhoWorks DEF At
<1>4. (Data /\ Listed)'
  BY <1>1 DEF IInv, Data, Listed, IsOptimized, functions, stopping
<1>5. (LengthOK /\ TokensOK)'
  <2> HIDE DEF IInv
  <2>1. n = Len(input) /\ n = Len(input)'
    BY <1>1
  <2> HIDE DEF n, f
  <2>2. /\ n \in Nat /\ length \in Int /\ tokens \in Nat
        /\ length = n + One(At("main", {"markInQueue", "enqueue"}))
                      + One(At("main", {"decrement"})) + One(At("worker", {"decrement"}))
        /\ length <= QueueLength /\ (At("main", {"increment"}) => length < QueueLength)
        /\ ~At("worker", {"gone"}) =>
             tokens + One(At("worker", {"checkStop", "dequeue"})) + One(At("main", {"signal"}))
               = n + One(At("main", {"stopWaits"}))
    BY <2>1, Counted
  <2>3. /\ Len(input)' = n /\ length' = length - 1 /\ tokens' = tokens
        /\ pc[t] = "decrement" /\ pc'[t] = "markForInstalling"
    BY <1>1, <1>2, <2>1
  <2>4. CASE t = "worker"
    <3>1. pc'["main"] = pc["main"]
      BY <1>2, <2>4 DEF Thread
    <3>2. LengthOK'
      BY <2>2, <2>3, <2>4, <3>1, QueueLengthAssumption DEF LengthOK, At, One
    <3>3. TokensOK'
      BY <2>2, <2>3, <2>4, <3>1 DEF TokensOK, At, One
    <3> QED BY <3>2, <3>3
  <2>5. CASE t = "main" /\ pc["worker"] = "gone"
    <3>1. pc'["worker"] = pc["worker"]
      BY <1>2, <2>5 DEF Thread
    <3>2. LengthOK'
      BY <2>2, <2>3, <2>5, <3>1, QueueLengthAssumption DEF LengthOK, At, One
    <3>3. TokensOK'
      BY <2>2, <2>3, <2>5, <3>1 DEF TokensOK, At, One
    <3> QED BY <3>2, <3>3
  <2> QED BY <1>3, <2>4, <2>5
<1>6. StopOK'
  BY <1>1, <1>2, <1>3 DEF IInv, StopOK, At, One, Stopping, Draining, stopping, Thread
<1>7. WaitersHaveJobs'
  BY <1>1, <1>2 DEF IInv, WaitersHaveJobs, At, Thread, functions
<1>8. ASSUME Alone PROVE Alone'
  <2>1. (QueuesOK /\ ListOK)'
    BY <1>1, <1>8 DEF Alone, QueuesOK, EachOnce, ListOK, One, IsOptimized, functions
  <2>2. JobsOK'
    BY <1>1, <1>2, <1>8 DEF Alone, JobsOK, NotIn, At, functions
  <2>3. (MainOK /\ PatchesOK)'
    BY <1>1, <1>2, <1>3, <1>8 DEF Alone, MainOK, PatchesOK, Pending, NotIn, At, Thread, functions
  <2> QED BY <2>1, <2>2, <2>3 DEF Alone
<1> QED BY <1>2, <1>4, <1>5, <1>6, <1>7, <1>8 DEF IInv

\* The function is marked for installing: it is not optimised, if its code is its own.
LEMMA MarkForInstallingInv ==
  ASSUME IInv, NEW t \in Thread, MarkForInstalling(t)
  PROVE  IInv' /\ (Alone => Alone')
<1> DEFINE f == fn[t]
           n == Len(input)
<1>1. /\ pc[t] = "markForInstalling" /\ f \in Function /\ UNCHANGED <<queues, stopping>>
      /\ UNCHANGED <<optimizedFunctions, disabled, patched, cached>>
      /\ code' = [code EXCEPT ![f] = "installRecompiledCode"]
      /\ Goto(t, "enqueueOutput", f)
  BY DEF MarkForInstalling, Mark, Step, IInv, Places, Holding
<1>2. /\ pc'[t] = "enqueueOutput" /\ fn'[t] = f /\ Places'
      /\ \A u \in Thread : u # t => pc'[u] = pc[u] /\ fn'[u] = fn[u]
  BY <1>1, WorkMoved DEF IInv
<1>3. t = "worker" \/ (t = "main" /\ pc["worker"] = "gone")
  BY <1>1, WhoWorks DEF At
<1>4. /\ input' = input /\ output' = output /\ length' = length /\ tokens' = tokens
  BY <1>1 DEF queues
<1>5. /\ code' \in [Function -> Codes] /\ code'[f] = "installRecompiledCode"
      /\ \A g \in Function : g # f => code'[g] = code[g]
  BY <1>1 DEF IInv, Data, Codes
<1>6. (Data /\ Listed)'
  BY <1>1, <1>5 DEF IInv, Data, Listed, IsOptimized, queues, stopping
<1>7. (LengthOK /\ TokensOK)'
  <2> HIDE DEF IInv
  <2>1. n = Len(input) /\ n = Len(input)'
    BY <1>4
  <2> HIDE DEF n, f
  <2> QED BY <1>1, <1>2, <1>3, <1>4, <2>1, Counted DEF LengthOK, TokensOK, At, One, Thread
<1>8. StopOK'
  BY <1>1, <1>2, <1>3, <1>4 DEF IInv, StopOK, At, One, Stopping, Draining, stopping, Thread
<1>9. WaitersHaveJobs'
  BY <1>1, <1>2, <1>4, <1>5 DEF IInv, WaitersHaveJobs, At, Thread
<1>10. ASSUME Alone PROVE Alone'
  <2>1. code[f] = "inRecompileQueue" /\ NotIn(f, input) /\ NotIn(f, output)
    <3>1. code[f] = "inRecompileQueue" /\ NotIn(f, input)
      BY <1>1, <1>10 DEF Alone, JobsOK, At
    <3> QED BY <1>10, <3>1 DEF Alone, QueuesOK, NotIn
  <2>2. input \in Seq(Function) /\ output \in Seq(Function)
    BY DEF IInv, Data
  <2>3. QueuesOK'
    BY <1>4, <1>5, <1>10, <2>1, <2>2 DEF Alone, QueuesOK, EachOnce, NotIn
  <2>4. JobsOK'
    <3>1. ASSUME NEW u \in Thread, u # t,
                 At(u, {"decrement", "markForInstalling", "enqueueOutput"})
          PROVE  fn[u] # f /\ code'[fn[u]] = code[fn[u]]
      <4>1. fn[u] \in Function /\ u = "main" /\ t = "worker"
        BY <1>3, <3>1 DEF IInv, Places, Holding, At, Thread
      <4>2. pc["worker"] = "gone"
        BY <3>1, <4>1, WhoWorks DEF At
      <4> QED BY <1>1, <4>1, <4>2
    <3> QED BY <1>2, <1>4, <1>5, <1>10, <2>1, <3>1 DEF Alone, JobsOK, NotIn, At
  <2>5. MainOK'
    <3>1. /\ pc["main"] \in {"markForRecompilation", "increment", "markInQueue", "enqueue"} =>
               t = "worker" /\ fn["main"] \in Function
      BY <1>1, <1>3 DEF IInv, Places, Holding, Thread
    <3>2. pc["main"] \in {"markForRecompilation", "increment", "markInQueue", "enqueue"} =>
            fn["main"] # f
      BY <1>1, <1>10, <2>1, <3>1 DEF Alone, MainOK, At
    <3> QED BY <1>1, <1>2, <1>3, <1>4, <1>5, <1>10, <3>1, <3>2
            DEF Alone, MainOK, NotIn, At, Thread
  <2>6. PatchesOK'
    BY <1>1, <1>2, <1>3, <1>5, <1>10, <2>1 DEF Alone, PatchesOK, Pending, At, Thread
  <2>7. ListOK'
    BY <1>1, <1>5, <1>10, <2>1 DEF Alone, ListOK, One, IsOptimized
  <2> QED BY <2>3, <2>4, <2>5, <2>6, <2>7 DEF Alone
<1> QED BY <1>2, <1>6, <1>7, <1>8, <1>9, <1>10 DEF IInv

\* The job is done, and queued for installing.
LEMMA EnqueueOutputInv ==
  ASSUME IInv, NEW t \in Thread, EnqueueOutput(t)
  PROVE  IInv' /\ (Alone => Alone')
<1> DEFINE f == fn[t]
           n == Len(output)
           where == IF t = "worker" THEN "wait" ELSE "drainInstalls"
<1>1. /\ pc[t] = "enqueueOutput" /\ f \in Function /\ output' = Append(output, f)
      /\ UNCHANGED <<functions, input, length, tokens, stopping>> /\ Goto(t, where, NoFunction)
  BY DEF EnqueueOutput, IInv, Places, Holding
<1>2. /\ pc'[t] = where /\ Places'
      /\ \A u \in Thread : u # t => pc'[u] = pc[u] /\ fn'[u] = fn[u]
  <2>1. CASE t = "worker"
    BY <1>1, <2>1, WorkerMoved DEF IInv, WorkerPlaces, Holding, Thread
  <2>2. CASE t = "main"
    BY <1>1, <2>2, MainMoved DEF IInv, MainPlaces, Holding, Thread
  <2> QED BY <2>1, <2>2 DEF Thread
<1>3. t = "worker" \/ (t = "main" /\ pc["worker"] = "gone")
  BY <1>1, WhoWorks DEF At
<1>4. /\ output' \in Seq(Function) /\ Len(output') = n + 1 /\ n \in Nat
      /\ \A i \in 1..n : output'[i] = output[i]
      /\ output'[n + 1] = f /\ ToSet(output') = ToSet(output) \cup {f}
  BY <1>1, Appended DEF IInv, Data
<1>5. (Data /\ Listed)'
  BY <1>1, <1>4 DEF IInv, Data, Listed, IsOptimized, functions, stopping
<1>6. (LengthOK /\ TokensOK)'
  <2>1. CASE t = "worker"
    BY <1>1, <1>2, <2>1 DEF IInv, LengthOK, TokensOK, At, One, Thread
  <2>2. CASE t = "main" /\ pc["worker"] = "gone"
    BY <1>1, <1>2, <2>2 DEF IInv, LengthOK, TokensOK, At, One, Thread
  <2> QED BY <1>3, <2>1, <2>2
<1>7. StopOK'
  BY <1>1, <1>2, <1>3 DEF IInv, StopOK, At, One, Stopping, Draining, stopping, Thread
<1>8. WaitersHaveJobs'
  <2>1. \A u \in Thread : u # t => pc'[u] = pc[u] /\ fn'[u] = fn[u]
    BY <1>2
  <2>2. code' = code /\ input' = input /\ where \in {"wait", "drainInstalls"}
    BY <1>1 DEF functions
  <2> HIDE DEF where, n
  <2> QED BY <1>1, <1>2, <1>4, <2>1, <2>2 DEF IInv, WaitersHaveJobs, At, Thread
<1>9. ASSUME Alone PROVE Alone'
  <2>1. /\ code' = code /\ optimizedFunctions' = optimizedFunctions /\ patched' = patched
        /\ input' = input
    BY <1>1 DEF functions
  <2>2. /\ \A i, j \in 1..n : output[i] = output[j] => i = j
        /\ \A i \in 1..n : code[output[i]] = "installRecompiledCode" /\ output[i] # f
        /\ EachOnce(input) /\ \A i \in 1..Len(input) : code[input[i]] = "inRecompileQueue"
        /\ code[f] = "installRecompiledCode"
    BY <1>1, <1>9 DEF Alone, QueuesOK, JobsOK, EachOnce, NotIn, At
  <2> DEFINE q == output'
  <2>3. Len(q) = n + 1 /\ q[n + 1] = f /\ \A i \in 1..n : q[i] = output[i]
    BY <1>4
  <2> HIDE DEF q, n
  <2>4. /\ \A i, j \in 1..(n + 1) : q[i] = q[j] => i = j
        /\ \A i \in 1..(n + 1) : code[q[i]] = "installRecompiledCode"
    BY <1>4, <2>2, <2>3
  <2>5. QueuesOK'
    BY <2>1, <2>2, <2>3, <2>4 DEF QueuesOK, EachOnce, q
  <2>6. ASSUME NEW u \in Thread
        PROVE  (/\ At(u, {"decrement", "markForInstalling"}) =>
                     code[fn[u]] = "inRecompileQueue" /\ NotIn(fn[u], input)
                /\ At(u, {"enqueueOutput"}) =>
                     code[fn[u]] = "installRecompiledCode" /\ NotIn(fn[u], output))'
    <3>1. CASE u = t
      BY <1>2, <3>1 DEF At
    <3>2. CASE u # t
      <4>1. ~At(u, {"decrement", "markForInstalling", "enqueueOutput"}) \/ u = "main"
        BY <1>3, <3>2 DEF At, Thread
      <4>2. ~At(u, {"enqueueOutput"}) /\ ~At(u, {"decrement", "markForInstalling"})
        <5>1. CASE u = "main"
          BY <1>1, <1>3, <3>2, <5>1, WhoWorks DEF At
        <5> QED BY <4>1, <5>1 DEF At
      <4> QED BY <1>2, <3>2, <4>2 DEF At
    <3> QED BY <3>1, <3>2
  <2>7. JobsOK'
    BY <2>6 DEF JobsOK
  <2>8. (MainOK /\ PatchesOK /\ ListOK)'
    BY <1>1, <1>2, <1>3, <1>9, <2>1
       DEF Alone, MainOK, PatchesOK, ListOK, One, IsOptimized, Pending, NotIn, At, Thread
  <2> QED BY <2>5, <2>7, <2>8 DEF Alone
<1> QED BY <1>2, <1>5, <1>6, <1>7, <1>8, <1>9 DEF IInv

\* What one thread does is nothing to the jobs, where only its place changes and it has none.
LEMMA IdleStepAlone ==
  ASSUME IInv, Alone, UNCHANGED <<functions, input, output>>,
         NEW t \in Thread, pc[t] \notin Holding, pc'[t] \notin Holding,
         \A u \in Thread : u # t => pc'[u] = pc[u] /\ fn'[u] = fn[u]
  PROVE  Alone'
<1>1. (QueuesOK /\ ListOK)'
  BY DEF Alone, QueuesOK, EachOnce, ListOK, One, IsOptimized, functions
<1>2. JobsOK'
  BY DEF Alone, JobsOK, NotIn, At, functions, Holding
<1>3. (MainOK /\ PatchesOK)'
  BY DEF Alone, MainOK, PatchesOK, Pending, NotIn, At, functions, Holding, Thread
<1> QED BY <1>1, <1>2, <1>3 DEF Alone

\* Nor to who waits for a job.
LEMMA IdleStep ==
  ASSUME IInv, UNCHANGED <<functions, input, output>>,
         NEW t \in Thread, pc[t] \notin Holding,
         \A u \in Thread : u # t => pc'[u] = pc[u] /\ fn'[u] = fn[u]
  PROVE  WaitersHaveJobs'
BY DEF IInv, WaitersHaveJobs, At, functions, Holding, Thread

\* The worker takes a token.
LEMMA WaitForInputInv ==
  ASSUME IInv, WaitForInput
  PROVE  IInv' /\ (Alone => Alone')
<1> DEFINE n == Len(input)
<1>1. /\ pc["worker"] = "wait" /\ tokens > 0 /\ tokens' = tokens - 1
      /\ UNCHANGED <<functions, input, output, length, stopping>>
      /\ Goto("worker", "checkStop", fn["worker"])
      /\ fn["worker"] \in Function \cup {NoFunction}
  BY DEF WaitForInput, Step, IInv, Places, Thread
<1>2. /\ pc'["worker"] = "checkStop" /\ pc'["main"] = pc["main"] /\ fn'["main"] = fn["main"]
      /\ Places'
  BY <1>1, WorkerMoved DEF IInv, WorkerPlaces, Holding
<1>3. (Data /\ Listed)'
  BY <1>1 DEF IInv, Data, Listed, IsOptimized, functions, stopping
<1>4. (LengthOK /\ TokensOK)'
  <2>1. Len(input)' = n /\ length' = length
    BY <1>1
  <2>2. /\ n \in Nat /\ length \in Int /\ tokens \in Nat
        /\ length = n + One(At("main", {"markInQueue", "enqueue"}))
                      + One(At("main", {"decrement"})) + One(At("worker", {"decrement"}))
        /\ length <= QueueLength /\ (At("main", {"increment"}) => length < QueueLength)
        /\ ~At("worker", {"gone"}) =>
             tokens + One(At("worker", {"checkStop", "dequeue"})) + One(At("main", {"signal"}))
               = n + One(At("main", {"stopWaits"}))
        /\ At("worker", {"dequeue"}) /\ At("main", {"stopWaits"}) => tokens > 0
    BY Counted
  <2> HIDE DEF n, IInv
  <2>3. LengthOK'
    BY <1>1, <1>2, <2>1, <2>2 DEF LengthOK, At, One
  <2>4. TokensOK'
    BY <1>1, <1>2, <2>1, <2>2 DEF TokensOK, At, One
  <2> QED BY <2>3, <2>4
<1>5. StopOK'
  BY <1>1, <1>2 DEF IInv, StopOK, At, One, Stopping, Draining, stopping
<1>6. WaitersHaveJobs' /\ (Alone => Alone')
  BY <1>1, <1>2, IdleStep, IdleStepAlone DEF Holding, Thread
<1> QED BY <1>2, <1>3, <1>4, <1>5, <1>6 DEF IInv

\* The worker goes for a job, or is gone: the token was Stop's at the latest then.
LEMMA CheckStopInv ==
  ASSUME IInv, CheckStop
  PROVE  IInv' /\ (Alone => Alone')
<1> DEFINE n == Len(input)
           where == IF stopThread THEN "gone" ELSE "dequeue"
<1>1. /\ pc["worker"] = "checkStop" /\ UNCHANGED <<functions, queues, stopThread>>
      /\ Goto("worker", where, fn["worker"])
      /\ stopTokens' = IF stopThread THEN stopTokens + 1 ELSE stopTokens
      /\ fn["worker"] \in Function \cup {NoFunction}
  BY DEF CheckStop, Step, IInv, Places, Thread
<1>2. /\ pc'["worker"] = where /\ pc'["main"] = pc["main"] /\ fn'["main"] = fn["main"]
      /\ Places'
  BY <1>1, WorkerMoved DEF IInv, WorkerPlaces, Holding
<1>3. (Data /\ Listed)'
  BY <1>1 DEF IInv, Data, Listed, IsOptimized, functions, queues
<1>4. (LengthOK /\ TokensOK)'
  <2>1. Len(input)' = n /\ length' = length /\ tokens' = tokens
    BY <1>1 DEF queues
  <2>2. /\ n \in Nat /\ length \in Int /\ tokens \in Nat
        /\ length = n + One(At("main", {"markInQueue", "enqueue"}))
                      + One(At("main", {"decrement"})) + One(At("worker", {"decrement"}))
        /\ length <= QueueLength /\ (At("main", {"increment"}) => length < QueueLength)
        /\ ~At("worker", {"gone"}) =>
             tokens + One(At("worker", {"checkStop", "dequeue"})) + One(At("main", {"signal"}))
               = n + One(At("main", {"stopWaits"}))
        /\ At("worker", {"dequeue"}) /\ At("main", {"stopWaits"}) => tokens > 0
    BY Counted
  <2>3. stopThread <=> At("main", Stopping)
    BY DEF IInv, StopOK
  <2> HIDE DEF n, IInv
  <2>4. LengthOK'
    BY <1>1, <1>2, <2>1, <2>2 DEF LengthOK, At, One
  <2>5. TokensOK'
    BY <1>1, <1>2, <2>1, <2>2, <2>3 DEF TokensOK, At, One, Stopping
  <2> QED BY <2>4, <2>5
<1>5. StopOK'
  <2>1. CASE stopThread
    BY <1>1, <1>2, <2>1 DEF IInv, Data, StopOK, At, One, Stopping, Draining, queues
  <2>2. CASE ~stopThread
    BY <1>1, <1>2, <2>2 DEF IInv, Data, StopOK, At, One, Stopping, Draining, queues
  <2> QED BY <2>1, <2>2
<1>6. WaitersHaveJobs' /\ (Alone => Alone')
  <2>1. UNCHANGED <<functions, input, output>>
    BY <1>1 DEF queues
  <2> QED BY <1>1, <1>2, <2>1, IdleStep, IdleStepAlone DEF Holding, Thread
<1> QED BY <1>2, <1>3, <1>4, <1>5, <1>6 DEF IInv

----------------------------------------------------------------------------
(* Stop.                                                                    *)

\* What the steps of Stop that touch no job have in common.
LEMMA StopStep ==
  ASSUME IInv, UNCHANGED <<functions, input, output, length>>,
         NEW where \in MainPlaces \ Holding, pc["main"] \notin Holding,
         Goto("main", where, fn["main"]),
         tokens' \in Nat, stopTokens' \in Int, stopThread' \in BOOLEAN
  PROVE  /\ (Data /\ Listed /\ Places /\ WaitersHaveJobs)' /\ (Alone => Alone')
         /\ pc'["main"] = where /\ pc'["worker"] = pc["worker"]
<1>1. fn["main"] \in Function \cup {NoFunction}
  BY DEF IInv, Places, Thread
<1>2. /\ pc'["main"] = where /\ pc'["worker"] = pc["worker"] /\ fn'["worker"] = fn["worker"]
      /\ Places'
  BY <1>1, MainMoved DEF IInv
<1>3. (Data /\ Listed)'
  BY DEF IInv, Data, Listed, IsOptimized, functions
<1>4. WaitersHaveJobs' /\ (Alone => Alone')
  BY <1>2, IdleStep, IdleStepAlone DEF Thread
<1> QED BY <1>2, <1>3, <1>4

\* Stop, the signal for the worker, the wait until it is gone, and the loop that does its work.
LEMMA StopInv ==
  ASSUME IInv,
         StoreStop \/ SignalStop \/ WaitForWorker \/ Drain \/ InstalledAll("drainInstalls", "drain")
  PROVE  IInv' /\ (Alone => Alone')
<1> DEFINE n == Len(input)
           m == fn["main"]
<1>1. tokens \in Nat /\ stopTokens \in Int /\ stopThread \in BOOLEAN
  BY DEF IInv, Data
<1>2. CASE StoreStop
  <2>1. /\ pc["main"] = "js" /\ Goto("main", "stopSignals", m) /\ stopThread' = TRUE
        /\ UNCHANGED <<functions, input, output, length, tokens, stopTokens>>
    BY <1>2 DEF StoreStop, Step, queues
  <2>2. /\ (Data /\ Listed /\ Places /\ WaitersHaveJobs)' /\ (Alone => Alone')
        /\ pc'["main"] = "stopSignals" /\ pc'["worker"] = pc["worker"]
    BY <1>1, <2>1, StopStep DEF MainPlaces, Holding
  <2>3. (LengthOK /\ TokensOK /\ StopOK)'
    BY <1>1, <2>1, <2>2 DEF IInv, LengthOK, TokensOK, StopOK, At, One, Stopping, Draining
  <2> QED BY <2>2, <2>3 DEF IInv
<1>3. CASE SignalStop
  <2>1. /\ pc["main"] = "stopSignals" /\ Goto("main", "stopWaits", m) /\ tokens' = tokens + 1
        /\ UNCHANGED <<functions, input, output, length, stopThread, stopTokens>>
    BY <1>3 DEF SignalStop, Step, stopping
  <2>2. /\ (Data /\ Listed /\ Places /\ WaitersHaveJobs)' /\ (Alone => Alone')
        /\ pc'["main"] = "stopWaits" /\ pc'["worker"] = pc["worker"]
    BY <1>1, <2>1, StopStep DEF MainPlaces, Holding
  <2>3. (LengthOK /\ StopOK)'
    BY <1>1, <2>1, <2>2 DEF IInv, LengthOK, StopOK, At, One, Stopping, Draining
  <2>4. /\ n \in Nat
        /\ ~At("worker", {"gone"}) => tokens + One(At("worker", {"checkStop", "dequeue"})) = n
    BY <2>1 DEF IInv, Data, TokensOK, At, One
  <2>5. TokensOK'
    <3>1. Len(input)' = n
      BY <2>1
    <3> HIDE DEF n, IInv
    <3> QED BY <1>1, <2>1, <2>2, <2>4, <3>1 DEF TokensOK, At, One
  <2> QED BY <2>2, <2>3, <2>5 DEF IInv
<1>4. CASE WaitForWorker
  <2> DEFINE where == IF Delay THEN "drainInstalls" ELSE "stopped"
  <2>1. /\ pc["main"] = "stopWaits" /\ Goto("main", where, m) /\ stopTokens > 0
        /\ stopTokens' = stopTokens - 1
        /\ UNCHANGED <<functions, input, output, length, tokens, stopThread>>
    BY <1>4 DEF WaitForWorker, Step, queues
  <2>2. /\ (Data /\ Listed /\ Places /\ WaitersHaveJobs)' /\ (Alone => Alone')
        /\ pc'["main"] = where /\ pc'["worker"] = pc["worker"]
    BY <1>1, <2>1, StopStep DEF MainPlaces, Holding
  <2>3. pc["worker"] = "gone" /\ stopTokens = 1
    BY <2>1 DEF IInv, StopOK, At, One
  <2>4. (LengthOK /\ TokensOK)'
    BY <2>1, <2>2, <2>3 DEF IInv, LengthOK, TokensOK, At, One
  <2>5. StopOK'
    BY <2>1, <2>2, <2>3 DEF IInv, StopOK, At, One, Stopping, Draining
  <2> QED BY <2>2, <2>4, <2>5 DEF IInv
<1>5. CASE Drain
  <2> DEFINE where == IF length > 0 THEN "dequeue" ELSE "stopped"
  <2>1. /\ pc["main"] = "drain" /\ Goto("main", where, m)
        /\ UNCHANGED <<functions, input, output, length, tokens, stopThread, stopTokens>>
    BY <1>5 DEF Drain, Step, queues, stopping
  <2>2. /\ (Data /\ Listed /\ Places /\ WaitersHaveJobs)' /\ (Alone => Alone')
        /\ pc'["main"] = where /\ pc'["worker"] = pc["worker"]
    BY <1>1, <2>1, StopStep DEF MainPlaces, Holding
  <2>3. pc["worker"] = "gone" /\ output = <<>> /\ length \in Nat
    BY <2>1 DEF IInv, Data, StopOK, LengthOK, At, One, Stopping, Draining
  <2>4. (LengthOK /\ TokensOK)'
    BY <2>1, <2>2, <2>3 DEF IInv, LengthOK, TokensOK, At, One
  <2>5. StopOK'
    BY <2>1, <2>2, <2>3 DEF IInv, StopOK, At, One, Stopping, Draining
  <2> QED BY <2>2, <2>4, <2>5 DEF IInv
<1>6. CASE InstalledAll("drainInstalls", "drain")
  <2>1. /\ pc["main"] = "drainInstalls" /\ Goto("main", "drain", m) /\ output = <<>>
        /\ UNCHANGED <<functions, input, output, length, tokens, stopThread, stopTokens>>
    BY <1>6 DEF InstalledAll, Step, queues, stopping
  <2>2. /\ (Data /\ Listed /\ Places /\ WaitersHaveJobs)' /\ (Alone => Alone')
        /\ pc'["main"] = "drain" /\ pc'["worker"] = pc["worker"]
    BY <1>1, <2>1, StopStep DEF MainPlaces, Holding
  <2>3. (LengthOK /\ TokensOK /\ StopOK)'
    BY <1>1, <2>1, <2>2 DEF IInv, LengthOK, TokensOK, StopOK, At, One, Stopping, Draining
  <2> QED BY <2>2, <2>3 DEF IInv
<1> QED BY <1>2, <1>3, <1>4, <1>5, <1>6

----------------------------------------------------------------------------
(* Installing, and the profiler's mark.                                     *)

\* The oldest job in the output queue is taken, and its function is unoptimised or optimised: where
\* each closure has one job, it waits for no other.
LEMMA InstallNextInv ==
  ASSUME IInv, InstallNext
  PROVE  IInv' /\ (Alone => Alone')
<1> DEFINE f == Head(output)
           n == Len(output)
           q == output'
<1>1. /\ pc["main"] \in {"profileInstalls", "callInstalls", "drainInstalls"}
      /\ output # <<>> /\ q = Tail(output)
      /\ UNCHANGED <<patched, input, length, tokens, stopping, pc, fn>>
  BY DEF InstallNext, Installing, At
<1>2. /\ q \in Seq(Function) /\ Len(q) = n - 1 /\ n \in Nat \ {0}
      /\ f = output[1] /\ f \in Function
      /\ \A i \in 1..(n - 1) : q[i] = output[i + 1]
      /\ ToSet(output) = ToSet(q) \cup {f}
  BY <1>1, Taken DEF IInv, Data
<1>3. PICK c \in {"unoptimized", "optimized"} :
        ReplaceCode(f, c) /\ disabled' \in SUBSET Shared /\ cached' \in SUBSET Shared
  <2>1. InstallOptimizedCode(f)
    BY DEF InstallNext
  <2>2. SharedOf[f] \in Shared /\ disabled \in SUBSET Shared /\ cached \in SUBSET Shared
    BY <1>2, SharedOfAssumption DEF IInv, Data
  <2> HIDE DEF f
  <2> QED BY <2>1, <2>2 DEF InstallOptimizedCode
<1> HIDE DEF f, n
<1>4. /\ code' \in [Function -> Codes] /\ optimizedFunctions' \in [Function -> Nat]
      /\ code'[f] = c /\ \A g \in Function : g # f => code'[g] = code[g]
      /\ Listed' /\ (ListOK => ListOK')
  BY <1>2, <1>3, Replaced DEF IInv
<1>5. Data'
  BY <1>1, <1>2, <1>3, <1>4 DEF IInv, Data, stopping
<1>6. (Places /\ LengthOK /\ TokensOK)'
  BY <1>1 DEF IInv, Places, LengthOK, TokensOK, At
<1>7. StopOK'
  BY <1>1 DEF IInv, StopOK, At, Stopping, Draining, stopping
<1>8. WaitersHaveJobs'
  BY <1>1, <1>2, <1>4 DEF IInv, WaitersHaveJobs, At
<1>9. ASSUME Alone PROVE Alone'
  <2>1. /\ \A i, j \in 1..n : output[i] = output[j] => i = j
        /\ \A i \in 1..n : code[output[i]] = "installRecompiledCode"
        /\ EachOnce(input) /\ \A i \in 1..Len(input) : code[input[i]] = "inRecompileQueue"
    BY <1>9 DEF Alone, QueuesOK, EachOnce, n
  <2> HIDE DEF q
  <2>2. /\ 1 \in 1..n /\ \A i \in 1..(n - 1) : i + 1 \in 1..n /\ i + 1 # 1 /\ q[i] = output[i + 1]
    BY <1>2
  <2>3. code[f] = "installRecompiledCode" /\ \A i \in 1..(n - 1) : q[i] # f
    BY <1>2, <2>1, <2>2
  <2>4. \A i, j \in 1..(n - 1) : q[i] = q[j] => i = j
    BY <2>1, <2>2
  <2>5. \A i \in 1..(n - 1) : q[i] \in Function /\ code'[q[i]] = "installRecompiledCode"
    <3>1. \A i \in 1..(n - 1) : q[i] \in Function
      BY <1>2
    <3>2. \A i \in 1..(n - 1) : code[q[i]] = "installRecompiledCode"
      BY <2>1, <2>2
    <3> QED BY <1>4, <2>3, <3>1, <3>2
  <2>6. \A i \in 1..Len(input) : input[i] \in Function /\ code'[input[i]] = "inRecompileQueue"
    BY <1>4, <2>1, <2>3 DEF IInv, Data
  <2>7. QueuesOK'
    <3>1. EachOnce(q) /\ \A i \in 1..Len(q) : code'[q[i]] = "installRecompiledCode"
      BY <1>2, <2>4, <2>5 DEF EachOnce
    <3>2. input' = input
      BY <1>1
    <3> QED BY <2>1, <2>6, <3>1, <3>2 DEF QueuesOK, EachOnce, q
  <2>8. JobsOK'
    <3>1. ASSUME NEW u \in Thread, At(u, {"decrement", "markForInstalling", "enqueueOutput"})
          PROVE  fn[u] \in Function
      BY <3>1 DEF IInv, Places, Holding, At
    <3>2. ASSUME NEW u \in Thread, At(u, {"decrement", "markForInstalling"})
          PROVE  code'[fn[u]] = "inRecompileQueue" /\ NotIn(fn[u], input)
      <4>1. code[fn[u]] = "inRecompileQueue" /\ NotIn(fn[u], input) /\ fn[u] \in Function
        BY <1>9, <3>1, <3>2 DEF Alone, JobsOK, At
      <4> QED BY <1>4, <2>3, <4>1
    <3>3. ASSUME NEW u \in Thread, At(u, {"enqueueOutput"})
          PROVE  code'[fn[u]] = "installRecompiledCode" /\ NotIn(fn[u], q)
      <4>1. code[fn[u]] = "installRecompiledCode" /\ NotIn(fn[u], output) /\ fn[u] \in Function
        BY <1>9, <3>1, <3>3 DEF Alone, JobsOK, At
      <4>2. fn[u] # f /\ NotIn(fn[u], q)
        BY <1>2, <2>2, <4>1 DEF NotIn, n
      <4> QED BY <1>4, <4>1, <4>2
    <3> QED BY <1>1, <3>2, <3>3 DEF JobsOK, At, NotIn, q
  <2>9. MainOK'
    BY <1>1 DEF MainOK, At
  <2>10. PatchesOK'
    BY <1>1, <1>4, <1>9, <2>3 DEF Alone, PatchesOK, Pending, At
  <2> QED BY <1>4, <1>9, <2>7, <2>8, <2>9, <2>10 DEF Alone
<1> QED BY <1>4, <1>5, <1>6, <1>7, <1>8, <1>9 DEF IInv

\* The profiler marks a function: it is not optimised, and has no job, if its code is its own.
LEMMA MarkForParallelRecompilationInv ==
  ASSUME IInv, MarkForParallelRecompilation
  PROVE  IInv' /\ (Alone => Alone')
<1> DEFINE f == fn["main"]
<1>1. /\ pc["main"] = "markForRecompilation" /\ f \in Function
      /\ UNCHANGED <<queues, stopping, optimizedFunctions, disabled, patched, cached>>
      /\ code' = [code EXCEPT ![f] = "parallelRecompile"] /\ Goto("main", "profile", NoFunction)
  BY DEF MarkForParallelRecompilation, Mark, IInv, Places, Holding, Thread
<1>2. /\ pc'["main"] = "profile" /\ pc'["worker"] = pc["worker"] /\ fn'["worker"] = fn["worker"]
      /\ Places'
  BY <1>1, MainMoved DEF IInv, MainPlaces, Holding
<1>3. /\ code' \in [Function -> Codes] /\ code'[f] = "parallelRecompile"
      /\ \A g \in Function : g # f => code'[g] = code[g]
  BY <1>1 DEF IInv, Data, Codes
<1>4. (Data /\ Listed)'
  BY <1>1, <1>3 DEF IInv, Data, Listed, IsOptimized, queues, stopping
<1>5. (LengthOK /\ TokensOK /\ StopOK)'
  BY <1>1, <1>2 DEF IInv, LengthOK, TokensOK, StopOK, At, One, Stopping, Draining, queues, stopping
<1>6. WaitersHaveJobs'
  BY <1>1, <1>2, <1>3 DEF IInv, WaitersHaveJobs, At, Thread, queues
<1>7. ASSUME Alone PROVE Alone'
  <2>1. code[f] = "unoptimized"
    BY <1>1, <1>7 DEF Alone, MainOK, At
  <2>2. /\ input' = input /\ output' = output
        /\ input \in Seq(Function) /\ output \in Seq(Function)
    BY <1>1 DEF queues, IInv, Data
  <2>3. QueuesOK'
    BY <1>3, <1>7, <2>1, <2>2 DEF Alone, QueuesOK, EachOnce
  <2>4. JobsOK'
    <3>1. At("worker", {"decrement", "markForInstalling", "enqueueOutput"}) =>
            fn["worker"] \in Function
      BY DEF IInv, Places, Holding, At, Thread
    <3> QED BY <1>2, <1>3, <1>7, <2>1, <2>2, <3>1 DEF Alone, JobsOK, NotIn, At, Thread
  <2>5. (MainOK /\ PatchesOK)'
    BY <1>1, <1>2, <1>3, <1>7 DEF Alone, MainOK, PatchesOK, Pending, At
  <2>6. ListOK'
    BY <1>1, <1>3, <1>7, <2>1 DEF Alone, ListOK, One, IsOptimized
  <2> QED BY <2>3, <2>4, <2>5, <2>6 DEF Alone
<1> QED BY <1>2, <1>4, <1>5, <1>6, <1>7 DEF IInv

----------------------------------------------------------------------------
(* The theorems.                                                            *)

\* At the start there is no job and nothing is optimised.
LEMMA InitInv == Init => IInv /\ Alone
<1> SUFFICES ASSUME Init PROVE IInv /\ Alone
  OBVIOUS
<1>1. /\ code = [f \in Function |-> "unoptimized"]
      /\ optimizedFunctions = [f \in Function |-> 0]
      /\ disabled = {} /\ patched = {} /\ cached = {}
      /\ input = <<>> /\ output = <<>> /\ length = 0 /\ tokens = 0
      /\ stopThread = FALSE /\ stopTokens = 0
      /\ pc = [t \in Thread |-> IF t = "main" THEN "js" ELSE "wait"]
      /\ fn = [t \in Thread |-> NoFunction]
  BY DEF Init
<1>2. pc["main"] = "js" /\ pc["worker"] = "wait" /\ Len(input) = 0 /\ Len(output) = 0
  BY <1>1 DEF Thread
<1>3. Data /\ Listed
  <2>1. /\ code \in [Function -> Codes] /\ optimizedFunctions \in [Function -> Nat]
        /\ disabled \in SUBSET Shared /\ patched \in SUBSET Shared /\ cached \in SUBSET Shared
    BY <1>1 DEF Codes
  <2>2. input \in Seq(Function) /\ output \in Seq(Function)
    BY <1>1
  <2>3. length \in Int /\ tokens \in Nat /\ stopTokens \in Int
    BY <1>1
  <2>4. stopThread \in BOOLEAN
    BY <1>1, Zenon
  <2>5. Listed
    BY <1>1 DEF Listed, IsOptimized
  <2> QED BY <2>1, <2>2, <2>3, <2>4, <2>5 DEF Data
<1>4. Places
  BY <1>1, <1>2 DEF Places, Thread, MainPlaces, WorkerPlaces, Holding
<1>5. LengthOK /\ TokensOK
  BY <1>1, <1>2, QueueLengthAssumption DEF LengthOK, TokensOK, At, One
<1>6. StopOK
  BY <1>1, <1>2 DEF StopOK, At, One, Stopping, Draining
<1>7. WaitersHaveJobs
  BY <1>1 DEF WaitersHaveJobs
<1>8. QueuesOK /\ JobsOK /\ MainOK
  BY <1>1, <1>2 DEF QueuesOK, EachOnce, JobsOK, MainOK, At, Thread
<1>9. PatchesOK /\ ListOK
  BY <1>1 DEF PatchesOK, ListOK, IsOptimized, One
<1> QED BY <1>3, <1>4, <1>5, <1>6, <1>7, <1>8, <1>9 DEF IInv, Alone

\* Each step keeps the invariant, and each closure's one job.
LEMMA NextInv ==
  ASSUME IInv, Next
  PROVE  IInv' /\ (LoopsOfOneClosure /\ Alone => Alone')
<1>1. CASE MainContinues
  <2>1. CASE Queueing
    BY <2>1, IncrementLengthInv, MarkInRecompileQueueInv, EnqueueInputInv, SignalInputInv,
       RevertStackCheckInv DEF Queueing
  <2>2. CASE InstallNext
    BY <2>2, InstallNextInv
  <2>3. CASE \/ InstalledAll("profileInstalls", "profile")
             \/ InstalledAll("callInstalls", "callCheck") \/ RetryInstall
    BY <2>3, QuietInv
  <2>4. CASE MarkForParallelRecompilation
    BY <2>4, MarkForParallelRecompilationInv
  <2>5. CASE SignalStop \/ WaitForWorker \/ Drain \/ InstalledAll("drainInstalls", "drain")
    BY <2>5, StopInv
  <2>6. CASE CompileNext("main")
    BY <2>6, DequeueInputInv, DecrementLengthInv, MarkForInstallingInv, EnqueueOutputInv
       DEF CompileNext, Thread
  <2> QED BY <1>1, <2>1, <2>2, <2>3, <2>4, <2>5, <2>6 DEF MainContinues
<1>2. CASE MainBegins
  <2>1. ASSUME NEW f \in Function,
               \/ RefusedAsDisabled(f) \/ FoundInCodeMap(f)
               \/ CreateGraphBailsOut(f) \/ CreateGraphFails(f)
        PROVE  IInv' /\ (LoopsOfOneClosure /\ Alone => Alone')
    BY <2>1, RecompileInv
  <2>2. ASSUME NEW f \in Function, CreateGraph(f) \/ CallMarkedForInstalling(f) \/ Optimize(f)
        PROVE  IInv' /\ (LoopsOfOneClosure /\ Alone => Alone')
    BY <2>2, QuietInv
  <2>3. ASSUME NEW f \in Function, AttemptOnStackReplacement(f) \/ TryReenableOptimization(f)
        PROVE  IInv' /\ (LoopsOfOneClosure /\ Alone => Alone')
    BY <2>3, ProfileInv
  <2>4. ASSUME NEW f \in Function, CompileForOnStackReplacement(f)
        PROVE  IInv' /\ (LoopsOfOneClosure /\ Alone => Alone')
    BY <2>4, OnStackReplacementInv
  <2>5. ASSUME NEW f \in Function, NEW fs \in SUBSET Function, Deoptimize(f, fs)
        PROVE  IInv' /\ (LoopsOfOneClosure /\ Alone => Alone')
    BY <2>5, DeoptimizeInv
  <2>6. CASE Tick \/ ProfileEnds
    BY <2>6, QuietInv
  <2>7. CASE StoreStop
    BY <2>7, StopInv
  <2> QED BY <1>2, <2>1, <2>2, <2>3, <2>4, <2>5, <2>6, <2>7 DEF MainBegins
<1>3. CASE Worker
  BY <1>3, WaitForInputInv, CheckStopInv, DequeueInputInv, DecrementLengthInv,
     MarkForInstallingInv, EnqueueOutputInv DEF Worker, CompileNext, Thread
<1> QED BY <1>1, <1>2, <1>3 DEF Next

\* A step of nobody keeps both.
LEMMA StutterInv ==
  ASSUME IInv, UNCHANGED vars
  PROVE  IInv' /\ (Alone => Alone')
<1> USE DEF vars, functions, queues, stopping
<1>1. (Data /\ Listed /\ Places)'
  BY DEF IInv, Data, Listed, IsOptimized, Places
<1>2. (LengthOK /\ TokensOK /\ StopOK)'
  BY DEF IInv, LengthOK, TokensOK, StopOK, At
<1>3. WaitersHaveJobs'
  BY DEF IInv, WaitersHaveJobs, At
<1>4. ASSUME Alone PROVE Alone'
  BY <1>4 DEF Alone, QueuesOK, EachOnce, JobsOK, MainOK, NotIn, PatchesOK, Pending, ListOK, One,
              IsOptimized, At
<1> QED BY <1>1, <1>2, <1>3, <1>4 DEF IInv

\* What holds of the code of one closure holds as long as loops are not shared.
AloneInv == LoopsOfOneClosure => Alone

\* The two invariants hold in every state, for any closures, queue length and flags.
THEOREM Invariance == Spec => [](IInv /\ AloneInv)
<1>1. Init => IInv /\ AloneInv
  BY InitInv DEF AloneInv
<1>2. IInv /\ AloneInv /\ [Next]_vars => (IInv /\ AloneInv)'
  BY NextInv, StutterInv DEF AloneInv, LoopsOfOneClosure
<1> QED BY <1>1, <1>2, PTL DEF Spec

\* The types, among them that queue_length_ stays between 0 and the flag although the main thread
\* checks it without a barrier, and that a semaphore of Stop counts one at most.
THEOREM TypeCorrect == Spec => []TypeOK
<1>1. IInv => TypeOK
  <2> SUFFICES ASSUME IInv PROVE TypeOK
    OBVIOUS
  <2>1. length \in 0..QueueLength
    <3> DEFINE n == Len(input)
    <3>1. /\ n \in Nat /\ length \in Int /\ length <= QueueLength
          /\ length = n + One(At("main", {"markInQueue", "enqueue"}))
                        + One(At("main", {"decrement"})) + One(At("worker", {"decrement"}))
      BY Counted
    <3> HIDE DEF n, IInv
    <3> QED BY <3>1, QueueLengthAssumption DEF One
  <2>2. stopTokens \in 0..1
    BY DEF IInv, StopOK, One
  <2>3. /\ pc["worker"] \in WorkerPlaces /\ pc["main"] \in MainPlaces
        /\ fn \in [Thread -> Function \cup {NoFunction}]
    BY DEF IInv, Places
  <2>4. /\ code \in [Function -> Codes] /\ optimizedFunctions \in [Function -> Nat]
        /\ {disabled, patched, cached} \subseteq SUBSET Shared
        /\ input \in Seq(Function) /\ output \in Seq(Function)
        /\ tokens \in Nat /\ stopThread \in BOOLEAN
    BY DEF IInv, Data
  <2> QED BY <2>1, <2>2, <2>3, <2>4 DEF TypeOK, Codes, MainPlaces, WorkerPlaces
<1> QED BY <1>1, Invariance, PTL

\* The worker, which does not ask whether there is a job, and the main thread in Stop's loop, which
\* goes by queue_length_, find one whenever they take one.
THEOREM JobFound == Spec => []DequeueFindsJob
<1>1. IInv => DequeueFindsJob
  <2> SUFFICES ASSUME IInv, NEW t \in Thread, At(t, {"dequeue"}) PROVE input # <<>>
    BY DEF DequeueFindsJob
  <2> DEFINE n == Len(input)
  <2>1. /\ n \in Nat /\ length \in Int /\ tokens \in Nat
        /\ length = n + One(At("main", {"markInQueue", "enqueue"}))
                      + One(At("main", {"decrement"})) + One(At("worker", {"decrement"}))
        /\ ~At("worker", {"gone"}) =>
             tokens + One(At("worker", {"checkStop", "dequeue"})) + One(At("main", {"signal"}))
               = n + One(At("main", {"stopWaits"}))
        /\ At("worker", {"dequeue"}) /\ At("main", {"stopWaits"}) => tokens > 0
    BY Counted
  <2>2. At("main", {"dequeue"}) => length > 0 /\ At("worker", {"gone"})
    BY DEF IInv, StopOK, At, Stopping, Draining
  <2>3. n > 0
    <3> HIDE DEF n, IInv
    <3>1. CASE t = "main"
      BY <2>1, <2>2, <3>1 DEF At, One
    <3>2. CASE t = "worker"
      BY <2>1, <3>2 DEF At, One
    <3> QED BY <3>1, <3>2 DEF Thread
  <2> QED BY <2>3
<1> QED BY <1>1, Invariance, PTL

\* A function that waits, in the queue or for the installation, has a job that will end that.
THEOREM WaitersServed == Spec => []WaitersHaveJobs
<1>1. IInv => WaitersHaveJobs
  BY DEF IInv
<1> QED BY <1>1, Invariance, PTL

\* With a delay Stop leaves nothing in the queues and no function waiting.
THEOREM Drained == Spec => []DrainedAtStop
<1>1. IInv => DrainedAtStop
  <2> SUFFICES ASSUME IInv, Delay, At("main", {"stopped"})
               PROVE  /\ input = <<>> /\ output = <<>> /\ length = 0
                      /\ \A f \in Function : code[f] \notin {"inRecompileQueue", "installRecompiledCode"}
    BY DEF DrainedAtStop
  <2>1. /\ At("worker", {"gone"}) /\ output = <<>> /\ length = 0
    BY DEF IInv, StopOK, At, Stopping, Draining
  <2>2. Len(input) = 0 /\ input \in Seq(Function)
    <3> DEFINE n == Len(input)
    <3>1. /\ n \in Nat /\ input \in Seq(Function)
          /\ length = n + One(At("main", {"markInQueue", "enqueue"}))
                        + One(At("main", {"decrement"})) + One(At("worker", {"decrement"}))
      BY Counted DEF IInv, Data
    <3>2. n = 0
      <4> HIDE DEF n, IInv
      <4> QED BY <2>1, <3>1 DEF One, At
    <3> QED BY <3>1, <3>2
  <2>3. input = <<>>
    BY <2>2
  <2>4. ToSet(input) = {} /\ ToSet(output) = {}
    BY <2>1, <2>3 DEF ToSet
  <2>5. \A f \in Function : code[f] \notin {"inRecompileQueue", "installRecompiledCode"}
    BY <2>1, <2>4 DEF IInv, WaitersHaveJobs, At, Thread
  <2> QED BY <2>1, <2>3, <2>5
<1> QED BY <1>1, Invariance, PTL

\* As long as closures of one literal do not share code with loops, the mark functions never meet
\* optimised code.
THEOREM MarksAreRight == Spec => [](LoopsOfOneClosure => MarksUnoptimized)
<1>1. IInv /\ AloneInv => (LoopsOfOneClosure => MarksUnoptimized)
  <2> SUFFICES ASSUME IInv, Alone, NEW t \in Thread,
                      At(t, {"markForRecompilation", "markInQueue", "markForInstalling"})
               PROVE  ~IsOptimized(fn[t])
    BY DEF AloneInv, MarksUnoptimized
  <2>1. CASE At(t, {"markForInstalling"})
    BY <2>1 DEF Alone, JobsOK, At, IsOptimized
  <2>2. CASE At(t, {"markForRecompilation", "markInQueue"})
    <3>1. t = "main"
      BY <2>2 DEF IInv, Places, WorkerPlaces, At, Thread
    <3> QED BY <2>2, <3>1 DEF Alone, MainOK, At, IsOptimized
  <2> QED BY <2>1, <2>2 DEF At
<1> QED BY <1>1, Invariance, PTL

\* And the list of optimised functions holds the functions that are, each once: the finding about
\* ListedOnce needs the closures of a literal with loops.
THEOREM ListIsRight == Spec => [](LoopsOfOneClosure => ListIsExact /\ ListedOnce)
<1>1. IInv /\ AloneInv => (LoopsOfOneClosure => ListIsExact /\ ListedOnce)
  BY DEF AloneInv, Alone, ListOK, ListIsExact, ListedOnce, One
<1> QED BY <1>1, Invariance, PTL
=============================================================================

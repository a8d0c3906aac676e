---------------------------- MODULE UnboundQueue ----------------------------
(***************************************************************************)
(* The lock-free queue that passes records from one thread to another.  The *)
(* nodes form a list first_ ... divider_ ... last_: the producer owns the   *)
(* part before divider_, whose nodes it deletes, the consumer the rest, of  *)
(* which it leaves divider_ itself in place.  Each action is one access to  *)
(* memory that the other thread may see.  An address is free again once its *)
(* node is deleted.                                                         *)
(***************************************************************************)
EXTENDS Integers, Sequences, FiniteSets

CONSTANTS
  Node,          \* addresses for nodes
  Null,
  MaxRecords     \* bound: records sent

ASSUME NodeAssumption == IsFiniteSet(Node) /\ Null \notin Node
ASSUME RecordsAssumption == MaxRecords \in Nat

VARIABLES
  nodes,     \* the value and the next pointer of each node
  live,      \* the addresses allocated
  q,         \* first_, divider_ and last_
  producer,  \* where the producer is in Enqueue or ~UnboundQueue
  consumer,  \* where the consumer is in IsEmpty and Dequeue
  sent,      \* how many records were put in
  received   \* the records taken out, in order

vars == <<nodes, live, q, producer, consumer, sent, received>>

\* early: the next pointer was loaded before last_.
Idle == [pc |-> "idle", early |-> FALSE, next |-> Null, rec |-> 0]

Init ==
  /\ \E n \in Node : live = {n} /\ q = [first |-> n, divider |-> n, last |-> n]
  /\ nodes = [n \in Node |-> [value |-> 0, next |-> Null]]
  /\ producer = [pc |-> "idle", node |-> Null]
  /\ consumer = Idle
  /\ sent = 0
  /\ received = <<>>

----------------------------------------------------------------------------
(* Enqueue.                                                                 *)

EnqueueLink ==
  /\ producer.pc = "idle" /\ sent < MaxRecords
  /\ \E n \in Node \ live :
       /\ live' = live \cup {n}
       /\ nodes' = [nodes EXCEPT ![n] = [value |-> sent + 1, next |-> Null],
                                 ![q.last].next = n]
       /\ producer' = [pc |-> "publish", node |-> n]
  /\ UNCHANGED <<q, consumer, sent, received>>

EnqueuePublish ==
  /\ producer.pc = "publish"
  /\ q' = [q EXCEPT !.last = producer.node]
  /\ sent' = sent + 1
  /\ producer' = [producer EXCEPT !.pc = "clean"]
  /\ UNCHANGED <<nodes, live, consumer, received>>

Deleted(n) == live' = live \ {n} /\ q' = [q EXCEPT !.first = nodes[n].next]

(* The loop that runs to last_ instead of divider_, and the one that forgets *)
(* to move first_.                                                           *)
EnqueueClean_PastDivider ==
  /\ producer.pc = "clean" /\ q.first # q.last
  /\ Deleted(q.first)
  /\ UNCHANGED <<nodes, producer, consumer, sent, received>>

EnqueueClean_FirstStays ==
  /\ producer.pc = "clean" /\ q.first # q.divider
  /\ live' = live \ {q.first}
  /\ UNCHANGED <<nodes, q, producer, consumer, sent, received>>

EnqueueClean ==
  /\ producer.pc = "clean" /\ q.first # q.divider
  /\ Deleted(q.first)
  /\ UNCHANGED <<nodes, producer, consumer, sent, received>>

EnqueueReturns ==
  /\ producer.pc = "clean" /\ q.first = q.divider
  /\ producer' = [pc |-> "idle", node |-> Null]
  /\ UNCHANGED <<nodes, live, q, consumer, sent, received>>

----------------------------------------------------------------------------
(* The consumer's IsEmpty and Dequeue.                                      *)

(* The load of divider_->next, ahead of the load of last_ by IsEmpty: what a *)
(* machine that reorders loads may do, and one that does not never does.    *)
LoadNextEarly ==
  /\ consumer.pc = "idle"
  /\ consumer' = [consumer EXCEPT !.pc = "loaded", !.early = TRUE, !.next = nodes[q.divider].next]
  /\ UNCHANGED <<nodes, live, q, producer, sent, received>>

IsEmpty ==
  /\ consumer.pc = "loaded" /\ q.divider = q.last
  /\ consumer' = Idle
  /\ UNCHANGED <<nodes, live, q, producer, sent, received>>

(* IsEmpty that looks at first_, behind which the consumer may be ahead.    *)
NotEmpty_OfFirst ==
  /\ consumer.pc \in {"idle", "loaded"} /\ q.first # q.last
  /\ consumer' = [consumer EXCEPT !.pc = IF @ = "idle" THEN "next" ELSE "value"]
  /\ UNCHANGED <<nodes, live, q, producer, sent, received>>

NotEmpty ==
  /\ consumer.pc \in {"idle", "loaded"} /\ q.divider # q.last
  /\ consumer' = [consumer EXCEPT !.pc = IF @ = "idle" THEN "next" ELSE "value"]
  /\ UNCHANGED <<nodes, live, q, producer, sent, received>>

DequeueNext ==
  /\ consumer.pc = "next"
  /\ consumer' = [consumer EXCEPT !.pc = "value", !.next = nodes[q.divider].next]
  /\ UNCHANGED <<nodes, live, q, producer, sent, received>>

(* Dequeue that takes the value of the node divider_ itself.                *)
DequeueValue_OfDivider ==
  /\ consumer.pc = "value" /\ consumer.next # Null
  /\ consumer' = [consumer EXCEPT !.pc = "advance", !.rec = nodes[q.divider].value]
  /\ UNCHANGED <<nodes, live, q, producer, sent, received>>

DequeueValue ==
  /\ consumer.pc = "value" /\ consumer.next # Null
  /\ consumer' = [consumer EXCEPT !.pc = "advance", !.rec = nodes[consumer.next].value]
  /\ UNCHANGED <<nodes, live, q, producer, sent, received>>

(* Dequeue that moves divider_ past the node it has read.                   *)
DequeueAdvance_OnePast ==
  /\ consumer.pc = "advance"
  /\ q' = [q EXCEPT !.divider = nodes[consumer.next].next]
  /\ received' = Append(received, consumer.rec)
  /\ consumer' = Idle
  /\ UNCHANGED <<nodes, live, producer, sent>>

DequeueAdvance ==
  /\ consumer.pc = "advance"
  /\ q' = [q EXCEPT !.divider = consumer.next]
  /\ received' = Append(received, consumer.rec)
  /\ consumer' = Idle
  /\ UNCHANGED <<nodes, live, producer, sent>>

(* Peek: the consumer looks at the value and leaves the record in place.    *)
Peek ==
  /\ consumer.pc = "value" /\ consumer.next # Null
  /\ consumer' = Idle
  /\ UNCHANGED <<nodes, live, q, producer, sent, received>>

----------------------------------------------------------------------------
(* ~UnboundQueue, once both threads have let go of the queue.               *)

Destroy ==
  /\ producer.pc = "idle" /\ consumer.pc = "idle"
  /\ producer' = [producer EXCEPT !.pc = "destroy"]
  /\ consumer' = [consumer EXCEPT !.pc = "gone"]
  /\ UNCHANGED <<nodes, live, q, sent, received>>

(* The destructor of a queue that deletes only what the consumer has left.  *)
DestroyFirst_KeepsTail ==
  /\ producer.pc = "destroy"
  /\ IF q.first = q.divider
       THEN /\ q' = [q EXCEPT !.first = Null]
            /\ UNCHANGED live
       ELSE Deleted(q.first)
  /\ UNCHANGED <<nodes, producer, consumer, sent, received>>

DestroyFirst ==
  /\ producer.pc = "destroy" /\ q.first # Null
  /\ Deleted(q.first)
  /\ UNCHANGED <<nodes, producer, consumer, sent, received>>

(* The consumer has gone through a null pointer: the program is over.       *)
Crashed == consumer.pc = "value" /\ consumer.next = Null

ProducerRuns == ~Crashed /\ (EnqueuePublish \/ EnqueueClean \/ EnqueueReturns)

ConsumerRuns == IsEmpty \/ NotEmpty \/ DequeueNext \/ DequeueValue \/ DequeueAdvance

Next ==
  /\ ~Crashed
  /\ \/ EnqueueLink \/ EnqueuePublish \/ EnqueueClean \/ EnqueueReturns
     \/ LoadNextEarly \/ IsEmpty \/ NotEmpty
     \/ DequeueNext \/ DequeueValue \/ DequeueAdvance \/ Peek
     \/ Destroy \/ DestroyFirst

Spec == Init /\ [][Next]_vars

(* A thread inside a call goes on, and the consumer keeps asking and does   *)
(* not only peek.  Nothing makes the producer call Enqueue.                 *)
FairSpec ==
  /\ Spec
  /\ WF_vars(ProducerRuns)
  /\ WF_vars(ConsumerRuns) /\ SF_vars(DequeueValue)

----------------------------------------------------------------------------
(* The k-th node after n, Null past the end of the list.                    *)
Walk(n) ==
  LET node[k \in 0..Cardinality(Node)] ==
        IF k = 0 THEN n
        ELSE IF node[k - 1] = Null THEN Null ELSE nodes[node[k - 1]].next
  IN node

Reachable(n) == {Walk(n)[k] : k \in 0..Cardinality(Node)} \ {Null}

(* The records between divider_ and last_, in order.                        *)
Content ==
  LET node == Walk(q.divider)
      ends == {k \in DOMAIN node : node[k] = q.last}
      size == IF ends = {} THEN 0 ELSE CHOOSE k \in ends : \A j \in ends : k <= j
  IN  [i \in 1..size |-> nodes[node[i]].value]

Destroying == producer.pc = "destroy"

(* The pointers are nodes or Null and each thread is at a known place.      *)
TypeOK ==
  /\ nodes \in [Node -> [value : 0..MaxRecords, next : Node \cup {Null}]]
  /\ live \subseteq Node
  /\ q \in [first : Node \cup {Null}, divider : Node, last : Node]
  /\ producer \in [pc : {"idle", "publish", "clean", "destroy"}, node : Node \cup {Null}]
  /\ consumer \in [pc : {"idle", "loaded", "next", "value", "advance", "gone"},
                   early : BOOLEAN, next : Node \cup {Null}, rec : 0..MaxRecords]
  /\ sent \in 0..MaxRecords
  /\ received \in Seq(1..MaxRecords)

(* Neither thread touches a node that has been deleted: not divider_, whose *)
(* next the consumer loads, not the node it reads the value from, not the   *)
(* one the producer appends to (Enqueue, Dequeue, DeleteFirst).             *)
NoUseAfterFree ==
  /\ ~Destroying => {q.divider, q.last, q.first} \subseteq live
  /\ consumer.pc \in {"value", "advance"} => consumer.next \in live \cup {Null}
  /\ Destroying => q.first \in live \cup {Null}

(* Every node allocated is still on the list: the consumer deletes nothing, *)
(* and what it has passed is not lost before the producer, or in the end    *)
(* the destructor, deletes it (Enqueue, ~UnboundQueue).                     *)
NoLeak == live = Reachable(q.first)

(* A queue that IsEmpty has called not empty has a node for Dequeue, which  *)
(* goes through the pointer without looking at it.                          *)
DequeueFindsRecord == consumer.pc = "value" => consumer.next # Null

(* It has one wherever the next pointer was loaded after last_: Enqueue     *)
(* links a node before it publishes it.                                     *)
FindsRecordInOrder == ~consumer.early => DequeueFindsRecord

(* Enqueue comes to its end, although the consumer moves the divider_ that  *)
(* its loop runs to.                                                        *)
EnqueueEnds == producer.pc \in {"publish", "clean"} ~> producer.pc = "idle" \/ Crashed

Queue == INSTANCE Fifo WITH
  content <- IF Destroying \/ Crashed THEN <<>> ELSE Content,
  open <- ~Destroying /\ ~Crashed

(* Records come out once each, in the order they went in, and all of them   *)
(* do for a consumer that keeps asking, short of that crash.                *)
ImplementsFifo == Queue!Spec
=============================================================================

------------------------- MODULE UnboundQueue_proofs -------------------------
(***************************************************************************)
(* Proofs about UnboundQueue: the threads touch no deleted node and leak    *)
(* none, and the records come out as Fifo says, for any number of addresses *)
(* and records.  The records are numbered, and the number of its record     *)
(* gives each node on the list its place.                                   *)
(***************************************************************************)
EXTENDS UnboundQueue, FiniteSetTheorems, SequenceTheorems, WellFoundedInduction, TLAPS

----------------------------------------------------------------------------
(* The invariant.                                                           *)

Number(n) == nodes[n].value

\* The number of the newest node, which may not be published yet.
Newest == IF producer.pc = "publish" THEN sent + 1 ELSE sent

\* The nodes allocated are those of consecutive records, and linked in order.
ListOK ==
  /\ \A m, n \in live : Number(m) = Number(n) => m = n
  /\ \A n \in live : Number(n) <= Newest
  /\ \A n \in live : nodes[n].next = Null <=> Number(n) = Newest
  /\ \A n \in live : nodes[n].next # Null =>
       nodes[n].next \in live /\ Number(nodes[n].next) = Number(n) + 1

\* first_ is the oldest of them, and none is missing after it.
FirstOK ==
  /\ q.first = Null => live = {}
  /\ q.first # Null =>
       /\ q.first \in live
       /\ \A n \in live : Number(q.first) <= Number(n)
       /\ \A v \in Number(q.first) .. Newest : \E n \in live : Number(n) = v

\* divider_ is the last node that was taken, last_ the last published.
PlacesOK ==
  ~Destroying =>
    /\ q.first # Null
    /\ q.divider \in live /\ Number(q.divider) = Len(received)
    /\ q.last \in live /\ Number(q.last) = sent

ProducerOK ==
  /\ producer.pc = "publish" => producer.node \in live /\ Number(producer.node) = sent + 1
  /\ producer.pc = "publish" => sent < MaxRecords
  /\ Destroying <=> consumer.pc = "gone"

\* What the consumer has loaded of the node after divider_.
Loaded == consumer.next \in live /\ Number(consumer.next) = Len(received) + 1

ConsumerOK ==
  /\ consumer.pc = "idle" => consumer = Idle
  /\ consumer.pc = "loaded" => consumer.early /\ (consumer.next = Null \/ Loaded)
  /\ consumer.pc = "next" => ~consumer.early
  /\ consumer.pc \in {"next", "value", "advance"} => Len(received) < sent
  /\ consumer.pc = "value" => Loaded \/ (consumer.early /\ consumer.next = Null)
  /\ consumer.pc = "advance" => Loaded /\ consumer.rec = Len(received) + 1

ReceivedOK == Len(received) <= sent /\ \A i \in DOMAIN received : received[i] = i

IInv == TypeOK /\ ListOK /\ FirstOK /\ PlacesOK /\ ProducerOK /\ ConsumerOK /\ ReceivedOK

\* The empty queue satisfies the invariant.
LEMMA InitInv == Init => IInv
<1> SUFFICES ASSUME Init PROVE IInv
  OBVIOUS
<1> USE NodeAssumption, RecordsAssumption DEF Init, Idle
<1>1. TypeOK
  BY DEF TypeOK
<1>2. ListOK /\ FirstOK /\ PlacesOK
  BY DEF ListOK, FirstOK, PlacesOK, Number, Newest, Destroying
<1>3. ProducerOK /\ ConsumerOK /\ ReceivedOK
  BY DEF ProducerOK, ConsumerOK, ReceivedOK, Destroying, Loaded
<1> QED BY <1>1, <1>2, <1>3 DEF IInv

----------------------------------------------------------------------------
(* The producer.                                                            *)

\* A new node is linked behind last_, which the consumer does not pass.
LEMMA EnqueueLinkInv ==
  ASSUME IInv, EnqueueLink
  PROVE  IInv'
<1> USE NodeAssumption, RecordsAssumption DEF IInv
<1>1. PICK n \in Node \ live :
        /\ live' = live \cup {n}
        /\ nodes' = [nodes EXCEPT ![n] = [value |-> sent + 1, next |-> Null], ![q.last].next = n]
        /\ producer' = [pc |-> "publish", node |-> n]
  BY DEF EnqueueLink
<1>2. /\ producer.pc = "idle" /\ sent < MaxRecords
      /\ UNCHANGED <<q, consumer, sent, received>>
      /\ q.last \in live /\ Number(q.last) = sent
      /\ q.divider \in live /\ q.first # Null
  BY DEF EnqueueLink, PlacesOK, Destroying
<1>3. /\ nodes' \in [Node -> [value : 0..MaxRecords, next : Node \cup {Null}]]
      /\ \A m \in live : Number(m)' = Number(m)
      /\ Number(n)' = sent + 1 /\ nodes'[n].next = Null /\ nodes'[q.last].next = n
      /\ \A m \in live : m # q.last => nodes'[m].next = nodes[m].next
  <2>1. n # q.last /\ n \in Node /\ q.last \in Node /\ sent + 1 \in 0..MaxRecords
    BY <1>1, <1>2 DEF TypeOK
  <2>2. nodes \in [Node -> [value : 0..MaxRecords, next : Node \cup {Null}]]
    BY DEF TypeOK
  <2>3. \A m \in Node : nodes'[m] = IF m = n THEN [value |-> sent + 1, next |-> Null]
                                    ELSE IF m = q.last THEN [nodes[m] EXCEPT !.next = n] ELSE nodes[m]
    BY <1>1, <2>1, <2>2
  <2>4. nodes' \in [Node -> [value : 0..MaxRecords, next : Node \cup {Null}]]
    BY <1>1, <2>1, <2>2
  <2>5. \A m \in Node : m # n => nodes'[m].value = nodes[m].value
    BY <2>2, <2>3
  <2>6. nodes'[n].value = sent + 1 /\ nodes'[n].next = Null
    <3>1. nodes'[n] = [value |-> sent + 1, next |-> Null]
      BY <2>1, <2>3
    <3> QED BY <3>1
  <2>8. nodes'[q.last].next = n
    BY <2>1, <2>2, <2>3
  <2>7. \A m \in live : m \in Node /\ m # n
    BY <1>1 DEF TypeOK
  <2>9. \A m \in live : m # q.last => nodes'[m].next = nodes[m].next
    BY <2>3, <2>7
  <2> QED BY <2>4, <2>5, <2>6, <2>7, <2>8, <2>9 DEF Number
<1>4. Newest = sent /\ Newest' = sent + 1 /\ ~Destroying /\ ~Destroying'
  BY <1>1, <1>2 DEF Newest, Destroying
<1>5. sent \in Nat /\ \A m \in live : m \in Node /\ Number(m) \in Nat /\ m # n
  BY <1>1 DEF TypeOK, Number
<1>6. TypeOK'
  BY <1>1, <1>2, <1>3 DEF TypeOK
<1>7. ListOK'
  <2>1. \A a, b \in live' : Number(a)' = Number(b)' => a = b
    BY <1>1, <1>3, <1>4, <1>5 DEF ListOK
  <2>2. \A a \in live' : Number(a)' <= Newest'
    BY <1>1, <1>3, <1>4, <1>5 DEF ListOK
  <2>3. \A a \in live' : nodes'[a].next = Null <=> Number(a)' = Newest'
    BY <1>1, <1>2, <1>3, <1>4, <1>5 DEF ListOK
  <2>4. \A a \in live' : nodes'[a].next # Null =>
          nodes'[a].next \in live' /\ nodes'[nodes'[a].next].value = nodes'[a].value + 1
    <3> SUFFICES ASSUME NEW a \in live', nodes'[a].next # Null
                 PROVE  nodes'[a].next \in live' /\ nodes'[nodes'[a].next].value = nodes'[a].value + 1
      OBVIOUS
    <3>1. CASE a = q.last
      <4>1. nodes'[a].next = n /\ nodes'[n].value = sent + 1 /\ nodes'[a].value = sent
        BY <1>2, <1>3, <3>1 DEF Number
      <4> QED BY <1>1, <4>1
    <3>2. CASE a # q.last
      <4>1. a \in live /\ nodes'[a].next = nodes[a].next
        BY <1>1, <1>3, <3>2
      <4>2. nodes[a].next \in live /\ Number(nodes[a].next) = Number(a) + 1
        BY <4>1 DEF ListOK
      <4>3. nodes'[nodes[a].next].value = nodes[nodes[a].next].value /\ nodes'[a].value = nodes[a].value
        BY <1>3, <4>1, <4>2 DEF Number
      <4> QED BY <1>1, <4>1, <4>2, <4>3 DEF Number
    <3> QED BY <3>1, <3>2
  <2> QED BY <2>1, <2>2, <2>3, <2>4 DEF ListOK, Number
<1>8. FirstOK'
  <2>1. q'.first = q.first /\ q.first \in live
    BY <1>2 DEF FirstOK
  <2>2. \A m \in live' : Number(q.first)' <= Number(m)'
    BY <1>1, <1>2, <1>3, <1>5, <2>1 DEF FirstOK
  <2>3. ASSUME NEW v \in Number(q.first)' .. Newest' PROVE \E m \in live' : Number(m)' = v
    <3>1. CASE v = sent + 1
      BY <1>1, <1>3, <3>1
    <3>2. CASE v # sent + 1
      <4>1. v \in Number(q.first) .. Newest
        BY <1>3, <1>4, <1>5, <2>1, <3>2
      <4>2. PICK m \in live : Number(m) = v
        BY <1>2, <4>1 DEF FirstOK
      <4> QED BY <1>1, <1>3, <4>2
    <3> QED BY <3>1, <3>2
  <2> QED BY <1>1, <1>2, <2>1, <2>2, <2>3 DEF FirstOK, Number
<1>9. PlacesOK'
  BY <1>1, <1>2, <1>3 DEF PlacesOK, Number, Destroying
<1>10. ProducerOK'
  BY <1>1, <1>2, <1>3, <1>4 DEF ProducerOK, Number
<1>11. ConsumerOK'
  <2>1. Loaded => Loaded'
    <3>1. consumer.next \in live => nodes'[consumer.next].value = nodes[consumer.next].value
      BY <1>3 DEF Number
    <3> QED BY <1>1, <1>2, <3>1 DEF Loaded, Number
  <2> QED BY <1>2, <2>1 DEF ConsumerOK
<1>12. ReceivedOK'
  BY <1>2 DEF ReceivedOK
<1> QED BY <1>6, <1>7, <1>8, <1>9, <1>10, <1>11, <1>12

\* It is published.
LEMMA EnqueuePublishInv ==
  ASSUME IInv, EnqueuePublish
  PROVE  IInv'
<1> USE NodeAssumption, RecordsAssumption DEF IInv
<1>1. /\ producer.pc = "publish" /\ q' = [q EXCEPT !.last = producer.node]
      /\ sent' = sent + 1 /\ producer' = [producer EXCEPT !.pc = "clean"]
      /\ UNCHANGED <<nodes, live, consumer, received>>
  BY DEF EnqueuePublish
<1>2. producer.node \in live /\ Number(producer.node) = sent + 1 /\ sent < MaxRecords
  BY <1>1 DEF ProducerOK
<1>3. Newest' = Newest /\ ~Destroying /\ ~Destroying'
  BY <1>1 DEF Newest, Destroying, TypeOK
<1>4. TypeOK'
  <2>1. q' \in [first : Node \cup {Null}, divider : Node, last : Node]
    BY <1>1, <1>2 DEF TypeOK
  <2>2. producer' \in [pc : {"idle", "publish", "clean", "destroy"}, node : Node \cup {Null}]
    BY <1>1 DEF TypeOK
  <2> QED BY <1>1, <1>2, <2>1, <2>2 DEF TypeOK
<1>5. ListOK' /\ FirstOK'
  BY <1>1, <1>3 DEF ListOK, FirstOK, Number, TypeOK
<1>6. PlacesOK'
  BY <1>1, <1>2, <1>3 DEF PlacesOK, Number, TypeOK
<1>7. ProducerOK' /\ ConsumerOK' /\ ReceivedOK'
  BY <1>1, <1>3 DEF ProducerOK, ConsumerOK, Loaded, Number, ReceivedOK, TypeOK
<1> QED BY <1>4, <1>5, <1>6, <1>7

\* The node first_ is deleted, the newest of the list being another or there
\* being no other.
LEMMA DeletedInv ==
  ASSUME IInv, q.first # Null, Deleted(q.first), UNCHANGED nodes, Newest' = Newest
  PROVE  ListOK' /\ FirstOK' /\ live' \subseteq live /\ q'.first \in Node \cup {Null}
<1> USE NodeAssumption DEF IInv
<1>1. /\ live' = live \ {q.first} /\ q' = [q EXCEPT !.first = nodes[q.first].next]
      /\ q'.first = nodes[q.first].next
  BY DEF Deleted, TypeOK
<1>2. q.first \in live /\ \A n \in live : n \in Node /\ Number(n) \in Nat /\ Number(n)' = Number(n)
  BY DEF FirstOK, TypeOK, Number
<1>3. ASSUME NEW n \in live', nodes[n].next # Null
      PROVE  nodes[n].next \in live' /\ Number(nodes[n].next)' = Number(n)' + 1
  <2>1. /\ nodes[n].next \in live /\ Number(nodes[n].next) = Number(n) + 1
        /\ Number(q.first) <= Number(n)
    BY <1>1, <1>3 DEF ListOK, FirstOK
  <2>2. nodes[n].next # q.first
    BY <1>1, <1>2, <2>1
  <2> QED BY <1>1, <1>2, <2>1, <2>2 DEF Number
<1>4. ListOK'
  BY <1>1, <1>2, <1>3 DEF ListOK, Number
<1>5. CASE nodes[q.first].next = Null
  <2>1. Number(q.first) = Newest
    BY <1>2, <1>5 DEF ListOK
  <2>2. live' = {}
    BY <1>1, <1>2, <2>1 DEF ListOK, FirstOK
  <2> QED BY <1>1, <1>4, <1>5, <2>2 DEF FirstOK
<1>6. CASE nodes[q.first].next # Null
  <2>1. q'.first \in live /\ Number(q'.first) = Number(q.first) + 1
    BY <1>1, <1>2, <1>6 DEF ListOK
  <2>2. q'.first \in live' /\ q'.first \in Node
    BY <1>1, <1>2, <2>1
  <2>3. \A n \in live' : Number(q'.first) <= Number(n)
    BY <1>1, <1>2, <2>1 DEF ListOK, FirstOK
  <2>4. \A v \in Number(q'.first) .. Newest' : \E n \in live' : Number(n) = v
    BY <1>1, <1>2, <2>1 DEF FirstOK
  <2>5. q'.first # Null
    BY <1>1, <1>6
  <2> QED BY <1>1, <1>4, <2>2, <2>3, <2>4, <2>5 DEF FirstOK, Number
<1> QED BY <1>5, <1>6

\* The nodes before divider_ are deleted.
LEMMA EnqueueCleanInv ==
  ASSUME IInv, EnqueueClean
  PROVE  IInv'
<1> USE NodeAssumption DEF IInv
<1>1. /\ producer.pc = "clean" /\ q.first # q.divider /\ Deleted(q.first)
      /\ UNCHANGED <<nodes, producer, consumer, sent, received>>
  BY DEF EnqueueClean
<1>2. /\ ~Destroying /\ ~Destroying' /\ Newest' = Newest /\ q.first # Null
      /\ q.first \in live /\ q.divider \in live /\ q.last \in live
      /\ Number(q.divider) = Len(received) /\ Number(q.last) = sent
  BY <1>1 DEF Destroying, Newest, PlacesOK, FirstOK
<1>3. /\ ListOK' /\ FirstOK' /\ live' = live \ {q.first} /\ live' \subseteq live
      /\ q'.divider = q.divider /\ q'.last = q.last /\ q'.first \in Node \cup {Null}
      /\ q' \in [first : Node \cup {Null}, divider : Node, last : Node]
  BY <1>1, <1>2, DeletedInv DEF Deleted, TypeOK
<1>4. /\ \A n \in live : Number(n) \in Nat
      /\ Len(received) \in Nat /\ sent \in Nat /\ Len(received) <= sent
  BY DEF TypeOK, Number, ReceivedOK
<1>5. \A n \in live : Number(n) >= Len(received) => n \in live'
  <2>1. Number(q.first) <= Number(q.divider) /\ Number(q.first) # Number(q.divider)
    BY <1>1, <1>2 DEF FirstOK, ListOK
  <2> QED BY <1>2, <1>3, <1>4, <2>1
<1>6. TypeOK'
  BY <1>1, <1>3 DEF TypeOK
<1>7. PlacesOK'
  <2>1. q'.first # Null
    BY <1>2, <1>3, <1>4, <1>5 DEF FirstOK
  <2> QED BY <1>1, <1>2, <1>3, <1>4, <1>5, <2>1 DEF PlacesOK, Number
<1>8. ProducerOK'
  BY <1>1, <1>2 DEF ProducerOK
<1>9. ConsumerOK'
  <2>1. Loaded => Loaded'
    BY <1>1, <1>4, <1>5 DEF Loaded, Number
  <2> QED BY <1>1, <2>1 DEF ConsumerOK
<1> QED BY <1>1, <1>3, <1>6, <1>7, <1>8, <1>9 DEF ReceivedOK

----------------------------------------------------------------------------
(* The consumer, and the end of the queue.                                  *)

\* What the consumer looks at changes nothing that is shared.
LEMMA ConsumerInv ==
  ASSUME IInv, LoadNextEarly \/ IsEmpty \/ NotEmpty \/ DequeueNext \/ DequeueValue \/ Peek
  PROVE  IInv'
<1> USE NodeAssumption, RecordsAssumption DEF IInv
<1>1. UNCHANGED <<nodes, live, q, producer, sent, received>>
  BY DEF LoadNextEarly, IsEmpty, NotEmpty, DequeueNext, DequeueValue, Peek
<1>2. /\ consumer.pc \in {"idle", "loaded", "next", "value"}
      /\ consumer'.pc \in {"idle", "loaded", "next", "value", "advance"}
  <2> USE DEF TypeOK
  <2>1. CASE LoadNextEarly \/ DequeueNext \/ DequeueValue
    BY <2>1 DEF LoadNextEarly, DequeueNext, DequeueValue
  <2>2. CASE IsEmpty \/ Peek
    BY <2>2 DEF IsEmpty, Peek, Idle
  <2>3. CASE NotEmpty
    BY <2>3 DEF NotEmpty
  <2> QED BY <2>1, <2>2, <2>3
<1>3. /\ ~Destroying /\ q.divider \in live /\ Number(q.divider) = Len(received) /\ q.divider \in Node
      /\ q.last \in live /\ Number(q.last) = sent /\ Len(received) \in Nat /\ sent \in Nat
      /\ \A n \in live : n \in Node /\ Number(n) \in 0 .. MaxRecords
  BY <1>2 DEF ProducerOK, PlacesOK, TypeOK, Number
<1>4. Len(received) <= sent /\ (q.divider # q.last => Len(received) < sent)
  <2>1. Number(q.divider) = Number(q.last) => q.divider = q.last
    BY <1>3 DEF ListOK
  <2> QED BY <1>3, <2>1 DEF ReceivedOK
<1>5. /\ nodes[q.divider].next \in Node \cup {Null}
      /\ nodes[q.divider].next # Null =>
           nodes[q.divider].next \in live /\ Number(nodes[q.divider].next) = Len(received) + 1
      /\ Len(received) < sent => nodes[q.divider].next # Null
  BY <1>3 DEF ListOK, Newest, TypeOK
<1>6. consumer' \in [pc : {"idle", "loaded", "next", "value", "advance", "gone"},
                     early : BOOLEAN, next : Node \cup {Null}, rec : 0..MaxRecords]
  <2>1. CASE DequeueValue
    BY <2>1 DEF DequeueValue, TypeOK
  <2>2. CASE LoadNextEarly \/ IsEmpty \/ NotEmpty \/ DequeueNext \/ Peek
    <3> USE DEF TypeOK
    <3>1. CASE LoadNextEarly
      BY <1>5, <3>1 DEF LoadNextEarly
    <3>4. CASE DequeueNext
      BY <1>5, <3>4 DEF DequeueNext
    <3>2. CASE IsEmpty \/ Peek
      <4>1. consumer' = [pc |-> "idle", early |-> FALSE, next |-> Null, rec |-> 0]
        BY <3>2 DEF IsEmpty, Peek, Idle
      <4>2. 0 \in 0 .. MaxRecords /\ FALSE \in BOOLEAN
        OBVIOUS
      <4> QED BY <4>1, <4>2
    <3>3. CASE NotEmpty
      BY <3>3 DEF NotEmpty
    <3> QED BY <2>2, <3>1, <3>2, <3>3, <3>4
  <2> QED BY <2>1, <2>2
<1>7. TypeOK' /\ ListOK' /\ FirstOK' /\ PlacesOK' /\ ReceivedOK'
  BY <1>1, <1>6 DEF TypeOK, ListOK, FirstOK, PlacesOK, ReceivedOK, Number, Newest, Destroying
<1>8. ProducerOK'
  BY <1>1, <1>2, <1>3 DEF ProducerOK, Number, Destroying
<1>9. ConsumerOK'
  <2>1. CASE LoadNextEarly
    BY <1>1, <1>5, <2>1 DEF LoadNextEarly, ConsumerOK, Loaded, Number, TypeOK
  <2>2. CASE IsEmpty \/ Peek
    BY <2>2 DEF IsEmpty, Peek, ConsumerOK, Idle
  <2>3. CASE NotEmpty
    BY <1>1, <1>4, <2>3 DEF NotEmpty, ConsumerOK, Loaded, Number, Idle, TypeOK
  <2>4. CASE DequeueNext
    BY <1>1, <1>5, <2>4 DEF DequeueNext, ConsumerOK, Loaded, Number, TypeOK
  <2>5. CASE DequeueValue
    BY <1>1, <2>5 DEF DequeueValue, ConsumerOK, Loaded, Number, TypeOK
  <2> QED BY <2>1, <2>2, <2>3, <2>4, <2>5
<1> QED BY <1>7, <1>8, <1>9

\* The consumer takes the record of the node it has read and leaves the node.
LEMMA DequeueAdvanceInv ==
  ASSUME IInv, DequeueAdvance
  PROVE  IInv'
<1> USE NodeAssumption, RecordsAssumption DEF IInv
<1>1. /\ consumer.pc = "advance"
      /\ q' = [q EXCEPT !.divider = consumer.next]
      /\ received' = Append(received, consumer.rec)
      /\ consumer' = Idle
      /\ UNCHANGED <<nodes, live, producer, sent>>
  BY DEF DequeueAdvance
<1>2. Loaded /\ consumer.rec = Len(received) + 1 /\ Len(received) < sent /\ ~Destroying
  BY <1>1 DEF ConsumerOK, ProducerOK
<1>3. /\ received \in Seq(1 .. MaxRecords) /\ Len(received) \in Nat /\ sent \in 0 .. MaxRecords
      /\ consumer.next \in Node
  BY <1>2 DEF TypeOK, Loaded
<1>4. received' \in Seq(1 .. MaxRecords) /\ Len(received') = Len(received) + 1
  BY <1>1, <1>2, <1>3
<1>5. q' \in [first : Node \cup {Null}, divider : Node, last : Node] /\ q'.first = q.first
      /\ q'.last = q.last /\ q'.divider = consumer.next
  BY <1>1, <1>3 DEF TypeOK
<1>6. TypeOK'
  BY <1>1, <1>4, <1>5 DEF TypeOK, Idle
<1>7. ListOK' /\ FirstOK' /\ PlacesOK'
  BY <1>1, <1>2, <1>4, <1>5 DEF ListOK, FirstOK, PlacesOK, Loaded, Number, Newest, Destroying
<1>8. ProducerOK' /\ ConsumerOK'
  BY <1>1, <1>2 DEF ProducerOK, ConsumerOK, Idle, Number, Destroying
<1>9. ReceivedOK'
  <2>1. ASSUME NEW i \in DOMAIN received' PROVE received'[i] = i
    <3>1. CASE i = Len(received) + 1
      BY <1>1, <1>2, <1>3, <3>1
    <3>2. CASE i # Len(received) + 1
      <4>1. i \in DOMAIN received /\ received'[i] = received[i]
        BY <1>1, <1>3, <1>4, <3>2
      <4> QED BY <4>1 DEF ReceivedOK
    <3> QED BY <3>1, <3>2
  <2>2. Len(received') <= sent'
    BY <1>1, <1>2, <1>3, <1>4
  <2> QED BY <2>1, <2>2, Zenon DEF ReceivedOK
<1> QED BY <1>6, <1>7, <1>8, <1>9

\* The producer returns, and the queue is destroyed node by node.
LEMMA EndInv ==
  ASSUME IInv, EnqueueReturns \/ Destroy \/ DestroyFirst
  PROVE  IInv'
<1> USE NodeAssumption, RecordsAssumption DEF IInv
<1>1. CASE EnqueueReturns
  <2>1. /\ producer.pc = "clean" /\ producer' = [pc |-> "idle", node |-> Null]
        /\ UNCHANGED <<nodes, live, q, consumer, sent, received>>
    BY <1>1 DEF EnqueueReturns
  <2>2. TypeOK' /\ ListOK' /\ FirstOK' /\ PlacesOK' /\ ReceivedOK'
    BY <2>1 DEF TypeOK, ListOK, FirstOK, PlacesOK, ReceivedOK, Number, Newest, Destroying
  <2>3. ProducerOK' /\ ConsumerOK'
    BY <2>1 DEF ProducerOK, ConsumerOK, Loaded, Number, Destroying
  <2> QED BY <2>2, <2>3
<1>2. CASE Destroy
  <2>1. /\ producer.pc = "idle" /\ producer' = [producer EXCEPT !.pc = "destroy"]
        /\ consumer.pc = "idle" /\ consumer' = [consumer EXCEPT !.pc = "gone"]
        /\ UNCHANGED <<nodes, live, q, sent, received>>
    BY <1>2 DEF Destroy
  <2>2. TypeOK' /\ ListOK' /\ FirstOK' /\ PlacesOK' /\ ReceivedOK'
    BY <2>1 DEF TypeOK, ListOK, FirstOK, PlacesOK, ReceivedOK, Number, Newest, Destroying
  <2>3. ProducerOK' /\ ConsumerOK'
    BY <2>1 DEF ProducerOK, ConsumerOK, Destroying, TypeOK
  <2> QED BY <2>2, <2>3
<1>3. CASE DestroyFirst
  <2>1. /\ producer.pc = "destroy" /\ q.first # Null /\ Deleted(q.first)
        /\ UNCHANGED <<nodes, producer, consumer, sent, received>>
    BY <1>3 DEF DestroyFirst
  <2>2. ListOK' /\ FirstOK' /\ live' \subseteq live /\ q'.first \in Node \cup {Null}
    BY <2>1, DeletedInv DEF Newest
  <2>3. TypeOK'
    BY <2>1, <2>2 DEF TypeOK, Deleted
  <2>4. PlacesOK' /\ ProducerOK' /\ ConsumerOK' /\ ReceivedOK'
    BY <2>1 DEF PlacesOK, ProducerOK, ConsumerOK, ReceivedOK, Destroying
  <2> QED BY <2>2, <2>3, <2>4
<1> QED BY <1>1, <1>2, <1>3

\* Nothing happens.
LEMMA StutterInv ==
  ASSUME IInv, UNCHANGED vars
  PROVE  IInv'
<1> USE DEF IInv, vars
<1>1. TypeOK' /\ ListOK' /\ FirstOK' /\ PlacesOK'
  BY DEF TypeOK, ListOK, FirstOK, PlacesOK, Number, Newest, Destroying
<1>2. ProducerOK' /\ ConsumerOK' /\ ReceivedOK'
  BY DEF ProducerOK, ConsumerOK, ReceivedOK, Loaded, Number, Destroying
<1> QED BY <1>1, <1>2

\* Every step keeps IInv.
LEMMA NextInv == IInv /\ [Next]_vars => IInv'
<1> SUFFICES ASSUME IInv, [Next]_vars PROVE IInv'
  OBVIOUS
<1>1. CASE EnqueueLink
  BY <1>1, EnqueueLinkInv
<1>2. CASE EnqueuePublish
  BY <1>2, EnqueuePublishInv
<1>3. CASE EnqueueClean
  BY <1>3, EnqueueCleanInv
<1>4. CASE EnqueueReturns \/ Destroy \/ DestroyFirst
  BY <1>4, EndInv
<1>5. CASE LoadNextEarly \/ IsEmpty \/ NotEmpty \/ DequeueNext \/ DequeueValue \/ Peek
  BY <1>5, ConsumerInv
<1>6. CASE DequeueAdvance
  BY <1>6, DequeueAdvanceInv
<1>7. CASE UNCHANGED vars
  BY <1>7, StutterInv
<1> QED
  BY <1>1, <1>2, <1>3, <1>4, <1>5, <1>6, <1>7 DEF Next

\* IInv holds in every state, for any number of addresses and records.
THEOREM Invariance == Spec => []IInv
BY InitInv, NextInv, PTL DEF Spec
----------------------------------------------------------------------------
(* The walk along the list.                                                 *)

\* The node of record v.
At(v) == IF \E n \in live : Number(n) = v THEN CHOOSE n \in live : Number(n) = v ELSE Null

Steps(n, f) ==
  [k \in 0..Cardinality(Node) |->
     IF k = 0 THEN n ELSE IF f[k - 1] = Null THEN Null ELSE nodes[f[k - 1]].next]

Below == {p \in Nat \X Nat : p[1] < p[2]}

\* A set of naturals that has an element has a least one.
LEMMA Least ==
  ASSUME NEW T \in SUBSET Nat, T # {}
  PROVE  \E x \in T : \A y \in T : x <= y
<1>1. IsWellFoundedOn(Below, Nat)
  BY NatLessThanWellFounded DEF OpToRel, Below
<1>2. PICK x \in T : \A y \in T : ~ (<<y, x>> \in Below)
  BY <1>1, WFMin, Zenon
<1>3. ASSUME NEW y \in T, y < x PROVE FALSE
  <2>1. <<y, x>> \in Below
    BY <1>3 DEF Below
  <2> QED BY <2>1, <1>2
<1> QED BY <1>3

\* There are finitely many addresses.
LEMMA NodesFinite == Cardinality(Node) \in Nat
BY NodeAssumption, FS_CardinalityType

\* The recursive definition has one solution.
LEMMA WalkUnique ==
  ASSUME NEW n, NEW g, g = Steps(n, g)
  PROVE  Walk(n) = g
<1>1. Walk(n) = CHOOSE f : f = Steps(n, f)
  BY DEF Walk, Steps
<1>2. ASSUME NEW f, f = Steps(n, f) PROVE f = g
  <2> DEFINE D == 0..Cardinality(Node)
             T == {k \in D : f[k] # g[k]}
  <2>1. f = [k \in D |-> f[k]] /\ g = [k \in D |-> g[k]]
    BY <1>2 DEF Steps
  <2>2. CASE T = {}
    BY <2>1, <2>2
  <2>3. CASE T # {}
    <3>1. PICK k \in T : \A j \in T : k <= j
      <4>1. T \in SUBSET Nat
        BY NodesFinite
      <4> HIDE DEF T
      <4> QED BY <2>3, <4>1, Least
    <3>2. k # 0
      BY <1>2, NodesFinite DEF Steps
    <3>3. k - 1 \in D /\ f[k - 1] = g[k - 1]
      BY <3>1, <3>2, NodesFinite
    <3>4. f[k] = IF f[k - 1] = Null THEN Null ELSE nodes[f[k - 1]].next
      BY <1>2, <3>2 DEF Steps
    <3>5. g[k] = IF g[k - 1] = Null THEN Null ELSE nodes[g[k - 1]].next
      BY <3>2 DEF Steps
    <3> QED BY <3>3, <3>4, <3>5
  <2> QED BY <2>2, <2>3
<1> QED BY <1>1, <1>2, Zenon

\* From the oldest node on each number has its node, until the newest.
LEMMA AtNumber ==
  ASSUME IInv, NEW n \in live
  PROVE  /\ At(Number(n)) = n /\ Number(n) \in Nat /\ Newest \in Nat
         /\ \A v \in Nat : v >= Number(n) /\ v <= Newest => At(v) \in live /\ Number(At(v)) = v
         /\ \A v \in Nat : v > Newest => At(v) = Null
<1> USE DEF IInv
<1>1. At(Number(n)) = n
  BY DEF At, ListOK
<1>2. Number(n) \in Nat /\ Newest \in Nat
  BY DEF TypeOK, Number, Newest
<1>3. ASSUME NEW v \in Nat, v >= Number(n), v <= Newest PROVE At(v) \in live /\ Number(At(v)) = v
  <2>1. q.first # Null /\ Number(q.first) <= Number(n) /\ Number(q.first) \in Nat
    BY DEF FirstOK, TypeOK, Number
  <2>2. v \in Number(q.first) .. Newest
    BY <1>2, <1>3, <2>1
  <2>3. \E m \in live : Number(m) = v
    BY <2>1, <2>2 DEF FirstOK
  <2> QED BY <2>3 DEF At
<1>4. ASSUME NEW v \in Nat, v > Newest PROVE At(v) = Null
  <2>1. \A m \in live : Number(m) <= Newest /\ Number(m) \in Nat
    BY DEF ListOK, TypeOK, Number
  <2>2. ~ \E m \in live : Number(m) = v
    BY <1>2, <1>4, <2>1
  <2> QED BY <2>2 DEF At
<1> QED BY <1>1, <1>2, <1>3, <1>4

\* A walk from a node meets the nodes of the records after it in order.
LEMMA WalkFrom ==
  ASSUME IInv, NEW n \in live
  PROVE  Walk(n) = [k \in 0..Cardinality(Node) |-> At(Number(n) + k)]
<1> DEFINE g == [k \in 0..Cardinality(Node) |-> At(Number(n) + k)]
<1> USE NodesFinite, AtNumber
<1>1. ASSUME NEW k \in 0..Cardinality(Node)
      PROVE  g[k] = IF k = 0 THEN n ELSE IF g[k - 1] = Null THEN Null ELSE nodes[g[k - 1]].next
  <2> DEFINE v == Number(n) + k
  <2>1. CASE k = 0
    BY <2>1
  <2>2. CASE k # 0 /\ v > Newest + 1
    <3>1. g[k] = Null /\ g[k - 1] = Null
      BY <2>2
    <3> QED BY <2>2, <3>1
  <2>3. CASE k # 0 /\ v <= Newest + 1
    <3>1. k - 1 \in 0..Cardinality(Node) /\ g[k - 1] = At(v - 1) /\ g[k] = At(v)
      BY <2>3
    <3>2. At(v - 1) \in live /\ Number(At(v - 1)) = v - 1
      BY <2>3
    <3>3. At(v - 1) # Null
      BY <3>2, NodeAssumption DEF IInv, TypeOK
    <3>4. At(v) = nodes[At(v - 1)].next
      <4>1. CASE v = Newest + 1
        <5>1. At(v) = Null
          BY <4>1
        <5>2. nodes[At(v - 1)].next = Null
          BY <3>2, <4>1 DEF IInv, ListOK
        <5> QED BY <5>1, <5>2
      <4>2. CASE v <= Newest
        <5>1. At(v) \in live /\ Number(At(v)) = v
          BY <4>2
        <5>2. nodes[At(v - 1)].next \in live /\ Number(nodes[At(v - 1)].next) = v
          BY <3>2, <4>2 DEF IInv, ListOK
        <5> QED BY <5>1, <5>2 DEF IInv, ListOK
      <4> QED BY <2>3, <4>1, <4>2
    <3> QED BY <2>3, <3>1, <3>3, <3>4
  <2> QED BY <2>1, <2>2, <2>3
<1> HIDE DEF g
<1>2. g = [k \in 0..Cardinality(Node) |-> g[k]]
  BY DEF g
<1>3. g = Steps(n, g)
  BY <1>1, <1>2 DEF Steps
<1>4. Walk(n) = g
  BY <1>3, WalkUnique
<1> QED BY <1>4 DEF g

\* There are no more records on the list than addresses.
LEMMA ListFits ==
  ASSUME IInv, NEW n \in live
  PROVE  Newest - Number(n) < Cardinality(Node)
<1> DEFINE V == Number(n) .. Newest
           f == [v \in V |-> At(v)]
<1> USE NodesFinite, AtNumber
<1>1. \A v \in V : f[v] \in Node /\ Number(f[v]) = v
  BY DEF IInv, TypeOK
<1>2. f \in Injection(V, Node)
  BY <1>1 DEF Injection, IsInjective
<1>3. Cardinality(V) <= Cardinality(Node)
  BY <1>2, NodeAssumption, FS_Injection
<1>4. Cardinality(V) = IF Number(n) > Newest THEN 0 ELSE Newest - Number(n) + 1
  <2>1. Number(n) \in Int /\ Newest \in Int
    OBVIOUS
  <2> QED BY <2>1, FS_Interval
<1> QED BY <1>3, <1>4

----------------------------------------------------------------------------
(* What the invariant implies.                                              *)

\* The list from first_ has every node that is allocated.
LEMMA NoLeakHolds == IInv => NoLeak
<1> SUFFICES ASSUME IInv PROVE live = Reachable(q.first)
  BY DEF NoLeak
<1>1. Null \notin live
  BY NodeAssumption DEF IInv, TypeOK
<1>2. CASE q.first = Null
  <2> DEFINE g == [k \in 0..Cardinality(Node) |-> Null]
  <2>1. g = Steps(Null, g)
    BY NodesFinite DEF Steps
  <2>2. Walk(Null) = g
    <3> HIDE DEF g
    <3> QED BY <2>1, WalkUnique
  <2>3. live = {}
    BY <1>2 DEF IInv, FirstOK
  <2> QED BY <1>2, <2>2, <2>3 DEF Reachable
<1>3. CASE q.first # Null
  <2> DEFINE n == q.first
             W == Cardinality(Node)
  <2>1. n \in live /\ \A m \in live : Number(n) <= Number(m)
    BY <1>3 DEF IInv, FirstOK
  <2>2. \A k \in 0..W : Walk(n)[k] = At(Number(n) + k)
    BY <2>1, WalkFrom
  <2>3. ASSUME NEW m \in live PROVE m \in Reachable(n)
    <3>1. Number(m) - Number(n) \in 0..W
      <4>1. Number(m) \in Nat /\ Number(n) \in Nat /\ Newest \in Nat /\ Number(m) <= Newest
        BY <2>1, AtNumber DEF IInv, ListOK
      <4> QED BY <4>1, <2>1, ListFits, NodesFinite
    <3>2. Walk(n)[Number(m) - Number(n)] = m
      BY <3>1, <2>1, <2>2, AtNumber
    <3> QED BY <1>1, <3>1, <3>2 DEF Reachable
  <2>4. ASSUME NEW m \in Reachable(n) PROVE m \in live
    BY <2>2, <2>4 DEF Reachable, At
  <2> QED BY <2>3, <2>4
<1> QED BY <1>2, <1>3
\* The records in the queue are those that were sent and not received.
LEMMA ContentIs ==
  ASSUME IInv, ~Destroying
  PROVE  Content = [i \in 1..(sent - Len(received)) |-> Len(received) + i]
<1> DEFINE n == q.divider
           W == Cardinality(Node)
           node == Walk(n)
           size == sent - Len(received)
           ends == {k \in DOMAIN node : node[k] = q.last}
           found == IF ends = {} THEN 0 ELSE CHOOSE k \in ends : \A j \in ends : k <= j
<1>1. /\ n \in live /\ Number(n) = Len(received)
      /\ q.last \in live /\ Number(q.last) = sent
      /\ Len(received) \in Nat /\ sent \in Nat /\ Len(received) <= sent
      /\ q.last # Null
  BY NodeAssumption DEF IInv, PlacesOK, ReceivedOK, TypeOK
<1>2. DOMAIN node = 0..W /\ \A k \in 0..W : node[k] = At(Len(received) + k)
  BY <1>1, WalkFrom
<1>3. size \in 0..W /\ sent <= Newest
  <2>1. Newest - Len(received) < W
    BY <1>1, ListFits
  <2>2. Newest \in Nat /\ sent <= Newest
    BY <1>1 DEF Newest
  <2> QED BY <1>1, <2>1, <2>2, NodesFinite
<1>4. \A i \in 0..size : At(Len(received) + i) \in live /\ Number(At(Len(received) + i)) = Len(received) + i
  BY <1>1, <1>3, AtNumber
<1>5. ends = {size}
  <2>1. node[size] = q.last
    BY <1>1, <1>2, <1>3, AtNumber
  <2>2. ASSUME NEW k \in ends PROVE k = size
    <3>1. k \in 0..W /\ At(Len(received) + k) = q.last
      BY <1>2, <2>2
    <3>2. Number(q.last) = Len(received) + k
      BY <1>1, <3>1 DEF At
    <3> QED BY <1>1, <3>1, <3>2
  <2> QED BY <1>2, <1>3, <2>1, <2>2
<1>6. found = size
  <2> HIDE DEF ends, size
  <2>1. size \in Nat
    BY <1>1 DEF size
  <2> QED BY <1>5, <2>1
<1>7. Content = [i \in 1..size |-> nodes[node[i]].value]
  <2>1. Content = [i \in 1..found |-> nodes[node[i]].value]
    BY Zenon DEF Content
  <2> HIDE DEF found, size, node
  <2> QED BY <1>6, <2>1
<1>8. \A i \in 1..size : nodes[node[i]].value = Len(received) + i
  <2>1. ASSUME NEW i \in 1..size PROVE nodes[node[i]].value = Len(received) + i
    <3>1. i \in 0..W /\ i \in 0..size
      BY <1>3, NodesFinite
    <3> HIDE DEF node, size
    <3> QED BY <1>2, <1>4, <3>1 DEF Number
  <2> QED BY <2>1
<1> HIDE DEF size, node
<1>9. Content = [i \in 1..size |-> Len(received) + i]
  BY <1>7, <1>8
<1> QED BY <1>9 DEF size

----------------------------------------------------------------------------
(* The theorems.                                                            *)

\* The pointers of the queue are nodes, and what the threads are in the middle
\* of is what Enqueue, Dequeue and the destructor can be in the middle of.
THEOREM TypeCorrect == Spec => []TypeOK
<1>1. IInv => TypeOK
  BY DEF IInv
<1> QED BY <1>1, Invariance, PTL

\* The producer deletes nothing that it or the consumer still reaches: not the
\* node divider_ stands on, nor the one that Dequeue reads from.
THEOREM NothingUsedAfterFree == Spec => []NoUseAfterFree
<1>1. IInv => NoUseAfterFree
  BY DEF IInv, NoUseAfterFree, FirstOK, PlacesOK, ConsumerOK, Loaded, Destroying
<1> QED BY <1>1, Invariance, PTL

\* Every node that is allocated is on the list that Enqueue cleans and the
\* destructor deletes.
THEOREM NothingLeaked == Spec => []NoLeak
BY NoLeakHolds, Invariance, PTL

\* Dequeue finds the node that IsEmpty promised, wherever the loads were made
\* in the order of the program.
THEOREM RecordFound == Spec => []FindsRecordInOrder
<1>1. IInv => FindsRecordInOrder
  <2>1. Null \notin live \/ ~IInv
    BY NodeAssumption DEF IInv, TypeOK
  <2> QED BY <2>1 DEF IInv, FindsRecordInOrder, DequeueFindsRecord, ConsumerOK, Loaded
<1> QED BY <1>1, Invariance, PTL

----------------------------------------------------------------------------
(* The refinement of Fifo.                                                  *)

Rest == [i \in 1..(sent - Len(received)) |-> Len(received) + i]
QueueOpen == ~Destroying /\ ~Crashed
QueueContent == IF Destroying \/ Crashed THEN <<>> ELSE Content

\* What is left of the queue is closed or holds the rest of the records.
LEMMA QueueHolds == IInv => QueueContent = IF QueueOpen THEN Rest ELSE <<>>
BY ContentIs DEF QueueContent, QueueOpen, Rest

\* A queue is empty in the beginning.
LEMMA InitFifo == Init => Queue!Init
<1> SUFFICES ASSUME Init PROVE Queue!Init
  OBVIOUS
<1>1. sent = 0 /\ received = <<>> /\ QueueOpen
  BY DEF Init, Idle, QueueOpen, Destroying, Crashed
<1>2. Rest = <<>>
  BY <1>1 DEF Rest
<1>3. QueueContent = <<>>
  BY <1>1, <1>2, InitInv, QueueHolds
<1> QED BY <1>1, <1>3 DEF Queue!Init, QueueOpen, QueueContent

\* To publish a node is to put its record in.
LEMMA PutStep ==
  ASSUME IInv, IInv', EnqueuePublish, ~Crashed
  PROVE  Queue!Put
<1>1. /\ producer.pc = "publish" /\ producer'.pc # "destroy" /\ sent' = sent + 1 /\ sent < MaxRecords
      /\ UNCHANGED <<consumer, received>>
      /\ sent \in Nat /\ Len(received) \in Nat /\ Len(received) <= sent
  BY DEF EnqueuePublish, IInv, ProducerOK, TypeOK, ReceivedOK
<1>2. QueueOpen /\ QueueOpen'
  BY <1>1 DEF QueueOpen, Destroying, Crashed
<1>3. QueueContent = Rest
  BY <1>2, QueueHolds
<1>4. QueueContent' = Rest'
  <2>1. (IInv => QueueContent = IF QueueOpen THEN Rest ELSE <<>>)'
    BY QueueHolds, PTL
  <2> QED BY <1>2, <2>1
<1>5. Rest' = Append(Rest, sent + 1)
  BY <1>1 DEF Rest
<1> QED BY <1>1, <1>2, <1>3, <1>4, <1>5 DEF Queue!Put, QueueOpen, QueueContent
\* To move divider_ is to take a record out.
LEMMA TakeStep ==
  ASSUME IInv, IInv', DequeueAdvance
  PROVE  Queue!Take
<1>1. /\ consumer.pc = "advance" /\ consumer'.pc = "idle" /\ consumer.rec = Len(received) + 1
      /\ received' = Append(received, consumer.rec) /\ ~Destroying
      /\ UNCHANGED <<producer, sent>>
      /\ received \in Seq(1 .. MaxRecords)
      /\ sent \in Nat /\ Len(received) \in Nat /\ Len(received) < sent
  BY DEF DequeueAdvance, IInv, ConsumerOK, ProducerOK, TypeOK, Idle
<1>2. QueueOpen /\ QueueOpen'
  BY <1>1 DEF QueueOpen, Destroying, Crashed
<1>3. QueueContent = Rest /\ QueueContent' = Rest'
  <2>1. (IInv => QueueContent = IF QueueOpen THEN Rest ELSE <<>>)'
    BY QueueHolds, PTL
  <2> QED BY <1>2, <2>1, QueueHolds
<1>4. Rest # <<>> /\ Head(Rest) = consumer.rec /\ Tail(Rest) = Rest'
  <2> DEFINE a == Len(received)
  <2>1. Len(received') = a + 1
    BY <1>1
  <2>2. Rest \in Seq(Nat) /\ Len(Rest) = sent - a /\ \A i \in 1 .. sent - a : Rest[i] = a + i
    BY <1>1 DEF Rest
  <2>3. Rest' = [i \in 1 .. sent - (a + 1) |-> (a + 1) + i]
    BY <1>1, <2>1 DEF Rest
  <2>4. Tail(Rest) = [i \in 1 .. (sent - a) - 1 |-> Rest[i + 1]]
    <3>1. Rest # <<>>
      BY <1>1, <2>2
    <3>2. /\ Tail(Rest) \in Seq(Nat) /\ Len(Tail(Rest)) = Len(Rest) - 1
          /\ \A i \in 1 .. Len(Tail(Rest)) : Tail(Rest)[i] = Rest[i + 1]
      BY <2>2, <3>1, HeadTailProperties
    <3>3. Tail(Rest) = [i \in 1 .. Len(Tail(Rest)) |-> Tail(Rest)[i]]
      <4> DEFINE t == Tail(Rest)
      <4>1. t \in Seq(Nat)
        BY <3>2
      <4> HIDE DEF t
      <4>2. t = [i \in 1 .. Len(t) |-> t[i]]
        BY <4>1
      <4> QED BY <4>2 DEF t
    <3> QED BY <2>2, <3>2, <3>3
  <2>5. \A i \in 1 .. (sent - a) - 1 : Rest[i + 1] = (a + 1) + i
    BY <1>1, <2>2
  <2> HIDE DEF a
  <2>6. Rest # <<>> /\ Head(Rest) = a + 1
    BY <1>1, <2>2 DEF a
  <2>7. a \in Nat /\ sent \in Nat
    BY <1>1 DEF a
  <2>8. sent - (a + 1) = (sent - a) - 1
    BY <2>7
  <2> QED BY <1>1, <2>3, <2>4, <2>5, <2>6, <2>8 DEF a
<1> QED BY <1>1, <1>2, <1>3, <1>4 DEF Queue!Take, QueueOpen, QueueContent

\* The queue ends when it is destroyed, or when the consumer goes on with the
\* null pointer it has loaded early.
LEMMA CloseStep ==
  ASSUME IInv, ~Crashed, Destroy \/ (NotEmpty /\ Crashed')
  PROVE  Queue!Close
<1>1. UNCHANGED <<sent, received>> /\ ~Destroying
  BY DEF Destroy, NotEmpty, Destroying, IInv, ProducerOK
<1>2. QueueOpen /\ ~QueueOpen'
  BY <1>1 DEF Destroy, QueueOpen, Destroying, IInv, TypeOK
<1> QED BY <1>1, <1>2 DEF Queue!Close, QueueOpen

\* The other steps are not seen: a thread that only looks, a node linked and
\* not published, a node deleted behind the consumer.
LEMMA UnseenStep ==
  ASSUME IInv, IInv', UNCHANGED <<sent, received>>,
         Destroying' <=> Destroying, Crashed' <=> Crashed
  PROVE  UNCHANGED Queue!vars
<1>1. QueueContent' = QueueContent
  <2>1. (IInv => QueueContent = IF QueueOpen THEN Rest ELSE <<>>)'
    BY QueueHolds, PTL
  <2>2. Rest' = Rest /\ (QueueOpen' <=> QueueOpen)
    BY DEF Rest, QueueOpen
  <2> QED BY <2>1, <2>2, QueueHolds
<1>2. UNCHANGED QueueOpen
  BY DEF QueueOpen, Destroying, Crashed
<1> QED BY <1>1, <1>2 DEF Queue!vars, QueueContent, QueueOpen

\* Every step of the queue is one of Fifo, or none.
LEMMA NextFifo == IInv /\ IInv' /\ [Next]_vars => [Queue!Next]_(Queue!vars)
<1> SUFFICES ASSUME IInv, IInv', [Next]_vars PROVE Queue!Next \/ UNCHANGED Queue!vars
  OBVIOUS
<1>1. CASE EnqueuePublish /\ ~Crashed
  BY <1>1, PutStep DEF Queue!Next
<1>2. CASE DequeueAdvance
  BY <1>2, TakeStep DEF Queue!Next
<1>3. CASE ~Crashed /\ (Destroy \/ (NotEmpty /\ Crashed'))
  BY <1>3, CloseStep DEF Queue!Next
<1>4. CASE /\ ~Crashed
           /\ \/ EnqueueLink \/ EnqueueClean \/ EnqueueReturns \/ DestroyFirst
  <2>1. UNCHANGED <<sent, received, consumer>>
    BY <1>4 DEF EnqueueLink, EnqueueClean, EnqueueReturns, DestroyFirst
  <2>2. Destroying' <=> Destroying
    BY <1>4 DEF EnqueueLink, EnqueueClean, EnqueueReturns, DestroyFirst, Destroying, IInv, TypeOK
  <2>3. Crashed' <=> Crashed
    BY <2>1 DEF Crashed
  <2> QED BY <2>1, <2>2, <2>3, UnseenStep
<1>5. CASE /\ ~Crashed
           /\ \/ LoadNextEarly \/ IsEmpty \/ (NotEmpty /\ ~Crashed')
              \/ DequeueNext \/ DequeueValue \/ Peek
  <2>1. UNCHANGED <<sent, received, producer>>
    BY <1>5 DEF LoadNextEarly, IsEmpty, NotEmpty, DequeueNext, DequeueValue, Peek
  <2>2. ~Crashed'
    <3>1. CASE LoadNextEarly \/ DequeueValue
      <4>1. consumer \in [pc : {"idle", "loaded", "next", "value", "advance", "gone"},
                           early : BOOLEAN, next : Node \cup {Null}, rec : 0..MaxRecords]
        BY DEF IInv, TypeOK
      <4>2. consumer'.pc = "loaded" \/ consumer'.pc = "advance"
        <5>1. CASE LoadNextEarly
          BY <4>1, <5>1 DEF LoadNextEarly
        <5>2. CASE DequeueValue
          BY <4>1, <5>2 DEF DequeueValue
        <5> QED BY <3>1, <5>1, <5>2
      <4> QED BY <4>2 DEF Crashed
    <3>3. CASE IsEmpty \/ Peek
      BY <3>3 DEF IsEmpty, Peek, Crashed, Idle
    <3>2. CASE DequeueNext
      <4>1. consumer'.pc = "value" => Loaded' \/ consumer'.early
        BY DEF IInv, ConsumerOK
      <4>2. consumer'.pc = "value" /\ ~consumer'.early
        BY <3>2 DEF DequeueNext, IInv, ConsumerOK, TypeOK
      <4>3. Null \notin live'
        BY NodeAssumption DEF IInv, TypeOK
      <4> QED BY <4>1, <4>2, <4>3 DEF Crashed, Loaded
    <3> QED BY <1>5, <3>1, <3>2, <3>3
  <2> QED BY <1>5, <2>1, <2>2, UnseenStep DEF Destroying
<1>6. CASE UNCHANGED vars
  BY <1>6, UnseenStep DEF vars, Destroying, Crashed
<1> QED
  BY <1>1, <1>2, <1>3, <1>4, <1>5, <1>6 DEF Next

\* UnboundQueue implements Fifo, but for its liveness: each record comes out
\* once, in the order in which they went in, whatever addresses the allocator
\* hands out again (Enqueue, Dequeue).
THEOREM ImplementsFifoSteps == Spec => Queue!Init /\ [][Queue!Next]_(Queue!vars)
BY Invariance, InitFifo, NextFifo, PTL DEF Spec
=============================================================================

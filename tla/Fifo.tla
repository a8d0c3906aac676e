-------------------------------- MODULE Fifo --------------------------------
(***************************************************************************)
(* What UnboundQueue promises: records come out in the order in which they  *)
(* went in, each once, and the producer never waits.  The records are       *)
(* numbered as they are sent.                                               *)
(***************************************************************************)
EXTENDS Naturals, Sequences

CONSTANT MaxRecords  \* bound: records sent

VARIABLES
  content,   \* the records in the queue
  sent,      \* how many were put in
  received,  \* the records taken out, in order
  open       \* the queue exists

vars == <<content, sent, received, open>>

Init == content = <<>> /\ sent = 0 /\ received = <<>> /\ open = TRUE

Put ==
  /\ open /\ sent < MaxRecords
  /\ sent' = sent + 1
  /\ content' = Append(content, sent + 1)
  /\ UNCHANGED <<received, open>>

Take ==
  /\ open /\ content # <<>>
  /\ received' = Append(received, Head(content))
  /\ content' = Tail(content)
  /\ UNCHANGED <<sent, open>>

Close ==
  /\ open
  /\ open' = FALSE
  /\ content' = <<>>
  /\ UNCHANGED <<sent, received>>

Next == Put \/ Take \/ Close

\* A consumer that keeps asking gets every record.
Spec == Init /\ [][Next]_vars /\ WF_vars(Take)
=============================================================================

-------------------------------- MODULE Queue --------------------------------
(****************************************************************************)
(* What a shared buffer promises to the two threads at its ends: a FIFO     *)
(* queue.  sbuffer_insert appends at the tail, a successful                 *)
(* sbuffer_remove_block takes the oldest reading and hands it over.  The    *)
(* promise says nothing about locks, nodes, polling or timeouts: these are  *)
(* the business of SBuffer, which is shown to implement this module.        *)
(****************************************************************************)
EXTENDS Sequences

CONSTANT Reading        \* the values a buffer element can hold

VARIABLES
  queue,                \* the readings in the buffer, oldest first
  got                   \* the reading last handed to the consumer

Init == queue = <<>> /\ got \in Reading

Put(r) == queue' = Append(queue, r) /\ UNCHANGED got

Get == /\ queue # <<>>
       /\ got'   = Head(queue)
       /\ queue' = Tail(queue)

Next == Get \/ \E r \in Reading : Put(r)

Spec == Init /\ [][Next]_<<queue, got>>
==============================================================================

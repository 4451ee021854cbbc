------------------------------- MODULE SBuffer -------------------------------
(****************************************************************************)
(* One shared buffer (sbuffer.c) between the thread that inserts and the    *)
(* thread that removes: connmgr and datamgr for the first buffer, datamgr   *)
(* and storagemgr for the second.  The producer calls sbuffer_insert any    *)
(* number of times, the consumer calls sbuffer_remove_block in a loop until *)
(* it returns SBUFFER_NO_DATA.                                              *)
(*                                                                          *)
(* The mutex covers the stores of both functions, but sbuffer_remove_block  *)
(* looks at head and buffer_size WITHOUT it.  Each unlocked read is a step  *)
(* of its own, and so is each store made under the lock.  The stores of one *)
(* critical section may become visible in any order: the unlocked reads     *)
(* race with them, so neither compiler nor processor has to keep the order  *)
(* of the source.                                                           *)
(*                                                                          *)
(* The linked list is the sequence of nodes reached from head, so head is   *)
(* its first element (NULL when empty), head->next the second, and so on.   *)
(****************************************************************************)
EXTENDS Integers, Sequences, Functions

CONSTANTS
  Node,                 \* addresses malloc can return
  Reading,              \* values of sbuffer_data_t
  NULL,
  TIMEOUT               \* seconds an empty buffer is waited for

ASSUME SBufferAssumption ==
  /\ NULL \notin Node
  /\ TIMEOUT \in Nat

VARIABLES
  chain,                \* nodes from head along next
  tail,                 \* buffer->tail
  buffer_size,          \* buffer->buffer_size
  lock,                 \* holder of buffer->lock, or "free"
  heap,                 \* nodes allocated and not yet freed
  data,                 \* the payload of each node
  alive,                \* FALSE once a thread has called exit()
  pcP, arg, dummyP, last, todoP,   \* producer: call, new node, old tail, stores left
  pcC, out, dummyC, todoC, elapsed \* consumer: *data, old head, stores left, wait

buffer   == <<chain, tail, buffer_size, lock, heap, data>>
producer == <<pcP, arg, dummyP, last, todoP>>
consumer == <<pcC, out, dummyC, todoC, elapsed>>
vars     == <<buffer, alive, producer, consumer>>

head == IF chain = <<>> THEN NULL ELSE chain[1]

(* sbuffer_init; data_ptr of the consumer is malloc'ed and not initialized. *)
Init ==
  /\ chain = <<>> /\ tail = NULL /\ buffer_size = 0
  /\ lock = "free" /\ heap = {} /\ alive = TRUE
  /\ data \in [Node -> Reading]
  /\ pcP = "idle" /\ arg \in Reading /\ dummyP = NULL /\ last = NULL /\ todoP = {}
  /\ pcC = "call" /\ out \in Reading /\ dummyC = NULL /\ todoC = {} /\ elapsed = 0

------------------------------------------------------------------------------
(* sbuffer_insert *)

InsertCall(r) ==
  /\ alive /\ pcP = "idle"
  /\ pcP' = "lock" /\ arg' = r
  /\ UNCHANGED <<buffer, alive, dummyP, last, todoP, consumer>>

(* The stores of the branch sbuffer_insert takes. *)
InsertStores ==
  {"tail", "size"} \cup IF tail = NULL THEN {"head"} ELSE {"next"}

(* Lock, allocate and fill the node, and choose the branch on tail. *)
InsertLock ==
  /\ alive /\ pcP = "lock" /\ lock = "free"
  /\ \E n \in Node \ heap :
       /\ heap'   = heap \cup {n}
       /\ data'   = [data EXCEPT ![n] = arg]
       /\ dummyP' = n
  /\ lock'  = "producer"
  /\ last'  = tail
  /\ todoP' = InsertStores
  /\ pcP'   = "store"
  /\ UNCHANGED <<chain, tail, buffer_size, alive, arg, consumer>>

(* malloc fails: SBUFFER_FAILURE is returned with the lock held.  When it   *)
(* is the second malloc that fails, the node of the first is left behind:   *)
(* only the dummy of the call that returns has its address.                 *)
InsertFail ==
  /\ alive /\ pcP = "lock" /\ lock = "free"
  /\ lock' = "producer" /\ pcP' = "failed"
  /\ \/ dummyP' = NULL /\ UNCHANGED heap
     \/ \E n \in Node \ heap : heap' = heap \cup {n} /\ dummyP' = n
  /\ UNCHANGED <<chain, tail, buffer_size, data, alive, arg, last, todoP, consumer>>

(* Both callers answer with exit(EXIT_FAILURE); until then the consumer     *)
(* goes on, as far as it gets without the mutex.                            *)
InsertExit ==
  /\ alive /\ pcP = "failed"
  /\ alive' = FALSE
  /\ UNCHANGED <<buffer, producer, consumer>>

(* last->next = dummyP: whatever followed last is cut off, and a node that  *)
(* is not on the chain links nothing.                                       *)
LinkAfter_AtHead(n, m) ==  \* mutant: the new node goes in front
  <<m>> \o chain

LinkAfter(n, m) ==
  IF n \in Range(chain)
  THEN LET i == CHOOSE i \in DOMAIN chain : chain[i] = n
       IN  Append(SubSeq(chain, 1, i), m)
  ELSE chain

InsertStore ==
  /\ alive /\ pcP = "store"
  /\ \E f \in todoP :
       /\ todoP' = todoP \ {f}
       /\ chain' = CASE f = "head" -> <<dummyP>>
                     [] f = "next" -> LinkAfter(last, dummyP)
                     [] OTHER      -> chain
       /\ tail'  = IF f = "tail" THEN dummyP ELSE tail
       /\ buffer_size' = IF f = "size" THEN buffer_size + 1 ELSE buffer_size
  /\ UNCHANGED <<lock, heap, data, alive, pcP, arg, dummyP, last, consumer>>

InsertUnlock_KeepsLock ==  \* mutant: no pthread_mutex_unlock
  /\ alive /\ pcP = "store" /\ todoP = {}
  /\ pcP' = "idle"
  /\ UNCHANGED <<buffer, alive, arg, dummyP, last, todoP, consumer>>

InsertUnlock ==
  /\ alive /\ pcP = "store" /\ todoP = {}
  /\ lock' = "free" /\ pcP' = "idle"
  /\ UNCHANGED <<chain, tail, buffer_size, heap, data, alive, arg, dummyP, last, todoP, consumer>>

(* The producing thread ends: connmgr on a poll timeout, datamgr when its   *)
(* own buffer has timed out.                                                *)
ProducerEnd ==
  /\ alive /\ pcP = "idle"
  /\ pcP' = "done"
  /\ UNCHANGED <<buffer, alive, arg, dummyP, last, todoP, consumer>>

------------------------------------------------------------------------------
(* sbuffer_remove_block and the loop around it *)

(* The first, unlocked, look at head. *)
RemoveEnter ==
  /\ alive /\ pcC = "call"
  /\ pcC' = IF head = NULL THEN "sleep" ELSE "lock"
  /\ elapsed' = 0
  /\ UNCHANGED <<buffer, alive, producer, out, dummyC, todoC>>

(* usleep(1000000), then time(): at least one second has passed; what       *)
(* exceeds TIMEOUT makes no difference.                                     *)
RemoveSleep_Restarts ==  \* mutant: time(&block_time) inside the loop
  /\ alive /\ pcC = "sleep"
  /\ elapsed' = 1
  /\ pcC' = "poll"
  /\ UNCHANGED <<buffer, alive, producer, out, dummyC, todoC>>

RemoveSleep ==
  /\ alive /\ pcC = "sleep"
  /\ elapsed' \in {e \in elapsed .. TIMEOUT : e > elapsed \/ e = TIMEOUT}
  /\ pcC' = "poll"
  /\ UNCHANGED <<buffer, alive, producer, out, dummyC, todoC>>

(* if(sbuffer_size(buffer) != 0) break; *)
RemovePoll_Always ==  \* mutant: one sleep, then the removal
  /\ alive /\ pcC = "poll"
  /\ pcC' = "lock"
  /\ UNCHANGED <<buffer, alive, producer, out, dummyC, todoC, elapsed>>

RemovePoll ==
  /\ alive /\ pcC = "poll"
  /\ pcC' = IF buffer_size # 0 THEN "lock" ELSE "check"
  /\ UNCHANGED <<buffer, alive, producer, out, dummyC, todoC, elapsed>>

(* if(buffer->buffer_size == 0 && waited long enough) return NO_DATA: a     *)
(* second unlocked read.  The caller's loop ends on SBUFFER_NO_DATA.        *)
GiveUp_NoRecheck ==  \* mutant: buffer_size is not read a second time
  elapsed >= TIMEOUT

GiveUp == buffer_size = 0 /\ elapsed >= TIMEOUT

RemoveCheck ==
  /\ alive /\ pcC = "check"
  /\ pcC' = IF GiveUp THEN "done" ELSE "sleep"
  /\ UNCHANGED <<buffer, alive, producer, out, dummyC, todoC, elapsed>>

(* The stores of the branch sbuffer_remove_block takes. *)
RemoveStores_NoTail ==  \* mutant: only head is reset with the last node
  {"size"} \cup IF head = tail THEN {"nohead"} ELSE {"advance"}

RemoveStores ==
  {"size"} \cup IF head = tail THEN {"nohead", "notail"} ELSE {"advance"}

(* Lock, copy the payload of the head node, and choose the branch.  A head  *)
(* that is NULL or freed would be dereferenced here: see TakesLiveNode.     *)
RemoveLock ==
  /\ alive /\ pcC = "lock" /\ lock = "free"
  /\ lock'   = "consumer"
  /\ dummyC' = head
  /\ out'    = IF head \in heap THEN data[head] ELSE out
  /\ todoC'  = RemoveStores
  /\ pcC'    = "store"
  /\ UNCHANGED <<chain, tail, buffer_size, heap, data, alive, producer, elapsed>>

RemoveStore ==
  /\ alive /\ pcC = "store"
  /\ \E f \in todoC :
       /\ todoC' = todoC \ {f}
       /\ chain' = CASE f = "nohead"  -> <<>>
                     [] f = "advance" -> Tail(chain)
                     [] OTHER         -> chain
       /\ tail'  = IF f = "notail" THEN NULL ELSE tail
       /\ buffer_size' = IF f = "size" THEN buffer_size - 1 ELSE buffer_size
  /\ UNCHANGED <<lock, heap, data, alive, producer, pcC, out, dummyC, elapsed>>

(* free(dummy->data), free(dummy), unlock, SBUFFER_SUCCESS. *)
RemoveUnlock_NoFree ==  \* mutant: the node is not freed
  /\ alive /\ pcC = "store" /\ todoC = {}
  /\ lock' = "free" /\ pcC' = "call"
  /\ UNCHANGED <<chain, tail, buffer_size, heap, data, alive, producer, out, dummyC, todoC, elapsed>>

RemoveUnlock ==
  /\ alive /\ pcC = "store" /\ todoC = {}
  /\ heap' = heap \ {dummyC}
  /\ lock' = "free" /\ pcC' = "call"
  /\ UNCHANGED <<chain, tail, buffer_size, data, alive, producer, out, dummyC, todoC, elapsed>>

------------------------------------------------------------------------------
Insert == InsertLock \/ InsertStore \/ InsertUnlock \/ InsertExit

Remove == \/ RemoveEnter \/ RemoveSleep \/ RemovePoll \/ RemoveCheck
          \/ RemoveLock \/ RemoveStore \/ RemoveUnlock

Stopped == ~alive \/ (pcP = "done" /\ pcC = "done")

Next ==
  \/ \E r \in Reading : InsertCall(r)
  \/ Insert \/ InsertFail \/ ProducerEnd
  \/ Remove
  \/ Stopped /\ UNCHANGED vars

Spec == Init /\ [][Next]_vars

(* A thread inside a buffer function runs on (the scheduler gives every     *)
(* runnable thread time); nothing makes the producer call sbuffer_insert.   *)
(* A mutex that is released over and over is obtained at last: the producer *)
(* is away in poll(), tcp_receive or a sleep between two insertions.        *)
FairSpec == Spec /\ WF_vars(Insert) /\ WF_vars(Remove) /\ SF_vars(RemoveLock)

------------------------------------------------------------------------------
TypeOK ==
  /\ chain \in Seq(Node) /\ tail \in Node \cup {NULL} /\ buffer_size \in Nat
  /\ lock \in {"free", "producer", "consumer"}
  /\ heap \subseteq Node /\ data \in [Node -> Reading] /\ alive \in BOOLEAN
  /\ pcP \in {"idle", "lock", "store", "failed", "done"} /\ arg \in Reading
  /\ dummyP \in Node \cup {NULL} /\ last \in Node \cup {NULL}
  /\ todoP \subseteq {"head", "next", "tail", "size"}
  /\ pcC \in {"call", "sleep", "poll", "check", "lock", "store", "done"}
  /\ out \in Reading /\ dummyC \in Node \cup {NULL}
  /\ todoC \subseteq {"nohead", "notail", "advance", "size"}
  /\ elapsed \in 0 .. TIMEOUT

(* The node the producer has allocated and not yet linked, and the one it   *)
(* has given up; the node the consumer has taken off the chain and not yet  *)
(* freed, and whether it has chosen a node that is still on the chain.      *)
Unlinked == IF pcP = "store" /\ todoP \cap {"head", "next"} # {} THEN {dummyP} ELSE {}
Leaked   == IF pcP = "failed" THEN {dummyP} \ {NULL} ELSE {}
Claimed  == pcC = "store" /\ todoC \cap {"nohead", "advance"} # {}
Detached == IF pcC = "store" /\ ~Claimed THEN {dummyC} ELSE {}

(* Committing to the removal is enough: once sbuffer_remove_block has seen  *)
(* head or buffer_size nonzero WITHOUT the lock, the head it finds under    *)
(* the lock is a live node, so sbuffer.c:132 never dereferences NULL or     *)
(* freed memory.                                                            *)
TakesLiveNode == pcC = "lock" /\ lock = "free" => head \in heap

(* Memory, in the middle of both functions too: the nodes allocated are     *)
(* those on the chain, the one being inserted and the one being removed,    *)
(* each held once, so no freed node is still linked; and a node is leaked   *)
(* in one case only, the second malloc of an insertion failing: it is one   *)
(* node, of a process about to exit.                                        *)
HeapExact ==
  /\ heap = Range(chain) \cup Unlinked \cup Leaked \cup Detached
  /\ \A i, j \in DOMAIN chain : chain[i] = chain[j] => i = j
  /\ Range(chain) \cap (Unlinked \cup Leaked \cup Detached) = {}

(* Whenever the mutex is free, the three redundant fields agree: tail is    *)
(* the end of the chain from head and buffer_size counts its nodes.  The    *)
(* polling loop reads buffer_size and the removal reads head, so it is this *)
(* agreement that keeps the two from contradicting each other.              *)
FieldsAgree ==
  lock = "free" => /\ buffer_size = Len(chain)
                   /\ tail = IF chain = <<>> THEN NULL ELSE chain[Len(chain)]

(* The same as an invariant of the two functions alone, with the types.     *)
BufferOK == TypeOK /\ FieldsAgree

(* SBUFFER_NO_DATA is never returned over a reading whose insertion has     *)
(* completed: the buffer is empty or an insertion is going on right then.   *)
NoDataMeansEmpty ==
  [][pcC # "done" /\ pcC' = "done" => chain = <<>> \/ lock = "producer"]_vars

(* The readings in the buffer.  The consumer has taken its reading from the *)
(* moment it holds the lock, an insertion counts from the store that links  *)
(* the new node.                                                            *)
Contents == LET c == IF Claimed THEN Tail(chain) ELSE chain
            IN  [i \in DOMAIN c |-> data[c[i]]]

(* Both functions together implement the FIFO queue.                        *)
Q == INSTANCE Queue WITH queue <- Contents, got <- out
ImplementsQueue == Q!Spec

(* sbuffer_remove_block returns, with a reading or with SBUFFER_NO_DATA,    *)
(* however the two threads interleave, unless the process exits.            *)
RemoveReturns ==
  pcC \in {"sleep", "poll", "check", "lock", "store"} ~> pcC \in {"call", "done"} \/ ~alive

(* A node whose insertion has completed while the consumer still runs is    *)
(* taken out and freed: the consumer never ends over readings it could have *)
(* had, and no reading is stuck behind the others.                          *)
InsertedIsRemoved ==
  \A n \in Node : n \in Range(chain) /\ pcP # "store" /\ pcC # "done" ~> n \notin heap \/ ~alive
==============================================================================

------------------------------ MODULE SBufferApi ------------------------------
(****************************************************************************)
(* The rest of the interface of sbuffer.c, which the gateway as it is built *)
(* by the makefile does not use: sbuffer_remove, the removal that does not  *)
(* wait; sbuffer_free, which main() would call had manage_threads not ended *)
(* the main thread before; and sbuffer_get_element_at_index, through which  *)
(* connmgr prints the buffer after each insertion when DEBUG is defined.    *)
(* The consumer may use both removals; a printing producer walks the list   *)
(* without the lock.                                                        *)
(****************************************************************************)
EXTENDS SBuffer, FiniteSets

CONSTANT MaxIndex       \* bound on the index a print can reach

VARIABLES
  pcD,                  \* sbuffer_print in the producer's thread
  index,                \* its loop variable
  count, cursor,        \* those of sbuffer_get_element_at_index
  freed                 \* sbuffer_free has been called

api     == <<pcD, index, count, cursor, freed>>
walk    == <<index, count, cursor>>
allVars == <<vars, api>>

ApiInit ==
  /\ Init
  /\ pcD = "idle" /\ index = 0 /\ count = 0 /\ cursor = NULL /\ freed = FALSE

------------------------------------------------------------------------------
(* sbuffer_remove *)

RemoveNowCall ==
  /\ alive /\ pcC = "call"
  /\ pcC' = "now"
  /\ UNCHANGED <<buffer, alive, producer, out, dummyC, todoC, elapsed, api>>

(* The buffer is empty: SBUFFER_NO_DATA is returned from between lock and   *)
(* unlock.                                                                  *)
RemoveNowEmpty ==
  /\ alive /\ pcC = "now" /\ lock = "free" /\ head = NULL
  /\ lock' = "consumer" /\ pcC' = "call"
  /\ UNCHANGED <<chain, tail, buffer_size, heap, data, alive, producer, out, dummyC,
                 todoC, elapsed, api>>

(* Otherwise sbuffer_remove goes on as sbuffer_remove_block does. *)
RemoveNowLock_Size ==  \* mutant: buffer_size-- only in the single-node branch
  /\ alive /\ pcC = "now" /\ lock = "free" /\ head # NULL
  /\ lock'   = "consumer"
  /\ dummyC' = head
  /\ out'    = data[head]
  /\ todoC'  = IF head = tail THEN RemoveStores ELSE {"advance"}
  /\ pcC'    = "store"
  /\ UNCHANGED <<chain, tail, buffer_size, heap, data, alive, producer, elapsed, api>>

RemoveNowLock ==
  /\ alive /\ pcC = "now" /\ lock = "free" /\ head # NULL
  /\ lock'   = "consumer"
  /\ dummyC' = head
  /\ out'    = data[head]
  /\ todoC'  = RemoveStores
  /\ pcC'    = "store"
  /\ UNCHANGED <<chain, tail, buffer_size, heap, data, alive, producer, elapsed, api>>

------------------------------------------------------------------------------
(* sbuffer_print, sbuffer_get_element_at_index: no lock is taken *)

PrintCall ==
  /\ alive /\ pcP = "idle" /\ pcD = "idle"
  /\ pcD' = "test" /\ index' = 0
  /\ UNCHANGED <<vars, count, cursor, freed>>

(* i != sbuffer_size(ptr); an index that has run past a shrinking size is   *)
(* followed up to MaxIndex only.                                            *)
PrintTest ==
  /\ alive /\ pcD = "test"
  /\ pcD' = IF index # buffer_size /\ index < MaxIndex THEN "get" ELSE "idle"
  /\ UNCHANGED <<vars, walk, freed>>

(* The first read of head: NULL is returned for an empty list, and the      *)
(* assertion of the caller fails.                                           *)
PrintGet ==
  /\ alive /\ pcD = "get"
  /\ pcD'   = IF head = NULL THEN "assert" ELSE "first"
  /\ alive' = (head # NULL)
  /\ UNCHANGED <<buffer, producer, consumer, walk, freed>>

(* The second read of head, for the loop: the list may be empty by now, and *)
(* then NULL is dereferenced.                                               *)
PrintFirst ==
  /\ alive /\ pcD = "first"
  /\ pcD'   = IF head = NULL THEN "crash" ELSE "walk"
  /\ alive' = (head # NULL)
  /\ cursor' = head /\ count' = 0
  /\ UNCHANGED <<buffer, producer, consumer, index, freed>>

(* What dummy->next can be: the successor on the chain, or whatever a node  *)
(* that has been taken off the chain, and perhaps freed, still holds.       *)
Successors(n) ==
  IF n \in Range(chain)
  THEN LET i == CHOOSE i \in DOMAIN chain : chain[i] = n
       IN  {IF i = Len(chain) THEN NULL ELSE chain[i + 1]}
  ELSE Node \cup {NULL}

PrintWalk ==
  /\ alive /\ pcD = "walk"
  /\ \E next \in Successors(cursor) :
       IF next = NULL \/ count >= index
       THEN pcD' = "test" /\ index' = index + 1 /\ UNCHANGED <<count, cursor>>
       ELSE cursor' = next /\ count' = count + 1 /\ UNCHANGED <<pcD, index>>
  /\ UNCHANGED <<vars, freed>>

------------------------------------------------------------------------------
(* sbuffer_free, once both threads have ended: every node is freed, and the *)
(* assertion that buffer_size is 0 stands after the loop.                   *)
SbufferFree_OneNode ==  \* mutant: an if in the place of the while
  /\ alive /\ pcP = "done" /\ pcC = "done" /\ ~freed
  /\ freed' = TRUE
  /\ heap'  = heap \ {head} /\ chain' = <<>>
  /\ alive' = (buffer_size = 0)
  /\ UNCHANGED <<tail, buffer_size, lock, data, producer, consumer, pcD, walk>>

SbufferFree ==
  /\ alive /\ pcP = "done" /\ pcC = "done" /\ ~freed
  /\ freed' = TRUE
  /\ heap'  = heap \ Range(chain) /\ chain' = <<>>
  /\ alive' = (buffer_size = 0)
  /\ UNCHANGED <<tail, buffer_size, lock, data, producer, consumer, pcD, walk>>

------------------------------------------------------------------------------
RemoveNow == RemoveNowCall \/ RemoveNowEmpty \/ RemoveNowLock

DebugPrint == PrintTest \/ PrintGet \/ PrintFirst \/ PrintWalk

Produce == Insert \/ InsertFail \/ ProducerEnd \/ \E r \in Reading : InsertCall(r)

ApiNext ==
  \/ pcD = "idle" /\ Produce /\ UNCHANGED api
  \/ Remove /\ UNCHANGED api
  \/ RemoveNow
  \/ PrintCall \/ DebugPrint
  \/ SbufferFree

ApiSpec == ApiInit /\ [][ApiNext]_allVars

------------------------------------------------------------------------------
(* Removing without waiting and walking the list leave the three fields in  *)
(* agreement whenever the lock is free, until sbuffer_free takes the list   *)
(* apart.  The mutex stays locked behind a call in two cases only: an       *)
(* insertion that has failed for want of memory, or sbuffer_remove has      *)
(* found the buffer empty, which it then stays.                             *)
AgreesUntilFreed ==
  /\ freed \/ FieldsAgree
  /\ lock = "producer" => pcP \in {"store", "failed"}
  /\ lock = "consumer" => pcC = "store" \/ chain = <<>>
==============================================================================

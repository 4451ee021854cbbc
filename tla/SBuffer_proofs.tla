---------------------------- MODULE SBuffer_proofs -----------------------------
(****************************************************************************)
(* Theorems about SBuffer and SBufferApi, for every set of nodes and        *)
(* readings, every TIMEOUT and every bound.  The inductive invariant of     *)
(* SBuffer allows for a consumer in sbuffer_remove, too, so that its lemmas *)
(* serve for both.                                                          *)
(****************************************************************************)
EXTENDS SBufferApi, SequenceTheorems, TLAPS

Last(s) == s[Len(s)]
Bit(b)  == IF b THEN 1 ELSE 0

(* The types of SBuffer, with one more place for the consumer. *)
Typed ==
  /\ chain \in Seq(Node) /\ tail \in Node \cup {NULL} /\ buffer_size \in Nat
  /\ lock \in {"free", "producer", "consumer"}
  /\ heap \subseteq Node /\ data \in [Node -> Reading] /\ alive \in BOOLEAN
  /\ pcP \in {"idle", "lock", "store", "failed", "done"} /\ arg \in Reading
  /\ dummyP \in Node \cup {NULL} /\ last \in Node \cup {NULL}
  /\ todoP \subseteq {"head", "next", "tail", "size"}
  /\ pcC \in {"call", "now", "sleep", "poll", "check", "lock", "store", "done"}
  /\ out \in Reading /\ dummyC \in Node \cup {NULL}
  /\ todoC \subseteq {"nohead", "notail", "advance", "size"}
  /\ elapsed \in 0 .. TIMEOUT

(* Who is inside a critical section holds the mutex, and so does an         *)
(* insertion that has failed, after which alone the process exits.          *)
Mutex ==
  /\ lock = "producer" <=> pcP \in {"store", "failed"}
  /\ lock = "consumer" <=> pcC = "store"
  /\ ~alive => pcP = "failed"

NoNodeTwice == \A i, j \in DOMAIN chain : chain[i] = chain[j] => i = j

(* Outside of the stores the three fields agree. *)
Resting ==
  pcP # "store" /\ pcC # "store" =>
    /\ buffer_size = Len(chain)
    /\ tail = IF chain = <<>> THEN NULL ELSE Last(chain)

(* The fields while the producer still has the stores todoP to make. *)
Linked == todoP \cap {"head", "next"} = {}

Inserting ==
  pcP = "store" =>
    /\ dummyP \in Node
    /\ buffer_size + Bit("size" \in todoP) = Len(chain) + Bit(~Linked)
    /\ tail = IF "tail" \in todoP THEN last ELSE dummyP
    /\ Linked => chain # <<>> /\ Last(chain) = dummyP
    /\ ~Linked => dummyP \notin Range(chain)
    /\ "head" \in todoP => last = NULL /\ chain = <<>>
    /\ "next" \in todoP => chain # <<>> /\ last = Last(chain)
    /\ {"head", "next"} \subseteq todoP => FALSE

(* The fields while the consumer still has the stores todoC to make: it     *)
(* takes the only node, or one that others follow.                          *)
TakingLast ==
  /\ todoC \subseteq {"size", "nohead", "notail"}
  /\ chain = IF "nohead" \in todoC THEN <<dummyC>> ELSE <<>>
  /\ tail = IF "notail" \in todoC THEN dummyC ELSE NULL
  /\ buffer_size = Bit("size" \in todoC)

TakingFirst ==
  /\ todoC \subseteq {"size", "advance"}
  /\ chain # <<>> /\ tail = Last(chain)
  /\ IF "advance" \in todoC THEN chain[1] = dummyC /\ Len(chain) > 1
                            ELSE dummyC \notin Range(chain)
  /\ buffer_size + Bit("advance" \in todoC) = Len(chain) + Bit("size" \in todoC)

Removing == pcC = "store" => dummyC \in Node /\ (TakingLast \/ TakingFirst)

(* Once the consumer has decided to remove, there is a node, or one on its  *)
(* way into the list.                                                       *)
Committed == pcC = "lock" => chain # <<>> \/ pcP = "store"

IInv == /\ Typed /\ Mutex /\ NoNodeTwice /\ HeapExact
        /\ Resting /\ Inserting /\ Removing /\ Committed

------------------------------------------------------------------------------
(* Sequences of nodes *)

LEMMA LastInRange ==
  ASSUME NEW S, NEW s \in Seq(S), s # <<>>
  PROVE  Len(s) \in 1 .. Len(s) /\ Last(s) \in S /\ Last(s) \in Range(s)
<1>1. Len(s) \in Nat \ {0} BY EmptySeq
<1>2. Len(s) \in 1 .. Len(s) /\ DOMAIN s = 1 .. Len(s) BY <1>1, LenProperties
<1> QED BY <1>2, ElementOfSeq DEF Last, Range

LEMMA AppendNode ==
  ASSUME NEW S, NEW s \in Seq(S), NEW e \in S
  PROVE  /\ Append(s, e) \in Seq(S) /\ Append(s, e) # <<>>
         /\ Len(Append(s, e)) = Len(s) + 1 /\ Last(Append(s, e)) = e
         /\ Range(Append(s, e)) = Range(s) \cup {e}
         /\ \A i \in DOMAIN Append(s, e) :
              Append(s, e)[i] = IF i = Len(s) + 1 THEN e ELSE s[i]
<1>1. /\ Append(s, e) \in Seq(S) /\ Append(s, e) # <<>>
      /\ Len(Append(s, e)) = Len(s) + 1
      /\ \A i \in 1 .. Len(s) : Append(s, e)[i] = s[i]
      /\ Append(s, e)[Len(s) + 1] = e
  BY AppendProperties
<1>2. /\ Len(s) \in Nat /\ DOMAIN s = 1 .. Len(s)
      /\ DOMAIN Append(s, e) = 1 .. Len(s) + 1
  BY <1>1, LenProperties
<1> QED BY <1>1, <1>2 DEF Last, Range

LEMMA TailNode ==
  ASSUME NEW S, NEW s \in Seq(S), s # <<>>,
         \A i, j \in DOMAIN s : s[i] = s[j] => i = j
  PROVE  /\ Tail(s) \in Seq(S) /\ Len(Tail(s)) = Len(s) - 1
         /\ Range(Tail(s)) = Range(s) \ {s[1]} /\ s[1] \in Range(s)
         /\ Len(s) > 1 => Tail(s) # <<>> /\ Last(Tail(s)) = Last(s)
         /\ \A i, j \in DOMAIN Tail(s) : Tail(s)[i] = Tail(s)[j] => i = j
<1>1. /\ Tail(s) \in Seq(S) /\ Len(Tail(s)) = Len(s) - 1
      /\ \A i \in 1 .. Len(Tail(s)) : Tail(s)[i] = s[i + 1]
  BY HeadTailProperties
<1>2. /\ Len(s) \in Nat \ {0} /\ DOMAIN s = 1 .. Len(s)
      /\ DOMAIN Tail(s) = 1 .. Len(s) - 1
  BY <1>1, LenProperties, EmptySeq
<1>3. Range(Tail(s)) = Range(s) \ {s[1]}
  <2>1. ASSUME NEW n \in Range(Tail(s)) PROVE n \in Range(s) \ {s[1]}
    BY <2>1, <1>1, <1>2 DEF Range
  <2>2. ASSUME NEW n \in Range(s) \ {s[1]} PROVE n \in Range(Tail(s))
    <3>1. PICK i \in 1 .. Len(s) : n = s[i] BY <1>2 DEF Range
    <3>2. i - 1 \in 1 .. Len(s) - 1 /\ Tail(s)[i - 1] = s[i] BY <3>1, <1>1, <1>2
    <3> QED BY <3>1, <3>2, <1>2 DEF Range
  <2> QED BY <2>1, <2>2
<1>4. Len(s) > 1 => Tail(s) # <<>> /\ Last(Tail(s)) = Last(s)
  BY <1>1, <1>2 DEF Last
<1>5. \A i, j \in DOMAIN Tail(s) : Tail(s)[i] = Tail(s)[j] => i = j
  BY <1>1, <1>2
<1>6. s[1] \in Range(s) BY <1>2 DEF Range
<1> QED BY <1>1, <1>3, <1>4, <1>5, <1>6

(* last->next = dummyP appends, because last is the end of the chain. *)
LEMMA LinkAppends ==
  ASSUME chain \in Seq(Node), NoNodeTwice, chain # <<>>, NEW m
  PROVE  LinkAfter(Last(chain), m) = Append(chain, m)
<1>1. /\ Len(chain) \in 1 .. Len(chain) /\ Last(chain) \in Range(chain)
      /\ DOMAIN chain = 1 .. Len(chain)
  BY LastInRange, LenProperties
<1>2. \A i \in DOMAIN chain : chain[i] = Last(chain) <=> i = Len(chain)
  BY <1>1 DEF NoNodeTwice, Last
<1>3. (CHOOSE i \in DOMAIN chain : chain[i] = Last(chain)) = Len(chain)
  BY <1>1, <1>2
<1>4. SubSeq(chain, 1, Len(chain)) = chain BY SubSeqFull
<1> QED BY <1>1, <1>3, <1>4 DEF LinkAfter

------------------------------------------------------------------------------
(* The invariant *)

LEMMA InvInit == Init => IInv
<1> SUFFICES ASSUME Init PROVE IInv OBVIOUS
<1> USE SBufferAssumption DEF Init
<1>1. Typed BY EmptySeq DEF Typed
<1>2. Len(chain) = 0 /\ DOMAIN chain = {} /\ Range(chain) = {}
  BY EmptySeq DEF Range
<1>3. HeapExact BY <1>2 DEF HeapExact, Unlinked, Leaked, Detached
<1> QED BY <1>1, <1>2, <1>3 DEF IInv, Mutex, NoNodeTwice, Resting, Inserting, Removing, Committed

(* Steps that leave the list, the mutex and both threads' stores alone. *)
LEMMA OutsideStep ==
  ASSUME IInv, UNCHANGED <<buffer, alive, dummyP, last, todoP, dummyC, todoC>>,
         Typed', \A p \in {"store", "failed"} : pcP' = p <=> pcP = p,
         pcC' = "store" <=> pcC = "store",
         Committed'
  PROVE  IInv'
BY DEF IInv, buffer, Mutex, NoNodeTwice, HeapExact, Unlinked, Leaked, Detached, Claimed,
       Resting, Inserting, Linked, Removing, TakingLast, TakingFirst

(* sbuffer_insert *)
LEMMA InsertLockInv == IInv /\ InsertLock => IInv'
<1> SUFFICES ASSUME IInv, InsertLock PROVE IInv' OBVIOUS
<1> USE DEF InsertLock, consumer
<1>1. PICK n \in Node \ heap :
        heap' = heap \cup {n} /\ data' = [data EXCEPT ![n] = arg] /\ dummyP' = n
  OBVIOUS
<1>2. chain \in Seq(Node) /\ pcP # "store" /\ pcC # "store" /\ n \in Node
  BY <1>1 DEF IInv, Typed, Mutex
<1>3. /\ chain' = chain /\ tail' = tail /\ buffer_size' = buffer_size
      /\ buffer_size = Len(chain)
      /\ tail = IF chain = <<>> THEN NULL ELSE Last(chain)
      /\ heap = Range(chain) /\ n \notin Range(chain)
  BY <1>1, <1>2 DEF IInv, Resting, HeapExact, Unlinked, Leaked, Detached, Claimed
<1>4. chain # <<>> => tail # NULL BY <1>2, <1>3, LastInRange, SBufferAssumption
<1>5. todoP' = {"tail", "size"} \cup IF chain = <<>> THEN {"head"} ELSE {"next"}
  BY <1>3, <1>4 DEF InsertStores
<1>6. Typed' BY <1>1, <1>2, <1>5 DEF IInv, Typed
<1>7. Mutex' /\ NoNodeTwice' /\ Resting' /\ Removing' /\ Committed'
  BY <1>2, <1>3 DEF IInv, Mutex, NoNodeTwice, Resting, Removing, Committed
<1>8. HeapExact'
  <2>1. "head" \in todoP' \/ "next" \in todoP' BY <1>5
  <2>2. Unlinked' = {n} /\ Leaked' = {} /\ Detached' = {}
    BY <2>1, <1>1, <1>2 DEF Unlinked, Leaked, Detached
  <2> QED BY <2>2, <1>1, <1>3 DEF IInv, HeapExact
<1>9. ~Linked' BY <1>5 DEF Linked
<1>10. Inserting'
  BY <1>1, <1>2, <1>3, <1>5, <1>9 DEF Inserting, Bit
<1> QED BY <1>6, <1>7, <1>8, <1>10 DEF IInv

LEMMA InsertFailInv == IInv /\ InsertFail => IInv'
<1> SUFFICES ASSUME IInv, InsertFail PROVE IInv' OBVIOUS
<1> USE DEF InsertFail, consumer
<1>1. /\ pcP # "store" /\ pcP' # "store" /\ pcC # "store" /\ pcC' # "store"
      /\ UNCHANGED <<chain, tail, buffer_size>> /\ heap = Range(chain)
  BY DEF IInv, Mutex, HeapExact, Unlinked, Leaked, Detached, Claimed
<1>2. PICK n \in {NULL} \cup (Node \ heap) : dummyP' = n /\ heap' = heap \cup ({n} \ {NULL})
  BY SBufferAssumption
<1>3. HeapExact'
  <2>1. Unlinked' = {} /\ Leaked' = {n} \ {NULL} /\ Detached' = {}
    BY <1>1, <1>2 DEF Unlinked, Leaked, Detached
  <2> QED BY <2>1, <1>1, <1>2 DEF IInv, HeapExact
<1>4. Typed' BY <1>2, SBufferAssumption DEF IInv, Typed
<1>5. Mutex' BY DEF IInv, Mutex
<1>6. NoNodeTwice' /\ Resting' /\ Inserting' /\ Removing' /\ Committed'
  BY <1>1 DEF IInv, NoNodeTwice, Resting, Inserting, Removing, Committed
<1> QED BY <1>3, <1>4, <1>5, <1>6 DEF IInv

LEMMA InsertExitInv == IInv /\ InsertExit => IInv'
<1> SUFFICES ASSUME IInv, InsertExit PROVE IInv' OBVIOUS
<1> USE DEF InsertExit, buffer, producer, consumer
<1>1. Typed' BY DEF IInv, Typed
<1>2. Mutex' /\ Committed' BY DEF IInv, Mutex, Committed
<1> QED BY <1>1, <1>2 DEF IInv, NoNodeTwice, HeapExact, Unlinked, Leaked, Detached, Claimed,
       Resting, Inserting, Linked, Removing, TakingLast, TakingFirst

LEMMA InsertStoreInv == IInv /\ InsertStore => IInv'
<1> SUFFICES ASSUME IInv, InsertStore PROVE IInv' OBVIOUS
<1>1. PICK f \in todoP :
       /\ todoP' = todoP \ {f}
       /\ chain' = CASE f = "head" -> <<dummyP>>
                     [] f = "next" -> LinkAfter(last, dummyP)
                     [] OTHER      -> chain
       /\ tail'  = IF f = "tail" THEN dummyP ELSE tail
       /\ buffer_size' = IF f = "size" THEN buffer_size + 1 ELSE buffer_size
  BY DEF InsertStore
<1>2. /\ alive /\ pcP = "store" /\ lock = "producer" /\ pcC # "store"
      /\ UNCHANGED <<lock, heap, data, alive, pcP, arg, dummyP, last, consumer>>
      /\ chain \in Seq(Node) /\ dummyP \in Node /\ buffer_size \in Nat
      /\ Len(chain) \in Nat /\ f \in {"head", "next", "tail", "size"}
  BY <1>1, LenProperties DEF InsertStore, IInv, Mutex, Typed, Inserting
<1>3. CASE f \in {"head", "next"}
  <2>1. chain' = Append(chain, dummyP) /\ Linked' /\ ~Linked /\ tail' = tail
        /\ buffer_size' = buffer_size
    <3>1. CASE f = "head"
      BY <3>1, <1>1, <1>2 DEF IInv, Inserting, Linked
    <3>2. CASE f = "next"
      BY <3>2, <1>1, <1>2, LinkAppends DEF IInv, Inserting, Linked
    <3> QED BY <1>3, <3>1, <3>2
  <2>2. /\ chain' \in Seq(Node) /\ chain' # <<>> /\ Len(chain') = Len(chain) + 1
        /\ Last(chain') = dummyP /\ Range(chain') = Range(chain) \cup {dummyP}
        /\ \A i \in DOMAIN chain' : chain'[i] = IF i = Len(chain) + 1 THEN dummyP ELSE chain[i]
        /\ DOMAIN chain = 1 .. Len(chain) /\ DOMAIN chain' = 1 .. Len(chain) + 1
    BY <2>1, <1>2, AppendNode, LenProperties
  <2>3. dummyP \notin Range(chain) BY <1>2, <2>1 DEF IInv, Inserting
  <2>4. Typed' BY <1>1, <1>2, <2>1, <2>2 DEF IInv, Typed, consumer
  <2>5. NoNodeTwice' BY <2>2, <2>3 DEF IInv, NoNodeTwice, Range
  <2>6. HeapExact'
    BY <1>2, <2>1, <2>2, <2>3, <2>5 DEF IInv, HeapExact, NoNodeTwice, Unlinked, Leaked, Linked, Detached, consumer
  <2>7. Inserting'
    <3>1. buffer_size' + Bit("size" \in todoP') = Len(chain') + Bit(~Linked')
      BY <1>1, <1>2, <1>3, <2>1, <2>2 DEF IInv, Inserting, Bit
    <3> QED BY <3>1, <1>1, <1>2, <1>3, <2>1, <2>2 DEF IInv, Inserting, Linked
  <2>8. Mutex' /\ Resting' /\ Removing' /\ Committed'
    BY <1>2, <2>2 DEF IInv, Mutex, Resting, Removing, Committed, consumer
  <2> QED BY <2>4, <2>5, <2>6, <2>7, <2>8 DEF IInv
<1>4. CASE f \in {"tail", "size"}
  <2>1. chain' = chain /\ (Linked' <=> Linked) BY <1>1, <1>4 DEF Linked
  <2>2. Typed' BY <1>1, <1>2, <1>4, <2>1 DEF IInv, Typed, consumer
  <2>3. NoNodeTwice' /\ HeapExact'
    BY <1>2, <2>1 DEF IInv, NoNodeTwice, HeapExact, Unlinked, Leaked, Linked, Detached, consumer
  <2>4. Inserting'
    <3>1. buffer_size' + Bit("size" \in todoP') = Len(chain') + Bit(~Linked')
      <4>1. buffer_size + Bit("size" \in todoP) = Len(chain) + Bit(~Linked)
        BY <1>2 DEF IInv, Inserting
      <4>2. buffer_size' + Bit("size" \in todoP') = buffer_size + Bit("size" \in todoP)
        BY <1>1, <1>2, <1>4 DEF Bit
      <4> QED BY <4>1, <4>2, <2>1 DEF Bit
    <3> QED BY <3>1, <1>1, <1>2, <1>4, <2>1 DEF IInv, Inserting
  <2>5. Mutex' /\ Resting' /\ Removing' /\ Committed'
    BY <1>2, <2>1 DEF IInv, Mutex, Resting, Removing, Committed, consumer
  <2> QED BY <2>2, <2>3, <2>4, <2>5 DEF IInv
<1> QED BY <1>2, <1>3, <1>4

LEMMA InsertUnlockInv == IInv /\ InsertUnlock => IInv'
<1> SUFFICES ASSUME IInv, InsertUnlock PROVE IInv' OBVIOUS
<1> USE DEF InsertUnlock, consumer
<1>1. Linked /\ pcC # "store" /\ chain \in Seq(Node) /\ Len(chain) \in Nat /\ buffer_size \in Nat
  BY LenProperties DEF Linked, IInv, Mutex, Typed
<1>2. chain # <<>> /\ tail = Last(chain) /\ buffer_size = Len(chain)
  BY <1>1 DEF IInv, Inserting, Bit
<1>3. Typed' BY DEF IInv, Typed
<1>4. Mutex' /\ NoNodeTwice' /\ HeapExact'
  BY <1>1 DEF IInv, Mutex, NoNodeTwice, HeapExact, Unlinked, Leaked, Detached, Claimed, Linked
<1>5. Resting' /\ Inserting' /\ Removing' /\ Committed'
  BY <1>1, <1>2 DEF IInv, Resting, Inserting, Removing, Committed, Last
<1> QED BY <1>3, <1>4, <1>5 DEF IInv

(* sbuffer_remove_block *)

(* What the consumer finds when it gets the mutex: a live node, and head =  *)
(* tail exactly when it is the only one.                                    *)
LEMMA HeadUnderLock ==
  ASSUME IInv, pcC = "lock" \/ (pcC = "now" /\ head # NULL), lock = "free"
  PROVE  /\ chain # <<>> /\ chain \in Seq(Node) /\ Len(chain) \in Nat \ {0}
         /\ pcP \notin {"store", "failed"} /\ alive /\ head = chain[1] /\ head \in Range(chain) /\ head \in Node
         /\ heap = Range(chain) /\ tail = Last(chain) /\ buffer_size = Len(chain)
         /\ head = tail <=> Len(chain) = 1
<1>1. pcP \notin {"store", "failed"} /\ alive /\ chain \in Seq(Node) /\ chain # <<>>
  BY DEF IInv, Mutex, Typed, Committed, head
<1>2. Len(chain) \in Nat \ {0} /\ DOMAIN chain = 1 .. Len(chain)
  BY <1>1, EmptySeq, LenProperties
<1>3. head = chain[1] /\ head \in Range(chain) /\ head \in Node
  BY <1>1, <1>2, ElementOfSeq DEF head, Range
<1>4. heap = Range(chain) BY <1>1 DEF IInv, HeapExact, Unlinked, Leaked, Detached
<1>5. tail = Last(chain) /\ buffer_size = Len(chain) BY <1>1 DEF IInv, Resting
<1>6. head = tail <=> Len(chain) = 1
  BY <1>2, <1>3, <1>5 DEF IInv, NoNodeTwice, Last
<1> QED BY <1>1, <1>2, <1>3, <1>4, <1>5, <1>6

(* It then starts on the stores for the first node. *)
TakeHead ==
  /\ lock = "free" /\ lock' = "consumer"
  /\ dummyC' = head /\ out' \in Reading
  /\ todoC' = RemoveStores /\ pcC' = "store"
  /\ UNCHANGED <<chain, tail, buffer_size, heap, data, alive, producer, elapsed>>

LEMMA TakeHeadInv ==
  ASSUME IInv, pcC = "lock" \/ (pcC = "now" /\ head # NULL), TakeHead
  PROVE  IInv'
<1> USE DEF TakeHead, producer
<1>1. /\ chain # <<>> /\ chain \in Seq(Node) /\ Len(chain) \in Nat \ {0}
      /\ pcP \notin {"store", "failed"} /\ alive /\ head = chain[1] /\ head \in Range(chain) /\ head \in Node
      /\ heap = Range(chain) /\ tail = Last(chain) /\ buffer_size = Len(chain)
      /\ head = tail <=> Len(chain) = 1
  BY HeadUnderLock
<1>2. /\ chain' = chain /\ tail' = tail /\ buffer_size' = buffer_size /\ heap' = heap
      /\ dummyC' = chain[1] /\ pcP' = pcP /\ pcC' = "store" /\ todoC' = RemoveStores
  BY <1>1
<1>3. Typed'
  <2>1. out' \in Reading OBVIOUS
  <2>2. todoC' \subseteq {"nohead", "notail", "advance", "size"} BY DEF RemoveStores
  <2> QED BY <1>1, <1>2, <2>1, <2>2 DEF IInv, Typed
<1>4. Mutex' /\ NoNodeTwice' /\ Resting' /\ Inserting' /\ Committed'
  BY <1>1, <1>2 DEF IInv, Mutex, NoNodeTwice, Resting, Inserting, Committed
<1>5. CASE Len(chain) = 1
  <2>1. todoC' = {"size", "nohead", "notail"} BY <1>1, <1>5 DEF RemoveStores
  <2>2. chain = <<chain[1]>>
    <3>1. Len(<<chain[1]>>) = 1 /\ <<chain[1]>> \in Seq(Node) /\ <<chain[1]>>[1] = chain[1]
      BY <1>1
    <3> QED BY <1>1, <1>5, <3>1, SeqEqual
  <2>3. TakingLast' BY <1>1, <1>2, <1>5, <2>1, <2>2 DEF TakingLast, Bit, Last
  <2>4. HeapExact'
    BY <1>1, <1>2, <2>1 DEF IInv, HeapExact, Unlinked, Leaked, Detached, Claimed
  <2> QED BY <1>1, <1>2, <1>3, <1>4, <2>3, <2>4 DEF IInv, Removing
<1>6. CASE Len(chain) # 1
  <2>1. todoC' = {"size", "advance"} BY <1>1, <1>6 DEF RemoveStores
  <2>2. TakingFirst' BY <1>1, <1>2, <1>6, <2>1 DEF TakingFirst, Bit, Last
  <2>3. HeapExact'
    BY <1>1, <1>2, <2>1 DEF IInv, HeapExact, Unlinked, Leaked, Detached, Claimed
  <2> QED BY <1>1, <1>2, <1>3, <1>4, <2>2, <2>3 DEF IInv, Removing
<1> QED BY <1>5, <1>6

LEMMA RemoveLockInv == IInv /\ RemoveLock => IInv'
<1> SUFFICES ASSUME IInv, RemoveLock PROVE IInv' OBVIOUS
<1>1. out' \in Reading BY DEF RemoveLock, IInv, Typed
<1>2. TakeHead BY <1>1 DEF RemoveLock, TakeHead
<1> QED BY <1>2, TakeHeadInv DEF RemoveLock

LEMMA RemoveStoreInv == IInv /\ RemoveStore => IInv'
<1> SUFFICES ASSUME IInv, RemoveStore PROVE IInv' OBVIOUS
<1> USE DEF producer
<1>1. PICK f \in todoC :
       /\ todoC' = todoC \ {f}
       /\ chain' = CASE f = "nohead"  -> <<>>
                     [] f = "advance" -> Tail(chain)
                     [] OTHER         -> chain
       /\ tail'  = IF f = "notail" THEN NULL ELSE tail
       /\ buffer_size' = IF f = "size" THEN buffer_size - 1 ELSE buffer_size
  BY DEF RemoveStore
<1>2. /\ alive /\ pcC = "store" /\ lock = "consumer" /\ pcP # "store"
      /\ UNCHANGED <<lock, heap, data, alive, pcP, arg, dummyP, last, todoP, pcC, out, dummyC, elapsed>>
      /\ chain \in Seq(Node) /\ dummyC \in Node /\ buffer_size \in Nat
      /\ Len(chain) \in Nat /\ f \in {"nohead", "notail", "advance", "size"}
  BY <1>1, LenProperties DEF RemoveStore, IInv, Mutex, Typed, Removing
<1>3. Mutex' /\ Resting' /\ Inserting' /\ Committed'
  BY <1>2 DEF IInv, Mutex, Resting, Inserting, Committed
<1>4. CASE TakingLast
  <2>1. f \in {"size", "nohead", "notail"} BY <1>1, <1>4 DEF TakingLast
  <2>2. TakingLast'
    BY <1>1, <1>2, <1>4, <2>1 DEF TakingLast, Bit
  <2>3. Typed'
    BY <1>1, <1>2, <1>4, <2>1, <2>2, EmptySeq DEF IInv, Typed, TakingLast, Bit
  <2>4. NoNodeTwice' /\ HeapExact'
    <3>1. Range(<<>>) = {} /\ DOMAIN <<>> = {} BY DEF Range
    <3>2. CASE f = "nohead"
      <4>1. chain = <<dummyC>> /\ chain' = <<>> /\ Claimed /\ ~Claimed'
        BY <1>1, <1>2, <1>4, <3>2 DEF TakingLast, Claimed
      <4>2. Range(chain) = {dummyC} BY <4>1 DEF Range
      <4> QED BY <1>2, <4>1, <4>2, <3>1 DEF IInv, HeapExact, NoNodeTwice, Unlinked, Leaked, Detached
    <3>3. CASE f # "nohead"
      <4>1. chain' = chain /\ (Claimed' <=> Claimed) BY <1>1, <1>2, <2>1, <3>3 DEF Claimed
      <4> QED BY <1>2, <4>1 DEF IInv, HeapExact, NoNodeTwice, Unlinked, Leaked, Detached
    <3> QED BY <3>2, <3>3
  <2> QED BY <1>2, <1>3, <2>2, <2>3, <2>4 DEF IInv, Removing
<1>5. CASE TakingFirst
  <2>1. f \in {"size", "advance"} BY <1>1, <1>5 DEF TakingFirst
  <2>2. CASE f = "advance"
    <3>1. chain[1] = dummyC /\ Len(chain) > 1 /\ chain' = Tail(chain) /\ todoC' = todoC \ {"advance"}
          /\ tail' = tail /\ buffer_size' = buffer_size /\ Claimed /\ ~Claimed'
      BY <1>1, <1>2, <1>5, <2>2 DEF TakingFirst, Claimed
    <3>2. /\ chain' \in Seq(Node) /\ Len(chain') = Len(chain) - 1
          /\ Range(chain') = Range(chain) \ {dummyC} /\ dummyC \in Range(chain)
          /\ chain' # <<>> /\ Last(chain') = Last(chain)
          /\ \A i, j \in DOMAIN chain' : chain'[i] = chain'[j] => i = j
      BY <1>2, <1>5, <3>1, TailNode DEF IInv, NoNodeTwice, TakingFirst
    <3>3. Typed' BY <1>1, <1>2, <3>1, <3>2 DEF IInv, Typed
    <3>4. NoNodeTwice' /\ HeapExact'
      BY <1>2, <3>1, <3>2 DEF IInv, HeapExact, NoNodeTwice, Unlinked, Leaked, Detached
    <3>5. TakingFirst' BY <1>1, <1>2, <1>5, <2>2, <3>1, <3>2 DEF TakingFirst, Bit
    <3> QED BY <1>2, <1>3, <3>3, <3>4, <3>5 DEF IInv, Removing
  <2>3. CASE f = "size"
    <3>1. chain' = chain /\ tail' = tail /\ buffer_size' = buffer_size - 1
          /\ todoC' = todoC \ {"size"} /\ "size" \in todoC /\ (Claimed' <=> Claimed)
      BY <1>1, <1>2, <2>3 DEF Claimed
    <3>2. Len(chain) \in Nat \ {0} BY <1>2, <1>5, EmptySeq DEF TakingFirst
    <3>3. TakingFirst' /\ buffer_size > 0
      <4>1. buffer_size + Bit("advance" \in todoC) = Len(chain) + 1
        BY <1>5, <3>1 DEF TakingFirst, Bit
      <4>2. "advance" \in todoC' <=> "advance" \in todoC BY <3>1
      <4>3. buffer_size' + Bit("advance" \in todoC') = Len(chain)
        BY <1>2, <3>1, <3>2, <4>1, <4>2 DEF Bit
      <4>4. buffer_size > 0 BY <1>2, <3>2, <4>1 DEF Bit
      <4>5. todoC' \subseteq {"size", "advance"} BY <1>5, <3>1 DEF TakingFirst
      <4> QED BY <1>2, <1>5, <3>1, <3>2, <4>2, <4>3, <4>4, <4>5 DEF TakingFirst, Bit, Last
    <3>4. Typed' BY <1>1, <1>2, <3>1, <3>3 DEF IInv, Typed
    <3>5. NoNodeTwice' /\ HeapExact'
      BY <1>2, <3>1 DEF IInv, HeapExact, NoNodeTwice, Unlinked, Leaked, Detached
    <3> QED BY <1>2, <1>3, <3>3, <3>4, <3>5 DEF IInv, Removing
  <2> QED BY <2>1, <2>2, <2>3
<1> QED BY <1>2, <1>4, <1>5 DEF IInv, Removing

LEMMA RemoveUnlockInv == IInv /\ RemoveUnlock => IInv'
<1> SUFFICES ASSUME IInv, RemoveUnlock PROVE IInv' OBVIOUS
<1> USE DEF RemoveUnlock, producer
<1>1. ~Claimed /\ pcP \notin {"store", "failed"} /\ alive /\ lock = "consumer" /\ chain \in Seq(Node)
  BY DEF Claimed, IInv, Mutex, Typed
<1>2. /\ buffer_size = Len(chain)
      /\ tail = IF chain = <<>> THEN NULL ELSE Last(chain)
  <2>1. CASE TakingLast BY <2>1, EmptySeq DEF TakingLast, Bit
  <2>2. CASE TakingFirst
    <3>1. Len(chain) \in Nat /\ buffer_size \in Nat BY <1>1, LenProperties DEF IInv, Typed
    <3> QED BY <2>2, <3>1 DEF TakingFirst, Bit
  <2> QED BY <2>1, <2>2 DEF IInv, Removing
<1>3. heap = Range(chain) \cup {dummyC} /\ dummyC \notin Range(chain)
  BY <1>1 DEF IInv, HeapExact, Unlinked, Leaked, Detached
<1>4. Typed' BY DEF IInv, Typed
<1>5. NoNodeTwice' /\ HeapExact'
  BY <1>1, <1>3 DEF IInv, NoNodeTwice, HeapExact, Unlinked, Leaked, Detached
<1>6. Mutex' /\ Resting' /\ Inserting' /\ Removing' /\ Committed'
  BY <1>1, <1>2 DEF IInv, Mutex, Resting, Inserting, Removing, Committed, Last
<1> QED BY <1>4, <1>5, <1>6 DEF IInv

(* The unlocked reads: whichever of them sees a node, one is there or is on *)
(* its way into the list.                                                   *)
LEMMA LookingInv ==
  IInv /\ (RemoveEnter \/ RemoveSleep \/ RemovePoll \/ RemoveCheck) => IInv'
<1> SUFFICES ASSUME IInv, RemoveEnter \/ RemoveSleep \/ RemovePoll \/ RemoveCheck
             PROVE  IInv'
  OBVIOUS
<1> USE DEF RemoveEnter, RemoveSleep, RemovePoll, RemoveCheck, buffer, producer
<1>1. UNCHANGED <<buffer, alive, producer, dummyC, todoC, out>> OBVIOUS
<1>2. pcC \in {"call", "sleep", "poll", "check"} /\ pcC' \in {"sleep", "poll", "check", "lock", "done"}
  OBVIOUS
<1>3. elapsed' \in 0 .. TIMEOUT BY SBufferAssumption DEF IInv, Typed
<1>4. Typed' BY <1>1, <1>2, <1>3 DEF IInv, Typed
<1>5. Committed'
  <2>1. CASE RemoveEnter BY <2>1 DEF Committed, head
  <2>2. CASE RemovePoll
    <3>1. Len(<<>>) = 0 BY EmptySeq
    <3> QED BY <2>2, <3>1 DEF Committed, IInv, Resting
  <2>3. CASE RemoveSleep \/ RemoveCheck BY <2>3 DEF Committed
  <2> QED BY <2>1, <2>2, <2>3
<1> QED BY <1>1, <1>2, <1>4, <1>5, OutsideStep

LEMMA InvStep == IInv /\ [Next]_vars => IInv'
<1> SUFFICES ASSUME IInv, [Next]_vars PROVE IInv' OBVIOUS
<1>1. ASSUME NEW r \in Reading, InsertCall(r) PROVE IInv'
  <2>1. Typed' BY <1>1 DEF InsertCall, buffer, consumer, IInv, Typed
  <2>2. Committed' BY <1>1 DEF InsertCall, buffer, consumer, IInv, Committed
  <2> QED BY <1>1, <2>1, <2>2, OutsideStep DEF InsertCall, consumer
<1>2. CASE ProducerEnd
  <2>1. Typed' BY <1>2 DEF ProducerEnd, buffer, consumer, IInv, Typed
  <2>2. Committed' BY <1>2 DEF ProducerEnd, buffer, consumer, IInv, Committed
  <2> QED BY <1>2, <2>1, <2>2, OutsideStep DEF ProducerEnd, consumer
<1>3. CASE UNCHANGED vars
  <2>1. Typed' BY <1>3 DEF vars, buffer, producer, consumer, IInv, Typed
  <2>2. Committed' BY <1>3 DEF vars, buffer, producer, consumer, IInv, Committed
  <2> QED BY <1>3, <2>1, <2>2, OutsideStep DEF vars, producer, consumer
<1>4. CASE Insert \/ InsertFail
  BY <1>4, InsertLockInv, InsertStoreInv, InsertUnlockInv, InsertFailInv, InsertExitInv
     DEF Insert
<1>5. CASE Remove
  BY <1>5, LookingInv, RemoveLockInv, RemoveStoreInv, RemoveUnlockInv DEF Remove
<1> QED BY <1>1, <1>2, <1>3, <1>4, <1>5 DEF Next

(* The invariant above holds in every reachable state of SBuffer, whose     *)
(* consumer is never in sbuffer_remove.                                     *)
THEOREM Invariant == Spec => [](IInv /\ TypeOK)
<1>1. Init => TypeOK
  <2>1. Init => Typed BY InvInit DEF IInv
  <2> QED BY <2>1 DEF Init, Typed, TypeOK
<1>2. ASSUME IInv /\ TypeOK, [Next]_vars PROVE TypeOK'
  <2>1. Typed' BY <1>2, InvStep DEF IInv
  <2>2. pcC # "now" BY <1>2 DEF TypeOK
  <2>3. pcC' # "now"
    BY <1>2, <2>2 DEF Next, vars, consumer, InsertCall, Insert, InsertLock, InsertStore,
       InsertUnlock, InsertFail, InsertExit, ProducerEnd, Remove, RemoveEnter, RemoveSleep, RemovePoll,
       RemoveCheck, RemoveLock, RemoveStore, RemoveUnlock
  <2> QED BY <2>1, <2>3 DEF Typed, TypeOK
<1> QED BY <1>1, <1>2, InvInit, InvStep, PTL DEF Spec

(* The three redundant fields of the buffer agree whenever its mutex is     *)
(* free, with the types of all variables.                                   *)
THEOREM FieldsStayInStep == Spec => []BufferOK
<1>1. IInv /\ TypeOK => BufferOK BY DEF IInv, Mutex, Resting, BufferOK, FieldsAgree, Last
<1> QED BY <1>1, Invariant, PTL

(* No node is doubly freed or linked after its free, in the middle of both  *)
(* functions too, and none is leaked but the node of an insertion whose     *)
(* second malloc has failed.                                                *)
THEOREM NoNodeLost == Spec => []HeapExact
<1>1. IInv => HeapExact BY DEF IInv
<1> QED BY <1>1, Invariant, PTL

(* sbuffer_remove_block, which decides without the mutex, finds a live head *)
(* once it holds the mutex.                                                 *)
THEOREM RemovalIsSafe == Spec => []TakesLiveNode
<1>1. IInv => TakesLiveNode BY HeadUnderLock DEF TakesLiveNode
<1> QED BY <1>1, Invariant, PTL

(* SBUFFER_NO_DATA is returned over an empty buffer only, or while an       *)
(* insertion is going on: the second unlocked read is enough.               *)
THEOREM GivesUpOnEmpty == Spec => NoDataMeansEmpty
<1>1. ASSUME IInv, [Next]_vars, pcC # "done", pcC' = "done"
      PROVE  chain = <<>> \/ lock = "producer"
  <2>1. RemoveCheck /\ buffer_size = 0
    BY <1>1 DEF Next, vars, consumer, InsertCall, Insert, InsertLock, InsertStore,
       InsertUnlock, InsertFail, InsertExit, ProducerEnd, Remove, RemoveEnter, RemoveSleep, RemovePoll,
       RemoveCheck, GiveUp, RemoveLock, RemoveStore, RemoveUnlock
  <2>2. chain \in Seq(Node) /\ (chain # <<>> => Len(chain) # 0)
    BY <1>1, EmptySeq DEF IInv, Typed
  <2>3. lock # "producer" => Len(chain) = 0
    BY <1>1, <2>1 DEF RemoveCheck, IInv, Mutex, Resting
  <2> QED BY <2>2, <2>3
<1>2. IInv /\ [Next]_vars => [pcC # "done" /\ pcC' = "done" => chain = <<>> \/ lock = "producer"]_vars
  BY <1>1
<1> QED BY <1>2, Invariant, PTL DEF Spec, NoDataMeansEmpty

------------------------------------------------------------------------------
(* The buffer implements the FIFO queue *)

Payloads(c, d) == [i \in DOMAIN c |-> d[c[i]]]

LEMMA PayloadsSeq ==
  ASSUME NEW c \in Seq(Node), NEW d \in [Node -> Reading]
  PROVE  /\ Payloads(c, d) \in Seq(Reading) /\ Len(Payloads(c, d)) = Len(c)
         /\ \A i \in 1 .. Len(c) : Payloads(c, d)[i] = d[c[i]]
<1>1. /\ Len(c) \in Nat /\ DOMAIN c = 1 .. Len(c)
      /\ \A i \in 1 .. Len(c) : c[i] \in Node
  BY LenProperties, ElementOfSeq
<1>2. Payloads(c, d) \in [1 .. Len(c) -> Reading] BY <1>1 DEF Payloads
<1>3. Payloads(c, d) \in Seq(Reading) BY <1>1, <1>2, SeqDef
<1>4. Len(Payloads(c, d)) = Len(c) BY <1>1, <1>2, <1>3, LenProperties
<1> QED BY <1>1, <1>3, <1>4 DEF Payloads

LEMMA PayloadsAppend ==
  ASSUME NEW c \in Seq(Node), NEW n \in Node, NEW d \in [Node -> Reading]
  PROVE  Payloads(Append(c, n), d) = Append(Payloads(c, d), d[n])
<1>1. /\ Append(c, n) \in Seq(Node) /\ Len(Append(c, n)) = Len(c) + 1 /\ Len(c) \in Nat
      /\ \A i \in 1 .. Len(c) : Append(c, n)[i] = c[i]
      /\ Append(c, n)[Len(c) + 1] = n
  BY AppendProperties, LenProperties
<1>2. Payloads(c, d) \in Seq(Reading) /\ d[n] \in Reading BY PayloadsSeq
<1>3. /\ Append(Payloads(c, d), d[n]) \in Seq(Reading)
      /\ Len(Append(Payloads(c, d), d[n])) = Len(c) + 1
      /\ \A i \in 1 .. Len(c) : Append(Payloads(c, d), d[n])[i] = d[c[i]]
      /\ Append(Payloads(c, d), d[n])[Len(c) + 1] = d[n]
  BY <1>2, AppendProperties, PayloadsSeq
<1>4. /\ Payloads(Append(c, n), d) \in Seq(Reading)
      /\ Len(Payloads(Append(c, n), d)) = Len(c) + 1
      /\ \A i \in 1 .. Len(c) + 1 : Payloads(Append(c, n), d)[i] = d[Append(c, n)[i]]
  BY <1>1, PayloadsSeq
<1> QED BY <1>1, <1>3, <1>4, SeqEqual

LEMMA PayloadsTail ==
  ASSUME NEW c \in Seq(Node), c # <<>>, NEW d \in [Node -> Reading]
  PROVE  /\ Payloads(c, d) # <<>> /\ Head(Payloads(c, d)) = d[c[1]]
         /\ Payloads(Tail(c), d) = Tail(Payloads(c, d))
<1>1. /\ Len(c) \in Nat \ {0} /\ Tail(c) \in Seq(Node) /\ Len(Tail(c)) = Len(c) - 1
      /\ \A i \in 1 .. Len(Tail(c)) : Tail(c)[i] = c[i + 1]
  BY EmptySeq, HeadTailProperties
<1>2. /\ Payloads(c, d) \in Seq(Reading) /\ Len(Payloads(c, d)) = Len(c)
      /\ \A i \in 1 .. Len(c) : Payloads(c, d)[i] = d[c[i]]
  BY PayloadsSeq
<1>3. Payloads(c, d) # <<>> BY <1>1, <1>2, EmptySeq
<1>4. /\ Head(Payloads(c, d)) = Payloads(c, d)[1]
      /\ Tail(Payloads(c, d)) \in Seq(Reading)
      /\ Len(Tail(Payloads(c, d))) = Len(c) - 1
      /\ \A i \in 1 .. Len(c) - 1 : Tail(Payloads(c, d))[i] = Payloads(c, d)[i + 1]
  BY <1>2, <1>3, HeadTailProperties
<1>5. /\ Payloads(Tail(c), d) \in Seq(Reading)
      /\ Len(Payloads(Tail(c), d)) = Len(c) - 1
      /\ \A i \in 1 .. Len(c) - 1 : Payloads(Tail(c), d)[i] = d[c[i + 1]]
  <2>1. /\ Payloads(Tail(c), d) \in Seq(Reading)
        /\ Len(Payloads(Tail(c), d)) = Len(Tail(c))
        /\ \A i \in 1 .. Len(Tail(c)) : Payloads(Tail(c), d)[i] = d[Tail(c)[i]]
    BY <1>1, PayloadsSeq
  <2> QED BY <1>1, <2>1
<1>6. \A i \in 1 .. Len(c) - 1 : i + 1 \in 1 .. Len(c) BY <1>1
<1>7. Payloads(Tail(c), d) = Tail(Payloads(c, d))
  BY <1>1, <1>2, <1>4, <1>5, <1>6, SeqEqual
<1> QED BY <1>1, <1>2, <1>3, <1>4, <1>7

(* Only what the nodes of the list hold counts. *)
LEMMA PayloadsSame ==
  ASSUME NEW c \in Seq(Node), NEW d, NEW e, \A n \in Range(c) : d[n] = e[n]
  PROVE  Payloads(c, d) = Payloads(c, e)
BY DEF Payloads, Range

LEMMA ContentsArePayloads ==
  Contents = IF Claimed THEN Payloads(Tail(chain), data) ELSE Payloads(chain, data)
BY DEF Contents, Payloads

LEMMA ContentsPrime ==
  Contents' = IF Claimed' THEN Payloads(Tail(chain'), data') ELSE Payloads(chain', data')
BY DEF Contents, Payloads

LEMMA QueueInit == Init => Q!Init
<1> SUFFICES ASSUME Init PROVE Q!Init OBVIOUS
<1> USE DEF Init
<1>1. <<>> \in Seq(Node) /\ Len(<<>>) = 0 BY EmptySeq
<1>2. Payloads(chain, data) \in Seq(Reading) /\ Len(Payloads(chain, data)) = 0
  BY <1>1, PayloadsSeq
<1>3. Payloads(chain, data) = <<>> BY <1>2, EmptySeq
<1>4. ~Claimed BY DEF Claimed
<1> QED BY <1>3, <1>4, ContentsArePayloads DEF Q!Init

(* Whatever leaves list, payloads and claim alone is invisible to the queue. *)
LEMMA QueueStutters ==
  ASSUME UNCHANGED <<chain, data, out>>, Claimed' <=> Claimed
  PROVE  UNCHANGED <<Contents, out>>
BY ContentsArePayloads, ContentsPrime

(* sbuffer_insert puts its reading into the queue when it links the node. *)
LEMMA InsertLockStutters == IInv /\ InsertLock => UNCHANGED <<Contents, out>>
<1> SUFFICES ASSUME IInv, InsertLock PROVE UNCHANGED <<Contents, out>> OBVIOUS
<1> USE DEF InsertLock, consumer
<1>1. ~Claimed /\ ~Claimed' /\ chain \in Seq(Node) /\ Range(chain) \subseteq heap
  BY DEF Claimed, IInv, Mutex, Typed, HeapExact
<1>2. PICK n \in Node \ heap : data' = [data EXCEPT ![n] = arg] OBVIOUS
<1>3. \A m \in Range(chain) : data'[m] = data[m] BY <1>1, <1>2 DEF IInv, Typed
<1>4. Payloads(chain, data') = Payloads(chain, data) BY <1>1, <1>3, PayloadsSame
<1> QED BY <1>1, <1>4, ContentsArePayloads, ContentsPrime

LEMMA InsertStorePuts ==
  IInv /\ InsertStore => Q!Put(data[dummyP]) \/ UNCHANGED <<Contents, out>>
<1> SUFFICES ASSUME IInv, InsertStore
             PROVE  Q!Put(data[dummyP]) \/ UNCHANGED <<Contents, out>>
  OBVIOUS
<1> USE DEF InsertStore, consumer
<1>1. PICK f \in todoP :
        chain' = CASE f = "head" -> <<dummyP>>
                   [] f = "next" -> LinkAfter(last, dummyP)
                   [] OTHER      -> chain
  OBVIOUS
<1>2. /\ ~Claimed /\ ~Claimed' /\ chain \in Seq(Node) /\ dummyP \in Node
      /\ data \in [Node -> Reading] /\ UNCHANGED <<data, out>>
  BY DEF Claimed, IInv, Mutex, Typed, Inserting
<1>3. CASE chain' = Append(chain, dummyP)
  BY <1>2, <1>3, PayloadsAppend, ContentsArePayloads, ContentsPrime DEF Q!Put
<1>4. CASE chain' = chain BY <1>2, <1>4, QueueStutters
<1>5. chain' = Append(chain, dummyP) \/ chain' = chain
  <2>1. CASE f = "head" BY <1>1, <2>1 DEF IInv, Inserting
  <2>2. CASE f = "next" BY <1>1, <1>2, <2>2, LinkAppends DEF IInv, Inserting
  <2>3. CASE f \notin {"head", "next"} BY <1>1, <2>3
  <2> QED BY <2>1, <2>2, <2>3
<1> QED BY <1>3, <1>4, <1>5

(* sbuffer_remove_block takes its reading when it gets the mutex. *)
LEMMA RemoveLockGets == IInv /\ RemoveLock => Q!Get
<1> SUFFICES ASSUME IInv, RemoveLock PROVE Q!Get OBVIOUS
<1> USE DEF RemoveLock
<1>1. /\ chain # <<>> /\ chain \in Seq(Node) /\ head = chain[1] /\ head \in heap
      /\ data \in [Node -> Reading]
  BY HeadUnderLock DEF IInv, Typed
<1>2. ~Claimed BY DEF Claimed
<1>3. Claimed' BY DEF Claimed, RemoveStores
<1>4. Contents = Payloads(chain, data) /\ Contents' = Payloads(Tail(chain), data)
  BY <1>2, <1>3, ContentsArePayloads, ContentsPrime
<1>5. /\ Payloads(chain, data) # <<>> /\ Head(Payloads(chain, data)) = data[chain[1]]
      /\ Payloads(Tail(chain), data) = Tail(Payloads(chain, data))
  BY <1>1, PayloadsTail
<1> QED BY <1>1, <1>4, <1>5 DEF Q!Get

(* Its stores only make the list catch up with the queue. *)
LEMMA RemoveStoreStutters == IInv /\ RemoveStore => UNCHANGED <<Contents, out>>
<1> SUFFICES ASSUME IInv, RemoveStore PROVE UNCHANGED <<Contents, out>> OBVIOUS
<1> USE DEF RemoveStore
<1>1. PICK f \in todoC :
        /\ todoC' = todoC \ {f}
        /\ chain' = CASE f = "nohead"  -> <<>>
                      [] f = "advance" -> Tail(chain)
                      [] OTHER         -> chain
  OBVIOUS
<1>2. CASE f \in {"nohead", "advance"}
  <2>1. Claimed /\ ~Claimed' /\ chain' = Tail(chain)
    <3>1. CASE TakingLast
      <4>1. f = "nohead" /\ chain = <<dummyC>> BY <1>1, <1>2, <3>1 DEF TakingLast
      <4>2. Tail(<<dummyC>>) = <<>> OBVIOUS
      <4> QED BY <1>1, <3>1, <4>1, <4>2 DEF Claimed, TakingLast
    <3>2. CASE TakingFirst BY <1>1, <1>2, <3>2 DEF Claimed, TakingFirst
    <3> QED BY <3>1, <3>2 DEF IInv, Removing
  <2> QED BY <2>1, ContentsArePayloads, ContentsPrime
<1>3. CASE f \notin {"nohead", "advance"}
  <2>1. chain' = chain /\ (Claimed' <=> Claimed) BY <1>1, <1>3 DEF Claimed
  <2> QED BY <2>1, QueueStutters
<1> QED BY <1>2, <1>3

LEMMA QueueStep == IInv /\ [Next]_vars => [Q!Next]_<<Contents, out>>
<1> SUFFICES ASSUME IInv, [Next]_vars PROVE [Q!Next]_<<Contents, out>> OBVIOUS
<1>1. ASSUME NEW r \in Reading, InsertCall(r) PROVE UNCHANGED <<Contents, out>>
  BY <1>1, QueueStutters DEF InsertCall, buffer, consumer, Claimed
<1>2. CASE InsertLock BY <1>2, InsertLockStutters
<1>3. CASE InsertStore
  <2>1. data[dummyP] \in Reading BY <1>3 DEF InsertStore, IInv, Typed, Inserting
  <2> QED BY <1>3, <2>1, InsertStorePuts DEF Q!Next
<1>4. CASE InsertUnlock \/ InsertFail \/ InsertExit \/ ProducerEnd
  BY <1>4, QueueStutters DEF InsertUnlock, InsertFail, InsertExit, ProducerEnd, buffer, consumer, Claimed
<1>5. CASE RemoveEnter \/ RemoveSleep \/ RemovePoll \/ RemoveCheck
  BY <1>5, QueueStutters DEF RemoveEnter, RemoveSleep, RemovePoll, RemoveCheck, buffer, Claimed
<1>6. CASE RemoveLock BY <1>6, RemoveLockGets DEF Q!Next
<1>7. CASE RemoveStore BY <1>7, RemoveStoreStutters
<1>8. CASE RemoveUnlock BY <1>8, QueueStutters DEF RemoveUnlock, Claimed
<1>9. CASE UNCHANGED vars BY <1>9, QueueStutters DEF vars, buffer, consumer, Claimed
<1> QED BY <1>1, <1>2, <1>3, <1>4, <1>5, <1>6, <1>7, <1>8, <1>9 DEF Next, Insert, Remove

(* sbuffer_insert and sbuffer_remove_block together implement a FIFO queue: *)
(* readings come out once each and in the order they were linked.           *)
THEOREM BufferIsQueue == Spec => ImplementsQueue
<1>1. Spec => []IInv BY Invariant, PTL
<1> QED BY <1>1, QueueInit, QueueStep, PTL DEF Spec, ImplementsQueue, Q!Spec

------------------------------------------------------------------------------
(* The rest of the interface *)

(* sbuffer_remove has found the buffer empty and kept the mutex: nobody     *)
(* gets it any more, and the buffer stays empty.                            *)
Stuck ==
  /\ lock = "consumer" /\ pcC \in {"call", "now", "sleep", "poll", "check", "done"}
  /\ pcP \notin {"store", "failed"} /\ chain = <<>> /\ tail = NULL /\ buffer_size = 0 /\ heap = {}

(* Otherwise SBuffer's own invariant holds until the process exits or the   *)
(* buffer is freed.                                                         *)
ApiInv ==
  /\ pcD # "idle" => pcP = "idle"
  /\ freed => pcP = "done" /\ pcC = "done"
  /\ \/ ~freed /\ (Stuck \/ IInv)
     \/ (freed \/ ~alive) /\ HeapExact /\ AgreesUntilFreed

------------------------------------------------------------------------------
(* What the invariant of SBuffer says here. *)
LEMMA Carried ==
  ASSUME IInv
  PROVE  /\ HeapExact /\ AgreesUntilFreed
         /\ lock = "free" => pcP \notin {"store", "failed"} /\ pcC # "store"
         /\ pcP \notin {"store", "failed"} /\ pcC # "store" =>
              /\ heap = Range(chain) /\ buffer_size = Len(chain)
              /\ chain = <<>> => tail = NULL
         /\ chain = <<>> <=> head = NULL
<1> USE DEF IInv
<1>1. HeapExact OBVIOUS
<1>2. /\ lock = "producer" => pcP \in {"store", "failed"}
      /\ lock = "consumer" => pcC = "store"
      /\ lock = "free" => pcP \notin {"store", "failed"} /\ pcC # "store"
  BY DEF Mutex
<1>3. pcP # "store" /\ pcC # "store" =>
        buffer_size = Len(chain) /\ tail = IF chain = <<>> THEN NULL ELSE chain[Len(chain)]
  BY DEF Resting, Last
<1>4. pcP \notin {"store", "failed"} /\ pcC # "store" => heap = Range(chain)
  BY <1>1 DEF HeapExact, Unlinked, Leaked, Detached, Claimed
<1>5. chain = <<>> <=> head = NULL
  <2>1. chain \in Seq(Node) BY DEF Typed
  <2>2. chain # <<>> => 1 \in 1 .. Len(chain) BY <2>1, EmptySeq
  <2>3. chain # <<>> => chain[1] \in Node BY <2>1, <2>2, ElementOfSeq
  <2> QED BY <2>3, SBufferAssumption DEF head
<1> QED BY <1>1, <1>2, <1>3, <1>4, <1>5 DEF AgreesUntilFreed, FieldsAgree

(* A consumer that has found a node in sbuffer_remove goes on as one of     *)
(* sbuffer_remove_block does.                                               *)
LEMMA RemoveNowLockInv == ASSUME IInv, RemoveNowLock PROVE IInv'
<1>1. head \in heap BY HeadUnderLock DEF RemoveNowLock
<1>2. out' \in Reading BY <1>1 DEF RemoveNowLock, IInv, Typed
<1>3. TakeHead BY <1>2 DEF RemoveNowLock, TakeHead
<1> QED BY <1>3, TakeHeadInv DEF RemoveNowLock

LEMMA InitInv == ApiInit => ApiInv
BY InvInit DEF ApiInit, ApiInv

(* A buffer whose mutex is kept stays empty, and nobody gets past the mutex. *)
LEMMA StuckStep == ASSUME Stuck, Produce \/ Remove PROVE Stuck'
<1> USE DEF Stuck, buffer, producer, consumer
<1>1. CASE Produce
  <2>1. \A r \in Reading : InsertCall(r) => Stuck' BY DEF InsertCall
  <2>2. ProducerEnd => Stuck' BY DEF ProducerEnd
  <2>3. ~InsertLock /\ ~InsertFail /\ ~InsertStore /\ ~InsertUnlock /\ ~InsertExit
    BY DEF InsertLock, InsertFail, InsertStore, InsertUnlock, InsertExit
  <2> QED BY <1>1, <2>1, <2>2, <2>3 DEF Produce, Insert
<1>2. CASE Remove
  <2>1. RemoveEnter => Stuck' BY DEF RemoveEnter, head
  <2>2. RemoveSleep => Stuck' BY DEF RemoveSleep
  <2>3. RemovePoll => Stuck' BY DEF RemovePoll
  <2>4. RemoveCheck => Stuck' BY DEF RemoveCheck
  <2>5. ~RemoveLock /\ ~RemoveStore /\ ~RemoveUnlock
    BY DEF RemoveLock, RemoveStore, RemoveUnlock
  <2> QED BY <1>2, <2>1, <2>2, <2>3, <2>4, <2>5 DEF Remove
<1> QED BY <1>1, <1>2

(* Of a buffer in that state the properties hold. *)
LEMMA StuckHolds == ASSUME Stuck PROVE HeapExact /\ AgreesUntilFreed
<1>1. Range(chain) = {} /\ DOMAIN chain = {} BY EmptySeq DEF Stuck, Range
<1>2. HeapExact BY <1>1 DEF Stuck, HeapExact, Unlinked, Leaked, Detached, Claimed
<1> QED BY <1>2 DEF Stuck, AgreesUntilFreed, FieldsAgree

LEMMA NextInv == ApiInv /\ [ApiNext]_allVars => ApiInv'
<1> SUFFICES ASSUME ApiInv, [ApiNext]_allVars PROVE ApiInv' OBVIOUS
<1>1. CASE UNCHANGED allVars
  <2> USE <1>1 DEF allVars, vars, api, buffer, producer, consumer
  <2>1. Stuck => Stuck' BY DEF Stuck
  <2>2. IInv => IInv'
    <3>1. UNCHANGED vars BY DEF vars, buffer, producer, consumer
    <3> QED BY <3>1, InvStep
  <2>3. HeapExact => HeapExact' BY DEF HeapExact, Unlinked, Leaked, Detached, Claimed
  <2>4. AgreesUntilFreed => AgreesUntilFreed' BY DEF AgreesUntilFreed, FieldsAgree
  <2> QED BY <2>1, <2>2, <2>3, <2>4 DEF ApiInv
<1>2. ASSUME ApiNext PROVE alive /\ ~freed
  BY <1>2 DEF ApiInv, ApiNext, api, walk, Produce, Insert, InsertCall, InsertLock, InsertStore, InsertUnlock,
     InsertFail, InsertExit, ProducerEnd, Remove, RemoveEnter, RemoveSleep, RemovePoll, RemoveCheck,
     RemoveLock, RemoveStore, RemoveUnlock, RemoveNow, RemoveNowCall, RemoveNowEmpty,
     RemoveNowLock, PrintCall, DebugPrint, PrintTest, PrintGet, PrintFirst, PrintWalk, SbufferFree
<1>3. CASE pcD = "idle" /\ Produce /\ UNCHANGED api
  <2>1. ~freed /\ (Stuck \/ IInv) BY <1>2, <1>3 DEF ApiInv, ApiNext
  <2>2. Stuck' \/ IInv' BY <1>3, <2>1, StuckStep, InvStep DEF Produce, Next
  <2>3. pcD' = "idle" /\ ~freed' BY <1>3, <2>1 DEF api
  <2> QED BY <2>2, <2>3 DEF ApiInv
<1>4. CASE Remove /\ UNCHANGED api
  <2>1. ~freed /\ (Stuck \/ IInv) BY <1>2, <1>4 DEF ApiInv, ApiNext
  <2>2. Stuck' \/ IInv' BY <1>4, <2>1, StuckStep, InvStep DEF Next
  <2>3. pcD' = pcD /\ ~freed' BY <1>4, <2>1 DEF api
  <2>4. pcP' = pcP
    BY <1>4 DEF Remove, RemoveEnter, RemoveSleep, RemovePoll, RemoveCheck, RemoveLock, RemoveStore,
       RemoveUnlock, producer
  <2> QED BY <2>2, <2>3, <2>4 DEF ApiInv
<1>5. CASE RemoveNow
  <2>1. ~freed /\ (Stuck \/ IInv) BY <1>2, <1>5 DEF ApiInv, ApiNext
  <2>2. pcD' = pcD /\ pcP' = pcP /\ ~freed'
    BY <1>5, <2>1 DEF RemoveNow, RemoveNowCall, RemoveNowEmpty, RemoveNowLock, producer, api
  <2>3. CASE RemoveNowCall
    <3>1. Stuck => Stuck' BY <2>3 DEF RemoveNowCall, Stuck, buffer, producer
    <3>2. IInv => IInv'
      <4> SUFFICES ASSUME IInv PROVE IInv' OBVIOUS
      <4> USE <2>3 DEF RemoveNowCall, buffer, producer
      <4>1. Typed' BY DEF IInv, Typed
      <4>2. Committed' BY DEF Committed
      <4> QED BY <4>1, <4>2, OutsideStep
    <3> QED BY <2>1, <2>2, <3>1, <3>2 DEF ApiInv
  <2>4. CASE RemoveNowEmpty
    <3>1. ~Stuck BY <2>4 DEF RemoveNowEmpty, Stuck
    <3>2. chain = <<>> /\ pcP \notin {"store", "failed"} /\ pcC # "store" /\ heap = Range(chain)
          /\ buffer_size = Len(chain) /\ tail = NULL
      BY <2>1, <2>4, <3>1, Carried DEF RemoveNowEmpty
    <3>3. Range(chain) = {} /\ Len(chain) = 0 BY <3>2, EmptySeq DEF Range
    <3>4. Stuck' BY <2>4, <3>2, <3>3 DEF RemoveNowEmpty, Stuck, producer
    <3> QED BY <2>2, <3>4 DEF ApiInv
  <2>5. CASE RemoveNowLock
    <3>1. ~Stuck BY <2>5 DEF RemoveNowLock, Stuck
    <3> QED BY <2>1, <2>2, <2>5, <3>1, RemoveNowLockInv DEF ApiInv
  <2> QED BY <1>5, <2>3, <2>4, <2>5 DEF RemoveNow
<1>6. CASE PrintCall \/ DebugPrint
  <2>1. ~freed /\ (Stuck \/ IInv) BY <1>2, <1>6 DEF ApiInv, ApiNext
  <2>2. UNCHANGED <<buffer, producer, consumer>> /\ ~freed' /\ (pcD' # "idle" => pcP = "idle")
    BY <1>6, <2>1 DEF ApiInv, PrintCall, DebugPrint, PrintTest, PrintGet, PrintFirst, PrintWalk, vars, walk
  <2>3. Stuck => Stuck' BY <2>2 DEF Stuck, buffer, producer, consumer
  <2>4. CASE alive' = alive
    <3>1. UNCHANGED vars
      BY <2>2, <2>4 DEF vars, buffer, producer, consumer
    <3> QED BY <2>1, <2>2, <2>3, <3>1, InvStep DEF ApiInv, producer
  <2>5. CASE alive' # alive
    <3>1. ~alive'
      <4>1. PrintGet \/ PrintFirst
        BY <1>6, <2>5 DEF PrintCall, DebugPrint, PrintTest, PrintWalk, vars
      <4>2. alive' = (head # NULL) BY <4>1 DEF PrintGet, PrintFirst
      <4>3. alive' = FALSE BY <1>2, <1>6, <2>5, <4>2 DEF ApiNext
      <4> QED BY <4>3
    <3>2. HeapExact /\ AgreesUntilFreed BY <2>1, Carried, StuckHolds
    <3>3. HeapExact'
      BY <2>2, <3>2 DEF HeapExact, Unlinked, Leaked, Detached, Claimed, buffer, producer, consumer
    <3>4. AgreesUntilFreed'
      BY <2>1, <2>2, <3>1, <3>2 DEF AgreesUntilFreed, FieldsAgree, buffer, producer, consumer
    <3> QED BY <2>2, <3>1, <3>3, <3>4 DEF ApiInv, producer
  <2> QED BY <2>4, <2>5
<1>7. CASE SbufferFree
  <2>1. ~freed /\ (Stuck \/ IInv) BY <1>2, <1>7 DEF ApiInv, ApiNext
  <2>2. pcP = "done" /\ pcC = "done" /\ freed' /\ UNCHANGED <<pcP, pcC, pcD, lock, todoP, todoC>>
    BY <1>7 DEF SbufferFree, producer, consumer
  <2>3. heap = Range(chain)
    <3>1. Range(<<>>) = {} BY EmptySeq DEF Range
    <3> QED BY <2>1, <2>2, <3>1, Carried DEF Stuck
  <2>4. heap' = {} /\ chain' = <<>> /\ Range(chain') = {} /\ DOMAIN chain' = {}
    BY <1>7, <2>3, EmptySeq DEF SbufferFree, Range
  <2>5. HeapExact' BY <2>2, <2>4 DEF HeapExact, Unlinked, Leaked, Detached, Claimed
  <2>6. lock # "producer"
    <3>1. IInv => lock # "producer"
      BY <1>7, <2>2 DEF IInv, Mutex, SbufferFree
    <3> QED BY <2>1, <3>1 DEF Stuck
  <2>7. AgreesUntilFreed' BY <2>2, <2>4, <2>6 DEF AgreesUntilFreed
  <2> QED BY <1>2, <2>1, <2>2, <2>5, <2>7 DEF ApiInv
<1> QED BY <1>1, <1>3, <1>4, <1>5, <1>6, <1>7 DEF ApiNext

(* The inductive invariant holds in every reachable state.                  *)
THEOREM ApiInvariant == ApiSpec => []ApiInv
BY InitInv, NextInv, PTL DEF ApiSpec

LEMMA InvHolds == ApiInv => HeapExact /\ AgreesUntilFreed
BY Carried, StuckHolds DEF ApiInv

(* sbuffer_remove, sbuffer_free and the walk that prints the buffer without *)
(* the lock leave the fields of the buffer in agreement, and the mutex is   *)
(* kept behind a call in the two cases only that AgreesUntilFreed names.    *)
THEOREM FieldsStillAgree == ApiSpec => []AgreesUntilFreed
<1>1. ApiInv => AgreesUntilFreed BY InvHolds
<1> QED BY <1>1, ApiInvariant, PTL

(* Nor do they leak a node, but for that of an insertion whose second       *)
(* malloc has failed, or free one that is linked.                           *)
THEOREM NoNodeLostHere == ApiSpec => []HeapExact
<1>1. ApiInv => HeapExact BY InvHolds
<1> QED BY <1>1, ApiInvariant, PTL
==============================================================================

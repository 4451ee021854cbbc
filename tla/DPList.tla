-------------------------------- MODULE DPList --------------------------------
(****************************************************************************)
(* lib/dplist.c: a doubly linked list.  The nodes are addresses; a node     *)
(* that has been freed may come back from malloc.  Callers may pass any     *)
(* index and any reference, one to a removed node included.                 *)
(*                                                                          *)
(* Left out: dplist_errno, and whether elements are copied and freed, which *)
(* the caller says with each call.                                          *)
(****************************************************************************)
EXTENDS Integers, Sequences, FiniteSets, FiniteSetsExt, Functions

CONSTANTS
  Node,                 \* addresses malloc may return
  Element,              \* elements, compared as numbers
  NULL

ASSUME DPListAssumption == IsFiniteSet(Node) /\ NULL \notin Node /\ Element \subseteq Int

Pointer == Node \cup {NULL}
Index   == -1 .. Cardinality(Node) + 1   \* all that can make a difference

VARIABLES
  exists,               \* the list has been created and not freed
  head, size,
  prev, next, element,  \* the fields of the nodes
  call, ret,            \* the last call that may change the list, its result
  lost                  \* nodes that nothing refers to (not in the program)

nodes == <<prev, next, element, lost>>
vars  == <<exists, head, size, nodes, call, ret>>

heap == DOMAIN next

Init ==
  /\ exists = TRUE /\ head = NULL /\ size = 0
  /\ prev = <<>> /\ next = <<>> /\ element = <<>>
  /\ call = <<"create">> /\ ret = "list" /\ lost = {}

------------------------------------------------------------------------------
(* The queries. *)

(* The loop over the list ends at the index or at the last node. *)
dpl_get_reference_at_index(k) ==
  LET at[count \in 0 .. Cardinality(heap)] ==
        IF count = 0 THEN head
        ELSE IF next[at[count - 1]] = NULL THEN at[count - 1] ELSE next[at[count - 1]]
  IN  IF head = NULL THEN NULL ELSE at[Max({0, Min({k, Cardinality(heap)})})]

(* The nodes, in order, as the loops of dplist.c visit them. *)
Visited ==
  {dpl_get_reference_at_index(k) : k \in 0 .. Cardinality(heap)} \ {NULL}

CountOf(r) ==
  Min({k \in 0 .. Cardinality(heap) : dpl_get_reference_at_index(k) = r})

FirstSuch(R) ==
  IF R = {} THEN NULL ELSE CHOOSE r \in R : \A s \in R : CountOf(r) <= CountOf(s)

dpl_size == size

dpl_get_element_at_index(k) ==
  IF head = NULL THEN NULL ELSE element[dpl_get_reference_at_index(k)]

dpl_get_reference_of_element(e) == FirstSuch({r \in Visited : element[r] = e})

dpl_get_index_of_element(e) ==
  IF head = NULL THEN 0
  ELSE LET r == dpl_get_reference_of_element(e) IN IF r = NULL THEN -1 ELSE CountOf(r)

dpl_get_index_of_reference_Size(r) ==  \* mutant: the size for the last index
  IF head = NULL THEN -1
  ELSE IF r = NULL THEN size
  ELSE IF r \in Visited THEN CountOf(r) ELSE -1

dpl_get_index_of_reference(r) ==
  IF head = NULL THEN -1
  ELSE IF r = NULL THEN size - 1
  ELSE IF r \in Visited THEN CountOf(r) ELSE -1

dpl_get_first_reference == head

dpl_get_last_reference == dpl_get_reference_at_index(size)

dpl_get_next_reference(r) ==
  IF head = NULL \/ r = NULL \/ dpl_get_index_of_reference(r) = -1 THEN NULL ELSE next[r]

dpl_get_previous_reference(r) ==
  IF r = NULL THEN dpl_get_last_reference
  ELSE IF dpl_get_index_of_reference(r) = -1 THEN NULL ELSE prev[r]

dpl_get_element_at_reference(r) ==
  IF head = NULL THEN NULL
  ELSE IF r = NULL THEN element[dpl_get_last_reference]
  ELSE IF dpl_get_index_of_reference(r) = -1 THEN NULL ELSE element[r]

------------------------------------------------------------------------------
(* Insertion.  A new node n between p and q, either of which may be NULL:   *)
(* what the branches of the three functions do to the pointers.             *)
Between_OneWay(n, e, p, q) ==  \* mutant: the node behind does not point back
  /\ next' = [m \in heap \cup {n} |-> IF m = n THEN q ELSE IF m = p THEN n ELSE next[m]]
  /\ prev' = [m \in heap \cup {n} |-> IF m = n THEN p ELSE prev[m]]
  /\ element' = [m \in heap \cup {n} |-> IF m = n THEN e ELSE element[m]]
  /\ head' = IF p = NULL THEN n ELSE head
  /\ size' = size + 1

Between(n, e, p, q) ==
  /\ next' = [m \in heap \cup {n} |-> IF m = n THEN q ELSE IF m = p THEN n ELSE next[m]]
  /\ prev' = [m \in heap \cup {n} |-> IF m = n THEN p ELSE IF m = q THEN n ELSE prev[m]]
  /\ element' = [m \in heap \cup {n} |-> IF m = n THEN e ELSE element[m]]
  /\ head' = IF p = NULL THEN n ELSE head
  /\ size' = size + 1

Before(n, e, r) == Between(n, e, prev[r], r)
Behind(n, e, r) == Between(n, e, r, next[r])
Only(n, e)      == Between(n, e, NULL, NULL)

AtIndex_Off(n, e, k) ==  \* mutant: index <= dpl_size(list)
  LET ref_at_index == dpl_get_reference_at_index(k)
  IN  IF head = NULL THEN Only(n, e)
      ELSE IF k <= 0 THEN Before(n, e, head)
      ELSE IF k <= size THEN Before(n, e, ref_at_index)
      ELSE Behind(n, e, ref_at_index)

AtIndex(n, e, k) ==
  LET ref_at_index == dpl_get_reference_at_index(k)
  IN  IF head = NULL THEN Only(n, e)
      ELSE IF k <= 0 THEN Before(n, e, head)
      ELSE IF k < size THEN Before(n, e, ref_at_index)
      ELSE Behind(n, e, ref_at_index)

dpl_insert_at_index(n, e, k) ==
  /\ call' = <<"insert_at_index", e, k>> /\ AtIndex(n, e, k)
  /\ UNCHANGED lost

(* The node is allocated before the reference is looked for: one that is    *)
(* not in the list leaves the node with nobody.                             *)
dpl_insert_at_reference(n, e, r) ==
  /\ call' = <<"insert_at_reference", e, r>>
  /\ \/ /\ head = NULL /\ Only(n, e) /\ UNCHANGED lost
     \/ /\ head # NULL /\ r = NULL
        /\ Behind(n, e, dpl_get_reference_at_index(size)) /\ UNCHANGED lost
     \/ /\ head # NULL /\ r # NULL /\ dpl_get_index_of_reference(r) # -1
        /\ Before(n, e, r) /\ UNCHANGED lost
     \/ /\ head # NULL /\ dpl_get_index_of_reference(r) = -1
        /\ next' = [m \in heap \cup {n} |-> IF m = n THEN NULL ELSE next[m]]
        /\ prev' = [m \in heap \cup {n} |-> IF m = n THEN NULL ELSE prev[m]]
        /\ element' = [m \in heap \cup {n} |-> IF m = n THEN e ELSE element[m]]
        /\ lost' = lost \cup {n}
        /\ UNCHANGED <<head, size>>

(* Before the first element that is not less, or at the end. *)
dpl_insert_sorted(n, e) ==
  /\ call' = <<"insert_sorted", e>>
  /\ LET r == FirstSuch({s \in Visited : element[s] >= e})
     IN  IF head = NULL THEN Only(n, e)
         ELSE IF r # NULL THEN Before(n, e, r)
         ELSE Behind(n, e, dpl_get_last_reference)
  /\ UNCHANGED lost

Insertion ==
  /\ exists /\ ret' = "list" /\ UNCHANGED exists
  /\ \E n \in Node \ heap, e \in Element :
       \/ \E k \in Index : dpl_insert_at_index(n, e, k)
       \/ \E r \in Pointer : dpl_insert_at_reference(n, e, r)
       \/ dpl_insert_sorted(n, e)

(* malloc fails: NULL for the list, which lives on in the caller's hand. *)
InsertFails ==
  /\ exists /\ ret' = NULL
  /\ \E e \in Element :
       call' \in {<<"insert_at_index", e, k>> : k \in Index}
                   \cup {<<"insert_at_reference", e, r>> : r \in Pointer}
                   \cup {<<"insert_sorted", e>>}
  /\ UNCHANGED <<exists, head, size, nodes>>

------------------------------------------------------------------------------
(* Removal of node r from between its neighbours. *)
Unlink_NoFree(r) ==  \* mutant: the node is not freed
  /\ next' = [m \in heap |-> IF m = prev[r] THEN next[r] ELSE next[m]]
  /\ prev' = [m \in heap |-> IF m = next[r] THEN prev[r] ELSE prev[m]]
  /\ UNCHANGED element
  /\ head' = IF prev[r] = NULL THEN next[r] ELSE head
  /\ size' = size - 1

Unlink(r) ==
  /\ next' = [m \in heap \ {r} |-> IF m = prev[r] THEN next[r] ELSE next[m]]
  /\ prev' = [m \in heap \ {r} |-> IF m = next[r] THEN prev[r] ELSE prev[m]]
  /\ element' = Restrict(element, heap \ {r})
  /\ head' = IF prev[r] = NULL THEN next[r] ELSE head
  /\ size' = size - 1

Keep == UNCHANGED <<head, size, prev, next, element>>

dpl_remove_at_index(k) ==
  /\ call' = <<"remove_at_index", k>> /\ ret' = "list"
  /\ IF size = 0 THEN Keep
     ELSE IF size = 1 THEN Unlink(head)
     ELSE Unlink(dpl_get_reference_at_index(k))

dpl_remove_at_reference(r) ==
  /\ call' = <<"remove_at_reference", r>> /\ ret' = "list"
  /\ \/ head = NULL /\ Keep
     \/ head # NULL /\ r = NULL /\ Unlink(dpl_get_reference_at_index(size))
     \/ head # NULL /\ r # NULL /\
        IF dpl_get_index_of_reference(r) = -1 THEN Keep ELSE Unlink(r)

dpl_remove_element(e) ==
  /\ call' = <<"remove_element", e>>
  /\ ret' = IF head = NULL THEN NULL ELSE "list"
  /\ LET r == dpl_get_reference_of_element(e)
     IN  IF head = NULL \/ r = NULL THEN Keep ELSE Unlink(r)

Removal ==
  /\ exists /\ UNCHANGED <<exists, lost>>
  /\ \/ \E k \in Index : dpl_remove_at_index(k)
     \/ \E r \in Pointer : dpl_remove_at_reference(r)
     \/ \E e \in Element : dpl_remove_element(e)

------------------------------------------------------------------------------
(* The nodes from head on are freed one by one, and then the list. *)
dpl_free ==
  /\ exists /\ exists' = FALSE
  /\ next' = Restrict(next, heap \ Visited) /\ prev' = Restrict(prev, heap \ Visited)
  /\ element' = Restrict(element, heap \ Visited)
  /\ head' = NULL /\ size' = 0
  /\ call' = <<"free">> /\ ret' = NULL /\ UNCHANGED lost

dpl_create ==
  /\ ~exists /\ exists' = TRUE
  /\ call' = <<"create">> /\ ret' = "list"
  /\ UNCHANGED <<head, size, nodes>>

Next == Insertion \/ InsertFails \/ Removal \/ dpl_free \/ dpl_create

Spec == Init /\ [][Next]_vars

------------------------------------------------------------------------------
TypeOK ==
  /\ exists \in BOOLEAN /\ head \in Pointer /\ size \in 0 .. Cardinality(Node)
  /\ heap \subseteq Node /\ lost \subseteq heap
  /\ next \in [heap -> Pointer] /\ prev \in [heap -> Pointer]
  /\ element \in [heap -> Element]
  /\ ret \in {"list", NULL}

(* Going forward and going back are inverse, size is the number of nodes,   *)
(* and both ends are marked: all that the assertions of dplist.c demand,    *)
(* however calls by index, by reference and by element are mixed.           *)
Linked ==
  /\ TypeOK
  /\ size = Cardinality(Visited)
  /\ head # NULL => prev[head] = NULL /\ next[dpl_get_last_reference] = NULL
  /\ \A r \in Visited : /\ next[r] # NULL => next[r] \in Visited /\ prev[next[r]] = r
                        /\ prev[r] # NULL => next[prev[r]] = r

(* Every allocated node is in the list, or is one that was lost in          *)
(* dpl_insert_at_reference; none in the list has been freed.                *)
HeapExact == heap = lost \cup Visited /\ lost \cap Visited = {}

(* The list as the sequence of its nodes, following next alone. *)
Items ==
  IF head = NULL THEN <<>>
  ELSE [n \in 1 .. Cardinality(Visited) |->
          [ref |-> dpl_get_reference_at_index(n - 1),
           element |-> dpl_get_element_at_index(n - 1)]]

L == INSTANCE ElementList WITH Ref <- Node, items <- Items

(* Where dplist.c departs from dplist.h, both for an empty list only.       *)
(* dplist.h:141 says "If 'reference' is not an existing reference in the    *)
(* list, 'list' is returned", but dplist.c:350 inserts the element without  *)
(* looking for the reference; and dplist.h:168 says "If 'element' is not    *)
(* found in 'list', the unmodified 'list' is returned", but dplist.c:537    *)
(* returns NULL.                                                            *)
InsertsForUnknown ==
  /\ Items = <<>> /\ call'[1] = "insert_at_reference" /\ call'[3] # NULL
  /\ L!InsertedAt(1, call'[2]) /\ ret' = "list"

RemovesFromNothing ==
  /\ Items = <<>> /\ call'[1] = "remove_element"
  /\ UNCHANGED Items /\ ret' = NULL

Departs == InsertsForUnknown \/ RemovesFromNothing

(* Each function does to the list what dplist.h says, but for these two     *)
(* calls, which do this much and no more.                                   *)
ImplementsList == L!Init /\ [][L!Next \/ Departs]_<<Items, call, ret>>

(* The answers of all queries are those dplist.h gives for the sequence of  *)
(* elements, for any index and any reference, except that of                *)
(* dpl_get_index_of_element for an empty list.                              *)
QueriesAnswer ==
  exists =>
    LET n      == Len(Items)
        Pos(r) == {m \in 1 .. n : Items[m].ref = r}
        Has(e) == {m \in 1 .. n : Items[m].element = e}
        Ref(m) == IF m \in 1 .. n THEN Items[m].ref ELSE NULL
        Elem(m) == IF m \in 1 .. n THEN Items[m].element ELSE NULL
    IN  /\ dpl_size = n
        /\ dpl_get_first_reference = Ref(1) /\ dpl_get_last_reference = Ref(n)
        /\ \A k \in Index :
             /\ dpl_get_reference_at_index(k) = Ref(L!Clip(k, n))
             /\ dpl_get_element_at_index(k) = Elem(L!Clip(k, n))
        /\ \A r \in Node :
             LET m == IF Pos(r) = {} THEN 0 ELSE Min(Pos(r))
             IN  /\ dpl_get_index_of_reference(r) = m - 1
                 /\ dpl_get_next_reference(r) = IF m = 0 THEN NULL ELSE Ref(m + 1)
                 /\ dpl_get_previous_reference(r) = Ref(m - 1)
                 /\ dpl_get_element_at_reference(r) = Elem(m)
        /\ dpl_get_index_of_reference(NULL) = n - 1
        /\ dpl_get_next_reference(NULL) = NULL
        /\ dpl_get_previous_reference(NULL) = Ref(n)
        /\ dpl_get_element_at_reference(NULL) = Elem(n)
        /\ \A e \in Element :
             LET m == IF Has(e) = {} THEN 0 ELSE Min(Has(e))
             IN  /\ n > 0 => dpl_get_index_of_element(e) = m - 1
                 /\ dpl_get_reference_of_element(e) = Ref(m)
==============================================================================

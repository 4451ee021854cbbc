----------------------------- MODULE ElementList -----------------------------
(****************************************************************************)
(* What lib/dplist.h promises of a list: a sequence of elements, each with  *)
(* a reference that stays valid until the element is removed.  Functions    *)
(* that change a list say so in "call" and return the list in "ret", or     *)
(* NULL if there is no memory.                                              *)
(****************************************************************************)
EXTENDS Integers, Sequences, SequencesExt

CONSTANTS Ref, Element, Index, NULL

VARIABLES items, call, ret

Item == [ref : Ref, element : Element]

Init == items = <<>> /\ call = <<"create">> /\ ret = "list"

Sorted(s) == \A m, n \in DOMAIN s : m < n => s[m].element <= s[n].element

(* The position index k stands for in a sequence of length n. *)
Clip(k, n) == IF k <= 0 THEN 1 ELSE IF k < n THEN k + 1 ELSE n

PositionOf(r) == SelectInSeq(items, LAMBDA it : it.ref = r)

InsertedAt(pos, e) ==
  \E n \in Ref \ {items[m].ref : m \in DOMAIN items} :
    items' = InsertAt(items, pos, [ref |-> n, element |-> e])

Change ==
  \/ \E e \in Element, k \in Index :
       /\ call' = <<"insert_at_index", e, k>>
       /\ InsertedAt(Clip(k, Len(items) + 1), e)
  \/ \E e \in Element, r \in Ref \cup {NULL} :
       /\ call' = <<"insert_at_reference", e, r>>
       /\ LET pos == IF r = NULL THEN Len(items) + 1 ELSE PositionOf(r)
          IN  IF pos = 0 THEN UNCHANGED items ELSE InsertedAt(pos, e)
  \/ \E e \in Element :
       /\ call' = <<"insert_sorted", e>>
       /\ \E pos \in 1 .. Len(items) + 1 : InsertedAt(pos, e)
       /\ Sorted(items) => Sorted(items')
  \/ \E k \in Index :
       /\ call' = <<"remove_at_index", k>>
       /\ items' = IF items = <<>> THEN items ELSE RemoveAt(items, Clip(k, Len(items)))
  \/ \E r \in Ref \cup {NULL} :
       /\ call' = <<"remove_at_reference", r>>
       /\ LET pos == IF r = NULL THEN Len(items) ELSE PositionOf(r)
          IN  items' = IF pos = 0 THEN items ELSE RemoveAt(items, pos)
  \/ \E e \in Element :
       /\ call' = <<"remove_element", e>>
       /\ LET pos == SelectInSeq(items, LAMBDA it : it.element = e)
          IN  items' = IF pos = 0 THEN items ELSE RemoveAt(items, pos)

(* An insertion for which there is no memory changes nothing and returns    *)
(* NULL; of insert_sorted the header says nothing.                          *)
Nothing ==
  /\ call'[1] \in {"insert_at_index", "insert_at_reference", "insert_sorted"}
  /\ UNCHANGED items

Recreate == call' = <<"create">> /\ items' = <<>>

Next ==
  \/ (Change \/ Recreate) /\ ret' = "list"
  \/ Nothing /\ ret' = NULL
  \/ call' = <<"free">> /\ items' = <<>> /\ ret' = NULL

Spec == Init /\ [][Next]_<<items, call, ret>>
==============================================================================

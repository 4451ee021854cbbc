---------------------------- MODULE DPList_proofs -----------------------------
(****************************************************************************)
(* Theorems about DPList, for every finite set of nodes and every set of    *)
(* elements.                                                                *)
(****************************************************************************)
EXTENDS DPList, ListLemmas, FiniteSetTheorems

(* The pointers make of the nodes that are not lost the sequence s.         *)
Chain(s) ==
  /\ s \in Seq(Node) /\ size = Len(s)
  /\ \A i, j \in 1 .. Len(s) : s[i] = s[j] => i = j
  /\ \A n \in Node : n \in heap \ lost <=> \E i \in 1 .. Len(s) : s[i] = n
  /\ head = IF s = <<>> THEN NULL ELSE s[1]
  /\ \A i \in 1 .. Len(s) : /\ next[s[i]] = IF i = Len(s) THEN NULL ELSE s[i + 1]
                            /\ prev[s[i]] = IF i = 1 THEN NULL ELSE s[i - 1]
  /\ exists \/ s = <<>>

Inv == TypeOK /\ \E s \in Seq(Node) : Chain(s)

------------------------------------------------------------------------------
(* Numbers and sequences *)

LEMMA MinMax ==
  ASSUME NEW a \in Int, NEW b \in Int
  PROVE  /\ Min({a, b}) = IF a < b THEN a ELSE b
         /\ Max({a, b}) = IF a < b THEN b ELSE a
<1> DEFINE S == {a, b}
<1>1. \E x \in S : \A y \in S : x <= y
  <2>1. CASE a < b BY <2>1
  <2>2. CASE ~(a < b) BY <2>2
  <2> QED BY <2>1, <2>2
<1>2. \E x \in S : \A y \in S : x >= y
  <2>1. CASE a < b BY <2>1
  <2>2. CASE ~(a < b) BY <2>2
  <2> QED BY <2>1, <2>2
<1>3. Min(S) \in S /\ \A y \in S : Min(S) <= y BY <1>1 DEF Min
<1>4. Max(S) \in S /\ \A y \in S : Max(S) >= y BY <1>2 DEF Max
<1>5. PICK m, n : m = Min(S) /\ n = Max(S) OBVIOUS
<1>6. m \in {a, b} /\ m <= a /\ m <= b /\ n \in {a, b} /\ n >= a /\ n >= b
  BY <1>3, <1>4, <1>5
<1>7. m = (IF a < b THEN a ELSE b) /\ n = (IF a < b THEN b ELSE a) BY <1>6
<1> QED BY <1>5, <1>7

(* A sequence without repetition is as long as the set of its elements.     *)
LEMMA NodesOf ==
  ASSUME NEW S, IsFiniteSet(S), NEW s \in Seq(S),
         \A i, j \in 1 .. Len(s) : s[i] = s[j] => i = j
  PROVE  /\ Len(s) \in Nat /\ Len(s) <= Cardinality(S) /\ Cardinality(S) \in Nat
         /\ Cardinality({s[i] : i \in 1 .. Len(s)}) = Len(s)
<1> DEFINE T == {s[i] : i \in 1 .. Len(s)}
<1>1. Len(s) \in Nat /\ \A i \in 1 .. Len(s) : s[i] \in S BY LenProperties, ElementOfSeq
<1>2. T \in SUBSET S BY <1>1
<1>3. IsFiniteSet(T) /\ Cardinality(T) <= Cardinality(S) BY <1>2, FS_Subset
<1>4. [i \in 1 .. Len(s) |-> s[i]] \in Bijection(1 .. Len(s), T)
  BY DEF Bijection, Injection, Surjection, IsInjective
<1>5. ExistsBijection(1 .. Len(s), T) BY <1>4 DEF ExistsBijection
<1>6. Cardinality(T) = Len(s) BY <1>1, <1>5, FS_CountingElements
<1> QED BY <1>1, <1>3, <1>6, FS_CardinalityType

------------------------------------------------------------------------------
(* The queries on such a sequence *)

(* What is there to say of a state with the sequence s. *)
LEMMA ChainFacts ==
  \A s \in Seq(Node) : TypeOK /\ Chain(s) =>
    /\ Len(s) \in Nat /\ Cardinality(heap) \in Nat
    /\ Len(s) <= Cardinality(heap) /\ Len(s) <= Cardinality(Node)
    /\ \A i \in 1 .. Len(s) : s[i] \in heap \ lost /\ s[i] \in Node /\ s[i] # NULL
    /\ s = <<>> <=> Len(s) = 0
    /\ head = NULL <=> Len(s) = 0
    /\ IsFiniteSet(heap)
<1> SUFFICES ASSUME NEW s \in Seq(Node), TypeOK, Chain(s)
             PROVE  /\ Len(s) \in Nat /\ Cardinality(heap) \in Nat
                    /\ Len(s) <= Cardinality(heap) /\ Len(s) <= Cardinality(Node)
                    /\ \A i \in 1 .. Len(s) : s[i] \in heap \ lost /\ s[i] \in Node /\ s[i] # NULL
                    /\ s = <<>> <=> Len(s) = 0
                    /\ head = NULL <=> Len(s) = 0
                    /\ IsFiniteSet(heap)
  OBVIOUS
<1>1. Len(s) \in Nat /\ (s = <<>> <=> Len(s) = 0) /\ \A i \in 1 .. Len(s) : s[i] \in Node
  BY LenProperties, ElementOfSeq, EmptySeq
<1>2. \A i \in 1 .. Len(s) : s[i] \in heap \ lost /\ s[i] # NULL
  BY <1>1, DPListAssumption DEF Chain
<1>3. heap \in SUBSET Node /\ IsFiniteSet(heap) BY DPListAssumption, FS_Subset DEF TypeOK
<1>4. s \in Seq(heap) BY <1>1, <1>2, SeqDef, LenProperties
<1>5. \A i, j \in 1 .. Len(s) : s[i] = s[j] => i = j BY DEF Chain
<1>6. Len(s) <= Cardinality(heap) /\ Cardinality(heap) \in Nat BY <1>3, <1>4, <1>5, NodesOf
<1>7. Len(s) <= Cardinality(Node) BY <1>5, NodesOf, DPListAssumption
<1>8. head = NULL <=> Len(s) = 0
  <2>1. Len(s) # 0 => 1 \in 1 .. Len(s) BY <1>1
  <2> QED BY <1>1, <1>2, <2>1 DEF Chain
<1> QED BY <1>1, <1>2, <1>3, <1>6, <1>7, <1>8

Clip(k, n) == IF k <= 0 THEN 1 ELSE IF k < n THEN k + 1 ELSE n

(* The loop that follows next arrives at the node of the index, at the      *)
(* first for one below the list and at the last for one beyond it.          *)
LEMMA ReferenceAt ==
  \A s \in Seq(Node) : TypeOK /\ Chain(s) =>
    \A k \in Int : dpl_get_reference_at_index(k)
                     = IF Len(s) = 0 THEN NULL ELSE s[Clip(k, Len(s))]
<1> SUFFICES ASSUME NEW s \in Seq(Node), TypeOK, Chain(s), NEW k \in Int
             PROVE  dpl_get_reference_at_index(k)
                      = IF Len(s) = 0 THEN NULL ELSE s[Clip(k, Len(s))]
  OBVIOUS
<1> DEFINE N == Len(s)
           C == Cardinality(heap)
           Step(f) == [count \in 0 .. C |->
                         IF count = 0 THEN head
                         ELSE IF next[f[count - 1]] = NULL THEN f[count - 1]
                              ELSE next[f[count - 1]]]
           at == CHOOSE f : f = Step(f)
           w == [count \in 0 .. C |-> s[IF count < N THEN count + 1 ELSE N]]
<1>1. /\ N \in Nat /\ C \in Nat /\ N <= C
      /\ \A i \in 1 .. N : s[i] # NULL
      /\ s = <<>> <=> N = 0
      /\ head = NULL <=> N = 0
  BY ChainFacts
<1>2. CASE N = 0 BY <1>1, <1>2 DEF dpl_get_reference_at_index
<1>3. CASE N # 0
  <2>1. /\ head = s[1]
        /\ \A i \in 1 .. N : next[s[i]] = IF i = N THEN NULL ELSE s[i + 1]
    BY <1>1, <1>3 DEF Chain
  <2>2. ASSUME NEW f, f = Step(f), NEW c \in 0 .. C PROVE f[c] = w[c]
    <3> DEFINE S == {c_1 \in Nat : c_1 \in 0 .. C => f[c_1] = w[c_1]}
    <3>1. 0 \in S
      <4>1. 0 \in 0 .. C BY <1>1
      <4>2. f[0] = head BY <2>2, <4>1
      <4>3. w[0] = s[1] BY <1>1, <1>3, <4>1
      <4> QED BY <2>1, <4>2, <4>3
    <3>2. ASSUME NEW c_1 \in Nat, c_1 \in S PROVE c_1 + 1 \in S
      <4> SUFFICES ASSUME c_1 + 1 \in 0 .. C PROVE f[c_1 + 1] = w[c_1 + 1] OBVIOUS
      <4>1. c_1 \in 0 .. C BY <1>1
      <4>2. f[c_1] = w[c_1] BY <3>2, <4>1
      <4>3. f[c_1 + 1] = IF next[f[c_1]] = NULL THEN f[c_1] ELSE next[f[c_1]]
        <5>1. (c_1 + 1) - 1 = c_1 /\ c_1 + 1 # 0 OBVIOUS
        <5> QED BY <2>2, <5>1
      <4>4. CASE c_1 < N
        <5>1. w[c_1] = s[c_1 + 1] /\ c_1 + 1 \in 1 .. N BY <1>1, <4>1, <4>4
        <5>2. next[s[c_1 + 1]] = IF c_1 + 1 = N THEN NULL ELSE s[(c_1 + 1) + 1] BY <2>1, <5>1
        <5>3. CASE c_1 + 1 = N
          <6>1. w[c_1 + 1] = s[N] BY <1>1, <5>3
          <6> QED BY <4>2, <4>3, <5>1, <5>2, <5>3, <6>1
        <5>4. CASE c_1 + 1 # N
          <6>1. w[c_1 + 1] = s[(c_1 + 1) + 1] /\ (c_1 + 1) + 1 \in 1 .. N BY <1>1, <4>4, <5>4
          <6>2. s[(c_1 + 1) + 1] # NULL BY <1>1, <6>1
          <6> QED BY <4>2, <4>3, <5>1, <5>2, <5>4, <6>1, <6>2
        <5> QED BY <5>3, <5>4
      <4>5. CASE ~(c_1 < N)
        <5>1. w[c_1] = s[N] /\ w[c_1 + 1] = s[N] /\ N \in 1 .. N BY <1>1, <1>3, <4>1, <4>5
        <5>2. next[s[N]] = NULL BY <2>1, <5>1
        <5> QED BY <4>2, <4>3, <5>1, <5>2
      <4> QED BY <4>4, <4>5
    <3> HIDE DEF S, w
    <3>3. Nat \subseteq S BY <3>1, <3>2, SetInduction
    <3> QED BY <1>1, <3>3 DEF S
  <2>3. w = Step(w)
    <3> SUFFICES ASSUME NEW c \in 0 .. C PROVE w[c] = Step(w)[c] OBVIOUS
    <3>1. CASE c = 0 BY <1>1, <1>3, <2>1, <3>1
    <3>2. CASE c # 0
      <4>1. c - 1 \in 0 .. C /\ Step(w)[c] = IF next[w[c - 1]] = NULL THEN w[c - 1] ELSE next[w[c - 1]]
        BY <1>1, <3>2
      <4>2. CASE c < N
        <5>1. w[c - 1] = s[c] /\ w[c] = s[c + 1] /\ c \in 1 .. N /\ c # N /\ c + 1 \in 1 .. N
          BY <1>1, <3>2, <4>1, <4>2
        <5> QED BY <1>1, <2>1, <4>1, <5>1
      <4>3. CASE ~(c < N)
        <5>1. w[c - 1] = s[N] /\ w[c] = s[N] /\ N \in 1 .. N BY <1>1, <1>3, <3>2, <4>1, <4>3
        <5> QED BY <2>1, <4>1, <5>1
      <4> QED BY <4>2, <4>3
    <3> QED BY <3>1, <3>2
  <2> HIDE DEF w, Step
  <2>4. at = Step(at) BY <2>3
  <2>5. dpl_get_reference_at_index(k) = at[Max({0, Min({k, C})})]
    BY <1>1, <1>3 DEF dpl_get_reference_at_index, Step
  <2> HIDE DEF at, C
  <2> DEFINE m == IF k < C THEN k ELSE C
             c == IF 0 < m THEN m ELSE 0
  <2>6. m \in Int /\ Min({k, C}) = m BY <1>1, MinMax
  <2>7. Max({0, m}) = c
    <3>1. \A a, b \in Int : Max({a, b}) = IF a < b THEN b ELSE a BY MinMax
    <3>2. 0 \in Int OBVIOUS
    <3>3. Max({0, m}) = IF 0 < m THEN m ELSE 0 BY <2>6, <3>1, <3>2, Zenon
    <3> QED BY <3>3
  <2>8. c \in 0 .. C BY <1>1
  <2>9. at[c] = w[c] BY <2>2, <2>4, <2>8
  <2>10. w[c] = s[Clip(k, N)]
    <3>1. w[c] = s[IF c < N THEN c + 1 ELSE N] BY <2>8 DEF w
    <3>2. (IF c < N THEN c + 1 ELSE N) = Clip(k, N) BY <1>1, <1>3 DEF Clip
    <3> QED BY <3>1, <3>2
  <2> QED BY <1>3, <2>5, <2>6, <2>7, <2>9, <2>10
<1> QED BY <1>2, <1>3

(* Walking the list meets its nodes, and each of them once. *)
LEMMA VisitedAre ==
  \A s \in Seq(Node) : TypeOK /\ Chain(s) =>
    /\ Visited = {s[i] : i \in 1 .. Len(s)}
    /\ Visited = heap \ lost
    /\ Cardinality(Visited) = Len(s)
<1> SUFFICES ASSUME NEW s \in Seq(Node), TypeOK, Chain(s)
             PROVE  /\ Visited = {s[i] : i \in 1 .. Len(s)}
                    /\ Visited = heap \ lost
                    /\ Cardinality(Visited) = Len(s)
  OBVIOUS
<1> DEFINE N == Len(s)
           C == Cardinality(heap)
<1>1. /\ N \in Nat /\ C \in Nat /\ N <= C
      /\ \A i \in 1 .. N : s[i] # NULL /\ s[i] \in Node
  BY ChainFacts
<1>2. \A k \in Int : dpl_get_reference_at_index(k) = IF N = 0 THEN NULL ELSE s[Clip(k, N)]
  BY ReferenceAt
<1> HIDE DEF C
<1>3. Visited = {dpl_get_reference_at_index(k) : k \in 0 .. C} \ {NULL} BY DEF Visited, C
<1>4. Visited = {s[i] : i \in 1 .. N}
  <2>1. ASSUME NEW v \in Visited PROVE v \in {s[i] : i \in 1 .. N}
    <3>1. PICK k \in 0 .. C : v = dpl_get_reference_at_index(k) /\ v # NULL BY <1>3
    <3>2. N # 0 /\ v = s[Clip(k, N)] BY <1>2, <3>1
    <3>3. Clip(k, N) \in 1 .. N BY <1>1, <3>2 DEF Clip
    <3> QED BY <3>2, <3>3
  <2>2. ASSUME NEW i \in 1 .. N PROVE s[i] \in Visited
    <3>1. i - 1 \in 0 .. C /\ i - 1 \in Int /\ N # 0 BY <1>1
    <3>2. Clip(i - 1, N) = i BY <1>1 DEF Clip
    <3>3. dpl_get_reference_at_index(i - 1) = s[i] BY <1>2, <3>1, <3>2
    <3> QED BY <1>1, <1>3, <3>1, <3>3
  <2> QED BY <2>1, <2>2
<1>5. {s[i] : i \in 1 .. N} = heap \ lost
  <2>1. \A n \in Node : n \in heap \ lost <=> \E i \in 1 .. N : s[i] = n BY DEF Chain
  <2>2. heap \subseteq Node BY DEF TypeOK
  <2> QED BY <1>1, <2>1, <2>2
<1>6. Cardinality({s[i] : i \in 1 .. N}) = N BY NodesOf, DPListAssumption DEF Chain
<1> QED BY <1>4, <1>5, <1>6

(* The loops that count up to a node arrive at its index. *)
LEMMA CountIs ==
  \A s \in Seq(Node) : TypeOK /\ Chain(s) => \A i \in 1 .. Len(s) : CountOf(s[i]) = i - 1
<1> SUFFICES ASSUME NEW s \in Seq(Node), TypeOK, Chain(s), NEW i \in 1 .. Len(s)
             PROVE  CountOf(s[i]) = i - 1
  OBVIOUS
<1> DEFINE N == Len(s)
           C == Cardinality(heap)
<1>1. /\ N \in Nat /\ C \in Nat /\ N <= C /\ N # 0 BY ChainFacts
<1>2. \A k \in Int : dpl_get_reference_at_index(k) = s[Clip(k, N)]
  BY <1>1, ReferenceAt
<1>3. \A j, m \in 1 .. N : s[j] = s[m] => j = m BY DEF Chain
<1> HIDE DEF C
<1> DEFINE S == {k \in 0 .. C : dpl_get_reference_at_index(k) = s[i]}
<1>4. CountOf(s[i]) = Min(S) BY DEF CountOf, C
<1>5. i - 1 \in S
  <2>1. i - 1 \in 0 .. C /\ i - 1 \in Int BY <1>1
  <2>2. Clip(i - 1, N) = i BY <1>1 DEF Clip
  <2> QED BY <1>2, <2>1, <2>2
<1>6. \A k \in S : Clip(k, N) = i
  <2> TAKE k \in S
  <2>1. s[Clip(k, N)] = s[i] BY <1>2
  <2>2. Clip(k, N) \in 1 .. N BY <1>1 DEF Clip
  <2> QED BY <1>3, <2>1, <2>2
<1>7. S \in SUBSET Nat BY <1>1
<1> HIDE DEF S
<1>8. Min(S) \in S /\ Min(S) <= i - 1 BY <1>5, <1>7, MinNat
<1>9. PICK m \in S : m = Min(S) BY <1>8
<1>10. Clip(m, N) = i /\ m <= i - 1 /\ m \in Nat BY <1>6, <1>7, <1>8, <1>9
<1>11. m = i - 1 BY <1>1, <1>10 DEF Clip
<1> QED BY <1>4, <1>9, <1>11

(* A search ends at the first node that satisfies the condition. *)
LEMMA FirstIs ==
  \A s \in Seq(Node) : TypeOK /\ Chain(s) =>
    \A P \in SUBSET (1 .. Len(s)) :
      FirstSuch({s[i] : i \in P}) = IF P = {} THEN NULL ELSE s[Min(P)]
<1> SUFFICES ASSUME NEW s \in Seq(Node), TypeOK, Chain(s), NEW P \in SUBSET (1 .. Len(s))
             PROVE  FirstSuch({s[i] : i \in P}) = IF P = {} THEN NULL ELSE s[Min(P)]
  OBVIOUS
<1> DEFINE R == {s[i] : i \in P}
<1>1. CASE P = {} BY <1>1 DEF FirstSuch
<1>2. CASE P # {}
  <2>1. Len(s) \in Nat BY ChainFacts
  <2>2. P \in SUBSET Nat BY <2>1
  <2>3. PICK m \in P : m = Min(P) /\ \A i \in P : m <= i BY <1>2, <2>2, MinNat
  <2>4. \A i \in P : CountOf(s[i]) = i - 1 BY CountIs
  <2>5. s[m] \in R /\ \A r \in R : CountOf(s[m]) <= CountOf(r)
    <3>1. ASSUME NEW i \in P PROVE CountOf(s[m]) <= CountOf(s[i])
      <4>1. m \in Nat /\ i \in Nat /\ m <= i BY <2>2, <2>3
      <4> QED BY <2>4, <4>1
    <3> QED BY <3>1
  <2>6. ASSUME NEW r \in R, \A t \in R : CountOf(r) <= CountOf(t) PROVE r = s[m]
    <3>1. PICK i \in P : r = s[i] OBVIOUS
    <3>2. CountOf(s[i]) <= CountOf(s[m]) BY <2>5, <2>6, <3>1
    <3>3. i \in Nat /\ m \in Nat /\ m <= i BY <2>2, <2>3, <3>1
    <3>4. i = m BY <2>4, <3>2, <3>3
    <3> QED BY <3>1, <3>4
  <2> HIDE DEF R
  <2>7. (CHOOSE r \in R : \A t \in R : CountOf(r) <= CountOf(t)) = s[m] BY <2>5, <2>6
  <2>8. R # {} BY <2>5
  <2>9. FirstSuch(R) = s[m] BY <2>7, <2>8 DEF FirstSuch
  <2> QED BY <1>2, <2>3, <2>9 DEF R
<1> QED BY <1>1, <1>2

(* The list that the callers of dplist.h see, with el in the nodes. *)
Row == [ref : Node, element : Element]
Rows(s, el) == [n \in 1 .. Len(s) |-> [ref |-> s[n], element |-> el[s[n]]]]
Elements(s) == Rows(s, element)

LEMMA ItemsAre ==
  \A s \in Seq(Node) : TypeOK /\ Chain(s) => Items = Elements(s)
<1> SUFFICES ASSUME NEW s \in Seq(Node), TypeOK, Chain(s) PROVE Items = Elements(s) OBVIOUS
<1>1. Len(s) \in Nat /\ (head = NULL <=> Len(s) = 0) /\ (s = <<>> <=> Len(s) = 0) BY ChainFacts
<1>2. CASE Len(s) = 0
  <2>1. Elements(s) = <<>> BY <1>2 DEF Elements, Rows
  <2> QED BY <1>1, <1>2, <2>1 DEF Items
<1>3. CASE ~(Len(s) = 0)
  <2>1. Items = [n \in 1 .. Len(s) |-> [ref |-> dpl_get_reference_at_index(n - 1),
                                       element |-> dpl_get_element_at_index(n - 1)]]
    BY <1>1, <1>3, VisitedAre DEF Items
  <2>2. ASSUME NEW n \in 1 .. Len(s)
        PROVE  /\ dpl_get_reference_at_index(n - 1) = s[n]
               /\ dpl_get_element_at_index(n - 1) = element[s[n]]
    <3>1. n - 1 \in Int /\ Clip(n - 1, Len(s)) = n BY <1>1 DEF Clip
    <3>2. dpl_get_reference_at_index(n - 1) = s[n] BY <1>3, <3>1, ReferenceAt
    <3> QED BY <1>1, <1>3, <3>2 DEF dpl_get_element_at_index
  <2> QED BY <2>1, <2>2 DEF Elements, Rows
<1> QED BY <1>2, <1>3

------------------------------------------------------------------------------
(* The steps *)

(* The same in the state after a step. *)
LEMMA ItemsAreNext ==
  (\A s \in Seq(Node) : TypeOK /\ Chain(s) => Items = Elements(s))'
BY ItemsAre, PTL

(* The neighbours of position pos, between which a new node goes. *)
PrevOf(s, pos) == IF pos = 1 THEN NULL ELSE s[pos - 1]
NextOf(s, pos) == IF pos = Len(s) + 1 THEN NULL ELSE s[pos]

(* An insertion at a position is that into the sequence. *)
LEMMA BetweenStep ==
  ASSUME TypeOK, NEW s \in Seq(Node), Chain(s), NEW n \in Node \ heap, NEW e \in Element,
         NEW pos \in 1 .. Len(s) + 1, Between(n, e, PrevOf(s, pos), NextOf(s, pos)),
         exists, exists' = exists, lost' = lost, ret' \in {"list", NULL}
  PROVE  TypeOK' /\ InsertAt(s, pos, n) \in Seq(Node) /\ Chain(InsertAt(s, pos, n))'
<1> DEFINE N == Len(s)
           t == InsertAt(s, pos, n)
           p == PrevOf(s, pos)
           q == NextOf(s, pos)
<1>1. /\ N \in Nat /\ pos \in 1 .. N + 1 /\ size = N /\ heap \subseteq Node /\ n \notin heap
      /\ \A i \in 1 .. N : s[i] \in heap \ lost /\ s[i] \in Node /\ s[i] # NULL /\ s[i] # n
      /\ n # NULL
  BY ChainFacts, DPListAssumption DEF TypeOK, Chain
<1>2. \A i, j \in 1 .. N : s[i] = s[j] => i = j BY DEF Chain
<1>3. /\ t \in Seq(Node) /\ Len(t) = N + 1
      /\ \A i \in 1 .. N + 1 : t[i] = IF i < pos THEN s[i] ELSE IF i = pos THEN n ELSE s[i - 1]
  BY Inserted
<1>4. /\ next' = [m \in heap \cup {n} |-> IF m = n THEN q ELSE IF m = p THEN n ELSE next[m]]
      /\ prev' = [m \in heap \cup {n} |-> IF m = n THEN p ELSE IF m = q THEN n ELSE prev[m]]
      /\ element' = [m \in heap \cup {n} |-> IF m = n THEN e ELSE element[m]]
      /\ head' = IF p = NULL THEN n ELSE head
      /\ size' = size + 1
      /\ heap' = heap \cup {n}
  BY DEF Between, heap
<1> HIDE DEF t
<1>5. /\ p \in Pointer /\ q \in Pointer
      /\ p = IF pos = 1 THEN NULL ELSE s[pos - 1]
      /\ q = IF pos = N + 1 THEN NULL ELSE s[pos]
  BY <1>1 DEF PrevOf, NextOf, Pointer
<1> HIDE DEF p, q
<1>6. \A i, j \in 1 .. N + 1 : t[i] = t[j] => i = j
  <2> TAKE i, j \in 1 .. N + 1
  <2>1. CASE i < pos /\ j < pos BY <1>1, <1>2, <1>3, <2>1
  <2>2. CASE i < pos /\ ~(j < pos)
    <3>1. j # pos => j - 1 \in 1 .. N /\ i # j - 1 BY <1>1, <2>2
    <3> QED BY <1>1, <1>2, <1>3, <2>2, <3>1
  <2>3. CASE ~(i < pos) /\ j < pos
    <3>1. i # pos => i - 1 \in 1 .. N /\ j # i - 1 BY <1>1, <2>3
    <3> QED BY <1>1, <1>2, <1>3, <2>3, <3>1
  <2>4. CASE ~(i < pos) /\ ~(j < pos)
    <3>1. i # pos => i - 1 \in 1 .. N /\ t[i] = s[i - 1] BY <1>1, <1>3, <2>4
    <3>2. j # pos => j - 1 \in 1 .. N /\ t[j] = s[j - 1] BY <1>1, <1>3, <2>4
    <3>3. t[pos] = n BY <1>1, <1>3
    <3>4. CASE i = pos \/ j = pos BY <1>1, <3>1, <3>2, <3>3, <3>4
    <3>5. CASE i # pos /\ j # pos BY <1>2, <3>1, <3>2, <3>5
    <3> QED BY <3>4, <3>5
  <2> QED BY <2>1, <2>2, <2>3, <2>4
<1>7. N + 1 <= Cardinality(Node)
  <2>1. t \in Seq(Node) /\ \A i, j \in 1 .. Len(t) : t[i] = t[j] => i = j BY <1>3, <1>6
  <2>2. Len(t) <= Cardinality(Node) BY <2>1, NodesOf, DPListAssumption
  <2> QED BY <1>3, <2>2
<1>8. TypeOK'
  <2>1. size' \in 0 .. Cardinality(Node) /\ head' \in Pointer /\ exists' \in BOOLEAN
    BY <1>1, <1>4, <1>7, DPListAssumption, FS_CardinalityType DEF TypeOK, Pointer
  <2>2. heap' \subseteq Node /\ lost' \subseteq heap' BY <1>1, <1>4 DEF TypeOK
  <2>3. next' \in [heap' -> Pointer] /\ prev' \in [heap' -> Pointer]
    BY <1>4, <1>5 DEF TypeOK, Pointer
  <2>4. element' \in [heap' -> Element] BY <1>4 DEF TypeOK
  <2> QED BY <2>1, <2>2, <2>3, <2>4 DEF TypeOK
<1>9. t # <<>> /\ pos \in 1 .. N + 1 /\ 1 \in 1 .. N + 1 BY <1>1, <1>3, EmptySeq
<1>10. head' = t[1]
  <2>1. CASE pos = 1 BY <1>3, <1>4, <1>5, <1>9, <2>1
  <2>2. CASE pos # 1
    <3>1. pos - 1 \in 1 .. N /\ 1 < pos /\ N # 0 BY <1>1, <2>2
    <3>2. p # NULL BY <1>1, <1>5, <2>2, <3>1
    <3>3. head = s[1] BY <3>1, ChainFacts DEF Chain
    <3> QED BY <1>3, <1>4, <1>9, <3>1, <3>2, <3>3
  <2> QED BY <2>1, <2>2
<1>11. ASSUME NEW i \in 1 .. N + 1
       PROVE  /\ next'[t[i]] = IF i = N + 1 THEN NULL ELSE t[i + 1]
              /\ prev'[t[i]] = IF i = 1 THEN NULL ELSE t[i - 1]
  <2>0. \A j \in 1 .. N : /\ next[s[j]] = IF j = N THEN NULL ELSE s[j + 1]
                          /\ prev[s[j]] = IF j = 1 THEN NULL ELSE s[j - 1]
    BY DEF Chain
  <2>1. CASE i = pos
    <3>1. t[i] = n /\ next'[n] = q /\ prev'[n] = p BY <1>3, <1>4, <2>1
    <3>2. i # N + 1 => t[i + 1] = s[pos]
      <4> SUFFICES ASSUME i # N + 1 PROVE t[i + 1] = s[pos] OBVIOUS
      <4>1. i + 1 \in 1 .. N + 1 /\ ~(i + 1 < pos) /\ i + 1 # pos /\ (i + 1) - 1 = pos BY <1>1, <2>1
      <4> QED BY <1>3, <4>1
    <3>3. i # 1 => t[i - 1] = s[pos - 1]
      <4> SUFFICES ASSUME i # 1 PROVE t[i - 1] = s[pos - 1] OBVIOUS
      <4>1. i - 1 \in 1 .. N + 1 /\ i - 1 < pos BY <1>1, <2>1
      <4> QED BY <1>3, <2>1, <4>1
    <3> QED BY <1>5, <2>1, <3>1, <3>2, <3>3
  <2>2. CASE i < pos
    <3>1. i \in 1 .. N /\ t[i] = s[i] /\ s[i] # n /\ s[i] \in heap BY <1>1, <1>3, <2>2
    <3>2. s[i] # q
      <4>1. pos # N + 1 => pos \in 1 .. N /\ pos # i BY <1>1, <2>2
      <4> QED BY <1>1, <1>2, <1>5, <3>1, <4>1
    <3>3. prev'[t[i]] = prev[s[i]] BY <1>4, <3>1, <3>2
    <3>4. i # 1 => t[i - 1] = s[i - 1]
      <4> SUFFICES ASSUME i # 1 PROVE t[i - 1] = s[i - 1] OBVIOUS
      <4>1. i - 1 \in 1 .. N + 1 /\ i - 1 < pos BY <1>1, <2>2
      <4> QED BY <1>3, <4>1
    <3>5. CASE i = pos - 1
      <4>1. pos # 1 /\ s[i] = p BY <1>1, <1>5, <2>2, <3>5
      <4>2. next'[t[i]] = n BY <1>4, <3>1, <4>1
      <4>3. i + 1 = pos /\ i # N + 1 /\ t[i + 1] = n BY <1>1, <1>3, <3>5
      <4> QED BY <2>0, <3>1, <3>3, <3>4, <4>2, <4>3
    <3>6. CASE i # pos - 1
      <4>1. pos - 1 \in 1 .. N /\ pos # 1 BY <1>1, <2>2
      <4>2. s[i] # p BY <1>2, <1>5, <3>1, <3>6, <4>1
      <4>3. next'[t[i]] = next[s[i]] BY <1>4, <3>1, <4>2
      <4>4. i # N /\ i # N + 1 /\ i + 1 \in 1 .. N + 1 /\ i + 1 < pos BY <1>1, <2>2, <3>6
      <4>5. t[i + 1] = s[i + 1] BY <1>3, <4>4
      <4> QED BY <2>0, <3>1, <3>3, <3>4, <4>3, <4>4, <4>5
    <3> QED BY <3>5, <3>6
  <2>3. CASE i > pos
    <3> DEFINE j == i - 1
    <3>1. j \in 1 .. N /\ t[i] = s[j] /\ s[j] # n /\ s[j] \in heap BY <1>1, <1>3, <2>3
    <3>2. s[j] # p
      <4>1. pos # 1 => pos - 1 \in 1 .. N /\ pos - 1 # j BY <1>1, <2>3
      <4> QED BY <1>1, <1>2, <1>5, <3>1, <4>1
    <3>3. next'[t[i]] = next[s[j]] BY <1>4, <3>1, <3>2
    <3>4. i # N + 1 => t[i + 1] = s[j + 1]
      <4> SUFFICES ASSUME i # N + 1 PROVE t[i + 1] = s[j + 1] OBVIOUS
      <4>1. i + 1 \in 1 .. N + 1 /\ ~(i + 1 < pos) /\ i + 1 # pos /\ (i + 1) - 1 = j + 1 BY <1>1, <2>3
      <4> QED BY <1>3, <4>1
    <3>5. i = N + 1 <=> j = N BY <1>1
    <3>6. i # 1 BY <1>1, <2>3
    <3>7. CASE j = pos
      <4>1. pos # N + 1 /\ s[j] = q BY <1>1, <1>5, <3>1, <3>7
      <4>2. prev'[t[i]] = n BY <1>4, <3>1, <4>1
      <4>3. t[i - 1] = n BY <1>1, <1>3, <3>7
      <4> QED BY <2>0, <3>1, <3>3, <3>4, <3>5, <3>6, <4>2, <4>3
    <3>8. CASE j # pos
      <4>1. s[j] # q
        <5>1. pos # N + 1 => pos \in 1 .. N BY <1>1
        <5> QED BY <1>1, <1>2, <1>5, <3>1, <3>8, <5>1
      <4>2. prev'[t[i]] = prev[s[j]] BY <1>4, <3>1, <4>1
      <4>3. j # 1 /\ j \in 1 .. N + 1 /\ ~(j < pos) BY <1>1, <2>3, <3>8
      <4>4. t[j] = s[j - 1] BY <1>3, <3>8, <4>3
      <4> QED BY <2>0, <3>1, <3>3, <3>4, <3>5, <3>6, <4>2, <4>3, <4>4
    <3> QED BY <3>7, <3>8
  <2> QED BY <1>1, <2>1, <2>2, <2>3
<1>12. \A m \in Node : m \in heap' \ lost' <=> \E i \in 1 .. N + 1 : t[i] = m
  <2>1. \A m \in Node : m \in heap \ lost <=> \E i \in 1 .. N : s[i] = m BY DEF Chain
  <2>2. lost \subseteq heap BY DEF TypeOK
  <2>3. ASSUME NEW i \in 1 .. N + 1 PROVE t[i] \in heap' \ lost'
    <3>1. i > pos => i - 1 \in 1 .. N BY <1>1
    <3>2. i < pos => i \in 1 .. N BY <1>1
    <3>3. i < pos \/ i = pos \/ i > pos BY <1>1
    <3> QED BY <1>1, <1>3, <1>4, <2>2, <3>1, <3>2, <3>3
  <2>4. ASSUME NEW m \in heap' \ lost' PROVE \E i \in 1 .. N + 1 : t[i] = m
    <3>1. CASE m = n BY <1>3, <1>9, <3>1
    <3>2. CASE m # n
      <4>1. PICK j \in 1 .. N : s[j] = m BY <1>1, <1>4, <2>1, <3>2
      <4>2. CASE j < pos BY <1>1, <1>3, <4>1, <4>2
      <4>3. CASE ~(j < pos)
        <5>1. j + 1 \in 1 .. N + 1 /\ ~(j + 1 < pos) /\ j + 1 # pos /\ (j + 1) - 1 = j BY <1>1, <4>3
        <5>2. t[j + 1] = s[j] BY <1>3, <5>1
        <5> QED BY <4>1, <5>1, <5>2
      <4> QED BY <4>2, <4>3
    <3> QED BY <3>1, <3>2
  <2> QED BY <2>3, <2>4
<1>13. Chain(t)'
  <2>1. t \in Seq(Node) /\ size' = Len(t) /\ head' = (IF t = <<>> THEN NULL ELSE t[1]) /\ exists'
    BY <1>1, <1>3, <1>4, <1>9, <1>10
  <2>2. \A i, j \in 1 .. Len(t) : t[i] = t[j] => i = j BY <1>3, <1>6
  <2>3. \A m \in Node : m \in heap' \ lost' <=> \E i \in 1 .. Len(t) : t[i] = m BY <1>3, <1>12
  <2>4. \A i \in 1 .. Len(t) : /\ next'[t[i]] = IF i = Len(t) THEN NULL ELSE t[i + 1]
                               /\ prev'[t[i]] = IF i = 1 THEN NULL ELSE t[i - 1]
    BY <1>3, <1>11
  <2> QED BY <2>1, <2>2, <2>3, <2>4 DEF Chain
<1> QED BY <1>3, <1>8, <1>13 DEF t

(* The removal of the node at a position is that from the sequence. *)
LEMMA UnlinkStep ==
  ASSUME TypeOK, NEW s \in Seq(Node), Chain(s), NEW pos \in 1 .. Len(s), Unlink(s[pos]),
         exists, exists' = exists, lost' = lost, ret' \in {"list", NULL}
  PROVE  TypeOK' /\ RemoveAt(s, pos) \in Seq(Node) /\ Chain(RemoveAt(s, pos))'
<1> DEFINE N == Len(s)
           t == RemoveAt(s, pos)
           r == s[pos]
           o(i) == IF i < pos THEN i ELSE i + 1
<1>1. /\ N \in Nat /\ N # 0 /\ pos \in 1 .. N /\ size = N /\ heap \subseteq Node
      /\ N <= Cardinality(Node)
      /\ \A i \in 1 .. N : s[i] \in heap \ lost /\ s[i] \in Node /\ s[i] # NULL
  <2>1. N \in Nat /\ N <= Cardinality(Node) BY ChainFacts
  <2>2. \A i \in 1 .. N : s[i] \in heap \ lost /\ s[i] \in Node /\ s[i] # NULL BY ChainFacts
  <2>3. size = N /\ heap \subseteq Node BY DEF TypeOK, Chain
  <2> QED BY <2>1, <2>2, <2>3
<1>2. /\ \A i, j \in 1 .. N : s[i] = s[j] => i = j
      /\ \A i \in 1 .. N : /\ next[s[i]] = IF i = N THEN NULL ELSE s[i + 1]
                           /\ prev[s[i]] = IF i = 1 THEN NULL ELSE s[i - 1]
  BY DEF Chain
<1>3. /\ t \in Seq(Node) /\ Len(t) = N - 1
      /\ \A i \in 1 .. N - 1 : t[i] = IF i < pos THEN s[i] ELSE s[i + 1]
  BY Removed
<1>4. /\ next' = [m \in heap \ {r} |-> IF m = prev[r] THEN next[r] ELSE next[m]]
      /\ prev' = [m \in heap \ {r} |-> IF m = next[r] THEN prev[r] ELSE prev[m]]
      /\ element' = [m \in heap \ {r} |-> element[m]]
      /\ head' = IF prev[r] = NULL THEN next[r] ELSE head
      /\ size' = size - 1
      /\ heap' = heap \ {r}
  BY DEF Unlink, Restrict, heap
<1> HIDE DEF t
<1>5. \A i \in 1 .. N - 1 : /\ o(i) \in 1 .. N /\ o(i) # pos /\ t[i] = s[o(i)]
                            /\ s[o(i)] \in heap \ {r} /\ s[o(i)] # NULL
  BY <1>1, <1>2, <1>3
<1>6. \A i, j \in 1 .. N - 1 : t[i] = t[j] => i = j
  <2> TAKE i, j \in 1 .. N - 1
  <2>1. o(i) = o(j) => i = j BY <1>1
  <2> HIDE DEF o
  <2> QED BY <1>2, <1>5, <2>1
<1>7. /\ prev[r] = (IF pos = 1 THEN NULL ELSE s[pos - 1]) /\ prev[r] \in Pointer
      /\ next[r] = (IF pos = N THEN NULL ELSE s[pos + 1]) /\ next[r] \in Pointer
      /\ r \in heap /\ r \in Node /\ r \notin lost
  BY <1>1, <1>2 DEF Pointer
<1>8. TypeOK'
  <2>1. size' \in 0 .. Cardinality(Node) /\ head' \in Pointer /\ exists' \in BOOLEAN
    <3>1. Cardinality(Node) \in Nat BY DPListAssumption, FS_CardinalityType
    <3> QED BY <1>1, <1>4, <1>7, <3>1 DEF TypeOK
  <2>2. heap' \subseteq Node /\ lost' \subseteq heap' BY <1>1, <1>4, <1>7 DEF TypeOK
  <2>3. next' \in [heap' -> Pointer] /\ prev' \in [heap' -> Pointer]
    BY <1>4, <1>7 DEF TypeOK
  <2>4. element' \in [heap' -> Element] BY <1>4 DEF TypeOK
  <2> QED BY <2>1, <2>2, <2>3, <2>4 DEF TypeOK
<1>9. head' = IF t = <<>> THEN NULL ELSE t[1]
  <2>1. t = <<>> <=> N = 1 BY <1>1, <1>3, EmptySeq
  <2>2. CASE pos = 1
    <3>1. head' = next[r] BY <1>4, <1>7, <2>2
    <3>2. N # 1 => t[1] = s[2] BY <1>1, <1>3, <2>2
    <3> QED BY <1>7, <2>1, <2>2, <3>1, <3>2
  <2>3. CASE pos # 1
    <3>1. pos - 1 \in 1 .. N /\ N # 1 /\ 1 < pos /\ 1 \in 1 .. N - 1 BY <1>1, <2>3
    <3>2. head' = head BY <1>1, <1>4, <1>7, <2>3, <3>1
    <3>3. head = s[1] BY <1>1, ChainFacts DEF Chain
    <3> QED BY <1>3, <2>1, <3>1, <3>2, <3>3
  <2> QED BY <2>2, <2>3
<1>10. ASSUME NEW i \in 1 .. N - 1
       PROVE  /\ next'[t[i]] = IF i = N - 1 THEN NULL ELSE t[i + 1]
              /\ prev'[t[i]] = IF i = 1 THEN NULL ELSE t[i - 1]
  <2>1. /\ o(i) \in 1 .. N /\ o(i) # pos /\ t[i] = s[o(i)]
        /\ s[o(i)] \in heap \ {r} /\ s[o(i)] # NULL
    BY <1>5
  <2>2. /\ next'[t[i]] = IF s[o(i)] = prev[r] THEN next[r] ELSE next[s[o(i)]]
        /\ prev'[t[i]] = IF s[o(i)] = next[r] THEN prev[r] ELSE prev[s[o(i)]]
    BY <1>4, <2>1
  <2>3. /\ next[s[o(i)]] = IF o(i) = N THEN NULL ELSE s[o(i) + 1]
        /\ prev[s[o(i)]] = IF o(i) = 1 THEN NULL ELSE s[o(i) - 1]
    BY <1>2, <2>1
  <2>4. s[o(i)] = prev[r] <=> o(i) = pos - 1
    <3>1. pos # 1 => pos - 1 \in 1 .. N BY <1>1
    <3>2. pos = 1 => o(i) # pos - 1 BY <2>1
    <3> HIDE DEF o
    <3> QED BY <1>2, <1>7, <2>1, <3>1, <3>2
  <2>5. s[o(i)] = next[r] <=> o(i) = pos + 1
    <3>1. pos # N => pos + 1 \in 1 .. N BY <1>1
    <3>2. pos = N => o(i) # pos + 1 BY <1>1, <2>1
    <3> HIDE DEF o
    <3> QED BY <1>2, <1>7, <2>1, <3>1, <3>2
  <2>6. i # N - 1 => i + 1 \in 1 .. N - 1 /\ t[i + 1] = s[o(i + 1)] BY <1>1, <1>5
  <2>7. i # 1 => i - 1 \in 1 .. N - 1 /\ t[i - 1] = s[o(i - 1)] BY <1>1, <1>5
  <2>8. next'[t[i]] = IF i = N - 1 THEN NULL ELSE t[i + 1]
    <3>1. CASE o(i) = pos - 1
      <4>1. i = pos - 1 /\ (i = N - 1 <=> pos = N) /\ (i # N - 1 => o(i + 1) = pos + 1)
        BY <1>1, <3>1
      <4> HIDE DEF o
      <4> QED BY <1>7, <2>2, <2>4, <2>6, <3>1, <4>1
    <3>2. CASE o(i) # pos - 1
      <4>1. (o(i) = N <=> i = N - 1) /\ (i # N - 1 => o(i + 1) = o(i) + 1) BY <1>1, <3>2
      <4> HIDE DEF o
      <4> QED BY <2>2, <2>3, <2>4, <2>6, <3>2, <4>1
    <3> QED BY <3>1, <3>2
  <2>9. prev'[t[i]] = IF i = 1 THEN NULL ELSE t[i - 1]
    <3>1. CASE o(i) = pos + 1
      <4>1. i = pos /\ (i # 1 => o(i - 1) = pos - 1) BY <1>1, <3>1
      <4> HIDE DEF o
      <4> QED BY <1>7, <2>2, <2>5, <2>7, <3>1, <4>1
    <3>2. CASE o(i) # pos + 1
      <4>1. (o(i) = 1 <=> i = 1) /\ (i # 1 => o(i - 1) = o(i) - 1) BY <1>1, <2>1, <3>2
      <4> HIDE DEF o
      <4> QED BY <2>2, <2>3, <2>5, <2>7, <3>2, <4>1
    <3> QED BY <3>1, <3>2
  <2> QED BY <2>8, <2>9
<1>11. \A m \in Node : m \in heap' \ lost' <=> \E i \in 1 .. N - 1 : t[i] = m
  <2>1. \A m \in Node : m \in heap \ lost <=> \E i \in 1 .. N : s[i] = m BY DEF Chain
  <2>2. ASSUME NEW i \in 1 .. N - 1 PROVE t[i] \in heap' \ lost'
    <3>1. o(i) \in 1 .. N /\ t[i] = s[o(i)] /\ s[o(i)] \in heap \ {r} BY <1>5
    <3> HIDE DEF o
    <3> QED BY <1>1, <1>4, <3>1
  <2>3. ASSUME NEW m \in heap' \ lost' PROVE \E i \in 1 .. N - 1 : t[i] = m
    <3>1. PICK j \in 1 .. N : s[j] = m BY <1>1, <1>4, <2>1
    <3>2. j # pos BY <1>4, <3>1
    <3>3. CASE j < pos BY <1>1, <1>3, <3>1, <3>3
    <3>4. CASE j > pos
      <4>1. j - 1 \in 1 .. N - 1 /\ ~(j - 1 < pos) /\ (j - 1) + 1 = j BY <1>1, <3>4
      <4>2. t[j - 1] = s[j] BY <1>3, <4>1
      <4> QED BY <3>1, <4>1, <4>2
    <3> QED BY <1>1, <3>2, <3>3, <3>4
  <2> QED BY <2>2, <2>3
<1>12. Chain(t)'
  <2>1. t \in Seq(Node) /\ size' = Len(t) /\ exists' BY <1>1, <1>3, <1>4
  <2>2. \A i, j \in 1 .. Len(t) : t[i] = t[j] => i = j BY <1>3, <1>6
  <2>3. \A m \in Node : m \in heap' \ lost' <=> \E i \in 1 .. Len(t) : t[i] = m BY <1>3, <1>11
  <2>4. \A i \in 1 .. Len(t) : /\ next'[t[i]] = IF i = Len(t) THEN NULL ELSE t[i + 1]
                               /\ prev'[t[i]] = IF i = 1 THEN NULL ELSE t[i - 1]
    BY <1>3, <1>10
  <2> QED BY <1>9, <2>1, <2>2, <2>3, <2>4 DEF Chain
<1> QED BY <1>3, <1>8, <1>12 DEF t

(* Steps that leave the list as it is. *)
LEMMA SameStep ==
  ASSUME TypeOK, NEW s \in Seq(Node), Chain(s), ret' \in {"list", NULL},
         exists' \in BOOLEAN, exists => exists', UNCHANGED <<head, size, nodes>>
  PROVE  TypeOK' /\ Chain(s)'
<1> USE DEF nodes, heap
<1>1. TypeOK' BY DEF TypeOK
<1>2. Chain(s)' BY DEF Chain
<1> QED BY <1>1, <1>2

(* A node that is allocated and left with nobody. *)
LEMMA LostStep ==
  ASSUME TypeOK, NEW s \in Seq(Node), Chain(s), NEW n \in Node \ heap, NEW e \in Element,
         next' = [m \in heap \cup {n} |-> IF m = n THEN NULL ELSE next[m]],
         prev' = [m \in heap \cup {n} |-> IF m = n THEN NULL ELSE prev[m]],
         element' = [m \in heap \cup {n} |-> IF m = n THEN e ELSE element[m]],
         lost' = lost \cup {n}, UNCHANGED <<exists, head, size>>, ret' \in {"list", NULL}
  PROVE  TypeOK' /\ Chain(s)'
<1>1. heap' = heap \cup {n} BY DEF heap
<1>2. \A i \in 1 .. Len(s) : s[i] \in heap /\ s[i] # n BY ChainFacts
<1>3. TypeOK'
  <2>1. heap' \subseteq Node /\ lost' \subseteq heap' BY <1>1 DEF TypeOK
  <2>2. next' \in [heap' -> Pointer] /\ prev' \in [heap' -> Pointer] /\ element' \in [heap' -> Element]
    BY <1>1 DEF TypeOK, Pointer
  <2> QED BY <2>1, <2>2 DEF TypeOK
<1>4. Chain(s)'
  <2>1. \A m \in Node : m \in heap' \ lost' <=> m \in heap \ lost BY <1>1
  <2>2. \A i \in 1 .. Len(s) : next'[s[i]] = next[s[i]] /\ prev'[s[i]] = prev[s[i]] BY <1>2
  <2> QED BY <2>1, <2>2 DEF Chain
<1> QED BY <1>3, <1>4

(* All nodes of the list are freed: what remains was lost. *)
LEMMA FreeStep ==
  ASSUME TypeOK, NEW s \in Seq(Node), Chain(s), dpl_free
  PROVE  TypeOK' /\ Chain(<<>>)'
<1>1. Visited = heap \ lost /\ lost \subseteq heap BY VisitedAre DEF TypeOK
<1>2. heap' = lost
  <2>1. heap' = heap \ Visited BY DEF dpl_free, Restrict, heap
  <2> QED BY <1>1, <2>1
<1>3. /\ next' = [m \in lost |-> next[m]] /\ prev' = [m \in lost |-> prev[m]]
      /\ element' = [m \in lost |-> element[m]]
  <2>1. heap \ Visited = lost BY <1>1
  <2> QED BY <2>1 DEF dpl_free, Restrict
<1>4. TypeOK'
  <2>1. Cardinality(Node) \in Nat BY DPListAssumption, FS_CardinalityType
  <2>2. next' \in [heap' -> Pointer] /\ prev' \in [heap' -> Pointer] /\ element' \in [heap' -> Element]
    BY <1>1, <1>2, <1>3 DEF TypeOK
  <2>3. heap' \subseteq Node /\ lost' \subseteq heap' BY <1>1, <1>2 DEF TypeOK, dpl_free
  <2>4. exists' \in BOOLEAN /\ head' \in Pointer /\ size' \in 0 .. Cardinality(Node)
        /\ ret' \in {"list", NULL}
    <3>1. 0 \in 0 .. Cardinality(Node) BY <2>1
    <3> QED BY <3>1 DEF dpl_free, Pointer
  <2> QED BY <2>2, <2>3, <2>4 DEF TypeOK
<1>5. Chain(<<>>)'
  <2>1. <<>> \in Seq(Node) /\ Len(<<>>) = 0 BY EmptySeq
  <2>2. heap' \ lost' = {} BY <1>2 DEF dpl_free
  <2> QED BY <2>1, <2>2 DEF Chain, dpl_free
<1> QED BY <1>4, <1>5

LEMMA RowsAre ==
  ASSUME NEW s \in Seq(Node), NEW el, \A i \in 1 .. Len(s) : el[s[i]] \in Element
  PROVE  /\ Rows(s, el) \in Seq(Row) /\ Len(Rows(s, el)) = Len(s)
         /\ \A i \in 1 .. Len(s) : Rows(s, el)[i] = [ref |-> s[i], element |-> el[s[i]]]
<1>1. Len(s) \in Nat /\ \A i \in 1 .. Len(s) : s[i] \in Node BY LenProperties, ElementOfSeq
<1>2. Rows(s, el) \in [1 .. Len(s) -> Row] BY <1>1 DEF Rows, Row
<1>3. Rows(s, el) \in Seq(Row) BY <1>1, <1>2, SeqDef
<1>4. Len(Rows(s, el)) = Len(s) BY <1>1, <1>2, <1>3, LenProperties
<1> QED BY <1>3, <1>4 DEF Rows

LEMMA RowsInserted ==
  ASSUME NEW s \in Seq(Node), NEW el, NEW el2, NEW n \in Node, NEW pos \in 1 .. Len(s) + 1,
         \A i \in 1 .. Len(s) : el[s[i]] \in Element /\ el2[s[i]] = el[s[i]],
         el2[n] \in Element
  PROVE  Rows(InsertAt(s, pos, n), el2)
           = InsertAt(Rows(s, el), pos, [ref |-> n, element |-> el2[n]])
<1> DEFINE N == Len(s)
           t == InsertAt(s, pos, n)
<1>1. N \in Nat /\ pos \in 1 .. N + 1 BY LenProperties
<1>2. /\ t \in Seq(Node) /\ Len(t) = N + 1
      /\ \A i \in 1 .. N + 1 : t[i] = IF i < pos THEN s[i] ELSE IF i = pos THEN n ELSE s[i - 1]
  <2>1. pos \in 1 .. Len(s) + 1 /\ n \in Node /\ s \in Seq(Node) OBVIOUS
  <2>2. /\ InsertAt(s, pos, n) \in Seq(Node) /\ Len(InsertAt(s, pos, n)) = Len(s) + 1
        /\ \A i \in 1 .. Len(s) + 1 :
             InsertAt(s, pos, n)[i] = IF i < pos THEN s[i] ELSE IF i = pos THEN n ELSE s[i - 1]
    BY <2>1, Inserted
  <2> QED BY <2>2
<1> HIDE DEF t
<1> DEFINE x == [ref |-> n, element |-> el2[n]]
           u == Rows(s, el)
           v == InsertAt(u, pos, x)
<1>3. /\ u \in Seq(Row) /\ Len(u) = N
      /\ \A i \in 1 .. N : u[i] = [ref |-> s[i], element |-> el[s[i]]]
  BY RowsAre
<1>4. x \in Row BY DEF Row
<1> HIDE DEF u, x
<1>5. /\ v \in Seq(Row) /\ Len(v) = N + 1
      /\ \A i \in 1 .. N + 1 : v[i] = IF i < pos THEN u[i] ELSE IF i = pos THEN x ELSE u[i - 1]
  <2>1. pos \in 1 .. Len(u) + 1 BY <1>1, <1>3
  <2>2. /\ v \in Seq(Row) /\ Len(v) = Len(u) + 1
        /\ \A i \in 1 .. Len(u) + 1 : v[i] = IF i < pos THEN u[i] ELSE IF i = pos THEN x ELSE u[i - 1]
    BY <1>3, <1>4, <2>1, Inserted
  <2> QED BY <1>3, <2>2
<1> HIDE DEF v
<1>6. ASSUME NEW i \in 1 .. N + 1
      PROVE  v[i] = [ref |-> t[i], element |-> el2[t[i]]] /\ el2[t[i]] \in Element
  <2>1. CASE i < pos
    <3>1. i \in 1 .. N BY <1>1, <2>1
    <3> QED BY <1>2, <1>3, <1>5, <2>1, <3>1
  <2>2. CASE i = pos
    <3>1. v[i] = x /\ t[i] = n BY <1>2, <1>5, <2>2
    <3> QED BY <3>1 DEF x
  <2>3. CASE i > pos
    <3>1. i - 1 \in 1 .. N /\ ~(i < pos) /\ i # pos BY <1>1, <2>3
    <3> QED BY <1>2, <1>3, <1>5, <3>1
  <2> QED BY <1>1, <2>1, <2>2, <2>3
<1>7. /\ Rows(t, el2) \in Seq(Row) /\ Len(Rows(t, el2)) = N + 1
      /\ \A i \in 1 .. N + 1 : Rows(t, el2)[i] = [ref |-> t[i], element |-> el2[t[i]]]
  <2>1. \A i \in 1 .. Len(t) : el2[t[i]] \in Element BY <1>2, <1>6
  <2>2. /\ Rows(t, el2) \in Seq(Row) /\ Len(Rows(t, el2)) = Len(t)
        /\ \A i \in 1 .. Len(t) : Rows(t, el2)[i] = [ref |-> t[i], element |-> el2[t[i]]]
    BY <1>2, <2>1, RowsAre
  <2> QED BY <1>2, <2>2
<1>8. Rows(t, el2) = v BY <1>5, <1>6, <1>7, SeqEqual
<1> QED BY <1>8 DEF t, u, v, x

LEMMA RowsRemoved ==
  ASSUME NEW s \in Seq(Node), NEW el, NEW el2, NEW pos \in 1 .. Len(s),
         \A i \in 1 .. Len(s) : el[s[i]] \in Element,
         \A i \in 1 .. Len(s) : i # pos => el2[s[i]] = el[s[i]]
  PROVE  Rows(RemoveAt(s, pos), el2) = RemoveAt(Rows(s, el), pos)
<1> DEFINE N == Len(s)
           t == RemoveAt(s, pos)
           u == Rows(s, el)
           v == RemoveAt(u, pos)
<1>1. N \in Nat /\ pos \in 1 .. N BY LenProperties
<1>2. /\ t \in Seq(Node) /\ Len(t) = N - 1
      /\ \A i \in 1 .. N - 1 : t[i] = IF i < pos THEN s[i] ELSE s[i + 1]
  BY Removed
<1>3. /\ u \in Seq(Row) /\ Len(u) = N
      /\ \A i \in 1 .. N : u[i] = [ref |-> s[i], element |-> el[s[i]]]
  BY RowsAre
<1> HIDE DEF t, u
<1>4. /\ v \in Seq(Row) /\ Len(v) = N - 1
      /\ \A i \in 1 .. N - 1 : v[i] = IF i < pos THEN u[i] ELSE u[i + 1]
  <2>1. pos \in 1 .. Len(u) BY <1>1, <1>3
  <2>2. /\ v \in Seq(Row) /\ Len(v) = Len(u) - 1
        /\ \A i \in 1 .. Len(u) - 1 : v[i] = IF i < pos THEN u[i] ELSE u[i + 1]
    BY <1>3, <2>1, Removed
  <2> QED BY <1>3, <2>2
<1> HIDE DEF v
<1>5. ASSUME NEW i \in 1 .. N - 1
      PROVE  v[i] = [ref |-> t[i], element |-> el2[t[i]]] /\ el2[t[i]] \in Element
  <2>1. CASE i < pos
    <3>1. i \in 1 .. N /\ i # pos BY <1>1, <2>1
    <3> QED BY <1>2, <1>3, <1>4, <2>1, <3>1
  <2>2. CASE ~(i < pos)
    <3>1. i + 1 \in 1 .. N /\ i + 1 # pos BY <1>1, <2>2
    <3> QED BY <1>2, <1>3, <1>4, <2>2, <3>1
  <2> QED BY <2>1, <2>2
<1>6. /\ Rows(t, el2) \in Seq(Row) /\ Len(Rows(t, el2)) = N - 1
      /\ \A i \in 1 .. N - 1 : Rows(t, el2)[i] = [ref |-> t[i], element |-> el2[t[i]]]
  <2>1. \A i \in 1 .. Len(t) : el2[t[i]] \in Element BY <1>2, <1>5
  <2>2. /\ Rows(t, el2) \in Seq(Row) /\ Len(Rows(t, el2)) = Len(t)
        /\ \A i \in 1 .. Len(t) : Rows(t, el2)[i] = [ref |-> t[i], element |-> el2[t[i]]]
    BY <1>2, <2>1, RowsAre
  <2> QED BY <1>2, <2>2
<1>7. Rows(t, el2) = v BY <1>4, <1>5, <1>6, SeqEqual
<1> QED BY <1>7 DEF t, u, v

------------------------------------------------------------------------------
(* The operations *)

(* The neighbours of a node are those of its position. *)
LEMMA Neighbours ==
  ASSUME TypeOK, NEW s \in Seq(Node), Chain(s)
  PROVE  /\ \A i \in 1 .. Len(s) : prev[s[i]] = PrevOf(s, i) /\ s[i] = NextOf(s, i)
         /\ head # NULL => /\ PrevOf(s, Len(s) + 1) = s[Len(s)]
                           /\ NextOf(s, Len(s) + 1) = next[s[Len(s)]]
         /\ head = NULL => Len(s) = 0 /\ PrevOf(s, 1) = NULL /\ NextOf(s, 1) = NULL
         /\ size = Len(s)
<1>1. Len(s) \in Nat /\ (head = NULL <=> Len(s) = 0) BY ChainFacts
<1>2. \A i \in 1 .. Len(s) : /\ next[s[i]] = IF i = Len(s) THEN NULL ELSE s[i + 1]
                             /\ prev[s[i]] = IF i = 1 THEN NULL ELSE s[i - 1]
  BY DEF Chain
<1>3. \A i \in 1 .. Len(s) : prev[s[i]] = PrevOf(s, i) /\ s[i] = NextOf(s, i)
  BY <1>1, <1>2 DEF PrevOf, NextOf
<1>4. head # NULL => /\ PrevOf(s, Len(s) + 1) = s[Len(s)]
                     /\ NextOf(s, Len(s) + 1) = next[s[Len(s)]]
  BY <1>1, <1>2 DEF PrevOf, NextOf
<1>5. head = NULL => Len(s) = 0 /\ PrevOf(s, 1) = NULL /\ NextOf(s, 1) = NULL
  BY <1>1 DEF PrevOf, NextOf
<1>6. size = Len(s) BY DEF Chain
<1> QED BY <1>3, <1>4, <1>5, <1>6

(* Looking for a reference finds its index, if it is in the list. *)
LEMMA IndexIs ==
  ASSUME TypeOK, NEW s \in Seq(Node), Chain(s)
  PROVE  /\ \A i \in 1 .. Len(s) : dpl_get_index_of_reference(s[i]) = i - 1
         /\ \A r \in Node : (\A i \in 1 .. Len(s) : s[i] # r) => dpl_get_index_of_reference(r) = -1
         /\ dpl_get_index_of_reference(NULL) = Len(s) - 1
<1>1. /\ Len(s) \in Nat /\ (head = NULL <=> Len(s) = 0) /\ size = Len(s)
      /\ \A i \in 1 .. Len(s) : s[i] # NULL
  BY ChainFacts, Neighbours
<1>2. Visited = {s[i] : i \in 1 .. Len(s)} BY VisitedAre
<1>3. \A i \in 1 .. Len(s) : CountOf(s[i]) = i - 1 BY CountIs
<1>4. ASSUME NEW i \in 1 .. Len(s) PROVE dpl_get_index_of_reference(s[i]) = i - 1
  <2>1. head # NULL /\ s[i] # NULL /\ s[i] \in Visited BY <1>1, <1>2
  <2> QED BY <1>3, <2>1 DEF dpl_get_index_of_reference
<1>5. ASSUME NEW r \in Node, \A i \in 1 .. Len(s) : s[i] # r
      PROVE  dpl_get_index_of_reference(r) = -1
  <2>1. r \notin Visited /\ r # NULL BY <1>2, <1>5, DPListAssumption
  <2> QED BY <2>1 DEF dpl_get_index_of_reference
<1>6. dpl_get_index_of_reference(NULL) = Len(s) - 1
  <2>1. CASE Len(s) = 0 BY <1>1, <2>1 DEF dpl_get_index_of_reference
  <2>2. CASE Len(s) # 0 BY <1>1, <2>2 DEF dpl_get_index_of_reference
  <2> QED BY <2>1, <2>2
<1> QED BY <1>4, <1>5, <1>6

(* Looking for an element finds the first node that has it. *)
Having(s, e) == {i \in 1 .. Len(s) : element[s[i]] = e}

LEMMA ElementIs ==
  ASSUME TypeOK, NEW s \in Seq(Node), Chain(s), NEW e \in Element
  PROVE  dpl_get_reference_of_element(e)
           = IF Having(s, e) = {} THEN NULL ELSE s[Min(Having(s, e))]
<1> DEFINE P == Having(s, e)
<1>1. Visited = {s[i] : i \in 1 .. Len(s)} BY VisitedAre
<1>2. {r \in Visited : element[r] = e} = {s[i] : i \in P} BY <1>1 DEF Having
<1>3. P \in SUBSET (1 .. Len(s)) BY DEF Having
<1> HIDE DEF P
<1>4. FirstSuch({s[i] : i \in P}) = IF P = {} THEN NULL ELSE s[Min(P)] BY <1>3, FirstIs
<1> QED BY <1>2, <1>4 DEF dpl_get_reference_of_element, P

(* What the sequence of items is and what it becomes. *)
LEMMA ItemsFacts ==
  ASSUME TypeOK, NEW s \in Seq(Node), Chain(s)
  PROVE  /\ Items = Rows(s, element) /\ Items \in Seq(Row)
         /\ Len(Items) = Len(s) /\ DOMAIN Items = 1 .. Len(s)
         /\ \A i \in 1 .. Len(s) : /\ Items[i] = [ref |-> s[i], element |-> element[s[i]]]
                                   /\ Items[i].ref = s[i] /\ Items[i].element = element[s[i]]
         /\ \A i \in 1 .. Len(s) : element[s[i]] \in Element
         /\ Items = <<>> <=> Len(s) = 0
<1>1. Items = Rows(s, element) BY ItemsAre DEF Elements
<1>2. \A i \in 1 .. Len(s) : element[s[i]] \in Element BY ChainFacts DEF TypeOK
<1>3. /\ Rows(s, element) \in Seq(Row) /\ Len(Rows(s, element)) = Len(s)
      /\ \A i \in 1 .. Len(s) : Rows(s, element)[i] = [ref |-> s[i], element |-> element[s[i]]]
  BY <1>2, RowsAre
<1>4. DOMAIN Items = 1 .. Len(s) BY <1>1 DEF Rows
<1>5. Items = <<>> <=> Len(s) = 0 BY <1>1, <1>3, EmptySeq
<1> QED BY <1>1, <1>2, <1>3, <1>4, <1>5

LEMMA ItemsKept ==
  ASSUME TypeOK, NEW s \in Seq(Node), Chain(s), TypeOK', Chain(s)',
         \A i \in 1 .. Len(s) : element'[s[i]] = element[s[i]]
  PROVE  Inv' /\ Items' = Items
<1>1. Items = Rows(s, element) BY ItemsFacts
<1>2. Items' = Rows(s, element') BY ItemsAreNext DEF Elements
<1>3. Rows(s, element) = Rows(s, element') BY DEF Rows
<1> QED BY <1>1, <1>2, <1>3 DEF Inv

LEMMA ItemsInserted ==
  ASSUME TypeOK, NEW s \in Seq(Node), Chain(s), NEW n \in Node \ heap, NEW e \in Element,
         NEW pos \in 1 .. Len(s) + 1, Between(n, e, PrevOf(s, pos), NextOf(s, pos)),
         exists, exists' = exists, lost' = lost, ret' \in {"list", NULL}
  PROVE  Inv' /\ Items' = InsertAt(Items, pos, [ref |-> n, element |-> e]) /\ L!InsertedAt(pos, e)
<1> DEFINE t == InsertAt(s, pos, n)
<1>1. TypeOK' /\ t \in Seq(Node) /\ Chain(t)' BY BetweenStep
<1>2. Inv' BY <1>1 DEF Inv
<1>3. Items' = Rows(t, element') BY <1>1, ItemsAreNext DEF Elements
<1>4. \A i \in 1 .. Len(s) : s[i] \in heap /\ s[i] # n BY ChainFacts
<1>5. element' = [m \in heap \cup {n} |-> IF m = n THEN e ELSE element[m]] BY DEF Between
<1>6. element'[n] = e /\ \A i \in 1 .. Len(s) : element'[s[i]] = element[s[i]] BY <1>4, <1>5
<1>7. Items = Rows(s, element) /\ \A i \in 1 .. Len(s) : element[s[i]] \in Element BY ItemsFacts
<1> HIDE DEF t
<1>8. Rows(t, element') = InsertAt(Rows(s, element), pos, [ref |-> n, element |-> element'[n]])
  <2> DEFINE el == element
             el2 == element'
  <2>1. /\ \A i \in 1 .. Len(s) : el[s[i]] \in Element /\ el2[s[i]] = el[s[i]]
        /\ el2[n] \in Element /\ n \in Node
    BY <1>6, <1>7
  <2> HIDE DEF el, el2
  <2>2. Rows(InsertAt(s, pos, n), el2)
          = InsertAt(Rows(s, el), pos, [ref |-> n, element |-> el2[n]])
    BY <2>1, RowsInserted
  <2> QED BY <2>2 DEF t, el, el2
<1>9. Items' = InsertAt(Items, pos, [ref |-> n, element |-> e]) BY <1>3, <1>6, <1>7, <1>8
<1>10. n \notin {Items[m].ref : m \in DOMAIN Items}
  <2>1. DOMAIN Items = 1 .. Len(s) /\ \A i \in 1 .. Len(s) : Items[i].ref = s[i] BY ItemsFacts
  <2> QED BY <1>4, <2>1
<1> QED BY <1>2, <1>9, <1>10 DEF L!InsertedAt, L!InsertAt, InsertAt

LEMMA ItemsRemoved ==
  ASSUME TypeOK, NEW s \in Seq(Node), Chain(s), NEW pos \in 1 .. Len(s), Unlink(s[pos]),
         exists, exists' = exists, lost' = lost, ret' \in {"list", NULL}
  PROVE  Inv' /\ Items' = L!RemoveAt(Items, pos)
<1> DEFINE t == RemoveAt(s, pos)
<1>1. TypeOK' /\ t \in Seq(Node) /\ Chain(t)' BY UnlinkStep
<1>2. Inv' BY <1>1 DEF Inv
<1>3. Items' = Rows(t, element') BY <1>1, ItemsAreNext DEF Elements
<1>4. \A i \in 1 .. Len(s) : s[i] \in heap /\ (i # pos => s[i] # s[pos]) BY ChainFacts DEF Chain
<1>5. element' = [m \in heap \ {s[pos]} |-> element[m]] BY DEF Unlink, Restrict
<1>6. \A i \in 1 .. Len(s) : i # pos => element'[s[i]] = element[s[i]] BY <1>4, <1>5
<1>7. Items = Rows(s, element) /\ \A i \in 1 .. Len(s) : element[s[i]] \in Element BY ItemsFacts
<1> HIDE DEF t
<1>8. Rows(t, element') = RemoveAt(Rows(s, element), pos)
  BY <1>6, <1>7, RowsRemoved DEF t
<1> QED BY <1>2, <1>3, <1>7, <1>8 DEF L!RemoveAt, RemoveAt

(* Looking for a reference or an element in the sequence of items. *)
LEMMA PositionIs ==
  ASSUME TypeOK, NEW s \in Seq(Node), Chain(s)
  PROVE  /\ \A i \in 1 .. Len(s) : L!PositionOf(s[i]) = i
         /\ \A r : (\A i \in 1 .. Len(s) : s[i] # r) => L!PositionOf(r) = 0
<1>1. /\ Len(Items) = Len(s) /\ Len(s) \in Nat
      /\ \A i \in 1 .. Len(s) : Items[i].ref = s[i]
  BY ItemsFacts, ChainFacts
<1>2. \A i, j \in 1 .. Len(s) : s[i] = s[j] => i = j BY DEF Chain
<1>3. ASSUME NEW i \in 1 .. Len(s) PROVE L!PositionOf(s[i]) = i
  <2>1. {j \in 1 .. Len(Items) : Items[j].ref = s[i]} = {i} BY <1>1, <1>2
  <2>2. Min({i}) = i
    <3>1. {i} \in SUBSET Nat /\ {i} # {} BY <1>1
    <3>2. Min({i}) \in {i} BY <3>1, MinNat
    <3> QED BY <3>2
  <2> QED BY <2>1, <2>2 DEF L!PositionOf, L!SelectInSeq, L!Min, Min
<1>4. ASSUME NEW r, \A i \in 1 .. Len(s) : s[i] # r PROVE L!PositionOf(r) = 0
  <2>1. {j \in 1 .. Len(Items) : Items[j].ref = r} = {} BY <1>1, <1>4
  <2> QED BY <2>1 DEF L!PositionOf, L!SelectInSeq
<1> QED BY <1>3, <1>4

LEMMA InsertAtIndexStep ==
  ASSUME Inv, exists, exists' = exists, ret' = "list",
         NEW n \in Node \ heap, NEW e \in Element, NEW k \in Index, dpl_insert_at_index(n, e, k)
  PROVE  Inv' /\ L!Change
<1>1. PICK s \in Seq(Node) : Chain(s) BY DEF Inv
<1>2. TypeOK BY DEF Inv
<1> DEFINE N == Len(s)
           pos == Clip(k, N + 1)
<1>3. /\ N \in Nat /\ (head = NULL <=> N = 0) /\ (s = <<>> <=> N = 0) /\ k \in Int
      /\ Len(Items) = N
  <2>1. Cardinality(Node) \in Nat BY DPListAssumption, FS_CardinalityType
  <2>2. k \in Int BY <2>1 DEF Index
  <2> QED BY <1>1, <1>2, <2>2, ChainFacts, ItemsFacts
<1>4. pos \in 1 .. N + 1 BY <1>3 DEF Clip
<1>5. /\ \A i \in 1 .. N : prev[s[i]] = PrevOf(s, i) /\ s[i] = NextOf(s, i)
      /\ head # NULL => PrevOf(s, N + 1) = s[N] /\ NextOf(s, N + 1) = next[s[N]]
      /\ head = NULL => PrevOf(s, 1) = NULL /\ NextOf(s, 1) = NULL
      /\ size = N
  BY <1>1, <1>2, Neighbours
<1>6. head # NULL => dpl_get_reference_at_index(k) = s[Clip(k, N)] /\ head = s[1]
  BY <1>1, <1>2, <1>3, ReferenceAt DEF Chain
<1>7. AtIndex(n, e, k) /\ lost' = lost /\ call' = <<"insert_at_index", e, k>>
  BY DEF dpl_insert_at_index
<1> HIDE DEF N
<1>8. Between(n, e, PrevOf(s, pos), NextOf(s, pos))
  <2>1. CASE head = NULL
    <3>1. pos = 1 BY <1>3, <2>1 DEF Clip
    <3> QED BY <1>5, <1>7, <2>1, <3>1 DEF AtIndex, Only
  <2>2. CASE head # NULL /\ k <= 0
    <3>1. pos = 1 /\ 1 \in 1 .. N BY <1>3, <2>2 DEF Clip
    <3>2. Before(n, e, s[1]) BY <1>6, <1>7, <2>2 DEF AtIndex
    <3> QED BY <1>5, <3>1, <3>2 DEF Before
  <2>3. CASE head # NULL /\ ~(k <= 0) /\ k < size
    <3>1. pos = k + 1 /\ Clip(k, N) = k + 1 /\ k + 1 \in 1 .. N BY <1>3, <1>5, <2>3 DEF Clip
    <3>2. Before(n, e, s[k + 1]) BY <1>6, <1>7, <2>3, <3>1 DEF AtIndex
    <3> HIDE DEF pos
    <3> QED BY <1>5, <3>1, <3>2 DEF Before
  <2>4. CASE head # NULL /\ ~(k <= 0) /\ ~(k < size)
    <3>1. pos = N + 1 /\ Clip(k, N) = N BY <1>3, <1>5, <2>4 DEF Clip
    <3>2. Behind(n, e, s[N]) BY <1>6, <1>7, <2>4, <3>1 DEF AtIndex
    <3> HIDE DEF pos
    <3> QED BY <1>5, <2>4, <3>1, <3>2 DEF Behind
  <2> QED BY <2>1, <2>2, <2>3, <2>4
<1> HIDE DEF pos
<1>9. Inv' /\ L!InsertedAt(pos, e)
  BY <1>1, <1>2, <1>4, <1>7, <1>8, ItemsInserted DEF N
<1>10. pos = L!Clip(k, Len(Items) + 1) BY <1>3 DEF pos, Clip, L!Clip
<1> QED BY <1>7, <1>9, <1>10 DEF L!Change

LEMMA InsertAtReferenceStep ==
  ASSUME Inv, exists, exists' = exists, ret' = "list",
         NEW n \in Node \ heap, NEW e \in Element, NEW r \in Pointer,
         dpl_insert_at_reference(n, e, r)
  PROVE  Inv' /\ (L!Change \/ InsertsForUnknown)
<1>1. PICK s \in Seq(Node) : Chain(s) BY DEF Inv
<1>2. TypeOK BY DEF Inv
<1> DEFINE N == Len(s)
<1>3. /\ N \in Nat /\ (head = NULL <=> N = 0) /\ Len(Items) = N /\ (Items = <<>> <=> N = 0)
      /\ \A i \in 1 .. N : s[i] # NULL
  BY <1>1, <1>2, ChainFacts, ItemsFacts
<1>5. /\ \A i \in 1 .. N : prev[s[i]] = PrevOf(s, i) /\ s[i] = NextOf(s, i)
      /\ head # NULL => PrevOf(s, N + 1) = s[N] /\ NextOf(s, N + 1) = next[s[N]]
      /\ head = NULL => PrevOf(s, 1) = NULL /\ NextOf(s, 1) = NULL
      /\ size = N
  BY <1>1, <1>2, Neighbours
<1>6. head # NULL => dpl_get_reference_at_index(size) = s[N]
  <2>1. head # NULL => dpl_get_reference_at_index(size) = s[Clip(N, N)]
    BY <1>1, <1>2, <1>3, <1>5, ReferenceAt
  <2>2. head # NULL => Clip(N, N) = N BY <1>3 DEF Clip
  <2> QED BY <2>1, <2>2
<1>7. call' = <<"insert_at_reference", e, r>> /\ r \in Node \cup {NULL}
  BY DEF dpl_insert_at_reference, Pointer
<1>8. ASSUME NEW pos \in 1 .. N + 1, Between(n, e, PrevOf(s, pos), NextOf(s, pos)), lost' = lost
      PROVE  Inv' /\ L!InsertedAt(pos, e)
  BY <1>1, <1>2, <1>8, ItemsInserted
<1> HIDE DEF N
<1> DEFINE pos == IF r = NULL THEN Len(Items) + 1 ELSE L!PositionOf(r)
<1> SUFFICES Inv' /\ \/ IF pos = 0 THEN UNCHANGED Items ELSE L!InsertedAt(pos, e)
                     \/ Items = <<>> /\ r # NULL /\ L!InsertedAt(1, e)
  <2> HIDE DEF pos
  <2>1. CASE IF pos = 0 THEN UNCHANGED Items ELSE L!InsertedAt(pos, e)
    BY <1>7, <2>1 DEF L!Change, pos
  <2>2. CASE Items = <<>> /\ r # NULL /\ L!InsertedAt(1, e)
    <3>1. call'[1] = "insert_at_reference" /\ call'[2] = e /\ call'[3] = r BY <1>7
    <3> QED BY <2>2, <3>1 DEF InsertsForUnknown
  <2> QED BY <2>1, <2>2
<1>9. CASE head = NULL /\ Only(n, e) /\ UNCHANGED lost
  <2>1. 1 \in 1 .. N + 1 /\ Len(Items) + 1 = 1 /\ Items = <<>> BY <1>3, <1>9
  <2>2. Between(n, e, PrevOf(s, 1), NextOf(s, 1)) BY <1>5, <1>9 DEF Only
  <2>3. Inv' /\ L!InsertedAt(1, e) BY <1>8, <1>9, <2>1, <2>2
  <2>4. r = NULL => pos = 1 BY <2>1
  <2> HIDE DEF pos
  <2> QED BY <2>1, <2>3, <2>4
<1>10. CASE /\ head # NULL /\ r = NULL
            /\ Behind(n, e, dpl_get_reference_at_index(size)) /\ UNCHANGED lost
  <2>1. Between(n, e, PrevOf(s, N + 1), NextOf(s, N + 1)) BY <1>5, <1>6, <1>10 DEF Behind
  <2>2. N + 1 \in 1 .. N + 1 /\ pos = N + 1 /\ pos # 0 BY <1>3, <1>10
  <2> HIDE DEF pos
  <2> QED BY <1>8, <1>10, <2>1, <2>2
<1>11. CASE /\ head # NULL /\ r # NULL /\ dpl_get_index_of_reference(r) # -1
            /\ Before(n, e, r) /\ UNCHANGED lost
  <2>1. PICK i \in 1 .. N : s[i] = r BY <1>1, <1>2, <1>7, <1>11, IndexIs DEF N
  <2>2. Between(n, e, PrevOf(s, i), NextOf(s, i)) BY <1>5, <1>11, <2>1 DEF Before
  <2>3. L!PositionOf(r) = i /\ i # 0 /\ i \in 1 .. N + 1 BY <1>1, <1>2, <1>3, <2>1, PositionIs DEF N
  <2>4. pos = i BY <1>11, <2>3
  <2> HIDE DEF pos
  <2> QED BY <1>8, <1>11, <2>2, <2>3, <2>4
<1>12. CASE head # NULL /\ dpl_get_index_of_reference(r) = -1
  <2>1. r # NULL BY <1>1, <1>2, <1>3, <1>12, IndexIs DEF N
  <2>2. \A i \in 1 .. N : s[i] # r
    <3>1. \A i \in 1 .. N : dpl_get_index_of_reference(s[i]) = i - 1 BY <1>1, <1>2, IndexIs DEF N
    <3> QED BY <1>3, <1>12, <3>1
  <2>3. L!PositionOf(r) = 0 BY <1>1, <1>2, <2>2, PositionIs DEF N
  <2>4. /\ next' = [m \in heap \cup {n} |-> IF m = n THEN NULL ELSE next[m]]
        /\ prev' = [m \in heap \cup {n} |-> IF m = n THEN NULL ELSE prev[m]]
        /\ element' = [m \in heap \cup {n} |-> IF m = n THEN e ELSE element[m]]
        /\ lost' = lost \cup {n} /\ UNCHANGED <<head, size>>
    BY <1>12, <2>1 DEF dpl_insert_at_reference
  <2>5. TypeOK' /\ Chain(s)' BY <1>1, <1>2, <2>4, LostStep
  <2>6. \A i \in 1 .. N : element'[s[i]] = element[s[i]] BY <1>1, <1>2, <2>4, ChainFacts DEF N
  <2>7. Inv' /\ Items' = Items BY <1>1, <1>2, <2>5, <2>6, ItemsKept DEF N
  <2> QED BY <2>1, <2>3, <2>7
<1> QED BY <1>9, <1>10, <1>11, <1>12 DEF dpl_insert_at_reference

(* An element goes before the first one that is not less, and an ordered    *)
(* list stays in order.                                                     *)
LEMMA SortedStays ==
  ASSUME NEW u \in Seq(Row), NEW x \in Row, NEW pos \in 1 .. Len(u) + 1, L!Sorted(u),
         \A i \in 1 .. Len(u) : i < pos => u[i].element < x.element,
         pos # Len(u) + 1 => u[pos].element >= x.element
  PROVE  L!Sorted(InsertAt(u, pos, x))
<1> DEFINE N == Len(u)
           v == InsertAt(u, pos, x)
<1>1. /\ N \in Nat /\ DOMAIN u = 1 .. N
      /\ \A i \in 1 .. N : u[i] \in Row
  BY LenProperties, ElementOfSeq
<1>2. /\ v \in Seq(Row) /\ Len(v) = N + 1
      /\ \A i \in 1 .. N + 1 : v[i] = IF i < pos THEN u[i] ELSE IF i = pos THEN x ELSE u[i - 1]
  BY Inserted
<1>3. DOMAIN v = 1 .. N + 1 BY <1>2, LenProperties
<1>4. x.element \in Int /\ \A i \in 1 .. N : u[i].element \in Int
  BY <1>1, DPListAssumption DEF Row
<1>5. \A i, j \in 1 .. N : i <= j => u[i].element <= u[j].element
  <2> TAKE i, j \in 1 .. N
  <2>1. i < j => u[i].element <= u[j].element BY <1>1 DEF L!Sorted
  <2>2. i = j => u[i].element <= u[j].element BY <1>4
  <2> QED BY <2>1, <2>2
<1>6. \A i \in 1 .. N : i >= pos => x.element <= u[i].element
  <2> SUFFICES ASSUME NEW i \in 1 .. N, i >= pos PROVE x.element <= u[i].element OBVIOUS
  <2>1. pos \in 1 .. N /\ pos # N + 1 BY <1>1
  <2>2. u[pos].element <= u[i].element BY <1>5, <2>1
  <2> QED BY <1>4, <2>1, <2>2
<1> HIDE DEF v
<1>7. \A i, j \in 1 .. N + 1 : i < j => v[i].element <= v[j].element
  <2> SUFFICES ASSUME NEW i \in 1 .. N + 1, NEW j \in 1 .. N + 1, i < j
               PROVE  v[i].element <= v[j].element
    OBVIOUS
  <2>1. CASE j < pos
    <3>1. i \in 1 .. N /\ j \in 1 .. N /\ i < pos /\ i <= j BY <1>1, <2>1
    <3>2. v[i] = u[i] /\ v[j] = u[j] BY <1>2, <2>1, <3>1
    <3> QED BY <1>5, <3>1, <3>2
  <2>2. CASE j = pos
    <3>1. i \in 1 .. N /\ i < pos BY <1>1, <2>2
    <3>2. v[i] = u[i] /\ v[j] = x BY <1>2, <2>2, <3>1
    <3> QED BY <1>4, <3>1, <3>2
  <2>3. CASE j > pos
    <3>1. j - 1 \in 1 .. N /\ j - 1 >= pos /\ v[j] = u[j - 1] BY <1>1, <1>2, <2>3
    <3>2. CASE i < pos
      <4>1. i \in 1 .. N /\ v[i] = u[i] /\ i <= j - 1 BY <1>1, <1>2, <3>1, <3>2
      <4> QED BY <1>5, <3>1, <4>1
    <3>3. CASE i = pos
      <4>1. v[i] = x BY <1>2, <3>3
      <4> QED BY <1>6, <3>1, <4>1
    <3>4. CASE i > pos
      <4>1. i - 1 \in 1 .. N /\ v[i] = u[i - 1] /\ i - 1 <= j - 1 BY <1>1, <1>2, <3>4
      <4> QED BY <1>5, <3>1, <4>1
    <3> QED BY <1>1, <3>2, <3>3, <3>4
  <2> QED BY <1>1, <2>1, <2>2, <2>3
<1> QED BY <1>3, <1>7 DEF v, L!Sorted

LEMMA InsertSortedStep ==
  ASSUME Inv, exists, exists' = exists, ret' = "list",
         NEW n \in Node \ heap, NEW e \in Element, dpl_insert_sorted(n, e)
  PROVE  Inv' /\ L!Change
<1>1. PICK s \in Seq(Node) : Chain(s) BY DEF Inv
<1>2. TypeOK BY DEF Inv
<1> DEFINE N == Len(s)
           P == {i \in 1 .. N : element[s[i]] >= e}
           pos == IF P = {} THEN N + 1 ELSE Min(P)
           r == FirstSuch({m \in Visited : element[m] >= e})
<1>3. /\ N \in Nat /\ (head = NULL <=> N = 0)
      /\ \A i \in 1 .. N : s[i] # NULL
  BY <1>1, <1>2, ChainFacts
<1>4. P \in SUBSET (1 .. N) /\ P \in SUBSET Nat BY <1>3
<1>5. r = IF P = {} THEN NULL ELSE s[Min(P)]
  <2>1. Visited = {s[i] : i \in 1 .. N} BY <1>1, <1>2, VisitedAre
  <2>2. {m \in Visited : element[m] >= e} = {s[i] : i \in P} BY <2>1
  <2> HIDE DEF P
  <2>3. FirstSuch({s[i] : i \in P}) = IF P = {} THEN NULL ELSE s[Min(P)]
    BY <1>1, <1>2, <1>4, FirstIs
  <2> QED BY <2>2, <2>3
<1>6. P # {} => Min(P) \in P /\ \A i \in P : Min(P) <= i BY <1>4, MinNat
<1>7. /\ pos \in 1 .. N + 1
      /\ \A i \in 1 .. N : i < pos => i \notin P
      /\ pos # N + 1 => pos \in P
  <2>1. CASE P = {} BY <1>3, <2>1
  <2>2. CASE P # {}
    <3>1. PICK m \in P : m = Min(P) /\ \A i \in P : m <= i BY <1>6, <2>2
    <3>2. m \in 1 .. N /\ pos = m BY <2>2, <3>1
    <3>3. \A i \in 1 .. N : i < m => i \notin P BY <1>3, <3>1, <3>2
    <3> HIDE DEF P, pos
    <3> QED BY <1>3, <3>1, <3>2, <3>3
  <2> QED BY <2>1, <2>2
<1>8. /\ \A i \in 1 .. N : prev[s[i]] = PrevOf(s, i) /\ s[i] = NextOf(s, i)
      /\ head # NULL => PrevOf(s, N + 1) = s[N] /\ NextOf(s, N + 1) = next[s[N]]
      /\ head = NULL => PrevOf(s, 1) = NULL /\ NextOf(s, 1) = NULL
      /\ size = N
  BY <1>1, <1>2, Neighbours
<1>9. head # NULL => dpl_get_last_reference = s[N]
  <2>1. head # NULL => dpl_get_reference_at_index(size) = s[Clip(N, N)]
    BY <1>1, <1>2, <1>3, <1>8, ReferenceAt
  <2>2. head # NULL => Clip(N, N) = N BY <1>3 DEF Clip
  <2> QED BY <2>1, <2>2 DEF dpl_get_last_reference
<1> HIDE DEF r
<1>10. /\ IF head = NULL THEN Only(n, e)
          ELSE IF r # NULL THEN Before(n, e, r)
          ELSE Behind(n, e, dpl_get_last_reference)
       /\ call' = <<"insert_sorted", e>> /\ lost' = lost
  BY DEF dpl_insert_sorted, r
<1>11. Between(n, e, PrevOf(s, pos), NextOf(s, pos))
  <2>1. CASE head = NULL
    <3>1. N = 0 /\ pos = 1 BY <1>3, <1>7, <2>1
    <3> HIDE DEF pos
    <3> QED BY <1>8, <1>10, <2>1, <3>1 DEF Only
  <2>2. CASE head # NULL /\ P # {}
    <3>1. r = s[pos] /\ pos \in 1 .. N BY <1>4, <1>5, <1>6, <2>2
    <3>2. r # NULL BY <1>3, <3>1
    <3> HIDE DEF pos, P
    <3> QED BY <1>8, <1>10, <2>2, <3>1, <3>2 DEF Before
  <2>3. CASE head # NULL /\ P = {}
    <3>1. r = NULL /\ pos = N + 1 BY <1>5, <2>3
    <3> HIDE DEF pos, P
    <3> QED BY <1>8, <1>9, <1>10, <2>3, <3>1 DEF Behind
  <2> QED BY <2>1, <2>2, <2>3
<1>12. P = {i \in 1 .. N : element[s[i]] >= e} OBVIOUS
<1> HIDE DEF pos, P
<1> DEFINE x == [ref |-> n, element |-> e]
<1>13. Inv' /\ L!InsertedAt(pos, e) /\ Items' = InsertAt(Items, pos, x)
  BY <1>1, <1>2, <1>7, <1>10, <1>11, ItemsInserted
<1>14. /\ Items \in Seq(Row) /\ Len(Items) = N
       /\ \A i \in 1 .. N : Items[i].element = element[s[i]] /\ element[s[i]] \in Element
  BY <1>1, <1>2, ItemsFacts
<1>15. L!Sorted(Items) => L!Sorted(Items')
  <2> SUFFICES ASSUME L!Sorted(Items) PROVE L!Sorted(InsertAt(Items, pos, x)) BY <1>13
  <2>1. x \in Row /\ x.element = e BY DEF Row
  <2> HIDE DEF x
  <2>2. \A i \in 1 .. N : element[s[i]] \in Int /\ e \in Int BY <1>14, DPListAssumption
  <2>3. \A i \in 1 .. Len(Items) : i < pos => Items[i].element < x.element
    BY <1>7, <1>12, <1>14, <2>1, <2>2
  <2>4. pos # Len(Items) + 1 => Items[pos].element >= x.element
    BY <1>7, <1>12, <1>14, <2>1, <2>2
  <2>5. pos \in 1 .. Len(Items) + 1 BY <1>7, <1>14
  <2> QED BY <1>14, <2>1, <2>3, <2>4, <2>5, SortedStays
<1>16. \E p \in 1 .. Len(Items) + 1 : L!InsertedAt(p, e) BY <1>7, <1>13, <1>14
<1> QED BY <1>10, <1>13, <1>15, <1>16 DEF L!Change

(* A call that removes nothing. *)
LEMMA KeepStep ==
  ASSUME TypeOK, NEW s \in Seq(Node), Chain(s), Keep, UNCHANGED <<exists, lost>>,
         ret' \in {"list", NULL}
  PROVE  Inv' /\ Items' = Items
<1>1. exists' \in BOOLEAN /\ (exists => exists') /\ UNCHANGED <<head, size, nodes>>
  BY DEF Keep, nodes, TypeOK
<1>2. TypeOK' /\ Chain(s)' BY <1>1, SameStep
<1>3. \A i \in 1 .. Len(s) : element'[s[i]] = element[s[i]] BY DEF Keep
<1> QED BY <1>2, <1>3, ItemsKept

LEMMA RemoveAtIndexStep ==
  ASSUME Inv, exists, UNCHANGED <<exists, lost>>, NEW k \in Index, dpl_remove_at_index(k)
  PROVE  Inv' /\ ret' = "list" /\ L!Change
<1>1. PICK s \in Seq(Node) : Chain(s) BY DEF Inv
<1>2. TypeOK BY DEF Inv
<1> DEFINE N == Len(s)
           pos == Clip(k, N)
<1>3. /\ N \in Nat /\ (head = NULL <=> N = 0) /\ k \in Int /\ size = N
      /\ Len(Items) = N /\ (Items = <<>> <=> N = 0)
  <2>1. Cardinality(Node) \in Nat BY DPListAssumption, FS_CardinalityType
  <2>2. k \in Int BY <2>1 DEF Index
  <2> QED BY <1>1, <1>2, <2>2, ChainFacts, ItemsFacts, Neighbours
<1>4. N # 0 => pos \in 1 .. N BY <1>3 DEF Clip
<1>5. N # 0 => dpl_get_reference_at_index(k) = s[pos] /\ head = s[1]
  BY <1>1, <1>2, <1>3, ReferenceAt DEF Chain
<1>6. /\ call' = <<"remove_at_index", k>> /\ ret' = "list"
      /\ IF size = 0 THEN Keep
         ELSE IF size = 1 THEN Unlink(head)
         ELSE Unlink(dpl_get_reference_at_index(k))
  BY DEF dpl_remove_at_index
<1>7. ret' \in {"list", NULL} BY <1>6
<1> HIDE DEF N
<1>8. Inv' /\ Items' = IF Items = <<>> THEN Items ELSE L!RemoveAt(Items, pos)
  <2>1. CASE N = 0 BY <1>1, <1>2, <1>3, <1>6, <1>7, <2>1, KeepStep
  <2>2. CASE N # 0
    <3>1. N = 1 => pos = 1 BY <1>3 DEF Clip
    <3> HIDE DEF pos
    <3>2. Unlink(s[pos]) BY <1>3, <1>5, <1>6, <2>2, <3>1
    <3>3. pos \in 1 .. Len(s) BY <1>4, <2>2 DEF N
    <3>4. Inv' /\ Items' = L!RemoveAt(Items, pos)
      BY <1>1, <1>2, <1>7, <3>2, <3>3, ItemsRemoved
    <3> QED BY <1>3, <2>2, <3>4
  <2> QED BY <2>1, <2>2
<1>9. pos = L!Clip(k, Len(Items)) BY <1>3 DEF Clip, L!Clip
<1> HIDE DEF pos
<1> QED BY <1>6, <1>8, <1>9 DEF L!Change

LEMMA RemoveAtReferenceStep ==
  ASSUME Inv, exists, UNCHANGED <<exists, lost>>, NEW r \in Pointer, dpl_remove_at_reference(r)
  PROVE  Inv' /\ ret' = "list" /\ L!Change
<1>1. PICK s \in Seq(Node) : Chain(s) BY DEF Inv
<1>2. TypeOK BY DEF Inv
<1> DEFINE N == Len(s)
           pos == IF r = NULL THEN Len(Items) ELSE L!PositionOf(r)
<1>3. /\ N \in Nat /\ (head = NULL <=> N = 0) /\ size = N /\ Len(Items) = N
      /\ r \in Node \cup {NULL}
  BY <1>1, <1>2, ChainFacts, ItemsFacts, Neighbours DEF Pointer
<1>4. /\ call' = <<"remove_at_reference", r>> /\ ret' = "list"
      /\ \/ head = NULL /\ Keep
         \/ head # NULL /\ r = NULL /\ Unlink(dpl_get_reference_at_index(size))
         \/ head # NULL /\ r # NULL /\
            IF dpl_get_index_of_reference(r) = -1 THEN Keep ELSE Unlink(r)
  BY DEF dpl_remove_at_reference
<1>5. ret' \in {"list", NULL} BY <1>4
<1>6. Keep => Inv' /\ Items' = Items BY <1>1, <1>2, <1>5, KeepStep
<1>7. ASSUME NEW p \in 1 .. N, Unlink(s[p]) PROVE Inv' /\ Items' = L!RemoveAt(Items, p)
  BY <1>1, <1>2, <1>5, <1>7, ItemsRemoved
<1>8. \A i \in 1 .. N : dpl_get_index_of_reference(s[i]) = i - 1 /\ L!PositionOf(s[i]) = i
  BY <1>1, <1>2, IndexIs, PositionIs
<1>9. (\A i \in 1 .. N : s[i] # r) =>
         L!PositionOf(r) = 0 /\ (r \in Node => dpl_get_index_of_reference(r) = -1)
  BY <1>1, <1>2, IndexIs, PositionIs
<1>10. N # 0 => dpl_get_reference_at_index(size) = s[N]
  <2>1. N # 0 => dpl_get_reference_at_index(size) = s[Clip(N, N)]
    BY <1>1, <1>2, <1>3, ReferenceAt
  <2>2. N # 0 => Clip(N, N) = N BY <1>3 DEF Clip
  <2> QED BY <2>1, <2>2
<1> HIDE DEF N
<1>11. Inv' /\ Items' = IF pos = 0 THEN Items ELSE L!RemoveAt(Items, pos)
  <2>1. CASE head = NULL /\ Keep
    <3>1. N = 0 /\ \A i \in 1 .. N : s[i] # r BY <1>3, <2>1
    <3>2. pos = 0 BY <1>3, <1>9, <3>1
    <3> QED BY <1>6, <2>1, <3>2
  <2>2. CASE head # NULL /\ r = NULL /\ Unlink(dpl_get_reference_at_index(size))
    <3>1. N # 0 /\ N \in 1 .. N /\ pos = N BY <1>3, <2>2
    <3> HIDE DEF pos
    <3> QED BY <1>7, <1>10, <2>2, <3>1
  <2>3. CASE head # NULL /\ r # NULL /\ \E i \in 1 .. N : s[i] = r
    <3>1. PICK i \in 1 .. N : s[i] = r BY <2>3
    <3>2. dpl_get_index_of_reference(r) # -1 /\ pos = i /\ i # 0 BY <1>3, <1>8, <2>3, <3>1
    <3>3. Unlink(s[i]) BY <1>4, <2>3, <3>1, <3>2
    <3> HIDE DEF pos
    <3> QED BY <1>7, <3>2, <3>3
  <2>4. CASE head # NULL /\ r # NULL /\ ~\E i \in 1 .. N : s[i] = r
    <3>1. dpl_get_index_of_reference(r) = -1 /\ pos = 0 BY <1>3, <1>9, <2>4
    <3>2. Keep BY <1>4, <2>4, <3>1
    <3> QED BY <1>6, <3>1, <3>2
  <2> QED BY <1>4, <2>1, <2>2, <2>3, <2>4
<1> QED BY <1>3, <1>4, <1>11 DEF L!Change

LEMMA RemoveElementStep ==
  ASSUME Inv, exists, UNCHANGED <<exists, lost>>, NEW e \in Element, dpl_remove_element(e)
  PROVE  /\ Inv'
         /\ \/ ret' = "list" /\ L!Change
            \/ RemovesFromNothing
<1>1. PICK s \in Seq(Node) : Chain(s) BY DEF Inv
<1>2. TypeOK BY DEF Inv
<1> DEFINE N == Len(s)
           P == Having(s, e)
           r == dpl_get_reference_of_element(e)
           pos == L!SelectInSeq(Items, LAMBDA it : it.element = e)
<1>3. /\ N \in Nat /\ (head = NULL <=> N = 0) /\ (Items = <<>> <=> N = 0)
      /\ \A i \in 1 .. N : s[i] # NULL
  BY <1>1, <1>2, ChainFacts, ItemsFacts
<1>4. r = IF P = {} THEN NULL ELSE s[Min(P)] BY <1>1, <1>2, ElementIs
<1>5. P # {} => Min(P) \in P /\ P \subseteq 1 .. N
  <2>1. P \in SUBSET Nat /\ P \subseteq 1 .. N BY <1>3 DEF Having
  <2> QED BY <2>1, MinNat
<1>6. pos = IF P = {} THEN 0 ELSE Min(P)
  <2> DEFINE I == {i \in 1 .. Len(Items) : Items[i].element = e}
  <2>1. I = P BY <1>1, <1>2, ItemsFacts DEF Having
  <2>2. pos = IF I # {} THEN Min(I) ELSE 0 BY DEF L!SelectInSeq, L!Min, Min
  <2> HIDE DEF I, P, pos
  <2> QED BY <2>1, <2>2
<1> HIDE DEF r, P
<1>7. /\ call' = <<"remove_element", e>>
      /\ ret' = IF head = NULL THEN NULL ELSE "list"
      /\ IF head = NULL \/ r = NULL THEN Keep ELSE Unlink(r)
  BY DEF dpl_remove_element, r
<1>8. ret' \in {"list", NULL} BY <1>7
<1>9. Keep => Inv' /\ Items' = Items BY <1>1, <1>2, <1>8, KeepStep
<1>10. ASSUME NEW p \in 1 .. N, Unlink(s[p]) PROVE Inv' /\ Items' = L!RemoveAt(Items, p)
  BY <1>1, <1>2, <1>8, <1>10, ItemsRemoved
<1> HIDE DEF N
<1>11. CASE head = NULL
  <2>1. Inv' /\ Items' = Items /\ ret' = NULL /\ Items = <<>> BY <1>3, <1>7, <1>9, <1>11
  <2>2. call'[1] = "remove_element" BY <1>7
  <2> QED BY <2>1, <2>2 DEF RemovesFromNothing
<1>12. CASE head # NULL
  <2>1. Inv' /\ Items' = IF pos = 0 THEN Items ELSE L!RemoveAt(Items, pos)
    <3> HIDE DEF pos
    <3>1. CASE P = {}
      <4>1. pos = 0 /\ Keep BY <1>4, <1>6, <1>7, <3>1
      <4> QED BY <1>9, <4>1
    <3>2. CASE P # {}
      <4>1. pos \in 1 .. N /\ r = s[pos] BY <1>4, <1>5, <1>6, <3>2
      <4>2. pos # 0 /\ r # NULL BY <1>3, <4>1
      <4>3. Unlink(s[pos]) BY <1>7, <1>12, <4>1, <4>2
      <4> QED BY <1>10, <4>1, <4>2, <4>3
    <3> QED BY <3>1, <3>2
  <2>2. Items # <<>> /\ ret' = "list" BY <1>3, <1>7, <1>12
  <2> QED BY <1>7, <2>1, <2>2 DEF L!Change
<1> QED BY <1>11, <1>12

LEMMA InsertFailsStep ==
  ASSUME Inv, InsertFails
  PROVE  Inv' /\ ret' = NULL /\ L!Nothing
<1>1. PICK s \in Seq(Node) : Chain(s) BY DEF Inv
<1>2. TypeOK BY DEF Inv
<1>3. ret' = NULL /\ Keep /\ UNCHANGED <<exists, lost>> BY DEF InsertFails, Keep, nodes
<1>4. Inv' /\ Items' = Items BY <1>1, <1>2, <1>3, KeepStep
<1>5. PICK e \in Element :
        call' \in {<<"insert_at_index", e, k>> : k \in Index}
                    \cup {<<"insert_at_reference", e, r>> : r \in Pointer}
                    \cup {<<"insert_sorted", e>>}
  BY DEF InsertFails
<1>6. call'[1] \in {"insert_at_index", "insert_at_reference", "insert_sorted"} BY <1>5
<1> QED BY <1>3, <1>4, <1>6 DEF L!Nothing

LEMMA FreeAllStep ==
  ASSUME Inv, dpl_free
  PROVE  Inv' /\ call' = <<"free">> /\ Items' = <<>> /\ ret' = NULL
<1>1. PICK s \in Seq(Node) : Chain(s) BY DEF Inv
<1>2. TypeOK BY DEF Inv
<1>3. TypeOK' /\ Chain(<<>>)' BY <1>1, <1>2, FreeStep
<1>4. <<>> \in Seq(Node) BY EmptySeq
<1>5. Inv' BY <1>3, <1>4 DEF Inv
<1>6. Items' = <<>> BY DEF dpl_free, Items
<1> QED BY <1>5, <1>6 DEF dpl_free

LEMMA CreateStep ==
  ASSUME Inv, dpl_create
  PROVE  Inv' /\ ret' = "list" /\ L!Recreate
<1>1. PICK s \in Seq(Node) : Chain(s) BY DEF Inv
<1>2. TypeOK BY DEF Inv
<1>3. s = <<>> BY <1>1 DEF Chain, dpl_create
<1>4. exists' \in BOOLEAN /\ (exists => exists') /\ ret' \in {"list", NULL}
      /\ UNCHANGED <<head, size, nodes>>
  BY DEF dpl_create
<1>5. TypeOK' /\ Chain(s)' BY <1>1, <1>2, <1>4, SameStep
<1>6. Inv' BY <1>5 DEF Inv
<1>7. Items' = <<>> BY <1>3, <1>5 DEF Chain, Items
<1> QED BY <1>6, <1>7 DEF dpl_create, L!Recreate

LEMMA InitInv == Init => Inv /\ L!Init
<1> SUFFICES ASSUME Init PROVE Inv /\ L!Init OBVIOUS
<1>1. <<>> \in Seq(Node) /\ Len(<<>>) = 0 BY EmptySeq
<1>2. heap = {} BY DEF Init, heap
<1>3. TypeOK
  <2>1. 0 \in 0 .. Cardinality(Node) BY DPListAssumption, FS_CardinalityType
  <2>2. next \in [heap -> Pointer] /\ prev \in [heap -> Pointer] /\ element \in [heap -> Element]
    <3>1. next = [n \in heap |-> NULL] /\ prev = [n \in heap |-> NULL]
          /\ element = [n \in heap |-> NULL]
      BY <1>2 DEF Init
    <3> QED BY <1>2, <3>1
  <2> QED BY <1>2, <2>1, <2>2 DEF Init, TypeOK, Pointer
<1>4. Chain(<<>>) BY <1>1, <1>2 DEF Init, Chain
<1>5. L!Init BY DEF Init, L!Init, Items
<1> QED BY <1>1, <1>3, <1>4, <1>5 DEF Inv

(* Every call keeps the pointers right, and is a call of ElementList or one *)
(* of the two departures.                                                   *)
LEMMA NextStep ==
  Inv /\ [Next]_vars => Inv' /\ [L!Next \/ Departs]_<<Items, call, ret>>
<1> SUFFICES ASSUME Inv, [Next]_vars PROVE Inv' /\ [L!Next \/ Departs]_<<Items, call, ret>>
  OBVIOUS
<1>1. CASE Insertion
  <2>1. exists /\ exists' = exists /\ ret' = "list" BY <1>1 DEF Insertion
  <2>2. PICK n \in Node \ heap, e \in Element :
          \/ \E k \in Index : dpl_insert_at_index(n, e, k)
          \/ \E r \in Pointer : dpl_insert_at_reference(n, e, r)
          \/ dpl_insert_sorted(n, e)
    BY <1>1 DEF Insertion
  <2>3. Inv' /\ (L!Change \/ InsertsForUnknown)
    BY <2>1, <2>2, InsertAtIndexStep, InsertAtReferenceStep, InsertSortedStep
  <2> QED BY <2>1, <2>3 DEF L!Next, Departs
<1>2. CASE InsertFails BY <1>2, InsertFailsStep DEF L!Next
<1>3. CASE Removal
  <2>1. exists /\ UNCHANGED <<exists, lost>> BY <1>3 DEF Removal
  <2>2. CASE \E k \in Index : dpl_remove_at_index(k)
    BY <2>1, <2>2, RemoveAtIndexStep DEF L!Next
  <2>3. CASE \E r \in Pointer : dpl_remove_at_reference(r)
    BY <2>1, <2>3, RemoveAtReferenceStep DEF L!Next
  <2>4. CASE \E e \in Element : dpl_remove_element(e)
    BY <2>1, <2>4, RemoveElementStep DEF L!Next, Departs
  <2> QED BY <1>3, <2>2, <2>3, <2>4 DEF Removal
<1>4. CASE dpl_free BY <1>4, FreeAllStep DEF L!Next
<1>5. CASE dpl_create BY <1>5, CreateStep DEF L!Next
<1>6. CASE UNCHANGED vars
  <2>1. PICK s \in Seq(Node) : Chain(s) BY DEF Inv
  <2>2. TypeOK BY DEF Inv
  <2>3. ret' \in {"list", NULL} /\ Keep /\ UNCHANGED <<exists, lost>>
    BY <1>6, <2>2 DEF vars, nodes, Keep, TypeOK
  <2>4. Inv' /\ Items' = Items BY <2>1, <2>2, <2>3, KeepStep
  <2> QED BY <1>6, <2>4 DEF vars
<1> QED BY <1>1, <1>2, <1>3, <1>4, <1>5, <1>6 DEF Next

(* In every reachable state, whatever calls were made with whatever indices *)
(* and references, the pointers make a sequence of nodes without repetition *)
(* of exactly the nodes that are allocated and not lost.                    *)
THEOREM Invariant == Spec => []Inv
BY InitInv, NextStep, PTL DEF Spec

(* Each function of dplist.c does to the list what dplist.h says of it, but *)
(* for the two calls on an empty list that Departs describes.               *)
THEOREM DoesWhatHeaderSays == Spec => ImplementsList
BY InitInv, NextStep, Invariant, PTL DEF Spec, ImplementsList

(* Callers that make neither of the two calls get exactly the list that     *)
(* dplist.h promises.                                                       *)
THEOREM ExactWithoutDepartures ==
  Spec /\ [][~Departs]_<<Items, call, ret>> => L!Spec
<1>1. [L!Next \/ Departs]_<<Items, call, ret>> /\ [~Departs]_<<Items, call, ret>>
        => [L!Next]_<<Items, call, ret>>
  OBVIOUS
<1> QED BY <1>1, DoesWhatHeaderSays, PTL DEF ImplementsList, L!Spec

------------------------------------------------------------------------------
(* The invariants of the list *)

LEMMA InvLinked == Inv => Linked
<1> SUFFICES ASSUME Inv PROVE Linked OBVIOUS
<1>1. PICK s \in Seq(Node) : Chain(s) BY DEF Inv
<1>2. TypeOK BY DEF Inv
<1> DEFINE N == Len(s)
<1>3. /\ N \in Nat /\ (head = NULL <=> N = 0)
      /\ \A i \in 1 .. N : s[i] # NULL
  BY <1>1, <1>2, ChainFacts
<1>4. /\ Visited = {s[i] : i \in 1 .. N} /\ Cardinality(Visited) = N
  BY <1>1, <1>2, VisitedAre
<1>5. /\ size = N
      /\ N # 0 => head = s[1]
      /\ \A i \in 1 .. N : /\ next[s[i]] = IF i = N THEN NULL ELSE s[i + 1]
                           /\ prev[s[i]] = IF i = 1 THEN NULL ELSE s[i - 1]
  <2>1. N # 0 => s # <<>> BY EmptySeq
  <2> QED BY <1>1, <2>1 DEF Chain
<1>6. N # 0 => dpl_get_last_reference = s[N]
  <2>1. N # 0 => dpl_get_reference_at_index(size) = s[Clip(N, N)]
    BY <1>1, <1>2, <1>3, <1>5, ReferenceAt
  <2>2. N # 0 => Clip(N, N) = N BY <1>3 DEF Clip
  <2> QED BY <2>1, <2>2 DEF dpl_get_last_reference
<1> HIDE DEF N
<1>7. head # NULL => prev[head] = NULL /\ next[dpl_get_last_reference] = NULL
  BY <1>3, <1>5, <1>6
<1>8. ASSUME NEW r \in Visited
      PROVE  /\ next[r] # NULL => next[r] \in Visited /\ prev[next[r]] = r
             /\ prev[r] # NULL => next[prev[r]] = r
  <2>1. PICK i \in 1 .. N : r = s[i] BY <1>4
  <2>2. ASSUME next[r] # NULL PROVE next[r] \in Visited /\ prev[next[r]] = r
    <3>1. i + 1 \in 1 .. N /\ i + 1 # 1 /\ (i + 1) - 1 = i /\ next[r] = s[i + 1]
      BY <1>3, <1>5, <2>1, <2>2
    <3>2. prev[s[i + 1]] = s[i] BY <1>5, <3>1
    <3> QED BY <1>4, <2>1, <3>1, <3>2
  <2>3. ASSUME prev[r] # NULL PROVE next[prev[r]] = r
    <3>1. i - 1 \in 1 .. N /\ i - 1 # N /\ (i - 1) + 1 = i /\ prev[r] = s[i - 1]
      BY <1>3, <1>5, <2>1, <2>3
    <3>2. next[s[i - 1]] = s[i] BY <1>5, <3>1
    <3> QED BY <2>1, <3>1, <3>2
  <2> QED BY <2>2, <2>3
<1> QED BY <1>2, <1>4, <1>5, <1>7, <1>8 DEF Linked

(* Going forward and going back are inverse, both ends are marked and size  *)
(* is the number of nodes: all that the assertions of dplist.c demand.      *)
THEOREM StaysLinked == Spec => []Linked
BY Invariant, InvLinked, PTL

LEMMA InvHeapExact == Inv => HeapExact
<1> SUFFICES ASSUME Inv PROVE HeapExact OBVIOUS
<1>1. PICK s \in Seq(Node) : Chain(s) BY DEF Inv
<1>2. Visited = heap \ lost BY <1>1, VisitedAre DEF Inv
<1>3. lost \subseteq heap BY DEF Inv, TypeOK
<1> QED BY <1>2, <1>3 DEF HeapExact

(* No call leaks a node but dpl_insert_at_reference with a reference that   *)
(* is not in the list, and no node of the list is freed.                    *)
THEOREM NothingLeaked == Spec => []HeapExact
BY Invariant, InvHeapExact, PTL

LEMMA MinOfOne == \A i \in Nat : Min({i}) = i
<1> TAKE i \in Nat
<1>1. {i} \in SUBSET Nat /\ {i} # {} OBVIOUS
<1>2. Min({i}) \in {i} BY <1>1, MinNat
<1> QED BY <1>2

LEMMA InvQueries == Inv => QueriesAnswer
<1> SUFFICES ASSUME Inv, exists PROVE QueriesAnswer BY DEF QueriesAnswer
<1>1. PICK s \in Seq(Node) : Chain(s) BY DEF Inv
<1>2. TypeOK BY DEF Inv
<1> DEFINE n      == Len(Items)
           Pos(r) == {m \in 1 .. n : Items[m].ref = r}
           Has(e) == {m \in 1 .. n : Items[m].element = e}
           Ref(m) == IF m \in 1 .. n THEN Items[m].ref ELSE NULL
           Elem(m) == IF m \in 1 .. n THEN Items[m].element ELSE NULL
<1>3. /\ n \in Nat /\ Len(s) = n /\ size = n /\ (head = NULL <=> n = 0)
      /\ \A i \in 1 .. n : s[i] # NULL /\ s[i] \in Node
      /\ \A i \in 1 .. n : Items[i].ref = s[i] /\ Items[i].element = element[s[i]]
  <2>1. n = Len(s) BY <1>1, <1>2, ItemsFacts
  <2>2. Len(s) \in Nat /\ (head = NULL <=> Len(s) = 0)
    BY <1>1, <1>2, ChainFacts
  <2>3. \A i \in 1 .. Len(s) : s[i] # NULL /\ s[i] \in Node BY <1>1, <1>2, ChainFacts
  <2>4. \A i \in 1 .. Len(s) : Items[i].ref = s[i] /\ Items[i].element = element[s[i]]
    BY <1>1, <1>2, ItemsFacts
  <2>5. size = Len(s) BY <1>1 DEF Chain
  <2> HIDE DEF n
  <2> QED BY <2>1, <2>2, <2>3, <2>4, <2>5
<1>4. /\ n # 0 => head = s[1]
      /\ \A i \in 1 .. n : /\ next[s[i]] = IF i = n THEN NULL ELSE s[i + 1]
                           /\ prev[s[i]] = IF i = 1 THEN NULL ELSE s[i - 1]
      /\ \A i, j \in 1 .. n : s[i] = s[j] => i = j
  <2>1. n # 0 => s # <<>> BY <1>3, EmptySeq
  <2> QED BY <1>1, <1>3, <2>1 DEF Chain
<1>5. \A k \in Int : dpl_get_reference_at_index(k) = IF n = 0 THEN NULL ELSE s[Clip(k, n)]
  BY <1>1, <1>2, <1>3, ReferenceAt
<1>6. /\ \A i \in 1 .. n : dpl_get_index_of_reference(s[i]) = i - 1
      /\ \A r \in Node : (\A i \in 1 .. n : s[i] # r) => dpl_get_index_of_reference(r) = -1
      /\ dpl_get_index_of_reference(NULL) = n - 1
  BY <1>1, <1>2, <1>3, IndexIs
<1>7. \A m : Ref(m) = (IF m \in 1 .. n THEN s[m] ELSE NULL)
             /\ Elem(m) = (IF m \in 1 .. n THEN element[s[m]] ELSE NULL)
  BY <1>3
<1>8. \A r : Pos(r) = {i \in 1 .. n : s[i] = r} BY <1>3
<1>9. \A e \in Element : /\ Has(e) = Having(s, e)
                         /\ dpl_get_reference_of_element(e)
                              = IF Having(s, e) = {} THEN NULL ELSE s[Min(Having(s, e))]
                         /\ Having(s, e) # {} => /\ Min(Having(s, e)) \in 1 .. n
                                                 /\ CountOf(s[Min(Having(s, e))])
                                                      = Min(Having(s, e)) - 1
  <2> SUFFICES ASSUME NEW e \in Element
               PROVE  /\ Has(e) = Having(s, e)
                      /\ dpl_get_reference_of_element(e)
                           = IF Having(s, e) = {} THEN NULL ELSE s[Min(Having(s, e))]
                      /\ Having(s, e) # {} => /\ Min(Having(s, e)) \in 1 .. n
                                              /\ CountOf(s[Min(Having(s, e))])
                                                   = Min(Having(s, e)) - 1
    OBVIOUS
  <2>1. Has(e) = Having(s, e) BY <1>3 DEF Having
  <2>2. dpl_get_reference_of_element(e)
          = IF Having(s, e) = {} THEN NULL ELSE s[Min(Having(s, e))]
    BY <1>1, <1>2, ElementIs
  <2>3. ASSUME Having(s, e) # {} PROVE Min(Having(s, e)) \in 1 .. n
    <3>1. Having(s, e) \in SUBSET Nat /\ Having(s, e) \subseteq 1 .. n BY <1>3 DEF Having
    <3>2. Min(Having(s, e)) \in Having(s, e) BY <2>3, <3>1, MinNat
    <3> QED BY <3>1, <3>2
  <2>4. \A i \in 1 .. n : CountOf(s[i]) = i - 1 BY <1>1, <1>2, <1>3, CountIs
  <2> QED BY <2>1, <2>2, <2>3, <2>4
<1> HIDE DEF n, Pos, Has, Ref, Elem
<1>10. dpl_size = n BY <1>3 DEF dpl_size
<1>11. dpl_get_first_reference = Ref(1) /\ dpl_get_last_reference = Ref(n)
  <2>1. head = IF n = 0 THEN NULL ELSE s[1] BY <1>3, <1>4
  <2>2. n # 0 => Clip(n, n) = n BY <1>3 DEF Clip
  <2>3. dpl_get_reference_at_index(size) = IF n = 0 THEN NULL ELSE s[n] BY <1>3, <1>5, <2>2
  <2>4. (1 \in 1 .. n <=> n # 0) /\ (n \in 1 .. n <=> n # 0) BY <1>3
  <2> QED BY <1>7, <2>1, <2>3, <2>4 DEF dpl_get_first_reference, dpl_get_last_reference
<1>12. ASSUME NEW k \in Index
       PROVE  /\ dpl_get_reference_at_index(k) = Ref(L!Clip(k, n))
              /\ dpl_get_element_at_index(k) = Elem(L!Clip(k, n))
  <2>1. k \in Int
    <3>1. Cardinality(Node) \in Nat BY DPListAssumption, FS_CardinalityType
    <3> QED BY <3>1 DEF Index
  <2>2. PICK c : c = L!Clip(k, n) OBVIOUS
  <2>3. Clip(k, n) = c BY <2>2 DEF Clip, L!Clip
  <2>4. c \in 1 .. n <=> n # 0 BY <1>3, <2>1, <2>3 DEF Clip
  <2>5. dpl_get_reference_at_index(k) = IF n = 0 THEN NULL ELSE s[c] BY <1>5, <2>1, <2>3
  <2>6. dpl_get_element_at_index(k) = IF n = 0 THEN NULL ELSE element[s[c]]
    BY <1>3, <2>5 DEF dpl_get_element_at_index
  <2> QED BY <1>7, <2>2, <2>4, <2>5, <2>6
<1>13. ASSUME NEW r \in Node
       PROVE  LET m == IF Pos(r) = {} THEN 0 ELSE Min(Pos(r))
              IN  /\ dpl_get_index_of_reference(r) = m - 1
                  /\ dpl_get_next_reference(r) = IF m = 0 THEN NULL ELSE Ref(m + 1)
                  /\ dpl_get_previous_reference(r) = Ref(m - 1)
                  /\ dpl_get_element_at_reference(r) = Elem(m)
  <2> DEFINE m == IF Pos(r) = {} THEN 0 ELSE Min(Pos(r))
  <2>1. r # NULL BY DPListAssumption
  <2>2. CASE \E i \in 1 .. n : s[i] = r
    <3>1. PICK i \in 1 .. n : s[i] = r BY <2>2
    <3>2. m = i
      <4>1. Pos(r) = {i} /\ i \in Nat BY <1>3, <1>4, <1>8, <3>1
      <4>2. Min({i}) = i BY <4>1, MinOfOne
      <4> QED BY <4>1, <4>2
    <3> HIDE DEF m
    <3>3. dpl_get_index_of_reference(r) = i - 1 /\ i - 1 # -1 /\ i # 0 /\ head # NULL
      BY <1>3, <1>6, <3>1
    <3>4. /\ dpl_get_next_reference(r) = next[r]
          /\ dpl_get_previous_reference(r) = prev[r]
          /\ dpl_get_element_at_reference(r) = element[r]
      BY <2>1, <3>3 DEF dpl_get_next_reference, dpl_get_previous_reference,
                        dpl_get_element_at_reference
    <3>5. (i + 1 \in 1 .. n <=> i # n) /\ (i - 1 \in 1 .. n <=> i # 1) BY <1>3
    <3>6. next[r] = Ref(i + 1) /\ prev[r] = Ref(i - 1) /\ element[r] = Elem(i)
      BY <1>4, <1>7, <3>1, <3>5
    <3> QED BY <3>2, <3>3, <3>4, <3>6 DEF m
  <2>3. CASE \A i \in 1 .. n : s[i] # r
    <3>1. m = 0 BY <1>8, <2>3
    <3> HIDE DEF m
    <3>2. dpl_get_index_of_reference(r) = -1 BY <1>6, <2>3
    <3>3. /\ dpl_get_next_reference(r) = NULL
          /\ dpl_get_previous_reference(r) = NULL
          /\ dpl_get_element_at_reference(r) = NULL
      BY <2>1, <3>2 DEF dpl_get_next_reference, dpl_get_previous_reference,
                        dpl_get_element_at_reference
    <3>4. 0 - 1 \notin 1 .. n /\ 0 \notin 1 .. n /\ -1 = 0 - 1 BY <1>3
    <3>5. Ref(0 - 1) = NULL /\ Elem(0) = NULL BY <1>7, <3>4
    <3> QED BY <3>1, <3>2, <3>3, <3>4, <3>5 DEF m
  <2> QED BY <2>2, <2>3
<1>14. /\ dpl_get_index_of_reference(NULL) = n - 1
       /\ dpl_get_next_reference(NULL) = NULL
       /\ dpl_get_previous_reference(NULL) = Ref(n)
       /\ dpl_get_element_at_reference(NULL) = Elem(n)
  <2>1. dpl_get_index_of_reference(NULL) = n - 1 BY <1>6
  <2>2. dpl_get_next_reference(NULL) = NULL BY DEF dpl_get_next_reference
  <2>3. dpl_get_previous_reference(NULL) = Ref(n) BY <1>11 DEF dpl_get_previous_reference
  <2>4. dpl_get_element_at_reference(NULL) = Elem(n)
    <3>1. dpl_get_element_at_reference(NULL)
            = IF head = NULL THEN NULL ELSE element[dpl_get_last_reference]
      BY DEF dpl_get_element_at_reference
    <3>2. n \in 1 .. n <=> head # NULL BY <1>3
    <3> QED BY <1>7, <1>11, <3>1, <3>2
  <2> QED BY <2>1, <2>2, <2>3, <2>4
<1>15. ASSUME NEW e \in Element
       PROVE  LET m == IF Has(e) = {} THEN 0 ELSE Min(Has(e))
              IN  /\ n > 0 => dpl_get_index_of_element(e) = m - 1
                  /\ dpl_get_reference_of_element(e) = Ref(m)
  <2> DEFINE m == IF Has(e) = {} THEN 0 ELSE Min(Has(e))
             r == dpl_get_reference_of_element(e)
  <2>1. n > 0 => dpl_get_index_of_element(e) = IF r = NULL THEN -1 ELSE CountOf(r)
    BY <1>3 DEF dpl_get_index_of_element
  <2>2. CASE Has(e) = {}
    <3>1. r = NULL /\ m = 0 /\ 0 \notin 1 .. n BY <1>3, <1>9, <2>2
    <3>2. Ref(0) = NULL /\ -1 = 0 - 1 BY <1>7, <3>1
    <3> HIDE DEF m, r
    <3>3. r = Ref(m) /\ (n > 0 => dpl_get_index_of_element(e) = m - 1) BY <2>1, <3>1, <3>2
    <3> QED BY <3>3 DEF m, r
  <2>3. CASE Has(e) # {}
    <3>1. r = s[m] /\ m \in 1 .. n /\ CountOf(s[m]) = m - 1 BY <1>9, <2>3
    <3> HIDE DEF m, r
    <3>2. r # NULL /\ r = Ref(m) BY <1>3, <1>7, <3>1
    <3>3. n > 0 => dpl_get_index_of_element(e) = m - 1 BY <2>1, <3>1, <3>2
    <3> QED BY <3>2, <3>3 DEF m, r
  <2> QED BY <2>2, <2>3
<1> QED BY <1>10, <1>11, <1>12, <1>13, <1>14, <1>15
        DEF QueriesAnswer, n, Pos, Has, Ref, Elem

(* The answers of all queries, for any index and any reference, are those   *)
(* dplist.h gives for the sequence of elements.                             *)
THEOREM QueriesRight == Spec => []QueriesAnswer
BY Invariant, InvQueries, PTL
===============================================================================
